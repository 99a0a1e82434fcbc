SPECIFICATION FairSpec
CONSTANTS
    wolf = wolf
    guard = guard
    witch = witch
    Ids <- Three
    Named <- Three
    NoOne = NoOne
    NoEntry = NoEntry
    MaxPlayers = 3
    RoleConfig <- Config
    StrayRequests = FALSE
    MaxDays = 1
CHECK_DEADLOCK FALSE
CONSTRAINT OneDeal
PROPERTY TimeoutForcesNextPhase
