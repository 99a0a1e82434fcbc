SPECIFICATION Spec
CONSTANTS
    Ids = {p1, p2, p3, p4, p5, p6}
    Named = {p1, p2}
    NoOne = NoOne
    NoEntry = NoEntry
    MaxPlayers = 5
    RoleConfig <- Config
    Wolves_n = 2
    Guards_n = 1
    Witches_n = 1
    Seers_n = 1
    Villagers_n = 0
    StrayRequests = TRUE
    MaxDays = 1
CHECK_DEADLOCK FALSE
CONSTRAINT NoBallots
SYMMETRY Symmetry
INVARIANTS
    NoLostWakeup
    WedgedByLateAnswer
PROPERTY PlaysByTheRules
