SPECIFICATION Spec
CONSTANTS
    Ids = {p1, p2, p3, p4}
    Named = {p1, p2}
    NoOne = NoOne
    NoEntry = NoEntry
    MaxPlayers = 5
    RoleConfig <- Config
    Wolves_n = 1
    Guards_n = 1
    Witches_n = 0
    Seers_n = 0
    Villagers_n = 2
    StrayRequests = FALSE
    MaxDays = 2
CHECK_DEADLOCK FALSE
SYMMETRY Symmetry
INVARIANTS
    StateMatchesPhase
    DealMatchesConfig
    PlayedWhileOpen
    LivingBallots
    NoLostWakeup
    StaleByOnePhase
    BlockedOutOfTurn
    TargetsAreLogged
    AnswerStands
