SPECIFICATION Spec
CONSTANTS
    Records = {x, y, z}
    PageSize = 1
    MaxPages = 2
    Writers = {crawler, r1}
    Nobody = Nobody
    LastDay = 2
    Crawler = crawler
CHECK_DEADLOCK FALSE
SYMMETRY Symmetry
INVARIANTS
    LostForACause
PROPERTIES
    NothingMissed
    NoDataHasACause
    WrittenInOrder
