SPECIFICATION Spec
CONSTANTS
    Players = {p1, p2, p3, p4, p5}
    Rooms = {a, b}
    RoomIds = {t1, t2}
    NoRoom = NoRoom
    Requests <- MCRequests
    Half = 8
CHECK_DEADLOCK FALSE
SYMMETRY Symmetry
INVARIANTS
    TypeOK
    SeatsAreNumbered
    CookiesHold
    StartsAsAsked
PROPERTIES
    ClosedOnceStarted
