SPECIFICATION FairPumps
CONSTANTS
    ann = ann
    Players = {ann}
    Conns = {first, second}
    PlayerOf <- Ann
    Nothing = Nothing
    ChanCap = 1
    WireCap = 1
    SendCap = 1
    MaxEvents = 0
CHECK_DEADLOCK FALSE
INVARIANTS
    TypeOK
    SubscribedIsServed
    RegisteredIsOpen
    CutOffInPlace
    GoneIsForgotten
PROPERTIES
    WriterFollowsReader
    ReaderFollowsWriter
