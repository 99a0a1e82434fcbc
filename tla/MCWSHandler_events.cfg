SPECIFICATION FairSpec
CONSTANTS
    ann = ann
    Players = {ann}
    Conns = {first}
    PlayerOf <- Ann
    Nothing = Nothing
    ChanCap = 2
    WireCap = 1
    SendCap = 1
    MaxEvents = 3
CHECK_DEADLOCK FALSE
PROPERTIES
    HearsInOrder
    EventArrives
