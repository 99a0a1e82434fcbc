SPECIFICATION Spec
CONSTANTS
    ann = ann
    Players = {ann}
    Conns = {first}
    PlayerOf <- Ann
    Nothing = Nothing
    ChanCap = 1
    WireCap = 1
    SendCap = 1
    MaxEvents = 1
CHECK_DEADLOCK FALSE
INVARIANT EventGoesToAClient
