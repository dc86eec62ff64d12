CONSTANTS
    a1 = a1  a2 = a2  a3 = a3
    Null = Null
    Addr = {a1, a2, a3}
    Square = {1, 2}
    Level = {1, 2}
    Stock <- Goods
    Full <- Amount
    OcDelay <- Turns
    TinTimes = {1, 3}
    GiveUp = 1
    BookDelay = 2
SPECIFICATION Spec
CHECK_DEADLOCK FALSE
INVARIANTS PointersLive
PROPERTIES NoRefill
