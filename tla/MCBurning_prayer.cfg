CONSTANTS
    o1 = o1  o2 = o2  o3 = o3  L1 = L1  L2 = L2
    ObjId = {o1, o2, o3}
    Level = {L1}
    Stock <- Stacks
    LampTimes = {2}
    CandleTimes = {1}
    AgeClose = 3
    RotTimes = {2}
    MaxCandles = 2
    LampFull = 3
    LampCap = 4
    DjinniAge = {3}
    PrayerTurns = 2
    MayShop = FALSE
    MaxTime = 3
SPECIFICATION Spec
INVARIANTS LitIffBurning
PROPERTIES TimersSettle
