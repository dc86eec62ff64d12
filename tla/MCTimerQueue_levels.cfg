CONSTANTS
    a1 = a1  a2 = a2  L1 = L1  L2 = L2  L3 = L3  burn = burn  rot = rot  hero = hero
    Func = {burn, rot}
    Final = {rot}
    Arg = {a1, a2}
    Level = {L1, L2}
    WithHero = hero
    Delays <- Delay
    MaxTimers = 2
    MaxTime = 2
    MayHangup = FALSE
SPECIFICATION Spec
INVARIANTS TypeOK NoPanic MemoryHoldsOneLevel Sorted
PROPERTIES GameResumes ImplementsTimerSet FiresInOrder SplitCopies
