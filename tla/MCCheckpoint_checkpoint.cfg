SPECIFICATION Spec
CHECK_DEADLOCK FALSE
CONSTANTS
    None = None
    Garbage = Garbage
    p1 = p1
    p2 = p2
    p3 = p3
    i1 = i1
    Proc <- AllProcs
    Item <- OneItem
    Level <- TwoLevels
    CrashIn <- Anywhere
    Answers = {}
INVARIANTS TypeOK KeptIsCommitted Conserved SoleGame
PROPERTIES ResumesCommitted Finishes
