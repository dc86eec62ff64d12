SPECIFICATION Spec
CONSTANTS
    o1 = o1
    o2 = o2
    o3 = o3
    ObjId = {o1, o2, o3}
    Kind <- Kinds
    ListPrice <- Lists
    Cost <- Costs
    Saleable <- Kinds
    BILLSZ = 2
    APPEASEMENT = 2
    Stock <- Shelf
    Purse = 2
    Till = 0
    PastRobbery = {0, 1}
    Fees = {1}
    MaxOwed = 2
    Oversights = {}
INVARIANTS
    TypeOK
    BillAgrees
    GoldConserved
    SettledOutside
PROPERTIES
    NoFreeLunch
    PaysWhatIsBilled
SYMMETRY Perms
CHECK_DEADLOCK FALSE
