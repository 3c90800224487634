SPECIFICATION Spec
CONSTANTS
    Runs = {r1, r2}
    CategoryDefs <- TwoCategories
    ProductDefs <- TwoProducts
    QueryTotal = 1
    ClientCategories = {c1}
    Commands = {"up"}
    LastScript = 4
    MayDie = TRUE
    Null = Null
    r1 = r1
    r2 = r2
    c1 = c1
SYMMETRY Symmetry
INVARIANTS
    TypeOK
    SectionsUnmixed
    DoneIsWhole
PROPERTIES
    StoreImplemented
CHECK_DEADLOCK FALSE
