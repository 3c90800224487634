SPECIFICATION StoreSpec
CONSTANTS
    Products = {p1, p2}
    Categories = {c1, c2, c3}
    Names = {n1}
    Blank = Blank
    Prices = {x1}
    Slugs = {s1, s2, s3}
    MaxViews = 1
    Null = Null
    p1 = p1
    p2 = p2
    c1 = c1
    c2 = c2
    c3 = c3
    n1 = n1
    x1 = x1
    s1 = s1
    s2 = s2
    s3 = s3
SYMMETRY Symmetry
INVARIANTS
    ReferentialIntegrity
    Acyclic
    TreeIsComplete
    VectorFresh
PROPERTIES
    DeletionIsFinal
CHECK_DEADLOCK FALSE
