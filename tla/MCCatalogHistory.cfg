SPECIFICATION HistorySpec
CONSTANTS
    Products = {p1}
    Categories = {c1, c2}
    Names = {}
    Blank = Blank
    Prices = {x1}
    Slugs = {s1, s2}
    MaxViews = 1
    Null = Null
    Requests = {r1, r2}
    Ops = {"CreateProduct", "UpdateProduct", "DeleteProduct", "GetProduct", "CreateCategory", "DeleteCategory"}
    DatabaseFails = TRUE
    MayCrash = TRUE
    p1 = p1
    c1 = c1
    c2 = c2
    n1 = n1
    x1 = x1
    s1 = s1
    s2 = s2
    r1 = r1
    r2 = r2
SYMMETRY Symmetry
INVARIANTS
    TypeOK
    ViewAccounting
PROPERTIES
    StoreImplemented
    AnswersHadTheirMoment
    AnswersTellTheEffect
