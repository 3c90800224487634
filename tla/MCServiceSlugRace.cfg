SPECIFICATION Spec
CONSTANTS
    Products = {p1}
    Categories = {c1, c2}
    Names = {n1}
    Blank = Blank
    Prices = {x1, x2}
    Slugs = {s1}
    MaxViews = 0
    Null = Null
    Requests = {r1, r2}
    Ops = {"CreateProduct", "UpdateProduct", "DeleteProduct", "CreateCategory", "DeleteCategory"}
    DatabaseFails = FALSE
    MayCrash = FALSE
    p1 = p1
    c1 = c1
    c2 = c2
    n1 = n1
    x1 = x1
    x2 = x2
    s1 = s1
    s2 = s2
    r1 = r1
    r2 = r2
SYMMETRY Symmetry
PROPERTIES
    TakenSlugIsConflict
