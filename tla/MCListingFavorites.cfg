SPECIFICATION Spec
CONSTANTS
    Products = {p1, p2, p3}
    Weights = {1, 2}
    Sizes = {0, 2, 3}
    Pages = {0, 3, 4}
    DefaultSize = 1
    MaxSize = 2
    MaxInt = 3
    p1 = p1
    p2 = p2
    p3 = p3
SYMMETRY Symmetry
INVARIANTS
    FavoritesTotalIsExact
