SPECIFICATION Spec
CONSTANTS
    l1 = l1
    l2 = l2
    Requests = {r1, r2}
    Listings = {l1, l2}
    Moves <- MCMoves
    NoRequest = none
    PageLimit = 2
    MaxId = 3
    MaxFigure = 3
SYMMETRY Symmetry
CHECK_DEADLOCK FALSE
INVARIANTS TypeOK NewestIsCurrent
PROPERTIES ListingInOrder
