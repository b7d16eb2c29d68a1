SPECIFICATION Spec
CONSTANTS
    l1 = l1
    l2 = l2
    Sessions = {s1}
    Orders = {o1, o2}
    Listings = {l1}
    Tracked = {l1}
    Backordered = {}
    Varied = {l1}
    Baskets <- MCBaskets
    InitStock = 2
    InitVariant = 2
    SellerCounts = {}
    MaxRequests = 2
SYMMETRY Symmetry
CHECK_DEADLOCK FALSE
INVARIANTS ReservationsBacked
