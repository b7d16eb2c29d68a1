SPECIFICATION Spec
CONSTANTS
    l1 = l1
    l2 = l2
    Sessions = {s1}
    Orders = {o1, o2}
    Listings = {l1, l2}
    Tracked = {l1, l2}
    Backordered = {l2}
    Varied = {l1}
    Baskets <- MCBaskets
    InitStock = 2
    InitVariant = 2
    SellerCounts = {1}
    MaxRequests = 2
SYMMETRY Symmetry
CHECK_DEADLOCK FALSE
INVARIANTS NoLeakedReservation NoVanishedStock
PROPERTIES NoOversell
