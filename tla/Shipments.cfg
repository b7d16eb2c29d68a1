SPECIFICATION Spec
CONSTANTS
    s1 = s1
    s2 = s2
    Shipments = {s1, s2}
    Ordered = 2
    MaxOpen = 2
SYMMETRY Symmetry
INVARIANTS
    ExactWhenAlone
PROPERTIES
    NeverBack
CHECK_DEADLOCK FALSE
