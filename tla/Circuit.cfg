SPECIFICATION Spec
CONSTANTS
    Callers = {c1, c2, c3}
    Threshold = 3
    Cooldown = 2
    Window = 3
    MaxFaults = 1
INVARIANTS TypeOK ProbeKeyHeld
PROPERTIES OpensOnRecentFailures Recovers
