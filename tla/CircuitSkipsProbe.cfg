SPECIFICATION Spec
CONSTANTS
    Callers = {c1}
    Threshold = 2
    Cooldown = 2
    Window = 3
    MaxFaults = 0
PROPERTIES OpenKeepsFailures
