SPECIFICATION Spec
CONSTANTS
    Namespace = {n1}
    VanForm = {v1, v2}
    None = None
    MaxEvents = 2
    MaxFaults = 0
PROPERTY
    StopTakesEffect
CHECK_DEADLOCK FALSE
