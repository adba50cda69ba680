SPECIFICATION Spec
CONSTANTS
    Namespace = {n1, n2}
    VanForm = {v1, v2, v3}
    None = None
    MaxEvents = 4
    MaxFaults = 1
INVARIANTS
    TypeOK
    StopOnce
    NoneForgotten
PROPERTIES
    Served
    ShutdownCompletes
CHECK_DEADLOCK FALSE
