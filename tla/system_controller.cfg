SPECIFICATION Spec
CONSTANTS
    None = None
    Namespace = {n1}
    Handler = {h1, h2, h3, h4}
    VanForm = {v1, v2, v3, v4, v5, v6}
    MaxMade = 3
    StopBy = 1
INVARIANTS
    TypeOK
    NoneForgotten
    OneServes
    ClosedOnce
    Served
    RemovalStops
    Released
PROPERTIES
    Settles
    ShutdownCompletes
\* A process that has ended does nothing more.
CHECK_DEADLOCK FALSE
