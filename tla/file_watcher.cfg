SPECIFICATION Spec
CONSTANTS
    h1 = h1
    h2 = h2
    f1 = f1
    Handler = {h1}
    File = {f1}
    Dir = Dir
    None = None
    Accepts <- MCAccepts
    AddedLate = {}
    MaxChanges = 4
    MaxSlow = 1
INVARIANTS
    TypeOK
    Announced
    Withdrawn
PROPERTIES
    Settles
    Silent
\* A watcher that has been stopped stops.
CHECK_DEADLOCK FALSE
