SPECIFICATION Spec
CONSTANTS
    h1 = h1
    h2 = h2
    f1 = f1
    Handler = {h1, h2}
    File = {f1}
    Dir = Dir
    None = None
    Accepts <- MCAccepts
    AddedLate <- MCAddedLate
    MaxChanges = 1
    MaxSlow = 0
PROPERTY AddReturns
CHECK_DEADLOCK FALSE
