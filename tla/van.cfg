SPECIFICATION Spec
CONSTANTS
    a = a
    b = b
    W = W
    E = E
    Site = {a, b}
    Zone = {W, E}
    Place <- MCPlace
    Configs <- MCConfigs
    MaxCert = 2
    MaxChanges = 1
    MaxFaults = 1
INVARIANT TypeOK
PROPERTIES
    Steadfast
    MeshKept
    Meshes
