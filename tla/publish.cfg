SPECIFICATION Spec
CONSTANTS
    None = None
    Platforms = {"kube", "system"}
    MySite <- MCMySite
    Zone <- MCZone
    Group = {"g1"}
    Host = {"h1", "h2"}
    AnyHost = "any"
    FileRank <- MCFileRank
    Ends = {"a", "b"}
    MaxData = 1
    Configs <- MCConfigs
    MaxChanges = 3
    MaxFaults = 1
INVARIANTS
    TypeOK
    PassPublishes
PROPERTIES
    NoDowngrade
    Converges
    Quiesces
