SPECIFICATION Spec
CONSTANTS
    None = None
    Platforms = {"kube"}
    MySite <- MCMySite
    Zone <- MCZone
    Group = {"g1", "g2"}
    Host = {"h1", "h2"}
    AnyHost = "any"
    FileRank <- MCFileRank
    Ends = {"a", "b"}
    MaxData = 1
    Configs <- MCConfigs
    MaxChanges = 3
    MaxFaults = 0
INVARIANT
    PassPublishes
