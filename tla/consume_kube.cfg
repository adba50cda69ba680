SPECIFICATION Spec
CONSTANTS
    None = None
    Absent = Absent
    Deleted = Deleted
    Platform = "kube"
    Site <- MCSite
    MySite <- MCMySite
    Zone <- MCZone
    Name <- MCName
    Ends <- MCEnds
    Data <- MCData
    Tokens <- SharedTokens
    Configs <- MCConfigs
    KeyRank <- MCKeyRank
    MaxChanges = 4
    MaxFaults = 1
INVARIANTS
    TypeOK
    LinkHasSecret
    PassSound
    NoOrphanSecret
PROPERTY
    Converges
