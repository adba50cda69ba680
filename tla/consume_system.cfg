SPECIFICATION Spec
CONSTANTS
    None = None
    Absent = Absent
    Deleted = Deleted
    Platform = "system"
    Site <- MCSite
    MySite <- MCMySite
    Zone <- MCZone
    Name <- MCName
    Ends <- MCEnds
    Data <- MCData
    Tokens <- SharedTokens
    Configs <- MCConfigs
    KeyRank <- MCKeyRank
    MaxChanges = 4
    MaxFaults = 1
INVARIANTS
    TypeOK
    PassSound
PROPERTY
    Converges
