SPECIFICATION Spec
CONSTANTS
    None = None
    Absent = Absent
    Deleted = Deleted
    Platform = "system"
    Site <- MCSite
    MySite <- MCMySite
    Zone <- MCZone
    Name <- MCName
    Ends <- MCEnds
    Data <- MCData
    Tokens <- SharedTokens
    Configs <- MCConfigs
    KeyRank <- MCKeyRank
    MaxChanges = 3
    MaxFaults = 0
INVARIANT
    NoPanic
