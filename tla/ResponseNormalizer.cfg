CONSTANTS
    None = None
    Null = Null
    Absent = Absent
    Pending = Pending
    Raised = Raised
    Keys <- MCKeys
    Values <- MCValues
    Configs <- MCConfigs
    Texts <- MCTexts
    MaxRuns = 2
SPECIFICATION Spec
INVARIANTS
    NormalizerTypeOK
    UnvisitedKeysArePresent
    CountersAddUp
    OutputIsClean
PROPERTIES
    ImplementsCanonicalAnswer
CHECK_DEADLOCK FALSE
