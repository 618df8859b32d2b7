CONSTANTS
    None = None
    ThresholdsFiles <- MCThresholdsFiles
    PermissionsFiles <- MCPermissionsFiles
    AllowlistFiles <- MCAllowlistFiles
    PoliciesFiles <- MCPoliciesFiles
    ScenarioDirs <- MCScenarioDirs
    Environments <- MCEnvironments
    MaxEdits = 1
SPECIFICATION Spec
INVARIANTS
    LoadersRaiseWhatTheyDocument
CHECK_DEADLOCK FALSE
