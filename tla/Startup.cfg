CONSTANTS
    None = None
    ThresholdsFiles <- MCThresholdsFiles
    PermissionsFiles <- MCPermissionsFiles
    AllowlistFiles <- MCAllowlistFiles
    PoliciesFiles <- MCPoliciesFiles
    ScenarioDirs <- MCScenarioDirs
    Environments <- MCEnvironments
    MaxEdits = 2
SPECIFICATION Spec
INVARIANTS
    StartupTypeOK
    RunsOnVettedConfig
    RefusalsHaveCauses
    StalenessNeedsEdits
CHECK_DEADLOCK FALSE
