CONSTANTS
    None = None
    Thresholds <- MCThresholds
    Configs <- IncoherentConfigs
    Requests <- MCRequests
SPECIFICATION Spec
INVARIANT ZeroPayoutOnOverride
