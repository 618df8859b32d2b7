CONSTANTS
    None = None
    Thresholds <- MCThresholds
    Configs <- MCConfigs
    Requests <- MCRequests
SPECIFICATION Spec
INVARIANTS
    TypeOK
    RulingWithinAuthority
    PaymentNeedsGrounds
    AuditFlagsAreExact
PROPERTIES
    ModelCannotMoveOutcome
    SeverityNeverRelaxes
