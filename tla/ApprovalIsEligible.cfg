CONSTANTS
    None = None
    Thresholds <- MCThresholds
    Configs <- ShippedOnly
    Requests <- LateRequests
SPECIFICATION Spec
INVARIANT ApprovalIsEligible
