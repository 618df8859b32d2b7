CONSTANTS
    None = None
    NaN = NaN
    Runs = {r1, r2}
    ClaimNumbers <- MCClaimNumbers
    ClaimData <- MCClaimData
    PolicyOnFile <- MCPolicyOnFile
    Thresholds <- MCThresholds
    Authority <- MCAuthority
    Allowlist <- MCAllowlist
    DefaultTier = "yellow"
    DefaultPayout = 0
    RegisteredTools <- MCRegistered
    ToolNames <- MCToolNames
    Replies <- MCReplies
    MaxCalls = 2
    r1 = r1
    r2 = r2
SYMMETRY RunSymmetry
SPECIFICATION Spec
INVARIANTS
    TypeOK
    SlotIsALiveTier
    ResultIsOwnRuling
    DisagreementFlagIsExact
    AnsweredRunsReportEveryCall
CHECK_DEADLOCK FALSE
