CONSTANTS
    None = None
    NaN = NaN
    Runs = {r1, r2}
    ClaimNumbers <- MCClaimNumbers
    ClaimData <- MCClaimData
    PolicyOnFile <- MCPolicyOnFile
    Thresholds <- MCThresholds
    Authority <- MCAuthority
    Allowlist <- MCAllowlist
    DefaultTier = "yellow"
    DefaultPayout = 0
    RegisteredTools <- MCRegistered
    ToolNames <- MCToolNames
    Replies <- MCReplies
    MaxCalls = 1
    r1 = r1
    r2 = r2
SPECIFICATION FairSpec
PROPERTIES
    EveryRunSettles
    ImplementsAdjudication
CHECK_DEADLOCK FALSE
