CONSTANTS
    None = None
    NaN = NaN
    Runs <- MCRuns
    ClaimNumbers <- MCClaimNumbers
    ClaimData <- MCClaimData
    PolicyOnFile <- MCPolicyOnFile
    Thresholds <- MCThresholds
    Authority <- MCAuthority
    Allowlist <- MCAllowlist
    DefaultTier = "yellow"
    DefaultPayout = 0
    RegisteredTools <- MCRegistered
    ToolNames <- MCToolNames
    Replies <- MCReplies
    MaxCalls = 2
    Instructions <- MCInstructions
    s1 = s1
    s2 = s2
    ScenarioOrder <- MCScenarioOrder
    Expect <- MCExpect
SPECIFICATION FairPaidSpec
INVARIANTS
    PaidTypeOK
    SlotIsCurrentTier
    ToolsRespectOwnTier
    ScoresAreFinal
    AnsweredRunsHideNoViolation
    AnswersScoreAsConfigured
    ReportSeparatesErrors
    PaymentsAreAccountedFor
PROPERTIES
    PaymentsAreAuthorized
    EvaluationCompletes
CHECK_DEADLOCK FALSE
