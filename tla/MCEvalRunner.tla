---------------------------- MODULE MCEvalRunner ----------------------------
(* An evaluation of two scenarios, each over any of the claim numbers.     *)
EXTENDS EvalRunner

CONSTANTS s1, s2

Data == INSTANCE MCData
MCThresholds   == Data!MCThresholds
MCAuthority    == Data!MCAuthority
MCClaimNumbers == Data!MCClaimNumbers
MCClaimData    == Data!MCClaimData
MCPolicyOnFile == Data!MCPolicyOnFile
MCToolNames    == Data!MCToolNames
MCRegistered   == Data!MCRegistered
MCAllowlist    == Data!MCAllowlist
MCReplies      == Data!MCReplies

MCRuns          == {s1, s2}
MCScenarioOrder == <<s1, s2>>

\* As green-001 and red-001 expect: the first wants a payment and a lookup,
\* the second forbids the lookup by number.
MCExpect ==
    [r \in MCRuns |->
        IF r = s1
        THEN [tier |-> "green", decision |-> "approve", payoutRange |-> [min |-> 0, max |-> 450],
              mustCall |-> {"payment_instruction"}, mustNotCall |-> {}]
        ELSE [tier |-> "red", decision |-> "escalate", payoutRange |-> None,
              mustCall |-> {}, mustNotCall |-> {"policy_lookup_by_number"}]]
=============================================================================
