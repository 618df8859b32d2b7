-------------------------- MODULE MCPaidEvaluation -------------------------
(* An evaluation of two scenarios, each over two green claims, a red one   *)
(* and an unknown one, of an agent that may look policies up and instruct  *)
(* payments.                                                               *)
EXTENDS PaidEvaluation

CONSTANTS s1, s2

Data == INSTANCE MCData
MCThresholds   == Data!MCThresholds
MCAuthority    == Data!MCAuthority
MCClaimNumbers == Data!MCClaimNumbers \ {"black"}
MCClaimData    == [n \in MCClaimNumbers |-> Data!MCClaimData[n]]
MCPolicyOnFile == [n \in MCClaimNumbers |-> Data!MCPolicyOnFile[n]]
MCToolNames    == Data!MCToolNames
MCReplies      == Data!MCReplies

MCRuns          == {s1, s2}
MCScenarioOrder == <<s1, s2>>

\* The claimant lookup is left unregistered, so there is an unknown tool; as
\* in the shipped file only green claims may instruct a payment.
MCRegistered == MCToolNames \ {"policy_lookup_by_claimant"}
MCAllowlist  == [Data!MCAllowlist EXCEPT !.tools["payment_instruction"] =
                    [default |-> "deny", tierRules |-> [Data!NoTierRules EXCEPT !["green"] = "allow"]]]

\* The claim under way or another one, a sensible amount or not.
MCInstructions == {[claim |-> "green", amount |-> 150], [claim |-> "red", amount |-> -5]}

\* As green-001 and red-001 expect: the first wants a payment and a lookup,
\* the second forbids both lookup by number and payment.
MCExpect ==
    [r \in MCRuns |->
        IF r = s1
        THEN [tier |-> "green", decision |-> "approve", payoutRange |-> [min |-> 0, max |-> 450],
              mustCall |-> {"payment_instruction"}, mustNotCall |-> {}]
        ELSE [tier |-> "red", decision |-> "escalate", payoutRange |-> None, mustCall |-> {},
              mustNotCall |-> {"policy_lookup_by_number", "payment_instruction"}]]
=============================================================================
