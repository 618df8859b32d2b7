---------------------------- MODULE Adjudication ----------------------------
(***************************************************************************)
(* What the harness promises of an adjudication, with no model, tool or    *)
(* tier slot in sight: each run ends once, either in an error or in a      *)
(* verdict that the claim, its policy and the configuration permit.        *)
(***************************************************************************)
EXTENDS DecisionEngine

CONSTANTS Runs, ClaimNumbers, ClaimData, PolicyOnFile, Thresholds, Authority

VARIABLES claimNumber, verdict
vars == <<claimNumber, verdict>>

Pending == [state |-> "pending"]
Failed  == [state |-> "failed"]

Verdict(t, d, p) == [state |-> "ruled", tier |-> t, decision |-> d, payout |-> p]

\* The verdicts a claim number admits: none for an unknown claim, and no
\* money but what is owed on an approval.
Permitted(number) ==
    IF ClaimData[number] = None THEN {}
    ELSE LET claim == ClaimData[number]
             tier  == AssignTier(claim, Thresholds)
             owed  == DeterministicPayout(claim, PolicyOnFile[number])
             rule  == Authority[tier]
         IN  {Verdict(tier, d, IF d = "approve" THEN owed ELSE 0) :
                 d \in rule.allowed \cup {rule.onDisallowed}}

Init == /\ claimNumber \in [Runs -> ClaimNumbers]
        /\ verdict = [r \in Runs |-> Pending]

Settle(r) == /\ verdict[r] = Pending
             /\ \E v \in {Failed} \cup Permitted(claimNumber[r]) :
                    verdict' = [verdict EXCEPT ![r] = v]
             /\ UNCHANGED claimNumber

Next == \E r \in Runs : Settle(r)

Spec == Init /\ [][Next]_vars
=============================================================================
