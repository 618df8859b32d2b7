-------------------------- MODULE ShippedScenarios --------------------------
(***************************************************************************)
(* What the shipped scenarios ask of the generated claims, put to the      *)
(* decision engine under the shipped authority: the one place where the    *)
(* generator, the configuration, the engine and the evaluation have to     *)
(* agree.  The claim SeedData has just built is ruled on, on the policy    *)
(* its number names, for every proposal a model may make.                  *)
(***************************************************************************)
EXTENDS SeedData, DecisionEngine

CONSTANT Amounts \* the payouts a model may propose, in cents

AmountsAssumption == Amounts \subseteq Nat
ASSUME AmountsAssumption

\* tier_authority of permissions.yaml.
ShippedAuthority ==
    [tier \in Tier |-> [allowed        |-> IF tier = "green" THEN Decision ELSE {"escalate"},
                        onDisallowed   |-> "escalate",
                        zeroOnOverride |-> tier # "green",
                        investigate    |-> tier = "black"]]

Scenario(number, tier, decision, range) ==
    [claim |-> number, tier |-> tier, decision |-> decision, payoutRange |-> range]

Nothing == [min |-> 0, max |-> 0]

\* The files of evals/scenarios, but for the tool calls they expect.
Scenarios == {Scenario(1,  "green",  "approve",  [min |-> 0, max |-> Money(450)]),
              Scenario(6,  "yellow", "escalate", None),
              Scenario(6,  "yellow", "escalate", Nothing),
              Scenario(11, "red",    "escalate", Nothing),
              Scenario(19, "yellow", "escalate", None)}

Proposals == [decision : Decision, payout : Amounts, tier : Tier \cup {None}]
-----------------------------------------------------------------------------
\* What the engine reads of the claim and of the policy its number names.
ClaimOnFile == [incident |-> claim.incident, date   |-> claim.date,
                injuries |-> claim.injuries, damage |-> claim.damage]

PolicyOnFile ==
    IF PolicyNumbered(claim.policy) = {} THEN None
    ELSE LET policy == policies[CHOOSE i \in PolicyNumbered(claim.policy) : TRUE]
         IN  [effective |-> policy.effective, expiration |-> policy.expiration,
              coverages |-> policy.coverages]

RulingOn(proposal) ==
    Evaluate(ShippedAuthority, Thresholds,
             [claim    |-> ClaimOnFile,       policy |-> PolicyOnFile,
              decision |-> proposal.decision, payout |-> proposal.payout,
              tier     |-> proposal.tier])
-----------------------------------------------------------------------------
\* Whatever was drawn and whatever the model proposes, a scenario's expectation
\* is one the harness meets: the tier and the payout range always, and the
\* decision whenever the model proposes it, and outside green even when it
\* does not (the expectations of evals/scenarios against permissions.yaml).
ScenariosAreMet ==
    \A scenario \in Scenarios : made = scenario.claim =>
        \A proposal \in Proposals :
            LET ruling == RulingOn(proposal)
                range  == scenario.payoutRange
            IN  /\ ruling.computedTier = scenario.tier
                /\ range # None => ruling.finalPayout \in range.min..range.max
                /\ proposal.decision = scenario.decision \/ scenario.tier # "green"
                      => ruling.finalDecision = scenario.decision

\* No generated claim is ever paid a cent: the green ones lie below every
\* collision deductible that is drawn, and the others must be escalated.  An
\* evaluation on this data never sees an amount other than zero in the end,
\* the "prototypical Green-tier auto-approve case" of green-001 included.
GeneratedClaimsPayNothing ==
    made > 0 => \A proposal \in Proposals : RulingOn(proposal).finalPayout = 0
=============================================================================
