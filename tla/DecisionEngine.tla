--------------------------- MODULE DecisionEngine ---------------------------
(***************************************************************************)
(* AuthorityEngine and HarnessClaimDecisionEngine: "the model proposes;    *)
(* the harness answers".  A request carries the claim, its policy (None    *)
(* when the number resolves to nothing) and what the model proposed; the   *)
(* ruling is a function of the request and of the configuration.           *)
(***************************************************************************)
EXTENDS ClaimsDomain

\* What permissions.yaml says of one tier, as its loader accepts it: any
\* non-empty set of decisions, and any substitute, allowed or not.
TierAuthorityRule == [allowed        : SUBSET Decision \ {{}},
                      onDisallowed   : Decision,
                      zeroOnOverride : BOOLEAN,
                      investigate    : BOOLEAN]

TierAuthorityConfig == [Tier -> TierAuthorityRule]

ClaimDecisionRequest == [claim    : Claim,
                         policy   : Policy \cup {None},
                         decision : Decision,
                         payout   : Int,
                         tier     : Tier \cup {None}]

Reason == {"accepted", "overridden", "investigation"}

ClaimDecisionRuling == [proposedDecision : Decision,
                        proposedPayout   : Nat,
                        proposedTier     : Tier \cup {None},
                        finalDecision    : Decision,
                        finalPayout      : Nat,
                        computedTier     : Tier,
                        overridden       : BOOLEAN,
                        tierDisagreement : BOOLEAN,
                        payoutOverridden : BOOLEAN,
                        reason           : Reason]

\* Mutant: a negative proposal is ruled on.
NothingRaises(request) == FALSE

\* AuthorityEngine.evaluate raises ValueError on a negative proposal.
EvaluateRaises(request) == request.payout < 0
-----------------------------------------------------------------------------
\* Mutant: acceptance is worded before the investigation flag is looked at.
ReasonAcceptedFirst(rule, accepted) ==
    IF accepted THEN "accepted" ELSE IF rule.investigate THEN "investigation" ELSE "overridden"

\* The two reason builders: an investigated tier says so even when the
\* model's proposal stands.
ReasonFor(rule, accepted) ==
    IF rule.investigate THEN "investigation"
    ELSE IF accepted THEN "accepted" ELSE "overridden"

\* Mutant: the disallowed decision is flagged but kept.
FinalDecisionKept(rule, decision) == decision

FinalDecision(rule, decision) ==
    IF decision \in rule.allowed THEN decision ELSE rule.onDisallowed

\* AuthorityEngine.evaluate.  The tier is computed from the claim, and the
\* claimed one is echoed only.  zero_payout_on_override zeroes the amount on
\* both branches, and overridden is the branch taken.
AuthorityEvaluate(config, th, request) ==
    LET computed == AssignTier(request.claim, th)
        rule     == config[computed]
        accepted == request.decision \in rule.allowed
    IN  [computedTier     |-> computed,
         finalDecision    |-> FinalDecision(rule, request.decision),
         finalPayout      |-> IF rule.zeroOnOverride THEN 0 ELSE request.payout,
         overridden       |-> ~accepted,
         tierDisagreement |-> request.tier # None /\ request.tier # computed,
         reason           |-> ReasonFor(rule, accepted)]
-----------------------------------------------------------------------------
\* _compute_deterministic_payout: nothing is owed without a policy, an
\* assessment and a line that answers for the loss.
DeterministicPayout(claim, policy) ==
    IF policy = None \/ claim.damage = None THEN 0
    ELSE LET coverage == CoverageApplies(claim, policy)
         IN  IF coverage = None THEN 0 ELSE CalculatePayout(claim.damage, coverage)

\* Mutant: an approval pays what the model proposed.
FinalPayoutAsProposed(decision, request) ==
    IF decision = "approve" THEN request.payout ELSE 0

FinalPayout(decision, request) ==
    IF decision = "approve" THEN DeterministicPayout(request.claim, request.policy) ELSE 0

\* HarnessClaimDecisionEngine.evaluate: the authority's ruling, its amount
\* replaced by the harness's own.
Evaluate(config, th, request) ==
    LET authority == AuthorityEvaluate(config, th, request)
        final     == FinalPayout(authority.finalDecision, request)
    IN  [proposedDecision |-> request.decision,
         proposedPayout   |-> request.payout,
         proposedTier     |-> request.tier,
         finalDecision    |-> authority.finalDecision,
         finalPayout      |-> final,
         computedTier     |-> authority.computedTier,
         overridden       |-> authority.overridden,
         tierDisagreement |-> authority.tierDisagreement,
         payoutOverridden |-> final # request.payout,
         reason           |-> authority.reason]
=============================================================================
