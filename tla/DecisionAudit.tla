---------------------------- MODULE DecisionAudit ---------------------------
(***************************************************************************)
(* One decision engine answering one request after another, so that what   *)
(* an audit asks of its rulings can be stated of each ruling and of pairs  *)
(* of consecutive ones.  The engine keeps no state between requests; the   *)
(* variables are the configuration it was built with, the last request and *)
(* the last ruling.                                                        *)
(***************************************************************************)
EXTENDS DecisionEngine

CONSTANTS Thresholds, \* config/thresholds.yaml
          Configs,    \* the tier_authority sections the engine may be built with
          Requests    \* the requests it may receive

AuditAssumption == /\ Thresholds \in TierThresholds
                   /\ Configs \subseteq TierAuthorityConfig
                   /\ Requests \subseteq ClaimDecisionRequest
ASSUME AuditAssumption

VARIABLES config, request, ruling
vars == <<config, request, ruling>>

TypeOK == /\ config \in Configs
          /\ request \in Requests \cup {None}
          /\ ruling \in ClaimDecisionRuling \cup {None}

Init == config \in Configs /\ request = None /\ ruling = None

\* A well-formed proposal gets a ruling.
Adjudicate(req) == /\ ~EvaluateRaises(req)
                   /\ request' = req
                   /\ ruling' = Evaluate(config, Thresholds, req)
                   /\ UNCHANGED config

\* A negative proposal raises ValueError and is not ruled on.
Refuse(req) == /\ EvaluateRaises(req)
               /\ request' = req
               /\ ruling' = None
               /\ UNCHANGED config

Next == \E req \in Requests : Adjudicate(req) \/ Refuse(req)

Spec == Init /\ [][Next]_vars
-----------------------------------------------------------------------------
Rank == [green |-> 1, yellow |-> 2, red |-> 3, black |-> 4]

Own == config[AssignTier(request.claim, Thresholds)]

\* Every substitute decision is itself allowed on its tier.
Coherent(cfg) == \A t \in Tier : cfg[t].onDisallowed \in cfg[t].allowed

\* How far a claim is above the green tier: a level for each bound its damage
\* is over, or one if nobody has assessed it, and a level for an injury.
LevelsUp(claim) ==
    LET over(bound) == IF claim.damage > bound THEN 1 ELSE 0
    IN  (IF claim.damage = None THEN 1
         ELSE over(Thresholds.green) + over(Thresholds.yellow) + over(Thresholds.red))
        + (IF claim.injuries THEN 1 ELSE 0)

\* Whatever tier the model claimed, the ruling is made in the tier of the
\* claim's own data, as many levels above green, up to black, as the damage is
\* over bounds, one more for an injury; and it never lets through a decision
\* that this tier does not allow (tiers.py: "inclusive of each boundary";
\* authority.py).
RulingWithinAuthority ==
    ruling # None =>
        /\ Rank[ruling.computedTier]
              = IF LevelsUp(request.claim) > 3 THEN 4 ELSE LevelsUp(request.claim) + 1
        /\ Coherent(config) => ruling.finalDecision \in config[ruling.computedTier].allowed

\* Money leaves only for an approved, assessed loss under a policy line that
\* answers for it, up to the limit and net of the deductible: short of the
\* limit the policyholder bears the deductible and no more, so the deductible
\* comes off the damage, not off the limit (claim_decision_engine.py with
\* domain/calculations.py).
PaymentNeedsGrounds ==
    ruling # None /\ ruling.finalPayout > 0 =>
        /\ ruling.finalDecision = "approve"
        /\ request.policy # None /\ request.claim.damage # None
        /\ \E kind \in CoverageType \ {"liability"} :
              LET line == request.policy.coverages[kind]
              IN  /\ line # None
                  /\ kind = "collision" <=> request.claim.incident = "collision"
                  /\ request.claim.incident # "other"
                  /\ ruling.finalPayout <= line.limit
                  /\ ruling.finalPayout + line.deductible <= request.claim.damage
                  /\ \/ ruling.finalPayout = line.limit
                     \/ ruling.finalPayout + line.deductible = request.claim.damage

\* The audit flags say exactly what changed between the proposal and the
\* ruling, and the reason names an investigation exactly on the tiers that
\* ask for one (claim_decisions.py, the description of the audit signals).
AuditFlagsAreExact ==
    ruling # None /\ Coherent(config) =>
        /\ ruling.overridden <=> ruling.finalDecision # request.decision
        /\ ruling.payoutOverridden <=> ruling.finalPayout # request.payout
        /\ ruling.tierDisagreement
              <=> request.tier \notin {None, AssignTier(request.claim, Thresholds)}
        /\ ruling.reason = "investigation" <=> Own.investigate

Outcome(r) == <<r.finalDecision, r.finalPayout, r.computedTier>>

\* The amount and the tier a model claims never move the outcome: two
\* requests that differ in nothing else are ruled alike.
ModelCannotMoveOutcome ==
    [][ /\ ruling # None /\ ruling' # None
        /\ request.claim = request'.claim /\ request.policy = request'.policy
        /\ request.decision = request'.decision
        => Outcome(ruling) = Outcome(ruling') ]_vars

AtLeastAsSevere(c, d) == /\ c.damage # None /\ d.damage # None
                         /\ c.damage <= d.damage /\ (c.injuries => d.injuries)

\* Authority only shrinks as the tier rises.
Nested(cfg) == \A s, t \in Tier :
    Rank[s] <= Rank[t] /\ "approve" \in cfg[t].allowed => "approve" \in cfg[s].allowed

\* A more severe claim is never routed to a lower tier, nor approved on a
\* proposal that the milder claim had overridden (tiers.py with authority.py).
SeverityNeverRelaxes ==
    [][ /\ ruling # None /\ ruling' # None
        /\ AtLeastAsSevere(request.claim, request'.claim)
        => /\ Rank[ruling.computedTier] <= Rank[ruling'.computedTier]
           /\ /\ Coherent(config) /\ Nested(config)
              /\ request.decision = "approve" /\ ruling'.finalDecision = "approve"
              => ruling.finalDecision = "approve" ]_vars
-----------------------------------------------------------------------------
\* What the documentation says and the code does not do.

\* permissions_loader.py: with zero_payout_on_override, "force payout to 0
\* when overriding the model".
ZeroPayoutOnOverride ==
    ruling # None /\ ruling.overridden /\ Own.zeroOnOverride => ruling.finalPayout = 0

\* thresholds.yaml: green claims may be auto-approved "if all other
\* eligibility checks pass (coverage applies, ...)".
ApprovalIsEligible ==
    ruling # None /\ ruling.finalDecision = "approve" =>
        /\ request.policy # None
        /\ CoverageApplies(request.claim, request.policy) # None
        /\ PolicyActiveForClaim(request.policy, request.claim)
=============================================================================
