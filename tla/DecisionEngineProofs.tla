------------------------ MODULE DecisionEngineProofs ------------------------
(***************************************************************************)
(* What the pure operators of the decision engine return, for every claim, *)
(* policy, configuration and proposal.  The invariance proofs of the       *)
(* components cite these lemmas.                                           *)
(***************************************************************************)
EXTENDS DecisionEngine, TLAPS

\* Every claim has one of the four tiers (tiers.py, assign_tier).
LEMMA AssignTierType ==
    ASSUME NEW claim \in Claim, NEW th
    PROVE  AssignTier(claim, th) \in Tier
  <1>1. DamageTier(claim.damage, th) \in Tier
    BY DEF DamageTier, Tier
  <1>2. \A t \in Tier : Escalation[t] \in Tier
    BY DEF Escalation, Tier
  <1> QED BY <1>1, <1>2 DEF AssignTier

\* A payout is a natural number, at most the limit, and leaves the deductible
\* with the policyholder, and no more than that unless the limit is reached
\* (calculations.py, calculate_payout).
LEMMA CalculatePayoutBounds ==
    ASSUME NEW damage \in Nat, NEW coverage \in Coverage
    PROVE  /\ CalculatePayout(damage, coverage) \in Nat
           /\ CalculatePayout(damage, coverage) <= coverage.limit
           /\ CalculatePayout(damage, coverage) > 0
                 => /\ CalculatePayout(damage, coverage) + coverage.deductible <= damage
                    /\ \/ CalculatePayout(damage, coverage) = coverage.limit
                       \/ CalculatePayout(damage, coverage) + coverage.deductible = damage
  BY DEF CalculatePayout, Coverage

\* The line that answers for a loss is a line of the policy and never the
\* liability line (calculations.py, coverage_applies).
LEMMA CoverageAppliesLine ==
    ASSUME NEW claim \in Claim, NEW policy \in Policy,
           CoverageApplies(claim, policy) # None
    PROVE  /\ CoverageApplies(claim, policy) \in Coverage
           /\ \E kind \in CoverageType \ {"liability"} :
                 /\ CoverageApplies(claim, policy) = policy.coverages[kind]
                 /\ kind = "collision" <=> claim.incident = "collision"
                 /\ claim.incident # "other"
  <1> DEFINE kind == CoverageKind(claim.incident)
  <1>1. kind # None
    BY DEF CoverageApplies
  <1>2. claim.incident \in IncidentType
    BY DEF Claim
  <1>3. /\ kind \in CoverageType \ {"liability"}
        /\ kind = "collision" <=> claim.incident = "collision"
        /\ claim.incident # "other"
    BY <1>1, <1>2 DEF CoverageKind, CoverageType, IncidentType
  <1>4. CoverageApplies(claim, policy) = policy.coverages[kind]
    BY <1>1 DEF CoverageApplies
  <1>5. policy.coverages \in [CoverageType -> Coverage \cup {None}]
    BY DEF Policy, CoverageLines
  <1>6. policy.coverages[kind] \in Coverage
    BY <1>3, <1>4, <1>5
  <1> QED BY <1>3, <1>4, <1>6

\* What the harness owes on a claim is a natural number.
LEMMA DeterministicPayoutType ==
    ASSUME NEW claim \in Claim, NEW policy \in Policy \cup {None}
    PROVE  DeterministicPayout(claim, policy) \in Nat
  <1>1. CASE policy = None \/ claim.damage = None
    BY <1>1 DEF DeterministicPayout
  <1>2. CASE policy # None /\ claim.damage # None
    <2>1. claim.damage \in Nat /\ policy \in Policy
      BY <1>2 DEF Claim
    <2>2. CASE CoverageApplies(claim, policy) = None
      BY <1>2, <2>2 DEF DeterministicPayout
    <2>3. CASE CoverageApplies(claim, policy) # None
      <3>1. CoverageApplies(claim, policy) \in Coverage
        BY <2>1, <2>3, CoverageAppliesLine
      <3> QED BY <1>2, <2>1, <2>3, <3>1, CalculatePayoutBounds DEF DeterministicPayout
    <2> QED BY <2>2, <2>3
  <1> QED BY <1>1, <1>2

\* Something is owed only under a policy, on an assessed loss and a line that
\* answers for it, net of the deductible or the limit itself.
LEMMA OwedHasGrounds ==
    ASSUME NEW claim \in Claim, NEW policy \in Policy \cup {None},
           DeterministicPayout(claim, policy) > 0
    PROVE  /\ policy # None /\ claim.damage # None
           /\ \E kind \in CoverageType \ {"liability"} :
                 LET line == policy.coverages[kind]
                 IN  /\ line # None
                     /\ kind = "collision" <=> claim.incident = "collision"
                     /\ claim.incident # "other"
                     /\ DeterministicPayout(claim, policy) <= line.limit
                     /\ DeterministicPayout(claim, policy) + line.deductible <= claim.damage
                     /\ \/ DeterministicPayout(claim, policy) = line.limit
                        \/ DeterministicPayout(claim, policy) + line.deductible = claim.damage
  <1> DEFINE cover == CoverageApplies(claim, policy)
             owed  == DeterministicPayout(claim, policy)
  <1>1. policy # None /\ claim.damage # None /\ cover # None
    BY DEF DeterministicPayout
  <1>2. policy \in Policy /\ claim.damage \in Nat
    BY <1>1 DEF Claim
  <1>3. owed = CalculatePayout(claim.damage, cover)
    BY <1>1 DEF DeterministicPayout
  <1>4. PICK kind \in CoverageType \ {"liability"} :
               /\ cover = policy.coverages[kind]
               /\ kind = "collision" <=> claim.incident = "collision"
               /\ claim.incident # "other"
    BY <1>1, <1>2, CoverageAppliesLine
  <1>5. cover \in Coverage
    BY <1>1, <1>2, CoverageAppliesLine
  <1>6. /\ owed <= cover.limit /\ owed + cover.deductible <= claim.damage
        /\ owed = cover.limit \/ owed + cover.deductible = claim.damage
    BY <1>2, <1>3, <1>5, CalculatePayoutBounds
  <1> HIDE DEF owed, cover
  <1> QED BY <1>1, <1>4, <1>6 DEF owed

\* The authority's final decision is the proposal or the tier's substitute.
LEMMA FinalDecisionPermitted ==
    ASSUME NEW rule \in TierAuthorityRule, NEW decision \in Decision
    PROVE  /\ FinalDecision(rule, decision) \in rule.allowed \cup {rule.onDisallowed}
           /\ FinalDecision(rule, decision) \in Decision
           /\ decision \notin rule.allowed => FinalDecision(rule, decision) = rule.onDisallowed
           /\ decision \in rule.allowed => FinalDecision(rule, decision) = decision
  BY DEF FinalDecision, TierAuthorityRule

\* Every request with a non-negative proposal gets a well-typed ruling, whose
\* tier, decision and amount come from the claim, its policy and the
\* configuration (claim_decision_engine.py, evaluate).
THEOREM EvaluateRules ==
    ASSUME NEW config \in TierAuthorityConfig, NEW th,
           NEW request \in ClaimDecisionRequest, ~EvaluateRaises(request)
    PROVE  LET ruling == Evaluate(config, th, request)
               tier   == AssignTier(request.claim, th)
           IN  /\ ruling \in ClaimDecisionRuling
               /\ ruling.computedTier = tier
               /\ ruling.finalDecision = FinalDecision(config[tier], request.decision)
               /\ ruling.finalPayout =
                     IF ruling.finalDecision = "approve"
                     THEN DeterministicPayout(request.claim, request.policy) ELSE 0
  <1> DEFINE tier   == AssignTier(request.claim, th)
             ruling == Evaluate(config, th, request)
             owed   == DeterministicPayout(request.claim, request.policy)
  <1>1. /\ request.claim \in Claim /\ request.policy \in Policy \cup {None}
        /\ request.decision \in Decision /\ request.payout \in Nat
        /\ request.tier \in Tier \cup {None}
    BY DEF ClaimDecisionRequest, EvaluateRaises
  <1>2. tier \in Tier
    BY <1>1, AssignTierType
  <1>3. config[tier] \in TierAuthorityRule
    BY <1>2 DEF TierAuthorityConfig
  <1>4. owed \in Nat
    BY <1>1, DeterministicPayoutType
  <1>5. FinalDecision(config[tier], request.decision) \in Decision
    BY <1>1, <1>3, FinalDecisionPermitted
  <1>6. /\ ruling.computedTier = tier
        /\ ruling.finalDecision = FinalDecision(config[tier], request.decision)
        /\ ruling.finalPayout = IF ruling.finalDecision = "approve" THEN owed ELSE 0
    BY DEF Evaluate, AuthorityEvaluate, FinalPayout
  <1>7. ReasonFor(config[tier], request.decision \in config[tier].allowed) \in Reason
    BY DEF ReasonFor, Reason
  <1>8. ruling \in ClaimDecisionRuling
    <2> DEFINE accepted  == request.decision \in config[tier].allowed
               rejected  == ~accepted
               disagrees == request.tier # None /\ request.tier # tier
               adjusted  == ruling.finalPayout # request.payout
               reason    == ReasonFor(config[tier], accepted)
    <2> HIDE DEF tier, owed
    <2>1. ruling = [proposedDecision |-> request.decision,
                    proposedPayout   |-> request.payout,
                    proposedTier     |-> request.tier,
                    finalDecision    |-> ruling.finalDecision,
                    finalPayout      |-> ruling.finalPayout,
                    computedTier     |-> tier,
                    overridden       |-> rejected,
                    tierDisagreement |-> disagrees,
                    payoutOverridden |-> adjusted,
                    reason           |-> reason]
      BY DEF Evaluate, AuthorityEvaluate, FinalPayout, tier
    <2>2. rejected \in BOOLEAN /\ disagrees \in BOOLEAN /\ adjusted \in BOOLEAN
      OBVIOUS
    <2>3. reason \in Reason
      BY <1>7
    <2> HIDE DEF ruling, rejected, disagrees, adjusted, reason
    <2>4. ruling.finalDecision \in Decision /\ ruling.finalPayout \in Nat
      BY <1>4, <1>5, <1>6
    <2> QED BY <1>1, <1>2, <2>1, <2>2, <2>3, <2>4 DEF ClaimDecisionRuling
  <1> QED BY <1>6, <1>8

\* The request that proposes what a ruling has settled.
Resubmitted(request, ruling) ==
    [claim    |-> request.claim,
     policy   |-> request.policy,
     decision |-> ruling.finalDecision,
     payout   |-> ruling.finalPayout,
     tier     |-> ruling.computedTier]

\* A ruling is final (claim_decision_engine.py, evaluate): proposed once more,
\* what it settled is ruled the same, and disagrees on nothing.  It is still
\* reported as overridden when the substitute is a decision its own tier does
\* not allow, which the loader accepts.
THEOREM RulingIsSettled ==
    ASSUME NEW config \in TierAuthorityConfig, NEW th,
           NEW request \in ClaimDecisionRequest, ~EvaluateRaises(request)
    PROVE  LET ruling == Evaluate(config, th, request)
               second == Resubmitted(request, ruling)
               again  == Evaluate(config, th, second)
           IN  /\ second \in ClaimDecisionRequest
               /\ ~EvaluateRaises(second)
               /\ again.finalDecision = ruling.finalDecision
               /\ again.finalPayout = ruling.finalPayout
               /\ again.computedTier = ruling.computedTier
               /\ ~again.tierDisagreement
               /\ ~again.payoutOverridden
               /\ again.overridden
                     <=> ruling.finalDecision \notin config[ruling.computedTier].allowed
  <1> DEFINE ruling == Evaluate(config, th, request)
             second == Resubmitted(request, ruling)
             again  == Evaluate(config, th, second)
             tier   == AssignTier(request.claim, th)
             rule   == config[tier]
  <1>1. /\ ruling \in ClaimDecisionRuling
        /\ ruling.computedTier = tier
        /\ ruling.finalDecision = FinalDecision(rule, request.decision)
        /\ ruling.finalPayout =
              IF ruling.finalDecision = "approve"
              THEN DeterministicPayout(request.claim, request.policy) ELSE 0
    BY EvaluateRules
  <1>2. /\ ruling.finalDecision \in Decision
        /\ ruling.finalPayout \in Nat
        /\ tier \in Tier /\ tier # None
    <2>1. request.claim \in Claim
      BY DEF ClaimDecisionRequest
    <2>2. tier \in Tier
      BY <2>1, AssignTierType
    <2>3. tier # None
      BY <2>2, NoneAssumption DEF NoneAssumption
    <2> QED BY <1>1, <2>2, <2>3 DEF ClaimDecisionRuling
  <1> HIDE DEF ruling
  <1>3. /\ second \in ClaimDecisionRequest
        /\ ~EvaluateRaises(second)
        /\ second.claim = request.claim /\ second.policy = request.policy
        /\ second.decision = ruling.finalDecision
        /\ second.payout = ruling.finalPayout
        /\ second.tier = tier
    BY <1>1, <1>2 DEF Resubmitted, ClaimDecisionRequest, EvaluateRaises
  <1> HIDE DEF second
  <1>4. rule \in TierAuthorityRule
    BY <1>2 DEF TierAuthorityConfig
  <1>5. FinalDecision(rule, ruling.finalDecision) = ruling.finalDecision
    \* The substitute's substitute is the substitute.
    <2>1. request.decision \in Decision
      BY DEF ClaimDecisionRequest
    <2> QED BY <1>1, <1>4, <2>1, FinalDecisionPermitted DEF FinalDecision
  <1>6. /\ again.computedTier = tier
        /\ again.finalDecision = FinalDecision(rule, second.decision)
        /\ again.finalPayout =
              IF again.finalDecision = "approve"
              THEN DeterministicPayout(second.claim, second.policy) ELSE 0
    BY <1>3, EvaluateRules
  <1>7. /\ again.tierDisagreement = (second.tier # None /\ second.tier # tier)
        /\ again.overridden = ~(second.decision \in rule.allowed)
        /\ again.payoutOverridden = (again.finalPayout # second.payout)
    BY <1>3 DEF Evaluate, AuthorityEvaluate
  <1> HIDE DEF again
  <1> QED BY <1>1, <1>3, <1>5, <1>6, <1>7 DEF ruling, second, again
=============================================================================
