------------------------- MODULE DecisionAuditProofs ------------------------
(***************************************************************************)
(* The audit properties of the decision engine, for every set of requests, *)
(* every configuration the loader accepts and all thresholds.              *)
(***************************************************************************)
EXTENDS DecisionAudit, DecisionEngineProofs

\* A ruling is always the engine's answer to the last request.
RulingIsAnswer == ruling # None => /\ request \in Requests
                                   /\ ~EvaluateRaises(request)
                                   /\ ruling = Evaluate(config, Thresholds, request)

IInv == TypeOK /\ RulingIsAnswer

\* The state is well-typed and the ruling on record answers the request on
\* record, for every set of requests (DecisionAudit!Spec).
LEMMA Inductive == Spec => []IInv
  <1> USE AuditAssumption, NoneAssumption
  <1>1. Init => IInv
    BY DEF Init, IInv, TypeOK, RulingIsAnswer
  <1>2. IInv /\ [Next]_vars => IInv'
    <2> SUFFICES ASSUME IInv, [Next]_vars PROVE IInv'
      OBVIOUS
    <2>1. ASSUME NEW req \in Requests, Adjudicate(req) PROVE IInv'
      <3>1. config \in TierAuthorityConfig /\ req \in ClaimDecisionRequest
        BY DEF AuditAssumption, IInv, TypeOK
      <3>2. Evaluate(config, Thresholds, req) \in ClaimDecisionRuling
        BY <2>1, <3>1, EvaluateRules DEF Adjudicate
      <3> QED BY <2>1, <3>2 DEF Adjudicate, IInv, TypeOK, RulingIsAnswer
    <2>2. ASSUME NEW req \in Requests, Refuse(req) PROVE IInv'
      BY <2>2 DEF Refuse, IInv, TypeOK, RulingIsAnswer
    <2>3. CASE UNCHANGED vars
      BY <2>3 DEF vars, IInv, TypeOK, RulingIsAnswer
    <2> QED BY <2>1, <2>2, <2>3 DEF Next
  <1> QED BY <1>1, <1>2, PTL DEF Spec

\* Type correctness of the audit (DecisionAudit!TypeOK).
THEOREM AuditTypeCorrect == Spec => []TypeOK
  <1>1. IInv => TypeOK
    BY DEF IInv
  <1> QED BY <1>1, Inductive, PTL

\* What EvaluateRules says of the ruling on record.
LEMMA RulingFacts ==
    ASSUME IInv, ruling # None
    PROVE  /\ config \in TierAuthorityConfig
           /\ request \in ClaimDecisionRequest
           /\ AssignTier(request.claim, Thresholds) \in Tier
           /\ ruling.computedTier = AssignTier(request.claim, Thresholds)
           /\ ruling.finalDecision = FinalDecision(Own, request.decision)
           /\ ruling.finalPayout = IF ruling.finalDecision = "approve"
                                   THEN DeterministicPayout(request.claim, request.policy)
                                   ELSE 0
  <1>1. /\ config \in TierAuthorityConfig /\ request \in ClaimDecisionRequest
        /\ ~EvaluateRaises(request)
        /\ ruling = Evaluate(config, Thresholds, request)
    BY AuditAssumption DEF AuditAssumption, IInv, TypeOK, RulingIsAnswer
  <1>2. request.claim \in Claim
    BY <1>1 DEF ClaimDecisionRequest
  <1> QED BY <1>1, <1>2, EvaluateRules, AssignTierType DEF Own

\* The tier is as many levels above green as the claim's data raise it
\* (tiers.py, assign_tier).
LEMMA TierIsLevelsUp ==
    ASSUME NEW claim \in Claim
    PROVE  Rank[AssignTier(claim, Thresholds)]
              = IF LevelsUp(claim) > 3 THEN 4 ELSE LevelsUp(claim) + 1
  <1> DEFINE over(bound) == IF claim.damage > bound THEN 1 ELSE 0
             ofDamage == IF claim.damage = None THEN 1
                         ELSE over(Thresholds.green) + over(Thresholds.yellow)
                                                     + over(Thresholds.red)
             tier == DamageTier(claim.damage, Thresholds)
  <1>1. /\ Thresholds.green \in Nat /\ Thresholds.yellow \in Nat /\ Thresholds.red \in Nat
        /\ Thresholds.green < Thresholds.yellow /\ Thresholds.yellow < Thresholds.red
    BY AuditAssumption DEF AuditAssumption, TierThresholds
  <1>2. claim.damage = None \/ claim.damage \in Nat
    BY DEF Claim
  <1>3. tier \in Tier /\ ofDamage \in 0..3 /\ Rank[tier] = ofDamage + 1
    BY <1>1, <1>2 DEF DamageTier, Rank, Tier
  <1>4. \A t \in Tier : Rank[Escalation[t]] = IF Rank[t] = 4 THEN 4 ELSE Rank[t] + 1
    BY DEF Rank, Escalation, Tier
  <1>5. LevelsUp(claim) = ofDamage + (IF claim.injuries THEN 1 ELSE 0)
    BY DEF LevelsUp
  <1>6. AssignTier(claim, Thresholds) = IF claim.injuries THEN Escalation[tier] ELSE tier
    BY DEF AssignTier
  <1> HIDE DEF ofDamage, tier
  <1> QED BY <1>3, <1>4, <1>5, <1>6

\* The tier is the one of the claim's own data, and the harness never lets a
\* decision through that this tier does not allow, whatever the model claims
\* (tiers.py, authority.py).
THEOREM DecisionsStayWithinAuthority == Spec => []RulingWithinAuthority
  <1>1. IInv => RulingWithinAuthority
    <2> SUFFICES ASSUME IInv, ruling # None
                 PROVE  /\ Rank[ruling.computedTier]
                              = IF LevelsUp(request.claim) > 3 THEN 4
                                ELSE LevelsUp(request.claim) + 1
                        /\ Coherent(config)
                              => ruling.finalDecision \in config[ruling.computedTier].allowed
      BY DEF RulingWithinAuthority
    <2>1. request.claim \in Claim /\ request.decision \in Decision
      BY RulingFacts DEF ClaimDecisionRequest
    <2>2. ASSUME Coherent(config) PROVE ruling.finalDecision \in Own.allowed
      <3>1. Own \in TierAuthorityRule /\ Own.onDisallowed \in Own.allowed
        BY <2>2, RulingFacts DEF Own, Coherent, TierAuthorityConfig
      <3> QED BY <2>1, <3>1, RulingFacts, FinalDecisionPermitted
    <2>3. Own = config[ruling.computedTier]
      BY RulingFacts DEF Own
    <2> QED BY <2>1, <2>2, <2>3, RulingFacts, TierIsLevelsUp
  <1> QED BY <1>1, Inductive, PTL

\* Money leaves only for an approved, assessed loss under a line that answers
\* for it, net of the deductible and up to the limit
\* (claim_decision_engine.py with calculations.py).
THEOREM PaymentsHaveGrounds == Spec => []PaymentNeedsGrounds
  <1>1. IInv => PaymentNeedsGrounds
    <2> SUFFICES ASSUME IInv, ruling # None, ruling.finalPayout > 0
                 PROVE  /\ ruling.finalDecision = "approve"
                        /\ request.policy # None /\ request.claim.damage # None
                        /\ \E kind \in CoverageType \ {"liability"} :
                              LET line == request.policy.coverages[kind]
                              IN  /\ line # None
                                  /\ kind = "collision" <=> request.claim.incident = "collision"
                                  /\ request.claim.incident # "other"
                                  /\ ruling.finalPayout <= line.limit
                                  /\ ruling.finalPayout + line.deductible
                                        <= request.claim.damage
                                  /\ \/ ruling.finalPayout = line.limit
                                     \/ ruling.finalPayout + line.deductible
                                           = request.claim.damage
      BY DEF PaymentNeedsGrounds
    <2>1. /\ ruling.finalDecision = "approve"
          /\ ruling.finalPayout = DeterministicPayout(request.claim, request.policy)
      BY RulingFacts
    <2>2. request.claim \in Claim /\ request.policy \in Policy \cup {None}
      BY RulingFacts DEF ClaimDecisionRequest
    <2> QED BY <2>1, <2>2, OwedHasGrounds
  <1> QED BY <1>1, Inductive, PTL

\* The amount and the tier a model claims never move the outcome: requests
\* that differ in nothing else are ruled alike (claim_decision_engine.py).
THEOREM ProposalsDoNotMoveOutcomes == Spec => ModelCannotMoveOutcome
  <1> DEFINE Alike == /\ ruling # None /\ ruling' # None
                      /\ request.claim = request'.claim /\ request.policy = request'.policy
                      /\ request.decision = request'.decision
                      => Outcome(ruling) = Outcome(ruling')
  <1>1. IInv /\ IInv' /\ [Next]_vars => [Alike]_vars
    <2> SUFFICES ASSUME IInv, IInv', Next, ruling # None, ruling' # None,
                        request.claim = request'.claim,
                        request.policy = request'.policy,
                        request.decision = request'.decision
                 PROVE  Outcome(ruling) = Outcome(ruling')
      OBVIOUS
    <2>1. config' = config
      BY DEF Next, Adjudicate, Refuse
    <2>2. /\ ruling'.computedTier = AssignTier(request'.claim, Thresholds)
          /\ ruling'.finalDecision = FinalDecision(Own', request'.decision)
          /\ ruling'.finalPayout =
                IF ruling'.finalDecision = "approve"
                THEN DeterministicPayout(request'.claim, request'.policy) ELSE 0
      <3>1. /\ config' \in TierAuthorityConfig /\ request' \in ClaimDecisionRequest
            /\ ~EvaluateRaises(request')
            /\ ruling' = Evaluate(config', Thresholds, request')
        BY AuditAssumption DEF AuditAssumption, IInv, TypeOK, RulingIsAnswer
      <3> QED BY <3>1, EvaluateRules DEF Own
    <2>3. Own' = Own
      BY <2>1 DEF Own
    <2> QED BY <2>2, <2>3, RulingFacts DEF Outcome
  <1> QED BY <1>1, Inductive, PTL DEF Spec, ModelCannotMoveOutcome

\* The audit flags and the reason say exactly what the ruling changed
\* (claim_decisions.py, the audit signals).
THEOREM FlagsAreExact == Spec => []AuditFlagsAreExact
  <1>1. IInv => AuditFlagsAreExact
    <2> SUFFICES ASSUME IInv, ruling # None, Coherent(config)
                 PROVE  AuditFlagsAreExact
      BY DEF AuditFlagsAreExact
    <2>1. ruling = Evaluate(config, Thresholds, request)
      BY DEF IInv, RulingIsAnswer
    <2>2. Own \in TierAuthorityRule /\ Own.onDisallowed \in Own.allowed
      BY RulingFacts DEF Own, Coherent, TierAuthorityConfig
    <2>3. request.decision \in Decision /\ request.tier \in Tier \cup {None}
      BY RulingFacts DEF ClaimDecisionRequest
    <2>4. ruling.overridden <=> ruling.finalDecision # request.decision
      <3>1. ruling.overridden <=> request.decision \notin Own.allowed
        BY <2>1 DEF Evaluate, AuthorityEvaluate, Own
      <3> QED BY <2>2, <2>3, <3>1, RulingFacts, FinalDecisionPermitted
    <2>5. ruling.payoutOverridden <=> ruling.finalPayout # request.payout
      BY <2>1 DEF Evaluate
    <2>6. ruling.tierDisagreement
             <=> request.tier \notin {None, AssignTier(request.claim, Thresholds)}
      BY <2>1, <2>3 DEF Evaluate, AuthorityEvaluate
    <2>7. ruling.reason = "investigation" <=> Own.investigate
      <3>1. ruling.reason = ReasonFor(Own, request.decision \in Own.allowed)
        BY <2>1 DEF Evaluate, AuthorityEvaluate, Own
      <3> QED BY <3>1 DEF ReasonFor
    <2> QED BY <2>4, <2>5, <2>6, <2>7 DEF AuditFlagsAreExact
  <1> QED BY <1>1, Inductive, PTL

\* More damage or an injury never lowers the tier (tiers.py, assign_tier).
LEMMA TierMonotone ==
    ASSUME NEW c \in Claim, NEW d \in Claim, AtLeastAsSevere(c, d)
    PROVE  Rank[AssignTier(c, Thresholds)] <= Rank[AssignTier(d, Thresholds)]
  <1>1. /\ c.damage \in Nat /\ d.damage \in Nat /\ c.damage <= d.damage
        /\ c.damage # None /\ d.damage # None
        /\ c.injuries \in BOOLEAN /\ d.injuries \in BOOLEAN /\ (c.injuries => d.injuries)
    BY DEF AtLeastAsSevere, Claim
  <1>2. /\ Thresholds.green \in Nat /\ Thresholds.yellow \in Nat /\ Thresholds.red \in Nat
        /\ Thresholds.green < Thresholds.yellow /\ Thresholds.yellow < Thresholds.red
    BY AuditAssumption DEF AuditAssumption, TierThresholds
  <1>3. /\ Rank[DamageTier(c.damage, Thresholds)] <= Rank[DamageTier(d.damage, Thresholds)]
        /\ DamageTier(c.damage, Thresholds) \in Tier /\ DamageTier(d.damage, Thresholds) \in Tier
    BY <1>1, <1>2 DEF DamageTier, Rank, Tier
  <1>4. \A s, t \in Tier : Rank[s] <= Rank[t] =>
           /\ Rank[Escalation[s]] <= Rank[Escalation[t]]
           /\ Rank[s] <= Rank[Escalation[t]]
    BY DEF Rank, Escalation, Tier
  <1> QED BY <1>1, <1>3, <1>4 DEF AssignTier

\* A more severe claim is never routed to a lower tier, nor approved on a
\* proposal that the milder claim had overridden (tiers.py, authority.py).
THEOREM SeverityIsMonotone == Spec => SeverityNeverRelaxes
  <1> DEFINE NotRelaxed ==
          /\ ruling # None /\ ruling' # None
          /\ AtLeastAsSevere(request.claim, request'.claim)
          => /\ Rank[ruling.computedTier] <= Rank[ruling'.computedTier]
             /\ /\ Coherent(config) /\ Nested(config)
                /\ request.decision = "approve" /\ ruling'.finalDecision = "approve"
                => ruling.finalDecision = "approve"
  <1>1. IInv /\ IInv' /\ [Next]_vars => [NotRelaxed]_vars
    <2> SUFFICES ASSUME IInv, IInv', Next, ruling # None, ruling' # None,
                        AtLeastAsSevere(request.claim, request'.claim)
                 PROVE  /\ Rank[ruling.computedTier] <= Rank[ruling'.computedTier]
                        /\ /\ Coherent(config) /\ Nested(config)
                           /\ request.decision = "approve" /\ ruling'.finalDecision = "approve"
                           => ruling.finalDecision = "approve"
      OBVIOUS
    <2> DEFINE tier  == AssignTier(request.claim, Thresholds)
               after == AssignTier(request'.claim, Thresholds)
    <2>1. config' = config
      BY DEF Next, Adjudicate, Refuse
    <2>2. /\ request' \in ClaimDecisionRequest
          /\ ruling'.computedTier = after
          /\ ruling'.finalDecision = FinalDecision(config[after], request'.decision)
      <3>1. /\ config' \in TierAuthorityConfig /\ request' \in ClaimDecisionRequest
            /\ ~EvaluateRaises(request')
            /\ ruling' = Evaluate(config', Thresholds, request')
        BY AuditAssumption DEF AuditAssumption, IInv, TypeOK, RulingIsAnswer
      <3> QED BY <2>1, <3>1, EvaluateRules
    <2>3. request.claim \in Claim /\ request'.claim \in Claim
      BY <2>2, RulingFacts DEF ClaimDecisionRequest
    <2>4. Rank[tier] <= Rank[after]
      BY <2>3, TierMonotone
    <2>5. tier \in Tier /\ after \in Tier
      BY <2>3, AssignTierType
    <2>6. ASSUME Coherent(config), Nested(config),
                 request.decision = "approve", ruling'.finalDecision = "approve"
          PROVE  ruling.finalDecision = "approve"
      <3>1. /\ config[tier] \in TierAuthorityRule /\ config[after] \in TierAuthorityRule
            /\ request'.decision \in Decision
        BY <2>2, <2>5, RulingFacts DEF TierAuthorityConfig, ClaimDecisionRequest
      <3> HIDE DEF tier, after
      <3>2. "approve" \in config[after].allowed
        <4>1. FinalDecision(config[after], request'.decision) = "approve"
          BY <2>2, <2>6
        <4>2. config[after].onDisallowed \in config[after].allowed
          BY <2>5, <2>6 DEF Coherent
        <4> QED BY <4>1, <4>2 DEF FinalDecision
      <3>3. "approve" \in config[tier].allowed
        BY <2>4, <2>5, <2>6, <3>2 DEF Nested
      <3> QED BY <2>6, <3>3, RulingFacts DEF Own, FinalDecision, tier
    <2> QED BY <2>2, <2>4, <2>6, RulingFacts
  <1> QED BY <1>1, Inductive, PTL DEF Spec, SeverityNeverRelaxes
=============================================================================
