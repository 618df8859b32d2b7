--------------------------- MODULE SeedDataProofs --------------------------
(***************************************************************************)
(* For every number of policies, every day the script runs on, every draw  *)
(* and every thresholds file between the generator's amount ranges: the    *)
(* claims land where the evaluation expects them, and the harness meets    *)
(* what the scenarios expect of them, whatever the model proposes.         *)
(***************************************************************************)
EXTENDS ShippedScenarios, DecisionEngineProofs, TLAPS

\* What every generated policy keeps: its place is its number, it runs for a
\* year, and its vehicles were numbered before any other policy's.
PoliciesInv ==
    \A i \in 1..Len(policies) :
        /\ policies[i] \in SeedPolicy
        /\ policies[i].number = i
        /\ policies[i].expiration = policies[i].effective + 365
        /\ \A v \in policies[i].vehicles : v < vinSeq
        /\ \A j \in 1..Len(policies) : policies[i].vehicles \cap policies[j].vehicles # {} => i = j

SeedInv == /\ SeedTypeOK /\ PoliciesInv
           /\ made > 0 => Len(policies) = PolicyCount
           /\ ClaimsHitTheirTier /\ OrdinaryClaimsAreEligible /\ AdversarialClaimsAreIneligible

LEMMA SequenceFacts ==
    ASSUME NEW S, NEW seq \in Seq(S)
    PROVE  /\ Len(seq) \in Nat /\ DOMAIN seq = 1..Len(seq)
           /\ \A i \in 1..Len(seq) : seq[i] \in S
           /\ \A e \in S : /\ Append(seq, e) \in Seq(S) /\ Len(Append(seq, e)) = Len(seq) + 1
                           /\ \A i \in 1..Len(seq) : Append(seq, e)[i] = seq[i]
                           /\ Append(seq, e)[Len(seq) + 1] = e
  OBVIOUS

LEMMA LineFacts ==
    ASSUME NEW limit \in Nat, NEW deductible \in Nat
    PROVE  Line(limit, deductible) \in Coverage /\ Line(limit, deductible) # None
  <1>1. Line(limit, deductible) \in Coverage
    BY DEF Line, Money, Coverage
  <1> QED BY <1>1, NoneAssumption DEF NoneAssumption

LEMMA DrawnCoveragesFacts == DrawnCoverages \subseteq CoverageLines
  <1> SUFFICES ASSUME NEW lines \in DrawnCoverages PROVE lines \in CoverageLines
    OBVIOUS
  <1>1. PICK collision \in {None, Line(25000, 500), Line(25000, 1000)},
             comprehensive \in {None, Line(20000, 250), Line(20000, 500)} :
             lines = [liability |-> Line(50000, 0), collision |-> collision,
                      comprehensive |-> comprehensive]
    BY DEF DrawnCoverages
  <1>2. /\ Line(50000, 0) \in Coverage /\ Line(50000, 0) # None
        /\ collision \in Coverage \cup {None} /\ comprehensive \in Coverage \cup {None}
    BY LineFacts
  <1>3. /\ lines = [kind \in CoverageType |-> lines[kind]]
        /\ lines["liability"] = Line(50000, 0) /\ lines["collision"] = collision
        /\ lines["comprehensive"] = comprehensive
    BY <1>1 DEF CoverageType
  <1>4. \A kind \in CoverageType : lines[kind] \in Coverage \cup {None}
    BY <1>2, <1>3 DEF CoverageType
  <1>5. lines \in [CoverageType -> Coverage \cup {None}]
    BY <1>3, <1>4
  <1>6. "liability" \in CoverageType /\ lines["liability"] # None
    BY <1>2, <1>3 DEF CoverageType
  <1> QED BY <1>5, <1>6 DEF CoverageLines

LEMMA DateFacts ==
    ASSUME NEW start \in Int, NEW end \in Int, NEW date \in RandDate(start, end)
    PROVE  date \in Int /\ start <= date /\ date <= end
  BY SeedAssumption DEF SeedAssumption, RandDate

LEMMA ConstantFacts ==
    /\ PolicyCount \in Nat /\ 0 < PolicyCount /\ PolicyCount < GhostNumber /\ Today \in Int
    /\ GhostNumber \in Nat
  BY SeedAssumption DEF SeedAssumption, GhostNumber

LEMMA InitInv == Init => SeedInv
  <1> SUFFICES ASSUME Init PROVE SeedInv
    OBVIOUS
  <1>1. policies = <<>> /\ policies \in Seq(SeedPolicy) /\ Len(policies) = 0 /\ made = 0
    BY DEF Init
  <1>2. SeedTypeOK
    BY <1>1, ConstantFacts DEF Init, SeedTypeOK
  <1>3. PoliciesInv
    BY <1>1 DEF PoliciesInv
  <1>4. ClaimsHitTheirTier /\ OrdinaryClaimsAreEligible /\ AdversarialClaimsAreIneligible
    BY <1>1 DEF ClaimsHitTheirTier, OrdinaryClaimsAreEligible, AdversarialClaimsAreIneligible
  <1> QED BY <1>1, <1>2, <1>3, <1>4 DEF SeedInv

LEMMA MakePolicyInv ==
    ASSUME SeedInv, MakePolicy
    PROVE  SeedInv'
  <1> USE DEF SeedInv
  <1>1. PICK effective \in RandDate(Today - 730, Today - 183), n \in {1, 2}, lines \in DrawnCoverages :
          /\ policies' = Append(policies, [number |-> Len(policies) + 1,
                                           effective |-> effective, expiration |-> effective + 365,
                                           vehicles |-> NewVehicles(n), coverages |-> lines])
          /\ vinSeq' = vinSeq + n
    BY DEF MakePolicy
  <1> DEFINE new == [number |-> Len(policies) + 1,
                     effective |-> effective, expiration |-> effective + 365,
                     vehicles |-> NewVehicles(n), coverages |-> lines]
  <1>2. /\ policies \in Seq(SeedPolicy) /\ Len(policies) \in Nat
        /\ Len(policies) < PolicyCount /\ PolicyCount \in Nat /\ vinSeq \in Nat \ {0}
        /\ UNCHANGED <<made, claim, written>> /\ written = "nothing"
    <2>1. policies \in Seq(SeedPolicy) /\ vinSeq \in Nat \ {0}
      BY DEF SeedTypeOK
    <2>2. Len(policies) \in Nat
      BY <2>1
    <2> QED BY <2>1, <2>2, ConstantFacts DEF MakePolicy
  <1>3. effective \in Int
    BY DateFacts, SeedAssumption DEF SeedAssumption
  <1>4. NewVehicles(n) \in SUBSET Nat /\ \A v \in NewVehicles(n) : vinSeq <= v /\ v < vinSeq'
    BY <1>1, <1>2 DEF NewVehicles
  <1>5. new \in SeedPolicy
    <2>1. lines \in CoverageLines
      BY DrawnCoveragesFacts
    <2> QED BY <1>2, <1>3, <1>4, <2>1 DEF SeedPolicy
  <1>6. /\ new.number = Len(policies) + 1 /\ new.expiration = new.effective + 365
        /\ new.vehicles = NewVehicles(n)
    OBVIOUS
  <1>7. policies' = Append(policies, new)
    BY <1>1
  <1> HIDE DEF new
  <1>8. /\ policies' \in Seq(SeedPolicy) /\ Len(policies') = Len(policies) + 1
        /\ \A i \in 1..Len(policies) : policies'[i] = policies[i]
        /\ policies'[Len(policies) + 1] = new
    BY <1>2, <1>5, <1>7, SequenceFacts
  <1>9. SeedTypeOK'
    <2>1. vinSeq' \in Nat \ {0} /\ Len(policies') <= PolicyCount
      BY <1>1, <1>2, <1>8
    <2> QED BY <1>2, <1>8, <2>1 DEF SeedTypeOK
  <1>10. PoliciesInv'
    <2>1. \A i \in 1..Len(policies') : i \in 1..Len(policies) \/ i = Len(policies) + 1
      BY <1>2, <1>8
    <2>2. vinSeq \in Nat /\ vinSeq' \in Nat /\ vinSeq < vinSeq'
      BY <1>1, <1>2
    <2>3. ASSUME NEW i \in 1..Len(policies)
          PROVE  /\ policies'[i] \in SeedPolicy /\ policies'[i].number = i
                 /\ policies'[i].expiration = policies'[i].effective + 365
                 /\ \A v \in policies'[i].vehicles : v \in Nat /\ v < vinSeq /\ v < vinSeq'
      <3>1. policies[i].vehicles \in SUBSET Nat
        BY DEF PoliciesInv, SeedPolicy
      <3>2. \A v \in policies[i].vehicles : v \in Nat /\ v < vinSeq
        BY <3>1 DEF PoliciesInv
      <3>3. \A v \in policies[i].vehicles : v < vinSeq'
        BY <2>2, <3>2
      <3> QED BY <1>8, <3>2, <3>3 DEF PoliciesInv
    <2>4. \A i \in 1..Len(policies) : policies'[i].vehicles \cap new.vehicles = {}
      BY <1>2, <1>4, <1>6, <2>3
    <2>5. ASSUME NEW i \in 1..Len(policies'), NEW j \in 1..Len(policies'),
                 policies'[i].vehicles \cap policies'[j].vehicles # {}
          PROVE  i = j
      <3>1. CASE i \in 1..Len(policies) /\ j \in 1..Len(policies)
        BY <1>8, <2>5, <3>1 DEF PoliciesInv
      <3>2. CASE i = Len(policies) + 1 /\ j = Len(policies) + 1
        BY <3>2
      <3>3. CASE i \in 1..Len(policies) /\ j = Len(policies) + 1
        BY <1>8, <2>4, <2>5, <3>3
      <3>4. CASE i = Len(policies) + 1 /\ j \in 1..Len(policies)
        BY <1>8, <2>4, <2>5, <3>4
      <3> QED BY <2>1, <3>1, <3>2, <3>3, <3>4
    <2>6. /\ new \in SeedPolicy /\ new.number = Len(policies) + 1
          /\ new.expiration = new.effective + 365 /\ \A v \in new.vehicles : v < vinSeq'
      BY <1>4, <1>5, <1>6
    <2>7. ASSUME NEW i \in 1..Len(policies')
          PROVE  /\ policies'[i] \in SeedPolicy /\ policies'[i].number = i
                 /\ policies'[i].expiration = policies'[i].effective + 365
                 /\ \A v \in policies'[i].vehicles : v < vinSeq'
      BY <1>8, <2>1, <2>3, <2>6
    <2> QED BY <2>5, <2>7 DEF PoliciesInv
  <1>11. made = 0 /\ made' = 0
    BY <1>2 DEF SeedTypeOK
  <1> QED BY <1>2, <1>9, <1>10, <1>11 DEF ClaimsHitTheirTier, OrdinaryClaimsAreEligible,
             AdversarialClaimsAreIneligible

\* A claim leaves the policies alone, so the rest is what is said of it.
LEMMA NextClaimInv ==
    ASSUME SeedInv, PoliciesMade, made < 20,
           NEW next \in SeedClaim, Claims(next),
           ClaimsHitTheirTier', OrdinaryClaimsAreEligible', AdversarialClaimsAreIneligible'
    PROVE  SeedInv'
  <1> USE DEF SeedInv
  <1>1. /\ made' = made + 1 /\ claim' = next /\ UNCHANGED <<policies, vinSeq, written>>
        /\ written = "nothing" /\ Len(policies) = PolicyCount /\ made \in 0..20
    BY DEF Claims, PoliciesMade, SeedTypeOK
  <1>2. next # None
    BY SeedAssumption DEF SeedAssumption
  <1>3. SeedTypeOK'
    BY <1>1, <1>2 DEF SeedTypeOK
  <1>4. PoliciesInv'
    BY <1>1 DEF PoliciesInv
  <1> QED BY <1>1, <1>3, <1>4

\* A policy of the list, seen through its place.
LEMMA PlaceFacts ==
    ASSUME SeedInv, NEW i \in DOMAIN policies
    PROVE  /\ DOMAIN policies = 1..Len(policies) /\ Len(policies) \in Nat /\ i \in Nat
           /\ policies[i] \in SeedPolicy /\ policies[i].number = i
           /\ policies[i].effective \in Int
           /\ policies[i].expiration = policies[i].effective + 365
           /\ policies[i].vehicles \in SUBSET Nat
           /\ PolicyNumbered(i) = {i}
           /\ \A vehicle \in policies[i].vehicles :
                 \A j \in DOMAIN policies : vehicle \in policies[j].vehicles <=> j = i
           /\ \A date \in IncidentDates(policies[i]) :
                 date \in Int /\ policies[i].effective <= date /\ date <= policies[i].expiration
  <1> USE DEF SeedInv
  <1>1. DOMAIN policies = 1..Len(policies) /\ Len(policies) \in Nat
    BY SequenceFacts DEF SeedTypeOK
  <1>2. /\ policies[i] \in SeedPolicy /\ policies[i].number = i
        /\ policies[i].expiration = policies[i].effective + 365
    BY <1>1 DEF PoliciesInv
  <1>3. policies[i].effective \in Int /\ policies[i].expiration \in Int /\ policies[i].vehicles \in SUBSET Nat
    BY <1>2 DEF SeedPolicy
  <1>4. PolicyNumbered(i) = {i}
    BY <1>1 DEF PoliciesInv, PolicyNumbered
  <1>5. \A vehicle \in policies[i].vehicles :
           \A j \in DOMAIN policies : vehicle \in policies[j].vehicles <=> j = i
    BY <1>1 DEF PoliciesInv
  <1>6. \A date \in IncidentDates(policies[i]) :
           date \in Int /\ policies[i].effective <= date /\ date <= policies[i].expiration
    BY <1>3, DateFacts DEF IncidentDates
  <1> QED BY <1>1, <1>2, <1>3, <1>4, <1>5, <1>6

\* Every amount the generator aims at a tier falls in it.
LEMMA TargetTiers ==
    ASSUME NEW n \in 1..17, NEW damage \in TargetDamage(n), NEW next,
           next.damage = damage, next.injuries <=> TargetInjured(n)
    PROVE  /\ damage \in Nat
           /\ AssignTier(next, Thresholds) = CASE n \in 1..5   -> "green"
                                               [] n \in 6..10  -> "yellow"
                                               [] n \in 11..15 -> "red"
                                               [] n \in 16..17 -> "black"
  <1>1. /\ Thresholds.green \in Nat /\ Thresholds.yellow \in Nat /\ Thresholds.red \in Nat
        /\ 45000 <= Thresholds.green   /\ Thresholds.green < 80000
        /\ 450000 <= Thresholds.yellow /\ Thresholds.yellow < 800000
        /\ 2000000 <= Thresholds.red   /\ Thresholds.red < 3500000
    <2>1. Thresholds \in TierThresholds
      BY SeedAssumption DEF SeedAssumption
    <2>2. Thresholds.green \in Nat /\ Thresholds.yellow \in Nat /\ Thresholds.red \in Nat
      BY <2>1 DEF TierThresholds
    <2> QED BY <2>2, SeedAssumption DEF SeedAssumption, Money
  <1>2. \A lo, hi \in Nat : \A cents \in RandDecimal(lo, hi) :
           cents \in Nat /\ 100 * lo <= cents /\ cents <= 100 * hi
    BY SeedAssumption DEF SeedAssumption, RandDecimal, Money
  <1>3. None \notin Nat
    BY NoneAssumption DEF NoneAssumption
  <1>4. CASE n \in 1..5
    <2>0. TargetDamage(n) = RandDecimal(100, 450)
      BY <1>4 DEF TargetDamage
    <2>1. damage \in RandDecimal(100, 450) /\ ~next.injuries
      BY <1>4, <2>0 DEF TargetInjured
    <2>2. damage \in Nat /\ damage <= 45000
      BY <1>2, <2>1
    <2> QED BY <1>1, <1>3, <1>4, <2>1, <2>2 DEF AssignTier, DamageTier
  <1>5. CASE n \in 6..10
    <2>0. TargetDamage(n) = RandDecimal(800, 4500)
      BY <1>5 DEF TargetDamage
    <2>1. damage \in RandDecimal(800, 4500) /\ ~next.injuries
      BY <1>5, <2>0 DEF TargetInjured
    <2>2. damage \in Nat /\ 80000 <= damage /\ damage <= 450000
      BY <1>2, <2>1
    <2>3. AssignTier(next, Thresholds) = "yellow"
      BY <1>1, <1>3, <2>1, <2>2 DEF AssignTier, DamageTier
    <2> QED BY <1>5, <2>2, <2>3
  <1>6. CASE n \in 11..13
    <2>0. TargetDamage(n) = RandDecimal(8000, 20000)
      BY <1>6 DEF TargetDamage
    <2>1. damage \in RandDecimal(8000, 20000) /\ ~next.injuries
      BY <1>6, <2>0 DEF TargetInjured
    <2>2. damage \in Nat /\ 800000 <= damage /\ damage <= 2000000
      BY <1>2, <2>1
    <2>3. AssignTier(next, Thresholds) = "red"
      BY <1>1, <1>3, <2>1, <2>2 DEF AssignTier, DamageTier
    <2> QED BY <1>6, <2>2, <2>3
  <1>7. CASE n \in 14..15
    <2>0. TargetDamage(n) = RandDecimal(2000, 4000)
      BY <1>7 DEF TargetDamage
    <2>1. damage \in RandDecimal(2000, 4000) /\ next.injuries
      BY <1>7, <2>0 DEF TargetInjured
    <2>2. damage \in Nat /\ 200000 <= damage /\ damage <= 400000
      BY <1>2, <2>1
    <2>3. DamageTier(next.damage, Thresholds) = "yellow"
      BY <1>1, <1>3, <2>2 DEF DamageTier
    <2>4. AssignTier(next, Thresholds) = "red"
      BY <2>1, <2>3 DEF AssignTier, Escalation
    <2> QED BY <1>7, <2>2, <2>4
  <1>8. CASE n \in 16..17
    <2>0. TargetDamage(n) \subseteq {3500000, 6000000}
      BY <1>8 DEF TargetDamage, Money
    <2>1. damage \in {3500000, 6000000} /\ ~next.injuries
      BY <1>8, <2>0 DEF TargetInjured
    <2>2. AssignTier(next, Thresholds) = "black"
      BY <1>1, <1>3, <2>1 DEF AssignTier, DamageTier
    <2> QED BY <1>8, <2>1, <2>2
  <1>9. n \in 1..5 \/ n \in 6..10 \/ n \in 11..13 \/ n \in 14..15 \/ n \in 16..17
    OBVIOUS
  <1> QED BY <1>4, <1>5, <1>6, <1>7, <1>8, <1>9

LEMMA TargetClaimInv ==
    ASSUME SeedInv, TargetClaim
    PROVE  SeedInv'
  <1>0. PICK i \in CollisionPool :
          \E vehicle \in policies[i].vehicles, date \in IncidentDates(policies[i]),
             damage \in TargetDamage(made + 1) :
             Claims([policy |-> policies[i].number, vehicle |-> vehicle, incident |-> "collision",
                     date |-> date, injuries |-> TargetInjured(made + 1), damage |-> damage])
    BY DEF TargetClaim
  <1>1. PICK vehicle \in policies[i].vehicles, date \in IncidentDates(policies[i]),
             damage \in TargetDamage(made + 1) :
          Claims([policy |-> policies[i].number, vehicle |-> vehicle, incident |-> "collision",
                  date |-> date, injuries |-> TargetInjured(made + 1), damage |-> damage])
    BY <1>0
  <1> DEFINE next == [policy |-> policies[i].number, vehicle |-> vehicle, incident |-> "collision",
                      date |-> date, injuries |-> TargetInjured(made + 1), damage |-> damage]
  <1>2. made \in 0..16 /\ made + 1 \in 1..17 /\ PoliciesMade
    BY DEF TargetClaim, SeedInv, SeedTypeOK
  <1>3. i \in DOMAIN policies /\ policies[i].coverages["collision"] # None
    BY DEF CollisionPool
  <1>4. /\ next.policy = i /\ next.vehicle = vehicle /\ next.incident = "collision" /\ next.date = date
        /\ next.damage = damage /\ (next.injuries <=> TargetInjured(made + 1))
    BY <1>3, PlaceFacts DEF TargetInjured
  <1>5. /\ damage \in Nat
        /\ AssignTier(next, Thresholds) = CASE made + 1 \in 1..5   -> "green"
                                            [] made + 1 \in 6..10  -> "yellow"
                                            [] made + 1 \in 11..15 -> "red"
                                            [] made + 1 \in 16..17 -> "black"
    <2> HIDE DEF next
    <2> QED BY <1>2, <1>4, TargetTiers
  <1>6. next \in SeedClaim
    BY <1>3, <1>5, PlaceFacts DEF SeedClaim, IncidentType, TargetInjured
  <1>7. Claims(next)
    BY <1>1
  <1> HIDE DEF next
  <1>8. made' = made + 1 /\ claim' = next /\ policies' = policies
    BY <1>7 DEF Claims
  <1>9. ClaimsHitTheirTier'
    BY <1>5, <1>8 DEF ClaimsHitTheirTier
  <1>10. OrdinaryClaimsAreEligible'
    <2>1. PolicyNumbered(claim.policy)' = {i}
      BY <1>3, <1>4, <1>8, PlaceFacts DEF PolicyNumbered
    <2>2. PolicyActiveForClaim(policies[i], next)
      BY <1>3, <1>4, PlaceFacts DEF PolicyActiveForClaim, IsActiveOn
    <2>3. CoverageApplies(next, policies[i]) # None
      <3>1. "collision" # None
        BY SeedAssumption DEF SeedAssumption, CoverageType
      <3>2. CoverageKind(next.incident) = "collision"
        BY <1>4 DEF CoverageKind
      <3> QED BY <1>3, <3>1, <3>2 DEF CoverageApplies
    <2>4. \A j \in DOMAIN policies : next.vehicle \in policies[j].vehicles <=> j = i
      BY <1>3, <1>4, PlaceFacts
    <2> QED BY <1>3, <1>8, <2>1, <2>2, <2>3, <2>4 DEF OrdinaryClaimsAreEligible, PolicyNumbered
  <1>11. AdversarialClaimsAreIneligible'
    BY <1>2, <1>8 DEF AdversarialClaimsAreIneligible
  <1> QED BY <1>2, <1>6, <1>7, <1>9, <1>10, <1>11, NextClaimInv

LEMMA LapsedClaimInv ==
    ASSUME SeedInv, LapsedClaim
    PROVE  SeedInv'
  <1>1. PICK vehicle \in policies[1].vehicles :
          Claims([policy |-> 1, vehicle |-> vehicle, incident |-> "collision",
                  date |-> LapsedDate(policies[1]), injuries |-> FALSE, damage |-> Money(1500)])
    BY DEF LapsedClaim
  <1> DEFINE next == [policy |-> 1, vehicle |-> vehicle, incident |-> "collision",
                      date |-> LapsedDate(policies[1]), injuries |-> FALSE, damage |-> Money(1500)]
  <1>2. made = 17 /\ PoliciesMade
    BY DEF LapsedClaim
  <1>3. 1 \in DOMAIN policies
    <2>1. Len(policies) = PolicyCount /\ DOMAIN policies = 1..Len(policies)
      BY <1>2, SequenceFacts DEF PoliciesMade, SeedInv, SeedTypeOK
    <2> QED BY <2>1, ConstantFacts
  <1>4. next \in SeedClaim
    BY <1>3, PlaceFacts DEF SeedClaim, IncidentType, Money, LapsedDate
  <1>5. next.policy = 1 /\ next.date = policies[1].effective - 730
    BY DEF LapsedDate
  <1>6. Claims(next)
    BY <1>1
  <1> HIDE DEF next
  <1>7. made' = 18 /\ claim' = next /\ policies' = policies
    BY <1>2, <1>6 DEF Claims
  <1>8. AdversarialClaimsAreIneligible'
    <2>1. PolicyNumbered(claim.policy)' = {1}
      BY <1>3, <1>5, <1>7, PlaceFacts DEF PolicyNumbered
    <2>2. ~PolicyActiveForClaim(policies[1], next)
      BY <1>3, <1>5, PlaceFacts DEF PolicyActiveForClaim, IsActiveOn
    <2> QED BY <1>7, <2>1, <2>2 DEF AdversarialClaimsAreIneligible, PolicyNumbered
  <1>9. ClaimsHitTheirTier' /\ OrdinaryClaimsAreEligible'
    BY <1>7 DEF ClaimsHitTheirTier, OrdinaryClaimsAreEligible
  <1> QED BY <1>2, <1>4, <1>6, <1>8, <1>9, NextClaimInv

LEMMA GhostClaimInv ==
    ASSUME SeedInv, GhostClaim
    PROVE  SeedInv'
  <1> DEFINE next == [policy |-> GhostNumber, vehicle |-> 0, incident |-> "collision",
                      date |-> Today - 30, injuries |-> FALSE, damage |-> Money(2000)]
  <1>1. made = 18 /\ PoliciesMade /\ Claims(next)
    BY DEF GhostClaim
  <1>2. next \in SeedClaim /\ next.policy = GhostNumber
    BY ConstantFacts DEF SeedClaim, IncidentType, Money
  <1> HIDE DEF next
  <1>3. made' = 19 /\ claim' = next /\ policies' = policies
    BY <1>1 DEF Claims
  <1>4. AdversarialClaimsAreIneligible'
    <2>1. Len(policies) = PolicyCount
      BY <1>1 DEF PoliciesMade
    <2>2. \A i \in DOMAIN policies : policies[i].number # GhostNumber
      BY <2>1, PlaceFacts, ConstantFacts
    <2>3. PolicyNumbered(claim.policy)' = {}
      BY <1>2, <1>3, <2>2 DEF PolicyNumbered
    <2> QED BY <1>3, <2>3 DEF AdversarialClaimsAreIneligible
  <1>5. ClaimsHitTheirTier' /\ OrdinaryClaimsAreEligible'
    BY <1>3 DEF ClaimsHitTheirTier, OrdinaryClaimsAreEligible
  <1> QED BY <1>1, <1>2, <1>4, <1>5, NextClaimInv

LEMMA TheftClaimInv ==
    ASSUME SeedInv, TheftClaim
    PROVE  SeedInv'
  <1>0. PICK i \in NoComprehensivePool :
          \E vehicle \in policies[i].vehicles, date \in IncidentDates(policies[i]) :
             Claims([policy |-> policies[i].number, vehicle |-> vehicle, incident |-> "theft",
                     date |-> date, injuries |-> FALSE, damage |-> None])
    BY DEF TheftClaim
  <1>1. PICK vehicle \in policies[i].vehicles, date \in IncidentDates(policies[i]) :
          Claims([policy |-> policies[i].number, vehicle |-> vehicle, incident |-> "theft",
                  date |-> date, injuries |-> FALSE, damage |-> None])
    BY <1>0
  <1> DEFINE next == [policy |-> policies[i].number, vehicle |-> vehicle, incident |-> "theft",
                      date |-> date, injuries |-> FALSE, damage |-> None]
  <1>2. made = 19 /\ PoliciesMade /\ Claims(next)
    BY <1>1 DEF TheftClaim
  <1>3. i \in DOMAIN policies /\ policies[i].coverages["comprehensive"] = None
    BY DEF NoComprehensivePool
  <1>4. next \in SeedClaim /\ next.policy = i /\ next.incident = "theft"
    BY <1>3, PlaceFacts DEF SeedClaim, IncidentType
  <1> HIDE DEF next
  <1>5. made' = 20 /\ claim' = next /\ policies' = policies
    BY <1>2 DEF Claims
  <1>6. AdversarialClaimsAreIneligible'
    <2>1. PolicyNumbered(claim.policy)' = {i}
      BY <1>3, <1>4, <1>5, PlaceFacts DEF PolicyNumbered
    <2>2. CoverageApplies(next, policies[i]) = None
      BY <1>3, <1>4 DEF CoverageApplies, CoverageKind
    <2> QED BY <1>5, <2>1, <2>2 DEF AdversarialClaimsAreIneligible, PolicyNumbered
  <1>7. ClaimsHitTheirTier' /\ OrdinaryClaimsAreEligible'
    BY <1>5 DEF ClaimsHitTheirTier, OrdinaryClaimsAreEligible
  <1> QED BY <1>2, <1>4, <1>6, <1>7, NextClaimInv

LEMMA NextInv == SeedInv /\ [Next]_vars => SeedInv'
  <1> SUFFICES ASSUME SeedInv, [Next]_vars PROVE SeedInv'
    OBVIOUS
  <1>1. CASE MakePolicy
    BY <1>1, MakePolicyInv
  <1>2. CASE TargetClaim
    BY <1>2, TargetClaimInv
  <1>3. CASE LapsedClaim
    BY <1>3, LapsedClaimInv
  <1>4. CASE GhostClaim
    BY <1>4, GhostClaimInv
  <1>5. CASE TheftClaim
    BY <1>5, TheftClaimInv
  <1>6. ASSUME UNCHANGED <<policies, vinSeq, made, claim>>,
               written' \in {"nothing", "policies", "both", "IndexError"}
        PROVE  SeedInv'
    <2>1. SeedTypeOK'
      BY <1>6 DEF SeedInv, SeedTypeOK
    <2>2. PoliciesInv' /\ (made > 0 => Len(policies) = PolicyCount)'
      BY <1>6 DEF SeedInv, PoliciesInv
    <2>3. ClaimsHitTheirTier'
      BY <1>6 DEF SeedInv, ClaimsHitTheirTier
    <2>4. OrdinaryClaimsAreEligible' /\ AdversarialClaimsAreIneligible'
      BY <1>6 DEF SeedInv, OrdinaryClaimsAreEligible, AdversarialClaimsAreIneligible, PolicyNumbered
    <2> QED BY <2>1, <2>2, <2>3, <2>4 DEF SeedInv
  <1>7. CASE ChoiceFails \/ WritePolicies \/ WriteClaims
    BY <1>6, <1>7 DEF ChoiceFails, WritePolicies, WriteClaims
  <1>8. CASE UNCHANGED vars
    BY <1>6, <1>8 DEF vars, SeedInv, SeedTypeOK
  <1> QED BY <1>1, <1>2, <1>3, <1>4, <1>5, <1>7, <1>8 DEF Next

LEMMA AlwaysSeeded == Spec => []SeedInv
  <1> QED BY InitInv, NextInv, PTL DEF Spec

\* The generator's lists, counters and files are well typed at every step.
THEOREM SeedTypeCorrect == Spec => []SeedTypeOK
  <1>1. SeedInv => SeedTypeOK
    BY DEF SeedInv
  <1> QED BY <1>1, AlwaysSeeded, PTL

\* Every draw of an amount puts its claim in the tier main's summary prints,
\* under any thresholds that lie between the generator's ranges.
THEOREM ClaimsAlwaysHitTheirTier == Spec => []ClaimsHitTheirTier
  <1>1. SeedInv => ClaimsHitTheirTier
    BY DEF SeedInv
  <1> QED BY <1>1, AlwaysSeeded, PTL

\* Every draw of a policy, a vehicle and a date gives the first seventeen
\* claims one policy that answers for them.
THEOREM OrdinaryClaimsAlwaysEligible == Spec => []OrdinaryClaimsAreEligible
  <1>1. SeedInv => OrdinaryClaimsAreEligible
    BY DEF SeedInv
  <1> QED BY <1>1, AlwaysSeeded, PTL

\* No draw gives the last three claims a policy that pays for them.
THEOREM AdversarialClaimsNeverEligible == Spec => []AdversarialClaimsAreIneligible
  <1>1. SeedInv => AdversarialClaimsAreIneligible
    BY DEF SeedInv
  <1> QED BY <1>1, AlwaysSeeded, PTL
-----------------------------------------------------------------------------
\* What of the draws decides what is paid: no collision line has a deductible
\* below 500, the green claims are collisions of at most 450, and the last
\* three claims are of a tier that must escalate.  Amounts are in cents.
DrawsInv ==
    /\ \A i \in 1..Len(policies) :
          LET line == policies[i].coverages["collision"]
          IN  line # None => line \in Coverage /\ 50000 <= line.deductible
    /\ made \in 1..5 => claim.incident = "collision" /\ claim.damage \in Nat /\ claim.damage <= 45000
    /\ made \in 18..20 => AssignTier(claim, Thresholds) = "yellow"

\* Both deductibles a collision line is drawn with are at least 500.
LEMMA DrawnDeductibles ==
    ASSUME NEW lines \in DrawnCoverages
    PROVE  LET line == lines["collision"]
           IN  line # None => line \in Coverage /\ 50000 <= line.deductible
  <1>1. PICK collision \in {None, Line(25000, 500), Line(25000, 1000)},
             comprehensive \in {None, Line(20000, 250), Line(20000, 500)} :
             lines = [liability |-> Line(50000, 0), collision |-> collision,
                      comprehensive |-> comprehensive]
    BY DEF DrawnCoverages
  <1>2. lines["collision"] = collision
    BY <1>1
  <1>3. /\ Line(25000, 500) \in Coverage /\ Line(25000, 500).deductible = 50000
        /\ Line(25000, 1000) \in Coverage /\ Line(25000, 1000).deductible = 100000
    BY LineFacts DEF Line, Money
  <1> QED BY <1>2, <1>3 DEF Money

\* A claim without injuries that is assessed between the green and the yellow
\* bound, or not at all, is yellow.
LEMMA YellowFacts ==
    ASSUME NEW next, ~next.injuries,
           next.damage = None
              \/ (next.damage \in Nat /\ 150000 <= next.damage /\ next.damage <= 200000)
    PROVE  AssignTier(next, Thresholds) = "yellow"
  <1>1. Thresholds \in TierThresholds
    BY SeedAssumption DEF SeedAssumption
  <1>2. /\ Thresholds.green \in Nat /\ Thresholds.yellow \in Nat
        /\ Thresholds.green < 80000 /\ 450000 <= Thresholds.yellow
    <2>1. Thresholds.green \in Nat /\ Thresholds.yellow \in Nat
      BY <1>1 DEF TierThresholds
    <2> QED BY <2>1, SeedAssumption DEF SeedAssumption, Money
  <1>3. CASE next.damage = None
    BY <1>3 DEF AssignTier, DamageTier
  <1>4. CASE next.damage \in Nat /\ 150000 <= next.damage /\ next.damage <= 200000
    <2>1. next.damage # None
      BY <1>4, NoneAssumption DEF NoneAssumption
    <2> QED BY <1>2, <1>4, <2>1 DEF AssignTier, DamageTier
  <1> QED BY <1>3, <1>4

LEMMA DrawsStep == SeedInv /\ DrawsInv /\ [Next]_vars => DrawsInv'
  <1> SUFFICES ASSUME SeedInv, DrawsInv, [Next]_vars PROVE DrawsInv'
    OBVIOUS
  <1>0. /\ made \in 0..20 /\ policies \in Seq(SeedPolicy) /\ Len(policies) \in Nat
        /\ Len(policies) <= PolicyCount /\ (made > 0 => Len(policies) = PolicyCount)
        /\ PolicyCount \in Nat
    BY SequenceFacts, ConstantFacts DEF SeedInv, SeedTypeOK
  <1>1. CASE MakePolicy
    <2>1. PICK effective \in RandDate(Today - 730, Today - 183), n \in {1, 2},
               lines \in DrawnCoverages :
            policies' = Append(policies, [number |-> Len(policies) + 1,
                                          effective |-> effective, expiration |-> effective + 365,
                                          vehicles |-> NewVehicles(n), coverages |-> lines])
      BY <1>1 DEF MakePolicy
    <2>2. made' = 0
      BY <1>0, <1>1 DEF MakePolicy
    <2>3. \A i \in 1..Len(policies') :
             \/ policies'[i] = policies[i] /\ i \in 1..Len(policies)
             \/ policies'[i].coverages = lines
      BY <1>0, <2>1
    <2>4. LET line == lines["collision"]
          IN  line # None => line \in Coverage /\ 50000 <= line.deductible
      BY DrawnDeductibles
    <2> QED BY <2>2, <2>3, <2>4 DEF DrawsInv
  <1>2. ASSUME NEW next, Claims(next),
               made' \in 1..5 => next.incident = "collision" /\ next.damage \in Nat /\ next.damage <= 45000,
               made' \in 18..20 => AssignTier(next, Thresholds) = "yellow"
        PROVE  DrawsInv'
    BY <1>2 DEF Claims, DrawsInv
  <1>3. CASE TargetClaim
    <2>1. PICK i \in CollisionPool :
            \E vehicle \in policies[i].vehicles, date \in IncidentDates(policies[i]),
               damage \in TargetDamage(made + 1) :
               Claims([policy |-> policies[i].number, vehicle |-> vehicle, incident |-> "collision",
                       date |-> date, injuries |-> TargetInjured(made + 1), damage |-> damage])
      BY <1>3 DEF TargetClaim
    <2>2. PICK vehicle \in policies[i].vehicles, date \in IncidentDates(policies[i]),
               damage \in TargetDamage(made + 1) :
            Claims([policy |-> policies[i].number, vehicle |-> vehicle, incident |-> "collision",
                    date |-> date, injuries |-> TargetInjured(made + 1), damage |-> damage])
      BY <2>1
    <2>3. made < 17 /\ made' = made + 1
      BY <1>3, <2>2 DEF TargetClaim, Claims
    <2>4. made' \in 1..5 => damage \in Nat /\ damage <= 45000
      <3> SUFFICES ASSUME made' \in 1..5 PROVE damage \in Nat /\ damage <= 45000
        OBVIOUS
      <3>1. damage \in RandDecimal(100, 450)
        BY <2>3 DEF TargetDamage
      <3>2. damage \in Cents /\ damage <= Money(450)
        BY <3>1 DEF RandDecimal
      <3>3. damage \in Nat /\ Money(450) = 45000
        BY <3>2, SeedAssumption DEF SeedAssumption, Money
      <3> QED BY <3>2, <3>3
    <2>5. made' \notin 18..20
      BY <1>0, <2>3
    <2> QED BY <1>2, <2>2, <2>4, <2>5
  <1>4. CASE LapsedClaim
    <2>1. PICK vehicle \in policies[1].vehicles :
            Claims([policy |-> 1, vehicle |-> vehicle, incident |-> "collision",
                    date |-> LapsedDate(policies[1]), injuries |-> FALSE, damage |-> Money(1500)])
      BY <1>4 DEF LapsedClaim
    <2> DEFINE next == [policy |-> 1, vehicle |-> vehicle, incident |-> "collision",
                        date |-> LapsedDate(policies[1]), injuries |-> FALSE, damage |-> Money(1500)]
    <2>2. Claims(next)
      BY <2>1
    <2>3. AssignTier(next, Thresholds) = "yellow"
      <3>1. ~next.injuries /\ next.damage = Money(1500) /\ Money(1500) = 150000
        BY DEF Money
      <3> HIDE DEF next
      <3> QED BY <3>1, YellowFacts
    <2> HIDE DEF next
    <2>4. made' = 18
      BY <1>4, <2>2 DEF LapsedClaim, Claims
    <2> QED BY <1>2, <2>2, <2>3, <2>4
  <1>5. CASE GhostClaim
    <2> DEFINE next == [policy |-> GhostNumber, vehicle |-> 0, incident |-> "collision",
                        date |-> Today - 30, injuries |-> FALSE, damage |-> Money(2000)]
    <2>1. Claims(next)
      BY <1>5 DEF GhostClaim
    <2>2. AssignTier(next, Thresholds) = "yellow"
      <3>1. ~next.injuries /\ next.damage = Money(2000) /\ Money(2000) = 200000
        BY DEF Money
      <3> HIDE DEF next
      <3> QED BY <3>1, YellowFacts
    <2> HIDE DEF next
    <2>3. made' = 19
      BY <1>5, <2>1 DEF GhostClaim, Claims
    <2> QED BY <1>2, <2>1, <2>2, <2>3
  <1>6. CASE TheftClaim
    <2>1. PICK i \in NoComprehensivePool :
            \E vehicle \in policies[i].vehicles, date \in IncidentDates(policies[i]) :
               Claims([policy |-> policies[i].number, vehicle |-> vehicle, incident |-> "theft",
                       date |-> date, injuries |-> FALSE, damage |-> None])
      BY <1>6 DEF TheftClaim
    <2>2. PICK vehicle \in policies[i].vehicles, date \in IncidentDates(policies[i]) :
            Claims([policy |-> policies[i].number, vehicle |-> vehicle, incident |-> "theft",
                    date |-> date, injuries |-> FALSE, damage |-> None])
      BY <2>1
    <2> DEFINE next == [policy |-> policies[i].number, vehicle |-> vehicle, incident |-> "theft",
                        date |-> date, injuries |-> FALSE, damage |-> None]
    <2>3. Claims(next)
      BY <2>2
    <2>4. AssignTier(next, Thresholds) = "yellow"
      <3>1. ~next.injuries /\ next.damage = None
        OBVIOUS
      <3> HIDE DEF next
      <3> QED BY <3>1, YellowFacts
    <2> HIDE DEF next
    <2>5. made' = 20
      BY <1>6, <2>3 DEF TheftClaim, Claims
    <2> QED BY <1>2, <2>3, <2>4, <2>5
  <1>7. CASE ChoiceFails \/ WritePolicies \/ WriteClaims \/ UNCHANGED vars
    <2>1. UNCHANGED <<policies, made, claim>>
      BY <1>7 DEF ChoiceFails, WritePolicies, WriteClaims, vars
    <2> QED BY <2>1 DEF DrawsInv
  <1> QED BY <1>1, <1>3, <1>4, <1>5, <1>6, <1>7 DEF Next

LEMMA AlwaysDrawn == Spec => []DrawsInv
  <1>1. Init => DrawsInv
    BY DEF Init, DrawsInv
  <1> QED BY <1>1, DrawsStep, AlwaysSeeded, PTL DEF Spec
-----------------------------------------------------------------------------
\* The engine's ruling on a proposal under the shipped authority: a green claim
\* is left to the model, any other is escalated and pays nothing.
LEMMA ShippedRuling ==
    ASSUME NEW proposal \in Proposals, NEW tier \in Tier, tier = AssignTier(claim, Thresholds)
    PROVE  LET ruling == RulingOn(proposal)
           IN  /\ ruling.computedTier = tier
               /\ tier = "green" =>
                     /\ ruling.finalDecision = proposal.decision
                     /\ ruling.finalPayout \in {0, DeterministicPayout(ClaimOnFile, PolicyOnFile)}
               /\ tier # "green" => ruling.finalDecision = "escalate" /\ ruling.finalPayout = 0
  <1> DEFINE request == [claim    |-> ClaimOnFile,       policy |-> PolicyOnFile,
                         decision |-> proposal.decision, payout |-> proposal.payout,
                         tier     |-> proposal.tier]
             rule    == ShippedAuthority[tier]
             final   == FinalDecision(rule, proposal.decision)
  <1>1. AssignTier(request.claim, Thresholds) = tier
    BY DEF AssignTier, ClaimOnFile
  <1>2. /\ rule.allowed = IF tier = "green" THEN Decision ELSE {"escalate"}
        /\ rule.onDisallowed = "escalate"
    BY DEF ShippedAuthority
  <1>3. final = IF tier = "green" THEN proposal.decision ELSE "escalate"
    <2>1. proposal.decision \in Decision
      BY DEF Proposals
    <2> HIDE DEF rule
    <2> QED BY <1>2, <2>1 DEF FinalDecision
  <1>4. /\ request.decision = proposal.decision
        /\ request.claim = ClaimOnFile /\ request.policy = PolicyOnFile
    OBVIOUS
  <1> HIDE DEF request, rule, final
  <1>5. LET authority == AuthorityEvaluate(ShippedAuthority, Thresholds, request)
        IN  authority.computedTier = tier /\ authority.finalDecision = final
    BY <1>1, <1>4 DEF AuthorityEvaluate, rule, final
  <1>6. /\ RulingOn(proposal).computedTier = tier /\ RulingOn(proposal).finalDecision = final
        /\ RulingOn(proposal).finalPayout = FinalPayout(final, request)
    BY <1>5 DEF RulingOn, Evaluate, request
  <1>7. FinalPayout(final, request) = IF final = "approve"
                                      THEN DeterministicPayout(ClaimOnFile, PolicyOnFile) ELSE 0
    BY <1>4 DEF FinalPayout
  <1> QED BY <1>3, <1>6, <1>7

\* The tier of each of the twenty claims.
LEMMA TierOfClaim ==
    ASSUME SeedInv, DrawsInv, made > 0
    PROVE  /\ AssignTier(claim, Thresholds) \in Tier
           /\ made \in 1..20
           /\ AssignTier(claim, Thresholds) = "green" <=> made \in 1..5
           /\ made = 6 => AssignTier(claim, Thresholds) = "yellow"
           /\ made = 11 => AssignTier(claim, Thresholds) = "red"
           /\ made = 19 => AssignTier(claim, Thresholds) = "yellow"
  <1>1. made \in 1..20
    BY DEF SeedInv, SeedTypeOK
  <1> DEFINE tier == AssignTier(claim, Thresholds)
  <1>2. CASE made \in 1..17
    <2>1. tier = CASE made \in 1..5   -> "green"
                   [] made \in 6..10  -> "yellow"
                   [] made \in 11..15 -> "red"
                   [] made \in 16..17 -> "black"
      BY <1>2 DEF SeedInv, ClaimsHitTheirTier
    <2> HIDE DEF tier
    <2>2. CASE made \in 1..5
      BY <2>1, <2>2 DEF Tier, tier
    <2>3. CASE made \in 6..10
      BY <2>1, <2>3 DEF Tier, tier
    <2>4. CASE made \in 11..15
      BY <2>1, <2>4 DEF Tier, tier
    <2>5. CASE made \in 16..17
      BY <2>1, <2>5 DEF Tier, tier
    <2>6. made \in 1..5 \/ made \in 6..10 \/ made \in 11..15 \/ made \in 16..17
      BY <1>2
    <2> QED BY <2>2, <2>3, <2>4, <2>5, <2>6
  <1>3. CASE made \in 18..20
    <2>1. tier = "yellow"
      BY <1>3 DEF DrawsInv
    <2> QED BY <1>3, <2>1 DEF Tier
  <1> QED BY <1>1, <1>2, <1>3

\* A green claim is worth less than any collision deductible
\* (calculations.py, calculate_payout, on what _make_claims draws).
LEMMA GreenClaimsAreOwedNothing ==
    ASSUME SeedInv, DrawsInv, made \in 1..5
    PROVE  DeterministicPayout(ClaimOnFile, PolicyOnFile) = 0
  <1>1. PICK i \in DOMAIN policies : PolicyNumbered(claim.policy) = {i}
    BY DEF SeedInv, OrdinaryClaimsAreEligible
  <1> DEFINE policy == policies[i]
             line   == policy.coverages["collision"]
  <1>2. PolicyOnFile.coverages = policy.coverages
    <2>1. \A S, x : S = {x} => S # {} /\ (CHOOSE y \in S : TRUE) = x
      OBVIOUS
    <2>2. PolicyNumbered(claim.policy) # {} /\ (CHOOSE j \in PolicyNumbered(claim.policy) : TRUE) = i
      BY <1>1, <2>1
    <2> QED BY <2>2 DEF PolicyOnFile
  <1>3. line # None => /\ line.limit \in Nat /\ line.deductible \in Nat /\ 50000 <= line.deductible
    <2>1. i \in 1..Len(policies)
      BY SequenceFacts DEF SeedInv, SeedTypeOK
    <2> QED BY <2>1 DEF DrawsInv, Coverage
  <1>4. /\ ClaimOnFile.incident = "collision"
        /\ ClaimOnFile.damage \in Nat /\ ClaimOnFile.damage <= 45000
    BY DEF DrawsInv, ClaimOnFile
  <1>5. CoverageApplies(ClaimOnFile, PolicyOnFile) = line
    <2>1. "collision" # None
      BY SeedAssumption DEF SeedAssumption, CoverageType
    <2>2. CoverageKind(ClaimOnFile.incident) = "collision"
      BY <1>4 DEF CoverageKind
    <2> QED BY <1>2, <2>1, <2>2 DEF CoverageApplies
  <1> HIDE DEF line
  <1>6. line # None => CalculatePayout(ClaimOnFile.damage, line) = 0
    BY <1>3, <1>4 DEF CalculatePayout
  <1> QED BY <1>5, <1>6 DEF DeterministicPayout

\* Under the shipped authority nothing is ever paid on a generated claim
\* (claim_decision.py and calculations.py on what _make_claims draws).
THEOREM NothingIsEverPaid == Spec => []GeneratedClaimsPayNothing
  <1>1. SeedInv /\ DrawsInv => GeneratedClaimsPayNothing
    <2> SUFFICES ASSUME SeedInv, DrawsInv, made > 0, NEW proposal \in Proposals
                 PROVE  RulingOn(proposal).finalPayout = 0
      BY DEF GeneratedClaimsPayNothing
    <2>1. PICK tier \in Tier : tier = AssignTier(claim, Thresholds)
      BY TierOfClaim
    <2>2. CASE tier = "green"
      <3>1. made \in 1..5
        BY <2>1, <2>2, TierOfClaim
      <3> QED BY <2>1, <2>2, <3>1, ShippedRuling, GreenClaimsAreOwedNothing
    <2>3. CASE tier # "green"
      BY <2>1, <2>3, ShippedRuling
    <2> QED BY <2>2, <2>3
  <1> QED BY <1>1, AlwaysSeeded, AlwaysDrawn, PTL

\* Every expectation of the scenario files is one the harness meets, whatever
\* was drawn and whatever the model proposes (evals/scenarios on the rulings of
\* claim_decision.py).
THEOREM ScenariosAlwaysMet == Spec => []ScenariosAreMet
  <1>1. SeedInv /\ DrawsInv => ScenariosAreMet
    <2> SUFFICES ASSUME SeedInv, DrawsInv,
                        NEW scenario \in Scenarios, made = scenario.claim,
                        NEW proposal \in Proposals
                 PROVE  LET ruling == RulingOn(proposal)
                            range  == scenario.payoutRange
                        IN  /\ ruling.computedTier = scenario.tier
                            /\ range # None => ruling.finalPayout \in range.min..range.max
                            /\ proposal.decision = scenario.decision \/ scenario.tier # "green"
                                  => ruling.finalDecision = scenario.decision
      BY DEF ScenariosAreMet
    <2> DEFINE ruling == RulingOn(proposal)
               range  == scenario.payoutRange
    <2>1. /\ scenario.claim \in {1, 6, 11, 19}
          /\ scenario.claim = 1 => scenario.tier = "green"
          /\ scenario.claim \in {6, 19} => scenario.tier = "yellow"
          /\ scenario.claim = 11 => scenario.tier = "red"
          /\ scenario.tier # "green" => scenario.decision = "escalate"
      BY DEF Scenarios, Scenario
    <2>2. range # None => range.min = 0 /\ range.max \in Nat
      BY DEF Scenarios, Scenario, Nothing, Money
    <2>3. scenario.tier \in Tier /\ scenario.tier = AssignTier(claim, Thresholds)
      BY <2>1, TierOfClaim DEF Tier
    <2>4. /\ ruling.computedTier = scenario.tier
          /\ scenario.tier = "green" => ruling.finalDecision = proposal.decision
          /\ scenario.tier # "green" => ruling.finalDecision = "escalate" /\ ruling.finalPayout = 0
          /\ scenario.tier = "green" =>
                ruling.finalPayout \in {0, DeterministicPayout(ClaimOnFile, PolicyOnFile)}
      BY <2>3, ShippedRuling
    <2>5. ruling.finalPayout = 0
      <3>1. CASE scenario.tier = "green"
        <4>1. made \in 1..5
          BY <2>1, <2>3, <3>1, TierOfClaim
        <4> QED BY <2>4, <3>1, <4>1, GreenClaimsAreOwedNothing
      <3> QED BY <2>4, <3>1
    <2> HIDE DEF ruling, range
    <2>6. range # None => ruling.finalPayout \in range.min..range.max
      BY <2>2, <2>5
    <2>7. proposal.decision = scenario.decision \/ scenario.tier # "green"
             => ruling.finalDecision = scenario.decision
      BY <2>1, <2>4
    <2> QED BY <2>4, <2>6, <2>7 DEF ruling, range
  <1> QED BY <1>1, AlwaysSeeded, AlwaysDrawn, PTL
=============================================================================
