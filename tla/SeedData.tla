------------------------------ MODULE SeedData -----------------------------
(***************************************************************************)
(* scripts/generate_mock_data.py: the random policies, then the twenty     *)
(* claims every evaluation runs on, then the two files.  The scenarios     *)
(* expect each claim to land in a tier and to be owed something or         *)
(* nothing, whatever was drawn and whatever the day is.  Money is in       *)
(* cents, as it is drawn; only the latest claim is kept.                   *)
(***************************************************************************)
EXTENDS ClaimsDomain, Sequences

CONSTANTS PolicyCount, \* 50 in the script
          Today,       \* date.today()
          Offsets,     \* the days a random date may lie after its first one
          Cents,       \* the amounts a random amount may be
          Thresholds   \* what thresholds.yaml holds, in cents

Money(units) == 100 * units

\* The number of POL-99999, the policy claim 19 names.
GhostNumber == 99999

SeedPolicy == [number : Nat, effective : Int, expiration : Int,
               vehicles : SUBSET Nat, coverages : CoverageLines]
SeedClaim  == [policy : Nat, vehicle : Nat, incident : IncidentType,
               date : Int, injuries : BOOLEAN, damage : Nat \cup {None}]

\* Any thresholds that keep the generator's amounts in the tiers they aim at,
\* the shipped 500, 5000 and 25000 among them.
SeedAssumption ==
    /\ PolicyCount \in 1..(GhostNumber - 1) /\ Today \in Int
    /\ None \notin SeedClaim /\ None \notin CoverageType
    /\ Offsets \subseteq Nat /\ Cents \subseteq Nat
    /\ Thresholds \in TierThresholds
    /\ Money(450) <= Thresholds.green   /\ Thresholds.green < Money(800)
    /\ Money(4500) <= Thresholds.yellow /\ Thresholds.yellow < Money(8000)
    /\ Money(20000) <= Thresholds.red   /\ Thresholds.red < Money(35000)
ASSUME SeedAssumption

VARIABLES policies, \* the list _make_policies builds
          vinSeq,   \* the next vehicle number
          made,     \* how many claims _make_claims has built
          claim,    \* the latest of them
          written   \* which files main has written, or the exception
vars == <<policies, vinSeq, made, claim, written>>

SeedTypeOK == /\ policies \in Seq(SeedPolicy) /\ Len(policies) <= PolicyCount
              /\ vinSeq \in Nat \ {0}
              /\ made \in 0..20
              /\ claim \in SeedClaim \cup {None}
              /\ claim = None <=> made = 0
              /\ written \in {"nothing", "policies", "both", "IndexError"}

Init == /\ policies = <<>> /\ vinSeq = 1 /\ made = 0 /\ claim = None /\ written = "nothing"
-----------------------------------------------------------------------------
\* _rand_decimal and _rand_date: every amount and every day from lo to hi.
RandDecimal(lo, hi)   == {cents \in Cents : Money(lo) <= cents /\ cents <= Money(hi)}
RandDate(start, end)  == {start + days : days \in {d \in Offsets : d <= end - start}}

Line(limit, deductible) == [limit |-> Money(limit), deductible |-> Money(deductible)]

\* Liability always; collision and comprehensive for some, with one of two
\* deductibles.
DrawnCoverages ==
    {[liability |-> Line(50000, 0), collision |-> collision, comprehensive |-> comprehensive] :
        collision \in {None, Line(25000, 500), Line(25000, 1000)},
        comprehensive \in {None, Line(20000, 250), Line(20000, 500)}}

\* One or two vehicles, numbered on from the last one.
NewVehicles(n) == vinSeq..(vinSeq + n - 1)

MakePolicy ==
    /\ written = "nothing" /\ Len(policies) < PolicyCount
    /\ \E effective \in RandDate(Today - 730, Today - 183), n \in {1, 2}, lines \in DrawnCoverages :
          /\ policies' = Append(policies, [number |-> Len(policies) + 1,
                                           effective |-> effective, expiration |-> effective + 365,
                                           vehicles |-> NewVehicles(n), coverages |-> lines])
          /\ vinSeq' = vinSeq + n
    /\ UNCHANGED <<made, claim, written>>
-----------------------------------------------------------------------------
PoliciesMade == written = "nothing" /\ Len(policies) = PolicyCount

CollisionPool       == {i \in DOMAIN policies : policies[i].coverages["collision"] # None}
NoComprehensivePool == {i \in DOMAIN policies : policies[i].coverages["comprehensive"] = None}

\* Mutant: a date the claim could have been reported on by today.
IncidentDatesUntilToday(policy) == RandDate(policy.effective, Today)

\* _make_incident: any date of the policy's period.
IncidentDates(policy) == RandDate(policy.effective, policy.expiration)

\* Mutant: the injuries keyword is forgotten, and False is its default.
NoTargetIsInjured(n) == FALSE

\* The two claims that reach red by injury.
TargetInjured(n) == n \in {14, 15}

\* The amounts _make_claims draws from for each of the first seventeen.
TargetDamage(n) == CASE n \in 1..5   -> RandDecimal(100, 450)
                     [] n \in 6..10  -> RandDecimal(800, 4500)
                     [] n \in 11..13 -> RandDecimal(8000, 20000)
                     [] n \in 14..15 -> RandDecimal(2000, 4000)
                     [] n = 16       -> {Money(35000)}
                     [] n = 17       -> {Money(60000)}

\* Mutant: the claim is built and not appended.
ClaimsWithout(next) == made' = made + 1 /\ UNCHANGED <<policies, vinSeq, claim, written>>

Claims(next) == made' = made + 1 /\ claim' = next /\ UNCHANGED <<policies, vinSeq, written>>

\* claims 1 to 17: a collision on a random policy that covers one.
TargetClaim ==
    /\ PoliciesMade /\ made < 17
    /\ \E i \in CollisionPool :
       \E vehicle \in policies[i].vehicles, date \in IncidentDates(policies[i]),
          damage \in TargetDamage(made + 1) :
          Claims([policy |-> policies[i].number, vehicle |-> vehicle, incident |-> "collision",
                  date |-> date, injuries |-> TargetInjured(made + 1), damage |-> damage])

\* Mutant: two years before the day the script runs.
LapsedDateFromToday(policy) == Today - 730

LapsedDate(policy) == policy.effective - 730

\* claim 18: two years before POL-00001 took effect.
LapsedClaim ==
    /\ PoliciesMade /\ made = 17
    /\ \E vehicle \in policies[1].vehicles :
          Claims([policy |-> 1, vehicle |-> vehicle, incident |-> "collision",
                  date |-> LapsedDate(policies[1]), injuries |-> FALSE, damage |-> Money(1500)])

\* claim 19: its vehicle is number zero.
GhostClaim ==
    /\ PoliciesMade /\ made = 18
    /\ Claims([policy |-> GhostNumber, vehicle |-> 0, incident |-> "collision",
               date |-> Today - 30, injuries |-> FALSE, damage |-> Money(2000)])

\* claim 20: a theft on a policy without comprehensive cover.
TheftClaim ==
    /\ PoliciesMade /\ made = 19
    /\ \E i \in NoComprehensivePool :
       \E vehicle \in policies[i].vehicles, date \in IncidentDates(policies[i]) :
          Claims([policy |-> policies[i].number, vehicle |-> vehicle, incident |-> "theft",
                  date |-> date, injuries |-> FALSE, damage |-> None])

\* random.choice of an empty pool.
ChoiceFails ==
    /\ PoliciesMade
    /\ (made < 17 /\ CollisionPool = {}) \/ (made = 19 /\ NoComprehensivePool = {})
    /\ written' = "IndexError"
    /\ UNCHANGED <<policies, vinSeq, made, claim>>
-----------------------------------------------------------------------------
\* main builds both lists before it writes either.
Ready == PoliciesMade /\ made = 20

WritePolicies == Ready /\ written' = "policies" /\ UNCHANGED <<policies, vinSeq, made, claim>>

WriteClaims == written = "policies" /\ written' = "both" /\ UNCHANGED <<policies, vinSeq, made, claim>>

Next == \/ MakePolicy \/ TargetClaim \/ LapsedClaim \/ GhostClaim \/ TheftClaim \/ ChoiceFails
        \/ WritePolicies \/ WriteClaims

Spec == Init /\ [][Next]_vars
-----------------------------------------------------------------------------
\* The summary main prints: claims 1-5 are green, 6-10 yellow, 11-15 red and
\* 16-17 black, whatever was drawn.
ClaimsHitTheirTier ==
    made \in 1..17 =>
        AssignTier(claim, Thresholds) = CASE made \in 1..5   -> "green"
                                          [] made \in 6..10  -> "yellow"
                                          [] made \in 11..15 -> "red"
                                          [] made \in 16..17 -> "black"

PolicyNumbered(number) == {i \in DOMAIN policies : policies[i].number = number}

\* The first seventeen claims are ordinary: their number names one policy,
\* which was active, covers the loss, and is the only one with the vehicle.
OrdinaryClaimsAreEligible ==
    made \in 1..17 =>
        \E i \in DOMAIN policies :
            /\ PolicyNumbered(claim.policy) = {i}
            /\ PolicyActiveForClaim(policies[i], claim)
            /\ CoverageApplies(claim, policies[i]) # None
            /\ \A j \in DOMAIN policies : claim.vehicle \in policies[j].vehicles <=> j = i

\* The last three are what the summary calls them: "lapsed date, ghost
\* policy, no coverage".  No policy on file pays for any of them.
AdversarialClaimsAreIneligible ==
    made \in 18..20 =>
        \A i \in PolicyNumbered(claim.policy) :
            ~PolicyActiveForClaim(policies[i], claim) \/ CoverageApplies(claim, policies[i]) = None
=============================================================================
