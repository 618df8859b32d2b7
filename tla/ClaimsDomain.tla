---------------------------- MODULE ClaimsDomain ----------------------------
(***************************************************************************)
(* The pure rules of domain/: what a claim and a policy are, which routing *)
(* tier a claim falls in, which coverage line answers for it and what that *)
(* line pays.  Every other module is built on these operators.             *)
(*                                                                         *)
(* Money is an integer number of currency units: the code uses Decimal,    *)
(* which is exact, and no rule divides.  Dates are day numbers.  None      *)
(* stands for Python's None.                                               *)
(***************************************************************************)
EXTENDS Integers

CONSTANT None

Tier         == {"green", "yellow", "red", "black"}
Decision     == {"approve", "deny", "escalate"}
CoverageType == {"liability", "collision", "comprehensive"}
IncidentType == {"collision", "theft", "vandalism", "weather", "fire", "other"}

Coverage == [limit : Nat, deductible : Nat]

\* A coverage list is non-empty and names each type at most once, so it is a
\* function that gives each type its line or None.
CoverageLines == {lines \in [CoverageType -> Coverage \cup {None}] :
                     \E kind \in CoverageType : lines[kind] # None}

Policy == [effective : Int, expiration : Int, coverages : CoverageLines]

IsActiveOn(policy, when) == policy.effective <= when /\ when <= policy.expiration

Claim == [incident : IncidentType,
          date     : Int,
          injuries : BOOLEAN,
          damage   : Nat \cup {None}]

\* Validation rejects a threshold record whose bounds do not strictly ascend.
TierThresholds == {th \in [green : Nat \ {0}, yellow : Nat \ {0}, red : Nat \ {0}] :
                      th.green < th.yellow /\ th.yellow < th.red}

NoneAssumption == None \notin Int /\ None \notin Tier /\ None \notin Decision
                  /\ None \notin Coverage /\ None \notin Policy
ASSUME NoneAssumption
-----------------------------------------------------------------------------
Escalation == [green |-> "yellow", yellow |-> "red", red |-> "black", black |-> "black"]

\* Mutant: each bound belongs to the tier above it.
DamageTierExclusive(damage, th) ==
    IF damage = None THEN "yellow"
    ELSE IF damage < th.green  THEN "green"
    ELSE IF damage < th.yellow THEN "yellow"
    ELSE IF damage < th.red    THEN "red" ELSE "black"

\* The tier of the damage alone: each bound belongs to the tier below it, and
\* a claim nobody has assessed is yellow.
DamageTier(damage, th) ==
    IF damage = None THEN "yellow"
    ELSE IF damage <= th.green  THEN "green"
    ELSE IF damage <= th.yellow THEN "yellow"
    ELSE IF damage <= th.red    THEN "red" ELSE "black"

\* Mutant: an injury sends every claim to red, even one already black.
AssignTierInjuryIsRed(claim, th) ==
    IF claim.injuries THEN "red" ELSE DamageTier(claim.damage, th)

\* assign_tier: a reported injury raises the tier by one level.
AssignTier(claim, th) ==
    LET tier == DamageTier(claim.damage, th)
    IN  IF claim.injuries THEN Escalation[tier] ELSE tier
-----------------------------------------------------------------------------
\* The line that answers for a kind of loss.  Liability pays third parties
\* and never answers; "other" is left to a person.
CoverageKind(incident) ==
    CASE incident = "collision" -> "collision"
      [] incident \in {"theft", "vandalism", "weather", "fire"} -> "comprehensive"
      [] OTHER -> None

CoverageApplies(claim, policy) ==
    LET kind == CoverageKind(claim.incident)
    IN  IF kind = None THEN None ELSE policy.coverages[kind]

\* Mutant: a damage below the deductible gives a negative payout.
PayoutNotFloored(damage, coverage) ==
    LET net == damage - coverage.deductible
    IN  IF net <= coverage.limit THEN net ELSE coverage.limit

\* Mutant: the limit is applied before the deductible.
LimitBeforeDeductible(damage, coverage) ==
    LET capped == IF damage <= coverage.limit THEN damage ELSE coverage.limit
    IN  IF capped < coverage.deductible THEN 0 ELSE capped - coverage.deductible

\* max(0, min(damage - deductible, limit)).  DamageAssessment rejects a
\* negative amount, so the code's guard against one never fires.
CalculatePayout(damage, coverage) ==
    LET net    == damage - coverage.deductible
        capped == IF net <= coverage.limit THEN net ELSE coverage.limit
    IN  IF capped < 0 THEN 0 ELSE capped

PolicyActiveForClaim(policy, claim) == IsActiveOn(policy, claim.date)
=============================================================================
