CONSTANTS
    None = None
    PolicyCount = 2
    Today = 0
    Offsets <- MCOffsets
    Cents <- MCCents
    Thresholds <- MCThresholds
    Amounts <- MCAmounts
SPECIFICATION Spec
\* The script ends.
CHECK_DEADLOCK FALSE
INVARIANTS
    SeedTypeOK
    ClaimsHitTheirTier
    OrdinaryClaimsAreEligible
    AdversarialClaimsAreIneligible
    ScenariosAreMet
