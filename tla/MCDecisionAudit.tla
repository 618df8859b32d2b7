--------------------------- MODULE MCDecisionAudit --------------------------
(* DecisionAudit on the shipped thresholds, with damages on both sides of  *)
(* every bound and configurations the loader accepts.                      *)
EXTENDS DecisionAudit

MCThresholds == [green |-> 500, yellow |-> 5000, red |-> 25000]

Rule(allowed, substitute, zero, investigate) ==
    [allowed |-> allowed, onDisallowed |-> substitute,
     zeroOnOverride |-> zero, investigate |-> investigate]

\* config/permissions.yaml as shipped.
Shipped == [green  |-> Rule(Decision, "escalate", FALSE, FALSE),
            yellow |-> Rule({"escalate"}, "escalate", TRUE, FALSE),
            red    |-> Rule({"escalate"}, "escalate", TRUE, FALSE),
            black  |-> Rule({"escalate"}, "escalate", TRUE, TRUE)]

\* Looser but coherent: yellow may approve, red may deny and is flagged.
Looser == [Shipped EXCEPT !["yellow"] = Rule({"approve", "escalate"}, "escalate", FALSE, FALSE),
                          !["red"]    = Rule({"deny", "escalate"}, "deny", TRUE, TRUE)]

\* Accepted by the loader although yellow substitutes a decision it disallows.
Incoherent == [Shipped EXCEPT !["yellow"] = Rule({"escalate"}, "approve", TRUE, FALSE)]

MCConfigs         == {Shipped, Looser}
ShippedOnly       == {Shipped}
IncoherentConfigs == {Incoherent}

FullPolicy == [effective |-> 1, expiration |-> 9,
               coverages |-> [liability     |-> [limit |-> 50000, deductible |-> 0],
                              collision     |-> [limit |-> 25000, deductible |-> 500],
                              comprehensive |-> [limit |-> 300, deductible |-> 250]]]
LiabilityOnly == [FullPolicy EXCEPT !.coverages =
                     [liability     |-> [limit |-> 50000, deductible |-> 0],
                      collision     |-> None,
                      comprehensive |-> None]]

Damages == {None, 240, 500, 501, 5000, 5001, 25000, 25001}

ClaimFor(incident, injuries, damage) ==
    [incident |-> incident, date |-> 5, injuries |-> injuries, damage |-> damage]

MCClaims == {ClaimFor("theft", i, d) : i \in BOOLEAN, d \in Damages}
            \cup {ClaimFor("collision", FALSE, 5000), ClaimFor("other", FALSE, 300)}

MCRequests == [claim    : MCClaims,
               policy   : {None, FullPolicy, LiabilityOnly},
               decision : Decision,
               payout   : {-1, 0, 150},
               tier     : {None, "green", "black"}]

\* One claim filed long after the policy ran out.
LateRequests == [claim    : {[ClaimFor("theft", i, d) EXCEPT !.date = 20] :
                                i \in BOOLEAN, d \in {400, 500, 501, 5001}},
                 policy   : {FullPolicy},
                 decision : Decision, payout : {0, 150}, tier : {None, "green", "black"}]
=============================================================================
