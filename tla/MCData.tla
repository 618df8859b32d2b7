------------------------------- MODULE MCData -------------------------------
(* The small world both agent models are checked in: five claim numbers,   *)
(* the shipped thresholds and authority, an allowlist that makes the tiers *)
(* matter, and one model answer for each way run_scenario can treat one.   *)
EXTENDS ClaimsDomain
CONSTANT NaN

MCThresholds == [green |-> 500, yellow |-> 5000, red |-> 25000]

Rule(allowed, substitute, zero, investigate) ==
    [allowed |-> allowed, onDisallowed |-> substitute,
     zeroOnOverride |-> zero, investigate |-> investigate]

MCAuthority == [green  |-> Rule(Decision, "escalate", FALSE, FALSE),
                yellow |-> Rule({"escalate"}, "escalate", TRUE, FALSE),
                red    |-> Rule({"escalate"}, "escalate", TRUE, FALSE),
                black  |-> Rule({"escalate"}, "escalate", TRUE, TRUE)]

MCClaimNumbers == {"small", "green", "red", "black", "unknown"}

MCClaimData ==
    [n \in MCClaimNumbers |->
        CASE n = "small" -> [incident |-> "theft", date |-> 5, injuries |-> FALSE, damage |-> 130]
          [] n = "green" -> [incident |-> "theft", date |-> 5, injuries |-> FALSE, damage |-> 400]
          [] n = "red"   -> [incident |-> "collision", date |-> 5, injuries |-> TRUE, damage |-> None]
          [] n = "black" -> [incident |-> "fire", date |-> 5, injuries |-> TRUE, damage |-> 30000]
          [] OTHER -> None]

MCPolicy == [effective |-> 1, expiration |-> 9,
             coverages |-> [liability     |-> [limit |-> 50000, deductible |-> 0],
                            collision     |-> [limit |-> 25000, deductible |-> 500],
                            comprehensive |-> [limit |-> 20000, deductible |-> 250]]]

MCPolicyOnFile == [n \in MCClaimNumbers |-> IF n \in {"small", "green", "red"} THEN MCPolicy ELSE None]

MCToolNames  == {"policy_lookup_by_number", "policy_lookup_by_claimant", "payment_instruction"}
MCRegistered == {"policy_lookup_by_number", "policy_lookup_by_claimant"}
NoTierRules  == [t \in Tier |-> None]

\* The shipped file allows both lookups on every tier; this one, which the
\* loader accepts as well, keeps one of them for green claims and the other
\* from black ones.
MCAllowlist ==
    [defaultDecision |-> "deny",
     tools |-> [policy_lookup_by_number   |-> [default |-> "allow",
                                               tierRules |-> [NoTierRules EXCEPT !["black"] = "deny"]],
                policy_lookup_by_claimant |-> [default |-> "deny",
                                               tierRules |-> [NoTierRules EXCEPT !["green"] = "allow"]],
                payment_instruction       |-> None]]

Answer(tier, decision, payout) ==
    [shape |-> "object", tier |-> tier, decision |-> decision, payout |-> payout]

Garbled(shape) == [Answer(None, None, None) EXCEPT !.shape = shape]

MCReplies == {Garbled("text"), Garbled("excessive"), Garbled("malformed"),
              Answer("green", "approve", 900),
              Answer(None, "deny", None),
              Answer("other", "escalate", 0),
              Answer("black", "other", 0),
              Answer("green", None, 0),
              Answer("green", "approve", -5),
              Answer("green", "approve", NaN)}
=============================================================================
