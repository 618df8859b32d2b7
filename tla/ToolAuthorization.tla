-------------------------- MODULE ToolAuthorization -------------------------
(***************************************************************************)
(* ToolAuthorizationEngine: may this tool be called on a claim of this     *)
(* tier?  The configuration is tool_allowlist.yaml as its loader accepts   *)
(* it; the engine never answers "escalate".                                *)
(***************************************************************************)
EXTENDS ClaimsDomain

ToolDecision == {"allow", "deny"}

\* tier_rules may name any of the tiers; an absent one is None.
ToolAllowlistRule == [default : ToolDecision, tierRules : [Tier -> ToolDecision \cup {None}]]

\* The loader accepts no default_decision but "deny"; an unlisted tool is None.
ToolAllowlistConfig(tools) == [defaultDecision : {"deny"},
                               tools : [tools -> ToolAllowlistRule \cup {None}]]
-----------------------------------------------------------------------------
\* ToolAuthorizationEngine.evaluate for the action "tool." \o tool: an
\* unlisted tool gets the default, a tier that is absent or no tier at all is
\* refused, and the tool's own default answers where no tier rule does.
Authorize(allowlist, tool, tier) ==
    LET rule == allowlist.tools[tool]
    IN  IF rule = None THEN allowlist.defaultDecision
        ELSE IF tier \notin Tier THEN "deny"
        ELSE IF rule.tierRules[tier] # None THEN rule.tierRules[tier]
        ELSE rule.default
=============================================================================
