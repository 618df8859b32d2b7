----------------------------- MODULE MCFnolAgent ----------------------------
(* Two calls of run_scenario on one agent, interleaving freely.            *)
EXTENDS FnolAgent, TLC

Data == INSTANCE MCData
MCThresholds   == Data!MCThresholds
MCAuthority    == Data!MCAuthority
MCClaimNumbers == Data!MCClaimNumbers
MCClaimData    == Data!MCClaimData
MCPolicyOnFile == Data!MCPolicyOnFile
MCToolNames    == Data!MCToolNames
MCRegistered   == Data!MCRegistered
MCAllowlist    == Data!MCAllowlist
MCReplies      == Data!MCReplies

RunSymmetry == Permutations(Runs)
=============================================================================
