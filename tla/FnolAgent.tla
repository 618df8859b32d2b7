------------------------------ MODULE FnolAgent -----------------------------
(***************************************************************************)
(* FnolAgent.run_scenario: one agent object, any number of concurrent      *)
(* calls of run_scenario on it.  A call is a coroutine; it yields only     *)
(* inside "await self._agent.run(prompt)", so everything up to that await  *)
(* is one step and everything after it is another.  Within the await the   *)
(* agent framework lets the model call tools; every registered tool is     *)
(* wrapped by gated_tool, which reads the tier of the current claim from   *)
(* the one attribute, _current_tier, that all the calls share.             *)
(*                                                                         *)
(* The framework and the model are external: the model may ask for any     *)
(* tool name, registered or not, and answer with any text, or the call may *)
(* raise.  MaxCalls bounds the tool calls of one run.                      *)
(***************************************************************************)
EXTENDS DecisionEngine, ToolAuthorization, Sequences

CONSTANTS Runs,            \* calls of run_scenario on the one agent
          ClaimNumbers,    \* the claim numbers scenarios name
          ClaimData,       \* load_claims: claim number -> claim, or None
          PolicyOnFile,    \* claim number -> get_by_number(claim.policy_number)
          Thresholds, Authority, Allowlist, \* the three configuration files
          DefaultTier, DefaultPayout,       \* response_normalizer.defaults
          RegisteredTools, \* the gated tools the agent was built with
          ToolNames,       \* the tool names a model may ask for
          Replies,         \* the texts a model may answer with
          MaxCalls,        \* bound: tool calls per run
          NaN              \* a payout that is not a finite number

\* What the harness can tell of a model's answer once fields are renamed and
\* dropped: text that is no JSON object, text that json.loads gives up on with
\* an exception the normalizer does not catch, an object with a field of the
\* wrong type, or one whose fields may be absent (None) or unrecognised.
Reply == [shape    : {"text", "excessive", "malformed", "object"},
          tier     : Tier \cup {None, "other"},
          decision : Decision \cup {None, "other"},
          payout   : Int \cup {None, NaN}]

CallStatus == {"requested", "allowed", "executed", "denied", "failed", "unknown"}
ErrorKind  == {"claim not found", "agent raised", "not json", "invalid", "unrecognised"}
Note       == {"OVERRIDDEN", "TIER_DISAGREEMENT", "PAYOUT_OVERRIDDEN"}

AgentRunResult == [error     : ErrorKind \cup {None},
                   tier      : Tier \cup {None},
                   decision  : Decision \cup {None},
                   payout    : Nat \cup {None},
                   toolCalls : Seq(ToolNames),
                   notes     : SUBSET Note]

FnolAssumption == /\ ClaimData \in [ClaimNumbers -> Claim \cup {None}]
                  /\ PolicyOnFile \in [ClaimNumbers -> Policy \cup {None}]
                  /\ Thresholds \in TierThresholds
                  /\ Authority \in TierAuthorityConfig
                  /\ Allowlist \in ToolAllowlistConfig(ToolNames)
                  /\ DefaultTier \in Tier /\ DefaultPayout \in Nat
                  /\ RegisteredTools \subseteq ToolNames
                  /\ \A rep \in Replies : rep \in Reply
                  /\ MaxCalls \in Nat
                  /\ NaN \notin Int /\ NaN # None
                  /\ None \notin Claim /\ None \notin ErrorKind /\ None \notin AgentRunResult
ASSUME FnolAssumption

VARIABLES
    currentTier, \* self._current_tier
    claimNumber, \* scenario.claim_number of each run
    pc,          \* where each run is
    calls,       \* the tool calls of each run, in the order asked for
    reply,       \* the model's answer, once received
    result       \* the AgentRunResult returned, if any
vars == <<currentTier, claimNumber, pc, calls, reply, result>>

TypeOK == /\ currentTier \in Tier \cup {None}
          /\ claimNumber \in [Runs -> ClaimNumbers]
          /\ pc \in [Runs -> {"idle", "thinking", "done", "raised"}]
          /\ calls \in [Runs -> Seq([tool : ToolNames, status : CallStatus])]
          /\ reply \in [Runs -> Reply \cup {None}]
          /\ result \in [Runs -> AgentRunResult \cup {None}]

Init == /\ currentTier = None
        /\ claimNumber \in [Runs -> ClaimNumbers]
        /\ pc = [r \in Runs |-> "idle"]
        /\ calls = [r \in Runs |-> <<>>]
        /\ reply = [r \in Runs |-> None]
        /\ result = [r \in Runs |-> None]
-----------------------------------------------------------------------------
ClaimOf(r)  == ClaimData[claimNumber[r]]
PolicyOf(r) == PolicyOnFile[claimNumber[r]]
OwnTier(r)  == AssignTier(ClaimOf(r), Thresholds)

\* Mutant: only the last message of the response is walked.
LastToolCallName(r) == IF calls[r] = <<>> THEN <<>> ELSE <<calls[r][Len(calls[r])].tool>>

\* extract_tool_call_names: every call asked for, denied and unknown included.
ToolCallNames(r) == [i \in DOMAIN calls[r] |-> calls[r][i].tool]

\* Mutant: an error falls back to an escalation.
ErrorResultEscalates(kind, names) == [error |-> kind, tier |-> None, decision |-> "escalate",
                                      payout |-> None, toolCalls |-> names, notes |-> {}]

ErrorResult(kind, names) == [error |-> kind, tier |-> None, decision |-> None,
                             payout |-> None, toolCalls |-> names, notes |-> {}]

\* Mutant: the finally block is missing.
LeaveTier == UNCHANGED currentTier

\* The finally block of run_scenario.
ReleaseTier == currentTier' = None
-----------------------------------------------------------------------------
\* Before the await.

\* The claim number is not in the seed data: an error result, at once.
ClaimNotFound(r) == /\ pc[r] = "idle"
                    /\ ClaimOf(r) = None
                    /\ pc' = [pc EXCEPT ![r] = "done"]
                    /\ result' = [result EXCEPT ![r] = ErrorResult("claim not found", <<>>)]
                    /\ UNCHANGED <<currentTier, claimNumber, calls, reply>>

\* load_claims reads its file again for every run: the exception of a file
\* that is missing or not valid leaves run_scenario, its try not yet entered.
ClaimsUnreadable(r) == /\ pc[r] = "idle"
                       /\ pc' = [pc EXCEPT ![r] = "raised"]
                       /\ UNCHANGED <<currentTier, claimNumber, calls, reply, result>>

\* The shared tier is set for this claim and the model is prompted.
Start(r) == /\ pc[r] = "idle"
            /\ ClaimOf(r) # None
            /\ currentTier' = OwnTier(r)
            /\ pc' = [pc EXCEPT ![r] = "thinking"]
            /\ UNCHANGED <<claimNumber, calls, reply, result>>
-----------------------------------------------------------------------------
\* Inside the await: the framework's tool loop around the model.

\* The model asks for a tool.  The framework answers an unregistered name by
\* itself.  Parallel calls of one answer are successive requests.
RequestTool(r, tool) ==
    /\ pc[r] = "thinking"
    /\ Len(calls[r]) < MaxCalls
    /\ LET status == IF tool \in RegisteredTools THEN "requested" ELSE "unknown"
       IN  calls' = [calls EXCEPT ![r] = Append(@, [tool |-> tool, status |-> status])]
    /\ UNCHANGED <<currentTier, claimNumber, pc, reply, result>>

\* Mutant: the provider's exception is lost and the call never finishes.
GateOutcomeLost(tool, tier) ==
    IF tier = None THEN "requested"
    ELSE IF Authorize(Allowlist, tool, tier) = "allow" THEN "allowed" ELSE "denied"

\* What the wrapper makes of a call: the provider raises when no scenario
\* runs, and the engine allows or denies by the tier the provider gave.
GateOutcome(tool, tier) ==
    IF tier = None THEN "failed"
    ELSE IF Authorize(Allowlist, tool, tier) = "allow" THEN "allowed" ELSE "denied"

\* gated_tool's _wrapper, up to its own await.
GateTool(r, i) ==
    /\ pc[r] = "thinking"
    /\ calls[r][i].status = "requested"
    /\ calls' = [calls EXCEPT ![r][i].status = GateOutcome(calls[r][i].tool, currentTier)]
    /\ UNCHANGED <<currentTier, claimNumber, pc, reply, result>>

\* await inner.invoke: the lookup runs.  It reads and changes nothing.
InvokeTool(r, i) ==
    /\ pc[r] = "thinking"
    /\ calls[r][i].status = "allowed"
    /\ calls' = [calls EXCEPT ![r][i].status = "executed"]
    /\ UNCHANGED <<currentTier, claimNumber, pc, reply, result>>

\* The framework awaits every call of an answer before it goes on.
InFlight(r) == \E i \in DOMAIN calls[r] : calls[r][i].status \in {"requested", "allowed"}
-----------------------------------------------------------------------------
\* After the await.

\* agent.run raises: an error result that carries no tool calls.
AgentRaises(r) ==
    /\ pc[r] = "thinking"
    /\ ~InFlight(r)
    /\ ReleaseTier
    /\ pc' = [pc EXCEPT ![r] = "done"]
    /\ result' = [result EXCEPT ![r] = ErrorResult("agent raised", <<>>)]
    /\ UNCHANGED <<claimNumber, calls, reply>>

\* ResponseNormalizer on an object: defaults for the missing or null fields
\* the configuration has a default for, which decision is not among.
Normalize(rep) ==
    [rep EXCEPT !.tier   = IF @ = None THEN DefaultTier ELSE @,
                !.payout = IF @ = None THEN DefaultPayout ELSE @]

\* The error the answer earns before the harness is asked, if any.
ReplyError(rep) ==
    IF rep.shape = "text" THEN "not json"
    ELSE IF rep.shape = "malformed" \/ Normalize(rep).decision = None THEN "invalid"
    ELSE IF Normalize(rep).decision = "other" THEN "unrecognised"
    ELSE None

\* The normalizer passes on what json.loads raises but a JSONDecodeError; a
\* payout that is no finite number fails ClaimDecisionRequest; a negative one
\* is refused by the engine.  None of these exceptions is caught here.
ReplyRaises(rep) ==
    \/ rep.shape = "excessive"
    \/ /\ ReplyError(rep) = None
       /\ LET payout == Normalize(rep).payout IN payout # NaN => payout < 0

\* Mutant: the tier is taken from the answer before it is normalised.
RequestForRaw(r, rep) ==
    [claim |-> ClaimOf(r), policy |-> PolicyOf(r), decision |-> Normalize(rep).decision,
     payout |-> Normalize(rep).payout, tier |-> IF rep.tier \in Tier THEN rep.tier ELSE None]

RequestFor(r, rep) ==
    LET clean == Normalize(rep)
    IN  [claim    |-> ClaimOf(r),
         policy   |-> PolicyOf(r),
         decision |-> clean.decision,
         payout   |-> clean.payout,
         tier     |-> IF clean.tier \in Tier THEN clean.tier ELSE None]

NotesOf(ruling) == {n \in Note : \/ n = "OVERRIDDEN"        /\ ruling.overridden
                                 \/ n = "TIER_DISAGREEMENT" /\ ruling.tierDisagreement
                                 \/ n = "PAYOUT_OVERRIDDEN" /\ ruling.payoutOverridden}

\* Mutant: the result reports the tier of the shared slot, not the ruling's.
RuledResultFromSlot(r, rep) ==
    LET ruling == Evaluate(Authority, Thresholds, RequestFor(r, rep))
    IN  [error |-> None, tier |-> currentTier, decision |-> ruling.finalDecision,
         payout |-> ruling.finalPayout, toolCalls |-> ToolCallNames(r),
         notes |-> NotesOf(ruling)]

RuledResult(r, rep) ==
    LET ruling == Evaluate(Authority, Thresholds, RequestFor(r, rep))
    IN  [error |-> None, tier |-> ruling.computedTier, decision |-> ruling.finalDecision,
         payout |-> ruling.finalPayout, toolCalls |-> ToolCallNames(r),
         notes |-> NotesOf(ruling)]

\* The model answers: normalise, parse, rule and return, in one step.
ModelReplies(r, rep) ==
    /\ pc[r] = "thinking"
    /\ ~InFlight(r)
    /\ ~ReplyRaises(rep)
    /\ ReleaseTier
    /\ reply' = [reply EXCEPT ![r] = rep]
    /\ pc' = [pc EXCEPT ![r] = "done"]
    /\ result' = [result EXCEPT ![r] = IF ReplyError(rep) # None
                                       THEN ErrorResult(ReplyError(rep), ToolCallNames(r))
                                       ELSE RuledResult(r, rep)]
    /\ UNCHANGED <<claimNumber, calls>>

\* The model answers, and the exception of the normalizer or of the ruling
\* leaves run_scenario.
AnswerRaises(r, rep) ==
    /\ pc[r] = "thinking"
    /\ ~InFlight(r)
    /\ ReplyRaises(rep)
    /\ ReleaseTier
    /\ reply' = [reply EXCEPT ![r] = rep]
    /\ pc' = [pc EXCEPT ![r] = "raised"]
    /\ UNCHANGED <<claimNumber, calls, result>>
-----------------------------------------------------------------------------
ToolStep(r) == \E i \in DOMAIN calls[r] : GateTool(r, i) \/ InvokeTool(r, i)
Conclude(r) == AgentRaises(r) \/ \E rep \in Replies : ModelReplies(r, rep) \/ AnswerRaises(r, rep)

RunStep(r) == \/ ClaimNotFound(r)
              \/ ClaimsUnreadable(r)
              \/ Start(r)
              \/ \E tool \in ToolNames : RequestTool(r, tool)
              \/ ToolStep(r)
              \/ Conclude(r)

Next == \E r \in Runs : RunStep(r)

Spec == Init /\ [][Next]_vars

\* The event loop runs every ready task, and the client answers in the end:
\* there is no timeout in the code, so the second part is an assumption.
Fairness == \A r \in Runs : WF_vars(ToolStep(r)) /\ WF_vars(Conclude(r))

FairSpec == Spec /\ Fairness
-----------------------------------------------------------------------------
Settled(r) == pc[r] \in {"done", "raised"}

\* Calls that overlap overwrite and empty one another's slot, yet it never
\* outlives its owner: what it holds is the tier of the claim of some run that
\* is under way, so that with none under way it is empty and a tool called
\* anyway fails (fnol_agent.py: _tier_provider and the finally block).
SlotIsALiveTier ==
    currentTier # None => \E r \in Runs : pc[r] = "thinking" /\ currentTier = OwnTier(r)

\* However the calls of run_scenario interleave on the shared slot, a result
\* without error carries the tier of its own claim, a decision that tier
\* permits and the amount the harness owes on it, never the model's amount
\* (fnol_agent.py: the ruling recomputes the tier).
ResultIsOwnRuling ==
    \A r \in Runs : result[r] # None /\ result[r].error = None =>
        LET rule == Authority[OwnTier(r)]
        IN  /\ result[r].tier = OwnTier(r)
            /\ result[r].decision \in rule.allowed \cup {rule.onDisallowed}
            /\ result[r].payout = IF result[r].decision = "approve"
                                  THEN DeterministicPayout(ClaimOf(r), PolicyOf(r)) ELSE 0

\* However the runs interleave and whatever the model said, a result pays only
\* for an approved, assessed loss on its own claim, under a line of its own
\* policy that answers for it, net of the deductible or the limit itself
\* (fnol_agent.py with domain/calculations.py).
PaidResultsHaveGrounds ==
    \A r \in Runs : result[r] # None /\ result[r].error = None /\ result[r].payout > 0 =>
        /\ result[r].decision = "approve"
        /\ PolicyOf(r) # None /\ ClaimOf(r).damage # None
        /\ \E kind \in CoverageType \ {"liability"} :
              LET line == PolicyOf(r).coverages[kind]
              IN  /\ line # None
                  /\ kind = "collision" <=> ClaimOf(r).incident = "collision"
                  /\ ClaimOf(r).incident # "other"
                  /\ result[r].payout <= line.limit
                  /\ result[r].payout + line.deductible <= ClaimOf(r).damage
                  /\ \/ result[r].payout = line.limit
                     \/ result[r].payout + line.deductible = ClaimOf(r).damage

\* Two runs on one claim, in whatever order and beside whatever other runs,
\* that come to the same decision come to the same tier and amount: only the
\* decision is ever the model's (fnol_agent.py: the ruling recomputes both).
OneOutcomePerDecision ==
    \A r, s \in Runs :
        LET ruled(q) == result[q] # None /\ result[q].error = None
        IN  ruled(r) /\ ruled(s) /\ claimNumber[r] = claimNumber[s] =>
               /\ result[r].tier = result[s].tier
               /\ result[r].decision = result[s].decision => result[r].payout = result[s].payout

\* Whatever the run returned after the model answered, it lists every call
\* the model made, so a call that ran is never missing from it.
AnsweredRunsReportEveryCall ==
    \A r \in Runs : reply[r] # None /\ pc[r] = "done" =>
        \A i \in DOMAIN calls[r] :
            \E j \in DOMAIN result[r].toolCalls : result[r].toolCalls[j] = calls[r][i].tool

MayCall(r, tool) == Authorize(Allowlist, tool, OwnTier(r)) = "allow"

\* No tool runs for a claim whose own tier it is not allowed on
\* (tool_gate.py: "the harness-computed tier for the current scenario").
ToolsRespectOwnTier ==
    \A r \in Runs : \A i \in DOMAIN calls[r] :
        calls[r][i].status \in {"allowed", "executed"} => MayCall(r, calls[r][i].tool)

\* Even when calls overlap a tool is let through only if it is allowed on the
\* claim of some run that is under way at that moment: the blast radius of a
\* mixed-up slot is what the claims in progress permit (tool_gate.py: "Called
\* fresh at invocation time - never cached").
GrantsAreOfRunsUnderWay ==
    [][\A r \in Runs : \A i \in DOMAIN calls[r] :
          calls[r][i].status = "requested" /\ calls'[r][i].status = "allowed" =>
             \E s \in Runs : pc[s] = "thinking" /\ MayCall(s, calls[r][i].tool)]_vars

\* The verdict of each run as the abstract specification sees it.
VerdictOf(r) ==
    IF pc[r] = "raised" \/ (result[r] # None /\ result[r].error # None)
    THEN [state |-> "failed"]
    ELSE IF result[r] = None THEN [state |-> "pending"]
    ELSE [state    |-> "ruled",           tier   |-> result[r].tier,
          decision |-> result[r].decision, payout |-> result[r].payout]

Abstract == INSTANCE Adjudication WITH verdict <- [r \in Runs |-> VerdictOf(r)]

\* The agent implements Adjudication: tool calls, the shared slot and every
\* way a model can answer come to one settlement per run, and a permitted one.
ImplementsAdjudication == Abstract!Spec

\* A run that has prompted the model ends.
EveryRunSettles == \A r \in Runs : pc[r] = "thinking" ~> Settled(r)

\* A ruling is marked as disagreeing on the tier exactly when the tier the
\* model named is a known one and not the claim's.  A model that named none
\* is taken to have named the default: on a claim of another tier its silence
\* is recorded as disagreement (response_normalizer.py, the defaults).
DisagreementFlagIsExact ==
    \A r \in Runs : result[r] # None /\ result[r].error = None =>
        LET named == IF reply[r].tier = None THEN DefaultTier ELSE reply[r].tier
        IN  "TIER_DISAGREEMENT" \in result[r].notes <=> named \in Tier /\ named # OwnTier(r)
=============================================================================
