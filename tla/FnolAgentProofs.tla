--------------------------- MODULE FnolAgentProofs --------------------------
(***************************************************************************)
(* The safety of FnolAgent for any set of concurrent runs, any model and   *)
(* any configuration the loaders accept, and its refinement of             *)
(* Adjudication.  The inductive invariant adds to the properties what ties *)
(* a run's reply and result to where the run is.                           *)
(***************************************************************************)
EXTENDS FnolAgent, DecisionEngineProofs

\* A run that has not ended holds no reply and no result, and one that waits
\* for the model has a claim.
RunsAreOrderly ==
    \A r \in Runs : /\ pc[r] \in {"idle", "thinking"} => reply[r] = None /\ result[r] = None
                    /\ pc[r] = "thinking" => ClaimOf(r) # None

IInv == TypeOK /\ RunsAreOrderly
-----------------------------------------------------------------------------
Call == [tool : ToolNames, status : CallStatus]

\* The names of a sequence of calls form a sequence of names
\* (tool_call_extractor.py).
LEMMA ToolCallNamesType ==
    ASSUME NEW r, calls[r] \in Seq(Call)
    PROVE  ToolCallNames(r) \in Seq(ToolNames)
  <1>1. ASSUME NEW s \in Seq(Call) PROVE [i \in DOMAIN s |-> s[i].tool] \in Seq(ToolNames)
    <2>1. Len(s) \in Nat /\ DOMAIN s = 1..Len(s)
      OBVIOUS
    <2>2. \A i \in 1..Len(s) : s[i] \in Call
      OBVIOUS
    <2>3. \A i \in 1..Len(s) : s[i].tool \in ToolNames
      BY <2>2 DEF Call
    <2>4. [i \in DOMAIN s |-> s[i].tool] \in [1..Len(s) -> ToolNames]
      BY <2>1, <2>3
    <2> QED BY <2>1, <2>4
  <1> QED BY <1>1 DEF ToolCallNames

\* Changing the status of one call of one run leaves well-typed calls.
LEMMA StatusChange ==
    ASSUME calls \in [Runs -> Seq(Call)], NEW r \in Runs, NEW i \in DOMAIN calls[r],
           NEW status \in CallStatus,
           calls' = [calls EXCEPT ![r][i].status = status]
    PROVE  /\ calls' \in [Runs -> Seq(Call)]
           /\ Len(calls'[r]) = Len(calls[r])
           /\ calls'[r][i] = [calls[r][i] EXCEPT !.status = status]
           /\ \A j \in DOMAIN calls[r] \ {i} : calls'[r][j] = calls[r][j]
           /\ \A s \in Runs \ {r} : calls'[s] = calls[s]
  <1> DEFINE new == [calls[r] EXCEPT ![i].status = status]
  <1>1. calls[r] \in Seq(Call) /\ calls[r][i] \in Call
    OBVIOUS
  <1>2. [calls[r][i] EXCEPT !.status = status] \in Call
    BY <1>1 DEF Call
  <1>3. /\ new \in Seq(Call) /\ Len(new) = Len(calls[r])
        /\ new[i] = [calls[r][i] EXCEPT !.status = status]
        /\ \A j \in DOMAIN calls[r] \ {i} : new[j] = calls[r][j]
    BY <1>1, <1>2
  <1>4. calls' = [calls EXCEPT ![r] = new]
    OBVIOUS
  <1> HIDE DEF new
  <1> QED BY <1>3, <1>4

\* An error result is an AgentRunResult.
LEMMA ErrorResultType ==
    ASSUME NEW kind \in ErrorKind
    PROVE  /\ \A names \in Seq(ToolNames) : ErrorResult(kind, names) \in AgentRunResult
           /\ ErrorResult(kind, <<>>) \in AgentRunResult
           /\ \A names : ErrorResult(kind, names).error = kind
  <1>1. << >> \in Seq(ToolNames)
    OBVIOUS
  <1> QED BY <1>1 DEF ErrorResult, AgentRunResult

\* An answer that earns no error and makes the ruling raise nothing is a
\* well-formed request to the decision engine (fnol_agent.py, from the
\* normaliser to ClaimDecisionRequest).
LEMMA RequestIsWellFormed ==
    ASSUME FnolAssumption, NEW r \in Runs, claimNumber[r] \in ClaimNumbers,
           ClaimOf(r) # None, NEW rep \in Reply,
           ReplyError(rep) = None, ~ReplyRaises(rep)
    PROVE  /\ RequestFor(r, rep) \in ClaimDecisionRequest
           /\ ~EvaluateRaises(RequestFor(r, rep))
           /\ RequestFor(r, rep).claim = ClaimOf(r)
           /\ RequestFor(r, rep).policy = PolicyOf(r)
  <1> DEFINE clean == Normalize(rep)
  <1>1. ClaimOf(r) \in Claim /\ PolicyOf(r) \in Policy \cup {None}
    BY FnolAssumption DEF FnolAssumption, ClaimOf, PolicyOf
  <1>2. /\ clean.decision = rep.decision
        /\ clean.payout = IF rep.payout = None THEN DefaultPayout ELSE rep.payout
    BY DEF Normalize, Reply
  <1>3. clean.decision \in Decision
    <2>1. None \notin ErrorKind
      BY FnolAssumption DEF FnolAssumption
    <2> QED BY <1>2, <2>1 DEF ReplyError, Reply, ErrorKind
  <1>4. clean.payout \in Int /\ ~(clean.payout < 0)
    BY <1>2, FnolAssumption DEF FnolAssumption, ReplyRaises, Reply
  <1>5. (IF clean.tier \in Tier THEN clean.tier ELSE None) \in Tier \cup {None}
    OBVIOUS
  <1> HIDE DEF clean
  <1>6. RequestFor(r, rep) = [claim    |-> ClaimOf(r),
                              policy   |-> PolicyOf(r),
                              decision |-> clean.decision,
                              payout   |-> clean.payout,
                              tier     |-> IF clean.tier \in Tier THEN clean.tier ELSE None]
    BY DEF RequestFor, clean
  <1> QED BY <1>1, <1>3, <1>4, <1>5, <1>6 DEF ClaimDecisionRequest, EvaluateRaises

\* The result of a ruled run: well-typed, free of error, and its tier,
\* decision and amount are those of the claim the run is about.
LEMMA RuledResultIsOwn ==
    ASSUME FnolAssumption, TypeOK, NEW r \in Runs, ClaimOf(r) # None, NEW rep \in Reply,
           ReplyError(rep) = None, ~ReplyRaises(rep)
    PROVE  LET res  == RuledResult(r, rep)
               rule == Authority[OwnTier(r)]
           IN  /\ res \in AgentRunResult
               /\ res.error = None
               /\ res.tier = OwnTier(r)
               /\ res.decision \in rule.allowed \cup {rule.onDisallowed}
               /\ res.payout = IF res.decision = "approve"
                               THEN DeterministicPayout(ClaimOf(r), PolicyOf(r)) ELSE 0
               /\ res.toolCalls = ToolCallNames(r)
  <1> DEFINE req    == RequestFor(r, rep)
             ruling == Evaluate(Authority, Thresholds, req)
             rule   == Authority[OwnTier(r)]
             owed   == DeterministicPayout(ClaimOf(r), PolicyOf(r))
  <1>1. /\ req \in ClaimDecisionRequest /\ ~EvaluateRaises(req)
        /\ req.claim = ClaimOf(r) /\ req.policy = PolicyOf(r)
    BY RequestIsWellFormed DEF TypeOK
  <1>2. Authority \in TierAuthorityConfig
    BY FnolAssumption DEF FnolAssumption
  <1>3. ruling \in ClaimDecisionRuling /\ ruling.computedTier = OwnTier(r)
        /\ ruling.finalDecision = FinalDecision(rule, req.decision)
        /\ ruling.finalPayout = IF ruling.finalDecision = "approve" THEN owed ELSE 0
    BY <1>1, <1>2, EvaluateRules DEF OwnTier
  <1>4. ruling.finalDecision \in rule.allowed \cup {rule.onDisallowed}
    <2>1. OwnTier(r) \in Tier
      BY <1>1, AssignTierType DEF OwnTier, ClaimDecisionRequest
    <2>2. rule \in TierAuthorityRule /\ req.decision \in Decision
      BY <1>1, <1>2, <2>1 DEF TierAuthorityConfig, ClaimDecisionRequest
    <2> QED BY <1>3, <2>2, FinalDecisionPermitted
  <1>5. ToolCallNames(r) \in Seq(ToolNames)
    BY ToolCallNamesType DEF TypeOK, Call
  <1>6. NotesOf(ruling) \in SUBSET Note
    BY DEF NotesOf
  <1> HIDE DEF ruling, rule, owed
  <1>7. RuledResult(r, rep) =
            [error |-> None, tier |-> ruling.computedTier, decision |-> ruling.finalDecision,
             payout |-> ruling.finalPayout, toolCalls |-> ToolCallNames(r),
             notes |-> NotesOf(ruling)]
    BY DEF RuledResult, ruling
  <1>8. RuledResult(r, rep) \in AgentRunResult
    BY <1>3, <1>5, <1>6, <1>7 DEF AgentRunResult, ClaimDecisionRuling
  <1> QED BY <1>3, <1>4, <1>7, <1>8 DEF rule, owed
-----------------------------------------------------------------------------
\* Before the await, a run keeps the state well-typed and orderly.
LEMMA BeforeTheAwait ==
    ASSUME FnolAssumption, IInv, NEW r \in Runs,
           ClaimNotFound(r) \/ ClaimsUnreadable(r) \/ Start(r)
    PROVE  IInv'
  <1>1. CASE ClaimNotFound(r)
    <2>1. ErrorResult("claim not found", <<>>) \in AgentRunResult
      BY ErrorResultType DEF ErrorKind
    <2> QED BY <1>1, <2>1 DEF ClaimNotFound, IInv, TypeOK, RunsAreOrderly, ClaimOf
  <1>2. CASE Start(r)
    <2>1. OwnTier(r) \in Tier
      BY <1>2, FnolAssumption, AssignTierType
      DEF Start, FnolAssumption, IInv, TypeOK, ClaimOf, OwnTier
    <2> QED BY <1>2, <2>1 DEF Start, IInv, TypeOK, RunsAreOrderly, ClaimOf
  <1>3. CASE ClaimsUnreadable(r)
    BY <1>3 DEF ClaimsUnreadable, IInv, TypeOK, RunsAreOrderly, ClaimOf
  <1> QED BY <1>1, <1>2, <1>3

\* What a tool step does: one call of a waiting run changes its status.
LEMMA ToolStepChanges ==
    ASSUME TypeOK, NEW r \in Runs, NEW i \in DOMAIN calls[r], GateTool(r, i) \/ InvokeTool(r, i)
    PROVE  \E status \in CallStatus :
              /\ calls' = [calls EXCEPT ![r][i].status = status]
              /\ UNCHANGED <<currentTier, claimNumber, pc, reply, result>>
  <1>1. CASE GateTool(r, i)
    <2>1. GateOutcome(calls[r][i].tool, currentTier) \in CallStatus
      BY DEF GateOutcome, CallStatus
    <2> QED BY <1>1, <2>1 DEF GateTool
  <1>2. CASE InvokeTool(r, i)
    BY <1>2 DEF InvokeTool, CallStatus
  <1> QED BY <1>1, <1>2

\* Within the await, tool calls keep the state well-typed and orderly.
LEMMA WithinTheAwait ==
    ASSUME IInv, NEW r \in Runs, ToolStep(r) \/ \E tool \in ToolNames : RequestTool(r, tool)
    PROVE  IInv'
  <1>1. ASSUME NEW tool \in ToolNames, RequestTool(r, tool) PROVE IInv'
    <2> DEFINE status == IF tool \in RegisteredTools THEN "requested" ELSE "unknown"
    <2>1. [tool |-> tool, status |-> status] \in Call
      BY DEF Call, CallStatus
    <2>2. calls \in [Runs -> Seq(Call)]
      BY DEF IInv, TypeOK, Call
    <2>3. calls' = [calls EXCEPT ![r] = Append(@, [tool |-> tool, status |-> status])]
      BY <1>1 DEF RequestTool
    <2>4. Append(calls[r], [tool |-> tool, status |-> status]) \in Seq(Call)
      BY <2>1, <2>2
    <2>5. calls' \in [Runs -> Seq(Call)]
      BY <2>2, <2>3, <2>4
    <2> QED BY <1>1, <2>5 DEF RequestTool, IInv, TypeOK, RunsAreOrderly, ClaimOf, Call
  <1>2. ASSUME NEW i \in DOMAIN calls[r], GateTool(r, i) \/ InvokeTool(r, i) PROVE IInv'
    <2>1. PICK status \in CallStatus :
              /\ calls' = [calls EXCEPT ![r][i].status = status]
              /\ UNCHANGED <<currentTier, claimNumber, pc, reply, result>>
      BY <1>2, ToolStepChanges DEF IInv
    <2>2. calls' \in [Runs -> Seq(Call)]
      BY <2>1, StatusChange DEF IInv, TypeOK, Call
    <2> QED BY <2>1, <2>2 DEF IInv, TypeOK, RunsAreOrderly, ClaimOf, Call
  <1> QED BY <1>1, <1>2 DEF ToolStep

\* What the end of a run writes: its result, if it returns one, is an error
\* result or the ruling on its own claim, and lists every call if the model
\* answered.
LEMMA ConcludeFacts ==
    ASSUME FnolAssumption, IInv, NEW r \in Runs, Conclude(r)
    PROVE  /\ pc[r] = "thinking" /\ ClaimOf(r) # None
           /\ currentTier' = None /\ UNCHANGED <<claimNumber, calls>>
           /\ \/ /\ pc' = [pc EXCEPT ![r] = "raised"]
                 /\ result' = result
                 /\ \E rep \in Reply : reply' = [reply EXCEPT ![r] = rep]
              \/ /\ pc' = [pc EXCEPT ![r] = "done"]
                 /\ reply' = reply
                 /\ result' = [result EXCEPT ![r] = ErrorResult("agent raised", <<>>)]
              \/ /\ pc' = [pc EXCEPT ![r] = "done"]
                 /\ \E rep \in Reply : reply' = [reply EXCEPT ![r] = rep]
                 /\ \/ \E kind \in ErrorKind :
                          result' = [result EXCEPT ![r] = ErrorResult(kind, ToolCallNames(r))]
                    \/ \E rep \in Reply : /\ ReplyError(rep) = None /\ ~ReplyRaises(rep)
                                         /\ result' = [result EXCEPT ![r] = RuledResult(r, rep)]
  <1>1. /\ pc[r] = "thinking" /\ currentTier' = None /\ UNCHANGED <<claimNumber, calls>>
    BY DEF Conclude, AgentRaises, ModelReplies, AnswerRaises, ReleaseTier
  <1>2. ClaimOf(r) # None
    BY <1>1 DEF IInv, RunsAreOrderly
  <1>3. \A rep \in Replies : rep \in Reply
    BY FnolAssumption DEF FnolAssumption
  <1>4. CASE AgentRaises(r)
    BY <1>1, <1>2, <1>4 DEF AgentRaises
  <1>5. ASSUME NEW rep \in Replies, ModelReplies(r, rep)
        PROVE  /\ pc' = [pc EXCEPT ![r] = "done"]
               /\ \E rep2 \in Reply : reply' = [reply EXCEPT ![r] = rep2]
               /\ \/ \E kind \in ErrorKind :
                        result' = [result EXCEPT ![r] = ErrorResult(kind, ToolCallNames(r))]
                  \/ \E rep2 \in Reply : /\ ReplyError(rep2) = None /\ ~ReplyRaises(rep2)
                                        /\ result' = [result EXCEPT ![r] = RuledResult(r, rep2)]
    <2>1. ReplyError(rep) \in ErrorKind \cup {None}
      BY DEF ReplyError, ErrorKind
    <2>2. CASE ReplyError(rep) = None
      BY <1>3, <1>5, <2>2 DEF ModelReplies
    <2>3. CASE ReplyError(rep) # None
      BY <1>3, <1>5, <2>1, <2>3 DEF ModelReplies
    <2> QED BY <2>2, <2>3
  <1>6. ASSUME NEW rep \in Replies, AnswerRaises(r, rep)
        PROVE  /\ pc' = [pc EXCEPT ![r] = "raised"]
               /\ result' = result
               /\ \E rep2 \in Reply : reply' = [reply EXCEPT ![r] = rep2]
    BY <1>3, <1>6 DEF AnswerRaises
  <1> QED BY <1>1, <1>2, <1>4, <1>5, <1>6 DEF Conclude

\* After the await, the end of a run keeps the state well-typed and orderly,
\* and a run that returns returns a result.
LEMMA AfterTheAwait ==
    ASSUME FnolAssumption, IInv, NEW r \in Runs, Conclude(r)
    PROVE  IInv' /\ (pc'[r] # "raised" => result'[r] # None)
  <1>1. ToolCallNames(r) \in Seq(ToolNames)
    BY ToolCallNamesType DEF IInv, TypeOK, Call
  <1>2. ErrorResult("agent raised", <<>>) \in AgentRunResult
    BY ErrorResultType DEF ErrorKind
  <1>3. \A kind \in ErrorKind : ErrorResult(kind, ToolCallNames(r)) \in AgentRunResult
    BY <1>1, ErrorResultType
  <1>4. \A rep \in Reply : ReplyError(rep) = None /\ ~ReplyRaises(rep)
                            => RuledResult(r, rep) \in AgentRunResult
    BY ConcludeFacts, RuledResultIsOwn DEF IInv
  <1>5. result' \in [Runs -> AgentRunResult \cup {None}]
    <2>1. result' = result \/ \E res \in AgentRunResult : result' = [result EXCEPT ![r] = res]
      BY <1>2, <1>3, <1>4, ConcludeFacts
    <2> QED BY <2>1 DEF IInv, TypeOK
  <1>6. pc'[r] # "raised" => result'[r] # None
    <2>1. \/ pc' = [pc EXCEPT ![r] = "raised"]
          \/ \E res \in AgentRunResult : result' = [result EXCEPT ![r] = res]
      BY <1>2, <1>3, <1>4, ConcludeFacts
    <2> QED BY <2>1, FnolAssumption DEF FnolAssumption, IInv, TypeOK
  <1>7. /\ reply' \in [Runs -> Reply \cup {None}]
        /\ pc' \in [Runs -> {"idle", "thinking", "done", "raised"}]
        /\ pc'[r] \in {"done", "raised"}
        /\ \A s \in Runs \ {r} : pc'[s] = pc[s] /\ reply'[s] = reply[s] /\ result'[s] = result[s]
    <2>1. /\ reply' = reply \/ \E rep \in Reply : reply' = [reply EXCEPT ![r] = rep]
          /\ \E end \in {"done", "raised"} : pc' = [pc EXCEPT ![r] = end]
          /\ result' = result \/ \E res : result' = [result EXCEPT ![r] = res]
      BY ConcludeFacts
    <2> QED BY <2>1 DEF IInv, TypeOK
  <1>8. TypeOK'
    BY <1>5, <1>7, ConcludeFacts DEF IInv, TypeOK
  <1>9. RunsAreOrderly'
    BY <1>7, ConcludeFacts DEF IInv, RunsAreOrderly, ClaimOf
  <1> QED BY <1>8, <1>9, <1>6 DEF IInv
-----------------------------------------------------------------------------
\* The initial state is well-typed and orderly.
LEMMA InitIsOrderly == Init => IInv
  <1> SUFFICES ASSUME Init PROVE IInv
    OBVIOUS
  <1>1. << >> \in Seq(Call)
    OBVIOUS
  <1> QED BY <1>1 DEF Init, IInv, TypeOK, RunsAreOrderly, Call

\* So is what any step of any run leaves.
LEMMA StepsAreOrderly == IInv /\ [Next]_vars => IInv'
  <1> SUFFICES ASSUME IInv, [Next]_vars PROVE IInv'
    OBVIOUS
  <1>1. ASSUME NEW r \in Runs, RunStep(r) PROVE IInv'
    BY <1>1, FnolAssumption, BeforeTheAwait, WithinTheAwait, AfterTheAwait DEF RunStep
  <1>2. CASE UNCHANGED vars
    BY <1>2 DEF vars, IInv, TypeOK, RunsAreOrderly, ClaimOf
  <1> QED BY <1>1, <1>2 DEF Next

\* The state is well-typed and orderly, for any number of concurrent runs.
LEMMA Inductive == Spec => []IInv
  BY InitIsOrderly, StepsAreOrderly, PTL DEF Spec

\* Type correctness of the agent (FnolAgent!TypeOK).
THEOREM AgentTypeCorrect == Spec => []TypeOK
  <1>1. IInv => TypeOK
    BY DEF IInv
  <1> QED BY <1>1, Inductive, PTL

\* Every step of a run that is not its end leaves its place known.
LEMMA PlaceOfStep ==
    ASSUME IInv, NEW r \in Runs, RunStep(r), ~Conclude(r)
    PROVE  /\ pc[r] \in {"idle", "thinking"}
           /\ UNCHANGED <<claimNumber, reply>>
           /\ \/ /\ pc[r] = "idle" /\ UNCHANGED <<currentTier, calls>>
                 /\ pc' = [pc EXCEPT ![r] = "done"]
                 /\ result' = [result EXCEPT ![r] = ErrorResult("claim not found", <<>>)]
              \/ /\ pc[r] = "idle" /\ UNCHANGED <<currentTier, calls, result>>
                 /\ pc' = [pc EXCEPT ![r] = "raised"]
              \/ /\ pc[r] = "idle" /\ UNCHANGED <<calls, result>>
                 /\ currentTier' = OwnTier(r)
                 /\ pc' = [pc EXCEPT ![r] = "thinking"]
              \/ /\ pc[r] = "thinking" /\ UNCHANGED <<currentTier, pc, result>>
                 /\ \A s \in Runs \ {r} : calls'[s] = calls[s]
  <1>1. CASE ClaimNotFound(r) \/ ClaimsUnreadable(r) \/ Start(r)
    BY <1>1 DEF ClaimNotFound, ClaimsUnreadable, Start
  <1>2. ASSUME NEW tool \in ToolNames, RequestTool(r, tool)
        PROVE  /\ pc[r] = "thinking" /\ UNCHANGED <<claimNumber, reply, currentTier, pc, result>>
               /\ \A s \in Runs \ {r} : calls'[s] = calls[s]
    BY <1>2 DEF RequestTool, IInv, TypeOK
  <1>3. ASSUME NEW i \in DOMAIN calls[r], GateTool(r, i) \/ InvokeTool(r, i)
        PROVE  /\ pc[r] = "thinking" /\ UNCHANGED <<claimNumber, reply, currentTier, pc, result>>
               /\ \A s \in Runs \ {r} : calls'[s] = calls[s]
    BY <1>3 DEF GateTool, InvokeTool, IInv, TypeOK
  <1> QED BY <1>1, <1>2, <1>3 DEF RunStep, ToolStep

\* A run that has ended stays as it is, whatever the other runs do.
LEMMA SettledRunsStay ==
    ASSUME IInv, [Next]_vars, NEW r \in Runs, Settled(r)
    PROVE  pc'[r] = pc[r] /\ result'[r] = result[r]
  <1>1. ASSUME NEW q \in Runs, RunStep(q), Conclude(q)
        PROVE  pc'[r] = pc[r] /\ result'[r] = result[r]
    <2>1. q # r
      BY <1>1, FnolAssumption, ConcludeFacts DEF Settled
    <2>2. /\ \E end : pc' = [pc EXCEPT ![q] = end]
          /\ result' = result \/ \E res : result' = [result EXCEPT ![q] = res]
      BY <1>1, FnolAssumption, ConcludeFacts
    <2> QED BY <2>1, <2>2 DEF IInv, TypeOK
  <1>2. ASSUME NEW q \in Runs, RunStep(q), ~Conclude(q)
        PROVE  pc'[r] = pc[r] /\ result'[r] = result[r]
    BY <1>2, PlaceOfStep DEF Settled, IInv, TypeOK
  <1>3. CASE UNCHANGED vars
    BY <1>3 DEF vars
  <1> QED BY <1>1, <1>2, <1>3 DEF Next

\* A run other than the one that takes a step is where it was, about the same
\* claim.
LEMMA OtherRunsStayPut ==
    ASSUME IInv, NEW r \in Runs, RunStep(r)
    PROVE  /\ claimNumber' = claimNumber
           /\ \A s \in Runs \ {r} : pc'[s] = pc[s] /\ OwnTier(s)' = OwnTier(s)
  <1>1. /\ claimNumber' = claimNumber
        /\ pc' = pc \/ \E place : pc' = [pc EXCEPT ![r] = place]
    <2>1. CASE Conclude(r)
      BY <2>1, FnolAssumption, ConcludeFacts
    <2>2. CASE ~Conclude(r)
      BY <2>2, PlaceOfStep
    <2> QED BY <2>1, <2>2
  <1> QED BY <1>1 DEF IInv, TypeOK, OwnTier, ClaimOf

\* However runs overlap, the slot never outlives the run it belongs to:
\* whoever fills it is under way, and whoever ends empties it, its own or not
\* (fnol_agent.py, run_scenario's assignment and its finally block).
THEOREM SlotNeverOutlivesItsRun == Spec => []SlotIsALiveTier
  <1>1. Init => SlotIsALiveTier
    BY DEF Init, SlotIsALiveTier
  <1>2. IInv /\ SlotIsALiveTier /\ [Next]_vars => SlotIsALiveTier'
    <2> SUFFICES ASSUME IInv, SlotIsALiveTier, [Next]_vars, currentTier' # None
                 PROVE  \E s \in Runs : pc'[s] = "thinking" /\ currentTier' = OwnTier(s)'
      BY DEF SlotIsALiveTier
    <2>1. ASSUME NEW r \in Runs, RunStep(r)
          PROVE  \E s \in Runs : pc'[s] = "thinking" /\ currentTier' = OwnTier(s)'
      <3>1. ~Conclude(r)
        BY FnolAssumption, ConcludeFacts
      <3>2. claimNumber' = claimNumber /\ OwnTier(r)' = OwnTier(r)
        BY <2>1, OtherRunsStayPut DEF OwnTier, ClaimOf
      <3>3. CASE pc[r] = "idle" /\ currentTier' = OwnTier(r) /\ pc' = [pc EXCEPT ![r] = "thinking"]
        BY <3>2, <3>3 DEF IInv, TypeOK
      <3>4. CASE currentTier' = currentTier /\ (pc[r] # "thinking" \/ pc' = pc)
        <4>1. PICK s \in Runs : pc[s] = "thinking" /\ currentTier = OwnTier(s)
          BY <3>4 DEF SlotIsALiveTier
        <4>2. pc'[s] = pc[s] /\ OwnTier(s)' = OwnTier(s)
          BY <2>1, <3>2, <3>4, <4>1, OtherRunsStayPut
        <4> QED BY <3>4, <4>1, <4>2
      <3> QED BY <2>1, <3>1, <3>3, <3>4, PlaceOfStep
    <2>2. CASE UNCHANGED vars
      BY <2>2 DEF vars, SlotIsALiveTier, OwnTier, ClaimOf
    <2> QED BY <2>1, <2>2 DEF Next
  <1> QED BY <1>1, <1>2, Inductive, PTL DEF Spec

\* A call is let through only by the gate, on the tier in the slot.
LEMMA GrantsUseTheSlot ==
    ASSUME IInv, NEW q \in Runs, RunStep(q), NEW r \in Runs, NEW i \in DOMAIN calls[r],
           calls[r][i].status = "requested", calls'[r][i].status = "allowed"
    PROVE  /\ currentTier # None
           /\ Authorize(Allowlist, calls[r][i].tool, currentTier) = "allow"
  <1>1. calls \in [Runs -> Seq(Call)]
    BY DEF IInv, TypeOK, Call
  <1>2. calls'[r] # calls[r]
    OBVIOUS
  <1>3. q = r /\ ~Conclude(q)
    BY <1>2, FnolAssumption, ConcludeFacts, PlaceOfStep
  <1>4. \A tool \in ToolNames : ~RequestTool(r, tool)
    <2>1. SUFFICES ASSUME NEW tool \in ToolNames, RequestTool(r, tool) PROVE FALSE
      OBVIOUS
    <2>2. \E call : calls' = [calls EXCEPT ![r] = Append(@, call)]
      BY <2>1 DEF RequestTool
    <2>3. calls'[r][i] = calls[r][i]
      BY <1>1, <2>2
    <2> QED BY <2>3
  <1>5. PICK j \in DOMAIN calls[r] : GateTool(r, j) \/ InvokeTool(r, j)
    <2>1. ~ClaimNotFound(r) /\ ~ClaimsUnreadable(r) /\ ~Start(r)
      BY <1>2 DEF ClaimNotFound, ClaimsUnreadable, Start
    <2> QED BY <1>3, <1>4, <2>1 DEF RunStep, ToolStep
  <1>6. PICK status \in CallStatus : calls' = [calls EXCEPT ![r][j].status = status]
    BY <1>5, ToolStepChanges DEF IInv
  <1>7. j = i
    BY <1>1, <1>6, StatusChange
  <1>8. ~InvokeTool(r, i)
    BY DEF InvokeTool
  <1>9. calls' = [calls EXCEPT ![r][i].status = GateOutcome(calls[r][i].tool, currentTier)]
    BY <1>5, <1>7, <1>8 DEF GateTool
  <1>10. GateOutcome(calls[r][i].tool, currentTier) \in CallStatus
    BY DEF GateOutcome, CallStatus
  <1>11. calls[r][i] \in Call
    BY <1>1
  <1>12. calls'[r][i].status = GateOutcome(calls[r][i].tool, currentTier)
    BY <1>1, <1>9, <1>10, <1>11, StatusChange DEF Call
  <1> QED BY <1>12 DEF GateOutcome

\* Under any overlap of runs a tool is let through only if the claim of some
\* run under way allows it (tool_gate.py, _wrapper; fnol_agent.py,
\* _tier_provider).
THEOREM GrantsComeFromRunsUnderWay == Spec => GrantsAreOfRunsUnderWay
  <1>1. IInv /\ SlotIsALiveTier /\ [Next]_vars =>
            [\A r \in Runs : \A i \in DOMAIN calls[r] :
                calls[r][i].status = "requested" /\ calls'[r][i].status = "allowed" =>
                    \E s \in Runs : pc[s] = "thinking" /\ MayCall(s, calls[r][i].tool)]_vars
    <2> SUFFICES ASSUME IInv, SlotIsALiveTier, Next, NEW r \in Runs, NEW i \in DOMAIN calls[r],
                        calls[r][i].status = "requested", calls'[r][i].status = "allowed"
                 PROVE  \E s \in Runs : pc[s] = "thinking" /\ MayCall(s, calls[r][i].tool)
      OBVIOUS
    <2>1. PICK q \in Runs : RunStep(q)
      BY DEF Next
    <2>2. /\ currentTier # None
          /\ Authorize(Allowlist, calls[r][i].tool, currentTier) = "allow"
      BY <2>1, GrantsUseTheSlot
    <2> QED BY <2>2 DEF SlotIsALiveTier, MayCall
  <1> QED BY <1>1, Inductive, SlotNeverOutlivesItsRun, PTL DEF Spec, GrantsAreOfRunsUnderWay

\* What a result without error must say of the claim its number names.
OwnRuling(number, res) ==
    LET tier == AssignTier(ClaimData[number], Thresholds)
        rule == Authority[tier]
    IN  /\ res.tier = tier
        /\ res.decision \in rule.allowed \cup {rule.onDisallowed}
        /\ res.payout = IF res.decision = "approve"
                        THEN DeterministicPayout(ClaimData[number], PolicyOnFile[number]) ELSE 0

\* The result a run ends with, if it is one without error, is the ruling on
\* its own claim.
LEMMA ConcludeIsOwnRuling ==
    ASSUME FnolAssumption, IInv, NEW r \in Runs, Conclude(r),
           result'[r] # None, result'[r].error = None
    PROVE  OwnRuling(claimNumber[r], result'[r])
  <1>1. result[r] = None
    BY ConcludeFacts DEF IInv, RunsAreOrderly
  <1>2. \A res : result' = [result EXCEPT ![r] = res] => result'[r] = res
    BY DEF IInv, TypeOK
  <1>3. ASSUME NEW kind \in ErrorKind, NEW names,
               result' = [result EXCEPT ![r] = ErrorResult(kind, names)]
        PROVE  FALSE
    <2>1. result'[r].error = kind
      BY <1>2, <1>3, ErrorResultType
    <2> QED BY <2>1, FnolAssumption DEF FnolAssumption
  <1>4. "agent raised" \in ErrorKind
    BY DEF ErrorKind
  <1>5. PICK rep \in Reply : /\ ReplyError(rep) = None /\ ~ReplyRaises(rep)
                             /\ result'[r] = RuledResult(r, rep)
    <2>1. result' # result
      BY <1>1
    <2>2. /\ result' # [result EXCEPT ![r] = ErrorResult("agent raised", <<>>)]
          /\ ~\E kind \in ErrorKind :
                 result' = [result EXCEPT ![r] = ErrorResult(kind, ToolCallNames(r))]
      BY <1>3, <1>4
    <2>3. \E rep \in Reply : /\ ReplyError(rep) = None /\ ~ReplyRaises(rep)
                             /\ result' = [result EXCEPT ![r] = RuledResult(r, rep)]
      BY <2>1, <2>2, ConcludeFacts
    <2> QED BY <2>3, <1>2
  <1>6. ClaimOf(r) # None
    BY ConcludeFacts
  <1> QED BY <1>5, <1>6, RuledResultIsOwn DEF OwnRuling, OwnTier, ClaimOf, PolicyOf, IInv

\* However the runs interleave on the shared slot, a result without error is
\* the ruling on its own claim (fnol_agent.py, run_scenario).
THEOREM ResultsAreOwnRulings == Spec => []ResultIsOwnRuling
  <1> DEFINE Inv == \A r \in Runs : result[r] # None /\ result[r].error = None
                                       => OwnRuling(claimNumber[r], result[r])
  <1>1. Init => Inv
    BY DEF Init
  <1>2. IInv /\ Inv /\ [Next]_vars => Inv'
    <2> SUFFICES ASSUME IInv, Inv, [Next]_vars PROVE Inv'
      OBVIOUS
    <2>1. ASSUME NEW r \in Runs, RunStep(r), Conclude(r) PROVE Inv'
      <3>1. /\ claimNumber' = claimNumber
            /\ result' = result \/ \E res : result' = [result EXCEPT ![r] = res]
        BY <2>1, FnolAssumption, ConcludeFacts
      <3>2. \A s \in Runs \ {r} : result'[s] = result[s]
        BY <3>1 DEF IInv, TypeOK
      <3> QED BY <2>1, <3>1, <3>2, FnolAssumption, ConcludeIsOwnRuling
    <2>2. ASSUME NEW r \in Runs, RunStep(r), ~Conclude(r) PROVE Inv'
      <3>1. ErrorResult("claim not found", <<>>).error # None
        BY FnolAssumption, ErrorResultType DEF FnolAssumption, ErrorKind
      <3>2. claimNumber' = claimNumber /\ (\A s \in Runs : \/ result'[s] = result[s]
                                                          \/ result'[s].error # None)
        BY <2>2, <3>1, PlaceOfStep DEF IInv, TypeOK
      <3> QED BY <3>2
    <2>3. CASE UNCHANGED vars
      BY <2>3 DEF vars
    <2> QED BY <2>1, <2>2, <2>3 DEF Next
  <1>3. Inv => ResultIsOwnRuling
    BY DEF ResultIsOwnRuling, OwnRuling, OwnTier, ClaimOf, PolicyOf
  <1> QED BY <1>1, <1>2, <1>3, Inductive, PTL DEF Spec

\* However the runs interleave, what a result pays is paid on grounds of its
\* own claim and policy (fnol_agent.py with domain/calculations.py).  The proof
\* adds to IInv that a result without error is about a claim that exists.
THEOREM PaymentsOfResultsHaveGrounds == Spec => []PaidResultsHaveGrounds
  <1> DEFINE OfAClaim == \A r \in Runs : result[r] # None /\ result[r].error = None
                                            => ClaimOf(r) # None
  <1>1. Init => OfAClaim
    BY DEF Init
  <1>2. IInv /\ OfAClaim /\ [Next]_vars => OfAClaim'
    <2> SUFFICES ASSUME IInv, OfAClaim, [Next]_vars PROVE OfAClaim'
      OBVIOUS
    <2>1. ASSUME NEW r \in Runs, RunStep(r), Conclude(r) PROVE OfAClaim'
      <3>1. /\ pc[r] = "thinking" /\ claimNumber' = claimNumber
            /\ result' = result \/ \E res : result' = [result EXCEPT ![r] = res]
        BY <2>1, FnolAssumption, ConcludeFacts
      <3>2. ClaimOf(r) # None
        BY <3>1 DEF IInv, RunsAreOrderly
      <3>3. \A s \in Runs \ {r} : result'[s] = result[s]
        BY <3>1 DEF IInv, TypeOK
      <3> QED BY <3>1, <3>2, <3>3 DEF ClaimOf
    <2>2. ASSUME NEW r \in Runs, RunStep(r), ~Conclude(r) PROVE OfAClaim'
      <3>1. ErrorResult("claim not found", <<>>).error # None
        BY FnolAssumption, ErrorResultType DEF FnolAssumption, ErrorKind
      <3>2. claimNumber' = claimNumber /\ (\A s \in Runs : \/ result'[s] = result[s]
                                                          \/ result'[s].error # None)
        BY <2>2, <3>1, PlaceOfStep DEF IInv, TypeOK
      <3> QED BY <3>2 DEF ClaimOf
    <2>3. CASE UNCHANGED vars
      BY <2>3 DEF vars, ClaimOf
    <2> QED BY <2>1, <2>2, <2>3 DEF Next
  <1>3. IInv /\ OfAClaim /\ ResultIsOwnRuling => PaidResultsHaveGrounds
    <2> SUFFICES ASSUME IInv, OfAClaim, ResultIsOwnRuling,
                        NEW r \in Runs, result[r] # None, result[r].error = None,
                        result[r].payout > 0
                 PROVE  /\ result[r].decision = "approve"
                        /\ PolicyOf(r) # None /\ ClaimOf(r).damage # None
                        /\ \E kind \in CoverageType \ {"liability"} :
                              LET line == PolicyOf(r).coverages[kind]
                              IN  /\ line # None
                                  /\ kind = "collision" <=> ClaimOf(r).incident = "collision"
                                  /\ ClaimOf(r).incident # "other"
                                  /\ result[r].payout <= line.limit
                                  /\ result[r].payout + line.deductible <= ClaimOf(r).damage
                                  /\ \/ result[r].payout = line.limit
                                     \/ result[r].payout + line.deductible = ClaimOf(r).damage
      BY DEF PaidResultsHaveGrounds
    <2>1. /\ result[r].decision = "approve"
          /\ result[r].payout = DeterministicPayout(ClaimOf(r), PolicyOf(r))
      BY DEF ResultIsOwnRuling
    <2>2. ClaimOf(r) \in Claim /\ PolicyOf(r) \in Policy \cup {None}
      BY FnolAssumption DEF FnolAssumption, IInv, TypeOK, ClaimOf, PolicyOf
    <2> QED BY <2>1, <2>2, OwedHasGrounds
  <1> QED BY <1>1, <1>2, <1>3, Inductive, ResultsAreOwnRulings, PTL DEF Spec

\* Runs on one claim that decide alike pay alike and are of one tier
\* (fnol_agent.py, run_scenario).
THEOREM OutcomesFollowDecisions == Spec => []OneOutcomePerDecision
  <1>1. ResultIsOwnRuling => OneOutcomePerDecision
    BY DEF ResultIsOwnRuling, OneOutcomePerDecision, OwnTier, ClaimOf, PolicyOf
  <1> QED BY <1>1, ResultsAreOwnRulings, PTL

\* The flag a ruled answer earns, from the answer itself: the tier it named,
\* or the default in its place, against the tier of the claim.
Flagged(number, rep, res) ==
    LET named == IF rep.tier = None THEN DefaultTier ELSE rep.tier
    IN  "TIER_DISAGREEMENT" \in res.notes
            <=> named \in Tier /\ named # AssignTier(ClaimData[number], Thresholds)

\* The notes of a ruling flag the tier as the authority engine does
\* (fnol_agent.py, the notes; authority.py, tier_disagreement).
LEMMA RuledResultIsFlagged ==
    ASSUME FnolAssumption, NEW r \in Runs, NEW rep \in Reply
    PROVE  Flagged(claimNumber[r], rep, RuledResult(r, rep))
  <1> DEFINE req    == RequestFor(r, rep)
             ruling == Evaluate(Authority, Thresholds, req)
             named  == IF rep.tier = None THEN DefaultTier ELSE rep.tier
  <1>1. req.claim = ClaimData[claimNumber[r]] /\ req.tier = IF named \in Tier THEN named ELSE None
    BY DEF RequestFor, Normalize, ClaimOf, Reply
  <1>2. ruling.tierDisagreement
            = (req.tier # None /\ req.tier # AssignTier(req.claim, Thresholds))
    BY DEF Evaluate, AuthorityEvaluate
  <1>3. RuledResult(r, rep).notes = NotesOf(ruling)
    BY DEF RuledResult
  <1>4. "TIER_DISAGREEMENT" \in NotesOf(ruling) <=> ruling.tierDisagreement
    BY DEF NotesOf, Note
  <1> HIDE DEF req, ruling
  <1> QED BY <1>1, <1>2, <1>3, <1>4, NoneAssumption DEF NoneAssumption, Flagged

\* The end of a run that returns no error stores the answer it ruled on.
LEMMA ConcludeIsFlagged ==
    ASSUME FnolAssumption, IInv, NEW r \in Runs, Conclude(r),
           result'[r] # None, result'[r].error = None
    PROVE  Flagged(claimNumber[r], reply'[r], result'[r])
  <1>1. result[r] = None
    BY ConcludeFacts DEF IInv, RunsAreOrderly
  <1>2. /\ \A res : result' = [result EXCEPT ![r] = res] => result'[r] = res
        /\ \A rep : reply' = [reply EXCEPT ![r] = rep] => reply'[r] = rep
    BY DEF IInv, TypeOK
  <1>3. \A kind \in ErrorKind : ErrorResult(kind, <<>>).error # None
                             /\ ErrorResult(kind, ToolCallNames(r)).error # None
    BY FnolAssumption, ErrorResultType DEF FnolAssumption
  <1>4. ~AgentRaises(r)
    <2>1. "agent raised" \in ErrorKind
      BY DEF ErrorKind
    <2> QED BY <1>2, <1>3, <2>1 DEF AgentRaises
  <1>5. \A rep \in Replies : ~AnswerRaises(r, rep)
    BY <1>1 DEF AnswerRaises
  <1>6. PICK rep \in Replies : ModelReplies(r, rep)
    BY <1>4, <1>5 DEF Conclude
  <1>7. ReplyError(rep) = None
    <2>1. ReplyError(rep) \in ErrorKind \cup {None}
      BY DEF ReplyError, ErrorKind
    <2> QED BY <1>2, <1>3, <1>6, <2>1 DEF ModelReplies
  <1>8. reply'[r] = rep /\ result'[r] = RuledResult(r, rep) /\ rep \in Reply
    BY <1>2, <1>6, <1>7, FnolAssumption DEF ModelReplies, FnolAssumption
  <1> QED BY <1>8, RuledResultIsFlagged

\* A result is marked as disagreeing on the tier exactly when the tier the
\* model named, or the default for a silent one, is not the claim's
\* (response_normalizer.py with authority.py and fnol_agent.py).
THEOREM DisagreementIsFlaggedExactly == Spec => []DisagreementFlagIsExact
  <1> DEFINE Fair(r) == result[r] # None /\ result[r].error = None
                          => Flagged(claimNumber[r], reply[r], result[r])
             Inv == \A r \in Runs : Fair(r)
  <1>1. Init => Inv
    BY DEF Init
  <1>2. IInv /\ Inv /\ [Next]_vars => Inv'
    <2> SUFFICES ASSUME IInv, Inv, [Next]_vars, NEW s \in Runs PROVE Fair(s)'
      OBVIOUS
    <2>1. ASSUME NEW r \in Runs, RunStep(r), s # r PROVE Fair(s)'
      <3>1. CASE Conclude(r)
        <4>1. /\ claimNumber' = claimNumber
              /\ reply' = reply \/ \E rep : reply' = [reply EXCEPT ![r] = rep]
              /\ result' = result \/ \E res : result' = [result EXCEPT ![r] = res]
          BY <3>1, FnolAssumption, ConcludeFacts
        <4>2. reply'[s] = reply[s] /\ result'[s] = result[s]
          BY <4>1, <2>1 DEF IInv, TypeOK
        <4> QED BY <4>1, <4>2
      <3>2. CASE ~Conclude(r)
        <4>1. /\ claimNumber' = claimNumber /\ reply' = reply
              /\ result' = result \/ \E res : result' = [result EXCEPT ![r] = res]
          BY <2>1, <3>2, PlaceOfStep
        <4>2. result'[s] = result[s]
          BY <4>1, <2>1 DEF IInv, TypeOK
        <4> QED BY <4>1, <4>2
      <3> QED BY <3>1, <3>2
    <2>2. ASSUME RunStep(s), Conclude(s) PROVE Fair(s)'
      <3>1. claimNumber' = claimNumber
        BY <2>2, FnolAssumption, ConcludeFacts
      <3> QED BY <2>2, <3>1, FnolAssumption, ConcludeIsFlagged
    <2>3. ASSUME RunStep(s), ~Conclude(s) PROVE Fair(s)'
      <3>1. ErrorResult("claim not found", <<>>).error # None
        BY FnolAssumption, ErrorResultType DEF FnolAssumption, ErrorKind
      <3>2. /\ claimNumber' = claimNumber /\ reply' = reply
            /\ result'[s] = result[s] \/ result'[s].error # None
        BY <2>3, <3>1, PlaceOfStep DEF IInv, TypeOK
      <3> QED BY <3>2
    <2>4. CASE UNCHANGED vars
      BY <2>4 DEF vars
    <2> QED BY <2>1, <2>2, <2>3, <2>4 DEF Next
  <1>3. Inv => DisagreementFlagIsExact
    BY DEF DisagreementFlagIsExact, Flagged, OwnTier, ClaimOf
  <1> QED BY <1>1, <1>2, <1>3, Inductive, PTL DEF Spec

\* The result of a run that returned after an answer, one without error among
\* them, lists the calls the model made place by place.
Listed(r) == \/ reply[r] # None /\ pc[r] = "done"
             \/ result[r] # None /\ result[r].error = None
             => result[r].toolCalls = ToolCallNames(r)

LEMMA NamesStayListed == Spec => [](\A r \in Runs : Listed(r))
  <1> DEFINE Inv == \A r \in Runs : Listed(r)
  <1>1. Init => Inv
    BY DEF Init, Listed
  <1>2. IInv /\ Inv /\ [Next]_vars => Inv'
    <2> SUFFICES ASSUME IInv, Inv, [Next]_vars, NEW s \in Runs PROVE Listed(s)'
      OBVIOUS
    <2>1. ASSUME NEW r \in Runs, RunStep(r), s # r PROVE Listed(s)'
      <3>1. /\ calls'[s] = calls[s] /\ pc'[s] = pc[s]
            /\ reply'[s] = reply[s] /\ result'[s] = result[s]
        <4>1. CASE Conclude(r)
          <5>1. /\ calls' = calls
                /\ \E end : pc' = [pc EXCEPT ![r] = end]
                /\ reply' = reply \/ \E rep : reply' = [reply EXCEPT ![r] = rep]
                /\ result' = result \/ \E res : result' = [result EXCEPT ![r] = res]
            BY <4>1, FnolAssumption, ConcludeFacts
          <5> QED BY <5>1, <2>1 DEF IInv, TypeOK
        <4>2. CASE ~Conclude(r)
          BY <2>1, <4>2, PlaceOfStep DEF IInv, TypeOK
        <4> QED BY <4>1, <4>2
      <3> QED BY <3>1 DEF ToolCallNames, Listed
    <2>2. ASSUME RunStep(s), Conclude(s) PROVE Listed(s)'
      <3>1. calls' = calls /\ reply[s] = None /\ result[s] = None
        BY <2>2, FnolAssumption, ConcludeFacts DEF IInv, RunsAreOrderly
      <3>2. \/ pc' = [pc EXCEPT ![s] = "raised"] /\ result' = result
            \/ /\ reply' = reply
               /\ result' = [result EXCEPT ![s] = ErrorResult("agent raised", <<>>)]
            \/ \E kind \in ErrorKind :
                   result' = [result EXCEPT ![s] = ErrorResult(kind, ToolCallNames(s))]
            \/ \E rep \in Reply : /\ ReplyError(rep) = None /\ ~ReplyRaises(rep)
                                  /\ result' = [result EXCEPT ![s] = RuledResult(s, rep)]
        BY <2>2, FnolAssumption, ConcludeFacts
      <3>3. /\ \A kind : ErrorResult(kind, ToolCallNames(s)).toolCalls = ToolCallNames(s)
            /\ \A rep : RuledResult(s, rep).toolCalls = ToolCallNames(s)
            /\ ErrorResult("agent raised", <<>>).error # None
        BY FnolAssumption DEF FnolAssumption, ErrorResult, RuledResult, ErrorKind
      <3>4. \/ pc'[s] = "raised" /\ result'[s] = None
            \/ reply'[s] = None /\ result'[s].error # None
            \/ result'[s].toolCalls = ToolCallNames(s)
        BY <3>1, <3>2, <3>3 DEF IInv, TypeOK
      <3> QED BY <3>1, <3>4 DEF ToolCallNames, Listed
    <2>3. ASSUME RunStep(s), ~Conclude(s) PROVE Listed(s)'
      <3>1. /\ reply'[s] = None
            /\ result'[s] = None \/ result'[s] = ErrorResult("claim not found", <<>>)
        BY <2>3, PlaceOfStep DEF IInv, TypeOK, RunsAreOrderly
      <3>2. ErrorResult("claim not found", <<>>).error # None
        BY FnolAssumption DEF FnolAssumption, ErrorResult, ErrorKind
      <3> QED BY <3>1, <3>2 DEF Listed
    <2>4. CASE UNCHANGED vars
      BY <2>4 DEF vars, ToolCallNames, Listed
    <2> QED BY <2>1, <2>2, <2>3, <2>4 DEF Next
  <1> QED BY <1>1, <1>2, Inductive, PTL DEF Spec

\* A run that returned after an answer lists every call the model made, ran
\* or not (tool_call_extractor.py with fnol_agent.py).
THEOREM AnswersListEveryCall == Spec => []AnsweredRunsReportEveryCall
  <1>1. (\A r \in Runs : Listed(r)) => AnsweredRunsReportEveryCall
    <2> SUFFICES ASSUME \A r \in Runs : Listed(r), NEW r \in Runs, reply[r] # None, pc[r] = "done",
                        NEW i \in DOMAIN calls[r]
                 PROVE  \E j \in DOMAIN result[r].toolCalls :
                            result[r].toolCalls[j] = calls[r][i].tool
      BY DEF AnsweredRunsReportEveryCall
    <2>1. result[r].toolCalls = [k \in DOMAIN calls[r] |-> calls[r][k].tool]
      BY DEF ToolCallNames, Listed
    <2> QED BY <2>1
  <1> QED BY <1>1, NamesStayListed, PTL

\* A run that has returned returned a result, and an error carries neither
\* decision nor tier.
ReturnsResult(place, res) == /\ place = "done" => res # None
                             /\ res # None /\ res.error # None
                                    => res.decision = None /\ res.tier = None

\* Every return of run_scenario is a ruling or an error that rules nothing
\* (fnol_agent.py, the six returns).
LEMMA RunsReturnResults == Spec => [](\A r \in Runs : ReturnsResult(pc[r], result[r]))
  <1> DEFINE Inv == \A r \in Runs : ReturnsResult(pc[r], result[r])
  <1>1. Init => Inv
    BY DEF Init, ReturnsResult
  <1>2. \A kind, names : /\ ErrorResult(kind, names).decision = None
                         /\ ErrorResult(kind, names).tier = None
    BY DEF ErrorResult
  <1>3. IInv /\ Inv /\ [Next]_vars => Inv'
    <2> SUFFICES ASSUME IInv, Inv, [Next]_vars PROVE Inv'
      OBVIOUS
    <2>1. ASSUME NEW r \in Runs, RunStep(r), Conclude(r) PROVE Inv'
      <3>1. /\ \E end : pc' = [pc EXCEPT ![r] = end]
            /\ result' = result \/ \E res : result' = [result EXCEPT ![r] = res]
        BY <2>1, FnolAssumption, ConcludeFacts
      <3>2. \A s \in Runs \ {r} : pc'[s] = pc[s] /\ result'[s] = result[s]
        BY <3>1 DEF IInv, TypeOK
      <3>3. \/ result' = result
            \/ result' = [result EXCEPT ![r] = ErrorResult("agent raised", <<>>)]
            \/ \E kind \in ErrorKind :
                   result' = [result EXCEPT ![r] = ErrorResult(kind, ToolCallNames(r))]
            \/ \E rep \in Reply : result' = [result EXCEPT ![r] = RuledResult(r, rep)]
        BY <2>1, FnolAssumption, ConcludeFacts
      <3>6. \/ result'[r] = result[r]
            \/ result'[r] = ErrorResult("agent raised", <<>>)
            \/ \E kind : result'[r] = ErrorResult(kind, ToolCallNames(r))
            \/ \E rep : result'[r] = RuledResult(r, rep)
        BY <3>3 DEF IInv, TypeOK
      <3>4. \A rep : RuledResult(r, rep).error = None
        BY DEF RuledResult
      <3>5. result[r] = None /\ pc'[r] \in {"done", "raised"}
            /\ (pc'[r] # "raised" => result'[r] # None)
        BY <2>1, FnolAssumption, ConcludeFacts, AfterTheAwait DEF IInv, TypeOK, RunsAreOrderly
      <3>7. result'[r] # None /\ result'[r].error # None
                => result'[r].decision = None /\ result'[r].tier = None
        BY <1>2, <3>4, <3>5, <3>6
      <3>8. ReturnsResult(pc'[r], result'[r])
        BY <3>5, <3>7 DEF ReturnsResult
      <3> QED BY <3>2, <3>8
    <2>2. ASSUME NEW r \in Runs, RunStep(r), ~Conclude(r) PROVE Inv'
      <3>1. ErrorResult("claim not found", <<>>) # None
        BY FnolAssumption, ErrorResultType DEF FnolAssumption, ErrorKind
      <3>2. \A s \in Runs : \/ result'[s] = result[s] /\ pc'[s] \in {pc[s], "thinking", "raised"}
                           \/ result'[s] = ErrorResult("claim not found", <<>>)
        BY <2>2, PlaceOfStep DEF IInv, TypeOK
      <3> QED BY <1>2, <3>1, <3>2 DEF ReturnsResult
    <2>3. CASE UNCHANGED vars
      BY <2>3 DEF vars
    <2> QED BY <2>1, <2>2, <2>3 DEF Next
  <1> QED BY <1>1, <1>3, Inductive, PTL DEF Spec
-----------------------------------------------------------------------------
\* The abstract specification rules by the same domain operators.
LEMMA SameRules ==
    ASSUME NEW claim, NEW policy
    PROVE  /\ Abstract!AssignTier(claim, Thresholds) = AssignTier(claim, Thresholds)
           /\ Abstract!DeterministicPayout(claim, policy) = DeterministicPayout(claim, policy)
  <1>1. Abstract!CoverageKind(claim.incident) = CoverageKind(claim.incident)
    BY DEF CoverageKind, Abstract!CoverageKind
  <1>2. Abstract!CoverageApplies(claim, policy) = CoverageApplies(claim, policy)
    BY <1>1 DEF CoverageApplies, Abstract!CoverageApplies
  <1>3. \A coverage : Abstract!CalculatePayout(claim.damage, coverage)
                          = CalculatePayout(claim.damage, coverage)
    BY DEF CalculatePayout, Abstract!CalculatePayout
  <1>4. Abstract!AssignTier(claim, Thresholds) = AssignTier(claim, Thresholds)
    BY DEF AssignTier, Abstract!AssignTier, DamageTier, Abstract!DamageTier,
           Escalation, Abstract!Escalation
  <1>5. Abstract!DeterministicPayout(claim, policy) = DeterministicPayout(claim, policy)
    BY <1>2, <1>3 DEF DeterministicPayout, Abstract!DeterministicPayout
  <1> QED BY <1>4, <1>5

\* The end of a run settles its verdict, once, on an error or on a permitted
\* ruling.
LEMMA ConcludeSettles ==
    ASSUME FnolAssumption, IInv, NEW r \in Runs, Conclude(r)
    PROVE  /\ VerdictOf(r) = Abstract!Pending
           /\ VerdictOf(r)' \in {Abstract!Failed} \cup Abstract!Permitted(claimNumber[r])
           /\ \A s \in Runs \ {r} : VerdictOf(s)' = VerdictOf(s)
  <1>1. pc[r] = "thinking" /\ result[r] = None
    BY ConcludeFacts DEF IInv, RunsAreOrderly
  <1>2. VerdictOf(r) = Abstract!Pending
    BY <1>1 DEF VerdictOf, Abstract!Pending
  <1>3. \A s \in Runs \ {r} : pc'[s] = pc[s] /\ result'[s] = result[s]
    <2>1. /\ \E end : pc' = [pc EXCEPT ![r] = end]
          /\ result' = result \/ \E res : result' = [result EXCEPT ![r] = res]
      BY ConcludeFacts
    <2> QED BY <2>1 DEF IInv, TypeOK
  <1>4. VerdictOf(r)' \in {Abstract!Failed} \cup Abstract!Permitted(claimNumber[r])
    <2>1. CASE pc'[r] = "raised" \/ result'[r].error # None
      BY <2>1, AfterTheAwait DEF VerdictOf, Abstract!Failed
    <2>2. CASE pc'[r] # "raised" /\ result'[r].error = None
      <3> DEFINE res  == result'[r]
                 claim == ClaimData[claimNumber[r]]
                 tier == AssignTier(claim, Thresholds)
                 owed == DeterministicPayout(claim, PolicyOnFile[claimNumber[r]])
                 rule == Authority[tier]
                 Verdict(d) == Abstract!Verdict(tier, d, IF d = "approve" THEN owed ELSE 0)
      <3>1. res # None /\ OwnRuling(claimNumber[r], res)
        BY <2>2, AfterTheAwait, ConcludeIsOwnRuling
      <3>2. VerdictOf(r)' = Abstract!Verdict(res.tier, res.decision, res.payout)
        BY <2>2, <3>1 DEF VerdictOf, Abstract!Verdict
      <3>3. ClaimData[claimNumber[r]] # None
        BY ConcludeFacts DEF ClaimOf
      <3>4. Abstract!Permitted(claimNumber[r])
              = {Verdict(d) : d \in rule.allowed \cup {rule.onDisallowed}}
        BY <3>3, SameRules DEF Abstract!Permitted
      <3>5. /\ VerdictOf(r)' = Verdict(res.decision)
            /\ res.decision \in rule.allowed \cup {rule.onDisallowed}
        BY <3>1, <3>2 DEF OwnRuling
      <3> HIDE DEF res, Verdict
      <3> QED BY <3>4, <3>5
    <2> QED BY <2>1, <2>2
  <1> QED BY <1>2, <1>3, <1>4 DEF VerdictOf

\* A start or a tool call settles nothing; an unknown claim and an unreadable
\* claims file fail at once.
LEMMA OtherStepsSettle ==
    ASSUME FnolAssumption, IInv, NEW r \in Runs, RunStep(r), ~Conclude(r)
    PROVE  /\ claimNumber' = claimNumber
           /\ \A s \in Runs \ {r} : VerdictOf(s)' = VerdictOf(s)
           /\ \/ VerdictOf(r)' = VerdictOf(r)
              \/ VerdictOf(r) = Abstract!Pending /\ VerdictOf(r)' = Abstract!Failed
  <1>1. pc[r] \in {"idle", "thinking"} /\ result[r] = None
    BY PlaceOfStep DEF IInv, RunsAreOrderly
  <1>2. /\ claimNumber' = claimNumber
        /\ \A s \in Runs \ {r} : pc'[s] = pc[s] /\ result'[s] = result[s]
        /\ \/ pc'[r] \in {"idle", "thinking", "raised"} /\ result'[r] = None
           \/ result'[r] = ErrorResult("claim not found", <<>>)
    BY <1>1, PlaceOfStep DEF IInv, TypeOK
  <1>3. LET res == ErrorResult("claim not found", <<>>) IN res # None /\ res.error # None
    BY FnolAssumption, ErrorResultType DEF FnolAssumption, ErrorKind
  <1> QED BY <1>1, <1>2, <1>3 DEF VerdictOf, Abstract!Pending, Abstract!Failed

\* The agent implements Adjudication: with the tool calls, the shared slot and
\* the model's answers hidden, each run settles once and on a permitted verdict.
THEOREM AgentImplementsAdjudication == Spec => ImplementsAdjudication
  <1>1. Init => Abstract!Init
    <2> SUFFICES ASSUME Init PROVE Abstract!Init
      OBVIOUS
    <2>1. \A r \in Runs : VerdictOf(r) = Abstract!Pending
      BY DEF Init, VerdictOf, Abstract!Pending
    <2> QED BY <2>1 DEF Init, Abstract!Init
  <1>2. IInv /\ [Next]_vars => [Abstract!Next]_Abstract!vars
    <2> SUFFICES ASSUME IInv, [Next]_vars PROVE [Abstract!Next]_Abstract!vars
      OBVIOUS
    <2> DEFINE verdict == [r \in Runs |-> VerdictOf(r)]
    <2>1. ASSUME NEW r \in Runs, claimNumber' = claimNumber,
                 \A s \in Runs \ {r} : VerdictOf(s)' = VerdictOf(s),
                 VerdictOf(r) = Abstract!Pending,
                 VerdictOf(r)' \in {Abstract!Failed} \cup Abstract!Permitted(claimNumber[r])
          PROVE  Abstract!Next
      <3>1. verdict[r] = Abstract!Pending
        BY <2>1
      <3>2. verdict' = [verdict EXCEPT ![r] = VerdictOf(r)']
        BY <2>1
      <3> QED BY <2>1, <3>1, <3>2 DEF Abstract!Next, Abstract!Settle
    <2>2. ASSUME claimNumber' = claimNumber, \A s \in Runs : VerdictOf(s)' = VerdictOf(s)
          PROVE  UNCHANGED Abstract!vars
      BY <2>2 DEF Abstract!vars
    <2>3. ASSUME NEW r \in Runs, RunStep(r) PROVE [Abstract!Next]_Abstract!vars
      <3>1. CASE Conclude(r)
        <4>1. claimNumber' = claimNumber
          BY <3>1, FnolAssumption, ConcludeFacts
        <4> QED BY <2>1, <3>1, <4>1, FnolAssumption, ConcludeSettles
      <3>2. CASE ~Conclude(r)
        <4>1. CASE VerdictOf(r)' = VerdictOf(r)
          BY <2>2, <2>3, <3>2, <4>1, FnolAssumption, OtherStepsSettle
        <4>2. CASE VerdictOf(r)' # VerdictOf(r)
          BY <2>1, <2>3, <3>2, <4>2, FnolAssumption, OtherStepsSettle
        <4> QED BY <4>1, <4>2
      <3> QED BY <3>1, <3>2
    <2>4. CASE UNCHANGED vars
      BY <2>2, <2>4 DEF vars, VerdictOf
    <2> QED BY <2>3, <2>4 DEF Next
  <1> QED BY <1>1, <1>2, Inductive, PTL DEF Spec, ImplementsAdjudication, Abstract!Spec
=============================================================================
