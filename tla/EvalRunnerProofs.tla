-------------------------- MODULE EvalRunnerProofs --------------------------
(***************************************************************************)
(* Why the sequential runner makes the shared tier slot safe, for every    *)
(* number of scenarios, every allowlist and every model: first for         *)
(* EvalRunner, then for PaidEvaluation, which adds the payment tool.       *)
(***************************************************************************)
EXTENDS PaidEvaluation, FnolAgentProofs, FiniteSetTheorems

\* The runner never gets past the end of its list.
Progress == outcomes \in Seq(ScenarioOutcome) /\ Len(outcomes) <= Len(ScenarioOrder)

RunnerInv == IInv /\ Progress

\* What is assumed of the list of scenarios, in the form the proofs use.
LEMMA CurrentIsRun ==
    ASSUME Progress, Driving
    PROVE  /\ Current \in Runs
           /\ Len(outcomes) + 1 \in DOMAIN ScenarioOrder
           /\ Len(ScenarioOrder) \in Nat /\ Len(outcomes) \in Nat
  <1>1. Len(ScenarioOrder) \in Nat /\ Len(outcomes) \in Nat
    BY RunnerAssumption DEF RunnerAssumption, Progress
  <1>2. Len(outcomes) + 1 \in DOMAIN ScenarioOrder
    BY <1>1, RunnerAssumption DEF RunnerAssumption, Driving
  <1> QED BY <1>1, <1>2, RunnerAssumption DEF RunnerAssumption, Current

\* Each outcome is of the scenario at its place in the list.
LEMMA OutcomesAreOfRuns ==
    ASSUME Progress, NEW k \in DOMAIN outcomes
    PROVE  k \in DOMAIN ScenarioOrder /\ ScenarioOrder[k] \in Runs
  <1>1. Len(ScenarioOrder) \in Nat /\ Len(outcomes) \in Nat /\ k \in 1..Len(outcomes)
    BY RunnerAssumption DEF RunnerAssumption, Progress
  <1>2. k \in DOMAIN ScenarioOrder
    BY <1>1, RunnerAssumption DEF RunnerAssumption, Progress
  <1> QED BY <1>2, RunnerAssumption DEF RunnerAssumption

\* The score of a scenario is a ScenarioOutcome (metrics.py).
LEMMA EvaluateScenarioType ==
    ASSUME NEW r \in Runs, NEW res \in AgentRunResult
    PROVE  EvaluateScenario(r, res) \in ScenarioOutcome
  <1> DEFINE e          == Expect[r]
             called     == {res.toolCalls[i] : i \in DOMAIN res.toolCalls}
             decision   == res.decision = e.decision
             tier       == res.tier = e.tier
             violations == e.mustNotCall \cap called
             missing    == e.mustCall \ called
             inRange    == IF e.payoutRange = None THEN None
                           ELSE /\ res.payout # None
                                /\ e.payoutRange.min <= res.payout
                                /\ res.payout <= e.payoutRange.max
             failed     == res.error # None
  <1>1. EvaluateScenario(r, res) = [scenario        |-> r,
                                    decisionCorrect |-> decision,
                                    tierCorrect     |-> tier,
                                    violations      |-> violations,
                                    missing         |-> missing,
                                    payoutInRange   |-> inRange,
                                    errorOccurred   |-> failed]
    BY DEF EvaluateScenario
  <1>2. decision \in BOOLEAN /\ tier \in BOOLEAN /\ failed \in BOOLEAN
    OBVIOUS
  <1>3. inRange \in BOOLEAN \cup {None}
    OBVIOUS
  <1>4. violations \in SUBSET ToolNames /\ missing \in SUBSET ToolNames
    <2>1. e \in Expectation
      BY RunnerAssumption DEF RunnerAssumption
    <2>2. e.mustCall \subseteq ToolNames /\ e.mustNotCall \subseteq ToolNames
      BY <2>1 DEF Expectation
    <2> HIDE DEF called, e
    <2> QED BY <2>2
  <1> HIDE DEF decision, tier, violations, missing, inRange, failed
  <1> QED BY <1>1, <1>2, <1>3, <1>4 DEF ScenarioOutcome

\* What is scored is an AgentRunResult, even when run_scenario raised
\* (runner.py, run_evaluation).
LEMMA RunResultType ==
    ASSUME IInv, NEW r \in Runs
    PROVE  RunResult(r) \in AgentRunResult
  <1>1. ErrorResult("agent raised", <<>>) \in AgentRunResult
    BY ErrorResultType DEF ErrorKind
  <1> QED BY <1>1 DEF RunResult, IInv, TypeOK

\* Every step of the runner is a step of the agent or changes nothing of it.
LEMMA RunnerStepsAreAgentSteps ==
    ASSUME Progress, RunnerNext
    PROVE  /\ [Next]_vars
           /\ \/ UNCHANGED runnerVars
              \/ ScoreScenario
              \/ Report
  <1>1. CASE BeginScenario
    BY <1>1, CurrentIsRun DEF BeginScenario, Next, RunStep
  <1>2. CASE ScoreScenario \/ Report
    BY <1>2 DEF ScoreScenario, Report
  <1>3. ASSUME NEW r \in Runs, ModelAsks(r) \/ ToolRuns(r) \/ EndScenario(r)
        PROVE  [Next]_vars /\ UNCHANGED runnerVars
    BY <1>3 DEF ModelAsks, ToolRuns, EndScenario, Next, RunStep
  <1> QED BY <1>1, <1>2, <1>3 DEF RunnerNext

\* The rates of a report are counts (metrics.py, aggregate).
LEMMA AggregateType ==
    ASSUME Progress
    PROVE  Aggregate \in EvalReport
  <1>1. Len(outcomes) \in Nat /\ DOMAIN outcomes = 1..Len(outcomes)
    BY DEF Progress
  <1>2. IsFiniteSet(1..Len(outcomes))
    BY <1>1, FS_Interval
  <1>3. \A S : S \subseteq DOMAIN outcomes => Cardinality(S) \in Nat
    BY <1>1, <1>2, FS_Subset, FS_CardinalityType
  <1>4. /\ Cardinality({i \in DOMAIN outcomes : outcomes[i].decisionCorrect}) \in Nat
        /\ Cardinality({i \in DOMAIN outcomes : outcomes[i].tierCorrect}) \in Nat
        /\ Cardinality({i \in DOMAIN outcomes : outcomes[i].violations = {}}) \in Nat
        /\ Cardinality({i \in DOMAIN outcomes : outcomes[i].errorOccurred}) \in Nat
    BY <1>3
  <1> QED BY <1>1, <1>4 DEF Aggregate, EvalReport

\* Under the runner, too, the agent's state is well-typed and orderly, and the
\* runner stays within its list.
LEMMA RunnerInductive == RunnerSpec => []RunnerInv
  <1>1. RunnerInit => RunnerInv
    <2> SUFFICES ASSUME RunnerInit PROVE RunnerInv
      OBVIOUS
    <2>1. IInv
      BY InitIsOrderly DEF RunnerInit
    <2>2. Progress /\ report = None
      <3>1. << >> \in Seq(ScenarioOutcome) /\ Len(<< >>) = 0
        OBVIOUS
      <3>2. Len(ScenarioOrder) \in Nat
        BY RunnerAssumption DEF RunnerAssumption
      <3> QED BY <3>1, <3>2 DEF RunnerInit, Progress
    <2> QED BY <2>1, <2>2 DEF RunnerInv
  <1>2. RunnerInv /\ [RunnerNext]_allVars => RunnerInv'
    <2> SUFFICES ASSUME RunnerInv, [RunnerNext]_allVars PROVE RunnerInv'
      OBVIOUS
    <2>1. CASE UNCHANGED allVars
      <3>1. UNCHANGED vars /\ UNCHANGED runnerVars
        BY <2>1 DEF allVars, vars, runnerVars
      <3>2. IInv'
        BY <3>1, StepsAreOrderly DEF RunnerInv
      <3> QED BY <3>1, <3>2 DEF RunnerInv, Progress, runnerVars
    <2>2. CASE RunnerNext
      <3>1. [Next]_vars
        BY <2>2, RunnerStepsAreAgentSteps DEF RunnerInv
      <3>2. IInv'
        BY <3>1, StepsAreOrderly DEF RunnerInv
      <3>3. CASE UNCHANGED runnerVars
        BY <3>2, <3>3 DEF runnerVars, RunnerInv, Progress
      <3>4. CASE ScoreScenario
        <4>1. EvaluateScenario(Current, RunResult(Current)) \in ScenarioOutcome
          BY <3>4, CurrentIsRun, RunResultType, EvaluateScenarioType
          DEF ScoreScenario, RunnerInv
        <4>2. Len(ScenarioOrder) \in Nat
          BY RunnerAssumption DEF RunnerAssumption
        <4> QED BY <3>2, <3>4, <4>1, <4>2 DEF ScoreScenario, Driving, RunnerInv, Progress
      <3>5. CASE Report
        BY <3>2, <3>5, AggregateType DEF Report, RunnerInv, Progress
      <3> QED BY <2>2, <3>3, <3>4, <3>5, RunnerStepsAreAgentSteps DEF RunnerInv
    <2> QED BY <2>1, <2>2
  <1> QED BY <1>1, <1>2, PTL DEF RunnerSpec

\* An evaluation is one behaviour of the agent: what is proved of Spec holds
\* of every evaluation.
LEMMA RunnerDrivesTheAgent == RunnerSpec => Spec
  <1>1. RunnerInit => Init
    BY DEF RunnerInit
  <1>2. RunnerInv /\ [RunnerNext]_allVars => [Next]_vars
    BY RunnerStepsAreAgentSteps DEF RunnerInv, allVars, vars
  <1> QED BY <1>1, <1>2, RunnerInductive, PTL DEF RunnerSpec, Spec

\* Type correctness of the evaluation (EvalRunner!RunnerTypeOK).
THEOREM RunnerTypeCorrect == RunnerSpec => []RunnerTypeOK
  <1> DEFINE ReportTyped == report \in EvalReport \cup {None}
  <1>1. RunnerInit => ReportTyped
    BY DEF RunnerInit
  <1>2. RunnerInv /\ ReportTyped /\ [RunnerNext]_allVars => ReportTyped'
    BY RunnerStepsAreAgentSteps, AggregateType
    DEF RunnerInv, allVars, runnerVars, ScoreScenario, Report
  <1>3. RunnerInv /\ ReportTyped => RunnerTypeOK
    BY DEF RunnerInv, IInv, Progress, RunnerTypeOK
  <1> HIDE DEF ReportTyped
  <1> QED BY <1>1, <1>2, <1>3, RunnerInductive, PTL DEF RunnerSpec

\* The slot holds the tier of the one scenario under way, the one the runner
\* awaits (EvalRunner!SlotIsCurrentTier).
THEOREM SlotHoldsTheCurrentTier == RunnerSpec => []SlotIsCurrentTier
  <1>1. RunnerInit => SlotIsCurrentTier
    BY DEF RunnerInit, Init, SlotIsCurrentTier
  <1>2. RunnerInv /\ SlotIsCurrentTier /\ [RunnerNext]_allVars => SlotIsCurrentTier'
    <2> SUFFICES ASSUME RunnerInv, SlotIsCurrentTier, [RunnerNext]_allVars
                 PROVE  SlotIsCurrentTier'
      OBVIOUS
    <2>1. CASE BeginScenario
      <3>1. Current \in Runs /\ Driving /\ pc[Current] = "idle"
        BY <2>1, CurrentIsRun DEF BeginScenario, RunnerInv, ClaimNotFound, ClaimsUnreadable, Start
      <3>2. \A r \in Runs : pc[r] # "thinking"
        BY <3>1 DEF SlotIsCurrentTier
      <3>3. UNCHANGED <<outcomes, claimNumber>>
        BY <2>1 DEF BeginScenario, runnerVars, ClaimNotFound, ClaimsUnreadable, Start
      <3>4. \A r \in Runs : pc'[r] = "thinking" => r = Current /\ Start(Current)
        BY <2>1, <3>1, <3>2 DEF BeginScenario, ClaimNotFound, ClaimsUnreadable, Start, RunnerInv, IInv, TypeOK
      <3> QED BY <3>1, <3>3, <3>4
          DEF SlotIsCurrentTier, Start, Driving, Current, OwnTier, ClaimOf
    <2>2. ASSUME NEW r \in Runs, ModelAsks(r) \/ ToolRuns(r) PROVE SlotIsCurrentTier'
      <3>1. UNCHANGED <<currentTier, claimNumber, pc, outcomes>>
        BY <2>2 DEF ModelAsks, ToolRuns, ToolStep, RequestTool, GateTool, InvokeTool, runnerVars
      <3> QED BY <3>1 DEF SlotIsCurrentTier, Driving, Current, OwnTier, ClaimOf
    <2>3. ASSUME NEW r \in Runs, EndScenario(r) PROVE SlotIsCurrentTier'
      <3>1. pc[r] = "thinking" /\ (\E end \in {"done", "raised"} : pc' = [pc EXCEPT ![r] = end])
        BY <2>3, FnolAssumption, ConcludeFacts DEF EndScenario, RunnerInv
      <3>2. \A s \in Runs : pc'[s] # "thinking"
        BY <3>1 DEF SlotIsCurrentTier, RunnerInv, IInv, TypeOK
      <3> QED BY <3>2 DEF SlotIsCurrentTier
    <2>4. CASE ScoreScenario
      <3>1. pc' = pc /\ pc[Current] # "thinking"
        BY <2>4 DEF ScoreScenario, vars, AwaitOver, Settled
      <3> QED BY <3>1 DEF SlotIsCurrentTier
    <2>5. CASE Report \/ UNCHANGED allVars
      <3>1. UNCHANGED <<currentTier, claimNumber, pc, outcomes>>
        BY <2>5 DEF Report, vars, allVars
      <3> QED BY <3>1 DEF SlotIsCurrentTier, Driving, Current, OwnTier, ClaimOf
    <2> QED BY <2>1, <2>2, <2>3, <2>4, <2>5 DEF RunnerNext
  <1> QED BY <1>1, <1>2, RunnerInductive, PTL DEF RunnerSpec

\* In a sequential evaluation no tool runs on a claim whose own tier forbids
\* it: when the gate reads the shared slot, the slot holds the tier of the
\* run that asks (tool_gate.py, _wrapper, under runner.py).
THEOREM GateUsesOwnTier == RunnerSpec => []ToolsRespectOwnTier
  <1> DEFINE Clean(r) == \A i \in DOMAIN calls[r] :
                             calls[r][i].status \in {"allowed", "executed"}
                                => MayCall(r, calls[r][i].tool)
  <1>1. RunnerInit => ToolsRespectOwnTier
    BY DEF RunnerInit, Init, ToolsRespectOwnTier
  <1>2. /\ RunnerInv /\ SlotIsCurrentTier /\ ToolsRespectOwnTier
        /\ [RunnerNext]_allVars
        => ToolsRespectOwnTier'
    <2> SUFFICES ASSUME RunnerInv, SlotIsCurrentTier, ToolsRespectOwnTier,
                        [RunnerNext]_allVars, NEW s \in Runs
                 PROVE  Clean(s)'
      BY DEF ToolsRespectOwnTier
    <2>1. Clean(s)
      BY DEF ToolsRespectOwnTier
    <2>2. ASSUME claimNumber' = claimNumber, calls'[s] = calls[s] PROVE Clean(s)'
      BY <2>1, <2>2 DEF MayCall, OwnTier, ClaimOf
    <2>3. CASE BeginScenario \/ ScoreScenario \/ Report \/ UNCHANGED allVars
      BY <2>2, <2>3 DEF BeginScenario, ClaimNotFound, ClaimsUnreadable, Start, ScoreScenario, Report, vars, allVars
    <2>4. ASSUME NEW r \in Runs, EndScenario(r) PROVE Clean(s)'
      BY <2>2, <2>4, FnolAssumption, ConcludeFacts DEF EndScenario, RunnerInv
    <2>5. ASSUME NEW r \in Runs, NEW tool \in ToolNames, RequestTool(r, tool) PROVE Clean(s)'
      <3> DEFINE call == [tool |-> tool,
                          status |-> IF tool \in RegisteredTools THEN "requested" ELSE "unknown"]
      <3>1. claimNumber' = claimNumber /\ calls' = [calls EXCEPT ![r] = Append(@, call)]
        BY <2>5 DEF RequestTool
      <3>2. CASE r # s
        BY <2>2, <3>1, <3>2 DEF RunnerInv, IInv, TypeOK
      <3>3. CASE r = s
        <4>1. calls[s] \in Seq(Call) /\ calls'[s] = Append(calls[s], call)
          BY <3>1, <3>3 DEF RunnerInv, IInv, TypeOK, Call
        <4>2. call \in Call /\ call.status \notin {"allowed", "executed"}
          BY DEF Call, CallStatus
        <4>3. \A i \in DOMAIN calls'[s] : \/ i \in DOMAIN calls[s] /\ calls'[s][i] = calls[s][i]
                                          \/ calls'[s][i] = call
          BY <4>1, <4>2
        <4> QED BY <2>1, <3>1, <4>2, <4>3 DEF MayCall, OwnTier, ClaimOf
      <3> QED BY <3>2, <3>3
    <2>6. ASSUME NEW r \in Runs, NEW i \in DOMAIN calls[r], GateTool(r, i) \/ InvokeTool(r, i)
          PROVE  Clean(s)'
      <3>1. PICK status \in CallStatus :
                /\ calls' = [calls EXCEPT ![r][i].status = status]
                /\ UNCHANGED <<currentTier, claimNumber, pc, reply, result>>
        BY <2>6, ToolStepChanges DEF RunnerInv, IInv
      <3>2. /\ Len(calls'[r]) = Len(calls[r])
            /\ calls'[r][i] = [calls[r][i] EXCEPT !.status = status]
            /\ \A j \in DOMAIN calls[r] \ {i} : calls'[r][j] = calls[r][j]
            /\ \A q \in Runs \ {r} : calls'[q] = calls[q]
        BY <3>1, StatusChange DEF RunnerInv, IInv, TypeOK, Call
      <3>3. CASE r # s
        BY <2>2, <3>1, <3>2, <3>3
      <3>4. CASE r = s
        <4>1. DOMAIN calls'[s] = DOMAIN calls[s]
          BY <3>1, <3>2, <3>4, StatusChange DEF RunnerInv, IInv, TypeOK, Call
        <4>2. calls'[s][i].tool = calls[s][i].tool /\ calls'[s][i].status = status
          <5>1. \A c \in Call : LET d == [c EXCEPT !.status = status]
                               IN  d.tool = c.tool /\ d.status = status
            BY DEF Call
          <5>2. calls[s] \in Seq(Call) /\ i \in DOMAIN calls[s]
            BY <3>4 DEF RunnerInv, IInv, TypeOK, Call
          <5>3. calls[s][i] \in Call
            BY <5>2
          <5> QED BY <3>2, <3>4, <5>1, <5>3
        <4>3. status \in {"allowed", "executed"} => MayCall(s, calls[s][i].tool)
          <5>1. CASE GateTool(r, i)
            <6>1. status = GateOutcome(calls[s][i].tool, currentTier)
              BY <3>2, <3>4, <4>2, <5>1 DEF GateTool, RunnerInv, IInv, TypeOK
            <6>2. currentTier = OwnTier(s)
              BY <3>4, <5>1 DEF GateTool, SlotIsCurrentTier
            <6> QED BY <6>1, <6>2 DEF GateOutcome, MayCall
          <5>2. CASE InvokeTool(r, i)
            BY <2>1, <3>4, <5>2 DEF InvokeTool
          <5> QED BY <2>6, <5>1, <5>2
        <4>4. \A j \in DOMAIN calls[s] : calls'[s][j].status \in {"allowed", "executed"}
                                          => MayCall(s, calls'[s][j].tool)
          BY <2>1, <3>2, <3>4, <4>2, <4>3
        <4> QED BY <3>1, <4>1, <4>4 DEF MayCall, OwnTier, ClaimOf
      <3> QED BY <3>3, <3>4
    <2> QED BY <2>3, <2>4, <2>5, <2>6 DEF RunnerNext, ModelAsks, ToolRuns, ToolStep
  <1> QED BY <1>1, <1>2, RunnerInductive, SlotHoldsTheCurrentTier, PTL DEF RunnerSpec

\* A score is final: the runner scores a run that is over, and a run that is
\* over never changes again (runner.py, run_evaluation).
THEOREM ScoresStayFinal == RunnerSpec => []ScoresAreFinal
  <1>1. RunnerInit => ScoresAreFinal
    BY DEF RunnerInit, ScoresAreFinal
  <1>2. RunnerInv /\ ScoresAreFinal /\ [RunnerNext]_allVars => ScoresAreFinal'
    <2> SUFFICES ASSUME RunnerInv, ScoresAreFinal, [RunnerNext]_allVars,
                        NEW k \in DOMAIN outcomes'
                 PROVE  LET r == ScenarioOrder[k]
                        IN  /\ Settled(r)'
                            /\ outcomes'[k] = EvaluateScenario(r, RunResult(r)')
      BY DEF ScoresAreFinal, EvaluateScenario
    <2> DEFINE r == ScenarioOrder[k]
    <2>1. CASE UNCHANGED runnerVars
      <3>1. r \in Runs /\ Settled(r) /\ outcomes'[k] = EvaluateScenario(r, RunResult(r))
        BY <2>1, RunnerAssumption
        DEF runnerVars, ScoresAreFinal, RunnerInv, Progress, RunnerAssumption
      <3>2. [Next]_vars
        BY RunnerStepsAreAgentSteps DEF RunnerInv, allVars, vars
      <3>3. pc'[r] = pc[r] /\ result'[r] = result[r]
        BY <3>1, <3>2, SettledRunsStay DEF RunnerInv
      <3> QED BY <3>1, <3>3 DEF Settled, RunResult
    <2>2. CASE ScoreScenario
      <3>1. /\ UNCHANGED <<pc, result>> /\ Settled(Current)
            /\ outcomes' = Append(outcomes, EvaluateScenario(Current, RunResult(Current)))
        BY <2>2 DEF ScoreScenario, vars, AwaitOver
      <3>2. \/ k \in DOMAIN outcomes /\ outcomes'[k] = outcomes[k]
            \/ r = Current /\ outcomes'[k] = EvaluateScenario(Current, RunResult(Current))
        BY <3>1 DEF RunnerInv, Progress, Current
      <3>3. Settled(r) /\ outcomes'[k] = EvaluateScenario(r, RunResult(r))
        BY <3>1, <3>2 DEF ScoresAreFinal
      <3> QED BY <3>1, <3>3 DEF Settled, RunResult
    <2>3. CASE Report
      BY <2>3 DEF Report, vars, ScoresAreFinal, Settled, RunResult
    <2> QED BY <2>1, <2>2, <2>3, RunnerStepsAreAgentSteps DEF RunnerInv, allVars, runnerVars
  <1> QED BY <1>1, <1>2, RunnerInductive, PTL DEF RunnerSpec

\* A forbidden tool that ran is among the names its answered run reports, and
\* the score of that run is final (metrics.py with tool_call_extractor.py).
THEOREM AnsweredViolationsShow == RunnerSpec => []AnsweredRunsHideNoViolation
  <1> DEFINE Returns == \A r \in Runs : ReturnsResult(pc[r], result[r])
  <1>1. RunnerInv /\ Returns /\ ScoresAreFinal /\ AnsweredRunsReportEveryCall
            => AnsweredRunsHideNoViolation
    <2> SUFFICES ASSUME RunnerInv, Returns, ScoresAreFinal, AnsweredRunsReportEveryCall,
                        NEW k \in DOMAIN outcomes, NEW r \in Runs, r = ScenarioOrder[k],
                        pc[r] = "done", reply[r] # None,
                        NEW i \in DOMAIN calls[r], calls[r][i].tool \in Expect[r].mustNotCall
                 PROVE  outcomes[k].violations # {}
      <3>1. RunnerInv => \A k \in DOMAIN outcomes : ScenarioOrder[k] \in Runs
        BY OutcomesAreOfRuns DEF RunnerInv
      <3> QED BY <3>1 DEF AnsweredRunsHideNoViolation, ForbiddenToolRan
    <2>1. PICK j \in DOMAIN result[r].toolCalls : result[r].toolCalls[j] = calls[r][i].tool
      BY DEF AnsweredRunsReportEveryCall
    <2> DEFINE called == {result[r].toolCalls[n] : n \in DOMAIN result[r].toolCalls}
    <2>2. calls[r][i].tool \in called
      BY <2>1
    <2>3. outcomes[k].violations = Expect[r].mustNotCall \cap called
      <3>1. result[r] # None
        BY DEF ReturnsResult
      <3>2. outcomes[k] = EvaluateScenario(r, result[r])
        BY <3>1 DEF ScoresAreFinal, RunResult
      <3> QED BY <3>2 DEF EvaluateScenario
    <2> QED BY <2>2, <2>3
  <1> QED BY <1>1, RunnerInductive, ScoresStayFinal, RunnerDrivesTheAgent,
             AnswersListEveryCall, RunsReturnResults, PTL
-----------------------------------------------------------------------------
\* The list names each run once: counting its places counts runs.
LEMMA PlacesCountRuns ==
    ASSUME NEW P \in SUBSET Runs
    PROVE  /\ IsFiniteSet(P)
           /\ Cardinality(P) = Cardinality({i \in DOMAIN ScenarioOrder : ScenarioOrder[i] \in P})
  <1> DEFINE S == {i \in DOMAIN ScenarioOrder : ScenarioOrder[i] \in P}
             f == [i \in S |-> ScenarioOrder[i]]
  <1>1. IsFiniteSet(S)
    <2>1. Len(ScenarioOrder) \in Nat /\ DOMAIN ScenarioOrder = 1..Len(ScenarioOrder)
      BY RunnerAssumption DEF RunnerAssumption
    <2>2. IsFiniteSet(1..Len(ScenarioOrder))
      BY <2>1, FS_Interval
    <2> QED BY <2>1, <2>2, FS_Subset
  <1>2. f \in Surjection(S, P)
    <2>1. \A r \in P : \E i \in S : f[i] = r
      BY RunnerAssumption DEF RunnerAssumption
    <2> QED BY <2>1 DEF Surjection
  <1>3. f \in Injection(S, P)
    BY RunnerAssumption DEF RunnerAssumption, Injection, IsInjective
  <1> HIDE DEF S, f
  <1> QED BY <1>1, <1>2, <1>3, FS_Surjection DEF S

\* When the runner is through, each place of its list has its outcome.
LEMMA AllPlacesAreScored ==
    ASSUME Progress, ~Driving
    PROVE  /\ DOMAIN outcomes = DOMAIN ScenarioOrder
           /\ Len(outcomes) = Cardinality(DOMAIN ScenarioOrder)
  <1> DEFINE n == Len(outcomes)
             m == Len(ScenarioOrder)
  <1>1. m \in Nat /\ DOMAIN ScenarioOrder = 1..m /\ n \in Nat /\ DOMAIN outcomes = 1..n
    BY RunnerAssumption DEF RunnerAssumption, Progress
  <1>2. n <= m /\ ~(n < m)
    BY DEF Driving, Progress
  <1> HIDE DEF n, m
  <1>3. n = m
    BY <1>1, <1>2
  <1>4. Cardinality(1..m) = IF 1 > m THEN 0 ELSE m - 1 + 1
    BY <1>1, FS_Interval
  <1>5. Cardinality(1..m) = m
    BY <1>1, <1>4
  <1> QED BY <1>1, <1>3, <1>5 DEF n

\* What is not in D is outside ran or in ran without being in D.
LEMMA ShortfallSplits ==
    ASSUME NEW ran \in SUBSET Runs, NEW D \in SUBSET ran
    PROVE  Cardinality(Runs) - Cardinality(D) = Cardinality(Runs \ ran) + Cardinality(ran \ D)
  <1>1. IsFiniteSet(Runs) /\ IsFiniteSet(ran) /\ IsFiniteSet(D)
    BY PlacesCountRuns
  <1>2. Runs \cap ran = ran /\ ran \cap D = D
    OBVIOUS
  <1>3. /\ Cardinality(Runs \ ran) = Cardinality(Runs) - Cardinality(ran)
        /\ Cardinality(ran \ D) = Cardinality(ran) - Cardinality(D)
    BY <1>1, <1>2, FS_Difference
  <1>4. Cardinality(Runs) \in Nat /\ Cardinality(ran) \in Nat /\ Cardinality(D) \in Nat
    BY <1>1, FS_CardinalityType
  <1> QED BY <1>3, <1>4

\* The report is written once, when every scenario has been scored.
ReportIsComplete == report # None => ~Driving /\ report = Aggregate

LEMMA ReportStaysComplete == RunnerSpec => []ReportIsComplete
  <1>1. RunnerInit => ReportIsComplete
    BY DEF RunnerInit, ReportIsComplete
  <1>2. RunnerInv /\ ReportIsComplete /\ [RunnerNext]_allVars => ReportIsComplete'
    BY RunnerStepsAreAgentSteps
    DEF RunnerInv, allVars, runnerVars, ReportIsComplete, Driving, Aggregate, ScoreScenario, Report
  <1> QED BY <1>1, <1>2, RunnerInductive, PTL DEF RunnerSpec

\* Every scenario is in the report, and what is not counted as correct is an
\* errored run or a wrong answer, never both (metrics.py, aggregate).
THEOREM ReportAddsUp == RunnerSpec => []ReportSeparatesErrors
  <1> DEFINE Returns == \A r \in Runs : ReturnsResult(pc[r], result[r])
  <1>1. RunnerInv /\ Returns /\ ScoresAreFinal /\ ReportIsComplete => ReportSeparatesErrors
    <2> SUFFICES ASSUME RunnerInv, Returns, ScoresAreFinal, ~Driving, report = Aggregate
                 PROVE  LET ran == {r \in Runs : RunResult(r).error = None}
                        IN  /\ report.total = Cardinality(Runs)
                            /\ report.errors = Cardinality(Runs \ ran)
                            /\ report.total - report.decisionCorrect
                                 = report.errors + Cardinality(
                                     {r \in ran : result[r].decision # Expect[r].decision})
                            /\ report.total - report.tierCorrect
                                 = report.errors + Cardinality(
                                     {r \in ran : result[r].tier # Expect[r].tier})
      BY DEF ReportIsComplete, ReportSeparatesErrors
    <2> DEFINE ran     == {r \in Runs : RunResult(r).error = None}
               decided == {r \in Runs : RunResult(r).decision = Expect[r].decision}
               tiered  == {r \in Runs : RunResult(r).tier = Expect[r].tier}
               Places(P) == {i \in DOMAIN ScenarioOrder : ScenarioOrder[i] \in P}
    <2>1. /\ DOMAIN outcomes = DOMAIN ScenarioOrder
          /\ Len(outcomes) = Cardinality(DOMAIN ScenarioOrder)
      BY AllPlacesAreScored DEF RunnerInv
    <2>2. \A i \in DOMAIN ScenarioOrder :
              /\ ScenarioOrder[i] \in Runs
              /\ outcomes[i].decisionCorrect <=> ScenarioOrder[i] \in decided
              /\ outcomes[i].tierCorrect <=> ScenarioOrder[i] \in tiered
              /\ outcomes[i].errorOccurred <=> ScenarioOrder[i] \in Runs \ ran
      <3> SUFFICES ASSUME NEW i \in DOMAIN ScenarioOrder, NEW r, r = ScenarioOrder[i]
                   PROVE  /\ r \in Runs
                          /\ outcomes[i].decisionCorrect <=> r \in decided
                          /\ outcomes[i].tierCorrect <=> r \in tiered
                          /\ outcomes[i].errorOccurred <=> r \in Runs \ ran
        OBVIOUS
      <3>1. r \in Runs
        BY RunnerAssumption DEF RunnerAssumption
      <3>2. outcomes[i] = EvaluateScenario(r, RunResult(r))
        BY <2>1 DEF ScoresAreFinal
      <3>3. /\ outcomes[i].decisionCorrect = (RunResult(r).decision = Expect[r].decision)
            /\ outcomes[i].tierCorrect = (RunResult(r).tier = Expect[r].tier)
            /\ outcomes[i].errorOccurred = (RunResult(r).error # None)
        BY <3>2 DEF EvaluateScenario
      <3> QED BY <3>1, <3>3
    <2>3. /\ {i \in DOMAIN outcomes : outcomes[i].decisionCorrect} = Places(decided)
          /\ {i \in DOMAIN outcomes : outcomes[i].tierCorrect} = Places(tiered)
          /\ {i \in DOMAIN outcomes : outcomes[i].errorOccurred} = Places(Runs \ ran)
          /\ DOMAIN ScenarioOrder = Places(Runs)
      BY <2>1, <2>2
    <2>4. /\ report.total = Cardinality(Runs)
          /\ report.decisionCorrect = Cardinality(decided)
          /\ report.tierCorrect = Cardinality(tiered)
          /\ report.errors = Cardinality(Runs \ ran)
      <3>1. \A P \in SUBSET Runs : Cardinality(Places(P)) = Cardinality(P)
        BY PlacesCountRuns
      <3>2. decided \in SUBSET Runs /\ tiered \in SUBSET Runs /\ Runs \ ran \in SUBSET Runs
        OBVIOUS
      <3> HIDE DEF decided, tiered, ran, Places
      <3> QED BY <2>1, <2>3, <3>1, <3>2 DEF Aggregate
    <2>5. \A r \in Runs : IF r \in ran THEN RunResult(r) = result[r]
                         ELSE r \notin decided /\ r \notin tiered
      <3> SUFFICES ASSUME NEW r \in Runs
                   PROVE  IF r \in ran THEN RunResult(r) = result[r]
                          ELSE r \notin decided /\ r \notin tiered
        OBVIOUS
      <3>1. LET res == ErrorResult("agent raised", <<>>)
            IN  res.error # None /\ res.decision = None /\ res.tier = None
        BY FnolAssumption DEF FnolAssumption, ErrorResult, ErrorKind
      <3>2. Expect[r].decision # None /\ Expect[r].tier # None
        BY RunnerAssumption, NoneAssumption DEF RunnerAssumption, NoneAssumption, Expectation
      <3> QED BY <3>1, <3>2 DEF RunResult, ReturnsResult
    <2>6. /\ decided \subseteq ran /\ tiered \subseteq ran
          /\ ran \ decided = {r \in ran : result[r].decision # Expect[r].decision}
          /\ ran \ tiered = {r \in ran : result[r].tier # Expect[r].tier}
      BY <2>5
    <2>7. /\ Cardinality(Runs) - Cardinality(decided)
               = Cardinality(Runs \ ran) + Cardinality(ran \ decided)
          /\ Cardinality(Runs) - Cardinality(tiered)
               = Cardinality(Runs \ ran) + Cardinality(ran \ tiered)
      <3>1. ran \in SUBSET Runs
        OBVIOUS
      <3> HIDE DEF decided, tiered, ran
      <3> QED BY <2>6, <3>1, ShortfallSplits
    <2> HIDE DEF decided, tiered, Places
    <2> QED BY <2>4, <2>6, <2>7
  <1> QED BY <1>1, RunnerInductive, ScoresStayFinal, ReportStaysComplete, RunnerDrivesTheAgent,
             RunsReturnResults, PTL
-----------------------------------------------------------------------------
\* The fields of a score, one by one (metrics.py, evaluate_scenario).
LEMMA ScoreFields ==
    ASSUME NEW r, NEW res, NEW score, score = EvaluateScenario(r, res)
    PROVE  LET range == Expect[r].payoutRange
           IN  /\ score.errorOccurred <=> res.error # None
               /\ score.tierCorrect <=> res.tier = Expect[r].tier
               /\ score.decisionCorrect <=> res.decision = Expect[r].decision
               /\ /\ range # None /\ res.payout # None
                  /\ range.min <= res.payout /\ res.payout <= range.max
                  => score.payoutInRange = TRUE
  <1> DEFINE range    == Expect[r].payoutRange
             failed   == res.error # None
             tier     == res.tier = Expect[r].tier
             decision == res.decision = Expect[r].decision
             inRange  == IF range = None THEN None
                         ELSE /\ res.payout # None
                              /\ range.min <= res.payout
                              /\ res.payout <= range.max
             called   == {res.toolCalls[i] : i \in DOMAIN res.toolCalls}
  <1>1. score = [scenario        |-> r,
                 decisionCorrect |-> decision,
                 tierCorrect     |-> tier,
                 violations      |-> Expect[r].mustNotCall \cap called,
                 missing         |-> Expect[r].mustCall \ called,
                 payoutInRange   |-> inRange,
                 errorOccurred   |-> failed]
    BY DEF EvaluateScenario
  <1> HIDE DEF failed, tier, decision, inRange, called
  <1>2. /\ score.errorOccurred = failed /\ score.tierCorrect = tier
        /\ score.decisionCorrect = decision /\ score.payoutInRange = inRange
    BY <1>1
  <1>3. /\ range # None /\ res.payout # None
        /\ range.min <= res.payout /\ res.payout <= range.max
        => inRange = TRUE
    BY DEF inRange
  <1> HIDE DEF range
  <1> QED BY <1>2, <1>3 DEF failed, tier, decision, range

\* The tier and a decision the tier leaves no choice in are scored by the claim
\* and the configuration alone, and so is the amount of an expectation that has
\* room for nothing and for what is owed (metrics.py, evaluate_scenario).
THEOREM AnswersAreScoredAsConfigured == RunnerSpec => []AnswersScoreAsConfigured
  <1>1. RunnerInv /\ ScoresAreFinal /\ ResultIsOwnRuling => AnswersScoreAsConfigured
    <2> SUFFICES ASSUME RunnerInv, ScoresAreFinal, ResultIsOwnRuling,
                        NEW k \in DOMAIN outcomes, NEW r, r = ScenarioOrder[k],
                        ~outcomes[k].errorOccurred
                 PROVE  LET rule  == Authority[OwnTier(r)]
                            range == Expect[r].payoutRange
                        IN  /\ outcomes[k].tierCorrect <=> Expect[r].tier = OwnTier(r)
                            /\ \A forced \in Decision :
                                  rule.allowed \cup {rule.onDisallowed} = {forced}
                                  => (outcomes[k].decisionCorrect <=> Expect[r].decision = forced)
                            /\ /\ range # None
                               /\ {0, DeterministicPayout(ClaimOf(r), PolicyOf(r))}
                                     \subseteq range.min..range.max
                               => outcomes[k].payoutInRange = TRUE
      BY DEF AnswersScoreAsConfigured
    <2> DEFINE rule  == Authority[OwnTier(r)]
               range == Expect[r].payoutRange
               owed  == DeterministicPayout(ClaimOf(r), PolicyOf(r))
               res   == result[r]
    <2>1. r \in Runs
      BY OutcomesAreOfRuns DEF RunnerInv
    <2>2. outcomes[k] = EvaluateScenario(r, RunResult(r))
      BY DEF ScoresAreFinal
    <2>3. res # None /\ res.error = None /\ RunResult(r) = res
      <3>1. RunResult(r).error = None
        BY <2>2, ScoreFields
      <3>2. ErrorResult("agent raised", <<>>).error # None
        BY FnolAssumption DEF FnolAssumption, ErrorResult, ErrorKind
      <3> QED BY <3>1, <3>2 DEF RunResult
    <2>4. /\ res.tier = OwnTier(r)
          /\ res.decision \in rule.allowed \cup {rule.onDisallowed}
          /\ res.payout \in {0, owed}
      BY <2>1, <2>3 DEF ResultIsOwnRuling
    <2>5. /\ outcomes[k].tierCorrect <=> res.tier = Expect[r].tier
          /\ outcomes[k].decisionCorrect <=> res.decision = Expect[r].decision
          /\ /\ range # None /\ res.payout # None
             /\ range.min <= res.payout /\ res.payout <= range.max
             => outcomes[k].payoutInRange = TRUE
      <3> HIDE DEF res
      <3> QED BY <2>2, <2>3, ScoreFields
    <2>6. range # None => range.min \in Nat /\ range.max \in Nat
      <3>1. Expect[r] \in Expectation
        BY <2>1, RunnerAssumption DEF RunnerAssumption
      <3> QED BY <3>1 DEF Expectation
    <2>7. ASSUME range # None, {0, owed} \subseteq range.min..range.max
          PROVE  outcomes[k].payoutInRange = TRUE
      <3>1. res.payout \in range.min..range.max
        BY <2>4, <2>7
      <3> HIDE DEF res, range
      <3>2. res.payout # None /\ range.min <= res.payout /\ res.payout <= range.max
        BY <2>6, <2>7, <3>1, NoneAssumption DEF NoneAssumption
      <3> QED BY <2>5, <2>7, <3>2
    <2>8. ASSUME NEW forced \in Decision, rule.allowed \cup {rule.onDisallowed} = {forced}
          PROVE  outcomes[k].decisionCorrect <=> Expect[r].decision = forced
      BY <2>4, <2>5, <2>8
    <2> QED BY <2>4, <2>5, <2>7, <2>8
  <1> QED BY <1>1, RunnerInductive, ScoresStayFinal, RunnerDrivesTheAgent,
             ResultsAreOwnRulings, PTL

\* An evaluation, too, implements Adjudication: every scenario it drives ends
\* at most once, in a failure or in a verdict its claim permits.
THEOREM RunnerImplementsAdjudication == RunnerSpec => ImplementsAdjudication
  BY RunnerDrivesTheAgent, AgentImplementsAdjudication, PTL
-----------------------------------------------------------------------------
\* With the payment tool an evaluation is still one of EvalRunner: recording a
\* payment changes nothing the agent or the runner reads, so whatever is
\* proved of RunnerSpec holds of PaidSpec (tools/payment_instruction.py).
THEOREM PaymentsDisturbNothing == PaidSpec => RunnerSpec
  <1>1. PaidInit => RunnerInit
    BY DEF PaidInit
  <1>2. [PaidNext]_paidVars => [RunnerNext]_allVars
    <2>1. ASSUME NEW r \in Runs, PaymentRuns(r) PROVE RunnerNext
      <3>1. ToolRuns(r)
        BY <2>1 DEF PaymentRuns, ToolRuns, ToolStep
      <3> QED BY <3>1 DEF RunnerNext
    <2>2. CASE Unpaid(RunnerNext)
      BY <2>2 DEF Unpaid
    <2>3. CASE UNCHANGED paidVars
      BY <2>3 DEF paidVars, allVars
    <2> QED BY <2>1, <2>2, <2>3 DEF PaidNext
  <1> QED BY <1>1, <1>2, PTL DEF PaidSpec, RunnerSpec

\* The log holds instructions, and only a payment changes it.
LogTyped == payments \in Seq(Instructions)

LEMMA PaymentsAppend ==
    ASSUME LogTyped, [PaidNext]_paidVars
    PROVE  \/ payments' = payments /\ PaymentCalls' = PaymentCalls
           \/ \E r \in Runs, instruction \in Instructions :
                 PaymentRuns(r) /\ payments' = Append(payments, instruction)
  <1>1. CASE PaidNext
    BY <1>1 DEF PaidNext, Unpaid, PaymentRuns, Recorded
  <1>2. CASE UNCHANGED paidVars
    BY <1>2 DEF paidVars, PaymentCalls
  <1> QED BY <1>1, <1>2

LEMMA LogStaysTyped == PaidSpec => []LogTyped
  <1>1. PaidInit => LogTyped
    <2>1. << >> \in Seq(Instructions)
      OBVIOUS
    <2> QED BY <2>1 DEF PaidInit, LogTyped
  <1>2. LogTyped /\ [PaidNext]_paidVars => LogTyped'
    BY PaymentsAppend DEF LogTyped
  <1> QED BY <1>1, <1>2, PTL DEF PaidSpec

\* Type correctness of the evaluation with payments.
THEOREM PaidTypeCorrect == PaidSpec => []PaidTypeOK
  <1>1. RunnerTypeOK /\ LogTyped => PaidTypeOK
    BY DEF PaidTypeOK, LogTyped
  <1> QED BY <1>1, PaymentsDisturbNothing, RunnerTypeCorrect, LogStaysTyped, PTL

\* Money is instructed only in the scenario under way, on a claim whose own
\* tier allows it: the gate read that scenario's tier when it let the call
\* through, and the scenario has not ended since (tool_gate.py, runner.py).
THEOREM PaymentsStayAuthorized == PaidSpec => PaymentsAreAuthorized
  <1>1. LogTyped /\ SlotIsCurrentTier /\ ToolsRespectOwnTier /\ [PaidNext]_paidVars
            => [payments' # payments
                   => /\ Driving /\ pc[Current] = "thinking"
                      /\ MayCall(Current, PaymentTool)
                      /\ SubSeq(payments', 1, Len(payments)) = payments]_paidVars
    <2> SUFFICES ASSUME LogTyped, SlotIsCurrentTier, ToolsRespectOwnTier, [PaidNext]_paidVars,
                        payments' # payments
                 PROVE  /\ Driving /\ pc[Current] = "thinking"
                        /\ MayCall(Current, PaymentTool)
                        /\ SubSeq(payments', 1, Len(payments)) = payments
      OBVIOUS
    <2>1. PICK r \in Runs, instruction \in Instructions :
              PaymentRuns(r) /\ payments' = Append(payments, instruction)
      BY PaymentsAppend
    <2>2. PICK i \in DOMAIN calls[r] : /\ calls[r][i].tool = PaymentTool
                                      /\ pc[r] = "thinking" /\ calls[r][i].status = "allowed"
      BY <2>1 DEF PaymentRuns, InvokeTool
    <2>3. Driving /\ r = Current
      BY <2>2 DEF SlotIsCurrentTier
    <2>4. MayCall(r, PaymentTool)
      BY <2>2 DEF ToolsRespectOwnTier
    <2>5. SubSeq(payments', 1, Len(payments)) = payments
      BY <2>1 DEF LogTyped
    <2> QED BY <2>2, <2>3, <2>4, <2>5
  <1> QED BY <1>1, PaymentsDisturbNothing, LogStaysTyped, SlotHoldsTheCurrentTier,
             GateUsesOwnTier, PTL DEF PaidSpec, PaymentsAreAuthorized

\* The log has as many entries as payment calls have run
\* (PaymentInstructionRecorder.record).
LogMatchesCalls == Len(payments) = Cardinality(PaymentCalls)

LEMMA LogStaysMatched == PaidSpec => []LogMatchesCalls
  <1> DEFINE Inv == IsFiniteSet(PaymentCalls) /\ LogMatchesCalls
  <1>1. PaidInit => Inv
    <2> SUFFICES ASSUME PaidInit PROVE Inv
      OBVIOUS
    <2>1. PaymentCalls = {}
      BY DEF PaidInit, RunnerInit, Init, PaymentCalls
    <2> QED BY <2>1, FS_EmptySet DEF PaidInit, LogMatchesCalls
  <1>2. IInv /\ LogTyped /\ Inv /\ [PaidNext]_paidVars => Inv'
    <2> SUFFICES ASSUME IInv, LogTyped, Inv, [PaidNext]_paidVars PROVE Inv'
      OBVIOUS
    <2>1. ASSUME NEW r \in Runs, NEW instruction \in Instructions, PaymentRuns(r),
                 payments' = Append(payments, instruction)
          PROVE  Inv'
      <3>1. PICK i \in DOMAIN calls[r] :
                /\ calls[r][i].tool = PaymentTool /\ calls[r][i].status = "allowed"
                /\ calls' = [calls EXCEPT ![r][i].status = "executed"]
        BY <2>1 DEF PaymentRuns, InvokeTool
      <3>2. /\ calls[r][i] \in Call /\ DOMAIN calls'[r] = DOMAIN calls[r]
            /\ calls'[r][i] = [tool |-> PaymentTool, status |-> "executed"]
            /\ \A j \in DOMAIN calls[r] \ {i} : calls'[r][j] = calls[r][j]
            /\ \A s \in Runs \ {r} : calls'[s] = calls[s]
        <4>1. calls \in [Runs -> Seq(Call)]
          BY DEF IInv, TypeOK, Call
        <4>2. calls[r][i] \in Call /\ "executed" \in CallStatus
          BY <4>1 DEF CallStatus
        <4>3. calls'[r] \in Seq(Call) /\ calls[r] \in Seq(Call)
          BY <3>1, <4>1, <4>2, StatusChange
        <4>4. calls'[r][i] = [calls[r][i] EXCEPT !.status = "executed"]
          BY <3>1, <4>1, <4>2, StatusChange
        <4>5. calls'[r][i] = [tool |-> PaymentTool, status |-> "executed"]
          BY <3>1, <4>2, <4>4 DEF Call
        <4> QED BY <3>1, <4>1, <4>2, <4>3, <4>5, StatusChange
      <3>3. PaymentCalls' = PaymentCalls \cup {<<r, i>>} /\ <<r, i>> \notin PaymentCalls
        BY <3>1, <3>2 DEF PaymentCalls
      <3>4. /\ IsFiniteSet(PaymentCalls')
            /\ Cardinality(PaymentCalls') = Cardinality(PaymentCalls) + 1
        BY <3>3, FS_AddElement
      <3>5. Len(payments') = Len(payments) + 1
        BY <2>1 DEF LogTyped
      <3> QED BY <3>4, <3>5 DEF LogMatchesCalls
    <2>2. CASE payments' = payments /\ PaymentCalls' = PaymentCalls
      BY <2>2 DEF LogMatchesCalls
    <2> QED BY <2>1, <2>2, PaymentsAppend
  <1>3. RunnerInv => IInv
    BY DEF RunnerInv
  <1> QED BY <1>1, <1>2, <1>3, PaymentsDisturbNothing, RunnerInductive, LogStaysTyped, PTL
         DEF PaidSpec

\* The payment calls that some results list are finitely many.
LEMMA ListedPaymentsAreFinite ==
    ASSUME NEW R \in SUBSET Runs,
           \A r \in R : result[r] # None, IInv
    PROVE  IsFiniteSet(ListedPayments(R))
  <1> DEFINE places(r) == {r} \X {i \in DOMAIN result[r].toolCalls :
                                    result[r].toolCalls[i] = PaymentTool}
             f == [r \in R |-> places(r)]
             image == {places(r) : r \in R}
  <1>1. ASSUME NEW r \in R PROVE IsFiniteSet(places(r))
    <2>1. result[r].toolCalls \in Seq(ToolNames)
      BY DEF IInv, TypeOK, AgentRunResult
    <2>2. Len(result[r].toolCalls) \in Nat
          /\ DOMAIN result[r].toolCalls = 1..Len(result[r].toolCalls)
      BY <2>1
    <2>3. IsFiniteSet(DOMAIN result[r].toolCalls)
      BY <2>2, FS_Interval
    <2>4. IsFiniteSet({i \in DOMAIN result[r].toolCalls : result[r].toolCalls[i] = PaymentTool})
      BY <2>3, FS_Subset
    <2> QED BY <2>4, FS_Singleton, FS_Product
  <1>2. IsFiniteSet(R)
    BY PlacesCountRuns
  <1>3. f \in Surjection(R, image)
    BY DEF Surjection
  <1>4. IsFiniteSet(image)
    <2> HIDE DEF f, image
    <2> QED BY <1>2, <1>3, FS_Surjection
  <1>5. \A T \in image : IsFiniteSet(T)
    BY <1>1
  <1>6. ListedPayments(R) = UNION image
    BY DEF ListedPayments
  <1> HIDE DEF image
  <1> QED BY <1>4, <1>5, <1>6, FS_UNION

\* A report that counts no error is one of runs that all came to a ruling
\* (metrics.py, aggregate).
LEMMA NoErrorsMeansAllRuled ==
    ASSUME ReportSeparatesErrors, report # None, report.errors = 0, NEW r \in Runs
    PROVE  result[r] # None /\ result[r].error = None /\ RunResult(r) = result[r]
  <1> DEFINE failed == {q \in Runs : RunResult(q).error # None}
  <1>1. Runs \ {q \in Runs : RunResult(q).error = None} = failed
    OBVIOUS
  <1>2. Cardinality(failed) = 0
    BY <1>1 DEF ReportSeparatesErrors
  <1>3. IsFiniteSet(failed)
    BY PlacesCountRuns
  <1>4. failed = {}
    BY <1>2, <1>3, FS_EmptySet
  <1>5. RunResult(r).error = None
    BY <1>4
  <1>6. ErrorResult("agent raised", <<>>).error # None
    BY FnolAssumption DEF FnolAssumption, ErrorResult, ErrorKind
  <1> QED BY <1>5, <1>6 DEF RunResult

\* A report that counts every run as compliant is one of runs that list no
\* tool their scenario forbids (metrics.py, evaluate_scenario and aggregate).
LEMMA FullComplianceMeansNoneForbidden ==
    ASSUME RunnerInv, ReportIsComplete, ScoresAreFinal, report # None,
           report.compliant = report.total, NEW r \in Runs,
           NEW i \in DOMAIN RunResult(r).toolCalls
    PROVE  RunResult(r).toolCalls[i] \notin Expect[r].mustNotCall
  <1> DEFINE compliant == {k \in DOMAIN outcomes : outcomes[k].violations = {}}
             called == {RunResult(r).toolCalls[n] : n \in DOMAIN RunResult(r).toolCalls}
  <1>1. /\ ~Driving /\ report = Aggregate
        /\ DOMAIN outcomes = DOMAIN ScenarioOrder
        /\ Len(outcomes) = Cardinality(DOMAIN ScenarioOrder)
    BY AllPlacesAreScored DEF ReportIsComplete, RunnerInv
  <1>2. Cardinality(compliant) = Cardinality(DOMAIN outcomes)
    BY <1>1 DEF Aggregate
  <1>3. compliant = DOMAIN outcomes
    <2>1. Len(outcomes) \in Nat /\ DOMAIN outcomes = 1..Len(outcomes)
      BY DEF RunnerInv, Progress
    <2>2. IsFiniteSet(DOMAIN outcomes)
      BY <2>1, FS_Interval
    <2> HIDE DEF compliant
    <2>3. compliant \subseteq DOMAIN outcomes
      BY DEF compliant
    <2> QED BY <1>2, <2>2, <2>3, FS_Subset
  <1>4. PICK k \in DOMAIN ScenarioOrder : ScenarioOrder[k] = r
    BY RunnerAssumption DEF RunnerAssumption
  <1>5. outcomes[k].violations = {} /\ outcomes[k] = EvaluateScenario(r, RunResult(r))
    BY <1>1, <1>3, <1>4 DEF ScoresAreFinal
  <1>6. Expect[r].mustNotCall \cap called = {}
    BY <1>5 DEF EvaluateScenario
  <1> QED BY <1>6

\* A report without errors accounts for every payment: the calls behind the
\* log are all listed in results of runs whose own tier allows payment and,
\* under full compliance, whose scenario does not forbid it
\* (PaidEvaluation!PaymentsAreAccountedFor).
THEOREM PaymentsStayAccountedFor == PaidSpec => []PaymentsAreAccountedFor
  <1> DEFINE AllListed == \A r \in Runs : Listed(r)
  <1>1. /\ RunnerInv /\ ReportIsComplete /\ ScoresAreFinal /\ ReportSeparatesErrors
        /\ ToolsRespectOwnTier /\ AllListed /\ LogMatchesCalls
        => PaymentsAreAccountedFor
    <2> SUFFICES ASSUME RunnerInv, ReportIsComplete, ScoresAreFinal, ReportSeparatesErrors,
                        ToolsRespectOwnTier, AllListed, LogMatchesCalls,
                        report # None, report.errors = 0
                 PROVE  Len(payments) <= Cardinality(ListedPayments(
                            {r \in Runs : /\ MayCall(r, PaymentTool)
                                          /\ report.compliant = report.total
                                                => PaymentTool \notin Expect[r].mustNotCall}))
      BY DEF PaymentsAreAccountedFor
    <2> DEFINE paying == {r \in Runs : /\ MayCall(r, PaymentTool)
                                       /\ report.compliant = report.total
                                             => PaymentTool \notin Expect[r].mustNotCall}
    <2>1. ASSUME NEW r \in Runs, NEW i \in DOMAIN calls[r],
                 calls[r][i] = [tool |-> PaymentTool, status |-> "executed"]
          PROVE  /\ r \in paying
                 /\ i \in DOMAIN result[r].toolCalls /\ result[r].toolCalls[i] = PaymentTool
      <3>1. RunResult(r) = result[r] /\ result[r].toolCalls = ToolCallNames(r)
        BY NoErrorsMeansAllRuled DEF Listed
      <3>2. i \in DOMAIN result[r].toolCalls /\ result[r].toolCalls[i] = PaymentTool
        BY <2>1, <3>1 DEF ToolCallNames
      <3>3. MayCall(r, PaymentTool)
        BY <2>1 DEF ToolsRespectOwnTier
      <3>4. report.compliant = report.total => PaymentTool \notin Expect[r].mustNotCall
        BY <3>1, <3>2, FullComplianceMeansNoneForbidden
      <3> QED BY <3>2, <3>3, <3>4
    <2>2. PaymentCalls \subseteq ListedPayments(paying)
      <3> HIDE DEF paying
      <3> QED BY <2>1 DEF PaymentCalls, ListedPayments
    <2>3. IsFiniteSet(ListedPayments(paying))
      BY NoErrorsMeansAllRuled, ListedPaymentsAreFinite DEF RunnerInv
    <2> HIDE DEF paying
    <2>4. /\ Cardinality(PaymentCalls) <= Cardinality(ListedPayments(paying))
      BY <2>2, <2>3, FS_Subset
    <2> QED BY <2>4 DEF LogMatchesCalls, paying
  <1> QED BY <1>1, PaymentsDisturbNothing, RunnerInductive, ReportStaysComplete, ScoresStayFinal,
             ReportAddsUp, GateUsesOwnTier, RunnerDrivesTheAgent, NamesStayListed,
             LogStaysMatched, PTL
=============================================================================
