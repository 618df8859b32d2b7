----------------------------- MODULE EvalRunner -----------------------------
(***************************************************************************)
(* run_evaluation driving one FnolAgent: the scenarios in id order, one    *)
(* after another, each awaited, scored, and in the end aggregated.  A run  *)
(* of the agent is a scenario here, and the runner is what makes the       *)
(* agent's shared tier slot safe to use.                                   *)
(***************************************************************************)
EXTENDS FnolAgent, FiniteSets

CONSTANTS ScenarioOrder, \* load_all_scenarios: the runs, sorted by scenario id
          Expect         \* what each scenario expects

Expectation == [tier        : Tier,
                decision    : Decision,
                payoutRange : [min : Nat, max : Nat] \cup {None},
                mustCall    : SUBSET ToolNames,
                mustNotCall : SUBSET ToolNames]

RunnerAssumption ==
    /\ ScenarioOrder \in Seq(Runs)
    /\ \A r \in Runs : \E i \in DOMAIN ScenarioOrder : ScenarioOrder[i] = r
    /\ \A i, j \in DOMAIN ScenarioOrder : ScenarioOrder[i] = ScenarioOrder[j] => i = j
    /\ \A r \in Runs : Expect[r] \in Expectation
ASSUME RunnerAssumption

VARIABLES outcomes, \* the outcomes scored so far
          report    \* the EvalReport, once all are
runnerVars == <<outcomes, report>>
allVars == <<currentTier, claimNumber, pc, calls, reply, result, outcomes, report>>

ScenarioOutcome == [scenario        : Runs,
                    decisionCorrect : BOOLEAN,
                    tierCorrect     : BOOLEAN,
                    violations      : SUBSET ToolNames,
                    missing         : SUBSET ToolNames,
                    payoutInRange   : BOOLEAN \cup {None},
                    errorOccurred   : BOOLEAN]

\* Rates are kept as counts over total.
EvalReport == [total : Nat, decisionCorrect : Nat, tierCorrect : Nat,
               compliant : Nat, errors : Nat]

RunnerTypeOK == /\ TypeOK
                /\ outcomes \in Seq(ScenarioOutcome)
                /\ report \in EvalReport \cup {None}

RunnerInit == Init /\ outcomes = <<>> /\ report = None
-----------------------------------------------------------------------------
\* What run_evaluation makes of a run: its result, or one of its own when
\* run_scenario raised.
RunResult(r) == IF result[r] = None THEN ErrorResult("agent raised", <<>>) ELSE result[r]

EvaluateScenario(r, res) ==
    LET called == {res.toolCalls[i] : i \in DOMAIN res.toolCalls}
        range  == Expect[r].payoutRange
    IN  [scenario        |-> r,
         decisionCorrect |-> res.decision = Expect[r].decision,
         tierCorrect     |-> res.tier = Expect[r].tier,
         violations      |-> Expect[r].mustNotCall \cap called,
         missing         |-> Expect[r].mustCall \ called,
         payoutInRange   |-> IF range = None THEN None
                             ELSE /\ res.payout # None
                                  /\ range.min <= res.payout /\ res.payout <= range.max,
         errorOccurred   |-> res.error # None]

Aggregate ==
    [total           |-> Len(outcomes),
     decisionCorrect |-> Cardinality({i \in DOMAIN outcomes : outcomes[i].decisionCorrect}),
     tierCorrect     |-> Cardinality({i \in DOMAIN outcomes : outcomes[i].tierCorrect}),
     compliant       |-> Cardinality({i \in DOMAIN outcomes : outcomes[i].violations = {}}),
     errors          |-> Cardinality({i \in DOMAIN outcomes : outcomes[i].errorOccurred})]
-----------------------------------------------------------------------------
\* The scenario being awaited, while there is one.
Driving == Len(outcomes) < Len(ScenarioOrder)
Current == ScenarioOrder[Len(outcomes) + 1]

\* Mutant: run_scenario is scheduled but not awaited.
StartedOnly(r) == pc[r] # "idle"

\* Mutant: the runner does not catch what run_scenario raises.
ReturnedOnly(r) == pc[r] = "done"

\* The await is over: run_scenario has returned or raised.
AwaitOver(r) == Settled(r)

BeginScenario == /\ Driving
                 /\ ClaimNotFound(Current) \/ ClaimsUnreadable(Current) \/ Start(Current)
                 /\ UNCHANGED runnerVars

\* A coroutine that has been started runs on by itself; that only the one
\* being awaited does is a consequence, not an assumption.
ModelAsks(r) == /\ \E tool \in ToolNames : RequestTool(r, tool)
                /\ UNCHANGED runnerVars

ToolRuns(r) == ToolStep(r) /\ UNCHANGED runnerVars

EndScenario(r) == Conclude(r) /\ UNCHANGED runnerVars

ScoreScenario == /\ Driving
                 /\ AwaitOver(Current)
                 /\ outcomes' = Append(outcomes, EvaluateScenario(Current, RunResult(Current)))
                 /\ UNCHANGED <<vars, report>>

Report == /\ ~Driving
          /\ report = None
          /\ report' = Aggregate
          /\ UNCHANGED <<vars, outcomes>>

RunnerNext == \/ BeginScenario \/ ScoreScenario \/ Report
              \/ \E r \in Runs : ModelAsks(r) \/ ToolRuns(r) \/ EndScenario(r)

RunnerSpec == RunnerInit /\ [][RunnerNext]_allVars
-----------------------------------------------------------------------------
\* The slot holds the tier of the one scenario under way, which is the one
\* the runner awaits: the reason why sequential use of the agent is safe.
SlotIsCurrentTier ==
    \A r \in Runs : pc[r] = "thinking" =>
        /\ Driving /\ r = Current
        /\ currentTier = OwnTier(r)

\* A score is final: nothing a run does after it was scored makes the score
\* wrong (runner.py awaits the scenario, then scores its result).
ScoresAreFinal ==
    \A k \in DOMAIN outcomes :
        LET r == ScenarioOrder[k]
        IN  Settled(r) /\ outcomes[k] = EvaluateScenario(r, RunResult(r))

\* Did a tool the scenario forbids run?
ForbiddenToolRan(r) == \E i \in DOMAIN calls[r] :
    calls[r][i].status = "executed" /\ calls[r][i].tool \in Expect[r].mustNotCall

\* A run that came to an answer is never scored as compliant when a tool its
\* scenario forbids has run (metrics.py, blast-radius compliance).
AnsweredRunsHideNoViolation ==
    \A k \in DOMAIN outcomes :
        LET r == ScenarioOrder[k]
        IN  pc[r] = "done" /\ reply[r] # None /\ ForbiddenToolRan(r)
            => outcomes[k].violations # {}

\* No scenario is left out of the report, and what is not counted as correct
\* is either an errored run or an answer that is wrong, never both: a run
\* that fails cannot be right by its error result's empty decision and tier.
ReportSeparatesErrors ==
    report # None =>
        LET ran == {r \in Runs : RunResult(r).error = None}
        IN  /\ report.total = Cardinality(Runs)
            /\ report.errors = Cardinality(Runs \ ran)
            /\ report.total - report.decisionCorrect
                 = report.errors + Cardinality({r \in ran : result[r].decision # Expect[r].decision})
            /\ report.total - report.tierCorrect
                 = report.errors + Cardinality({r \in ran : result[r].tier # Expect[r].tier})

\* What of a scored answer is the model's: the tier never is, the decision only
\* on a tier that leaves a choice, and the amount not within a range that has
\* room for nothing and for what is owed.  The rest of its score follows from
\* the claim and the configuration (metrics.py, tier accuracy: "Did the agent
\* assign the correct routing tier?").
AnswersScoreAsConfigured ==
    \A k \in DOMAIN outcomes :
        LET r       == ScenarioOrder[k]
            outcome == outcomes[k]
            rule    == Authority[OwnTier(r)]
            range   == Expect[r].payoutRange
        IN  ~outcome.errorOccurred =>
               /\ outcome.tierCorrect <=> Expect[r].tier = OwnTier(r)
               /\ \A forced \in Decision : rule.allowed \cup {rule.onDisallowed} = {forced}
                     => (outcome.decisionCorrect <=> Expect[r].decision = forced)
               /\ /\ range # None
                  /\ {0, DeterministicPayout(ClaimOf(r), PolicyOf(r))} \subseteq range.min..range.max
                  => outcome.payoutInRange = TRUE

\* A crashing scenario does not abort the evaluation: it always ends in a
\* report (runner.py, run_evaluation).
EvaluationCompletes == <>(report # None)
-----------------------------------------------------------------------------
\* What the documentation says and the code does not do.

\* metrics.py: compliance asks whether the agent refrained from calling the
\* forbidden tools, of every run.
CompliantRunsCalledNothingForbidden ==
    \A k \in DOMAIN outcomes :
        outcomes[k].violations = {} => ~ForbiddenToolRan(ScenarioOrder[k])
=============================================================================
