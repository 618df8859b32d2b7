--------------------------- MODULE PaidEvaluation --------------------------
(***************************************************************************)
(* An evaluation whose agent also has the payment_instruction tool, gated  *)
(* like the lookups, and one PaymentInstructionRecorder behind it for all  *)
(* scenarios (tests/test_tool_gate.py composes tool and gate; the shipped  *)
(* agent registers the two lookups only).  The tool writes down whatever   *)
(* claim number and amount the model passes, and that is all it does.      *)
(***************************************************************************)
EXTENDS EvalRunner

CONSTANT Instructions \* the arguments a model may call the tool with

Instruction == [claim : ClaimNumbers, amount : Int \cup {NaN}]

PaymentTool == "payment_instruction"

PaymentAssumption == Instructions \subseteq Instruction /\ PaymentTool \in RegisteredTools
ASSUME PaymentAssumption

VARIABLE payments \* recorder._calls
paidVars == <<currentTier, claimNumber, pc, calls, reply, result, outcomes, report, payments>>

\* The payment calls that have run, of every scenario.
PaymentCalls ==
    UNION {{r} \X {i \in DOMAIN calls[r] : calls[r][i] = [tool |-> PaymentTool, status |-> "executed"]}
              : r \in Runs}

PaidTypeOK == RunnerTypeOK /\ payments \in Seq(Instructions)

PaidInit == RunnerInit /\ payments = <<>>
-----------------------------------------------------------------------------
\* PaymentInstructionRecorder.record
Recorded(instruction) == Append(payments, instruction)

\* The tool runs: its call is marked and its arguments are recorded.
PaymentRuns(r) == /\ \E i \in DOMAIN calls[r] : calls[r][i].tool = PaymentTool /\ InvokeTool(r, i)
                  /\ \E instruction \in Instructions : payments' = Recorded(instruction)
                  /\ UNCHANGED runnerVars

\* Every other step leaves the recorder alone.
Unpaid(step) == step /\ PaymentCalls' = PaymentCalls /\ UNCHANGED payments

PaidNext == \/ Unpaid(RunnerNext)
            \/ \E r \in Runs : PaymentRuns(r)

PaidSpec == PaidInit /\ [][PaidNext]_paidVars

\* As for the plain evaluation: a tool that may run does, payment included.
PaidFairness == /\ WF_paidVars(Unpaid(BeginScenario))
                /\ WF_paidVars(Unpaid(ScoreScenario))
                /\ WF_paidVars(Unpaid(Report))
                /\ \A r \in Runs : /\ WF_paidVars(Unpaid(ToolRuns(r)) \/ PaymentRuns(r))
                                   /\ WF_paidVars(Unpaid(EndScenario(r)))

FairPaidSpec == PaidSpec /\ PaidFairness
-----------------------------------------------------------------------------
\* The payment calls that the results of some runs list.
ListedPayments(runs) ==
    UNION {{r} \X {i \in DOMAIN result[r].toolCalls : result[r].toolCalls[i] = PaymentTool} : r \in runs}

\* A report without errors accounts for the money: however many instructions
\* the log has gathered over all the scenarios, as many calls at least are
\* listed in the results that were scored, each on a claim whose own tier
\* allows payment and, when the report shows full compliance, in a scenario
\* that does not forbid it (payment_instruction.py, "Calls accumulate across
\* scenarios", with tool_call_extractor.py and metrics.py).
PaymentsAreAccountedFor ==
    report # None /\ report.errors = 0 =>
        Len(payments) <= Cardinality(ListedPayments(
            {r \in Runs : /\ MayCall(r, PaymentTool)
                          /\ report.compliant = report.total
                                => PaymentTool \notin Expect[r].mustNotCall}))

\* Money is only ever instructed while a scenario is awaited whose own tier
\* allows it (tool_allowlist.yaml: "Only Green-tier claims ... may issue
\* payment"), and nothing instructed is taken back or changed.
PaymentsAreAuthorized ==
    [][payments' # payments => /\ Driving /\ pc[Current] = "thinking"
                               /\ MayCall(Current, PaymentTool)
                               /\ SubSeq(payments', 1, Len(payments)) = payments]_paidVars
=============================================================================
