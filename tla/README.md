# Verification of the auto-claims harness

The repository adjudicates first notices of loss for car insurance. A language
model proposes a tier, a decision and a payout for a claim; the harness computes
the tier itself, keeps the decision within what that tier permits, computes the
payout from the policy, and gates every tool the model calls. "The model proposes,
the harness answers" is the sentence the code repeats, and it is what these
modules make precise, check with TLC and, where TLAPS can, prove.

Paths below are relative to the repository (`src/` here).

## 1. The system

| Component | Code | State | Operations |
|---|---|---|---|
| Domain rules | `domain/tiers.py`, `calculations.py`, `models.py` | none | `assign_tier`, `coverage_applies`, `calculate_payout`, `policy_active_for_claim` |
| Authority engine | `harness/policy_engine/authority.py` | its configuration | `evaluate`, raises on a negative proposal |
| Claim decision engine | `harness/policy_engine/claim_decision_engine.py` | authority engine, thresholds | `evaluate` |
| Tool authorization engine | `harness/policy_engine/tool_authorization_engine.py` | the allowlist | `evaluate` |
| Tool gate | `harness/middleware/tool_gate.py` | closure over engine and tier provider | `_wrapper`, async |
| FNOL agent | `agents/fnol_agent.py` | **`_current_tier`**, shared by all calls | `run_scenario`, async; `_tier_provider` |
| Response normalizer | `harness/middleware/response_normalizer.py` | eight counters | `normalize` |
| Tool-call extractor | `harness/middleware/tool_call_extractor.py` | none | `extract_tool_call_names` |
| Evaluation runner, metrics | `evals/runner.py`, `metrics.py` | list of outcomes | `run_evaluation`, `evaluate_scenario`, `aggregate` |
| Process startup | `evals/runner.py` (`main`), `FnolAgent.__init__` | the pieces built so far | reads five kinds of file and the environment, in a fixed order |
| Configuration loaders | `permissions_loader.py`, `tool_allowlist_loader.py`, `thresholds_loader.py`, `scenarios.py` | none | `load_*`: an accepted configuration or an error |
| Chat client providers | `harness/providers.py` | the process environment | `build_chat_client` |
| Policy repository | `mock_repository.py`, `domain/mock_data/` | two indexes, immutable once built | `get_by_number`, `find_by_claimant` |
| Lookup tools | `tools/policy_lookup_by_*.py` | none | read the repository |
| Payment tool | `tools/payment_instruction.py` | a list of recorded payments | append; not registered with the shipped agent |
| Mock data generator | `scripts/generate_mock_data.py` | the lists it builds, two files | draws 50 policies and 20 claims, writes both |
| Null agent, contracts, gated-tool spike | | none | see section 8 |

How they interact:

```
 main --load_*--> files; --build_chat_client--> environment      (Startup)
   |
 EvalRunner --await run_scenario--> FnolAgent --await agent.run--> framework + model
   |                                |   ^                            | parallel tool calls
   | scores results                 |   | _current_tier (one slot)   v
   v                                |   +----------------------- gated_tool --> ToolAuthorization
 metrics.aggregate                  |                               `-> lookup tools --> repository
                                    |                               `-> payment tool --> recorder
                                    `-> normalizer --> ClaimDecisionEngine
                                                         |-> AuthorityEngine -> assign_tier
                                                         `-> coverage_applies, calculate_payout
```

What is hard about it:

* **One slot, many calls.** `run_scenario` stores the claim's tier in an attribute
  of the agent and awaits the model; the gate reads that attribute whenever a tool
  runs. The code says (`fnol_agent.py:186`) that this is unsafe for concurrent
  runs. Which guarantees survive concurrency, and what exactly makes the
  sequential runner safe, is said nowhere.
* **Two engines, one ruling.** The authority engine decides; the decision engine
  discards its amount and computes another. Flags, reason and amount come from
  different places and must agree.
* **Errors on many paths.** The framework may raise after tools ran, the text may
  not be JSON, an object may fail validation, the ruling may raise. Each path
  builds its own result, the `finally` must release the slot on all of them, and
  the runner turns what still escapes into a result of its own.
* **A dictionary edited while it is walked.** The normalizer deletes, pops and writes
  keys of the object whose keys it is going through, in the order the model wrote them.
* **Files read one by one.** Five kinds of file are read at different moments by
  different modules, `permissions.yaml` twice, with errors that a loader documents and
  errors that pass through it.
* **Data drawn at random.** Every scenario relies on what the generator drew: the tier
  of its claim, the policy it names, whether the loss is covered.
* **Boundaries.** Inclusive thresholds, an escalation that saturates, an
  unassessed damage, deductible, limit and floor applied in one order.

What makes each component correct:

* *Domain and engines*: no decision beyond the tier's authority, no money without
  grounds, nothing the model claims of amount or tier moves the outcome, flags say
  exactly what changed, a more severe claim is never treated more leniently.
* *Agent and gate*: whatever interleaves, a result is the ruling on its own claim;
  the slot never outlives the run whose tier it holds; reports list every call; every
  run ends. Under the sequential runner, tools obey the tier of the claim they run for.
* *Runner and metrics*: scores are final, errors and successes add up, a violation
  that happened is visible, a score credits the agent only with what the configuration
  leaves to it, the evaluation always ends in a report. With payments: none is instructed
  on a claim whose tier forbids it, and a report without errors accounts for all of them.
* *Normalizer*: whatever the order of the keys, one canonical answer; no key is missed
  or met twice; the counters balance, but for calls that an exception ended.
* *Startup and loaders*: the network client is built, and an evaluation runs, only on
  files the documentation accepts; a refusal has its cause; a process runs on what is on
  disk, but for files edited while it started.
* *Repository*: both indexes answer like a scan of the file, duplicates included.
* *Generator*: every claim is in the tier, and on the side of eligibility, that the
  scenarios expect, for every draw, and the shipped authority rules on it as they expect.

## 2. The modules

| Module | Models | Built on |
|---|---|---|
| `ClaimsDomain` | the pure rules | |
| `DecisionEngine` | both engines' `evaluate`, as operators | `ClaimsDomain` |
| `ToolAuthorization` | the tool engine's `evaluate` and the allowlists the loader accepts | `ClaimsDomain` |
| `DecisionAudit` | an engine answering request after request, so that two rulings can be compared | `DecisionEngine` |
| `Adjudication` | abstract: each run ends once, in an error or in a permitted verdict | `DecisionEngine` |
| `FnolAgent` | `run_scenario`, the tool gate and the normalizer as far as the agent depends on it; implements `Adjudication` | `DecisionEngine`, `ToolAuthorization` |
| `EvalRunner` | `run_evaluation` driving that agent; scoring and aggregation | `FnolAgent` |
| `PaidEvaluation` | the payment tool behind the gate of that agent, one recorder for all scenarios | `EvalRunner` |
| `ModelAnswer` | the text of an answer, the normalizer's configuration, the canonical answer | |
| `CanonicalAnswer` | abstract: each text is answered once, by its canonical form, by `None` or by the exception of `json.loads` | `ModelAnswer` |
| `ResponseNormalizer` | `normalize`, one loop iteration per step; implements `CanonicalAnswer` | `ModelAnswer` |
| `ConfigFiles` | what each loader makes of a file: the set of ways it may end | |
| `Startup` | `main` and the agent's constructor, up to the first scenario, files being edited | `ConfigFiles` |
| `PolicyBook` | abstract: each lookup is answered as a scan of the policy file would | |
| `PolicyRepository` | the construction of both indexes and the two tools; implements `PolicyBook` | |
| `SeedData` | the mock data generator, every draw nondeterministic | `ClaimsDomain` |
| `ShippedScenarios` | the shipped scenarios and authority, put to the engine on each generated claim, for every proposal | `SeedData`, `DecisionEngine` |
| `MCDecisionAudit`, `MCFnolAgent`, `MCEvalRunner`, `MCPaidEvaluation`, `MCData`, `MCResponseNormalizer`, `MCStartup`, `MCPolicyRepository`, `MCSeedData` | the instances TLC checks | |
| `DecisionEngineProofs`, `DecisionAuditProofs`, `FnolAgentProofs`, `EvalRunnerProofs`, `ResponseNormalizerProofs`, `StartupProofs`, `PolicyRepositoryProofs`, `SeedDataProofs` | theorems and proofs | the module each is named for (`EvalRunnerProofs` also `PaidEvaluation`, `SeedDataProofs` also `ShippedScenarios`) |

### ClaimsDomain, DecisionEngine, ToolAuthorization

Records keep the fields a rule reads. A list of coverages that the validator
makes non-empty and unique by type is a function from type to line or `None`;
Python's `None` is the constant `None`. Money is an integer: the code uses exact
decimals and never divides. Dates are day numbers. A reason text is kept as the
class of reason it gives. The sets `TierThresholds`, `TierAuthorityConfig` and
`ToolAllowlistConfig` are what the loaders *accept*: in particular
`on_disallowed_decision` need not be among the allowed decisions, and
`default_decision` can only be `deny`.

### FnolAgent

`run_scenario` yields to the event loop only inside `await self._agent.run(prompt)`,
so the code before that await is one step and the code after it is another:

| Action | Code |
|---|---|
| `ClaimsUnreadable` | `load_claims`, called for every scenario, raises out of `run_scenario` before the slot is set (216) |
| `ClaimNotFound` | lookup fails, early return before the slot is set (216-222) |
| `Start` | policy lookup, slot assigned, prompt sent (224-233) |
| `RequestTool` | external: the model asks for any tool name, also unregistered ones |
| `GateTool` | `_wrapper` up to its await: provider read, engine asked (`tool_gate.py:59-72`) |
| `InvokeTool` | `await inner.invoke` (75): a read of immutable data |
| `AgentRaises` | `except Exception` around the await: an error *without tool calls* (236-237), then `finally` |
| `ModelReplies` | normalise, parse, rule, return (239-302), then `finally` |
| `AnswerRaises` | an exception of `json.loads` the normalizer does not catch, or a non-finite or negative payout, raises out of `run_scenario` past its error handling (239-285), then `finally` |

The variable `currentTier` is the one slot; `claimNumber`, `pc`, `calls`, `reply`
and `result` are each run's locals. `calls` records for every request whether it
was allowed, executed, denied, failed (the provider raised) or unknown. A model's
answer is abstracted to what the code distinguishes: no JSON object, a text on which
`json.loads` raises more than a `JSONDecodeError`, an object of the wrong types, or an object
whose fields are absent, recognised or not.

The agent framework (`agent_framework`, a library) is external. Assumed of it, and
marked so in the map: the calls of one answer run concurrently and are all awaited
before the model is asked again or `run` ends; an exception of a tool becomes the
tool's result; a name that is not registered is answered by the framework; the
response carries the messages of all rounds.

### EvalRunner

`BeginScenario` is the runner calling `run_scenario` on the next scenario in id
order, `ScoreScenario` what follows the await (results, or an error result for an
exception that escaped), `Report` the aggregation. Runs that have been started go
on by themselves (`ModelAsks`, `ToolRuns`, `EndScenario`): that only the awaited one
is ever under way is not built into the model but follows from `AwaitOver`, the
guard of scoring. Rates are kept as counts over the total.

### PaidEvaluation

The payment tool with its `PaymentInstructionRecorder`, gated like the lookups and
driven by the same runner, as `tests/test_tool_gate.py` composes tool and gate. The
shipped agent registers the two lookups only. `PaymentRuns` is the invocation of an
allowed payment call: the call is marked executed and the instruction, any claim number
and any amount the model chose, is appended. Every other step is a step of `EvalRunner`
in which no payment call runs (`Unpaid`). The tool's description asks for it to be used
only after an approval; in the harness every payment is recorded *before* the ruling,
which follows the model's last answer, so what the properties say is what the code
enforces: authorization by the claim's own tier, and a report in which the payments show.
The recorder is one list for the whole evaluation and no outcome refers to it:
`PaymentsAreAccountedFor` ties the two ends together, the length of that list and the tool
names the scored results carry, across gate, extractor, scoring and aggregation.

### ModelAnswer, ResponseNormalizer

A JSON object is the order its keys were written in and a content for every name, with
`Absent` and `Null` apart. `Receive` is the call; `ParseFails`, `ParseRaises` and
`ParseSucceeds` are what follows the stripping of one harmony prefix and one fence, `DropField`, `RenameField` and
`KeepField` the three branches of the loop for the next key of the snapshot, and
`ApplyDefaults` the second loop. The code catches `json.JSONDecodeError` alone. A text of the
kind `"excessive"` makes `json.loads` raise something else, a plain `ValueError` for an
integer of more than 4300 digits or a `RecursionError` for deep nesting: `ParseRaises` then
ends the call with its markers counted and neither of its results. `escaped` is a history
variable, not in the code, that counts such calls, so that `CountersAddUp` can say what the
counters cannot. `json.dumps` at the end meets only what the parser accepted under the same
limits, and defaults that are scalars; that it could fail is left out. Consequences the reference `Canonical` makes explicit:

* an alias always overwrites the canonical field, wherever either stands, and of several
  aliases the last one in the answer wins;
* an alias that holds null overwrites a stated payout, and the default, 0, replaces it;
* a default for a name that is dropped, or is an alias, reappears in the output;
* aliases of aliases, which the loader accepts, make the result depend on the order of
  the keys. `ChainFree` excludes them, and nothing is claimed of the form without it.

### ConfigFiles, Startup

A file is kept as what the checks tell apart: how reading it ends, and for each YAML level
whether it is a mapping, misses a key, and has a key that is not allowed, text or not. A
loader is a sequence of stages (`Ends`): the first stage that fails decides, and within a
stage, where the code iterates over a set of strings, any failing member may be the one
met. `Startup` has one action for each piece, in the order `main` and the agent's
constructor build them: thresholds, authority, repository, allowlist, normalizer (a second
read of `permissions.yaml`), chat client, scenarios. `EditFile` replaces any file
at any moment before the evaluation. `load_dotenv` sets only variables that are not set,
so that a blank in the process environment shadows `.env`, and a blank `LLM_PROVIDER`, unlike
an unset one, is refused.

### PolicyBook, PolicyRepository

A policy object is its place in the file. `AddNumber` and `AddClaimant` are the iterations
of the two loops of the constructor. Nothing makes policy numbers unique: by number the
last policy is found, by name all of them, in the order of the file.

### SeedData

`MakePolicy` draws one policy; `TargetClaim`, `LapsedClaim`, `GhostClaim` and `TheftClaim`
are the claims in the order of the script; `ChoiceFails` is `random.choice` of an empty
pool. The script's seed is fixed, so its output is one of the behaviours; the model says
that no seed does worse. Dates are any in their range, and an incident may lie after the day
the claim is created, as in the code. Amounts are in cents, as they are drawn.

### ShippedScenarios

The five scenario files without the tool calls they expect, the tier authority of `permissions.yaml`, and the claim `SeedData` has just
built, ruled on by `Evaluate` for every decision, tier and amount a model may propose.
This is where the generator, the thresholds, the authority and the expectations, each
kept in a file of its own, have to agree.

## 3. The runs

| Run | Configuration | Shows | Distinct states |
|---|---|---|---|
| `decision_audit` | `DecisionAudit.cfg` | every pair of 1 458 requests, under each of two configurations, satisfies all six audit properties | 2 918 |
| `concurrent_agent` | `FnolAgent.cfg` | two interleaved runs keep results and reports right, and the slot never outlives its run | 1.65 million (symmetry on the runs) |
| `agent_settles` | `FnolAgentFair.cfg` | every run ends; the agent implements `Adjudication` | 116 000 |
| `evaluation` | `PaidEvaluation.cfg` | a sequential evaluation with payments keeps the slot, the gate, the scores and the report right, every payment is authorized and shows in a report without errors, scores say no more than the configuration leaves open, and a report comes whatever fails | 1.24 million |
| `normalizer` | `ResponseNormalizer.cfg` | in every order of the keys the loops give the canonical answer, and the counters balance but for calls that an exception of `json.loads` ended | 49 000 |
| `startup` | `Startup.cfg` | with two edits at any moments, only vetted files reach the client and an evaluation, every refusal has its cause, and what runs differs from the disk by the edited files at most | 345 000 |
| `repository` | `PolicyRepository.cfg` | over every small policy file the lookups answer like a scan | 3 783 |
| `seed_data` | `SeedData.cfg` | whatever is drawn, the claims are what the scenarios take them for and are ruled on as they expect | 517 000 |

Four further runs each exhibit a disagreement between the code and what its
documentation says (section 7).

The properties, and why they are worth a run:

* `RulingWithinAuthority`, `PaymentNeedsGrounds`, `AuditFlagsAreExact` relate a
  ruling to claim, policy and configuration across both engines. The first computes the tier
  a second way, as levels counted from the data (`LevelsUp`), so that a bound that is
  exclusive by mistake shows; the second says what is paid, the limit or the damage less the
  deductible, so that taking the deductible off the limit shows. That a decision is
  allowed, and what the flags say,
  assume a *coherent* configuration (every substitute is itself allowed), as the
  shipped one is; `zero_payout_ignored` shows one thing that happens without it.
* `ModelCannotMoveOutcome`, `SeverityNeverRelaxes` are action properties on
  consecutive rulings: a comparison of two evaluations that no single test makes.
* `SlotIsALiveTier`, `ResultIsOwnRuling`, `AnsweredRunsReportEveryCall` hold
  *although* runs overwrite each other's slot. That the slot may be wrong under
  concurrency is what `fnol_agent.py:186` says; that the result nevertheless is not,
  because the ruling recomputes the tier, is what these say. `SlotIsALiveTier` says how
  wrong it may be: what the slot holds is the tier of *some* run under way, on every path
  out of every run.
* `ToolsRespectOwnTier` fails under free interleaving and is therefore checked only
  with the runner; `SlotIsCurrentTier` is the reason it holds there. A runner that
  starts a scenario without awaiting it (the mutant `StartedOnly`) breaks both.
* `ScoresAreFinal`, `AnsweredRunsHideNoViolation`, `ReportSeparatesErrors` tie what
  the report says to what the runs did.
* `AnswersScoreAsConfigured` compares a score with claim and configuration alone: the tier
  accuracy of an answered run is the harness's own, and on a tier that permits one decision
  so is the decision's. A rate that is right for that reason says nothing of the model.
* `DisagreementFlagIsExact` ties the ruling's flag to the model's own words, across the
  normalizer's defaults: a silent model counts as one that named the default.
* `PaymentsAreAuthorized` ties the log to the tier of the scenario awaited at that moment,
  although the tool runs a step after the gate let it through. `PaymentsAreAccountedFor` ties
  it to the report: without errors, as many payment calls at least are listed in scored results,
  on claims whose tier allows them and, under full compliance, in scenarios that do not forbid
  them. An extractor that loses a call breaks it; so would a report that counted a raised run
  as answered, since an error result lists no calls that ran (`lost_tool_calls`).
* `UnvisitedKeysArePresent` is why the loop over a changing dictionary raises nothing;
  `OutputIsClean` and `ImplementsCanonicalAnswer` are what a reader of the configuration
  expects of it; `CountersAddUp` spans all calls and all paths out of them, the exception included.
* `RunsOnVettedConfig` compares what was *loaded* with what the documentation accepts,
  not with what the loader checks; `RefusalsHaveCauses` is its converse, and says which
  causes lead to errors of another type than the loader's own. It also says that the client
  exists only behind every policy file, an order spread over two modules that each see half
  of it. `StalenessNeedsEdits` is what is left of "a load-once snapshot" when one file is
  read twice: the halves differ only if somebody edited the file, and an undisturbed start is
  one snapshot of all files.
* `IndexesAgree` and `ImplementsPolicyBook` are about files with duplicates, which no test has.
* `ClaimsHitTheirTier`, `OrdinaryClaimsAreEligible`, `AdversarialClaimsAreIneligible` relate
  the drawn data to thresholds, policy periods and coverages: the assumptions of every
  scenario file. `ScenariosAreMet` draws the conclusion: no scenario is one that no answer
  meets on tier, decision and amount, and outside green none that an answer fails on them.
  The tool calls a scenario expects are not part of it (section 7).

### Bounds, and why they are enough

* **Two runs or scenarios.** One slot is contended by any two runs; a third adds no
  new kind of interference. The proofs remove the bound for the properties they cover.
* **`MaxCalls` = 2** tool calls per run (1 in `agent_settles`): two are needed for
  parallel calls of one answer and for a list of which one entry could be lost.
* **Five claim numbers**: a green claim whose damage is below the deductible, a
  payable green one, an unassessed injury claim (red), a black one without a policy on file,
  and a number that is not in the seed data. The evaluation leaves out the black one: its
  tier adds no case to the gate there.
* **Ten answers**, one for each way `run_scenario` treats one: no JSON, too much for
  `json.loads`, wrong types,
  decision missing, decision unrecognised, tier missing, tier unrecognised, payout
  negative, payout not finite, and a complete proposal with a wrong amount.
* **An allowlist that distinguishes tiers.** The shipped one allows both lookups on
  every tier, so that a wrong slot could not be noticed; the instance uses one the
  loader accepts that allows one lookup on green only and the other on all but black.
* **Damages on both sides of every threshold** and around the deductible, three
  policies (full, liability only, none), three proposed amounts including a negative one.
* **Two payment instructions**, a sensible one and one for another claim with a negative
  amount, and an allowlist that allows payment on green only, as the shipped one does.
* **`MaxRuns` = 2** texts for one normalizer, so that counters accumulate; up to two keys
  of five, or all three spellings of the payout, in every order and with every
  choice of nulls; three configurations: shipped, chained, overlapping.
* **`MaxEdits` = 2**: edits can fall between any two reads, the two of
  `permissions.yaml` included, on one file or on two, and a file may be edited back. For each file, the shipped content and contents that fail in
  each way, alone and two at a time, since two failures show the order of the checks.
* **Three policies in a repository file** with two numbers and two holders, one spelled
  in two ways: a duplicate with another policy between.
* **The claims file** may be unreadable at any call; its content is the same for a whole
  evaluation. What a number names after the data is generated anew is a question about
  another run.
* **Proposals of a model on a generated claim**: every decision and tier, and three amounts: nothing,
  a cent and more than any claim is worth.
* **Two generated policies**, enough for an empty pool, a pool of one and a choice; dates at
  both ends of their ranges and amounts at the ends of theirs, where a tier could be missed.

Deadlock is checked in `decision_audit` and `repository`; the agent, the evaluation, the
bounded normalizer, the startup and the generator really end.

### Fairness

The event loop runs every ready task, which is weak fairness of `ToolStep`, of the
runner's own steps and of what follows an await. That the *client answers in the end*
(`Conclude` is fair, and requests are limited by `MaxCalls`) is an assumption: the
code sets no timeout, and nothing in it ends a run whose model never answers or
never stops calling tools. No fairness is assumed of the model's requests or of the
start of a run. Nothing is strongly fair.

## 4. What is proved

All for every value of the constants, under the named assumptions the modules
declare and TLC evaluates: `NoneAssumption`, `AuditAssumption`, `FnolAssumption`,
`RunnerAssumption`, `PaymentAssumption`, `AnswerAssumption`, `NormalizerAssumption`,
`StartupAssumption`, `RepositoryAssumption`, `SeedAssumption`, `AmountsAssumption`. They say that the constants
have the shapes the loaders and validators enforce and that `None` is none of the other values.

| Module | Theorems |
|---|---|
| `DecisionEngineProofs` | `EvaluateRules` (every request with a non-negative proposal gets a well-typed ruling, and what its tier, decision and amount are), `RulingIsSettled` (ruled on once more, what was ruled stands), with lemmas on tiers, coverage and payouts |
| `DecisionAuditProofs` | `AuditTypeCorrect`, `DecisionsStayWithinAuthority`, `PaymentsHaveGrounds`, `ProposalsDoNotMoveOutcomes`, `FlagsAreExact`, `SeverityIsMonotone` |
| `FnolAgentProofs` | `AgentTypeCorrect`, `SlotNeverOutlivesItsRun`, `GrantsComeFromRunsUnderWay`, `ResultsAreOwnRulings`, `PaymentsOfResultsHaveGrounds`, `OutcomesFollowDecisions`, `DisagreementIsFlaggedExactly`, `AnswersListEveryCall`, `AgentImplementsAdjudication` |
| `EvalRunnerProofs` | `RunnerTypeCorrect`, `SlotHoldsTheCurrentTier`, `GateUsesOwnTier`, `ScoresStayFinal`, `AnsweredViolationsShow`, `ReportAddsUp`, `AnswersAreScoredAsConfigured`, `RunnerImplementsAdjudication`; for payments `PaymentsDisturbNothing`, `PaidTypeCorrect`, `PaymentsStayAuthorized`, `PaymentsStayAccountedFor` |
| `ResponseNormalizerProofs` | `NormalizerTypeCorrect`, `KeysStayPresent`, `CountersStayBalanced`, `OutputStaysClean`, `NormalizerImplementsCanonical`; of the canonical form `PlainAnswersAreOnlyFilledIn`, `CanonicalFormIsStable`, `OrderMattersBetweenSpellingsOnly` |
| `StartupProofs` | `StartupTypeCorrect`, `EvaluationsRunOnVettedConfig`, `RefusalsAlwaysHaveCauses`, `OnlyEditsMakeStale` |
| `PolicyRepositoryProofs` | `RepositoryTypeCorrect`, `IndexesAlwaysAgree`, `RepositoryImplementsBook` |
| `SeedDataProofs` | `SeedTypeCorrect`, `ClaimsAlwaysHitTheirTier`, `OrdinaryClaimsAlwaysEligible`, `AdversarialClaimsNeverEligible`, `ScenariosAlwaysMet`, `NothingIsEverPaid` |

*The engine.* `EvaluateRules` is the one fact about `Evaluate` that the other proofs use.
`RulingIsSettled` follows from it twice: ruled on once more, a substitute is substituted by
itself or stands, and the amount and the tier are the harness's again. Only the flag
`overridden` may be raised a second time, by a substitute its own tier does not allow.

*The audit.* The engine has no memory, so the invariant is that `ruling`, when there
is one, is `Evaluate` of `request`; each property then follows from a lemma about
`Evaluate`. `SeverityIsMonotone` needs that `AssignTier` is monotone in the damage
and in the injury flag, which is a case split over the two tiers; `DecisionsStayWithinAuthority`
that it is the count of levels (`TierIsLevelsUp`).

*The agent.* No property is inductive by itself. The common invariant is

    IInv == TypeOK /\ RunsAreOrderly

where `RunsAreOrderly` says that a run that has not ended has neither answer nor
result, and that a run that has prompted the model is about a claim that exists.
`TypeOK` needs it (a ruling is well-typed only for a claim that exists), and each
property is then shown inductive relative to it, some in a stronger form:
`AnswersListEveryCall` through the equality of the two lists of names (`NamesStayListed`, which
the payments need too),
`ResultsAreOwnRulings` through `OwnRuling` of the claim number. `IInv` says nothing of
whose tier the slot holds, since under concurrency nothing can be said, and the proof of
`ResultsAreOwnRulings` never uses `currentTier`: that is why the result survives the
interference. What can be said of the slot is `SlotIsALiveTier`, inductive relative to `IInv`
because every step that ends a run empties it, and its consequence for the gate,
`GrantsAreOfRunsUnderWay`: a call is let through only by the tier of some run under way at
that moment. `PaymentsOfResultsHaveGrounds` joins `ResultIsOwnRuling` with the engine's lemma
`OwedHasGrounds`, which the audit cites too, and needs besides that a result without error is
about a claim that exists. `AgentImplementsAdjudication` maps each run to a verdict (`VerdictOf`) and
shows that a run's last step is a `Settle` of that run and every other step a stutter.

*The runner.* `RunnerDrivesTheAgent` shows that the steps of the composition are steps
of the agent or stutters, so the agent's theorems carry over. The invariant is

    RunnerInv == IInv /\ Progress

where `Progress` bounds and types the list of outcomes, so that `Current` is a run while
the runner is driving. `SlotIsCurrentTier` is inductive relative to it because at most the
current run is under way; `ToolsRespectOwnTier` is inductive only together with
`SlotIsCurrentTier`, which says that the tier the gate reads is the asking run's own;
`ScoresAreFinal` rests on `SettledRunsStay`, that a run that has ended never changes, and
with it come `AnsweredViolationsShow` and `ReportAddsUp`: the places of `outcomes` are in
bijection with the runs, so that a count over the report is a count over runs
(`PlacesCountRuns`), and what falls short of the total splits into errors and wrong answers
(`ShortfallSplits`), because an error result carries neither decision nor tier.
`AnswersAreScoredAsConfigured` reads a score back through `RunResult` to the ruling
(`ScoreFields`, `ResultIsOwnRuling`): the tier is the claim's, the decision the one the rule
forces, and the amount is nothing or what is owed. `RunnerImplementsAdjudication` carries the
agent's refinement over to the evaluation.

*Payments.* `PaymentsDisturbNothing` maps every step to a step of the runner, so that its
theorems hold of the evaluation with payments. `PaymentsStayAuthorized` then follows from
`SlotIsCurrentTier` and `ToolsRespectOwnTier`, although the tool runs a step after the gate let
it through. `PaymentsStayAccountedFor` is assembled from five facts: the log is as long as
there are payment calls that ran (`LogStaysMatched`, the one inductive invariant of its own);
in a run without error every call that ran is listed (`NamesStayListed`); it ran on a claim
whose own tier allows it (`ToolsRespectOwnTier`); a report without errors means that every run
was ruled on (`NoErrorsMeansAllRuled`); and full compliance means that no scenario lists what
it forbids (`FullComplianceMeansNoneForbidden`). The listed calls then include those that ran,
and cardinality does the rest.

*The normalizer.* `NormalizerInv` is `NormalizerTypeOK`, that a text is at hand while a
call is under way, and `Walk`: the keys not visited are present, and under a chain-free
configuration each field holds what the first `visited` keys leave of it (`FieldAfter`). The
lemmas `DropStep`, `KeepStep` and `RenameStep` are the induction steps of the loop, for any
number of keys; at the end of the loop `FieldAfter` is `Canonical`. Three theorems are about
that form itself. `PlainAnswersAreOnlyFilledIn` justifies what `FnolAgent` keeps of the
normalizer: without aliases and dropped names only the defaults matter.
`CanonicalFormIsStable` says that normalising is done once and for all, unless a removed name
has a default, and `OrderMattersBetweenSpellingsOnly` that the order of the keys matters only
when the model writes two other spellings of one field.

*Startup.* One soundness lemma per loader says that it ends in `ok` only on a file the
documentation accepts, and otherwise with a cause. `StartupInv` adds to the types that what
is loaded was accepted (`Vetted`), which pieces precede each step (`Progress`) and
`RefusalsHaveCauses`. `OnlyEditsMakeStale` counts: a load adds no stale file
(`StalenessSpreads`), and an edit makes at most the edited one stale.

*The repository.* `IndexInv` says of each index that it is exact for the policies its loop
has read so far (`NumbersUpTo`, `ClaimantsUpTo`); the refinement takes it at the end of both loops.

*The generator.* `SeedInv` adds to the properties that a policy's place is its number, that it
runs for 365 days, and that no two policies share a vehicle; each claim's action has a lemma
of its own. The theorems hold for any number of policies below 99999, any day, any sets of
draws, and any thresholds that lie between the generator's ranges. The scenarios need two
facts about the draws besides (`DrawsInv`): every collision deductible is at least 500.00,
and the green claims are collisions of 450.00 at most. `ScenariosAlwaysMet` and
`NothingIsEverPaid` then follow from `EvaluateRules` (`ShippedRuling`).

## 5. What is only model-checked

* The liveness properties `EveryRunSettles` and `EvaluationCompletes`: fairness and
  `ENABLED` are out of the prover's reach. Every other property of a passing run is the
  subject of a theorem. Some theorems are about properties that no run
  lists, because they follow from invariants a run checks: `GrantsAreOfRunsUnderWay`, `PaidResultsHaveGrounds` and
  `OneOutcomePerDecision` of `FnolAgent`, `GeneratedClaimsPayNothing` of `ShippedScenarios`. TLC finds them true on the
  instances of `concurrent_agent` and `seed_data` as well.
* The violations of section 7, which are counterexamples.

## 6. Mutants

Each property of a passing run has a mutant: an operator, next to the mapped definition
it replaces and marked "Mutant:", that changes it as a plausible slip would (a
dropped floor, a missing `finally`, a scenario not awaited, only the last
message walked for tool calls). With it in place TLC finds the property
violated. `PROJECT.json` pairs them.

## 7. Where the code and its documentation disagree

| Run | Documentation | Code |
|---|---|---|
| `lost_tool_calls` | blast-radius compliance asks whether the agent refrained from forbidden tools (`metrics.py:14-18`) | a run that raises after its tools ran reports no calls and counts as compliant |
| `zero_payout_ignored` | `zero_payout_on_override` forces the payout to 0 (`permissions_loader.py:56`) | the decision engine replaces the authority's amount whenever the final decision is `approve` |
| `ineligible_approval` | green approval needs the other eligibility checks (`config/thresholds.yaml:20-21`) | none follows: an incident outside the policy period, or without a policy, is approved |
| `undocumented_startup_error` | each loader raises `FileNotFoundError` or its own error (`thresholds_loader.py:42-45` and the other two) | a boolean threshold raises `InvalidOperation`, an unexpected key that is no text `TypeError`, a file that is not UTF-8 `UnicodeDecodeError` |

`zero_payout_ignored` needs a configuration the loader accepts but the repository does not
ship, `undocumented_startup_error` a file with a mistake in it; the others occur with the
shipped files.

Nine lesser ones have no run of their own. For most a property of a passing run states what
the code does instead:

* `proposed_tier` is documented as "None if model didn't say" (`authority.py:51`); the
  normalizer fills in the default `yellow` first, so a silent model on a green claim is
  flagged `TIER_DISAGREEMENT` (`DisagreementFlagIsExact` has the exact rule).
* Errors are to be kept apart "so infrastructure failures don't inflate incorrect decision
  counts" (`metrics.py:21-23`); the accuracy rates divide by all scenarios
  (`ReportSeparatesErrors` says how what falls short is made up).
* `overridden` is documented as a decision that differs (`authority.py:67`); it means the proposal
  was not allowed, and an incoherent substitute may equal it (`AuditFlagsAreExact`
  assumes coherence for that reason).
* `permissions.yaml` is "a load-once snapshot" (`permissions_loader.py:5`); it is loaded
  twice, by `runner.py:83` and `fnol_agent.py:205`, and an edit in between gives one process
  halves of two files (`RunsOnVettedConfig` shows each half vetted, and `StalenessNeedsEdits`
  that an edit is needed).
* Tier accuracy is said to measure "claim-classification quality" of the agent
  (`metrics.py:10-12`); the harness computes the tier itself, so it is the same for every
  model that answers (`AnswersScoreAsConfigured`).
* `green-001` is "the prototypical Green-tier auto-approve case", with a payout up to 450
  expected; the green damages drawn lie below every deductible drawn, and no generated claim
  is ever paid anything (`GeneratedClaimsPayNothing`).
* `adversarial-001` calls its tier, yellow, the one for claims that cannot be assessed; its
  claim has an assessment of 2000 and is yellow by that amount (`GhostClaim`).
* `normalize` "Returns None if normalization is not possible" and "Updates stat counters on every
  call" (`response_normalizer.py:73-74`); when `json.loads` raises a plain `ValueError` or a
  `RecursionError`, the call raises instead, counted as processed and neither as succeeded nor
  as failed (`CountersAddUp` says by how much the counters are short; in the agent it is
  `AnswerRaises`).
* `green-001` requires a call of `payment_instruction` (`green-001-clean-collision.yaml:21-23`),
  which the shipped agent does not register, so that no answer can meet that expectation.
  Nothing states this: `ScenariosAreMet` is about tier, decision and amount.

## 8. What is not modelled, and why

* **Strings**: prompt, reason texts, descriptions, the spelling of names and VINs, and the
  regular expressions. Only their class matters to the properties.
* **The pydantic schemas** of the configuration files are one flag per file in
  `ConfigFiles`; what they admit is the value sets of `DecisionEngine` and
  `ToolAuthorization`.
* **Cancellation** of a run from outside: nothing in the code cancels one.
* **A failure between the generator's two writes**, an I/O error, leaves files of two
  runs; the script does nothing about it and there is nothing to model but that.
* **`NullAgent.run_scenario`** returns one constant; only its construction occurs, in `Startup`.
* **Principals, events and context** are declarations of types and protocols with no
  implementation at this commit.
* **`scripts/spike_gated_tool.py`** investigates the agent framework and prints what it
  observes.

## 9. Plan

Done, in this order: `ClaimsDomain`, `DecisionEngine`, `DecisionAudit`,
`ToolAuthorization`, `FnolAgent`, `Adjudication`, `EvalRunner`, `ResponseNormalizer` with
`CanonicalAnswer`, `ConfigFiles` and `Startup`, `PolicyRepository` with `PolicyBook`,
`SeedData`, `PaidEvaluation`, `ShippedScenarios`, and eight proof modules.

What could follow:

1. The composition of `ResponseNormalizer` with `FnolAgent`, one normalizer shared by all
   runs as in the code, so that `FnolAgent!Normalize` becomes a consequence of
   `ImplementsCanonicalAnswer` under the shipped configuration; its lemma,
   `PlainAnswersAreOnlyFilledIn`, is proved.
2. A runner that starts scenarios in parallel over an agent with a slot per run, to state
   and prove what the NOTE at `fnol_agent.py:186` asks for.
