# PromptOpt in TLA+

A verification development of PromptOpt, a Go program that improves prompts: it
evaluates a prompt on a set of samples, reflects on the failures with an
optimiser model, mutates the prompt, keeps a Pareto frontier of candidates and
delivers the best one. The modules in this directory are translated from the Go
source; `PROJECT.json` maps every definition to the lines it stands for.

Run a model with `tlc -config <name>.cfg <module>.tla` and check the proofs of a
module with `tlapm <module>.tla`.

## The system

| Part | Source | State it keeps | Operations |
| --- | --- | --- | --- |
| Dispatch budget | `internal/eval/budget.go` | evaluations reserved, tokens per role, the soft stop; one mutex | `TryAcquireEvals`, `RecordUsage`, readers |
| Evaluation engine | `internal/eval/engine.go`, `judge.go`, `judge_decision.go` | a verdict per sample, the worker pool, the once-only stop notice, the run's status | `Run` (dispatcher), `evaluate`/`executeRep` (workers), `judge`, `judgeDecision` |
| Metrics | `internal/eval/metrics*.go` | none | pure scoring of one answer |
| Pareto frontier | `internal/engine/frontier.go` | the members | `Add`, `AddNoiseAware`, `Complement`, `Best`, `Wins`, `UniformPick` |
| Optimisation loop | `internal/engine/loop.go`, `gepa.go`, `vista.go` | frontier, lineage, best mean, stagnation, stop reason | `NewLoop`, `Evaluate`, `Admit`, `MarkIncomplete`, `Finish`, the rounds of `gepaRun.run` |
| Reflector, mutator | `reflector.go`, `mutator.go`, `candidate.go` | none | one optimiser stage each, with a single repair call |
| Advisor | `calls.go` | the learned completion cap, whether the valve's event was emitted | `Call` (escalation ladder), `ValveTripped`, `NotifyValve` |
| Lineage, report | `lineage.go`, `report.go` | `lineage.json`, rewritten whole on every append | `Append`, `Lessons` |
| Other optimisers | `internal/optimizers/*` | bandit, populations, tables | ProTeGi, MIPROv2, EvoPrompt, P1; the router that picks one |
| Harness | `internal/harness/*` | the artifacts of `synth/<run_id>/` (samples, verdicts, checkpoint) | synthesize, variance filter, approval gate |
| Web dashboard | `internal/web/*` | event bus with bounded subscriber queues, artifacts on disk | review edit, delete, approve; adopt; live pages |
| Run orchestration | `cmd/promptopt/run.go` | sinks, event fan-out, exit code | `runSynthesized`, `startSink`, terminal `run_done` |
| Adoption, rollback | `rollback.go`, `web/frontier.go` | the adopted prompt, its journal | adopt, rollback |
| Anchors, pool | `internal/anchors`, `internal/pool` | staging and confirmed libraries, the prompt pool | `Add`, `Promote`, `Append`, `Best` |
| Providers | `internal/provider/*` | rate limiter's next slot, meter per role | `doWithRetry`, `Wait`, `Chat` |
| Verify, statistics | `verify.go`, `internal/stats` | verify directories | the differential verdict |
| MCP server | `internal/mcp`, `cmd/promptopt/mcp.go` | the tools' orphaned sinks | `callTool` |
| Configuration | `internal/config`, `cmd/promptopt/config.go` | the project's and the user's file, the run's manifest | the resolvers of `run` and `verify`, `set`, `unset`, `init` |
| Replay | `cmd/promptopt/replay.go` | none | prints a finished run's traces |

How they interact. `run.go` builds one `Budget` per run and shares it by pointer
with the engine and the optimiser's `Loop`. The loop calls `Engine.Run` for
every probe and every child (an *evaluation unit*); the engine reserves slots and
meters tokens on the shared budget while its workers call the providers. The
loop's own model calls go through the Advisor, which meters the `optimizer` role
on the same budget and reads its own limit, the valve. Both emit events through
one fan-out to `events.jsonl` and the web bus. The caller cancels by a context
(`Ctrl-C`, or the MCP session), at any moment. The dashboard and the CLI meet
only on disk: samples under review, the approval, the adopted prompt.

What is hard about it:

* The engine is a pool of goroutines. Reservation, hand-over, metering and the
  reading of the soft stop are separate critical sections, so a token limit
  found out late meets samples already under way.
* One cancellation is seen in different places (head of dispatch loop, end of
  run, head of round, end of probes), and an undispatched sample is what both a
  cancellation and an exhausted budget leave behind.
* Dominance between candidates carries a margin taken from the pair's own
  standard deviations. It is not transitive, and admission and eviction happen
  one candidate at a time.
* A round can fail in a dozen places, and the stagnation counter, the frontier,
  the best mean, the lineage and the stop reason have to stay in agreement
  through all of them.
* Retries, the escalation ladder, the repair call and the valve multiply; each
  keeps an account of its own of the same tokens, and all callers share one
  rate limiter that hands out slots a cancelled caller lets lapse.
* Each optimiser keeps books beside the frontier (a bandit, a population, a plan
  of the evaluations left) that only round ends bring back into agreement.
* Humans edit the sample artifact and the approval while the pipeline polls it.
* Commands share a directory without locks. Most of them write two files in a
  row, and another command, or a crash, may come in between.

What makes each part correct is stated with the properties below for the parts
modelled, and for the others in `PROJECT.json` under `hazards`, each entry at
the line where it bites.

## The modules

| Module | What it is |
| --- | --- |
| `Budget` | The budget as a value; each method is an operator applied in one step, as it runs under the mutex. |
| `EvalContract` | What an evaluation run promises its caller: every sample one verdict, a status that follows from the verdicts and the cancellation. |
| `EvalEngine` | `Engine.Run` in full: dispatcher, workers, repetitions, judges, soft stop, cancellation. Implements `EvalContract`. |
| `Pareto` | Dominance, margins, clones, admission, eviction, `Best`, `Complement` as operators on sets of candidates. |
| `Frontier` | The frontier over any sequence of offered candidates: the abstract specification of what a run does to it. |
| `Loop` | What all optimisers share: the state of `engine.Loop` and of the valve, units, stages, admission, lineage. |
| `Gepa` | The GEPA round over `Loop`. Implements `Frontier`. |
| `Scaffold` | How the other optimisers stand on `Loop`: gates, ends, the ways an evaluation of a child may go. |
| `ProTeGi`, `EvoPrompt`, `MIPROv2`, `P1` | Bandit over failure folds; population; joint search over instructions and demos; plan for a tight budget. |
| `Optimizers` | The router, and one run of the optimiser it or the flag picks. |
| `Provider` | One model client: retries, rate limiter, what it makes of an answer, meter. |
| `Calls` | All model calls of a run over that client: synthesis, executor pool, optimiser stages; ladder, repair, valve, accounts. |
| `Review` | A zero-config run from its synthesis to its optimisation, against the review handlers that edit, delete and approve on the same files. |
| `EventStream` | Events of a run with `--web`: fan-out, log, bus, the clients' channels, and how the sink is taken down. |
| `Commands` | Processes that share a directory, and a journal whose last line may be cut short. |
| `Adoption`, `AnchorLibrary`, `Verify`, `PromptPool`, `McpSession`, `Settings` | The commands on finished runs, each over the files it reads and writes. |
| `Workspace` | Their composition: any overlap of commands, each of which may fail or be killed. |
| `MCEvalEngine`, `MCFrontier`, `MCGepa`, `MCOptimizers`, `MCReview`, `MCWorkspace` | Values for the small instances; `Calls` and `EventStream` need none. |
| `EvalEngineProofs`, `FrontierProofs`, `GepaProofs`, `OptimizersProofs`, `CallsProofs`, `ReviewProofs`, `EventStreamProofs`, `WorkspaceProofs` | The theorems. |

A definition marked *slip* is a plausible mistake in the definition that follows
it. No specification uses one; each is there to be put in that definition's
place, to show that a property notices.

### Budget and EvalEngine

`Budget.CanAcquire`/`Acquire` are `TryAcquireEvals` (all or nothing),
`RecordUsage` arms the soft stop when executor and judge tokens pass the limit.

| `EvalEngine` | `engine.go` |
| --- | --- |
| `CheckContext` | the `ctx.Err()` test at the head of the dispatch loop; a cancelled one gives up every later sample |
| `AcquireSlots` | `TryAcquireEvals(reps)`; a refusal leaves the sample undispatched and the loop goes on |
| `HandOff` | the unbuffered send, the worker's receive, `sample_start` |
| `ExecutorCall`, `CheckAnswer` | the provider call with its metering; then, in a critical section of its own, the soft stop and the empty answer |
| `DecisionCall`, `JudgeCall`, `CheckJudged` | the decision model with its fallback, the generative judge, the second look at the soft stop |
| `EndRep`, `FinishSample` | the call trace and the next repetition; the sample trace, the verdict, `sample_done` |
| `Conclude` | `wg.Wait`, the second reading of the context, the status, `run_done` |
| `Cancel` | the caller's context |

A provider call and its metering are one step: until `RecordUsage` the answer is
local to the worker, so every interleaving of the two is one of the merged
step's. Scores, prompts and trace contents are left out: an answer is what it
cost and whether it was usable. `StartBudgets` is the set of budgets a run may
find, since a budget is shared by all the units of an optimisation run; its
members satisfy `Reachable`, checked as an assumption.

### Pareto and Frontier

A candidate is a record of its row of primary scores, the deviations of the row
when it was repeated, and its constraint mean. Scores are integers where the
program has floats: only comparisons and sums of them matter, and all rows have
the same cells, so means compare as sums. A row has deviations when its samples were
repeated and some of them scored: of repeated samples that all failed the code keeps none
(`recordsSDRow`), so that a run with `--reps` compares such a child without a margin,
although the comment at `Loop.Admit` says that mixed pairs cannot arise there.
`Frontier.Offer` is `Loop.Admit` seen
from the frontier: a child of a later round is compared, admitted or refused,
and evicts what it beats. Which candidates come, and in which order, is free.

### Loop and Gepa

One goroutine, so its steps are the stretches between two points where the loop
can notice a cancellation. `at` names where it stands:

| Action | `gepa.go` |
| --- | --- |
| `Gate` | head of the loop: rounds used up, cancelled, exhausted, or a new round |
| `Reflect` | the reflection stage: refused at the valve, failed (a stagnant round), or some hypotheses |
| `Probe`, `EndProbes` | one hypothesis on a minibatch; without a comparable lift the round ends |
| `Mutate` | the operator ladder (restart, merge, rewrite) and its optimiser stage |
| `Child` | the evaluation on all retained samples, `Admit` or `MarkIncomplete`, the lineage record, progress |
| `UnitError`, `Finish` | a unit that cannot write; the report |
| `Cancel` | the caller's context |

An evaluation unit is used by what `EvalEngine` establishes of it (`RunUnit`): it
dispatches some of its samples, meters what they cost, respects the evaluation
limit, and leaves a sample out only when cancelled or when the budget could not
take one more. An optimiser stage is a series of calls of unknown cost and
answer; `Calls` has what happens in one. The random choices (parent, minibatch,
hypothesis) and all texts are left out: they restrict neither the row a child may
have nor the course of the loop. Ids stand for the round of a candidate, 0 for
the baseline.

What a child's evaluation gives is any row of `Candidates`: with or without deviations, as
`--reps` has it, and with a mean of `json_validator`, when the task declares it. The noise
gate and the constraint are the two places where the loop's own record of the best mean
leaves the frontier (`gepa.go:241-245` looks at neither), and where a candidate with a better
mean is given up on purpose; the properties below name both and claim no more.

The budget is the run's, shared by pointer with the pipeline (`run.go:366,384,628`). The
synthesis is charged to the optimiser's role without being stopped by its valve
(`pipeline.go:152`), the probes and the baseline to the executor's: a loop begins with any
budget of `Inherited`, beyond the valve or with the soft stop armed, too, and `brought`
remembers what the optimiser's role had spent by then.

`Admit` changes the frontier in memory and then writes the lineage. The model takes both in
one step: nothing reads the frontier in between, `frontier.json` is only written by
`Finish`, and a write that fails ends the run with an error (`Admit`'s second disjunct),
of which the properties say nothing.

### The other optimisers

`Scaffold` begins where `run.go` hands over: the baseline is on the frontier and
the synthesis, the probes and the baseline are paid for (`Inherited`). `Optimizers` keeps the
variables of the four side by side and gives the run to the one `Resolve` picks;
those of the others stay at their initial value.

| Module | Actions and code |
| --- | --- |
| `ProTeGi` | `Gate` with `bandit.Select` over the folds of `makeFolds`; `Stage` for gradient and apply; `Child` with `bandit.Update` |
| `EvoPrompt` | `Seed`, `Seedling` (round 0), `Gate` with `truncate` and `planBirths`, `Breed`, `Child`; a birth names its parents by place |
| `MIPROv2` | `Propose`, `Gate`, `Combo` and `EndCombos` (`scoreCombos` with `drawDemos`, `minibatchFrom`), `Child` |
| `P1` | `planStar`; the inner search (`Gate`, `Stage`, `Probe`, `EndProbes`, `StarChild`) by what it spends and how it ends; `Searched`, `Final` |

UCB1's formula after the first visits is left free, as is every random draw.
MIPROv2 keeps demos out of the minibatch their pair is scored on; the pair it promotes is
then evaluated on every retained sample, its own demos included (`miprov2.go:171`), and
that row decides admission and delivery. The model has it so, and `LeakFree` speaks of the
choice among pairs only.

### Provider and Calls

Time is relative: a timer is the ticks it still has to run, the limiter's next
token the ticks until it is granted. A timer that has run out may be noticed
late. The gateway answers what it likes, or not at all until the deadline.

| Action | Code |
| --- | --- |
| `Chat`, `Attempt`, `BackedOff` | the head of an attempt with `rateLimiter.Wait`, which reserves its slot under the lock; the next attempt |
| `Granted`, `GivesUp` | the `select` on timer and context, in the limiter and in the back-off |
| `Refused`, `Rejected`, `Answered` | 429, 5xx and transport errors with `retryDelay`; what no retry mends; an answer, as the OpenAI or the Messages client reads it, and the meter |
| `Tick` | the clock |
| `StartCall`, `RefuseCall`, `ReadAnswer`, `CallFails` | `Advisor.Call` and `Synthesizer.call`: valve, ladder, learned cap, accounts |
| `Parsed`, `Repair`, `Unusable` | `Defend`, `defendWithRepair` and the give-up |
| `CannotWrite`, `Abort`, `WorkerChat`, `PoolDone`, `Cancel` | traces and artifacts that cannot be written, the loop's gate, the pool, the caller |

A cap is the number of doublings above the configured floor. The rate is counted
over a window that begins whenever the client is quiet, so that the counters stay
small; the window is the stretch of one call or one pool.

### Review

The run and the dashboard share files, no memory. A file is replaced by a rename
(`SaveJSON`), so each load sees one version; the handlers' load-change-save cycles
are serialised by `synthMu`, the run reads without it. The run reads `samples.json`
three times, and each reading is a step.

| Action | Code |
| --- | --- |
| `Synthesise`, `FilterApply` | the calls of `Pipeline.Run` up to `SaveFilterReport`; every sample's verdict follows from the probe scores it got (`Classify`) |
| `Gate`, `Autopilot`, `Poll`, `AbortWait` | `Checkpoint.Gate`: written pending, then flipped or polled; the `select` on the context |
| `Reload`, `Baseline` | the re-read of the artifacts, the fallback when nothing was kept, `Engine.Run` on the kept samples by its status alone |
| `Route`, `Prepare`, `Optimise` | `resolveOptimizer` and `runOptimization`, each with `retainedSamples`; the stop reason becomes the status |
| `Fail`, `Cancel` | an error anywhere in the run, the signal |
| `EditRequest`, `DeleteRequest`, `SaveSamples` | a handler takes the lock and loads; it saves, or the validation refuses |
| `ApproveRequest`, `Approve` | the approve button |
| `HandEdit` | the files edited with an editor while the gate is open, external to the program |

`touched` is history: the rows saved with a change after the pipeline's reading. The
optimiser's baseline is joined to the rows by id (`run.go:614`), so a row edited that late
keeps the score of its old content; `EveryCellMeasured` says that this is the only way
an unevaluated content is optimised.

A row is an id and a content; texts, splits and the spec are left out. The probes'
call failures and the budget they run under show as scores that are not there. Two
editors, or an editor and a click at once, are not modelled: the code does nothing
about them.

### EventStream

An emission is two steps under the fan-out's lock, the write to `events.jsonl`
(`Write`) and the round over the handlers (`Publish`, under the bus's own lock), so
that a client may come or go between them. An event is its position in the log.

| Action | Code |
| --- | --- |
| `EmitEvent`, `Publish` | `eventFanout.emit` and `Bus.Publish`, from any worker or from the run's goroutine |
| `Adopt` | `handleAdopt`, which publishes on the bus only |
| `EngineDone`, `Calibrate`, `LoopDone`, `TerminalRunDone` | the `run_done` and usage events of `Engine.Run` and `runSynthesized`; a synthesized run keeps the engine's `run_done` to itself |
| `GiveUp`, `Finish` | the exits of `runSynthesized` and `finishRun`, the stay until Ctrl-C |
| `Unhook`, `BusClose`, `Shutdown` | the steps of `runSink.close` |
| `Connect`, `Receive`, `Leave` | `Bus.Subscribe`, the loop of `handleLiveEvents`, `Bus.remove` |
| `Interrupt` | the sink's signal context |

`last` and `slow` are history: the last logged event a client was sent, and the
clients that missed one because their channel was full.

### Workspace

A process carries out one command. Each read or write of a file is a step, and
between two of them anybody else may step, or the process may be killed (`Die`).

| Module | Actions and code |
| --- | --- |
| `Adoption` | `HandleAdopt` (`web/frontier.go`, one atomic write); `RollbackRead`, `RollbackPick`, `RollbackJournal`, `RollbackSave` (`rollback.go`) |
| `AnchorLibrary` | `AnchorAdd`, `AddLoad`, `AddScan`, `AddReread`, `AddSave` (`Store.Add`, which reads one layer, the other, and the target again); `PromoteLoad`, `PromoteRead`, `PromoteConfirm`, `PromoteUnstage` (`Store.Promote`, two reads and two writes) |
| `Verify` | `VerifyLoad`, `VerifyMkdir` (named by the second), `VerifyGather`, `VerifyEvaluate` (both sides, the scores `Collected` by id, `verdict`, `--promote`), `VerifyReport`, `VerifyFails` |
| `PromptPool` | `RunStart`, `PoolCompare`, `PoolAppend` (`poolReflect`), `FinishRun`, `RunFails` |
| `McpSession` | `ToolCall`, `VerifyAnswer` (the newest report directory), `OptimizeAnswer`, `Panic` with `closeOrphanedSinks` |
| `Settings` | `ConfiguredRun` (the resolvers of `config.go`, `DeriveSources`, `runManifest`), `ConfiguredVerify` (`resolveVerifyConn`), `EditLoad`/`EditRead`/`EditRename` (`set`, `unset`), `InitAsk`/`InitCancel`/`InitWrite` |

A sample is an id and an input, which stands for its hash: the library dedups by the hash
and nothing keeps ids unique across datasets, while a dataset's own are
(`WorkspaceAssumption`, `core/load.go:132`). A candidate stands for its prompt, the baseline
among the members that may be adopted; a key's value for a number of which 0 is the zero
value. A journal is a sequence of records among which a cut line (`Torn`) and one that ran
into it (`Garbled`) may stand. `displaced`, `raced`, `halved`, `endorsed` and `overwrote` are history.

## The runs

A cfg only gives values to constants: every run checks the modules as they stand.
Passing runs take from seconds to about two and a half minutes with two workers.

| Run | Question | Bounds, and why they are enough |
| --- | --- | --- |
| `eval_limits` | Both limits crossed while the pool is full, on budgets others have used | 4 samples, 2 workers, 2 repetitions, llm judge, token limit 2, evaluation limit 8, inherited budgets below, at and beyond the limits (with one evaluation used, the limit falls inside a sample): two samples in the pool, one at the channel, one never sent |
| `eval_contract` | Does every run report, and is the engine its contract? | 3 samples, 2 workers, decision judge with fallback (all three calls) |
| `frontier` | What survives of a Pareto set under per-pair margins, and is it one without them? | 2 cells, scores 0..2, under a constraint, deviations 0 or 1, repeated rows mixed with single ones, baseline and 2 children: an eviction after a refusal, and the non-transitive triple |
| `gepa` | Every limit crossed at every place of a round; restarts; does every run return? | 5 rounds with stagnation limit 2 (two restarts fit), 2 cells, scores 0 and 1, 2 repetitions with deviations 0 or 1, 2 hypotheses, token limit 1, evaluation limit 14 of which the baseline took 4, optimiser limit 4 in stages of 3 (it is overshot); begun at the token limit and one short of the valve, with the soft stop armed, and with the valve passed by more than a stage. No constraint here |
| `optimizers` | The books of the other four optimisers | 2 rounds, 2 cells, scores 0 and 1 measured once, a constraint met or not, token limit 1, evaluation limit 10 with 4 or 6 used (the plan of `P1` has a full share, and hardly any), optimiser limit 3 in stages of 3, begun as `gepa` is, population 2 (the children of the first generation are already cut), demo pool and demos 2 |
| `review` | Edits, deletions and approvals from two tabs at any moment; does the wait end? | 1 synthesised row and 1 to add by hand, 2 contents, 2 probes, 2 requests: two of everything that can collide; the filter may keep none, one or both |
| `events` | Order, gaps, the last events, the channels; can a client keep the run from closing? | 2 clients, channels of 2, 1 event and up to three closing ones: a client can fall behind, lose an event, catch up, or stop reading for good |
| `calls` | Rate, accounts and bounds of calls that err, hang, burn their cap and are given up | the optimiser and 2 workers on one client, 2 attempts, interval 1, `Retry-After` beyond its cap, optimiser limit 4 with 1 token per answer: the valve trips inside a ladder |
| `workspace` | What remains of two to four overlapping commands, any of which may die | 26 scenes of commands that meet at the same files; 3 inputs under 2 ids (in one scene the library holds two of the same id), 2 candidates and a baseline that may be adopted, too, 2 seconds (two verifies of one second, and of two), 2 sample sets, 6 keys, one of each rule, values 0..2; one configured run |
| `gepa_cancelled`, `calls_anthropic`, `rollback_forgets` | Statements of comments and of the README that the code does not keep | see *Findings* |

What the properties say is in the modules, next to each of them. In short:

* Engine. `LimitsHeld`: the evaluation limit holds whatever a run inherits
  (`EvalLimitHeld`), no call without a slot (`CallsHaveSlots`), the token overshoot is
  bounded by the pool (`OvershootBounded`). `StopsInOrder`: at most one sample starts
  after a stop (`AtMostOneLateStart`), and it is announced exactly when this run
  crossed the limit (`StopAnnounced`). `ReportIsFinal`: no two workers on one sample
  (`OneWorkerPerSample`), nothing after `run_done` (`RunDoneIsLast`),
  `budget_exhausted` is never a cancellation nor an early refusal
  (`ExhaustionIsReal`). Every run reports (`Reports`) and implements its contract, with
  the contract's fairness (`ImplementsContract`).
* Frontier. Members neither beat nor repeat each other beyond the pair's margin
  (`PairwiseBeyondNoise`). `GroundKept`: whatever was admitted is matched on every cell
  by one member, exactly (`NoGroundLost`), and whatever was refused, up to the noise
  (`RefusedWithinNoise`). `ParetoWhenOnce`: as long as all rows are measured once, the
  members are the maximal rows of everything offered, each once
  (`FrontierIsPareto`), and a merge partner helps where the parent fails
  (`ComplementHelps`); then the deliverable does not get worse either, but for one case
  the design accepts (`BestNeverRegresses`).
* Loop. `MembersExplained`: only candidates evaluated on every sample become members
  (`OnlyWholeMembers`), and the lineage explains the frontier
  (`LineageExplainsFrontier`). `BestDelivered`: no member is better than the loop's best
  mean, and some member reaches it but for the measured noise, without a constraint the
  deliverable itself (`ProgressTracksBest`); every way out delivers what nothing evaluated
  in full surpasses but for that noise, except a candidate that met the constraint better
  and was given up for a member that matches its row (`DeliversTheBest`). Where nothing is
  repeated and no constraint declared, both concessions are empty. `StopsHeld`: the loop
  passes the valve by less than one stage, and spends nothing at all when the synthesis had
  passed it before (`ValveOvershootBounded`); one stage spends after a soft stop, not two
  (`AtMostOneLateStage`). Restarts are spaced (`RestartsSpaced`), every run returns
  (`Terminates`), and the loop's frontier steps are `Frontier`'s (`UsesFrontier`).
* Other optimisers. `RunsExplained`: as above. `BooksAgree`: every closed round was
  charged to an arm or failed, and failing rounds delay an arm by their number only
  (`ArmsInTurn`); the population's first is the fittest of all that was evaluated, a member
  of the frontier matches it but for the noise, and without noise it is the member of the
  best mean; nobody is in it twice, and planned births still mean the parents drawn
  (`PopulationSound`). `SpendsAsPlanned`: the score by which a pair is *chosen* is never of
  its own demos nor of no sample (`LeakFree`), which says nothing of the evaluation
  that admits it; until `P1`'s final
  evaluation the reserve is there (`ReserveHeld`) for the rounds the plan had in
  mind. A round that probes more than one hypothesis does use the reserve up: the plan
  keeps evaluations for one, which is why the property says so.
* Calls. `RateHeld`: a gateway never sees more requests than configured. `CallsAccounted`:
  client meter, budget and pending synthesis agree on the tokens but for lost traces
  (`LedgersAgree`); a tripped valve is passed by the rest of one ladder only, and a call
  sends a bounded number of requests (`CallsBounded`); the remembered cap is the largest
  that worked (`LearnedCapWorked`). Every run of calls returns (`CallsReturn`).
* Review. An edit or a deletion changes its own row and no other, whoever else is
  served (`NoLostEdit`). `ReadingsSound`: on untouched files the three readings come to
  the same set, also when the filter kept nothing (`ReadingsAgree`); what is optimised was
  evaluated, content included, but for rows changed after the baseline's reading, which
  keep the score of their old content (`EveryCellMeasured`). An approved or
  cancelled run ends (`ReviewEnds`).
* Events. `StreamsFaithful`: a client sees the order of `events.jsonl`, nothing twice
  (`LogOrder`); if it keeps up it misses nothing, whenever it subscribed
  (`NothingSkipped`), and is sent the last event before its stream ends
  (`FlushedBeforeEnd`). Channels are closed once and not sent to afterwards
  (`ChannelsSound`); one `run_done` at most, last, and there when the dashboard stays
  (`TerminalOnce`); an interrupted run closes down whatever its clients do
  (`ClosesDown`).
* Workspace. `Recoverable`: a rollback or a promote that died between its writes can be
  given again and comes to the same. `EndsBacked`: a gate that passes or fails has a score for every
  sample, and one that fails without a violated constraint has a sample that got worse -
  unless samples of the library share an id: then one's score stands for the other, and the
  gate may fail with no sample worse than itself, or hide one that is (`GatesBacked`); of
  the reports the session has made an answer that is no error carries its own call's, and
  no failure (a `verify` of an outside command line may come in between, and its report is
  answered), and no sink outlives its call (`AnswersBacked`), a warning rests on a better earlier
  run of the same samples (`WarningsBacked`), and what verify deposits reaches the
  confirmed layer through a promote only (`EndorsedByPeople`). `SettingsHonoured`: verify
  uses what the run recorded whatever was configured since, and a value's named source
  gave it. `NothingForgotten`: no adoption is replaced unjournalled by a rollback
  (`JournalFirst`), no sample leaves the library (`LibraryKept`), no edit of the
  settings loses another key (`SettingsKept`), unless two writers overlapped. That
  overlapping writers do lose each other's change is the code's design, without locks;
  the properties say what holds when they do not, and which hold even then.

`CHECK_DEADLOCK FALSE` appears where the system really may stop: the behaviours of
`Frontier` end when no child is left to offer, a run of `Review` ends or waits for a
reviewer who never comes, and in `EventStream` the process is gone. `EvalEngine`,
`Gepa`, `Optimizers` and `Calls` state their end by a `Returned` step and `Workspace` by
`Quiet`, so that any other stop is a deadlock TLC reports.

Fairness. `EvalEngine!FairSpec` asks weak fairness of the dispatcher and of every
worker: goroutines are scheduled, and a provider call returns, because the HTTP
client has a timeout and retries are counted. `Gepa!FairSpec` asks that the loop
itself proceeds, where units report (shown by `Reports`) and calls return. It
asks nothing of `Cancel`, and not even of the cancellation a unit may notice: a
run has to end without one. `Review!FairSpec` asks weak fairness of the run, whose
model calls return for the same reasons, and strong fairness of `AbortWait`: the
`select` at the gate chooses among ready branches at random, so a cancellation is not
passed over for ever. Of the reviewer it asks nothing. `EventStream!FairSpec` asks
weak fairness of the run's goroutines and nothing of the clients. `Calls!FairSpec` asks
weak fairness of the driver, of the clock and of each goroutine inside the client: a
request has a deadline, a timer runs out, and nothing is asked of the answers nor of
the cancellation.

## Findings

* `gepa_cancelled`: a cancellation during the evaluation of a child leaves samples
  undispatched, and the loop takes any undispatched sample for an exhausted
  budget (`gepa.go:220`). The run ends `budget_stopped`, which the command maps to
  exit code 2, though "cancellation beats budget exhaustion" (`gepa.go:89`).
  The other optimisers test the same (`protegi.go:161`, `evoprompt.go:311`,
  `miprov2.go:176`, `p1.go:163`).
* `calls_anthropic`: `calls.go:22-25` says that the cap doubles when reasoning ate all of
  it, and `calls.go:130-132` that tokens count also when the content is empty. The
  Anthropic client makes an error of an answer without a text block
  (`anthropic.go:239-241`): the ladder gives up at once, and the tokens are neither
  metered nor charged.
* `rollback_forgets`: `README.md:232` and the help of `--to` promise the previous different
  adoption. The adopt button keeps no journal (`web/frontier.go:320-322`), so after two
  adoptions in the dashboard a plain rollback goes to the baseline.

Met while reading, without a run of their own:

* `NotifyValve` is called whenever `Stopped()` holds, also when only the executor's soft
  stop is armed (`gepa.go:95`, `loop.go:112`): the report then shows the optimiser valve
  as fired below its limit.
* The review page says data is optimised only after a person has confirmed it
  (`templates/review.html:13`); an edit saved between the approval and
  `runOptimization` is optimised unconfirmed, since the handlers do not look at the
  checkpoint.
* `run.go:295-296` promises exactly one terminal `run_done`; when the pipeline returns an
  error the sink is closed without one (`run.go:395-398`).
* The manifest keeps a timeout in whole seconds (`run.go:353`), so "verify replays the
  same deadline" (`run.go:1627-1631`) fails for a fraction. `MCPersisted` has the case.
* `--promote` labels a sample regressed also when the delivered side has no score for it
  (`verify.go:759`), where `anchors.go:57-59` says it scored below the baseline.
* `verify` keys its scores by sample id (`verify.go:943-958`), the library keeps its entries
  apart by input hash (`anchors.go:136-160`): the first samples of two datasets are usually
  both `0001`, and then share the score of whichever finished last.
* The valve is looked at before an optimiser stage, and the synthesis charged to the same
  role without one (`pipeline.go:152`): a run may enter its loop beyond the valve, and then
  ends without a single optimiser stage.
* A rollback whose `--emit` cannot be written fails after the switch (`rollback.go:92`).
* The MCP tool `verify` is described with `--anchor` and `--anchor-lib`
  (`mcp/tools.go:53`), and takes neither.

## The proofs

The theorems hold for every value of the constants that satisfies the named
assumptions (`LimitAssumption`, `SampleAssumption`, `EngineAssumption`,
`CellAssumption`, `ConstraintAssumption`, `ScoreAssumption`, `LoopAssumption`,
`GepaAssumption`, `ReviewAssumption`, `StreamAssumption`, `WorkspaceAssumption`,
`ProviderAssumption`, `CallsAssumption`, `ScaffoldAssumption`, `OptimizersAssumption`), all
evaluated by TLC in the runs above. Two theorems of `EvalEngineProofs` and two of `GepaProofs`
suppose besides that the cost of one call, or of one stage, has a largest value
(`CostsBounded`), as the length of a request and of an answer has; what they state is a
multiple of it. Where a run checks several named facts under one name, the theorem of the
grouped name follows from those of its parts.

Sums, maxima and counts need an induction, and the library's induction rule takes an operator
that the provers cannot instantiate. The proofs do it over a set: a set of numbers that holds
0 and, with each number, the next is all of `Nat` (`NumberInduction`, from the well-foundedness
of `<`). Applied to the sizes for which a statement on finite sets is true it gives
`SumIsMonotone`, `SumChange`, `SumWithin` and `FirstOfOrder` (a total order has a first in
every finite set), on which all that is said of means, deliverables and books rests.

`EvalEngineProofs`
: `TypeCorrect`, `EvalLimitIsHeld`, `RunDoneIsLastHolds`, `OneWorkerPerSampleHolds`,
  `AtMostOneLateStartHolds`, `ExhaustionIsRealHolds`, `StopAnnouncedHolds`, from them
  `StopsInOrderHolds` and `ReportIsFinalHolds`; `ImplementsContractSafely`. The main inductive invariant, `DispatchInv`, says what
  position of the dispatcher, outcome, started/finished sets and pool know of each
  other: samples before `next` are started or given up, a started and unfinished one
  is the job of exactly one worker. None of the four facts alone is inductive:
  that two workers never share a sample needs that nobody has `next` yet.
  `CallsHaveSlotsHolds` counts over the pool: every worker owes the calls its sample still
  has before it (`CallsDue`), each sample handed off brings a repetition count of them, and
  calls made and calls due never exceed the slots taken (`SlotInv`). `OvershootBoundedHolds`
  does the same for tokens: each meter to come adds at most the largest cost, and once the
  soft stop is armed no new ones come (`OverInv`). `LimitsHeldHolds` joins them.
  `LateInv` adds that after a stop only the index already at the channel can start,
  and that the next check refuses. `StopAnnounced` needs that between arming and
  reporting some worker still stands before a look at the soft stop.

`FrontierProofs`
: `TypeCorrect`, `PairwiseBeyondNoiseHolds`, `NoGroundLostHolds`,
  `RefusedWithinNoiseHolds`, `GroundKeptHolds`, `FrontierIsParetoOnce`. Beating is not transitive, but it
  implies being as good on every cell (`BeatsIsAbove`), which is: so a member that
  leaves does so for one at least as good (`CoverKept`), and a cover once had is
  kept. With rows measured once, the cover together with the antichain is the
  Pareto set (`AntichainIsMaximal`). `ParetoWhenOnceHolds` adds the merge partner: the
  first complement in the code's order exists, and exceeds the parent on some cell, for
  else the parent would have dominated it. `BestNeverRegressesHolds`: the key of the deliverable is a sum
  over cells, which is monotone in the row, so whoever evicts the deliverable has at
  least its sum (`SumIsMonotone`).

`GepaProofs`
: `TypeCorrect`, where the bound on the stagnation counter is the point: with `r`
  the last restart, stagnation is at most the rounds since. `RestartsSpacedHolds`
  follows from the same bound. `AtMostOneLateStageHolds`: a round starts before any
  soft stop, and a stage that spends after one is the last of its round and run.
  `OnlyWholeMembersHolds` and `LineageExplainsFrontierHolds` by one invariant,
  `LineageInv`: every round writes one record, and in a round it has not written yet,
  so new ids are fresh; from both `MembersExplainedHolds`.
  `ValveOvershootBoundedHolds` and `StopsHeldHolds`, for stages of bounded cost and any
  inherited budget: what was `brought` is either below the valve, or all that is ever spent.
  `UsesFrontierHolds`: the loop refines `Frontier`, so the theorems about the frontier
  hold of the run's. `BestDeliveredHolds`, with repeated rows and a constraint: nothing
  offered is above the best mean, and something offered has it (`BestInv`). What was refused or evicted stands within the largest deviation below a member
  (`CoveredBy`). That is kept although beating is not transitive: whoever evicts is as good
  on every cell exactly, so that only a refusal costs noise, once (`AdmissionCovers`). A row within
  the noise has its sum within `Slack` (`SumIsClose`), whence `CoveredIsDelivered`.

`OptimizersProofs`
: `TypeCorrect`, `RunsExplainedHolds`, `BooksAgreeHolds` and `SpendsAsPlannedHolds`, over the
  router and all four optimisers, from one inductive invariant (`RunInvariant`). All share
  `LoopInv`: what is a member was admitted, evaluated in full, and has a record of its own,
  and all that was offered stands within the noise below some member. To that each adds that its next id is
  fresh, and what only it knows:
  * ProTeGi: the pulls of the arms add up to the rounds charged (`ArmBooks`), and a run that
    the router sent there has the slots for two rounds (`Afforded`), for which it must be
    known what the baseline and a first child have used (`Spent`).
  * EvoPrompt: ids and births never exceed the variants tried and the children of the rounds
    (`Ledger`), the parents drawn keep their places until all births are in (`Populated`), and
    the population holds the fittest of all that was offered, which without noise is a
    member of the frontier (`Led`). The last is the point: truncation cuts the population and
    eviction the frontier, by two orders that agree only at their head. It needs that the rank of the
    sort is a bijection (`RankFacts`), so that the first place of the cut is the fittest.
  * MIPROv2: the pairs tried, refused and still to come never exceed those of a round, and
    demos and the batch they are chosen by are disjoint (`Pairs`).
  * P1: budget used, the rest of this round, the rounds to come and the final evaluation fit
    the limit at every position of a round (`Planned`), for which a share must hold
    the probes as well as the children.

`ReviewProofs`
: `TypeCorrect`, `NoLostEditHolds`, `ReadingsAgreeHolds`,
  `EveryCellMeasuredHolds`, `ReadingsSoundHolds`, for any samples, contents, probes and number of requests. The
  invariant has three parts: at most one request holds the lock and what it has loaded
  is what the file still holds (`OneRequest`, `Loaded`); what is not there yet before
  the gate and the reload (`Early`); and that after the reload rows only go or are `touched`, with the
  flag in `filter.json` true exactly when the baseline's selection was empty
  (`Measured`). The last is what makes a later, smaller selection one of evaluated
  rows: without the flag it must be non-empty, and then the baseline's was too.

`EventStreamProofs`
: `TypeCorrect`, `ChannelsSoundHolds`, `LogOrderHolds`, `NothingSkippedHolds`,
  `FlushedBeforeEndHolds`, `StreamsFaithfulHolds`, `TerminalOnceHolds`, for any number of clients and events and
  any buffer. Three lemmas say what an append and a receive do to a channel in
  ascending order. The invariant adds that one event at most is under way, the last
  written (`Stages`), that no client holds an unpublished one (`Sent`), and that a
  client that streams without a subscription does so on a closed bus (`Channels`), when
  nothing is written any more: so what it still reads is all there is.

`WorkspaceProofs`
: `TypeCorrect`, `RecoverableHolds`, `NothingForgottenHolds`, `EndsBackedHolds` and
  `SettingsHold`, for any number of processes and any scenes, with every overlap, failed write
  and kill. Each command works on a copy of files that others may have changed since, so two
  invariants carry the rest: `ShapeInv`, what a process holds at each of its steps (a
  verdict has its evidence, what an add will write is what it found no slot for), and
  `DataInv`, what the files may hold. One lemma per kind of command (`AdoptionTurns`,
  `AddTurns` ...) says what a step makes of its process and which files it leaves alone.
  On them stand:
  * for `Recoverable` and `NothingForgotten`, `JournalInv`: a rollback's target stays what it
    was as long as no line but its own is new; `LibraryInv`, by an order on the states of the
    library (`Later`) in which one that has changed never comes back while no writers overlap
    (`Overtaken`), so that an add that finds what it has read there still finds it all; and `EditInv`, that no command makes a file that does not decode.
  * for `EndsBacked`, `GateInv` (who wrote a report is past its gate, and its exit code
    is the report's or an error's; a score that blames the wrong sample needs a shared id),
    `SessionInv` (the session makes one call at a time, and from the second of a call's
    directory on no earlier call has made a report), `SinkInv`, `EndorsedInv`, and `PoolInv`: what decodes
    keeps its place in the pool, whoever cuts a line short, so the better run a warning
    named stays before the one that was warned.
  * for `SettingsHonoured`, `ManifestRead`: what a verify used and what it should have used
    meet in the manifest, which only a run writes, when there is none.
  The folds of `Less` and `Fresh` are taken apart into a run along the sequence
  (`FoldExists` and `LessCollects`, by `NumberInduction`), from which it follows what they
  keep and in which order.

  The proof of `Recoverable` corrected the property. It had compared the journal's length only:
  at most one line more, and it is the rollback's own. But a line that runs into one cut short
  is lost with it and adds none, so the one more may be another's. Two adoptions and three
  rollbacks reach it, one of them killed within its line, and no scene of `Workspace.cfg` has
  as many processes. The guard now asks that the new last line is the rollback's own.

`CallsProofs`
: `TypeCorrect`, `RateHeldHolds` and `CallsAccountedHolds`, for any finite set of callers,
  any interval, attempts, back-off, valve and costs, and either wire format. The rate alone
  is not inductive: what a late wake-up may send was promised earlier. `Pace` counts the
  promises with the requests. The next token is never nearer than both ask for, and of the
  promises those due within `t` ticks fit the rate of these ticks; a new slot is the last of
  all, a granted one moves from one count to the other, a tick brings all nearer alike.
  Sets of slots are counted with the library's facts on cardinality, for which the callers
  must be finitely many. `Requests` bounds what a ladder has sent by its escalations and the
  attempt it is at, less the request of a slot still waited for. `Late` says that a ladder
  begins below the valve, so that an answer beyond it is an escalation's. `Shape` says who
  may be at a chat at all, which is why the ledgers need to look at one chat only.

Only model-checked. Liveness (`Reports`, `Terminates`, `ReviewEnds`, `ClosesDown`,
`CallsReturn`) and the fairness in `ImplementsContract`, whose safety part is proved, are
beyond the prover. The other way round, repeated rows under a constraint in `Gepa`, and
repeated rows in the other optimisers, are too many for the runs and have the proofs only. Every invariant and every action property of the passing runs has a theorem.

## What could follow

In this order:

1. `Frontier` as the abstract specification of `ProTeGi`, `EvoPrompt` and `MIPROv2`, as it is of
   `Gepa`, which needs ids in the order of birth.
2. One module over `Review`, `Optimizers` and `EventStream` that ends in an exit code; at
   present each has the part of `runSynthesized` it needs.

## Not modelled

* Metrics, the bootstrap's resampling, prompts, parsing, page rendering, the providers'
  wire formats and `replay`: pure functions of their input or pure I/O, without state. A
  score enters the models as a number, an answer by what it cost and whether it was usable.
* The ancestor walk for lessons and the report's text: they read what `Loop` models.
* The grammar and the masking of configuration keys, and the `.gitignore` entry of
  `config init`: checks on strings, without state.
* The framing, the handshake and the validation of arguments of the MCP server.
* The three-file mode's loading, and the dashboard's pages that only read.
* Latencies, except as the order of timers in `Provider`.
