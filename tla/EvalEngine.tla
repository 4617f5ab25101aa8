----------------------------- MODULE EvalEngine -----------------------------
(***************************************************************************)
(* One call of Engine.Run (internal/eval/engine.go): a dispatcher feeds    *)
(* sample indices over an unbuffered channel to a pool of workers, every   *)
(* worker runs evaluate on what it receives, and the run reports after the *)
(* channel is closed and the workers are gone.                             *)
(*                                                                         *)
(* A step is what happens between two points where goroutines can see each *)
(* other: a critical section of the budget, the channel rendezvous, the    *)
(* once-only stop notification, the result of a sample.  A provider call   *)
(* and the metering of its usage are one step, because the answer is local *)
(* to the worker until RecordUsage.  Scores, prompts, traces' contents and *)
(* latencies are left out: an answer is the tokens it cost.                *)
(***************************************************************************)
EXTENDS Budget, FiniteSets

CONSTANTS N,             \* number of samples, in dispatch order
          Workers,       \* the worker goroutines
          Reps,          \* configured repetitions; 0 reads as 1
          Judge,         \* how llm_judge is graded: "none", "llm", "decision"
          TokenCosts,    \* what one call may cost
          StartBudgets   \* the shared budget as this run may find it

ASSUME SampleAssumption == N \in Nat
ASSUME EngineAssumption ==
  /\ IsFiniteSet(Workers) /\ Workers # {}
  /\ Reps \in Nat
  /\ Judge \in {"none", "llm", "decision"}
  /\ TokenCosts \subseteq Nat
  /\ \A b \in StartBudgets : Reachable(b)

Samples == 1 .. N
RepCount == IF Reps < 1 THEN 1 ELSE Reps

VARIABLES
  budget,      \* the shared Budget
  cancelled,   \* ctx.Err() # nil
  dispatch,    \* where the dispatch loop stands
  next,        \* its loop index i
  outcome,     \* outcomes[i]: verdict of each sample
  at,          \* where each worker stands
  job,         \* the sample it evaluates, 0 when idle
  rep,         \* its repetition
  erred,       \* the workers whose current repetition has an error
  started,     \* samples with a sample_start event
  finished,    \* samples with a sample_done event
  stopEvents,  \* budget_stop events emitted by this run
  status,      \* "running", or RunResult.Status
  (* history, read by the properties only *)
  initial,     \* the budget the run started from
  dials,       \* executor calls made
  lateStarts   \* samples handed out after a soft stop or a cancellation

dispatcherVars == <<dispatch, next>>
workerVars == <<at, job, rep, erred>>
eventVars == <<started, finished, stopEvents>>
historyVars == <<initial, dials, lateStarts>>
vars == <<budget, cancelled, dispatcherVars, outcome, workerVars, eventVars,
          status, historyVars>>

WorkerAt == {"idle", "call", "notify", "decide", "judge", "judged",
             "trace", "finish"}
DispatchAt == {"check", "acquire", "send", "drain", "done"}
Outcome == {"pending", "undispatched", "failed", "scored"}
Status == {"running", "aborted", "budget_exhausted", "failed", "completed"}

TypeOK ==
  /\ budget \in Budgets
  /\ cancelled \in BOOLEAN
  /\ dispatch \in DispatchAt
  /\ next \in 1 .. N + 1
  /\ outcome \in [Samples -> Outcome]
  /\ at \in [Workers -> WorkerAt]
  /\ job \in [Workers -> 0 .. N]
  /\ rep \in [Workers -> 1 .. RepCount]
  /\ erred \subseteq Workers
  /\ started \subseteq Samples
  /\ finished \subseteq Samples
  /\ stopEvents \in 0 .. 1
  /\ status \in Status
  /\ initial \in StartBudgets
  /\ dials \in Nat
  /\ lateStarts \in Nat

Init ==
  /\ budget \in StartBudgets
  /\ cancelled = FALSE
  /\ dispatch = "check"
  /\ next = 1
  /\ outcome = [s \in Samples |-> "pending"]
  /\ at = [w \in Workers |-> "idle"]
  /\ job = [w \in Workers |-> 0]
  /\ rep = [w \in Workers |-> 1]
  /\ erred = {}
  /\ started = {}
  /\ finished = {}
  /\ stopEvents = 0
  /\ status = "running"
  /\ initial = budget
  /\ dials = 0
  /\ lateStarts = 0

-----------------------------------------------------------------------------
(* The dispatcher. *)

\* The samples a cancelled dispatcher gives up.
RestAll == Samples                                \* slip: from index 0 on
Rest == {s \in Samples : s >= next}

\* Head of the loop: the cancellation check happens here, before and apart
\* from the reservation.
CheckContext ==
  /\ dispatch = "check"
  /\ \/ /\ next \in Samples
        /\ ~ cancelled
        /\ dispatch' = "acquire"
        /\ UNCHANGED outcome
     \/ /\ next \in Samples
        /\ cancelled
        /\ outcome' = [s \in Samples |-> IF s \in Rest THEN "undispatched"
                                                        ELSE outcome[s]]
        /\ dispatch' = "drain"
     \/ /\ next \notin Samples
        /\ dispatch' = "drain"
        /\ UNCHANGED outcome
  /\ UNCHANGED <<budget, cancelled, next, workerVars, eventVars, status,
                 historyVars>>

\* A refused sample stays undispatched and the loop goes on: a later one may
\* not fit either, but it is asked for.
Retry == next                                     \* slip: the same index again
Following == next + 1

AcquireSlots ==
  /\ dispatch = "acquire"
  /\ \/ /\ CanAcquire(budget, RepCount)
        /\ budget' = Acquire(budget, RepCount)
        /\ dispatch' = "send"
        /\ UNCHANGED <<next, outcome>>
     \/ /\ ~ CanAcquire(budget, RepCount)
        /\ outcome' = [outcome EXCEPT ![next] = "undispatched"]
        /\ next' = Following
        /\ dispatch' = "check"
        /\ UNCHANGED budget
  /\ UNCHANGED <<cancelled, workerVars, eventVars, status, historyVars>>

\* What the worker receives is the index the dispatcher sends.
Previous == IF next > 1 THEN next - 1 ELSE next   \* slip: off by one
Received == next

\* The send blocks until a worker receives: the slots may have been reserved
\* long before.  evaluate starts by announcing the sample.
HandOff(w) ==
  /\ dispatch = "send"
  /\ at[w] = "idle"
  /\ at' = [at EXCEPT ![w] = "call"]
  /\ job' = [job EXCEPT ![w] = Received]
  /\ rep' = [rep EXCEPT ![w] = 1]
  /\ erred' = erred \ {w}
  /\ started' = started \cup {Received}
  /\ next' = next + 1
  /\ dispatch' = "check"
  /\ lateStarts' = IF budget.softStop \/ cancelled THEN lateStarts + 1
                                                   ELSE lateStarts
  /\ UNCHANGED <<budget, cancelled, outcome, finished, stopEvents, status,
                 initial, dials>>

\* Cancellation outranks the budget, the budget outranks failed samples.
Some(v) == \E s \in Samples : outcome[s] = v

BudgetFirst ==                                    \* slip: swapped cases
  CASE Some("undispatched") -> "budget_exhausted"
    [] ~ Some("undispatched") /\ cancelled -> "aborted"
    [] ~ Some("undispatched") /\ ~ cancelled /\ Some("failed") -> "failed"
    [] OTHER -> "completed"

FinalStatus ==
  CASE cancelled -> "aborted"
    [] ~ cancelled /\ Some("undispatched") -> "budget_exhausted"
    [] ~ cancelled /\ ~ Some("undispatched") /\ Some("failed") -> "failed"
    [] OTHER -> "completed"

NotWaited == TRUE                                 \* slip: no wg.Wait
WorkersGone == \A w \in Workers : at[w] = "idle"

\* The status is derived once every worker is gone; cancellation is read
\* again here, after the last sample.
Conclude ==
  /\ dispatch = "drain"
  /\ WorkersGone
  /\ dispatch' = "done"
  /\ status' = FinalStatus
  /\ UNCHANGED <<budget, cancelled, next, outcome, workerVars, eventVars,
                 historyVars>>

-----------------------------------------------------------------------------
(* A worker inside evaluate and executeRep. *)

\* An answer's usage counts even when the answer is unusable; a failed call
\* costs nothing.
ExecutorCall(w) ==
  /\ at[w] = "call"
  /\ dials' = dials + 1
  /\ \/ /\ erred' = erred \cup {w}
        /\ at' = [at EXCEPT ![w] = "trace"]
        /\ UNCHANGED budget
     \/ /\ \E u \in TokenCosts : budget' = RecordUsage(budget, "executor", u)
        /\ at' = [at EXCEPT ![w] = "notify"]
        /\ UNCHANGED erred
  /\ UNCHANGED <<cancelled, dispatcherVars, outcome, job, rep, eventVars,
                 status, initial, lateStarts>>

\* The soft stop is read in a critical section of its own, after the one that
\* may have armed it; the event is emitted at most once per run.
AnnounceEachTime ==                               \* slip: no OnceFunc
  stopEvents' = IF budget.softStop THEN stopEvents + 1 ELSE stopEvents

AnnounceStop ==
  stopEvents' = IF budget.softStop THEN 1 ELSE stopEvents

AfterAnswer == [none |-> "trace", llm |-> "judge", decision |-> "decide"][Judge]

\* An empty answer fails the repetition before any metric is computed.
CheckAnswer(w) ==
  /\ at[w] = "notify"
  /\ AnnounceStop
  /\ \/ /\ erred' = erred \cup {w}
        /\ at' = [at EXCEPT ![w] = "trace"]
     \/ /\ at' = [at EXCEPT ![w] = AfterAnswer]
        /\ UNCHANGED erred
  /\ UNCHANGED <<budget, cancelled, dispatcherVars, outcome, job, rep,
                 started, finished, status, historyVars>>

\* The decision model is metered before anything else is looked at.  Then the
\* verdict is trusted, declined in favour of the generative judge, or (service
\* unreachable, trace lost, answer missing) the repetition fails.
DecisionCall(w) ==
  /\ at[w] = "decide"
  /\ \E u \in TokenCosts \cup {0} : budget' = RecordUsage(budget, "judge", u)
  /\ \/ at' = [at EXCEPT ![w] = "judged"] /\ erred' \in {erred, erred \cup {w}}
     \/ at' = [at EXCEPT ![w] = "judge"] /\ UNCHANGED erred
  /\ UNCHANGED <<cancelled, dispatcherVars, outcome, job, rep, eventVars,
                 status, historyVars>>

\* The generative judge writes its trace before it meters: a failed call or a
\* lost trace is not metered, an unreadable verdict is.
JudgeCall(w) ==
  /\ at[w] = "judge"
  /\ at' = [at EXCEPT ![w] = "judged"]
  /\ \/ erred' = erred \cup {w} /\ UNCHANGED budget
     \/ /\ \E u \in TokenCosts : budget' = RecordUsage(budget, "judge", u)
        /\ erred' \in {erred, erred \cup {w}}
  /\ UNCHANGED <<cancelled, dispatcherVars, outcome, job, rep, eventVars,
                 status, historyVars>>

JudgedSilently(w) ==                              \* slip: only the executor looks
  /\ at[w] = "judged"
  /\ at' = [at EXCEPT ![w] = "trace"]
  /\ UNCHANGED <<budget, cancelled, dispatcherVars, outcome, job, rep, erred,
                 eventVars, status, historyVars>>

CheckJudged(w) ==
  /\ at[w] = "judged"
  /\ AnnounceStop
  /\ at' = [at EXCEPT ![w] = "trace"]
  /\ UNCHANGED <<budget, cancelled, dispatcherVars, outcome, job, rep, erred,
                 started, finished, status, historyVars>>

\* A lost call trace fails the repetition; a failed repetition ends the
\* sample and keeps the slots of those that never ran.
EndRep(w) ==
  /\ at[w] = "trace"
  /\ erred' \in {erred, erred \cup {w}}
  /\ \/ /\ w \in erred' \/ rep[w] = RepCount
        /\ at' = [at EXCEPT ![w] = "finish"]
        /\ UNCHANGED rep
     \/ /\ w \notin erred' /\ rep[w] < RepCount
        /\ rep' = [rep EXCEPT ![w] = @ + 1]
        /\ at' = [at EXCEPT ![w] = "call"]
  /\ UNCHANGED <<budget, cancelled, dispatcherVars, outcome, job, eventVars,
                 status, historyVars>>

\* A lost sample trace fails the sample; sample_done goes out either way.
FinishSample(w) ==
  /\ at[w] = "finish"
  /\ \/ outcome' = [outcome EXCEPT ![job[w]] = "failed"]
     \/ w \notin erred /\ outcome' = [outcome EXCEPT ![job[w]] = "scored"]
  /\ finished' = finished \cup {job[w]}
  /\ at' = [at EXCEPT ![w] = "idle"]
  /\ job' = [job EXCEPT ![w] = 0]
  /\ UNCHANGED <<budget, cancelled, dispatcherVars, rep, erred, started,
                 stopEvents, status, historyVars>>

-----------------------------------------------------------------------------

\* The caller's context: a signal, or the session that owns the run.
Cancel ==
  /\ ~ cancelled
  /\ status = "running"
  /\ cancelled' = TRUE
  /\ UNCHANGED <<budget, dispatcherVars, outcome, workerVars, eventVars,
                 status, historyVars>>

Dispatcher == CheckContext \/ AcquireSlots \/ Conclude

Worker(w) ==
  \/ HandOff(w) \/ ExecutorCall(w) \/ CheckAnswer(w) \/ DecisionCall(w)
  \/ JudgeCall(w) \/ CheckJudged(w) \/ EndRep(w) \/ FinishSample(w)

\* The run returned to its caller.
Returned == status # "running" /\ UNCHANGED vars

Next ==
  \/ Dispatcher
  \/ \E w \in Workers : Worker(w)
  \/ Cancel
  \/ Returned

\* Goroutines are scheduled and provider calls return: each is bounded by the
\* HTTP client's timeout and by a fixed number of retries.
Fairness ==
  /\ WF_vars(Dispatcher)
  /\ \A w \in Workers : WF_vars(Worker(w))

Spec == Init /\ [][Next]_vars
FairSpec == Spec /\ Fairness

-----------------------------------------------------------------------------
(* Properties. *)

Busy == {w \in Workers : at[w] # "idle"}

\* The limits.  The evaluation limit is never exceeded, by this run or by what
\* earlier runs on the same budget left over, whatever the workers do; no
\* executor call runs without a slot reserved for it: the repetitions a failing
\* sample skips leave slots unused, never the other way round; and what the
\* token limit is overshot by is what the samples in the pool and the one at
\* the channel still spend after it is crossed.
EvalLimitHeld == EvalLimit > 0 => budget.evals <= EvalLimit

CallsHaveSlots == dials <= budget.evals - initial.evals

MaxCost == CHOOSE c \in TokenCosts : \A d \in TokenCosts : d <= c
CallsPerRep == [none |-> 1, llm |-> 2, decision |-> 3][Judge]
OvershootBounded ==
  TokenLimit > 0 /\ ~ initial.softStop =>
    EvalTokens(budget) <= TokenLimit
      + (Cardinality(Workers) + 1) * RepCount * CallsPerRep * MaxCost

LimitsHeld == EvalLimitHeld /\ CallsHaveSlots /\ OvershootBounded

\* A stop.  The dispatcher reserves before it blocks on the channel and does
\* not look again, so a soft stop or a cancellation lets one more sample in,
\* not more; and a token limit crossed during the run is announced, once, by
\* the end of the run, one crossed before it never.
AtMostOneLateStart == lateStarts <= 1

StopAnnounced ==
  status # "running" =>
    (stopEvents = 1 <=> budget.softStop /\ ~ initial.softStop)

StopsInOrder == AtMostOneLateStart /\ StopAnnounced

\* The report.  Two workers never evaluate the same sample, and none is
\* evaluated again after its result is in; nothing happens behind the back of
\* a reported run: every announced sample is done, no worker is left, and each
\* sample has its verdict; and budget_exhausted is never a cancellation in
\* disguise, nor an early refusal: the budget could still not take one more.
OneWorkerPerSample ==
  \A w \in Busy : /\ outcome[job[w]] = "pending"
                  /\ \A v \in Busy \ {w} : job[v] # job[w]

RunDoneIsLast ==
  status # "running" =>
    /\ Busy = {} /\ started = finished
    /\ \A s \in Samples :
         /\ outcome[s] # "pending"
         /\ s \in finished <=> outcome[s] # "undispatched"

ExhaustionIsReal ==
  status = "budget_exhausted" =>
    ~ cancelled /\ ~ CanAcquire(budget, RepCount)

ReportIsFinal == OneWorkerPerSample /\ RunDoneIsLast /\ ExhaustionIsReal

\* Every run reports, cancelled or not.
Reports == <>(status # "running")

\* The run implements its contract, step by step and in its fairness.
Contract == INSTANCE EvalContract WITH verdict <- outcome
ImplementsContract == Contract!Spec

=============================================================================
