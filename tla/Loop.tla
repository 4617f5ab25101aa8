-------------------------------- MODULE Loop --------------------------------
(***************************************************************************)
(* What every optimiser is built on: the state of engine.Loop              *)
(* (internal/engine/loop.go) and of the valve in calls.go, with their      *)
(* operations.  Gepa and the other optimisers bring the actions.           *)
(*                                                                         *)
(* An optimiser is one goroutine; what happens beside it is the caller's   *)
(* cancellation, which may come at any moment, also inside an evaluation   *)
(* unit or a model call.  A step is what the optimiser does between two    *)
(* points at which it can see a cancellation.                              *)
(*                                                                         *)
(* An evaluation unit is what EvalEngine promises of it: it dispatches     *)
(* some of its samples, and leaves one out only when it was cancelled or   *)
(* the budget could not take it.  A stage (Reflector.Reflect,              *)
(* ProduceCandidate) is a series of optimiser calls of unknown cost and    *)
(* answer; Calls has what happens in one.                                  *)
(***************************************************************************)
EXTENDS Budget, Pareto

CONSTANTS Scores,           \* primary scores of a cell
          Reps,             \* repetitions per sample
          Deviations,       \* standard deviations of a cell over repetitions
          MaxNoise,         \* no deviation is larger
          Rates,            \* means of the constraint metric
          Inherited,        \* budgets the synthesis, the probes and the
                            \* baseline may leave to the optimiser
          MaxSampleCost,    \* executor and judge tokens of a sample, at most
          StageCosts,       \* optimiser tokens of a stage's calls
          OptLimit,         \* OptBudgetTokens; 0 means unlimited
          MaxRounds         \* Params.MaxRounds

ASSUME LoopAssumption ==
  /\ Scores \subseteq Int
  /\ Reps \in Nat \ {0}
  /\ Deviations \subseteq 0 .. MaxNoise /\ 0 \in Deviations /\ MaxNoise \in Nat
  /\ Rates \subseteq 0 .. FullRate
  /\ \A b \in Inherited : Reachable(b)
  /\ MaxSampleCost \in Nat /\ StageCosts \subseteq Nat /\ 0 \in StageCosts
  /\ OptLimit \in Nat
  /\ MaxRounds \in Nat \ {0}

VARIABLES
  at,           \* where the optimiser stands
  round,        \* r
  members,      \* the frontier
  lineage,      \* lineage.json: one record per child
  budget,       \* the shared Budget
  valveFired,   \* Advisor.valveFired
  cancelled,    \* ctx.Err() # nil
  reason,       \* Result.Reason, once the rounds are left
  rounds,       \* Result.Rounds
  (* history, read by the properties only *)
  offered, admitted,   \* as in Frontier
  whole         \* the ids of children evaluated on every sample

Reason == {"none", "rounds_done", "budget_stopped", "aborted"}

\* What an evaluation makes of a candidate, and what is written about it.  A row
\* carries deviations when its samples were repeated and some of them scored;
\* a row of samples that all failed carries none, and its cells count as 0.
Unscored(m) == \A c \in Cells : m.row[c] = 0

Candidates(ids) ==
  {m \in [id : ids, row : [Cells -> Scores], sd : [Cells -> Deviations],
          repeated : {FALSE, Reps > 1}, rate : Rates] :
     ~ m.repeated => /\ \A c \in Cells : m.sd[c] = 0
                     /\ Reps > 1 => Unscored(m)}

Lineages(ids) == [id : ids, admitted : BOOLEAN, incomplete : BOOLEAN]

-----------------------------------------------------------------------------
(* Limits, units and stages. *)

OverValve(b) ==                                   \* slip: strictly
  OptLimit > 0 /\ b.usage["optimizer"] > OptLimit

ValveTripped(b) == OptLimit > 0 /\ b.usage["optimizer"] >= OptLimit

OnlyValve == ValveTripped(budget)                 \* slip: one limit of the two
Stopped == budget.softStop \/ ValveTripped(budget)

\* A unit over n samples dispatches d of them, from a budget left by a unit
\* or an optimiser stage.  A context that is done when the unit starts keeps
\* every sample back.
RunUnit(n, d) ==
  /\ d \in 0 .. n
  /\ \E cost \in 0 .. d * MaxSampleCost :
       budget' = RecordUsage(Acquire(budget, Reps * d), "executor", cost)
  /\ EvalLimit > 0 => budget'.evals <= EvalLimit
  /\ cancelled' \in {cancelled, TRUE}
  /\ d > 0 => ~ cancelled /\ CanAcquire(budget, Reps)
  /\ d < n => cancelled' \/ ~ CanAcquire(budget', Reps)

\* An optimiser stage: refused at the valve, failed, or answered.  A stage may
\* fail at the valve, too, after its first call (the repair call).  Under a
\* done context a call fails at once.
StageRefused ==
  \/ ValveTripped(budget) /\ UNCHANGED budget
  \/ /\ ~ ValveTripped(budget)
     /\ ~ cancelled
     /\ \E c \in StageCosts : budget' = RecordUsage(budget, "optimizer", c)
     /\ ValveTripped(budget')

StageDone ==
  /\ ~ ValveTripped(budget)
  /\ ~ cancelled
  /\ \E c \in StageCosts : budget' = RecordUsage(budget, "optimizer", c)

StageFailed ==
  /\ ~ ValveTripped(budget)
  /\ IF cancelled THEN UNCHANGED budget ELSE StageDone

\* break: what Finish reports is decided here.
Stop(why) == at' = "finish" /\ reason' = why

-----------------------------------------------------------------------------
(* Admission. *)

AnyEvidence(d) == d > 0                           \* slip: a partial row will do
Complete(d) == d = Cardinality(Cells)

JoinedUnchecked(m) == members \cup {m}            \* slip: no comparison
Joined(m) == AddNoiseAware(members, m)

AlwaysAdmitted(m) == TRUE                         \* slip: offered is admitted
RecordedAdmitted(m) == ~ Refused(members, m)

Offered(m) ==
  /\ members' = Joined(m)
  /\ offered' = offered \cup {m}
  /\ admitted' = IF Refused(members, m) THEN admitted ELSE admitted \cup {m}

\* The record of an evaluated child, and of one cut short.
Recorded(m) ==
  lineage' = lineage \cup
    {[id |-> m.id, admitted |-> RecordedAdmitted(m), incomplete |-> FALSE]}

RecordedIncomplete(id) ==
  lineage' = lineage \cup {[id |-> id, admitted |-> FALSE, incomplete |-> TRUE]}

-----------------------------------------------------------------------------
(* Properties every optimiser keeps. *)

\* The lineage on disk explains the frontier: one record per candidate, every
\* member's among them; it says admitted of those that were, evicted since or
\* not, and incomplete of exactly those not evaluated on every sample.  Those
\* stay off the frontier, whatever stopped an evaluation, and wherever in the
\* round.
OnlyWholeMembers == \A m \in members : m.id \in whole \cup {0}

LineageExplainsFrontier ==
  at # "error" =>
    /\ \A m \in members : \E l \in lineage : l.id = m.id /\ l.admitted
    /\ \A l \in lineage : l.admitted <=> \E a \in admitted : a.id = l.id
    /\ \A l \in lineage : l.incomplete <=> l.id \notin whole \cup {0}
    /\ \A k, l \in lineage : k.id = l.id => k = l

MembersExplained == OnlyWholeMembers /\ LineageExplainsFrontier

\* The largest deviation measured so far, 0 as long as nothing was repeated;
\* and what as much on every cell makes of a sum.
Noise == {o.sd[c] : o \in offered, c \in Cells}
Blur == CHOOSE e \in Noise : \A f \in Noise : f <= e
Slack == Cardinality(Cells) * Blur

\* However the run ends, what it delivers is no worse, by constraint and mean,
\* than anything it evaluated on every sample, the baseline first of all.  Two
\* concessions are the design's: a candidate within the measured noise of a
\* member was refused for it, and one that met the constraint better was given
\* up for a member that matches it, because the constraint stays out of
\* dominance.
DeliversTheBest ==
  at = "done" => \A o \in offered :
    \/ AtLeastAsGood(Best(members), o, Slack)
    \/ \E n \in members :
         Constrained /\ n.rate < o.rate /\ Within(o.row, n.row, Blur)

=============================================================================
