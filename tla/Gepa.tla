-------------------------------- MODULE Gepa --------------------------------
(***************************************************************************)
(* One optimisation run: the round loop of internal/engine/gepa.go over    *)
(* the shared Loop and the VISTA counter (vista.go).                       *)
(*                                                                         *)
(* The budget is the run's and not fresh: the synthesis, which no limit   *)
(* stops, the probes and the baseline were paid from it.                   *)
(*                                                                         *)
(* Prompts, hypotheses and the choice of the parent are left out: they     *)
(* restrict neither the row a child may get nor the course of the loop.    *)
(***************************************************************************)
EXTENDS Loop

CONSTANTS Batch,            \* samples of a minibatch
          MaxHypotheses,    \* maxHypotheses
          StagnationLimit   \* Params.StagnationLimit

ASSUME GepaAssumption ==
  /\ Batch \in 1 .. Cardinality(Cells)
  /\ MaxHypotheses \in Nat
  /\ StagnationLimit \in Nat \ {0}

VARIABLES
  left,         \* hypotheses still to be probed
  validated,    \* how many got a comparable lift
  truncated,    \* unitUndispatched
  stagnant,     \* VistaGuard.stagnant
  bestMean,     \* the best mean seen, as a sum over the cells
  (* history, read by the properties only *)
  latest,       \* the round of the last child offered
  restarted,    \* the round of the last restart, 0 when there was none
  brought,      \* the optimiser's tokens spent before the loop
  lateStages    \* optimiser stages that spent tokens after a soft stop

roundVars == <<left, validated, truncated>>
frontierVars == <<bestMean, members, lineage, offered, admitted, latest, whole>>
resultVars == <<reason, rounds>>
vars == <<at, round, roundVars, stagnant, frontierVars, budget, valveFired,
          cancelled, resultVars, restarted, brought, lateStages>>

At == {"gate", "reflect", "probe", "mutate", "child", "finish", "done", "error"}

Candidate == Candidates(0 .. MaxRounds)
Lineage == Lineages(0 .. MaxRounds)

TypeOK ==
  /\ at \in At
  /\ round \in 0 .. MaxRounds
  /\ left \in 0 .. MaxHypotheses /\ validated \in 0 .. MaxHypotheses
  /\ truncated \in BOOLEAN
  /\ stagnant \in 0 .. MaxRounds
  /\ members \subseteq offered /\ admitted \subseteq offered
  /\ offered \subseteq Candidate
  /\ lineage \subseteq Lineage
  /\ budget \in Budgets
  /\ valveFired \in BOOLEAN /\ cancelled \in BOOLEAN
  /\ reason \in Reason
  /\ rounds \in 0 .. round
  /\ latest \in 0 .. round
  /\ whole \subseteq 1 .. MaxRounds
  /\ restarted \in 0 .. round
  /\ brought \in Nat /\ lateStages \in Nat

\* NewLoop: the baseline is on the frontier and in the lineage before round 1.
Init ==
  /\ at = "gate" /\ round = 0
  /\ left = 0 /\ validated = 0 /\ truncated = FALSE
  /\ stagnant = 0
  /\ \E m \in Candidates({0}) :
       members = {m} /\ bestMean = Sum(m.row)
  /\ lineage = {[id |-> 0, admitted |-> TRUE, incomplete |-> FALSE]}
  /\ budget \in Inherited /\ brought = budget.usage["optimizer"]
  /\ valveFired = FALSE /\ cancelled = FALSE
  /\ reason = "none" /\ rounds = 0
  /\ offered = members /\ admitted = members /\ latest = 0
  /\ whole = {} /\ restarted = 0 /\ lateStages = 0

-----------------------------------------------------------------------------
(* The loop. *)

StageHistory ==
  lateStages' = IF budget.softStop /\ budget' # budget THEN lateStages + 1
                                                       ELSE lateStages

\* The head of the loop and step 1: cancellation beats the budget.
Gate ==
  /\ at = "gate"
  /\ \/ /\ round = MaxRounds
        /\ Stop("rounds_done")
        /\ UNCHANGED <<round, roundVars, valveFired>>
     \/ /\ round < MaxRounds /\ cancelled
        /\ Stop("aborted")
        /\ UNCHANGED <<round, roundVars, valveFired>>
     \/ /\ round < MaxRounds /\ ~ cancelled /\ Stopped
        /\ Stop("budget_stopped")
        /\ valveFired' = TRUE
        /\ UNCHANGED <<round, roundVars>>
     \/ /\ round < MaxRounds /\ ~ cancelled /\ ~ Stopped
        /\ at' = "reflect"
        /\ round' = round + 1
        /\ left' = 0 /\ validated' = 0 /\ truncated' = FALSE
        /\ UNCHANGED <<valveFired, reason>>
  /\ UNCHANGED <<stagnant, frontierVars, budget, cancelled, rounds,
                 restarted, brought, lateStages>>

\* Step 4: a failed reflection is a stagnant round, an exhausted valve ends
\* the run.
Reflect ==
  /\ at = "reflect"
  /\ \/ /\ StageRefused
        /\ Stop("budget_stopped")
        /\ valveFired' = TRUE
        /\ UNCHANGED <<left, stagnant, rounds>>
     \/ /\ StageFailed
        /\ stagnant' = stagnant + 1
        /\ rounds' = round
        /\ at' = "gate"
        /\ UNCHANGED <<left, valveFired, reason>>
     \/ /\ StageDone
        /\ left' \in 0 .. MaxHypotheses
        /\ at' = "probe"
        /\ UNCHANGED <<stagnant, valveFired, resultVars>>
  /\ StageHistory
  /\ UNCHANGED <<round, validated, truncated, frontierVars, cancelled,
                 restarted, brought>>

\* Step 5: one hypothesis after the other; a truncated probe gives no lift.
SameHypothesis == left                            \* slip: probed for ever
OneFewer == left - 1

Probe ==
  /\ at = "probe" /\ left > 0 /\ ~ cancelled
  /\ left' = OneFewer
  /\ \E d \in 0 .. Batch :
       /\ RunUnit(Batch, d)
       /\ truncated' = (truncated \/ d < Batch)
       /\ validated' = IF d < Batch THEN validated ELSE validated + 1
  /\ UNCHANGED <<at, round, stagnant, frontierVars, valveFired, resultVars,
                 restarted, brought, lateStages>>

\* The end of step 5: without a lift to select by there is nothing to mutate.
EndProbes ==
  /\ at = "probe" /\ (left = 0 \/ cancelled)
  /\ \/ /\ cancelled
        /\ Stop("aborted")
        /\ UNCHANGED <<stagnant, rounds>>
     \/ /\ ~ cancelled /\ validated = 0
        /\ stagnant' = stagnant + 1
        /\ rounds' = round
        /\ IF truncated THEN Stop("budget_stopped")
                        ELSE at' = "gate" /\ UNCHANGED reason
     \/ /\ ~ cancelled /\ validated > 0
        /\ at' = "mutate"
        /\ UNCHANGED <<stagnant, resultVars>>
  /\ UNCHANGED <<round, roundVars, frontierVars, budget, valveFired,
                 cancelled, restarted, brought, lateStages>>

\* Step 7, the operator ladder: a restart clears the counter whether or not
\* its call succeeds; merging and rewriting differ only in the prompt.
Restart == stagnant >= StagnationLimit

CountedTwice == stagnant + 1                      \* slip: one round, two counts
NoReset == stagnant                               \* slip: no Reset
AfterLadder == IF Restart THEN 0 ELSE stagnant

Mutate ==
  /\ at = "mutate"
  /\ restarted' = IF Restart THEN round ELSE restarted
  /\ \/ /\ StageRefused
        /\ Stop("budget_stopped")
        /\ valveFired' = TRUE
        /\ stagnant' = AfterLadder
        /\ UNCHANGED rounds
     \/ /\ StageFailed
        /\ stagnant' = AfterLadder + 1
        /\ rounds' = round
        /\ at' = "gate"
        /\ UNCHANGED <<valveFired, reason>>
     \/ /\ StageDone
        /\ stagnant' = AfterLadder
        /\ at' = "child"
        /\ UNCHANGED <<valveFired, resultVars>>
  /\ StageHistory
  /\ UNCHANGED <<round, roundVars, frontierVars, cancelled, brought>>

\* Loop.Admit and the bookkeeping of step 9: admission, the lineage record,
\* progress against the best mean seen.
\* slip: a sum held against a mean
SumAgainstMean(m) == Sum(m.row) > Cardinality(Cells) * bestMean
Progress(m) == Sum(m.row) > bestMean

Admit(m) ==
  /\ Offered(m)
  /\ latest' = round
  /\ \/ /\ Recorded(m)
        /\ bestMean' = IF Progress(m) THEN Sum(m.row) ELSE bestMean
        /\ stagnant' = IF Progress(m) THEN 0 ELSE stagnant + 1
        /\ rounds' = round
        /\ IF truncated \/ Stopped'
           THEN Stop("budget_stopped") /\ valveFired' = TRUE
           ELSE at' = "gate" /\ UNCHANGED <<reason, valveFired>>
     \/ at' = "error"
        /\ UNCHANGED <<lineage, bestMean, stagnant, resultVars, valveFired>>

\* Loop.MarkIncomplete: the half-evaluated child leaves a trace in the lineage
\* only, and the run ends.
MarkIncomplete ==
  /\ \/ /\ RecordedIncomplete(round)
        /\ stagnant' = stagnant + 1
        /\ rounds' = round
        /\ Stop("budget_stopped")
     \/ at' = "error" /\ UNCHANGED <<lineage, stagnant, resultVars>>
  /\ UNCHANGED <<bestMean, members, offered, admitted, latest, valveFired>>

\* Steps 8 to 11: the child over the whole retained set.
Child ==
  /\ at = "child"
  /\ \E d \in 0 .. Cardinality(Cells) :
       /\ RunUnit(Cardinality(Cells), d)
       /\ IF Complete(d) THEN \E m \in Candidates({round}) : Admit(m)
                         ELSE MarkIncomplete
       /\ whole' = IF d = Cardinality(Cells) THEN whole \cup {round} ELSE whole
  /\ UNCHANGED <<round, roundVars, restarted, brought, lateStages>>

\* A unit that cannot write its directory or its results fails the run.
UnitError ==
  /\ at \in {"probe", "child"}
  /\ at = "probe" => left > 0 /\ ~ cancelled
  /\ at' = "error"
  /\ UNCHANGED <<round, roundVars, stagnant, frontierVars, budget, valveFired,
                 cancelled, resultVars, restarted, brought, lateStages>>

\* Loop.Finish delivers Best(members), unless the report cannot be written.
Finish ==
  /\ at = "finish"
  /\ at' \in {"done", "error"}
  /\ UNCHANGED <<round, roundVars, stagnant, frontierVars, budget, valveFired,
                 cancelled, resultVars, restarted, brought, lateStages>>

Cancel ==
  /\ at \notin {"done", "error"}
  /\ ~ cancelled
  /\ cancelled' = TRUE
  /\ UNCHANGED <<at, round, roundVars, stagnant, frontierVars, budget,
                 valveFired, resultVars, restarted, brought, lateStages>>

Loop == Gate \/ Reflect \/ Probe \/ EndProbes \/ Mutate \/ Child \/ Finish

Returned == at \in {"done", "error"} /\ UNCHANGED vars

Next == Loop \/ UnitError \/ Cancel \/ Returned

Spec == Init /\ [][Next]_vars

\* The loop's goroutine runs, units report (EvalEngine's Reports) and model
\* calls return.  No fairness cancels: the loop has to end by itself.
FairSpec == Spec /\ WF_vars(Loop /\ UNCHANGED cancelled)

-----------------------------------------------------------------------------
(* Properties. *)

\* The loop's own record of the best mean, which decides what is progress and
\* with it every restart, is raised by refused children, too, and never looks
\* at the constraint.  It still stays with the frontier, from which it is not
\* computed: no member is better, and some member, without a constraint the
\* one the run would deliver, is no worse but for the measured noise.
ProgressTracksBest ==
  at # "error" =>
    /\ \A m \in members : Sum(m.row) <= bestMean
    /\ \E m \in members : /\ bestMean <= Sum(m.row) + Slack
                          /\ ~ Constrained => m = Best(members)

BestDelivered == ProgressTracksBest /\ DeliversTheBest

\* A restart forgets the stagnation behind it, so two restarts are at least
\* StagnationLimit rounds apart, and the first comes after as many rounds,
\* failed and skipped rounds included.
RestartsSpaced ==
  [][restarted' # restarted =>
       IF restarted = 0 THEN restarted' > StagnationLimit
                        ELSE restarted' - restarted >= StagnationLimit]_vars

\* The valve is read before a call and not inside its ladder of attempts: it
\* is overshot by at most one stage, and not by any when the synthesis, which
\* is charged to the same role without being stopped by it, has spent as much
\* before the loop.  A soft stop in the middle of a round
\* lets the round's mutation through, and nothing after it.
MaxStageCost == CHOOSE c \in StageCosts : \A d \in StageCosts : d <= c
ValveOvershootBounded ==
  OptLimit > 0 =>
    IF brought >= OptLimit
    THEN budget.usage["optimizer"] = brought
    ELSE budget.usage["optimizer"] < OptLimit + MaxStageCost

AtMostOneLateStage == lateStages <= 1

StopsHeld == ValveOvershootBounded /\ AtMostOneLateStage

\* Every run returns, also one whose every round fails.
Terminates == <>(at \in {"done", "error"})

\* The loop uses the frontier as Frontier describes it.
ParetoFrontier == INSTANCE Frontier WITH
  Shapes <- {FALSE, Reps > 1}, MaxChildren <- MaxRounds, count <- latest

UsesFrontier == ParetoFrontier!Spec

\* As the stop reasons are documented: a run ends budget_stopped only when
\* some budget could not take the next call or sample.
BudgetStopIsReal ==
  reason = "budget_stopped" => Stopped \/ ~ CanAcquire(budget, Reps)

=============================================================================
