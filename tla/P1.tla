--------------------------------- MODULE P1 ---------------------------------
(***************************************************************************)
(* The budget allocation of internal/optimizers/p1: a plan made from what  *)
(* is left of the evaluations, the reflective search over S* of that size, *)
(* and one evaluation of its best candidate on every retained sample.      *)
(*                                                                         *)
(* The inner search is Gepa's round over fewer samples, of which only what *)
(* it spends and how it ends is kept: its frontier and lineage live in a   *)
(* directory of their own (Gepa models them).  The outer Loop is made when *)
(* the search has ended.                                                   *)
(***************************************************************************)
EXTENDS Scaffold

CONSTANTS Batch,           \* Params.Minibatch
          MaxHypotheses    \* maxHypotheses

P1Parameters == Batch \in Nat \ {0} /\ MaxHypotheses \in Nat

VARIABLES star,      \* |S*|
          left,      \* hypotheses of the round still to be probed
          lift,      \* a hypothesis of the round was probed in full
          short,     \* a probe of the round was cut short
          raised,    \* the search evaluated a child on all of S*
          (* history, read by the properties only *)
          share,     \* what the plan gives to a round, m0
          probed     \* the most hypotheses a round had

roundVars == <<left, lift, short>>
planVars == <<star, share>>
searchVars == <<roundVars, planVars, raised, probed>>

Kept == Cardinality(Cells)
Lesser(a, b) == IF a < b THEN a ELSE b
Greater(a, b) == IF a > b THEN a ELSE b

\* planStar.
ShareOf(used) == Greater(0, EvalLimit - used - Kept) \div MaxRounds
NoReserve(used) ==                                \* slip: probes forgotten
  IF EvalLimit = 0 THEN Kept ELSE Greater(1, Lesser(ShareOf(used), Kept))
NoClamp(used) ==                                  \* slip: S* may be empty
  IF EvalLimit = 0 THEN Kept
  ELSE Lesser(ShareOf(used) - Lesser(Batch, ShareOf(used)), Kept)
PlanStar(used) ==
  LET reserve == Lesser(Batch, ShareOf(used))
  IN  IF EvalLimit = 0 THEN Kept
      ELSE Greater(1, Lesser(ShareOf(used) - reserve, Kept))

P1Type ==
  /\ star \in 1 .. Kept
  /\ left \in 0 .. MaxHypotheses /\ probed \in 0 .. MaxHypotheses
  /\ {lift, short, raised} \subseteq BOOLEAN
  /\ share \in Nat

TypeOK ==
  /\ at \in {"gate", "reflect", "probe", "mutate", "child", "searched",
             "final", "finish", "done", "error"}
  /\ LoopType({0, 1})
  /\ P1Type

Init ==
  /\ NewLoop("gate")
  /\ star = PlanStar(budget.evals)
  /\ share = ShareOf(budget.evals)
  /\ left = 0 /\ lift = FALSE /\ short = FALSE
  /\ probed = 0 /\ raised = FALSE

-----------------------------------------------------------------------------
(* The inner search. *)

\* The search ends; its reason is the run's, unless the final cannot be had.
Leave(why) == at' = "searched" /\ reason' = why

Gate ==
  /\ at = "gate"
  /\ \/ /\ RoundsOver
        /\ Leave("rounds_done")
        /\ UNCHANGED <<round, roundVars>>
     \/ /\ ~ RoundsOver /\ ~ Open
        /\ Leave(IF cancelled THEN "aborted" ELSE "budget_stopped")
        /\ UNCHANGED <<round, roundVars>>
     \/ /\ ~ RoundsOver /\ Open
        /\ round' = round + 1
        /\ left' = 0 /\ lift' = FALSE /\ short' = FALSE
        /\ at' = "reflect"
        /\ UNCHANGED reason
  /\ UNCHANGED <<rounds, frontierVars, budget, valveFired, cancelled, planVars,
                 raised, probed>>

\* Reflecting gives the round its hypotheses.
Stage(here, next, hypotheses) ==
  /\ at = here
  /\ \/ /\ StageRefused
        /\ Leave("budget_stopped")
        /\ UNCHANGED <<rounds, left>>
     \/ /\ StageFailed
        /\ rounds' = round
        /\ at' = "gate"
        /\ UNCHANGED <<reason, left>>
     \/ /\ StageDone
        /\ left' \in hypotheses
        /\ at' = next
        /\ UNCHANGED <<reason, rounds>>
  /\ probed' = Greater(probed, left')
  /\ UNCHANGED <<round, frontierVars, valveFired, cancelled, lift, short,
                 planVars, raised>>

\* A hypothesis is probed on a minibatch of S*.
Probe ==
  /\ at = "probe" /\ left > 0 /\ ~ cancelled
  /\ left' = left - 1
  /\ LET n == Lesser(Batch, star)
     IN  \E d \in 0 .. n :
           /\ RunUnit(n, d)
           /\ lift' = (lift \/ d = n)
           /\ short' = (short \/ d < n)
  /\ UNCHANGED <<at, round, rounds, frontierVars, valveFired, reason, planVars,
                 raised, probed>>

EndProbes ==
  /\ at = "probe" /\ (left = 0 \/ cancelled)
  /\ \/ /\ cancelled
        /\ Leave("aborted")
        /\ UNCHANGED rounds
     \/ /\ ~ cancelled /\ ~ lift
        /\ rounds' = round
        /\ IF short THEN Leave("budget_stopped")
                    ELSE at' = "gate" /\ UNCHANGED reason
     \/ /\ ~ cancelled /\ lift
        /\ at' = "mutate"
        /\ UNCHANGED <<rounds, reason>>
  /\ UNCHANGED <<round, frontierVars, budget, valveFired, cancelled,
                 searchVars>>

\* The child of the search is evaluated on S*.
StarChild ==
  /\ at = "child"
  /\ rounds' = round
  /\ \E d \in 0 .. star :
       /\ RunUnit(star, d)
       /\ raised' = (raised \/ d = star)
       /\ IF d < star \/ short \/ Stopped'
          THEN Leave("budget_stopped")
          ELSE at' = "gate" /\ UNCHANGED reason
  /\ UNCHANGED <<round, frontierVars, valveFired, roundVars, planVars, probed>>

-----------------------------------------------------------------------------
(* The final evaluation. *)

\* Skipped when the run was cancelled, or when no child beat the baseline.
Searched ==
  /\ at = "searched"
  /\ \/ cancelled /\ Stop("aborted")
     \/ ~ cancelled /\ at' = "finish" /\ UNCHANGED reason
     \/ ~ cancelled /\ raised /\ at' = "final" /\ UNCHANGED reason
  /\ UNCHANGED <<round, rounds, frontierVars, budget, valveFired, cancelled,
                 searchVars>>

Final ==
  /\ at = "final"
  /\ \E d \in 0 .. Kept :
       /\ RunUnit(Kept, d)
       /\ \/ /\ Complete(d)
             /\ \E m \in Candidates({1}) : Raise(m)
             /\ at' = "finish"
             /\ UNCHANGED <<reason, valveFired>>
          \/ /\ ~ Complete(d)
             /\ CutShort(1)
  /\ UNCHANGED <<round, rounds, searchVars>>

Next ==
  \/ Gate
  \/ Stage("reflect", "probe", 0 .. MaxHypotheses)
  \/ Probe
  \/ EndProbes
  \/ Stage("mutate", "child", {left})
  \/ StarChild
  \/ Searched
  \/ Final
  \/ (Finish \/ Cancel \/ Fails({"probe", "child", "final"}))
       /\ UNCHANGED searchVars

Spec == Init /\ [][Next]_<<loopVars, searchVars>>

-----------------------------------------------------------------------------

\* What the plan sets aside is there when it is needed: until the final
\* evaluation begins, the budget can still take every retained sample, unless
\* the plan had less than two evaluations to give to a round, or a round
\* probed more than the one hypothesis the plan allows for.  The plan counts
\* samples, not repetitions.
ReserveHeld ==
  /\ EvalLimit > 0 /\ Reps = 1 /\ share >= 2 /\ probed <= 1
  /\ at \notin {"finish", "done", "error"}
  => EvalLimit - budget.evals >= Kept

=============================================================================
