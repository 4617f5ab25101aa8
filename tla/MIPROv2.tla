------------------------------ MODULE MIPROv2 -------------------------------
(***************************************************************************)
(* The joint search over instructions and few-shot demos                   *)
(* (internal/optimizers/miprov2): one proposal, and per round a few pairs  *)
(* of an instruction and a draw of demos, each scored on samples that are  *)
(* not its demos; the best of them is evaluated in full.  Which pair is    *)
(* the best is left out: it does not restrict the row the child gets.      *)
(***************************************************************************)
EXTENDS Scaffold

CONSTANTS Train,             \* the retained samples of the train split
          DemoPoolCap,       \* demoPoolCap
          DemosPerCombo,     \* demosPerCombo
          NumInstructions,   \* numInstructions
          CombosPerRound,    \* combosPerRound
          Batch              \* Params.Minibatch

MIPROv2Parameters ==
  /\ Train \subseteq Cells
  /\ {DemoPoolCap, DemosPerCombo, NumInstructions, CombosPerRound, Batch}
       \subseteq Nat \ {0}

VARIABLES instructions,   \* how many variants the proposal left
          pool,           \* the few-shot pool
          combos,         \* pairs of the round still to be scored
          scored,         \* pairs scored on their whole minibatch
          truncated,      \* pairs the budget cut short
          (* history, read by the properties only *)
          demos, batch    \* the demos and the minibatch of the last pair

jointVars == <<instructions, pool, combos, scored, truncated, demos, batch>>

Least(a, b) == IF a < b THEN a ELSE b

MIPROv2Type ==
  /\ instructions \in 0 .. NumInstructions
  /\ pool \subseteq Cells
  /\ {combos, scored, truncated} \subseteq 0 .. CombosPerRound
  /\ demos \subseteq Cells /\ batch \subseteq Cells

TypeOK ==
  /\ at \in {"propose", "gate", "combo", "child", "finish", "done", "error"}
  /\ LoopType(0 .. MaxRounds)
  /\ MIPROv2Type

\* demoPool: train samples first, up to the cap.
Pools ==
  {p \in SUBSET Cells :
     /\ Cardinality(p) = Least(DemoPoolCap, Cardinality(Cells))
     /\ Train \subseteq p \/ p \subseteq Train}

\* drawDemos: one sample of the pool is always left out of the prompt.
WholePool ==                                      \* slip: the cap forgotten
  {d \in SUBSET pool : Cardinality(d) = Least(DemosPerCombo, Cardinality(pool))}
Draws ==
  {d \in SUBSET pool :
     Cardinality(d) = IF Cardinality(pool) <= 1 THEN 0
                      ELSE Least(DemosPerCombo, Cardinality(pool) - 1)}

\* minibatchFrom: the retained samples without the demos, unless these are all.
Minibatches(d) ==
  LET rest == Cells \ d
  IN  IF rest = {} THEN {Cells}
      ELSE {b \in SUBSET rest : Cardinality(b) = Least(Batch, Cardinality(rest))}

Init ==
  /\ NewLoop("propose")
  /\ pool \in Pools
  /\ instructions = 0 /\ combos = 0 /\ scored = 0 /\ truncated = 0
  /\ demos = {} /\ batch = {}

-----------------------------------------------------------------------------

\* A failed proposal leaves the baseline's prompt as the only instruction.
Propose ==
  /\ at = "propose"
  /\ \/ /\ cancelled
        /\ Stop("aborted")
        /\ UNCHANGED <<budget, instructions, valveFired>>
     \/ /\ ~ cancelled /\ StageRefused
        /\ Stop("budget_stopped")
        /\ valveFired' = TRUE
        /\ UNCHANGED instructions
     \/ /\ ~ cancelled /\ StageFailed
        /\ instructions' = 1
        /\ at' = "gate"
        /\ UNCHANGED <<reason, valveFired>>
     \/ /\ ~ cancelled /\ StageDone
        /\ instructions' \in 1 .. NumInstructions
        /\ at' = "gate"
        /\ UNCHANGED <<reason, valveFired>>
  /\ UNCHANGED <<round, rounds, frontierVars, cancelled, pool, combos, scored,
                 truncated, demos, batch>>

Gate ==
  /\ at = "gate"
  /\ \/ /\ RoundsOver
        /\ Stop("rounds_done")
        /\ UNCHANGED <<round, valveFired, combos, scored, truncated>>
     \/ /\ ~ RoundsOver
        /\ GateStops
        /\ UNCHANGED <<round, combos, scored, truncated>>
     \/ /\ ~ RoundsOver /\ Open
        /\ round' = round + 1
        /\ combos' = Least(CombosPerRound, instructions)
        /\ scored' = 0 /\ truncated' = 0
        /\ at' = "combo"
        /\ UNCHANGED <<reason, valveFired>>
  /\ UNCHANGED <<rounds, frontierVars, budget, cancelled, instructions, pool,
                 demos, batch>>

\* scoreCombos: a pair cut short is passed over, the next one is tried.
Combo ==
  /\ at = "combo" /\ combos > 0 /\ ~ cancelled
  /\ combos' = combos - 1
  /\ demos' \in Draws
  /\ batch' \in Minibatches(demos')
  /\ \E d \in 0 .. Cardinality(batch') :
       /\ RunUnit(Cardinality(batch'), d)
       /\ IF d < Cardinality(batch')
          THEN truncated' = truncated + 1 /\ UNCHANGED scored
          ELSE scored' = scored + 1 /\ UNCHANGED truncated
  /\ UNCHANGED <<at, round, rounds, frontierVars, valveFired, reason,
                 instructions, pool>>

\* Without a pair to choose, the run is over; otherwise one is promoted.
EndCombos ==
  /\ at = "combo" /\ (combos = 0 \/ cancelled)
  /\ \/ /\ cancelled
        /\ Stop("aborted")
        /\ UNCHANGED rounds
     \/ /\ ~ cancelled /\ scored = 0
        /\ rounds' = round
        /\ Stop("budget_stopped")
     \/ /\ ~ cancelled /\ scored > 0
        /\ at' = "child"
        /\ UNCHANGED <<reason, rounds>>
  /\ UNCHANGED <<round, frontierVars, budget, cancelled, valveFired, jointVars>>

\* The promoted pair; a pair cut short in the round ends the run after it.
Child ==
  /\ at = "child"
  /\ rounds' = round
  /\ \E d \in 0 .. Cardinality(Cells) :
       /\ RunUnit(Cardinality(Cells), d)
       /\ \/ /\ Complete(d)
             /\ \E m \in Candidates({round}) : Raise(m)
             /\ IF truncated > 0
                THEN Stop("budget_stopped") /\ valveFired' = TRUE
                ELSE CloseRound("gate")
          \/ /\ ~ Complete(d)
             /\ CutShort(round)
  /\ UNCHANGED <<round, jointVars>>

Next ==
  \/ Propose
  \/ Gate
  \/ Combo
  \/ EndCombos
  \/ Child
  \/ (Finish \/ Cancel \/ Fails({"combo", "child"})) /\ UNCHANGED jointVars

Spec == Init /\ [][Next]_<<loopVars, jointVars>>

-----------------------------------------------------------------------------

\* The score a pair is chosen by comes from samples that are not its demos, and
\* never from none: the pool's cap and the batch's fallback to the whole
\* retained set must not meet.  (Only the choice: the promoted child is
\* evaluated on every retained sample, its own demos among them, and that row
\* decides its admission.)
LeakFree == demos \cap batch = {} /\ (at = "child" => batch # {})

=============================================================================
