------------------------------ MODULE ProTeGi -------------------------------
(***************************************************************************)
(* The text-gradient optimiser (internal/optimizers/protegi): a bandit     *)
(* over folds of the retained set picks what to criticise, two stages      *)
(* rewrite the best prompt, the child is evaluated and admitted.  UCB1's   *)
(* choice among arms that were all pulled is left free: it is a formula    *)
(* over the lifts.                                                         *)
(***************************************************************************)
EXTENDS Scaffold

CONSTANTS MaxArms,     \* maxFoldArms
          FoldSize,    \* samples a fold should have: the 2 of foldArms
          FullScore    \* the primary score that reads as 1

ProTeGiParameters ==
  MaxArms \in Nat \ {0} /\ FoldSize \in Nat \ {0} /\ FullScore \in Int

VARIABLES folds,    \* the samples of each arm
          pulls,    \* bandit.pulls
          arm,      \* the arm of the round
          (* history, read by the properties only *)
          unpaid    \* rounds that failed and charged no arm

banditVars == <<folds, pulls, arm, unpaid>>

Smaller(a, b) == IF a < b THEN a ELSE b
Larger(a, b) == IF a > b THEN a ELSE b

ArmCount == Smaller(MaxArms, Larger(1, Cardinality(Cells) \div FoldSize))
Arms == 1 .. ArmCount

\* makeFolds: a shuffle, cut into contiguous pieces of nearly equal size.
CutEnd(i) == (i * Cardinality(Cells)) \div ArmCount

Foldings ==
  {f \in [Arms -> SUBSET Cells] :
     /\ \A i \in Arms : Cardinality(f[i]) = CutEnd(i) - CutEnd(i - 1)
     /\ \A i, j \in Arms : i # j => f[i] \cap f[j] = {}}

BanditType ==
  /\ folds \in Foldings
  /\ pulls \in [Arms -> 0 .. MaxRounds]
  /\ arm \in Arms
  /\ unpaid \in 0 .. MaxRounds

TypeOK ==
  /\ at \in {"gate", "gradient", "apply", "child", "finish", "done", "error"}
  /\ LoopType(0 .. MaxRounds)
  /\ BanditType

Init ==
  /\ NewLoop("gate")
  /\ folds \in Foldings
  /\ pulls = [a \in Arms |-> 0]
  /\ arm = 1 /\ unpaid = 0

\* bandit.Select: an arm never pulled comes first, in index order.
AnyArm(a) == TRUE                     \* slip: exploration left to the formula
Selected(a) ==
  \/ pulls[a] = 0 /\ \A b \in 1 .. a - 1 : pulls[b] # 0
  \/ \A b \in Arms : pulls[b] # 0

Charge(a) == pulls' = [pulls EXCEPT ![a] = @ + 1]

\* The fold's samples the best prompt still fails, the evidence of a round.
FoldFailures(a) == {c \in folds[a] : Best(members).row[c] < FullScore}

\* A fold without failures charges its arm and costs nothing else.
Gate ==
  /\ at = "gate"
  /\ \/ /\ RoundsOver
        /\ Stop("rounds_done")
        /\ UNCHANGED <<round, rounds, valveFired, pulls, arm>>
     \/ /\ ~ RoundsOver
        /\ GateStops
        /\ UNCHANGED <<round, rounds, pulls, arm>>
     \/ /\ ~ RoundsOver /\ Open
        /\ round' = round + 1
        /\ \E a \in Arms :
             /\ Selected(a)
             /\ arm' = a
             /\ IF FoldFailures(a) = {}
                THEN Charge(a) /\ rounds' = round' /\ UNCHANGED at
                ELSE at' = "gradient" /\ UNCHANGED <<rounds, pulls>>
        /\ UNCHANGED <<reason, valveFired>>
  /\ UNCHANGED <<frontierVars, budget, cancelled, folds, unpaid>>

\* gradient and apply: refused at the valve, failed (the round is skipped and
\* no arm is charged), or answered.
Stage(here, next) ==
  /\ at = here
  /\ \/ /\ StageRefused
        /\ Stop("budget_stopped")
        /\ valveFired' = TRUE
        /\ UNCHANGED <<rounds, unpaid>>
     \/ /\ StageFailed
        /\ rounds' = round
        /\ unpaid' = unpaid + 1
        /\ at' = "gate"
        /\ UNCHANGED <<valveFired, reason>>
     \/ /\ StageDone
        /\ at' = next
        /\ UNCHANGED <<valveFired, reason, rounds, unpaid>>
  /\ UNCHANGED <<round, frontierVars, cancelled, folds, pulls, arm>>

\* The child of the round is offered and its arm charged with the lift.
Child ==
  /\ at = "child"
  /\ rounds' = round
  /\ \E d \in 0 .. Cardinality(Cells) :
       /\ RunUnit(Cardinality(Cells), d)
       /\ \/ /\ Complete(d)
             /\ \E m \in Candidates({round}) : Raise(m)
             /\ Charge(arm)
             /\ CloseRound("gate")
          \/ /\ ~ Complete(d)
             /\ CutShort(round)
             /\ UNCHANGED pulls
  /\ UNCHANGED <<round, folds, arm, unpaid>>

Next ==
  \/ Gate
  \/ Stage("gradient", "apply")
  \/ Stage("apply", "child")
  \/ Child
  \/ (Finish \/ Cancel \/ Fails({"child"})) /\ UNCHANGED banditVars

Spec == Init /\ [][Next]_<<loopVars, banditVars>>

-----------------------------------------------------------------------------

\* Every closed round was charged to an arm or failed, and as long as an arm
\* was never pulled no other is pulled twice: rounds that fail on one fold
\* delay the folds behind it by their own number and no more.
ArmsInTurn ==
  /\ at = "gate" => SumFunction(pulls) + unpaid = rounds
  /\ \A a, b \in Arms : a < b /\ pulls[b] > 0 => pulls[a] > 0
  /\ (\E a \in Arms : pulls[a] = 0) => \A a \in Arms : pulls[a] <= 1

=============================================================================
