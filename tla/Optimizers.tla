----------------------------- MODULE Optimizers -----------------------------
(***************************************************************************)
(* One optimisation run by any optimiser but Gepa: the router              *)
(* (internal/optimizers/router.go) or the flag picks it, and it keeps the  *)
(* run until it returns.  An optimiser's own state stays at its initial    *)
(* value while another one runs.                                           *)
(***************************************************************************)
EXTENDS Scaffold

CONSTANTS MaxArms, FoldSize, FullScore,
          PopulationSize,
          Train, DemoPoolCap, DemosPerCombo, NumInstructions, CombosPerRound,
          Batch, MaxHypotheses

VARIABLES paradigm,   \* Decision.Paradigm
          auto,       \* --optimizer auto
          folds, pulls, arm, unpaid,
          variant, pop, tries, births, seq,
          instructions, pool, combos, scored, truncated, demos, batch,
          star, left, lift, short, raised, share, probed

PT == INSTANCE ProTeGi
EP == INSTANCE EvoPrompt
MP == INSTANCE MIPROv2
P  == INSTANCE P1

ASSUME OptimizersAssumption ==
  /\ PT!ProTeGiParameters /\ EP!EvoPromptParameters
  /\ MP!MIPROv2Parameters /\ P!P1Parameters

choiceVars == <<paradigm, auto>>
protegiVars == <<folds, pulls, arm, unpaid>>
evoVars == <<variant, pop, tries, births, seq>>
jointVars == <<instructions, pool, combos, scored, truncated, demos, batch>>
p1Vars == <<star, left, lift, short, raised, share, probed>>
vars == <<loopVars, choiceVars, protegiVars, evoVars, jointVars, p1Vars>>

-----------------------------------------------------------------------------
(* The router. *)

Registered == {"evoprompt", "gepa", "miprov2", "p1", "protegi"}

Features == [jointFewShot : BOOLEAN, tightBudget : BOOLEAN,
             multiConstraint : BOOLEAN]

\* tightBudgetEvals: two probe variants, the baseline and two rounds.
TightBudget == EvalLimit > 0 /\ EvalLimit < 5 * Cardinality(Cells)

\* routeFeatures: whether the primary metric is verifiable, and whether there
\* are several metrics, is the task's.
TaskFeatures ==
  {f \in Features : /\ f.tightBudget <=> TightBudget
                    /\ f.jointFewShot => Cardinality(Train) >= 2}

RouteIntent(f) ==
  CASE f.tightBudget -> "p1"
    [] ~ f.tightBudget /\ f.jointFewShot -> "miprov2"
    [] ~ f.tightBudget /\ ~ f.jointFewShot /\ f.multiConstraint -> "gepa"
    [] OTHER -> "protegi"

\* available
Route(f) == IF RouteIntent(f) \in Registered THEN RouteIntent(f) ELSE "gepa"

\* resolveOptimizer
Resolve(requested, f) == IF requested = "auto" THEN Route(f) ELSE requested

Idle ==
  /\ paradigm # "protegi" =>
       folds = <<>> /\ pulls = <<>> /\ arm = 0 /\ unpaid = 0
  /\ paradigm # "evoprompt" =>
       variant = "none" /\ pop = <<>> /\ tries = 0 /\ births = <<>> /\ seq = 0
  /\ paradigm # "miprov2" =>
       /\ instructions = 0 /\ pool = {} /\ combos = 0 /\ scored = 0
       /\ truncated = 0 /\ demos = {} /\ batch = {}
  /\ paradigm # "p1" =>
       /\ star = 0 /\ left = 0 /\ lift = FALSE /\ short = FALSE
       /\ raised = FALSE /\ share = 0 /\ probed = 0

-----------------------------------------------------------------------------

Init ==
  /\ \E requested \in Registered \cup {"auto"}, f \in TaskFeatures :
       /\ paradigm = Resolve(requested, f)
       /\ auto = (requested = "auto")
  /\ paradigm # "gepa"
  /\ paradigm = "protegi" => PT!Init
  /\ paradigm = "evoprompt" => EP!Init
  /\ paradigm = "miprov2" => MP!Init
  /\ paradigm = "p1" => P!Init
  /\ Idle

RunProTeGi ==
  /\ paradigm = "protegi"
  /\ PT!Next
  /\ UNCHANGED <<choiceVars, evoVars, jointVars, p1Vars>>

RunEvoPrompt ==
  /\ paradigm = "evoprompt"
  /\ EP!Next
  /\ UNCHANGED <<choiceVars, protegiVars, jointVars, p1Vars>>

RunMIPROv2 ==
  /\ paradigm = "miprov2"
  /\ MP!Next
  /\ UNCHANGED <<choiceVars, protegiVars, evoVars, p1Vars>>

RunP1 ==
  /\ paradigm = "p1"
  /\ P!Next
  /\ UNCHANGED <<choiceVars, protegiVars, evoVars, jointVars>>

Returned == at \in {"done", "error"} /\ UNCHANGED vars

Next == RunProTeGi \/ RunEvoPrompt \/ RunMIPROv2 \/ RunP1 \/ Returned

Spec == Init /\ [][Next]_vars

-----------------------------------------------------------------------------
(* Properties. *)

TypeOK ==
  /\ paradigm \in Registered \ {"gepa"} /\ auto \in BOOLEAN
  /\ paradigm = "protegi" => PT!TypeOK
  /\ paradigm = "evoprompt" => EP!TypeOK
  /\ paradigm = "miprov2" => MP!TypeOK
  /\ paradigm = "p1" => P!TypeOK
  /\ Idle

\* Whatever the optimiser and whatever ends it: the lineage explains the
\* frontier, and the best of all that was evaluated in full is delivered, up to
\* the measured noise and the place of the constraint.
RunsExplained == MembersExplained /\ DeliversTheBest

\* The books two optimisers keep beside the frontier: the bandit's pulls pay
\* for every closed round, the population agrees with the frontier up to the
\* measured noise.
BooksAgree ==
  /\ paradigm = "protegi" => PT!ArmsInTurn
  /\ paradigm = "evoprompt" => EP!PopulationSound

\* Where auto sends a run that spent no more than the router reckons with
\* before it, the evaluation budget alone does not stop the default optimiser
\* before its second child.
TwoRoundsAfforded ==
  auto /\ paradigm = "protegi" /\ Reps = 1
    /\ (\A b \in Inherited : b.evals <= 3 * Cardinality(Cells))
    /\ reason = "budget_stopped" /\ ~ cancelled /\ ~ Stopped
  => Cardinality(whole) >= 2

\* The two optimisers that plan ahead keep what they set aside: samples that
\* only score a pair while pairs are chosen, evaluations for the final only.
SpendsAsPlanned ==
  /\ paradigm = "miprov2" => MP!LeakFree
  /\ paradigm = "p1" => P!ReserveHeld
  /\ TwoRoundsAfforded

=============================================================================
