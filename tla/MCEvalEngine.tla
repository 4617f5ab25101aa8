---------------------------- MODULE MCEvalEngine ----------------------------
(***************************************************************************)
(* Budgets a run may inherit, for the small instances of EvalEngine.       *)
(***************************************************************************)
EXTENDS EvalEngine

Spent(evals, executor, judge) ==
  [evals |-> evals,
   usage |-> [executor |-> executor, judge |-> judge, optimizer |-> 0],
   softStop |-> TokenLimit > 0 /\ executor + judge > TokenLimit]

MCFresh == {NewBudget}

\* Unused; two evaluations short of the limit; at the token limit; over it.
MCInherited ==
  {NewBudget, Spent(2, 0, 0), Spent(1, 0, TokenLimit), Spent(1, TokenLimit, 1)}

=============================================================================
