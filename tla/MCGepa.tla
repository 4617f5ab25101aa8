------------------------------- MODULE MCGepa -------------------------------
(***************************************************************************)
(* Small instances of Gepa: two retained samples, and budgets as the       *)
(* pipeline leaves them.                                                   *)
(***************************************************************************)
EXTENDS Gepa, TLC

MCScores == 0 .. 2

Spent(evals, executor, optimizer) ==
  [evals |-> evals,
   usage |-> [executor |-> executor, judge |-> 0, optimizer |-> optimizer],
   softStop |-> TokenLimit > 0 /\ executor > TokenLimit]

MCFresh == {NewBudget}

\* After a baseline in repetitions: at the token limit and a token short of the
\* valve, with the soft stop armed by the last sample, and after a synthesis
\* that passed the valve by more than a stage.
MCInherited ==
  {Spent(4, TokenLimit, OptLimit - 1), Spent(4, TokenLimit + 1, 0),
   Spent(4, 0, OptLimit + 4)}

=============================================================================
