---------------------------- MODULE MCOptimizers ----------------------------
(***************************************************************************)
(* A small instance of Optimizers: two retained samples, one of them of    *)
(* the train split, and budgets as the pipeline leaves them.               *)
(***************************************************************************)
EXTENDS Optimizers, TLC

Spent(evals, executor, optimizer) ==
  [evals |-> evals,
   usage |-> [executor |-> executor, judge |-> 0, optimizer |-> optimizer],
   softStop |-> TokenLimit > 0 /\ executor > TokenLimit]

\* Less than the router reckons with and as much, both at the token limit and a
\* token short of the valve; the soft stop armed by the last sample; a synthesis
\* that passed the valve.
MCInherited ==
  {Spent(4, TokenLimit, OptLimit - 1), Spent(6, TokenLimit, OptLimit - 1),
   Spent(4, TokenLimit + 1, 0), Spent(4, 0, OptLimit + 4)}

=============================================================================
