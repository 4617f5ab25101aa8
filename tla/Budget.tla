------------------------------- MODULE Budget -------------------------------
(***************************************************************************)
(* The dispatch budget shared by every evaluation of a run                 *)
(* (internal/eval/budget.go).  A budget is a value here and every method   *)
(* of the Go type is an operator from budgets to budgets: each method runs *)
(* under the type's mutex, so a client applies one operator per step.      *)
(*                                                                         *)
(* Usage is a number of tokens per role (prompt plus completion).  A limit *)
(* of 0 means unlimited.                                                   *)
(*                                                                         *)
(* Here and in the other modules a definition marked "slip" is a plausible *)
(* mistake in the definition that follows it.  Nothing uses it: the        *)
(* mutation runs put it in that definition's place, and a property of the  *)
(* project must then fail.                                                 *)
(***************************************************************************)
EXTENDS Integers

CONSTANTS TokenLimit,   \* bound on executor plus judge tokens
          EvalLimit     \* bound on executor evaluations

ASSUME LimitAssumption == TokenLimit \in Nat /\ EvalLimit \in Nat

Role == {"executor", "judge", "optimizer"}

Budgets == [evals : Nat, usage : [Role -> Nat], softStop : BOOLEAN]

NewBudget == [evals |-> 0, usage |-> [r \in Role |-> 0], softStop |-> FALSE]

\* The tokens the soft stop is armed on: both evaluation roles, never the
\* optimizer's.
EvalTokens(b) == b.usage["executor"] + b.usage["judge"]

\* TryAcquireEvals(k) is all or nothing: it succeeds exactly when
\* CanAcquire, and then occupies k slots.
AnyTokens(b, k) ==                \* slip: the soft stop is not read
  EvalLimit > 0 => b.evals + k <= EvalLimit

OneSlotLeft(b, k) ==              \* slip: room for one slot, not for k
  ~ b.softStop /\ (EvalLimit > 0 => b.evals < EvalLimit)

CanAcquire(b, k) ==
  /\ ~ b.softStop
  /\ EvalLimit > 0 => b.evals + k <= EvalLimit

AcquireOne(b, k) == [b EXCEPT !.evals = @ + 1]    \* slip: k forgotten
Acquire(b, k) == [b EXCEPT !.evals = @ + k]

\* The sum is compared with the limit strictly: spending exactly the limit
\* keeps dispatching.
OverLimit(b) == TokenLimit > 0 /\ EvalTokens(b) > TokenLimit

RecordUsage(b, role, tokens) ==
  LET spent == [b.usage EXCEPT ![role] = @ + tokens]
      after == [evals |-> b.evals, usage |-> spent, softStop |-> b.softStop]
  IN  [after EXCEPT !.softStop =
         @ \/ (role \in {"executor", "judge"} /\ OverLimit(after))]

(***************************************************************************)
(* A budget the program can be in: reservations never passed the limit,    *)
(* and the soft stop is armed exactly when the tokens say so.              *)
(***************************************************************************)
Reachable(b) ==
  /\ b \in Budgets
  /\ EvalLimit > 0 => b.evals <= EvalLimit
  /\ b.softStop <=> OverLimit(b)

=============================================================================
