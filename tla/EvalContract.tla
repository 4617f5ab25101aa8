---------------------------- MODULE EvalContract ----------------------------
(***************************************************************************)
(* What one evaluation run promises its caller, without workers, budgets   *)
(* or provider calls: every sample gets exactly one verdict, nothing is    *)
(* reported before all have one, and the status the run ends with follows  *)
(* from the verdicts and from whether the caller cancelled it.             *)
(***************************************************************************)
EXTENDS Integers

CONSTANT N                  \* number of samples, in dispatch order: a natural

Samples == 1 .. N

VARIABLES verdict,          \* what became of each sample
          cancelled,        \* has the caller cancelled the run?
          status            \* "running", or the terminal status

Verdict == {"pending", "undispatched", "failed", "scored"}
Status == {"running", "aborted", "budget_exhausted", "failed", "completed"}

ContractTypeOK ==
  /\ verdict \in [Samples -> Verdict]
  /\ cancelled \in BOOLEAN
  /\ status \in Status

Init ==
  /\ verdict = [s \in Samples |-> "pending"]
  /\ cancelled = FALSE
  /\ status = "running"

Pending == {s \in Samples : verdict[s] = "pending"}

\* One evaluated sample, or any number of samples given up at once.
Resolve ==
  /\ \/ \E s \in Pending, v \in {"failed", "scored"} :
          verdict' = [verdict EXCEPT ![s] = v]
     \/ \E S \in (SUBSET Pending) \ {{}} :
          verdict' = [s \in Samples |-> IF s \in S THEN "undispatched"
                                                   ELSE verdict[s]]
  /\ UNCHANGED <<cancelled, status>>

Interrupt ==
  /\ status = "running"
  /\ ~ cancelled
  /\ cancelled' = TRUE
  /\ UNCHANGED <<verdict, status>>

\* Cancellation outranks exhaustion, exhaustion outranks failure.
Verdicts == {verdict[s] : s \in Samples}

Report ==
  /\ status = "running"
  /\ Pending = {}
  /\ status' = IF cancelled THEN "aborted"
               ELSE IF "undispatched" \in Verdicts THEN "budget_exhausted"
               ELSE IF "failed" \in Verdicts THEN "failed"
               ELSE "completed"
  /\ UNCHANGED <<verdict, cancelled>>

Next == Resolve \/ Interrupt \/ Report

vars == <<verdict, cancelled, status>>

Spec == Init /\ [][Next]_vars /\ WF_vars(Resolve) /\ WF_vars(Report)

=============================================================================
