------------------------------ MODULE Scaffold ------------------------------
(***************************************************************************)
(* How an optimiser other than Gepa stands on Loop: where it begins, the   *)
(* gates at the head of its rounds, its end, the caller's cancellation,    *)
(* and the ways an evaluation of a child may go (docs/plugins.md gives the *)
(* same frame to all of them).  The budget is not fresh: the synthesis, the *)
(* probes and the baseline were paid from it.                              *)
(***************************************************************************)
EXTENDS Loop, Sequences

loopVars == <<at, round, members, lineage, budget, valveFired, cancelled,
              reason, rounds, offered, admitted, whole>>
frontierVars == <<members, lineage, offered, admitted, whole>>

LoopType(ids) ==
  /\ round \in 0 .. MaxRounds /\ rounds \in 0 .. round
  /\ members \subseteq offered /\ admitted \subseteq offered
  /\ offered \subseteq Candidates(ids)
  /\ lineage \subseteq Lineages(ids)
  /\ budget \in Budgets
  /\ valveFired \in BOOLEAN /\ cancelled \in BOOLEAN
  /\ reason \in Reason
  /\ whole \subseteq ids

\* NewLoop: the baseline is on the frontier and in the lineage.
NewLoop(start) ==
  /\ at = start /\ round = 0
  /\ \E m \in Candidates({0}) : members = {m}
  /\ lineage = {[id |-> 0, admitted |-> TRUE, incomplete |-> FALSE]}
  /\ budget \in Inherited
  /\ valveFired = FALSE /\ cancelled = FALSE
  /\ reason = "none" /\ rounds = 0
  /\ offered = members /\ admitted = members /\ whole = {}

\* The gates before a unit of work: cancellation beats the budget.
Open == ~ cancelled /\ ~ Stopped

GateStops ==
  \/ cancelled /\ Stop("aborted") /\ UNCHANGED valveFired
  \/ ~ cancelled /\ Stopped /\ Stop("budget_stopped") /\ valveFired' = TRUE

RoundsOver == round = MaxRounds

\* The end of a round that evaluated its child: the budget is looked at again.
CloseRound(next) ==
  IF Stopped' THEN Stop("budget_stopped") /\ valveFired' = TRUE
              ELSE at' = next /\ UNCHANGED <<reason, valveFired>>

\* A child over the whole retained set that was evaluated on all of it (Raise),
\* or not on all of it (CutShort): it leaves a trace in the lineage only.
Raise(m) == Offered(m) /\ Recorded(m) /\ whole' = whole \cup {m.id}

CutShort(id) ==
  /\ RecordedIncomplete(id)
  /\ Stop("budget_stopped")
  /\ UNCHANGED <<members, offered, admitted, whole, valveFired>>

\* Loop.Finish, unless the report cannot be written.
Finish ==
  /\ at = "finish"
  /\ at' \in {"done", "error"}
  /\ UNCHANGED <<round, frontierVars, budget, valveFired, cancelled, reason,
                 rounds>>

\* A unit that cannot write its directory or its results, a lineage that
\* cannot be written: the optimiser returns the error.
Fails(places) ==
  /\ at \in places
  /\ at' = "error"
  /\ UNCHANGED <<round, frontierVars, budget, valveFired, cancelled, reason,
                 rounds>>

Cancel ==
  /\ at \notin {"done", "error"}
  /\ ~ cancelled
  /\ cancelled' = TRUE
  /\ UNCHANGED <<at, round, frontierVars, budget, valveFired, reason, rounds>>

=============================================================================
