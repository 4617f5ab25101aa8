------------------------------ MODULE Adoption ------------------------------
(***************************************************************************)
(* Which candidate of a run people use: adopted.json, rewritten by the     *)
(* dashboard's adopt button (internal/web/frontier.go) and by the rollback *)
(* command (cmd/promptopt/rollback.go), and the journal                    *)
(* adopted-history.jsonl, which only the rollback writes.  A candidate     *)
(* stands for its prompt too; the frontier no longer changes.              *)
(***************************************************************************)
EXTENDS Commands

CONSTANTS Members,   \* candidates of frontier.json that have a prompt
          Baseline   \* the baseline, from the frontier or the task contract

VARIABLES adopted,   \* adopted.json
          history,   \* adopted-history.jsonl
          displaced  \* history variable: the adoption the present one replaced

Nobody == "nobody"
Adoptable == Members \cup {Baseline}

\* SaveJSON replaces the file atomically.
Adopts(c) ==
  /\ adopted' = c
  /\ displaced' = IF adopted \in {Nobody, c} THEN displaced ELSE adopted

HandleAdopt(p) ==
  /\ Begins(p, "adopt")
  /\ \E c \in Members : Adopts(c)
  /\ Ends(p)
  /\ UNCHANGED history

-----------------------------------------------------------------------------
(* rollback *)

UncheckedTarget(current, lines) ==    \* slip: lines that do not parse count
  LET others == Less(lines, {current})
  IN  IF others = <<>> THEN Baseline ELSE Last(others)

LastTarget(current, lines) ==         \* slip: the last line, whatever it names
  IF Readable(lines) = <<>> THEN Baseline ELSE Last(Readable(lines))

RollbackTarget(current, lines) ==
  LET others == Less(Readable(lines), {current})
  IN  IF others = <<>> THEN Baseline ELSE Last(others)

\* --to names a member; without it the target is looked up.
RollbackRead(p) ==
  /\ Begins(p, "rollback")
  /\ IF adopted = Nobody
     THEN Ends(p)
     ELSE \E to \in Members \cup {Nobody} :
            Becomes(p, [cmd |-> "rollback", pc |-> "pick",
                        from |-> adopted, to |-> to])
  /\ UNCHANGED <<adopted, history, displaced>>

RollbackPick(p) ==
  /\ At(p, "rollback", "pick")
  /\ LET from == job[p].from
         plain == job[p].to = Nobody
         target == IF plain THEN RollbackTarget(from, history) ELSE job[p].to
     IN  IF target = from
         THEN Ends(p)
         ELSE Becomes(p, [cmd |-> "rollback", pc |-> "journal",
                          from |-> from, to |-> target,
                          plain |-> plain, seen |-> Len(history)])
  /\ UNCHANGED <<adopted, history, displaced>>

\* The line is written whole, or is cut short by a full disk or a crash.
RollbackJournal(p) ==
  /\ At(p, "rollback", "journal")
  /\ \/ /\ history' = Journalled(history, job[p].from)
        /\ Becomes(p, [cmd |-> "rollback", pc |-> "save",
                       from |-> job[p].from, to |-> job[p].to,
                       plain |-> job[p].plain, seen |-> job[p].seen])
     \/ /\ history' = CutIn(history)
        /\ Ends(p)
  /\ UNCHANGED <<adopted, displaced>>

\* Exporting the candidate may still fail, and the command with it, after the
\* switch.
RollbackSave(p) ==
  /\ At(p, "rollback", "save")
  /\ Adopts(job[p].to)
  /\ Ends(p)
  /\ UNCHANGED history

AdoptionStep(p) ==
  \/ HandleAdopt(p) \/ RollbackRead(p) \/ RollbackPick(p)
  \/ RollbackJournal(p) \/ RollbackSave(p)

=============================================================================
