--------------------------- MODULE AnchorLibrary ----------------------------
(***************************************************************************)
(* The library of real samples of one task (internal/anchors/anchors.go):  *)
(* the confirmed layer, which verify measures against, and the staging     *)
(* layer, where verify --promote leaves its samples until somebody runs    *)
(* anchor promote.  Each layer is one file, replaced atomically; Add and   *)
(* Promote read and write them one at a time.  The library knows a sample  *)
(* by its input, which stands for its hash; the id it has from its dataset *)
(* is what people name it by, and may be another sample's too.             *)
(***************************************************************************)
EXTENDS Commands

CONSTANTS Ids,        \* sample ids
          Inputs,     \* input_hash
          Datasets    \* what anchor add may be given, sequences of samples

VARIABLES confirmed, staging,   \* sequences of entries
          raced,    \* history variable: a write missed another one's change
          halved,   \* history variable: a promote ended between its writes
          endorsed  \* history variable: entries a promote found in staging

libraryVars == <<confirmed, staging, raced, halved, endorsed>>
library == <<confirmed, staging>>

Samples == [id : Ids, input : Inputs]
Entry(s, source, verdict) ==
  [id |-> s.id, input |-> s.input, source |-> source, verdict |-> verdict]
Entries == [id : Ids, input : Inputs, source : {"manual", "verify-failure"},
            verdict : {"none", "regressed", "pass"}]

InputsOf(layer) == {layer[i].input : i \in DOMAIN layer}

\* The entries whose input has no slot yet, one for each input.
Fresh(entries, taken) ==
  FoldLeft(LAMBDA kept, e : IF e.input \in taken \cup InputsOf(kept)
                            THEN kept ELSE Append(kept, e),
           <<>>, entries)

-----------------------------------------------------------------------------
(* Store.Add, for the command and for verify: `after' is how its caller     *)
(* goes on.                                                                 *)

Adding(by, entries, layer, after) ==
  [cmd |-> "add", pc |-> "load", by |-> by, entries |-> entries,
   layer |-> layer, after |-> after]

AnchorAdd(p) ==
  /\ Begins(p, "add")
  /\ \E ds \in Datasets, layer \in {"confirmed", "staging"} :
       Becomes(p, Adding("human",
                         [i \in DOMAIN ds |-> Entry(ds[i], "manual", "none")],
                         layer, Over))
  /\ UNCHANGED libraryVars

\* Load: one layer, then the other.
AddLoad(p) ==
  /\ At(p, "add", "load")
  /\ Becomes(p, [cmd |-> "add", pc |-> "scan", by |-> job[p].by,
                 entries |-> job[p].entries, layer |-> job[p].layer,
                 after |-> job[p].after, seen |-> confirmed])
  /\ UNCHANGED libraryVars

AddScan(p) ==
  /\ At(p, "add", "scan")
  /\ LET taken == InputsOf(job[p].seen) \cup InputsOf(staging)
         fresh == Fresh(job[p].entries, taken)
     IN  IF fresh = <<>>
         THEN Becomes(p, job[p].after)
         ELSE Becomes(p, [cmd |-> "add", pc |-> "reread", by |-> job[p].by,
                          entries |-> fresh, layer |-> job[p].layer,
                          after |-> job[p].after,
                          read |-> <<job[p].seen, staging>>])
  /\ UNCHANGED libraryVars

Overwrite(p) ==      \* slip: the target layer is replaced, not added to
  /\ At(p, "add", "reread")
  /\ Becomes(p, [cmd |-> "add", pc |-> "save", by |-> job[p].by,
                 layer |-> job[p].layer, after |-> job[p].after,
                 read |-> job[p].read, next |-> job[p].entries])
  /\ UNCHANGED libraryVars

\* The target layer is read again before it is written.
AddReread(p) ==
  /\ At(p, "add", "reread")
  /\ LET now == IF job[p].layer = "confirmed" THEN confirmed ELSE staging
     IN  Becomes(p, [cmd |-> "add", pc |-> "save", by |-> job[p].by,
                     layer |-> job[p].layer, after |-> job[p].after,
                     read |-> job[p].read, next |-> now \o job[p].entries])
  /\ UNCHANGED libraryVars

AddSave(p) ==
  /\ At(p, "add", "save")
  /\ IF job[p].layer = "confirmed"
     THEN confirmed' = job[p].next /\ UNCHANGED staging
     ELSE staging' = job[p].next /\ UNCHANGED confirmed
  /\ raced' = (raced \/ library # job[p].read)
  /\ Becomes(p, job[p].after)
  /\ UNCHANGED <<halved, endorsed>>

\* A layer that cannot be read or written: nothing is, and verify goes on.
AddFails(p) ==
  /\ job[p].cmd = "add"
  /\ Becomes(p, IF job[p].by = "verify" THEN job[p].after ELSE Over)
  /\ UNCHANGED libraryVars

-----------------------------------------------------------------------------
(* Store.Promote: everything in staging, or the named samples. *)

Picked(layer, ids) == Less(layer, {e \in Entries : ids # {} /\ e.id \notin ids})
Without(layer, entries) ==
  Less(layer, {e \in Entries : e.input \in InputsOf(entries)})

PromoteLoad(p) ==
  /\ Begins(p, "promote")
  /\ \E ids \in SUBSET Ids :
       Becomes(p, [cmd |-> "promote", pc |-> "read", ids |-> ids, seen |-> staging])
  /\ UNCHANGED libraryVars

\* A name that no sample in staging has is an error.
PromoteRead(p) ==
  /\ At(p, "promote", "read")
  /\ LET seen == job[p].seen
         picked == Picked(seen, job[p].ids)
     IN  IF ~ job[p].ids \subseteq {seen[i].id : i \in DOMAIN seen} \/ picked = <<>>
         THEN Ends(p)
         ELSE Becomes(p, [cmd |-> "promote", pc |-> "confirm",
                next |-> confirmed \o Fresh(picked, InputsOf(confirmed)),
                left |-> Without(seen, picked),
                read |-> <<confirmed, seen>>])
  /\ UNCHANGED libraryVars

PromoteConfirm(p) ==
  /\ At(p, "promote", "confirm")
  /\ confirmed' = job[p].next
  /\ raced' = (raced \/ library # job[p].read)
  /\ Becomes(p, [cmd |-> "promote", pc |-> "unstage", left |-> job[p].left,
                 read |-> <<job[p].next, job[p].read[2]>>])
  /\ endorsed' = endorsed \cup Range(job[p].read[2])
  /\ UNCHANGED <<staging, halved>>

PromoteUnstage(p) ==
  /\ At(p, "promote", "unstage")
  /\ staging' = job[p].left
  /\ raced' = (raced \/ library # job[p].read)
  /\ Ends(p)
  /\ UNCHANGED <<confirmed, halved, endorsed>>

PromoteFails(p) ==
  /\ job[p].cmd = "promote"
  /\ halved' = (halved \/ job[p].pc = "unstage")
  /\ Ends(p)
  /\ UNCHANGED <<confirmed, staging, raced, endorsed>>

LibraryStep(p) ==
  \/ AnchorAdd(p) \/ AddLoad(p) \/ AddScan(p) \/ AddReread(p) \/ AddSave(p)
  \/ AddFails(p)
  \/ PromoteLoad(p) \/ PromoteRead(p) \/ PromoteConfirm(p) \/ PromoteUnstage(p)
  \/ PromoteFails(p)

=============================================================================
