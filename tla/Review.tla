------------------------------- MODULE Review -------------------------------
(***************************************************************************)
(* A zero-config run between its synthesis and its optimisation: the       *)
(* pipeline of internal/harness (pipeline.go, filter.go, checkpoint.go)    *)
(* and the part of cmd/promptopt/run.go that continues it, against the     *)
(* review handlers of internal/web/review.go.                              *)
(*                                                                         *)
(* They share no memory: they meet in the files of synth/<run_id>/, which  *)
(* the run reads three times (before the baseline, to route, to optimise). *)
(* A file is replaced by a rename, so that a read sees one whole version.  *)
(* The handlers serialise their read-modify-write cycles by synthMu; the   *)
(* run takes no lock.                                                      *)
(*                                                                         *)
(* A row of samples.json is an id with a content; 0 is the content it was  *)
(* synthesised with.  spec.json, which nobody here rewrites, and the texts *)
(* are left out.                                                           *)
(***************************************************************************)
EXTENDS Naturals, Functions

CONSTANTS Synthesised,   \* ids of the samples the pipeline synthesises
          Added,         \* ids a reviewer may add to the file by hand
          Contents,      \* what a row may hold
          Probes,        \* the probe variants
          Requests       \* requests the dashboard serves at a time

ASSUME ReviewAssumption ==
  /\ Synthesised # {} /\ Synthesised \cap Added = {}
  /\ 0 \in Contents
  /\ Probes # {}

VARIABLES
  samples,      \* samples.json: the content of every row
  dropped,      \* filter.json: the ids whose verdict is neither keep nor
                \* unmeasured
  fallbackAll,  \* filter.json: FallbackAll
  checkpoint,   \* checkpoint.json: its status
  mode,         \* the GateMode the run was started with
  at,           \* where the run stands
  seen,         \* samplesAfter: the file as the pipeline re-read it
  kept,         \* the samples of the baseline evaluation
  optimised,    \* Request.Samples
  status,       \* RunResult.Status
  cancelled,    \* ctx.Err() # nil
  request,      \* the handlers, with the file as each has loaded it
  (* history, read by the properties only *)
  touched       \* the ids of rows saved with a change between the pipeline's
                \* reading of samples.json and the optimiser's

vars == <<samples, dropped, fallbackAll, checkpoint, mode, at, seen, kept,
          optimised, status, cancelled, request, touched>>

files == <<samples, dropped, fallbackAll, checkpoint>>
memory == <<mode, seen, kept, optimised, touched>>

Ids == Synthesised \cup Added

NoRows == [s \in {} |-> 0]

\* samples.json as an edited file may be: some rows, each with a content.
Rows == UNION {[D -> Contents] : D \in SUBSET Ids}

Level == {"low", "mid", "high"}    \* a probe's score against the thresholds

Idle == [kind |-> "idle"]

RequestType ==
  {Idle}
    \cup [kind : {"edit"}, sid : Ids, content : Contents, loaded : Rows]
    \cup [kind : {"delete"}, sid : Ids, loaded : Rows]
    \cup [kind : {"approve"}]

Status == {"none", "completed", "failed", "budget_exhausted", "aborted"}

Waiting == {"polling", "sleeping"}

Place == Waiting \cup
  {"synthesis", "filter", "gate", "autopilot", "reload", "baseline", "routing",
   "preparing", "optimising", "finished"}

Checkpoint == {"absent", "pending", "approved"}

TypeOK ==
  /\ samples \in Rows /\ seen \in Rows /\ kept \in Rows /\ optimised \in Rows
  /\ dropped \subseteq Synthesised
  /\ fallbackAll \in BOOLEAN /\ cancelled \in BOOLEAN
  /\ checkpoint \in Checkpoint
  /\ mode \in {"interactive", "autopilot"}
  /\ at \in Place
  /\ status \in Status
  /\ request \in [Requests -> RequestType]
  /\ touched \subseteq Ids

Init ==
  /\ samples = NoRows /\ seen = NoRows /\ kept = NoRows /\ optimised = NoRows
  /\ dropped = {} /\ fallbackAll = FALSE
  /\ checkpoint = "absent"
  /\ mode \in {"interactive", "autopilot"}
  /\ at = "synthesis"
  /\ status = "none"
  /\ cancelled = FALSE
  /\ request = [r \in Requests |-> Idle]
  /\ touched = {}

-----------------------------------------------------------------------------
(* Filtering and retention                                                 *)

\* The verdict of one sample from the scores of the probes that gave one.
Classify(scores) ==
  IF DOMAIN scores = {} THEN "unmeasured"
  ELSE IF Range(scores) = {"high"} THEN "dead_easy"
  ELSE IF Range(scores) = {"low"} THEN "dead_hard"
  ELSE IF Range(scores) = {"mid"} THEN "noisy"
  ELSE "keep"

Verdict(scores) ==
  IF DOMAIN scores = Probes THEN Classify(scores) ELSE "unmeasured"

Survives(scores) == Verdict(scores) \in {"keep", "unmeasured"}

\* What the probes may find of one sample: a probe whose call failed, or that
\* the budget did not cover, leaves no score.
Evidence == UNION {[P -> Level] : P \in SUBSET Probes}

SelectKept(rows) == Restrict(rows, DOMAIN rows \ dropped)

\* The set the baseline is evaluated on, and the flag it leaves in filter.json.
FellBack(rows) == DOMAIN SelectKept(rows) = {}
EvaluationSet(rows) == IF FellBack(rows) THEN rows ELSE SelectKept(rows)

FlagForgotten(rows) == FALSE                 \* slip: the report is not saved
FlagSaved(rows) == fallbackAll \/ FellBack(rows)

\* retainedSamples: the same selection again, where an empty result is an
\* error unless the pipeline has fallen back.
AlwaysRetainable(rows) == TRUE                     \* slip: the flag is ignored
Retainable(rows) == FellBack(rows) => fallbackAll
Unfiltered(rows) == rows                           \* slip: no verdict is read
Retained(rows) == EvaluationSet(rows)

-----------------------------------------------------------------------------
(* The run                                                                 *)

\* Spec, samples and probes are synthesised and saved.
Synthesise ==
  /\ at = "synthesis"
  /\ samples' = [s \in Synthesised |-> 0]
  /\ at' = "filter"
  /\ UNCHANGED <<dropped, fallbackAll, checkpoint, memory, status,
                 cancelled, request>>

\* Filter.Apply replays the probes over the samples in memory, not over the
\* file, and the report is saved.
FilterApply ==
  /\ at = "filter"
  /\ \E evidence \in [Synthesised -> Evidence] :
       dropped' = {s \in Synthesised : ~ Survives(evidence[s])}
  /\ at' = "gate"
  /\ UNCHANGED <<samples, fallbackAll, checkpoint, memory, status,
                 cancelled, request>>

\* The checkpoint is always written pending first.
Gate ==
  /\ at = "gate"
  /\ checkpoint' = "pending"
  /\ at' = IF mode = "interactive" THEN "polling" ELSE "autopilot"
  /\ UNCHANGED <<samples, dropped, fallbackAll, memory, status,
                 cancelled, request>>

Autopilot ==
  /\ at = "autopilot"
  /\ checkpoint' = "approved"
  /\ at' = "reload"
  /\ UNCHANGED <<samples, dropped, fallbackAll, memory, status, cancelled,
                 request>>

\* One read of checkpoint.json, and the wait until the next.
Poll ==
  /\ \/ /\ at = "polling"
        /\ at' = IF checkpoint = "approved" THEN "reload" ELSE "sleeping"
     \/ at = "sleeping" /\ at' = "polling"
  /\ UNCHANGED <<files, memory, status, cancelled, request>>

\* select on ctx.Done while asleep.
AbortWait ==
  /\ at = "sleeping" /\ cancelled
  /\ at' = "finished" /\ status' = "failed"
  /\ UNCHANGED <<files, memory, cancelled, request>>

\* The artifacts are re-read; a selection without a sample falls back.
Reload ==
  /\ at = "reload"
  /\ seen' = samples
  /\ kept' = EvaluationSet(samples)
  /\ fallbackAll' = FlagSaved(samples)
  /\ at' = "baseline"
  /\ UNCHANGED <<samples, dropped, checkpoint, mode, optimised,
                 status, cancelled, request, touched>>

\* Engine.Run on the kept samples.
Baseline ==
  /\ at = "baseline"
  /\ status' \in IF cancelled THEN {"aborted"}
                 ELSE {"completed", "failed", "budget_exhausted"}
  /\ at' = "routing"
  /\ UNCHANGED <<files, memory, cancelled, request>>

NoRetained == IF status = "completed" THEN "failed" ELSE status

\* resolveOptimizer routes on a selection of its own, whatever became of the
\* baseline; only a completed baseline is optimised.
Route ==
  /\ at = "routing"
  /\ IF status = "completed" /\ Retainable(samples)
     THEN at' = "preparing" /\ UNCHANGED status
     ELSE at' = "finished" /\ status' = NoRetained
  /\ UNCHANGED <<files, memory, cancelled, request>>

\* runOptimization selects once more.
Prepare ==
  /\ at = "preparing"
  /\ IF Retainable(samples)
     THEN /\ optimised' = Retained(samples)
          /\ at' = "optimising"
          /\ UNCHANGED status
     ELSE /\ at' = "finished" /\ status' = "failed"
          /\ UNCHANGED optimised
  /\ UNCHANGED <<files, mode, seen, kept, cancelled, request, touched>>

\* Optimize returns; its reason becomes the run's status.
Optimise ==
  /\ at = "optimising"
  /\ at' = "finished"
  /\ status' \in {"completed", "budget_exhausted"}
                   \cup (IF cancelled THEN {"aborted"} ELSE {})
  /\ UNCHANGED <<files, memory, cancelled, request>>

\* A model call, a read or a write fails.
Fail ==
  /\ at \notin Waiting \cup {"finished"}
  /\ at' = "finished"
  /\ status' = IF status \in {"none", "completed"} THEN "failed" ELSE status
  /\ UNCHANGED <<files, memory, cancelled, request>>

Cancel ==
  /\ ~ cancelled /\ cancelled' = TRUE
  /\ UNCHANGED <<files, at, memory, status, request>>

-----------------------------------------------------------------------------
(* The review handlers                                                     *)

Unlocked == TRUE                                     \* slip: no synthMu
SynthMuFree == \A r \in Requests : request[r] = Idle

\* A handler takes synthMu and loads what it is going to change.  A file that
\* is not there, or a row, is answered with an error, and nothing happens.
EditRequest(r, s, c) ==
  /\ request[r] = Idle /\ SynthMuFree
  /\ s \in DOMAIN samples
  /\ request' = [request EXCEPT ![r] =
       [kind |-> "edit", sid |-> s, content |-> c, loaded |-> samples]]
  /\ UNCHANGED <<files, at, memory, status, cancelled>>

DeleteRequest(r, s) ==
  /\ request[r] = Idle /\ SynthMuFree
  /\ s \in DOMAIN samples
  /\ request' = [request EXCEPT ![r] =
       [kind |-> "delete", sid |-> s, loaded |-> samples]]
  /\ UNCHANGED <<files, at, memory, status, cancelled>>

ApproveRequest(r) ==
  /\ request[r] = Idle /\ SynthMuFree
  /\ checkpoint # "absent"
  /\ request' = [request EXCEPT ![r] = [kind |-> "approve"]]
  /\ UNCHANGED <<files, at, memory, status, cancelled>>

Edited(q) ==
  IF q.kind = "edit" THEN [q.loaded EXCEPT ![q.sid] = q.content]
  ELSE Restrict(q.loaded, DOMAIN q.loaded \ {q.sid})

\* Neither the checkpoint nor the run is looked at, so a row may be changed
\* after the baseline was given it.
AfterReload == at \in {"baseline", "routing", "preparing"}

\* An edit or a deletion is saved, or refused by the validation of the whole
\* set.
SaveSamples(r) ==
  /\ request[r].kind \in {"edit", "delete"}
  /\ samples' \in {Edited(request[r]), samples}
  /\ request' = [request EXCEPT ![r] = Idle]
  /\ touched' = IF AfterReload /\ samples' # samples
                THEN touched \cup {request[r].sid} ELSE touched
  /\ UNCHANGED <<dropped, fallbackAll, checkpoint, at, mode, seen, kept,
                 optimised, status, cancelled>>

Toggled(state) ==                         \* slip: a second click takes it back
  IF state = "pending" THEN "approved" ELSE "pending"
Blank(state) == "none"                    \* slip: saved without a status
Flipped(state) == IF state = "pending" THEN "approved" ELSE state

Approve(r) ==
  /\ request[r].kind = "approve"
  /\ checkpoint' = Flipped(checkpoint)
  /\ request' = [request EXCEPT ![r] = Idle]
  /\ UNCHANGED <<samples, dropped, fallbackAll, at, memory, status, cancelled>>

\* The other channel: the files are edited by hand while the checkpoint is
\* open, by the one person who also clicks, and not in the middle of a click.
HandEdit ==
  /\ at \in Waiting /\ checkpoint = "pending"
  /\ \A r \in Requests : request[r] = Idle
  /\ \/ \E rows \in Rows : samples' = rows /\ UNCHANGED checkpoint
     \/ checkpoint' = "approved" /\ UNCHANGED samples
  /\ UNCHANGED <<dropped, fallbackAll, at, memory, status, cancelled, request>>

-----------------------------------------------------------------------------
Run ==
  \/ Synthesise \/ FilterApply \/ Gate \/ Autopilot \/ Poll \/ AbortWait
  \/ Reload \/ Baseline \/ Route \/ Prepare \/ Optimise \/ Fail

Handler(r) ==
  \/ \E s \in Ids : \/ \E c \in Contents : EditRequest(r, s, c)
                    \/ DeleteRequest(r, s)
  \/ ApproveRequest(r)
  \/ SaveSamples(r) \/ Approve(r)

Next == Run \/ Cancel \/ HandEdit \/ \E r \in Requests : Handler(r)

Spec == Init /\ [][Next]_vars

\* The run's own steps are taken, and of the two branches of the select at
\* the gate the cancelled one is not passed over for ever.  Nothing is asked
\* of the reviewer.
FairSpec == Spec /\ WF_vars(Run) /\ SF_vars(AbortWait)

-----------------------------------------------------------------------------
(* Properties                                                              *)

ServedBy(r) == request[r] # Idle /\ request'[r] = Idle
OwnRowOnly(r) ==
  /\ DOMAIN samples' \subseteq DOMAIN samples
  /\ \A s \in DOMAIN samples \ {request[r].sid} :
       s \in DOMAIN samples' /\ samples'[s] = samples[s]
OwnRowsOnly ==
  \A r \in Requests : ServedBy(r) /\ samples' # samples => OwnRowOnly(r)

\* While a handler serves a request, samples.json changes in the row of that
\* request and in no other, and a row that was deleted does not come back:
\* no edit is lost to another one served at the same time (synthMu).
NoLostEdit == [][OwnRowsOnly]_vars

\* What is optimised has been evaluated: every row of the optimisation was
\* given to the baseline evaluation, with the content it was given then.  The
\* one exception is a row somebody changed in between: the baseline's scores
\* are joined to the rows by their ids (Request.Baseline), so the new content
\* stands beside the score of the old one.
EveryCellMeasured ==
  at = "optimising" =>
    \A s \in DOMAIN optimised :
      /\ s \in DOMAIN kept
      /\ s \in touched \/ optimised[s] = kept[s]

\* As long as nobody has touched samples.json since the baseline's reading,
\* the later readings come to the same set: a run whose filter kept nothing
\* is not stranded after its baseline (run.go, retainedSamples).
ReadingsAgree ==
  at \in {"routing", "preparing"} /\ samples = seen
    => Retainable(samples) /\ Retained(samples) = kept

\* Both: what a run optimises is what its baseline saw, or a part of it, up to
\* the rows changed after the baseline's reading.
ReadingsSound == EveryCellMeasured /\ ReadingsAgree

\* An approved run, and a cancelled one, comes to its end.
ReviewEnds == checkpoint = "approved" \/ cancelled ~> at = "finished"

=============================================================================
