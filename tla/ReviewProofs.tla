---------------------------- MODULE ReviewProofs ----------------------------
(***************************************************************************)
(* What is proved of Review, for any samples, probes, contents and number  *)
(* of requests.                                                            *)
(***************************************************************************)
EXTENDS Review, TLAPS

-----------------------------------------------------------------------------
(* The selection                                                           *)

\* A row set is a function from some ids to contents.
LEMMA RowsOf ==
  ASSUME NEW rows \in Rows
  PROVE  DOMAIN rows \subseteq Ids /\ rows \in [DOMAIN rows -> Contents]
BY DEF Rows

LEMMA RowsIntro ==
  ASSUME NEW D \in SUBSET Ids, NEW rows \in [D -> Contents]
  PROVE  rows \in Rows
BY DEF Rows

\* The selection of a set of rows is a set of rows.
LEMMA SelectionType ==
  ASSUME NEW rows \in Rows
  PROVE  /\ SelectKept(rows) \in Rows
         /\ DOMAIN SelectKept(rows) = DOMAIN rows \ dropped
         /\ EvaluationSet(rows) \in Rows
<1> DEFINE D == DOMAIN rows \ dropped
<1>1. D \in SUBSET Ids /\ rows \in [DOMAIN rows -> Contents]
  BY RowsOf
<1>2. SelectKept(rows) = [s \in D |-> rows[s]]
  BY DEF SelectKept, Restrict
<1>3. SelectKept(rows) \in [D -> Contents]
  BY <1>1, <1>2
<1> QED
  BY <1>1, <1>2, <1>3, RowsIntro DEF EvaluationSet

\* An edit or a deletion leaves a set of rows.
LEMMA EditedType ==
  ASSUME NEW rows \in Rows, NEW s \in DOMAIN rows, NEW c \in Contents
  PROVE  /\ [rows EXCEPT ![s] = c] \in Rows
         /\ Restrict(rows, DOMAIN rows \ {s}) \in Rows
<1>1. DOMAIN rows \subseteq Ids /\ rows \in [DOMAIN rows -> Contents]
  BY RowsOf
<1>2. [rows EXCEPT ![s] = c] \in [DOMAIN rows -> Contents]
  BY <1>1
<1>3. Restrict(rows, DOMAIN rows \ {s}) \in [DOMAIN rows \ {s} -> Contents]
  BY <1>1 DEF Restrict
<1>4. DOMAIN rows \ {s} \in SUBSET Ids
  BY <1>1
<1> QED
  BY <1>1, <1>2, <1>3, <1>4, RowsIntro

LEMMA EmptyRows == NoRows \in Rows
<1>1. NoRows \in [{} -> Contents]
  BY DEF NoRows
<1> QED
  BY <1>1, RowsIntro

-----------------------------------------------------------------------------
(* The invariant                                                           *)

\* At most one request holds synthMu, and what it has loaded is what the file
\* still holds.
OneRequest ==
  \A r, q \in Requests : request[r] # Idle /\ request[q] # Idle => r = q

Loaded ==
  \A r \in Requests :
    request[r].kind \in {"edit", "delete"} =>
      /\ request[r].loaded = samples
      /\ request[r].sid \in DOMAIN samples
      /\ request[r].kind = "edit" => request[r].content \in Contents

\* Before the gate there is no checkpoint, before the synthesis no sample,
\* and before the reload no fallback.
Early ==
  /\ at = "synthesis" => samples = NoRows
  /\ at \in {"synthesis", "filter", "gate"} => checkpoint = "absent"
  /\ at \in Waiting \cup {"synthesis", "filter", "gate", "autopilot", "reload"}
       => ~ fallbackAll

\* After it rows only go or are touched, kept is the selection from what was
\* read, and the flag says how it came about.
Measured ==
  at \in {"baseline", "routing", "preparing"} =>
    /\ DOMAIN samples \subseteq DOMAIN seen
    /\ \A s \in DOMAIN samples \ touched : samples[s] = seen[s]
    /\ kept = EvaluationSet(seen)
    /\ fallbackAll <=> FellBack(seen)

IInv ==
  TypeOK /\ OneRequest /\ Loaded /\ Early /\ Measured /\ EveryCellMeasured

-----------------------------------------------------------------------------
(* Initially *)

LEMMA InitInv == Init => IInv
<1> SUFFICES ASSUME Init PROVE IInv
  OBVIOUS
<1>1. TypeOK
  BY EmptyRows DEF Init, TypeOK, Place, Status, Checkpoint, RequestType
<1>2. OneRequest /\ Loaded
  BY DEF Init, OneRequest, Loaded, Idle
<1>3. Early /\ Measured /\ EveryCellMeasured
  BY DEF Init, Early, Measured, EveryCellMeasured
<1> QED
  BY <1>1, <1>2, <1>3 DEF IInv

-----------------------------------------------------------------------------
(* The steps of the run *)

LEMMA RunType ==
  ASSUME TypeOK, Run
  PROVE  TypeOK'
<1> USE DEF TypeOK, Place, Waiting, Status, Checkpoint
<1>1. CASE Synthesise
  <2>1. samples' \in [Synthesised -> Contents]
    BY <1>1, ReviewAssumption DEF Synthesise
  <2>2. Synthesised \in SUBSET Ids
    BY DEF Ids
  <2>3. samples' \in Rows
    BY <2>1, <2>2, RowsIntro
  <2> QED
    BY <1>1, <2>3 DEF Synthesise, memory
<1>2. CASE FilterApply
  BY <1>2 DEF FilterApply, memory
<1>3. CASE Gate
  BY <1>3 DEF Gate, memory
<1>4. CASE Autopilot
  BY <1>4 DEF Autopilot, memory
<1>5. CASE Poll
  BY <1>5 DEF Poll, files, memory
<1>6. CASE AbortWait
  BY <1>6 DEF AbortWait, files, memory
<1>7. CASE Reload
  <2>1. EvaluationSet(samples) \in Rows
    BY SelectionType
  <2>2. FlagSaved(samples) \in BOOLEAN
    BY DEF FlagSaved, FellBack
  <2> QED
    BY <1>7, <2>1, <2>2 DEF Reload
<1>8. CASE Baseline
  BY <1>8 DEF Baseline, files, memory
<1>9. CASE Route
  BY <1>9 DEF Route, NoRetained, files, memory
<1>10. CASE Prepare
  <2>1. Retained(samples) \in Rows
    BY SelectionType DEF Retained
  <2> QED
    BY <1>10, <2>1 DEF Prepare, files
<1>11. CASE Optimise
  BY <1>11 DEF Optimise, files, memory
<1>12. CASE Fail
  BY <1>12 DEF Fail, files, memory
<1> QED
  BY <1>1, <1>2, <1>3, <1>4, <1>5, <1>6, <1>7, <1>8, <1>9, <1>10, <1>11, <1>12
     DEF Run

\* The run touches no request, and the file only when no request can have
\* loaded it.
LEMMA RunRequests ==
  ASSUME OneRequest, Loaded, Early, Run
  PROVE  OneRequest' /\ Loaded'
<1>1. request' = request
  BY DEF Run, Synthesise, FilterApply, Gate, Autopilot, Poll, AbortWait, Reload,
         Baseline, Route, Prepare, Optimise, Fail
<1>2. CASE Synthesise
  <2>1. \A r \in Requests : request[r].kind \notin {"edit", "delete"}
    BY <1>2 DEF Synthesise, Early, Loaded, NoRows
  <2> QED
    BY <1>1, <2>1 DEF OneRequest, Loaded
<1>3. CASE ~ Synthesise
  <2>1. samples' = samples
    BY <1>3 DEF Run, FilterApply, Gate, Autopilot, Poll, AbortWait, Reload,
                Baseline, Route, Prepare, Optimise, Fail, files
  <2> QED
    BY <1>1, <2>1 DEF OneRequest, Loaded
<1> QED
  BY <1>2, <1>3

LEMMA RunEarly ==
  ASSUME Early, Run
  PROVE  Early'
<1> USE DEF Early, Waiting
<1>1. CASE Synthesise \/ FilterApply \/ Gate \/ Autopilot
  BY <1>1 DEF Synthesise, FilterApply, Gate, Autopilot
<1>2. CASE Poll \/ AbortWait \/ Reload \/ Baseline
  BY <1>2 DEF Poll, AbortWait, Reload, Baseline, files
<1>3. CASE Route \/ Prepare \/ Optimise \/ Fail
  BY <1>3 DEF Route, Prepare, Optimise, Fail, files
<1> QED
  BY <1>1, <1>2, <1>3 DEF Run

\* What selects again from fewer rows selects from what was evaluated.
LEMMA RetainedMeasured ==
  ASSUME TypeOK, Measured, at = "preparing", Retainable(samples)
  PROVE  \A s \in DOMAIN Retained(samples) :
           /\ s \in DOMAIN kept
           /\ s \in touched \/ Retained(samples)[s] = kept[s]
<1>1. /\ DOMAIN SelectKept(samples) = DOMAIN samples \ dropped
      /\ DOMAIN SelectKept(seen) = DOMAIN seen \ dropped
  BY SelectionType DEF TypeOK
<1>2. /\ DOMAIN samples \subseteq DOMAIN seen
      /\ \A s \in DOMAIN samples \ touched : samples[s] = seen[s]
      /\ kept = EvaluationSet(seen)
      /\ fallbackAll <=> FellBack(seen)
  BY DEF Measured
<1>3. CASE FellBack(samples)
  <2>1. FellBack(seen)
    BY <1>2, <1>3 DEF Retainable
  <2> QED
    BY <1>2, <1>3, <2>1 DEF Retained, EvaluationSet
<1>4. CASE ~ FellBack(samples)
  <2>1. ~ FellBack(seen)
    BY <1>1, <1>2, <1>4 DEF FellBack
  <2>2. /\ \A s \in DOMAIN samples \ dropped : SelectKept(samples)[s] = samples[s]
        /\ \A s \in DOMAIN seen \ dropped : SelectKept(seen)[s] = seen[s]
    BY DEF SelectKept, Restrict
  <2>3. Retained(samples) = SelectKept(samples) /\ kept = SelectKept(seen)
    BY <1>2, <1>4, <2>1 DEF Retained, EvaluationSet
  <2> QED
    BY <1>1, <1>2, <2>2, <2>3
<1> QED
  BY <1>3, <1>4

LEMMA RunMeasured ==
  ASSUME TypeOK, Early, Measured, EveryCellMeasured, Run
  PROVE  Measured' /\ EveryCellMeasured'
<1> USE DEF Measured, EveryCellMeasured, Waiting
<1>1. CASE Synthesise \/ FilterApply \/ Gate \/ Autopilot
  BY <1>1 DEF Synthesise, FilterApply, Gate, Autopilot
<1>2. CASE Poll \/ AbortWait
  BY <1>2 DEF Poll, AbortWait
<1>3. CASE Reload
  <2>1. dropped' = dropped /\ samples' = samples
    BY <1>3 DEF Reload
  <2>2. seen' = samples /\ kept' = EvaluationSet(samples)
    BY <1>3 DEF Reload
  <2>3. fallbackAll' <=> FellBack(samples)
    BY <1>3 DEF Reload, FlagSaved, Early
  <2>4. /\ EvaluationSet(seen)' = EvaluationSet(samples)
        /\ FellBack(seen)' <=> FellBack(samples)
    BY <2>1, <2>2 DEF EvaluationSet, FellBack, SelectKept
  <2> QED
    BY <1>3, <2>1, <2>2, <2>3, <2>4 DEF Reload
<1>4. CASE Baseline \/ Route
  <2>1. /\ at \in {"baseline", "routing"} /\ at' # "optimising"
        /\ UNCHANGED <<samples, seen, kept, dropped, fallbackAll, touched>>
    BY <1>4 DEF Baseline, Route, files, memory
  <2> QED
    BY <2>1 DEF EvaluationSet, FellBack, SelectKept
<1>5. CASE Prepare
  <2>1. at' # "baseline" /\ at' # "routing" /\ at' # "preparing"
    BY <1>5 DEF Prepare
  <2>2. CASE Retainable(samples)
    BY <1>5, <2>1, <2>2, RetainedMeasured DEF Prepare
  <2>3. CASE ~ Retainable(samples)
    BY <1>5, <2>1, <2>3 DEF Prepare
  <2> QED
    BY <2>2, <2>3
<1>6. CASE Optimise \/ Fail
  BY <1>6 DEF Optimise, Fail
<1> QED
  BY <1>1, <1>2, <1>3, <1>4, <1>5, <1>6 DEF Run

-----------------------------------------------------------------------------
(* The steps of the handlers *)

IsChange(q) == q.kind \in {"edit", "delete"}

\* A request is taken up when there is none.
LEMMA Taken ==
  ASSUME TypeOK, NEW r \in Requests, NEW q, q \in RequestType, SynthMuFree,
         request' = [request EXCEPT ![r] = q],
         UNCHANGED samples,
         IsChange(q) => /\ q.loaded = samples
                        /\ q.sid \in DOMAIN samples
                        /\ q.kind = "edit" => q.content \in Contents
  PROVE  request' \in [Requests -> RequestType] /\ OneRequest' /\ Loaded'
<1>1. request \in [Requests -> RequestType]
  BY DEF TypeOK
<1>2. \A t \in Requests : request'[t] = IF t = r THEN q ELSE Idle
  BY <1>1 DEF SynthMuFree
<1>3. OneRequest'
  BY <1>2 DEF OneRequest
<1>4. Loaded'
  <2> SUFFICES ASSUME NEW t \in Requests, request'[t].kind \in {"edit", "delete"}
               PROVE  /\ request'[t].loaded = samples'
                      /\ request'[t].sid \in DOMAIN samples'
                      /\ request'[t].kind = "edit" => request'[t].content \in Contents
    BY DEF Loaded
  <2>1. CASE t = r
    BY <1>2, <2>1 DEF IsChange
  <2>2. CASE t # r
    BY <1>2, <2>2 DEF Idle
  <2> QED
    BY <2>1, <2>2
<1> QED
  BY <1>1, <1>3, <1>4

\* A request that is answered leaves nothing loaded.
LEMMA Answered ==
  ASSUME TypeOK, OneRequest, NEW r \in Requests, request[r] # Idle,
         request' = [request EXCEPT ![r] = Idle]
  PROVE  request' = [t \in Requests |-> Idle] /\ OneRequest' /\ Loaded'
<1>1. request \in [Requests -> RequestType]
  BY DEF TypeOK
<1>2. \A t \in Requests : t # r => request[t] = Idle
  BY DEF OneRequest
<1>3. request' = [t \in Requests |-> Idle]
  BY <1>1, <1>2
<1>4. \A t \in Requests : request'[t] = Idle
  BY <1>3
<1>5. OneRequest'
  BY <1>4 DEF OneRequest
<1>6. Idle.kind = "idle"
  BY DEF Idle
<1>7. Loaded'
  BY <1>4, <1>6 DEF Loaded
<1> QED
  BY <1>3, <1>5, <1>7

\* Answering an edit or a deletion changes its own row and no other.
LEMMA SavedOwnRow ==
  ASSUME TypeOK, OneRequest, Loaded, NEW r \in Requests, SaveSamples(r)
  PROVE  /\ samples' \in Rows
         /\ DOMAIN samples' \subseteq DOMAIN samples
         /\ \A s \in DOMAIN samples \ {request[r].sid} :
              s \in DOMAIN samples' /\ samples'[s] = samples[s]
<1> DEFINE q == request[r]
<1>1. /\ q.kind \in {"edit", "delete"}
      /\ q.loaded = samples /\ q.sid \in DOMAIN samples
      /\ q.kind = "edit" => q.content \in Contents
  BY DEF SaveSamples, Loaded
<1>2. samples \in Rows
  BY DEF TypeOK
<1>3. CASE samples' = samples
  BY <1>2, <1>3
<1>4. CASE samples' = Edited(q) /\ q.kind = "edit"
  <2>1. samples' = [samples EXCEPT ![q.sid] = q.content]
    BY <1>1, <1>4 DEF Edited
  <2>2. samples' \in Rows
    <3>1. q.sid \in DOMAIN samples /\ q.content \in Contents
      BY <1>1, <1>4
    <3> HIDE DEF q
    <3> QED BY <1>2, <2>1, <3>1, EditedType
  <2> QED
    BY <2>1, <2>2
<1>5. CASE samples' = Edited(q) /\ q.kind = "delete"
  <2>1. samples' = Restrict(samples, DOMAIN samples \ {q.sid})
    BY <1>1, <1>5 DEF Edited
  <2>2. samples' \in Rows
    BY <1>1, <1>2, <2>1, EditedType, ReviewAssumption
  <2> QED
    BY <2>1, <2>2 DEF Restrict
<1> QED
  BY <1>1, <1>3, <1>4, <1>5 DEF SaveSamples

\* What a handler leaves alone.
RunState == <<dropped, fallbackAll, at, mode, seen, kept, optimised, status,
              cancelled>>

\* What is saved after the reload is noted.
Noted ==
  /\ touched \subseteq touched' /\ touched' \subseteq Ids
  /\ AfterReload => \A s \in DOMAIN samples' \ touched' : samples'[s] = samples[s]

LEMMA HandlerInv ==
  ASSUME IInv, NEW r \in Requests, Handler(r)
  PROVE  IInv'
<1> USE DEF IInv
<1>1. SUFFICES /\ UNCHANGED RunState
               /\ samples' \in Rows
               /\ DOMAIN samples' \subseteq DOMAIN samples
               /\ Noted
               /\ at = "synthesis" => samples' = samples
               /\ checkpoint' \in Checkpoint
               /\ checkpoint = "absent" => checkpoint' = "absent"
               /\ request' \in [Requests -> RequestType]
               /\ OneRequest' /\ Loaded'
  <2>1. ASSUME UNCHANGED RunState, Noted,
               samples' \in Rows,
               checkpoint' \in Checkpoint,
               request' \in [Requests -> RequestType]
        PROVE  TypeOK'
    BY <2>1 DEF TypeOK, RunState, Noted
  <2>2. ASSUME UNCHANGED RunState,
               at = "synthesis" => samples' = samples,
               checkpoint = "absent" => checkpoint' = "absent"
        PROVE  Early'
    BY <2>2 DEF Early, RunState
  <2>3. ASSUME UNCHANGED RunState, DOMAIN samples' \subseteq DOMAIN samples,
               Noted
        PROVE  Measured' /\ EveryCellMeasured'
    <3>1. Measured'
      BY <2>3 DEF Measured, RunState, EvaluationSet, FellBack, SelectKept,
                  Noted, AfterReload
    <3>2. EveryCellMeasured'
      BY <2>3 DEF EveryCellMeasured, RunState, Noted
    <3> QED
      BY <3>1, <3>2
  <2> QED
    BY <2>1, <2>2, <2>3
<1>2. /\ samples \in Rows /\ checkpoint \in Checkpoint
      /\ touched \subseteq Ids
  BY DEF TypeOK
<1>3. CASE \E s \in Ids, c \in Contents : EditRequest(r, s, c)
  <2>1. PICK s \in Ids, c \in Contents : EditRequest(r, s, c)
    BY <1>3
  <2> DEFINE q == [kind |-> "edit", sid |-> s, content |-> c, loaded |-> samples]
  <2>2. q \in RequestType /\ q.loaded = samples /\ q.sid = s /\ q.content = c
    BY <1>2 DEF RequestType
  <2>3. /\ SynthMuFree /\ s \in DOMAIN samples
        /\ request' = [request EXCEPT ![r] = q]
        /\ UNCHANGED <<files, at, memory, status, cancelled>>
    BY <2>1 DEF EditRequest
  <2>4. request' \in [Requests -> RequestType] /\ OneRequest' /\ Loaded'
    <3> HIDE DEF q
    <3> QED BY <2>2, <2>3, Taken DEF files
  <2> QED
    BY <1>2, <2>3, <2>4 DEF files, memory, RunState, Noted
<1>4. CASE \E s \in Ids : DeleteRequest(r, s)
  <2>1. PICK s \in Ids : DeleteRequest(r, s)
    BY <1>4
  <2> DEFINE q == [kind |-> "delete", sid |-> s, loaded |-> samples]
  <2>2. q \in RequestType /\ q.loaded = samples /\ q.sid = s /\ q.kind # "edit"
    BY <1>2 DEF RequestType
  <2>3. /\ SynthMuFree /\ s \in DOMAIN samples
        /\ request' = [request EXCEPT ![r] = q]
        /\ UNCHANGED <<files, at, memory, status, cancelled>>
    BY <2>1 DEF DeleteRequest
  <2>4. request' \in [Requests -> RequestType] /\ OneRequest' /\ Loaded'
    <3> HIDE DEF q
    <3> QED BY <2>2, <2>3, Taken DEF files
  <2> QED
    BY <1>2, <2>3, <2>4 DEF files, memory, RunState, Noted
<1>5. CASE ApproveRequest(r)
  <2> DEFINE q == [kind |-> "approve"]
  <2>1. q \in RequestType /\ ~ IsChange(q)
    BY DEF RequestType, IsChange
  <2>2. /\ SynthMuFree
        /\ request' = [request EXCEPT ![r] = q]
        /\ UNCHANGED <<files, at, memory, status, cancelled>>
    BY <1>5 DEF ApproveRequest
  <2>3. request' \in [Requests -> RequestType] /\ OneRequest' /\ Loaded'
    <3> HIDE DEF q
    <3> QED BY <2>1, <2>2, Taken DEF files
  <2> QED
    BY <1>2, <2>2, <2>3 DEF files, memory, RunState, Noted
<1>6. CASE SaveSamples(r)
  <2>1. /\ samples' \in Rows /\ DOMAIN samples' \subseteq DOMAIN samples
    BY <1>6, SavedOwnRow
  <2>2. request[r] # Idle
    BY <1>6 DEF SaveSamples, Idle
  <2>3. request' = [t \in Requests |-> Idle] /\ OneRequest' /\ Loaded'
    BY <1>6, <2>2, Answered DEF SaveSamples
  <2>4. request' \in [Requests -> RequestType]
    BY <2>3 DEF RequestType
  <2>5. at # "synthesis"
    BY <1>6 DEF SaveSamples, Loaded, Early, NoRows
  <2>6. Noted
    <3>1. request[r].sid \in DOMAIN samples
      BY <1>6 DEF SaveSamples, Loaded
    <3>2. request[r].sid \in Ids
      BY <1>2, <3>1, RowsOf
    <3>3. \A s \in DOMAIN samples \ {request[r].sid} :
            s \in DOMAIN samples' /\ samples'[s] = samples[s]
      BY <1>6, SavedOwnRow
    <3> QED
      BY <1>2, <1>6, <2>1, <3>2, <3>3 DEF SaveSamples, Noted
  <2> QED
    BY <1>2, <1>6, <2>1, <2>3, <2>4, <2>5, <2>6 DEF SaveSamples, RunState
<1>7. CASE Approve(r)
  <2>1. request[r] # Idle
    BY <1>7 DEF Approve, Idle
  <2>2. request' = [t \in Requests |-> Idle] /\ OneRequest' /\ Loaded'
    BY <1>7, <2>1, Answered DEF Approve
  <2>3. request' \in [Requests -> RequestType]
    BY <2>2 DEF RequestType
  <2> QED
    BY <1>2, <1>7, <2>2, <2>3 DEF Approve, Flipped, Checkpoint, memory, RunState,
                                  Noted
<1> QED
  BY <1>3, <1>4, <1>5, <1>6, <1>7 DEF Handler

LEMMA CancelInv ==
  ASSUME IInv, Cancel
  PROVE  IInv'
<1> USE DEF IInv, Cancel, files, memory
<1>1. TypeOK'
  BY DEF TypeOK
<1>2. OneRequest' /\ Loaded' /\ Early'
  BY DEF OneRequest, Loaded, Early
<1>3. Measured' /\ EveryCellMeasured'
  BY DEF Measured, EveryCellMeasured, EvaluationSet, FellBack, SelectKept
<1> QED
  BY <1>1, <1>2, <1>3

LEMMA HandEditInv ==
  ASSUME IInv, HandEdit
  PROVE  IInv'
<1> USE DEF IInv, HandEdit, memory
<1>1. TypeOK'
  BY DEF TypeOK, Checkpoint
<1>2. OneRequest' /\ Loaded'
  BY DEF OneRequest, Loaded, Idle
<1>3. Early' /\ Measured' /\ EveryCellMeasured'
  BY DEF Early, Measured, EveryCellMeasured, Waiting
<1> QED
  BY <1>1, <1>2, <1>3

LEMMA NextInv == IInv /\ [Next]_vars => IInv'
<1> SUFFICES ASSUME IInv, [Next]_vars PROVE IInv'
  OBVIOUS
<1>1. CASE Run
  BY <1>1, RunType, RunRequests, RunEarly, RunMeasured DEF IInv
<1>2. CASE Cancel
  BY <1>2, CancelInv
<1>3. CASE HandEdit
  BY <1>3, HandEditInv
<1>4. CASE \E r \in Requests : Handler(r)
  BY <1>4, HandlerInv
<1>5. CASE UNCHANGED vars
  BY <1>5 DEF vars, IInv, TypeOK, OneRequest, Loaded, Early, Measured,
              EveryCellMeasured, EvaluationSet, FellBack, SelectKept
<1> QED
  BY <1>1, <1>2, <1>3, <1>4, <1>5 DEF Next

LEMMA Invariant == Spec => []IInv
<1>1. Init => IInv
  BY InitInv
<1>2. IInv /\ [Next]_vars => IInv'
  BY NextInv
<1> QED
  BY <1>1, <1>2, PTL DEF Spec

-----------------------------------------------------------------------------
(* The theorems                                                            *)

\* The run, the files and the handlers stay well typed.
THEOREM TypeCorrect == Spec => []TypeOK
<1>1. IInv => TypeOK
  BY DEF IInv
<1> QED
  BY <1>1, Invariant, PTL

\* Whatever is edited and deleted between its three readings of samples.json,
\* a run optimises only rows its baseline was evaluated on, each with the
\* content that was evaluated or with one saved after the pipeline read it.
THEOREM EveryCellMeasuredHolds == Spec => []EveryCellMeasured
<1>1. IInv => EveryCellMeasured
  BY DEF IInv
<1> QED
  BY <1>1, Invariant, PTL

\* On untouched files the later readings come to the baseline's set, with or
\* without a fallback.
THEOREM ReadingsAgreeHolds == Spec => []ReadingsAgree
<1>1. IInv => ReadingsAgree
  BY DEF IInv, ReadingsAgree, Measured, Retainable, Retained
<1> QED
  BY <1>1, Invariant, PTL

\* No edit is lost to another, for any number of tabs.
THEOREM NoLostEditHolds == Spec => NoLostEdit
<1>1. IInv /\ [Next]_vars => OwnRowsOnly
  <2> SUFFICES ASSUME IInv, [Next]_vars,
                      NEW r \in Requests, ServedBy(r), samples' # samples
               PROVE  OwnRowOnly(r)
    BY DEF OwnRowsOnly
  <2>1. request \in [Requests -> RequestType]
    BY DEF IInv, TypeOK
  <2>2. request[r] # Idle /\ request'[r] = Idle
    BY DEF ServedBy
  <2>3. \E q \in Requests : SaveSamples(q)
    <3>1. request' # request
      BY <2>2
    <3>2. ~ Run /\ ~ Cancel /\ ~ HandEdit /\ ~ UNCHANGED vars
      BY <3>1 DEF Run, Synthesise, FilterApply, Gate, Autopilot, Poll,
                  AbortWait, Reload, Baseline, Route, Prepare, Optimise, Fail,
                  Cancel, HandEdit, vars
    <3>3. PICK q \in Requests : Handler(q)
      BY <3>2 DEF Next
    <3> QED
      BY <3>3 DEF Handler, EditRequest, DeleteRequest, ApproveRequest, Approve,
                  files
  <2>4. PICK q \in Requests : SaveSamples(q)
    BY <2>3
  <2>5. q = r
    BY <2>1, <2>2, <2>4 DEF SaveSamples
  <2> QED
    BY <2>4, <2>5, SavedOwnRow DEF IInv, OwnRowOnly
<1> QED
  BY <1>1, Invariant, PTL DEF Spec, NoLostEdit

\* What a run optimises is what its baseline saw, but for the rows changed
\* since (EveryCellMeasured, ReadingsAgree).
THEOREM ReadingsSoundHolds == Spec => []ReadingsSound
<1>1. EveryCellMeasured /\ ReadingsAgree => ReadingsSound
  BY DEF ReadingsSound
<1> QED BY <1>1, EveryCellMeasuredHolds, ReadingsAgreeHolds, PTL

=============================================================================
