---------------------------- MODULE EventStream ----------------------------
(***************************************************************************)
(* What becomes of the events of one run with --web: the fan-out and the   *)
(* sink of cmd/promptopt/run.go, the bus and the live endpoint of          *)
(* internal/web/server.go.                                                 *)
(*                                                                         *)
(* The engine's workers and the run's own goroutine emit through one       *)
(* fan-out, which under its lock writes the event to events.jsonl and then *)
(* calls the subscribed handlers, the bus's Publish among them.  The bus   *)
(* has a lock of its own; HTTP handlers subscribe and unsubscribe at any   *)
(* time, and the adopt handler publishes on the bus directly.              *)
(*                                                                         *)
(* An event is its position in events.jsonl; 0 is a candidate_adopted,     *)
(* which is not written there.                                             *)
(***************************************************************************)
EXTENDS Naturals, Sequences, FiniteSets, Functions

CONSTANTS Clients,     \* browsers at /events
          Buffer,      \* subscriberBuffer
          MaxEvents    \* bound on the events of evaluation and loop

ASSUME StreamAssumption == Buffer \in Nat \ {0} /\ MaxEvents \in Nat

VARIABLES
  mode,         \* a manual trio or a synthesized run
  at,           \* where the run's goroutine stands
  log,          \* events.jsonl
  emitting,     \* events written and not yet given to the subscribers
  hooked,       \* bus.Publish is subscribed to the fan-out
  closed,       \* Bus.closed
  subs,         \* Bus.subs
  queue,        \* a client's channel
  closes,       \* how often that channel was closed
  client,       \* a client's handler
  interrupted,  \* the sink's context is done
  (* history *)
  last,         \* the last event of events.jsonl a client was sent
  slow          \* clients that missed one because their channel was full

bus == <<closed, subs, queue, closes>>
vars == <<mode, at, log, emitting, hooked, bus, client, interrupted, last, slow>>

Place ==
  {"evaluating", "evaluated", "looping", "verdict", "finishing", "resident",
   "closing", "unhooked", "busclosed", "draining", "closed"}

Kind == {"event", "usage", "run_done"}
NotLogged == 0

ClientState == {"away", "streaming", "ended", "cut"}

TypeOK ==
  /\ mode \in {"manual", "synthesized"}
  /\ at \in Place
  /\ log \in Seq(Kind)
  /\ emitting \subseteq DOMAIN log
  /\ hooked \in BOOLEAN /\ closed \in BOOLEAN /\ interrupted \in BOOLEAN
  /\ subs \subseteq Clients /\ slow \subseteq Clients
  /\ queue \in [Clients -> Seq({NotLogged} \cup DOMAIN log)]
  /\ \A c \in Clients : Len(queue[c]) <= Buffer
  /\ closes \in [Clients -> Nat]
  /\ client \in [Clients -> ClientState]
  /\ last \in [Clients -> {0} \cup DOMAIN log]

Init ==
  /\ mode \in {"manual", "synthesized"}
  /\ at = "evaluating"
  /\ log = <<>> /\ emitting = {}
  /\ hooked = TRUE /\ closed = FALSE
  /\ subs = {} /\ slow = {}
  /\ queue = [c \in Clients |-> <<>>]
  /\ closes = [c \in Clients |-> 0]
  /\ client = [c \in Clients |-> "away"]
  /\ interrupted = FALSE
  /\ last = [c \in Clients |-> 0]

-----------------------------------------------------------------------------
(* The fan-out: an emission writes the log and then serves the handlers,   *)
(* all under one lock                                                      *)

LockedForWriting == TRUE               \* slip: handlers run outside the lock
FanoutFree == emitting = {}

Write(kind) ==
  /\ log' = Append(log, kind)
  /\ emitting' = emitting \cup {Len(log) + 1}

EventCount == Cardinality({i \in DOMAIN log : log[i] = "event"})

\* A worker, or the loop between its units, emits.
EmitEvent ==
  /\ at \in {"evaluating", "looping"}
  /\ FanoutFree
  /\ EventCount < MaxEvents
  /\ Write("event")
  /\ UNCHANGED <<mode, at, hooked, bus, client, interrupted, last, slow>>

RoomForMore(c) == Len(queue[c]) <= Buffer           \* slip: one too many
Room(c) == Len(queue[c]) < Buffer

\* slip: the round ends at a channel that is full
DeliverUntilFull(e, receivers) ==
  queue' = [c \in Clients |->
              IF c \in receivers /\ \A d \in receivers : Room(d)
              THEN Append(queue[c], e) ELSE queue[c]]

\* Bus.Publish: a subscriber whose channel is full misses the event.
Deliver(e, receivers) ==
  queue' = [c \in Clients |->
              IF c \in receivers /\ Room(c) THEN Append(queue[c], e)
              ELSE queue[c]]

WaitsForRoom == \A c \in subs : Room(c)    \* slip: a send that blocks
NeverWaits == TRUE

Publish ==
  /\ NeverWaits
  /\ \E e \in emitting :
       /\ emitting' = emitting \ {e}
       /\ IF hooked
          THEN /\ Deliver(e, subs)
               /\ slow' = slow \cup {c \in subs : ~ Room(c)}
          ELSE UNCHANGED <<queue, slow>>
  /\ UNCHANGED <<mode, at, log, hooked, closed, subs, closes, client,
                 interrupted, last>>

\* handleAdopt publishes without the fan-out.
Adopt ==
  /\ at \notin {"draining", "closed"}
  /\ Deliver(NotLogged, subs)
  /\ UNCHANGED <<mode, at, log, emitting, hooked, closed, subs, closes, client,
                 interrupted, last, slow>>

-----------------------------------------------------------------------------
(* The run                                                                 *)

\* The run's goroutine goes on when its own emission has returned, and past
\* the engine when the workers' have.
Proceed(from, to) == at = from /\ emitting = {} /\ at' = to

EngineForwards == TRUE                    \* slip: the inner run_done is kept
EngineForwarded == mode = "manual"

\* Engine.Run ends with a run_done; a synthesized run keeps it to itself.
EngineDone ==
  /\ Proceed("evaluating", "evaluated")
  /\ IF EngineForwarded THEN Write("run_done") ELSE UNCHANGED <<log, emitting>>
  /\ UNCHANGED <<mode, hooked, bus, client, interrupted, last, slow>>

\* The usage snapshot after it.  A synthesized run then optimises, unless its
\* baseline did not complete.
Calibrate ==
  /\ \E to \in IF mode = "manual" THEN {"finishing"} ELSE {"looping", "verdict"} :
       Proceed("evaluated", to)
  /\ Write("usage")
  /\ UNCHANGED <<mode, hooked, bus, client, interrupted, last, slow>>

\* The loop is over, well or not: the last snapshot and the verdict.
LoopDone ==
  /\ Proceed("looping", "verdict")
  /\ Write("usage")
  /\ UNCHANGED <<mode, hooked, bus, client, interrupted, last, slow>>

TerminalRunDone ==
  /\ Proceed("verdict", "finishing")
  /\ Write("run_done")
  /\ UNCHANGED <<mode, hooked, bus, client, interrupted, last, slow>>

\* An error before the verdict, or of the summary, closes the sink at once.
GiveUp ==
  /\ \E from \in {"evaluating", "finishing"} : Proceed(from, "closing")
  /\ UNCHANGED <<mode, log, emitting, hooked, bus, client, interrupted, last,
                 slow>>

\* finishRun: the summary is written, and the dashboard stays until Ctrl-C.
Finish ==
  /\ \/ Proceed("finishing", "resident")
     \/ interrupted /\ Proceed("resident", "closing")
  /\ UNCHANGED <<mode, log, emitting, hooked, bus, client, interrupted, last,
                 slow>>

\* runSink.close: the bus is taken off the fan-out, ...
Unhook ==
  /\ Proceed("closing", "unhooked")
  /\ hooked' = FALSE
  /\ UNCHANGED <<mode, log, emitting, bus, client, interrupted, last, slow>>

\* ... closed, with the channel of every subscriber, ...
BusClose ==
  /\ Proceed("unhooked", "busclosed")
  /\ closed' = TRUE
  /\ subs' = {}
  /\ closes' = [c \in Clients |-> closes[c] + IF c \in subs THEN 1 ELSE 0]
  /\ UNCHANGED <<mode, log, emitting, hooked, queue, client, interrupted, last,
                 slow>>

\* ... and the server shut down: it takes no more connections and waits for
\* the handlers, two seconds at most.
Shutdown ==
  /\ \/ /\ Proceed("busclosed", "draining")
        /\ UNCHANGED client
     \/ /\ Proceed("draining", "closed")
        /\ client' = [c \in Clients |->
                        IF client[c] = "streaming" THEN "cut" ELSE client[c]]
  /\ UNCHANGED <<mode, log, emitting, hooked, bus, interrupted, last, slow>>

\* Ctrl-C or SIGTERM.
Interrupt ==
  /\ ~ interrupted /\ interrupted' = TRUE
  /\ UNCHANGED <<mode, at, log, emitting, hooked, bus, client, last, slow>>

-----------------------------------------------------------------------------
(* The handlers of the live endpoint                                       *)

Published == Len(log) - Cardinality(emitting)

\* Subscribe; on a closed bus the channel is a closed one.
Connect(c) ==
  /\ client[c] \in {"away", "ended"} /\ at \notin {"draining", "closed"}
  /\ client' = [client EXCEPT ![c] = "streaming"]
  /\ queue' = [queue EXCEPT ![c] = <<>>]
  /\ closes' = [closes EXCEPT ![c] = IF closed THEN 1 ELSE 0]
  /\ subs' = IF closed THEN subs ELSE subs \cup {c}
  /\ last' = [last EXCEPT ![c] = Published]
  /\ slow' = slow \ {c}
  /\ UNCHANGED <<mode, at, log, emitting, hooked, closed, interrupted>>

Receive(c) ==
  /\ client[c] = "streaming" /\ queue[c] # <<>>
  /\ queue' = [queue EXCEPT ![c] = Tail(@)]
  /\ last' = [last EXCEPT ![c] =
                IF Head(queue[c]) = NotLogged THEN @ ELSE Head(queue[c])]
  /\ UNCHANGED <<mode, at, log, emitting, hooked, closed, subs, closes, client,
                 interrupted, slow>>

\* A channel that was closed still gives what it holds.
ClosedAtOnce(c) == closes[c] > 0              \* slip: what it holds is lost
EndOfStream(c) == closes[c] > 0 /\ queue[c] = <<>>

StillClosing(c) == 1                \* slip: closed without looking it up
Closing(c) == IF c \in subs THEN 1 ELSE 0

\* The handler returns, for the end of the stream or because the client is
\* gone, and cancels its subscription.
Leave(c) ==
  /\ client[c] = "streaming"
  /\ \/ EndOfStream(c) /\ client' = [client EXCEPT ![c] = "ended"]
     \/ client' = [client EXCEPT ![c] = "away"]
  /\ subs' = subs \ {c}
  /\ closes' = [closes EXCEPT ![c] = @ + Closing(c)]
  /\ UNCHANGED <<mode, at, log, emitting, hooked, closed, queue, interrupted,
                 last, slow>>

-----------------------------------------------------------------------------
Run ==
  \/ EmitEvent \/ Publish \/ EngineDone \/ Calibrate \/ LoopDone
  \/ TerminalRunDone \/ GiveUp \/ Finish \/ Unhook \/ BusClose \/ Shutdown

Handler(c) == Connect(c) \/ Receive(c) \/ Leave(c)

Next == Run \/ Interrupt \/ Adopt \/ \E c \in Clients : Handler(c)

Spec == Init /\ [][Next]_vars

\* The run's goroutines are scheduled.  A client may stop reading for good.
FairSpec == Spec /\ WF_vars(Run)

-----------------------------------------------------------------------------
(* Properties                                                              *)

\* A client sees the events in the order of events.jsonl and none twice,
\* however many goroutines emit and however slow it is.
Ascending(q, after) ==
  \A j \in DOMAIN q : q[j] # NotLogged =>
    q[j] > after /\ \A i \in 1 .. j - 1 : q[i] < q[j]

LogOrder ==
  \A c \in Clients :
    client[c] = "streaming" => Ascending(queue[c], last[c])

\* A client that keeps up misses none: what its channel holds is what was
\* published since the last event it was sent, whenever it subscribed, and
\* also when the channel has been closed since.
Logged(q) == Range(q) \ {NotLogged}
NothingSkipped ==
  \A c \in Clients \ slow :
    client[c] = "streaming" => Logged(queue[c]) = last[c] + 1 .. Published

\* When the bus is closed a client that kept up is first sent what its channel
\* holds, the run_done of the run included (runSink.close).
FlushedBeforeEnd ==
  \A c \in Clients \ slow : client[c] = "ended" => last[c] = Len(log)

\* All three: what a client is shown is the log.
StreamsFaithful == LogOrder /\ NothingSkipped /\ FlushedBeforeEnd

\* No channel is closed twice and no closed one is sent to: either panics.
\* The bus closes channels when it is closed, a handler its own when it leaves.
ChannelsSound ==
  \A c \in Clients : closes[c] <= 1 /\ (c \in subs => closes[c] = 0)

\* A run writes one run_done at most; a synthesized one writes nothing after
\* it, though its baseline evaluation ends with a run_done of its own; and the
\* dashboard that stays has one to show.
RunDones == {i \in DOMAIN log : log[i] = "run_done"}
TerminalOnce ==
  /\ \A i, j \in RunDones : i = j
  /\ mode = "synthesized" => RunDones \subseteq {Len(log)}
  /\ at = "resident" => RunDones # {}

\* An interrupted run closes down, whatever its clients do.
ClosesDown == interrupted ~> at = "closed"

=============================================================================
