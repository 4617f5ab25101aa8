------------------------- MODULE EventStreamProofs -------------------------
(***************************************************************************)
(* What is proved of EventStream, for any number of clients and events and *)
(* any size of a client's channel.                                         *)
(***************************************************************************)
EXTENDS EventStream, FiniteSetTheorems, TLAPS

-----------------------------------------------------------------------------
(* A client's channel                                                      *)

LEMMA RangeAppend ==
  ASSUME NEW q \in Seq(Nat), NEW e \in Nat
  PROVE  Logged(Append(q, e)) = Logged(q) \cup ({e} \ {NotLogged})
<1>1. DOMAIN Append(q, e) = DOMAIN q \cup {Len(q) + 1}
  OBVIOUS
<1>2. Append(q, e)[Len(q) + 1] = e /\ \A i \in DOMAIN q : Append(q, e)[i] = q[i]
  OBVIOUS
<1>3. Range(Append(q, e)) = Range(q) \cup {e}
  BY <1>1, <1>2, Zenon DEF Range
<1> QED
  BY <1>3 DEF Logged

\* An event behind all others may follow them, and one that is not logged may
\* go anywhere.
LEMMA AscendingAppend ==
  ASSUME NEW q \in Seq(Nat), NEW e \in Nat, NEW after \in Nat,
         Ascending(q, after),
         e # NotLogged => e > after /\ \A i \in DOMAIN q : q[i] < e
  PROVE  Ascending(Append(q, e), after)
<1> DEFINE a == Append(q, e)
<1> SUFFICES ASSUME NEW j \in DOMAIN a, a[j] # NotLogged
             PROVE  a[j] > after /\ \A i \in 1 .. j - 1 : a[i] < a[j]
  BY DEF Ascending
<1>1. DOMAIN a = 1 .. Len(q) + 1 /\ DOMAIN q = 1 .. Len(q)
  OBVIOUS
<1>2. a[Len(q) + 1] = e /\ \A i \in 1 .. Len(q) : a[i] = q[i]
  OBVIOUS
<1> HIDE DEF a
<1>3. CASE j = Len(q) + 1
  BY <1>1, <1>2, <1>3
<1>4. CASE j \in 1 .. Len(q)
  BY <1>1, <1>2, <1>4 DEF Ascending
<1> QED
  BY <1>1, <1>3, <1>4

\* The first event is sent; what stays behind is what was behind it.
LEMMA HeadSent ==
  ASSUME NEW q \in Seq(Nat), q # <<>>, NEW after \in Nat, Ascending(q, after)
  PROVE  LET sent == IF Head(q) = NotLogged THEN after ELSE Head(q)
         IN  /\ sent \in Nat /\ sent >= after
             /\ Ascending(Tail(q), sent)
             /\ Logged(q) = Logged(Tail(q)) \cup ({Head(q)} \ {NotLogged})
             /\ \A e \in Logged(Tail(q)) : e > sent
<1> DEFINE t == Tail(q)  h == Head(q)
           sent == IF h = NotLogged THEN after ELSE h
<1>1. /\ Len(q) \in Nat \ {0} /\ DOMAIN q = 1 .. Len(q)
      /\ DOMAIN t = 1 .. Len(q) - 1
      /\ \A i \in 1 .. Len(q) - 1 : t[i] = q[i + 1]
      /\ h = q[1] /\ h \in Nat
      /\ \A i \in 1 .. Len(q) : q[i] \in Nat
  OBVIOUS
<1> HIDE DEF t, h
<1>2. sent \in Nat /\ sent >= after
  <2>1. 1 \in DOMAIN q /\ q[1] = h
    BY <1>1
  <2>2. h = NotLogged \/ h > after
    BY <2>1 DEF Ascending
  <2> QED
    BY <1>1, <2>2
<1>3. Ascending(t, sent)
  <2> SUFFICES ASSUME NEW j \in 1 .. Len(q) - 1, t[j] # NotLogged
               PROVE  t[j] > sent /\ \A i \in 1 .. j - 1 : t[i] < t[j]
    BY <1>1 DEF Ascending
  <2>1. j + 1 \in DOMAIN q /\ q[j + 1] = t[j]
    BY <1>1
  <2>2. t[j] > after /\ \A i \in 1 .. j : q[i] < t[j]
    BY <1>1, <2>1 DEF Ascending
  <2>3. t[j] > sent
    BY <1>1, <2>2
  <2>4. ASSUME NEW i \in 1 .. j - 1 PROVE t[i] < t[j]
    BY <1>1, <2>2, <2>4
  <2> QED
    BY <2>3, <2>4
<1>4. Range(q) = Range(t) \cup {h}
  <2>1. ASSUME NEW i \in DOMAIN q PROVE q[i] \in Range(t) \cup {h}
    <3>1. CASE i = 1
      BY <1>1, <3>1
    <3>2. CASE i # 1
      <4>1. i - 1 \in DOMAIN t /\ t[i - 1] = q[i]
        BY <1>1, <3>2
      <4> QED
        BY <4>1 DEF Range
    <3> QED
      BY <3>1, <3>2
  <2>2. ASSUME NEW i \in DOMAIN t PROVE t[i] \in Range(q)
    <3>1. i + 1 \in DOMAIN q /\ t[i] = q[i + 1]
      BY <1>1
    <3> QED
      BY <3>1 DEF Range
  <2>3. h \in Range(q)
    <3>1. 1 \in DOMAIN q /\ q[1] = h
      BY <1>1
    <3> QED
      BY <3>1 DEF Range
  <2> QED
    BY <2>1, <2>2, <2>3 DEF Range
<1>5. Logged(q) = Logged(t) \cup ({h} \ {NotLogged})
  BY <1>4 DEF Logged
<1>6. \A e \in Logged(t) : e > sent
  BY <1>3 DEF Ascending, Logged, Range
<1> QED
  BY <1>2, <1>3, <1>5, <1>6 DEF t, h

-----------------------------------------------------------------------------
(* The invariant                                                           *)

Down == {"unhooked", "busclosed", "draining", "closed"}

\* One event is under way at most, the last one written, and none is left
\* when the sink is taken down; the flags say how far that is.
Stages ==
  /\ emitting \subseteq {Len(log)}
  /\ hooked <=> at \notin Down
  /\ closed <=> at \in Down \ {"unhooked"}
  /\ at \in Down \cup {"resident", "closing"} => emitting = {}

\* Who is subscribed, and whose channel is closed.
Channels ==
  /\ ChannelsSound
  /\ closed => subs = {}
  /\ \A c \in Clients :
       /\ c \in subs => client[c] = "streaming"
       /\ client[c] = "streaming" /\ c \notin subs => closed
       /\ client[c] = "ended" => closed

\* A client has and holds nothing that has not been published.
Sent ==
  \A c \in Clients : client[c] = "streaming" =>
    /\ last[c] <= Published
    /\ \A j \in DOMAIN queue[c] : queue[c][j] <= Published

Streams == Sent /\ LogOrder /\ NothingSkipped /\ FlushedBeforeEnd

\* Where the run_done is, by the place the run has come to.
Verdicts ==
  /\ \A i, j \in RunDones : i = j
  /\ mode = "manual" => /\ at \notin {"looping", "verdict"}
                        /\ at = "evaluated" => RunDones # {}
  /\ mode = "synthesized" => /\ RunDones \subseteq {Len(log)}
                             /\ at \in {"evaluated", "looping", "verdict"}
                                  => RunDones = {}
  /\ at = "evaluating" => RunDones = {}
  /\ at \in {"finishing", "resident"} => RunDones # {}

IInv == TypeOK /\ Stages /\ Channels /\ Streams /\ Verdicts

LEMMA InitInv == Init => IInv
<1> SUFFICES ASSUME Init PROVE IInv
  OBVIOUS
<1>1. TypeOK
  <2>1. log = <<>> /\ emitting = {} /\ log \in Seq(Kind)
    BY DEF Init
  <2>2. queue \in [Clients -> Seq({NotLogged} \cup DOMAIN log)]
    BY DEF Init
  <2>3. \A c \in Clients : Len(queue[c]) <= Buffer
    BY StreamAssumption DEF Init
  <2> QED
    BY <2>1, <2>2, <2>3 DEF Init, TypeOK, Place, ClientState
<1>2. Stages /\ Channels
  BY DEF Init, Stages, Channels, ChannelsSound, Down
<1>3. Streams
  BY DEF Init, Streams, Sent, LogOrder, NothingSkipped, FlushedBeforeEnd
<1>4. Verdicts
  BY DEF Init, Verdicts, RunDones
<1> QED
  BY <1>1, <1>2, <1>3, <1>4 DEF IInv

-----------------------------------------------------------------------------
(* What the steps have in common                                           *)

LEMMA PublishedIs ==
  ASSUME TypeOK, Stages
  PROVE  /\ Len(log) \in Nat /\ DOMAIN log = 1 .. Len(log)
         /\ \/ emitting = {} /\ Published = Len(log)
            \/ /\ emitting = {Len(log)} /\ Len(log) > 0
               /\ Published = Len(log) - 1
<1>1. Len(log) \in Nat /\ DOMAIN log = 1 .. Len(log)
  BY DEF TypeOK
<1>2. Cardinality({}) = 0 /\ Cardinality({Len(log)}) = 1
  BY FS_EmptySet, FS_Singleton
<1>3. emitting = {} \/ (emitting = {Len(log)} /\ Len(log) > 0)
  BY <1>1 DEF TypeOK, Stages
<1> QED
  <2>1. CASE emitting = {}
    BY <1>1, <1>2, <2>1 DEF Published
  <2>2. CASE emitting = {Len(log)} /\ Len(log) > 0
    BY <1>1, <1>2, <2>2 DEF Published
  <2> QED
    BY <1>1, <1>3, <2>1, <2>2

\* A client's channel and what it was sent are numbers.
LEMMA ChannelType ==
  ASSUME TypeOK, NEW c \in Clients
  PROVE  /\ queue[c] \in Seq(Nat) /\ last[c] \in Nat
         /\ queue[c] \in Seq({NotLogged} \cup DOMAIN log)
<1>1. {NotLogged} \cup DOMAIN log \subseteq Nat
  BY DEF TypeOK, NotLogged
<1>2. queue[c] \in Seq({NotLogged} \cup DOMAIN log) /\ last[c] \in {0} \cup DOMAIN log
  BY DEF TypeOK
<1> QED
  BY <1>1, <1>2 DEF NotLogged

\* The streams depend on the log and on the clients' sides only.
LEMMA StreamsFrame ==
  ASSUME Streams, UNCHANGED <<log, emitting, queue, client, last, slow>>
  PROVE  Streams'
BY DEF Streams, Sent, LogOrder, NothingSkipped, FlushedBeforeEnd, Published,
       Logged, Range, Ascending

\* What a write does to the log and to what is published: nothing yet.
LEMMA WriteFacts ==
  ASSUME TypeOK, Stages, emitting = {}, NEW kind \in Kind, Write(kind)
  PROVE  /\ log' \in Seq(Kind) /\ Len(log') = Len(log) + 1
         /\ DOMAIN log' = 1 .. Len(log) + 1
         /\ \A i \in DOMAIN log : log'[i] = log[i]
         /\ log'[Len(log) + 1] = kind
         /\ emitting' = {Len(log')} /\ emitting' \subseteq DOMAIN log'
         /\ Published' = Published
<1>1. log \in Seq(Kind) /\ Len(log) \in Nat
  BY DEF TypeOK
<1>2. /\ log' \in Seq(Kind) /\ Len(log') = Len(log) + 1
      /\ DOMAIN log' = 1 .. Len(log) + 1
      /\ \A i \in DOMAIN log : log'[i] = log[i]
      /\ log'[Len(log) + 1] = kind
      /\ emitting' = {Len(log')}
  BY <1>1 DEF Write
<1>3. Published = Len(log)
  BY PublishedIs
<1>4. Published' = Len(log') - 1
  BY <1>2, FS_Singleton DEF Published
<1> QED
  BY <1>1, <1>2, <1>3, <1>4

\* A write leaves everything well typed and the streams as they are.
LEMMA WriteInv ==
  ASSUME TypeOK, Stages, Channels, Streams, emitting = {}, at \notin Down,
         NEW kind \in Kind, Write(kind), at' \in Place \ Down,
         at' \notin {"resident", "closing"},
         UNCHANGED <<mode, hooked, bus, client, interrupted, last, slow>>
  PROVE  TypeOK' /\ Stages' /\ Channels' /\ Streams'
<1>1. /\ log' \in Seq(Kind) /\ DOMAIN log \subseteq DOMAIN log'
      /\ emitting' = {Len(log')} /\ emitting' \subseteq DOMAIN log'
      /\ Published' = Published
  <2>1. DOMAIN log = 1 .. Len(log) /\ Len(log) \in Nat
    BY PublishedIs
  <2> QED
    BY <2>1, WriteFacts
<1>2. TypeOK'
  <2>1. ASSUME NEW c \in Clients
        PROVE  queue[c] \in Seq({NotLogged} \cup DOMAIN log')
    BY <1>1, ChannelType
  <2>2. queue' = queue /\ queue \in [Clients -> Seq({NotLogged} \cup DOMAIN log)]
    BY DEF TypeOK, bus
  <2>3. queue' \in [Clients -> Seq({NotLogged} \cup DOMAIN log')]
    BY <2>1, <2>2
  <2>4. last' \in [Clients -> {0} \cup DOMAIN log']
    BY <1>1 DEF TypeOK
  <2> QED
    BY <1>1, <2>2, <2>3, <2>4 DEF TypeOK, bus
<1>3. Stages'
  <2>1. hooked' /\ ~ closed' /\ at' \notin Down
    BY DEF Stages, bus, Down
  <2> QED
    BY <1>1, <2>1 DEF Stages
<1>4. Channels'
  BY DEF Channels, ChannelsSound, bus
<1>5. Streams'
  <2>1. ~ closed
    BY DEF Stages
  <2>2. FlushedBeforeEnd'
    BY <2>1 DEF FlushedBeforeEnd, Channels
  <2>3. Sent' /\ LogOrder' /\ NothingSkipped'
    BY <1>1 DEF Streams, Sent, LogOrder, NothingSkipped, Logged, Ascending,
                Range, bus
  <2> QED
    BY <2>2, <2>3 DEF Streams
<1> QED
  BY <1>2, <1>3, <1>4, <1>5

-----------------------------------------------------------------------------
(* The bus                                                                 *)

\* A round on the bus appends to some channels and to no other.
LEMMA DeliverFacts ==
  ASSUME TypeOK, NEW e \in {NotLogged} \cup DOMAIN log, NEW receivers,
         Deliver(e, receivers)
  PROVE  /\ queue' \in [Clients -> Seq({NotLogged} \cup DOMAIN log)]
         /\ \A c \in Clients : Len(queue'[c]) <= Buffer
         /\ \A c \in Clients : queue'[c] = IF c \in receivers /\ Room(c)
                                        THEN Append(queue[c], e) ELSE queue[c]
<1> DEFINE E == {NotLogged} \cup DOMAIN log
<1>1. \A c \in Clients : /\ queue[c] \in Seq(E) /\ Len(queue[c]) \in Nat
                         /\ Len(queue[c]) <= Buffer
  BY DEF TypeOK
<1>2. \A c \in Clients : /\ Append(queue[c], e) \in Seq(E)
                         /\ Len(Append(queue[c], e)) = Len(queue[c]) + 1
  BY <1>1
<1>3. \A c \in Clients : queue'[c] = IF c \in receivers /\ Room(c)
                                     THEN Append(queue[c], e) ELSE queue[c]
  BY DEF Deliver
<1>4. queue' \in [Clients -> Seq(E)]
  BY <1>1, <1>2 DEF Deliver
<1>5. ASSUME NEW c \in Clients PROVE Len(queue'[c]) <= Buffer
  <2>1. CASE c \in receivers /\ Room(c)
    <3>1. Len(queue'[c]) = Len(queue[c]) + 1 /\ Len(queue[c]) < Buffer
      BY <1>2, <1>3, <2>1 DEF Room
    <3> QED
      BY <1>1, <3>1, StreamAssumption
  <2>2. CASE ~ (c \in receivers /\ Room(c))
    BY <1>1, <1>3, <2>2
  <2> QED
    BY <2>1, <2>2
<1> QED
  BY <1>3, <1>4, <1>5

LEMMA PublishInv ==
  ASSUME TypeOK, Stages, Channels, Streams, Publish
  PROVE  TypeOK' /\ Stages' /\ Channels' /\ Streams'
<1>1. /\ UNCHANGED <<mode, at, log, hooked, closed, subs, closes, client,
                     interrupted, last>>
      /\ slow' = slow \cup {c \in subs : ~ Room(c)}
      /\ emitting = {Len(log)} /\ emitting' = {} /\ Deliver(Len(log), subs)
      /\ Len(log) \in DOMAIN log /\ ~ closed
  <2>1. PICK e \in emitting : /\ emitting' = emitting \ {e}
                              /\ hooked => Deliver(e, subs)
                              /\ hooked => slow' = slow \cup {c \in subs : ~ Room(c)}
    BY DEF Publish
  <2>2. emitting = {Len(log)} /\ e = Len(log) /\ e \in DOMAIN log
    BY <2>1, PublishedIs DEF TypeOK
  <2>3. hooked /\ ~ closed
    BY <2>2 DEF Stages
  <2> QED
    BY <2>1, <2>2, <2>3 DEF Publish
<1>2. /\ Len(log) \in Nat /\ Len(log) > 0
      /\ Published = Len(log) - 1 /\ Published' = Len(log)
  <2>1. Published = Len(log) - 1 /\ Len(log) \in Nat /\ Len(log) > 0
    BY <1>1, PublishedIs
  <2>2. Published' = Len(log)
    BY <1>1, <2>1, FS_EmptySet DEF Published
  <2> QED
    BY <2>1, <2>2
<1>3. /\ queue' \in [Clients -> Seq({NotLogged} \cup DOMAIN log)]
      /\ \A c \in Clients : Len(queue'[c]) <= Buffer
      /\ \A c \in Clients : queue'[c] = IF c \in subs /\ Room(c)
                                     THEN Append(queue[c], Len(log)) ELSE queue[c]
  BY <1>1, DeliverFacts
<1>4. TypeOK'
  BY <1>1, <1>3 DEF TypeOK
<1>5. Stages'
  BY <1>1 DEF Stages
<1>6. Channels'
  BY <1>1 DEF Channels, ChannelsSound
<1>7. ASSUME NEW c \in Clients, client[c] = "streaming"
      PROVE  /\ last[c] <= Published'
             /\ \A j \in DOMAIN queue'[c] : queue'[c][j] <= Published'
             /\ Ascending(queue'[c], last[c])
             /\ c \notin slow' => Logged(queue'[c]) = last[c] + 1 .. Published'
  <2>1. /\ last[c] \in Nat /\ last[c] <= Published
        /\ \A j \in DOMAIN queue[c] : queue[c][j] \in Nat /\ queue[c][j] <= Published
        /\ queue[c] \in Seq(Nat)
        /\ Ascending(queue[c], last[c])
        /\ c \notin slow => Logged(queue[c]) = last[c] + 1 .. Published
        /\ c \in subs
    BY <1>1, <1>7, ChannelType DEF Streams, Sent, LogOrder, NothingSkipped, Channels
  <2>2. CASE Room(c)
    <3>1. queue'[c] = Append(queue[c], Len(log))
      BY <1>3, <2>1, <2>2
    <3>2. Ascending(queue'[c], last[c])
      BY <1>2, <2>1, <3>1, AscendingAppend
    <3>3. Logged(queue'[c]) = Logged(queue[c]) \cup {Len(log)}
      BY <1>2, <2>1, <3>1, RangeAppend DEF NotLogged
    <3>4. c \notin slow' => Logged(queue'[c]) = last[c] + 1 .. Published'
      BY <1>1, <1>2, <2>1, <3>3
    <3>5. \A j \in DOMAIN queue'[c] : queue'[c][j] <= Published'
      BY <1>2, <2>1, <3>1
    <3> QED
      BY <1>2, <2>1, <3>2, <3>4, <3>5
  <2>3. CASE ~ Room(c)
    <3>1. queue'[c] = queue[c] /\ c \in slow'
      BY <1>1, <1>3, <2>1, <2>3
    <3> QED
      BY <1>2, <2>1, <3>1
  <2> QED
    BY <2>2, <2>3
<1>8. FlushedBeforeEnd'
  BY <1>1 DEF FlushedBeforeEnd, Channels
<1>9. Streams'
  BY <1>1, <1>7, <1>8 DEF Streams, Sent, LogOrder, NothingSkipped
<1> QED
  BY <1>4, <1>5, <1>6, <1>9

LEMMA AdoptInv ==
  ASSUME TypeOK, Stages, Channels, Streams, Adopt
  PROVE  TypeOK' /\ Stages' /\ Channels' /\ Streams'
<1>1. /\ UNCHANGED <<mode, at, log, emitting, hooked, closed, subs, closes,
                     client, interrupted, last, slow>>
      /\ Deliver(NotLogged, subs)
  BY DEF Adopt
<1>2. /\ queue' \in [Clients -> Seq({NotLogged} \cup DOMAIN log)]
      /\ \A c \in Clients : Len(queue'[c]) <= Buffer
      /\ \A c \in Clients : queue'[c] = IF c \in subs /\ Room(c)
                                     THEN Append(queue[c], NotLogged) ELSE queue[c]
  BY <1>1, DeliverFacts
<1>3. TypeOK'
  BY <1>1, <1>2 DEF TypeOK
<1>4. Stages' /\ Channels' /\ FlushedBeforeEnd'
  BY <1>1 DEF Stages, Channels, ChannelsSound, Streams, FlushedBeforeEnd
<1>5. Published' = Published /\ Published \in Nat
  BY <1>1, PublishedIs DEF Published
<1>6. ASSUME NEW c \in Clients, client[c] = "streaming"
      PROVE  /\ \A j \in DOMAIN queue'[c] : queue'[c][j] <= Published
             /\ Ascending(queue'[c], last[c])
             /\ Logged(queue'[c]) = Logged(queue[c])
  <2>1. /\ queue[c] \in Seq(Nat) /\ last[c] \in Nat
        /\ \A j \in DOMAIN queue[c] : queue[c][j] <= Published
        /\ Ascending(queue[c], last[c])
    BY <1>6, ChannelType DEF Streams, Sent, LogOrder
  <2>2. CASE queue'[c] = Append(queue[c], NotLogged)
    <3>1. Logged(queue'[c]) = Logged(queue[c]) /\ Ascending(queue'[c], last[c])
      BY <2>1, <2>2, RangeAppend, AscendingAppend DEF NotLogged
    <3>2. \A j \in DOMAIN queue'[c] : queue'[c][j] <= Published
      BY <1>5, <2>1, <2>2 DEF NotLogged
    <3> QED
      BY <3>1, <3>2
  <2>3. CASE queue'[c] = queue[c]
    BY <2>1, <2>3
  <2> QED
    BY <1>2, <2>2, <2>3
<1>7. Streams'
  BY <1>1, <1>4, <1>5, <1>6 DEF Streams, Sent, LogOrder, NothingSkipped
<1> QED
  BY <1>3, <1>4, <1>7

-----------------------------------------------------------------------------
(* The handlers of the live endpoint                                       *)

\* A step at one client's side leaves the others' streams as they are.
LEMMA OneStream ==
  ASSUME Streams, NEW c \in Clients,
         UNCHANGED <<log, emitting>>,
         \A d \in Clients \ {c} :
           /\ client'[d] = client[d] /\ queue'[d] = queue[d] /\ last'[d] = last[d]
           /\ d \in slow' <=> d \in slow,
         client'[c] = "streaming" =>
           /\ last'[c] <= Published
           /\ \A j \in DOMAIN queue'[c] : queue'[c][j] <= Published
           /\ Ascending(queue'[c], last'[c])
           /\ c \notin slow' => Logged(queue'[c]) = last'[c] + 1 .. Published,
         client'[c] = "ended" /\ c \notin slow' => last'[c] = Len(log)
  PROVE  Streams'
<1>1. Published' = Published
  BY DEF Published
<1>2. Sent'
  BY <1>1 DEF Streams, Sent
<1>3. LogOrder'
  BY DEF Streams, LogOrder, Ascending
<1>4. NothingSkipped'
  BY <1>1 DEF Streams, NothingSkipped, Logged, Range
<1>5. FlushedBeforeEnd'
  BY DEF Streams, FlushedBeforeEnd
<1> QED
  BY <1>2, <1>3, <1>4, <1>5 DEF Streams

LEMMA ConnectInv ==
  ASSUME TypeOK, Stages, Channels, Streams, NEW c \in Clients, Connect(c)
  PROVE  TypeOK' /\ Stages' /\ Channels' /\ Streams'
<1>1. /\ Published \in Nat /\ Published \in {0} \cup DOMAIN log
  BY PublishedIs
<1>2. TypeOK'
  <2>1. queue' \in [Clients -> Seq({NotLogged} \cup DOMAIN log)]
    BY DEF TypeOK, Connect
  <2>2. \A d \in Clients : Len(queue'[d]) <= Buffer
    <3>1. \A d \in Clients : queue'[d] = IF d = c THEN <<>> ELSE queue[d]
      BY DEF TypeOK, Connect
    <3> QED
      BY <3>1, StreamAssumption DEF TypeOK
  <2>3. client' \in [Clients -> ClientState] /\ closes' \in [Clients -> Nat]
    BY DEF TypeOK, Connect, ClientState
  <2>4. last' \in [Clients -> {0} \cup DOMAIN log]
    BY <1>1 DEF TypeOK, Connect
  <2> QED
    BY <2>1, <2>2, <2>3, <2>4 DEF TypeOK, Connect
<1>3. Stages'
  BY DEF Stages, Connect
<1>4. Channels'
  BY DEF Channels, ChannelsSound, Connect, TypeOK
<1>5. Streams'
  <2>1. /\ client'[c] = "streaming" /\ queue'[c] = <<>> /\ last'[c] = Published
        /\ UNCHANGED <<log, emitting>>
    BY DEF Connect, TypeOK
  <2>2. \A d \in Clients \ {c} :
           /\ client'[d] = client[d] /\ queue'[d] = queue[d] /\ last'[d] = last[d]
           /\ d \in slow' <=> d \in slow
    BY DEF Connect, TypeOK
  <2>3. Ascending(<<>>, Published) /\ Logged(<<>>) = Published + 1 .. Published
    BY <1>1 DEF Ascending, Logged, Range
  <2> QED
    BY <1>1, <2>1, <2>2, <2>3, OneStream
<1> QED
  BY <1>2, <1>3, <1>4, <1>5

LEMMA ReceiveInv ==
  ASSUME TypeOK, Stages, Channels, Streams, NEW c \in Clients, Receive(c)
  PROVE  TypeOK' /\ Stages' /\ Channels' /\ Streams'
<1> DEFINE q == queue[c]
           sent == IF Head(q) = NotLogged THEN last[c] ELSE Head(q)
<1>1. /\ client[c] = "streaming" /\ q # <<>>
      /\ UNCHANGED <<mode, at, log, emitting, hooked, closed, subs, closes,
                     client, interrupted, slow>>
      /\ queue' = [queue EXCEPT ![c] = Tail(q)]
      /\ last' = [last EXCEPT ![c] = sent]
  BY DEF Receive
<1>2. /\ q \in Seq(Nat) /\ q \in Seq({NotLogged} \cup DOMAIN log)
      /\ last[c] \in Nat /\ Ascending(q, last[c])
  BY <1>1, ChannelType DEF Streams, LogOrder
<1>3. /\ queue'[c] = Tail(q) /\ last'[c] = sent
      /\ \A d \in Clients \ {c} : queue'[d] = queue[d] /\ last'[d] = last[d]
  BY <1>1 DEF TypeOK
<1>4. /\ Tail(q) \in Seq({NotLogged} \cup DOMAIN log) /\ Len(Tail(q)) < Len(q)
      /\ Head(q) \in {NotLogged} \cup DOMAIN log
      /\ \A j \in DOMAIN Tail(q) : j + 1 \in DOMAIN q /\ Tail(q)[j] = q[j + 1]
      /\ Head(q) = q[1] /\ 1 \in DOMAIN q
  BY <1>1, <1>2
<1>5. TypeOK'
  <2>1. queue' \in [Clients -> Seq({NotLogged} \cup DOMAIN log)]
    BY <1>1, <1>4 DEF TypeOK
  <2>2. ASSUME NEW d \in Clients PROVE Len(queue'[d]) <= Buffer
    <3>1. /\ Len(q) <= Buffer /\ Len(queue[d]) <= Buffer
          /\ Len(q) \in Nat /\ Len(Tail(q)) \in Nat
      BY <1>2, <1>4 DEF TypeOK
    <3>2. CASE d = c
      <4>1. queue'[d] = Tail(q)
        BY <1>3, <3>2
      <4> HIDE DEF q
      <4> QED
        BY <1>4, <3>1, <4>1, StreamAssumption
    <3>3. CASE d # c
      BY <1>3, <3>1, <3>3
    <3> QED
      BY <3>2, <3>3
  <2>3. last' \in [Clients -> {0} \cup DOMAIN log]
    BY <1>1, <1>4 DEF TypeOK, NotLogged
  <2> QED
    BY <1>1, <2>1, <2>2, <2>3 DEF TypeOK
<1>6. Stages' /\ Channels'
  BY <1>1 DEF Stages, Channels, ChannelsSound
<1>7. /\ sent \in Nat /\ sent >= last[c]
      /\ Ascending(Tail(q), sent)
      /\ Logged(q) = Logged(Tail(q)) \cup ({Head(q)} \ {NotLogged})
      /\ \A e \in Logged(Tail(q)) : e > sent
  BY <1>1, <1>2, HeadSent
<1>8. /\ last[c] <= Published /\ \A j \in DOMAIN q : q[j] <= Published
      /\ c \notin slow => Logged(q) = last[c] + 1 .. Published
      /\ Published \in Nat
  BY <1>1, PublishedIs DEF Streams, Sent, NothingSkipped
<1>9. /\ sent <= Published
      /\ \A j \in DOMAIN Tail(q) : Tail(q)[j] <= Published
  BY <1>4, <1>8
<1>10. ASSUME c \notin slow PROVE Logged(Tail(q)) = sent + 1 .. Published
  <2>1. CASE Head(q) = NotLogged
    BY <1>7, <1>8, <1>10, <2>1
  <2>2. CASE Head(q) # NotLogged
    <3>1. sent = Head(q) /\ Logged(q) = Logged(Tail(q)) \cup {sent}
      BY <1>7, <2>2
    <3>2. \A e \in last[c] + 1 .. Published : e \in Logged(Tail(q)) \/ e = sent
      BY <1>8, <1>10, <3>1
    <3>3. \A e \in Logged(Tail(q)) : e \in last[c] + 1 .. Published /\ e > sent
      BY <1>7, <1>8, <1>10, <3>1
    <3> HIDE DEF sent, q
    <3>4. Logged(Tail(q)) \subseteq sent + 1 .. Published
      BY <1>2, <1>7, <1>8, <3>3
    <3>5. sent + 1 .. Published \subseteq Logged(Tail(q))
      BY <1>2, <1>7, <1>8, <3>2
    <3> QED
      BY <3>4, <3>5
  <2> QED
    BY <2>1, <2>2
<1>11. Streams'
  <2> HIDE DEF sent, q
  <2> QED
    BY <1>1, <1>3, <1>7, <1>9, <1>10, OneStream
<1> QED
  BY <1>5, <1>6, <1>11

LEMMA LeaveInv ==
  ASSUME TypeOK, Stages, Channels, Streams, NEW c \in Clients, Leave(c)
  PROVE  TypeOK' /\ Stages' /\ Channels' /\ Streams'
<1>1. /\ client[c] = "streaming"
      /\ UNCHANGED <<mode, at, log, emitting, hooked, closed, queue, interrupted,
                     last, slow>>
      /\ subs' = subs \ {c}
      /\ closes' = [closes EXCEPT ![c] = @ + Closing(c)]
      /\ client' = [client EXCEPT ![c] = client'[c]]
      /\ client'[c] = "away" \/ (client'[c] = "ended" /\ EndOfStream(c))
  BY DEF Leave, TypeOK
<1>2. TypeOK'
  <2>1. client' \in [Clients -> ClientState]
    BY <1>1 DEF TypeOK, ClientState
  <2>2. Closing(c) \in Nat
    BY DEF Closing
  <2>3. closes' \in [Clients -> Nat]
    BY <1>1, <2>2 DEF TypeOK
  <2> QED
    BY <1>1, <2>1, <2>3 DEF TypeOK
<1>3. Stages'
  BY <1>1 DEF Stages
<1>4. EndOfStream(c) => closed
  BY <1>1 DEF EndOfStream, Channels, ChannelsSound
<1>5. Channels'
  <2>1. ChannelsSound'
    BY <1>1 DEF Channels, ChannelsSound, Closing, TypeOK
  <2> QED
    BY <1>1, <1>4, <2>1 DEF Channels, TypeOK
<1>6. ASSUME EndOfStream(c), c \notin slow PROVE last[c] = Len(log)
  <2>1. emitting = {}
    BY <1>4, <1>6 DEF Stages
  <2>2. Published = Len(log) /\ Len(log) \in Nat
    BY <2>1, PublishedIs
  <2>3. queue[c] = <<>> /\ Logged(queue[c]) = {}
    BY <1>6 DEF EndOfStream, Logged, Range
  <2>4. /\ last[c] \in Nat /\ last[c] <= Published
        /\ Logged(queue[c]) = last[c] + 1 .. Published
    BY <1>1, <1>6, ChannelType DEF Streams, Sent, NothingSkipped
  <2>5. Len(log) \notin last[c] + 1 .. Len(log)
    BY <2>2, <2>3, <2>4
  <2> QED
    BY <2>2, <2>4, <2>5
<1>7. Streams'
  <2>1. \A d \in Clients \ {c} : client'[d] = client[d]
    BY <1>1 DEF TypeOK
  <2> QED
    BY <1>1, <1>6, <2>1, OneStream
<1> QED
  BY <1>2, <1>3, <1>5, <1>7

-----------------------------------------------------------------------------
(* The run                                                                 *)

\* The steps that write an event: none is under way, and the sink is whole.
LEMMA WritingStep ==
  ASSUME TypeOK, Stages, Channels, Streams,
         EmitEvent \/ (EngineDone /\ EngineForwarded) \/ Calibrate \/ LoopDone
           \/ TerminalRunDone
  PROVE  TypeOK' /\ Stages' /\ Channels' /\ Streams'
<1>1. PICK kind \in Kind : Write(kind)
  BY DEF EmitEvent, EngineDone, Calibrate, LoopDone, TerminalRunDone, Kind
<1>2. /\ emitting = {} /\ at \notin Down
      /\ at' \in Place \ Down /\ at' \notin {"resident", "closing"}
      /\ UNCHANGED <<mode, hooked, bus, client, interrupted, last, slow>>
  BY DEF EmitEvent, EngineDone, Calibrate, LoopDone, TerminalRunDone, Proceed,
         FanoutFree, Place, Down
<1> QED
  BY <1>1, <1>2, WriteInv

\* The steps that only move on.
LEMMA MovingStep ==
  ASSUME TypeOK, Stages, Channels, Streams,
         (EngineDone /\ ~ EngineForwarded) \/ GiveUp \/ Finish \/ Unhook
           \/ BusClose \/ Interrupt
  PROVE  TypeOK' /\ Stages' /\ Channels' /\ Streams'
<1>1. UNCHANGED <<mode, log, emitting, queue, client, last, slow>>
  BY DEF EngineDone, GiveUp, Finish, Unhook, BusClose, Interrupt, bus
<1>2. Streams'
  BY <1>1, StreamsFrame
<1>3. at' \in Place /\ interrupted' \in BOOLEAN /\ hooked' \in BOOLEAN
  BY DEF EngineDone, GiveUp, Finish, Unhook, BusClose, Interrupt, Proceed,
         TypeOK, Place
<1>4. Stages'
  BY <1>1 DEF Stages, EngineDone, GiveUp, Finish, Unhook, BusClose, Interrupt,
              Proceed, bus, Down
<1>5. CASE BusClose
  <2>1. /\ closed' /\ subs' = {}
        /\ \A c \in Clients : closes'[c] = closes[c] + IF c \in subs THEN 1 ELSE 0
        /\ closes' \in [Clients -> Nat]
    BY <1>5 DEF BusClose, TypeOK
  <2>2. Channels'
    <3>1. ASSUME NEW c \in Clients PROVE closes'[c] <= 1
      <4>1. closes[c] \in Nat /\ closes[c] <= 1 /\ (c \in subs => closes[c] = 0)
        BY DEF Channels, ChannelsSound, TypeOK
      <4>2. closes'[c] = closes[c] + IF c \in subs THEN 1 ELSE 0
        BY <2>1
      <4> QED
        BY <4>1, <4>2
    <3>2. ChannelsSound'
      BY <2>1, <3>1 DEF ChannelsSound
    <3> QED
      BY <1>1, <2>1, <3>2 DEF Channels
  <2>3. TypeOK'
    BY <1>1, <1>3, <2>1 DEF TypeOK
  <2> QED
    BY <1>2, <1>4, <2>2, <2>3
<1>6. CASE ~ BusClose
  <2>1. UNCHANGED bus
    BY <1>6 DEF EngineDone, GiveUp, Finish, Unhook, Interrupt
  <2> QED
    BY <1>1, <1>2, <1>3, <1>4, <2>1 DEF bus, TypeOK, Channels, ChannelsSound
<1> QED
  BY <1>5, <1>6

LEMMA ShutdownInv ==
  ASSUME TypeOK, Stages, Channels, Streams, Shutdown
  PROVE  TypeOK' /\ Stages' /\ Channels' /\ Streams'
<1>1. /\ UNCHANGED <<mode, log, emitting, hooked, bus, interrupted, last, slow>>
      /\ at \in {"busclosed", "draining"} /\ at' \in {"draining", "closed"}
      /\ client' \in [Clients -> ClientState]
      /\ \A c \in Clients : client'[c] = client[c] \/ client'[c] = "cut"
  BY DEF Shutdown, Proceed, TypeOK, ClientState
<1>2. TypeOK' /\ Stages'
  BY <1>1 DEF TypeOK, Stages, bus, Place, Down
<1>3. closed /\ subs = {}
  BY <1>1 DEF Stages, Channels, Down
<1>4. Channels'
  BY <1>1, <1>3 DEF Channels, ChannelsSound, bus
<1>5. Streams'
  BY <1>1 DEF Streams, Sent, LogOrder, NothingSkipped, FlushedBeforeEnd,
              Published, Logged, Range, Ascending, bus
<1> QED
  BY <1>2, <1>4, <1>5

\* What a write does to the verdicts in the log.
LEMMA RunDonesWritten ==
  ASSUME TypeOK, Stages, emitting = {}, NEW kind \in Kind, Write(kind)
  PROVE  /\ kind = "run_done" => RunDones' = RunDones \cup {Len(log')}
         /\ kind # "run_done" => RunDones' = RunDones
<1>1. /\ Len(log) \in Nat /\ DOMAIN log = 1 .. Len(log)
      /\ Len(log') = Len(log) + 1 /\ DOMAIN log' = 1 .. Len(log) + 1
      /\ \A i \in DOMAIN log : log'[i] = log[i]
      /\ log'[Len(log) + 1] = kind
  BY PublishedIs, WriteFacts
<1> QED
  BY <1>1 DEF RunDones

LEMMA VerdictsInv ==
  ASSUME TypeOK, Stages, Verdicts, Next
  PROVE  Verdicts'
<1>1. CASE EmitEvent
  <2>1. /\ Write("event") /\ "event" \in Kind /\ emitting = {}
        /\ UNCHANGED <<mode, at>> /\ at \in {"evaluating", "looping"}
    BY <1>1 DEF EmitEvent, FanoutFree, Kind
  <2>2. RunDones' = RunDones
    BY <2>1, RunDonesWritten
  <2> QED
    BY <2>1, <2>2 DEF Verdicts, TypeOK
<1>2. CASE EngineDone
  <2>1. /\ emitting = {} /\ at = "evaluating" /\ at' = "evaluated"
        /\ mode' = mode /\ RunDones = {} /\ "run_done" \in Kind
    BY <1>2 DEF EngineDone, Proceed, Verdicts, Kind
  <2>2. CASE EngineForwarded
    <3>1. RunDones' = {Len(log')} /\ mode = "manual"
      BY <1>2, <2>1, <2>2, RunDonesWritten DEF EngineDone, EngineForwarded
    <3> QED
      BY <2>1, <3>1 DEF Verdicts
  <2>3. CASE ~ EngineForwarded
    <3>1. RunDones' = {} /\ mode = "synthesized"
      BY <1>2, <2>1, <2>3 DEF EngineDone, EngineForwarded, RunDones, TypeOK
    <3> QED
      BY <2>1, <3>1 DEF Verdicts
  <2> QED
    BY <2>2, <2>3
<1>3. CASE Calibrate
  <2>1. /\ emitting = {} /\ at = "evaluated" /\ mode' = mode /\ Write("usage")
        /\ "usage" \in Kind
        /\ at' \in IF mode = "manual" THEN {"finishing"} ELSE {"looping", "verdict"}
    BY <1>3 DEF Calibrate, Proceed, Kind
  <2>2. RunDones' = RunDones
    BY <2>1, RunDonesWritten
  <2> QED
    BY <2>1, <2>2 DEF Verdicts, TypeOK
<1>4. CASE LoopDone
  <2>1. /\ emitting = {} /\ at = "looping" /\ mode' = mode /\ Write("usage")
        /\ "usage" \in Kind /\ at' = "verdict"
    BY <1>4 DEF LoopDone, Proceed, Kind
  <2>2. RunDones' = RunDones
    BY <2>1, RunDonesWritten
  <2> QED
    BY <2>1, <2>2 DEF Verdicts, TypeOK
<1>5. CASE TerminalRunDone
  <2>1. /\ emitting = {} /\ at = "verdict" /\ mode' = mode /\ Write("run_done")
        /\ "run_done" \in Kind /\ at' = "finishing"
    BY <1>5 DEF TerminalRunDone, Proceed, Kind
  <2>2. RunDones = {} /\ mode = "synthesized"
    BY <2>1 DEF Verdicts, TypeOK
  <2>3. RunDones' = {Len(log')}
    BY <2>1, <2>2, RunDonesWritten
  <2> QED
    BY <2>1, <2>2, <2>3 DEF Verdicts
<1>6. CASE GiveUp \/ Finish
  <2>1. /\ UNCHANGED <<mode, log>>
        /\ at \in {"evaluating", "finishing", "resident"}
        /\ at' \in {"resident", "closing"}
        /\ at' = "resident" => at = "finishing"
    BY <1>6 DEF GiveUp, Finish, Proceed
  <2> QED
    BY <2>1 DEF Verdicts, RunDones
<1>7. CASE Unhook \/ BusClose \/ Shutdown
  <2>1. UNCHANGED <<mode, log>> /\ at' \in Down
    BY <1>7 DEF Unhook, BusClose, Shutdown, Proceed, Down
  <2> QED
    BY <2>1 DEF Verdicts, RunDones, Down
<1>8. CASE Publish \/ Adopt \/ Interrupt \/ \E c \in Clients : Handler(c)
  <2>1. UNCHANGED <<mode, log, at>>
    BY <1>8 DEF Publish, Adopt, Interrupt, Handler, Connect, Receive, Leave
  <2> QED
    BY <2>1 DEF Verdicts, RunDones
<1> QED
  BY <1>1, <1>2, <1>3, <1>4, <1>5, <1>6, <1>7, <1>8 DEF Next, Run

LEMMA NextInv == IInv /\ [Next]_vars => IInv'
<1> SUFFICES ASSUME IInv, [Next]_vars PROVE IInv'
  OBVIOUS
<1> USE DEF IInv
<1>1. CASE UNCHANGED vars
  <2>1. Streams'
    BY <1>1, StreamsFrame DEF vars, bus
  <2>2. TypeOK' /\ Stages' /\ Channels'
    BY <1>1 DEF vars, bus, TypeOK, Stages, Channels, ChannelsSound
  <2>3. Verdicts'
    BY <1>1 DEF vars, bus, Verdicts, RunDones
  <2> QED
    BY <2>1, <2>2, <2>3
<1>2. CASE Next
  <2>1. Verdicts'
    BY <1>2, VerdictsInv
  <2>2. TypeOK' /\ Stages' /\ Channels' /\ Streams'
    <3>1. CASE EmitEvent \/ EngineDone \/ Calibrate \/ LoopDone \/ TerminalRunDone
      BY <3>1, WritingStep, MovingStep
    <3>2. CASE GiveUp \/ Finish \/ Unhook \/ BusClose \/ Interrupt
      BY <3>2, MovingStep
    <3>3. CASE Publish
      BY <3>3, PublishInv
    <3>4. CASE Shutdown
      BY <3>4, ShutdownInv
    <3>5. CASE Adopt
      BY <3>5, AdoptInv
    <3>6. ASSUME NEW c \in Clients, Handler(c)
          PROVE  TypeOK' /\ Stages' /\ Channels' /\ Streams'
      BY <3>6, ConnectInv, ReceiveInv, LeaveInv DEF Handler
    <3> QED
      BY <1>2, <3>1, <3>2, <3>3, <3>4, <3>5, <3>6 DEF Next, Run
  <2> QED
    BY <2>1, <2>2
<1> QED
  BY <1>1, <1>2

LEMMA Invariant == Spec => []IInv
<1>1. Init => IInv
  BY InitInv
<1>2. IInv /\ [Next]_vars => IInv'
  BY NextInv
<1> QED
  BY <1>1, <1>2, PTL DEF Spec

-----------------------------------------------------------------------------
(* The theorems                                                            *)

\* The fan-out, the bus and the handlers stay well typed, and no channel holds
\* more than its buffer.
THEOREM TypeCorrect == Spec => []TypeOK
<1>1. IInv => TypeOK
  BY DEF IInv
<1> QED
  BY <1>1, Invariant, PTL

\* No channel is closed twice and no closed one is sent to.
THEOREM ChannelsSoundHolds == Spec => []ChannelsSound
<1>1. IInv => ChannelsSound
  BY DEF IInv, Channels
<1> QED
  BY <1>1, Invariant, PTL

\* Every client sees the order of events.jsonl, without repetition.
THEOREM LogOrderHolds == Spec => []LogOrder
<1>1. IInv => LogOrder
  BY DEF IInv, Streams
<1> QED
  BY <1>1, Invariant, PTL

\* A client that keeps up misses nothing, ...
THEOREM NothingSkippedHolds == Spec => []NothingSkipped
<1>1. IInv => NothingSkipped
  BY DEF IInv, Streams
<1> QED
  BY <1>1, Invariant, PTL

\* ... and has been sent everything when its stream ends.
THEOREM FlushedBeforeEndHolds == Spec => []FlushedBeforeEnd
<1>1. IInv => FlushedBeforeEnd
  BY DEF IInv, Streams
<1> QED
  BY <1>1, Invariant, PTL

\* At most one run_done, at the end of a synthesized run's log, and one there
\* when the dashboard stays.
THEOREM TerminalOnceHolds == Spec => []TerminalOnce
<1>1. IInv => TerminalOnce
  BY DEF IInv, Verdicts, TerminalOnce
<1> QED
  BY <1>1, Invariant, PTL

\* What a client is shown is the log: in order, without a gap, to its end
\* (LogOrder, NothingSkipped, FlushedBeforeEnd).
THEOREM StreamsFaithfulHolds == Spec => []StreamsFaithful
<1>1. LogOrder /\ NothingSkipped /\ FlushedBeforeEnd => StreamsFaithful
  BY DEF StreamsFaithful
<1> QED BY <1>1, LogOrderHolds, NothingSkippedHolds, FlushedBeforeEndHolds, PTL

=============================================================================
