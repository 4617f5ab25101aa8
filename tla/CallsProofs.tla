----------------------------- MODULE CallsProofs ------------------------------
(***************************************************************************)
(* TypeOK, RateHeld and CallsAccounted for any number of callers, any      *)
(* interval, attempts, back-off and limits, and either wire format.        *)
(***************************************************************************)
EXTENDS Calls, FiniteSetTheorems, TLAPS

\* The callers that wait for a token, and those whose token is due in t ticks.
Slots(ch) == {c \in Callers : ch[c].pc = "slot"}
Due(ch, t) == {c \in Slots(ch) : ch[c].wait <= t}

\* The limiter's next token is never nearer than the requests already sent and
\* the tokens already promised ask for; nor are the promised ones too near.
Pace ==
  Interval > 0 /\ elapsed < Interval * MaxCount =>
    /\ Interval * (dialled + Cardinality(Slots(chat))) <= elapsed + next
    /\ \A t \in Nat :
         Interval * (dialled + Cardinality(Due(chat, t))) <= Interval + elapsed + t

InLadder == phase \in Ladders /\ call.at = "dialling"

\* Who may be at a chat, and what a chat knows of itself.
Shape ==
  /\ phase # "evaluate" => \A w \in Workers : chat[w] = Idle
  /\ ~ InLadder => chat[Optimizer] = Idle
  /\ phase = "evaluate" => call = NoCall
  /\ \A c \in Callers :
       /\ chat[c].pc = "backoff" => chat[c].tries < MaxAttempts
       /\ chat[c].pc # "answered" => chat[c].cost = 0
       /\ chat[c].pc # "idle" =>
            /\ chat[c].tries >= 1
            /\ chat[c].role = IF c = Optimizer THEN "optimizer" ELSE "executor"

StageBound ==
  /\ phase = "synthesise" => stage <= SynthStages
  /\ phase \in {"evaluate", "optimise"} => stage <= MaxStages

\* An attempt sends one request at most, one that still waits for its token none.
Requests ==
  /\ dialled <= MaxCount
  /\ InLadder =>
       dialled + (IF chat[Optimizer].pc = "slot" THEN 1 ELSE 0)
         <= call.attempt * MaxAttempts + chat[Optimizer].tries
  /\ ~ InLadder /\ phase # "evaluate" => dialled = 0

\* A ladder begins below the valve, and every later answer comes of a further
\* escalation.
Late ==
  /\ late < MaxOptAttempts
  /\ late > 0 => ValveTripped /\ phase \notin {"synthesise", "evaluate"}
  /\ phase = "optimise" /\ InLadder =>
       IF call.attempt = 0 THEN ~ ValveTripped ELSE late < call.attempt

IInv ==
  /\ TypeOK /\ Pace /\ Shape /\ StageBound /\ Requests /\ Late
  /\ LedgersAgree /\ LearnedCapWorked

-----------------------------------------------------------------------------
(* Arithmetic and counting. *)

\* The back-off's doublings are numbers.
LEMMA Doublings == ASSUME NEW n \in 0 .. 16 PROVE 2 ^ n \in Nat
<1>1. /\ 2^0 = 1 /\ 2^1 = 2 /\ 2^2 = 4 /\ 2^3 = 8 /\ 2^4 = 16 /\ 2^5 = 32
      /\ 2^6 = 64 /\ 2^7 = 128 /\ 2^8 = 256 /\ 2^9 = 512 /\ 2^10 = 1024
      /\ 2^11 = 2048 /\ 2^12 = 4096 /\ 2^13 = 8192 /\ 2^14 = 16384
      /\ 2^15 = 32768 /\ 2^16 = 65536
  BY SMT
<1>2. CASE n = 0
  BY <1>1, <1>2
<1>3. CASE n = 1
  BY <1>1, <1>3
<1>4. CASE n = 2
  BY <1>1, <1>4
<1>5. CASE n = 3
  BY <1>1, <1>5
<1>6. CASE n = 4
  BY <1>1, <1>6
<1>7. CASE n = 5
  BY <1>1, <1>7
<1>8. CASE n = 6
  BY <1>1, <1>8
<1>9. CASE n = 7
  BY <1>1, <1>9
<1>10. CASE n = 8
  BY <1>1, <1>10
<1>11. CASE n = 9
  BY <1>1, <1>11
<1>12. CASE n = 10
  BY <1>1, <1>12
<1>13. CASE n = 11
  BY <1>1, <1>13
<1>14. CASE n = 12
  BY <1>1, <1>14
<1>15. CASE n = 13
  BY <1>1, <1>15
<1>16. CASE n = 14
  BY <1>1, <1>16
<1>17. CASE n = 15
  BY <1>1, <1>17
<1>18. CASE n = 16
  BY <1>1, <1>18
<1>19. QED
  BY <1>2, <1>3, <1>4, <1>5, <1>6, <1>7, <1>8, <1>9, <1>10,
     <1>11, <1>12, <1>13, <1>14, <1>15, <1>16, <1>17, <1>18

\* More intervals take longer, and one more takes one longer.
LEMMA Intervals ==
  ASSUME NEW i \in Nat, NEW a \in Nat, NEW b \in Nat
  PROVE  /\ i * a \in Nat
         /\ a <= b => i * a <= i * b
         /\ i * (a + 1) = i * a + i
OBVIOUS

\* Sets of callers are counted by natural numbers; one caller more or less
\* counts for one.
LEMMA Counting ==
  ASSUME NEW S \in SUBSET Callers, NEW c \in Callers
  PROVE  /\ Cardinality(S) \in Nat
         /\ \A T \in SUBSET S : Cardinality(T) <= Cardinality(S)
         /\ c \in S => Cardinality(S \ {c}) = Cardinality(S) - 1
         /\ c \notin S => Cardinality(S \cup {c}) = Cardinality(S) + 1
<1>1. IsFiniteSet(S)
  BY FS_Subset, ProviderAssumption
<1>2. Cardinality(S) \in Nat
  BY <1>1, FS_CardinalityType
<1>3. \A T \in SUBSET S : Cardinality(T) <= Cardinality(S)
  BY <1>1, FS_Subset
<1>4. QED
  BY <1>1, <1>2, <1>3, FS_AddElement, FS_RemoveElement

-----------------------------------------------------------------------------
(* What a step does to one caller's chat. *)

Moves(c, s) == s \in Chats /\ chat' = [chat EXCEPT ![c] = s]

\* A caller's chat moves and no other does.
LEMMA Moved ==
  ASSUME chat \in [Callers -> Chats], NEW c \in Callers, NEW s, Moves(c, s)
  PROVE  /\ chat' \in [Callers -> Chats]
         /\ chat'[c] = s
         /\ \A d \in Callers \ {c} : chat'[d] = chat[d]
BY DEF Moves

\* A caller between two chats is a chat like any other.
LEMMA IdleIsChat == Idle \in Chats
BY ProviderAssumption DEF Idle, Chats, Role, Answers

\* Goes keeps all but where the chat is and its timer.
LEMMA GoesTo ==
  ASSUME chat \in [Callers -> Chats], NEW c \in Callers, NEW wait \in Nat,
         NEW pc \in {"idle", "slot", "wire", "backoff", "answered"},
         Goes(c, pc, wait)
  PROVE  \E s : /\ Moves(c, s) /\ s.pc = pc /\ s.wait = wait
                /\ s.role = chat[c].role /\ s.tries = chat[c].tries
                /\ s.cost = chat[c].cost
<1> DEFINE r == chat[c]
           q == [r EXCEPT !.pc = pc]
           s == [q EXCEPT !.wait = wait]
<1>1. r \in Chats
  OBVIOUS
<1>2. /\ q \in Chats /\ q.pc = pc /\ q.role = r.role /\ q.tries = r.tries
      /\ q.cost = r.cost
  BY <1>1 DEF Chats
<1>3. chat' = [chat EXCEPT ![c] = s]
  BY DEF Goes
<1> HIDE DEF q
<1>4. /\ s \in Chats /\ s.pc = pc /\ s.wait = wait /\ s.role = r.role
      /\ s.tries = r.tries /\ s.cost = r.cost
  BY <1>2 DEF Chats
<1> HIDE DEF s
<1>5. QED
  BY <1>3, <1>4 DEF Moves

\* Returns keeps the chat's role and its count of attempts.
LEMMA ReturnsTo ==
  ASSUME chat \in [Callers -> Chats], NEW c \in Callers, NEW cost \in Nat,
         NEW answer \in Answers, Returns(c, answer, cost)
  PROVE  \E s : /\ Moves(c, s) /\ s.pc = "answered" /\ s.cost = cost
                /\ s.role = chat[c].role /\ s.tries = chat[c].tries
<1> DEFINE r == chat[c]
           q == [[r EXCEPT !.pc = "answered"] EXCEPT !.wait = 0]
           t == [q EXCEPT !.answer = answer]
           s == [t EXCEPT !.cost = cost]
<1>1. r \in Chats
  OBVIOUS
<1>2. [r EXCEPT !.pc = "answered"] \in Chats
  BY <1>1 DEF Chats
<1>3. q \in Chats /\ q.pc = "answered" /\ q.role = r.role /\ q.tries = r.tries
  BY <1>1, <1>2 DEF Chats
<1>4. chat' = [chat EXCEPT ![c] = s]
  BY DEF Returns
<1> HIDE DEF q
<1>5. t \in Chats /\ t.pc = "answered" /\ t.role = r.role /\ t.tries = r.tries
  BY <1>3 DEF Chats
<1> HIDE DEF t
<1>6. /\ s \in Chats /\ s.pc = "answered" /\ s.cost = cost
      /\ s.role = r.role /\ s.tries = r.tries
  BY <1>5 DEF Chats
<1> HIDE DEF s
<1>7. QED
  BY <1>4, <1>6 DEF Moves

\* An attempt takes the next token and waits for it, sends, or fails.
LEMMA AttemptTo ==
  ASSUME chat \in [Callers -> Chats], next \in Nat, NEW c \in Callers,
         NEW role \in Role, NEW i \in 1 .. MaxAttempts, Attempt(c, role, i)
  PROVE  /\ next' = next + Interval
         /\ \E s : /\ Moves(c, s) /\ s.role = role /\ s.tries = i /\ s.cost = 0
                   /\ \/ s.pc = "slot" /\ s.wait = next /\ UNCHANGED dialled
                      \/ s.pc = "wire" /\ next = 0 /\ Dialled
                      \/ s.pc = "answered" /\ UNCHANGED dialled
<1> DEFINE r == chat[c]
           q == [[r EXCEPT !.role = role] EXCEPT !.tries = i]
           begun == [[q EXCEPT !.answer = "none"] EXCEPT !.cost = 0]
           At(pc, wait) == [[begun EXCEPT !.pc = pc] EXCEPT !.wait = wait]
           failed == [At("answered", 0) EXCEPT !.answer = "error"]
<1>1. next' = next + Interval
  BY ProviderAssumption DEF Attempt, Reserve, AfterSlot
<1>2. r \in Chats
  OBVIOUS
<1>3. [r EXCEPT !.role = role] \in Chats /\ [r EXCEPT !.role = role].role = role
  BY <1>2 DEF Chats
<1>4. q \in Chats /\ q.role = role /\ q.tries = i
  <2>1. i \in 0 .. MaxAttempts
    BY ProviderAssumption
  <2>2. QED
    BY <1>3, <2>1 DEF Chats
<1> HIDE DEF q
<1>5. /\ [q EXCEPT !.answer = "none"] \in Chats
      /\ [q EXCEPT !.answer = "none"].role = role
      /\ [q EXCEPT !.answer = "none"].tries = i
  BY <1>4 DEF Chats, Answers
<1>6. begun \in Chats /\ begun.role = role /\ begun.tries = i /\ begun.cost = 0
  BY <1>5 DEF Chats
<1>7. \/ chat' = [chat EXCEPT ![c] = At("slot", next)] /\ UNCHANGED dialled
      \/ chat' = [chat EXCEPT ![c] = At("wire", 0)] /\ next = 0 /\ Dialled
      \/ chat' = [chat EXCEPT ![c] = failed] /\ UNCHANGED dialled
  BY DEF Attempt, q
<1> HIDE DEF begun
<1>8. ASSUME NEW pc \in {"slot", "wire", "answered"}, NEW wait \in Nat
      PROVE  /\ At(pc, wait) \in Chats /\ At(pc, wait).pc = pc
             /\ At(pc, wait).wait = wait /\ At(pc, wait).role = role
             /\ At(pc, wait).tries = i /\ At(pc, wait).cost = 0
  <2> DEFINE t == [begun EXCEPT !.pc = pc]
  <2>1. t \in Chats /\ t.pc = pc /\ t.role = role /\ t.tries = i /\ t.cost = 0
    BY <1>6 DEF Chats
  <2> HIDE DEF t
  <2>2. /\ [t EXCEPT !.wait = wait] \in Chats
        /\ [t EXCEPT !.wait = wait].pc = pc /\ [t EXCEPT !.wait = wait].wait = wait
        /\ [t EXCEPT !.wait = wait].role = role /\ [t EXCEPT !.wait = wait].tries = i
        /\ [t EXCEPT !.wait = wait].cost = 0
    BY <2>1 DEF Chats
  <2>3. QED
    BY <2>2 DEF t
<1>9. /\ failed \in Chats /\ failed.pc = "answered" /\ failed.role = role
      /\ failed.tries = i /\ failed.cost = 0
  <2> DEFINE t == At("answered", 0)
  <2>1. t \in Chats /\ t.pc = "answered" /\ t.role = role /\ t.tries = i /\ t.cost = 0
    BY <1>8
  <2> HIDE DEF t
  <2>2. LET f == [t EXCEPT !.answer = "error"]
        IN  f \in Chats /\ f.pc = "answered" /\ f.role = role /\ f.tries = i /\ f.cost = 0
    BY <2>1 DEF Chats, Answers
  <2>3. QED
    BY <2>2 DEF t
<1> HIDE DEF At, failed
<1>10. CASE chat' = [chat EXCEPT ![c] = At("slot", next)] /\ UNCHANGED dialled
  BY <1>1, <1>8, <1>10 DEF Moves
<1>11. CASE chat' = [chat EXCEPT ![c] = At("wire", 0)] /\ next = 0 /\ Dialled
  <2> DEFINE t == At("wire", 0)
  <2>1. /\ t \in Chats /\ t.pc = "wire" /\ t.role = role
        /\ t.tries = i /\ t.cost = 0
    BY <1>8
  <2> HIDE DEF t
  <2>2. Moves(c, t)
    BY <1>11, <2>1 DEF Moves, t
  <2>3. QED
    BY <1>1, <1>11, <2>1, <2>2
<1>12. CASE chat' = [chat EXCEPT ![c] = failed] /\ UNCHANGED dialled
  BY <1>1, <1>9, <1>12 DEF Moves
<1>13. QED
  BY <1>7, <1>10, <1>11, <1>12

\* A back-off is a number of ticks.
LEMMA DelayIsNat ==
  ASSUME NEW i \in 1 .. MaxAttempts, NEW told \in RetryAfters
  PROVE  RetryDelay(i, told) \in Nat
<1> DEFINE n == IF i - 1 < 16 THEN i - 1 ELSE 16
<1>1. n \in 0 .. 16
  BY ProviderAssumption
<1>2. 2 ^ n \in Nat
  BY <1>1, Doublings
<1> HIDE DEF n
<1>3. Backoff * 2 ^ n \in Nat
  BY <1>2, ProviderAssumption
<1>4. RetryDelay(i, told)
        = IF told > 0 THEN IF told < MaxRetryAfter THEN told ELSE MaxRetryAfter
          ELSE Backoff * 2 ^ n
  BY DEF RetryDelay, n
<1>5. QED
  BY <1>3, <1>4, ProviderAssumption

\* A chat goes on where it stands: what it cost is metered, a request is sent
\* by who held a token, and an attempt is not counted.
Continues(c, s) ==
  /\ chat[c].pc \in {"slot", "wire", "backoff"}
  /\ Moves(c, s) /\ s.role = chat[c].role /\ s.tries = chat[c].tries
  /\ s.pc \in {"wire", "backoff", "answered"}
  /\ s.pc # "answered" => s.cost = 0
  /\ s.pc = "backoff" => s.tries < MaxAttempts
  /\ meter' = [meter EXCEPT ![s.role] = @ + s.cost]
  /\ UNCHANGED <<next, elapsed>>
  /\ \/ UNCHANGED dialled
     \/ chat[c].pc = "slot" /\ chat[c].wait = 0 /\ Dialled

\* A client's step goes on with an attempt or begins the next one.
LEMMA ClientTo ==
  ASSUME chat \in [Callers -> Chats], meter \in [Role -> Nat], NEW c \in Callers,
         chat[c].pc # "answered" => chat[c].cost = 0,
         chat[c].pc # "idle" => chat[c].tries >= 1,
         ClientStep(c)
  PROVE  \/ \E s : Continues(c, s)
         \/ /\ chat[c].pc = "backoff"
            /\ Attempt(c, chat[c].role, chat[c].tries + 1)
            /\ UNCHANGED <<meter, elapsed>>
<1>1. chat[c] \in Chats
  OBVIOUS
<1>2. /\ chat[c].role \in Role /\ chat[c].tries \in 0 .. MaxAttempts
      /\ chat[c].cost \in Nat
  BY <1>1 DEF Chats
<1>3. ASSUME NEW s, s.cost = 0, s.role = chat[c].role
      PROVE  meter = [meter EXCEPT ![s.role] = @ + s.cost]
  BY <1>2, <1>3
<1>4. CASE Granted(c)
  <2>1. chat[c].pc = "slot" /\ chat[c].wait = 0 /\ UNCHANGED <<next, meter, elapsed>>
    BY <1>4 DEF Granted, Is
  <2>2. CASE Goes(c, "wire", 0) /\ Dialled
    <3>1. PICK s : /\ Moves(c, s) /\ s.pc = "wire" /\ s.role = chat[c].role
                   /\ s.tries = chat[c].tries /\ s.cost = chat[c].cost
      BY <2>2, GoesTo
    <3>2. QED
      BY <1>3, <2>1, <2>2, <3>1 DEF Continues
  <2>3. CASE Returns(c, "error", 0) /\ UNCHANGED dialled
    <3>1. PICK s : /\ Moves(c, s) /\ s.pc = "answered" /\ s.cost = 0
                   /\ s.role = chat[c].role /\ s.tries = chat[c].tries
      BY <2>3, ReturnsTo DEF Answers
    <3>2. QED
      BY <1>3, <2>1, <2>3, <3>1 DEF Continues
  <2>4. QED
    BY <1>4, <2>2, <2>3 DEF Granted, Send, Fails
<1>5. CASE GivesUp(c) \/ Rejected(c)
  <2>1. PICK s : /\ Moves(c, s) /\ s.pc = "answered" /\ s.cost = 0
                 /\ s.role = chat[c].role /\ s.tries = chat[c].tries
    BY <1>5, ReturnsTo DEF GivesUp, Rejected, Fails, Answers
  <2>2. QED
    BY <1>3, <1>5, <2>1 DEF GivesUp, Rejected, Is, Continues
<1>6. CASE Refused(c)
  <2>1. chat[c].pc = "wire" /\ UNCHANGED <<next, meter, elapsed, dialled>>
    BY <1>6 DEF Refused, Is
  <2>2. PICK told \in RetryAfters :
          \/ /\ chat[c].tries < MaxAttempts
             /\ Goes(c, "backoff", RetryDelay(chat[c].tries, told))
          \/ Returns(c, "error", 0)
    BY <1>6 DEF Refused, MayRetry, Fails
  <2>3. CASE /\ chat[c].tries < MaxAttempts
             /\ Goes(c, "backoff", RetryDelay(chat[c].tries, told))
    <3>1. chat[c].tries \in 1 .. MaxAttempts
      BY <1>2, <2>1
    <3>2. PICK s : /\ Moves(c, s) /\ s.pc = "backoff" /\ s.role = chat[c].role
                   /\ s.tries = chat[c].tries /\ s.cost = chat[c].cost
      BY <2>3, <3>1, DelayIsNat, GoesTo
    <3>3. QED
      BY <1>3, <2>1, <2>3, <3>2 DEF Continues
  <2>4. CASE Returns(c, "error", 0)
    <3>1. PICK s : /\ Moves(c, s) /\ s.pc = "answered" /\ s.cost = 0
                   /\ s.role = chat[c].role /\ s.tries = chat[c].tries
      BY <2>4, ReturnsTo DEF Answers
    <3>2. QED
      BY <1>3, <2>1, <3>1 DEF Continues
  <2>5. QED
    BY <2>2, <2>3, <2>4
<1>7. ASSUME NEW raw \in {"text", "thinking", "blank"}, NEW cost \in TokenCosts,
             Answered(c, raw, cost)
      PROVE  \E s : Continues(c, s)
  <2> DEFINE answer == Distilled(raw)
             paid == IF answer = "error" THEN 0 ELSE cost
  <2>1. answer \in Answers
    BY DEF Distilled, Answers
  <2>2. paid \in Nat
    BY ProviderAssumption
  <2>3. /\ chat[c].pc = "wire" /\ UNCHANGED <<next, elapsed, dialled>>
        /\ Returns(c, answer, paid)
    BY <1>7 DEF Answered, Is
  <2>4. meter' = [meter EXCEPT ![chat[c].role] = @ + paid]
    <3>1. meter' = IF answer = "error" THEN meter
                   ELSE [meter EXCEPT ![chat[c].role] = @ + cost]
      BY <1>7 DEF Answered, Recorded
    <3> HIDE DEF answer
    <3>2. CASE answer = "error"
      BY <1>2, <3>1, <3>2
    <3>3. CASE answer # "error"
      BY <3>1, <3>3
    <3>4. QED
      BY <3>2, <3>3
  <2> HIDE DEF answer, paid
  <2>5. PICK s : /\ Moves(c, s) /\ s.pc = "answered" /\ s.cost = paid
                 /\ s.role = chat[c].role /\ s.tries = chat[c].tries
    BY <2>1, <2>2, <2>3, ReturnsTo
  <2>6. meter' = [meter EXCEPT ![s.role] = @ + s.cost]
    BY <2>4, <2>5
  <2>7. UNCHANGED <<next, elapsed>> /\ UNCHANGED dialled /\ chat[c].pc = "wire"
    BY <2>3
  <2>8. Continues(c, s)
    BY <2>5, <2>6, <2>7 DEF Continues
  <2>9. QED
    BY <2>8
<1>8. CASE BackedOff(c)
  BY <1>8 DEF BackedOff, NextTry, Is
<1>9. QED
  BY <1>4, <1>5, <1>6, <1>7, <1>8 DEF ClientStep

-----------------------------------------------------------------------------
(* The limiter. *)

Paced == ProviderTypeOK /\ dialled <= MaxCount /\ Pace

\* A request counts for one, up to the bound of the count.
LEMMA DialledOnce ==
  ASSUME Paced, Dialled
  PROVE  dialled' \in Nat /\ dialled' <= dialled + 1 /\ dialled' <= MaxCount
BY ProviderAssumption DEF Paced, ProviderTypeOK, Dialled

\* Promises and requests that do not grow in number keep the pace.
LEMMA NoMore ==
  ASSUME Paced, next' \in Nat, elapsed' = elapsed, next' = next, dialled' \in Nat,
         dialled' + Cardinality(Slots(chat')) <= dialled + Cardinality(Slots(chat)),
         \A t \in Nat : dialled' + Cardinality(Due(chat', t))
                          <= dialled + Cardinality(Due(chat, t))
  PROVE  Pace'
<1>1. SUFFICES ASSUME Interval > 0, elapsed < Interval * MaxCount
               PROVE  /\ Interval * (dialled' + Cardinality(Slots(chat'))) <= elapsed + next
                      /\ \A t \in Nat : Interval * (dialled' + Cardinality(Due(chat', t)))
                                          <= Interval + elapsed + t
  BY DEF Pace
<1>2. /\ dialled \in Nat /\ elapsed \in Nat /\ next \in Nat /\ Interval \in Nat
  BY ProviderAssumption DEF Paced, ProviderTypeOK
<1>3. /\ Cardinality(Slots(chat)) \in Nat /\ Cardinality(Slots(chat')) \in Nat
      /\ \A t \in Nat : /\ Cardinality(Due(chat, t)) \in Nat
                        /\ Cardinality(Due(chat', t)) \in Nat
  <2>1. ASSUME NEW S \in SUBSET Callers PROVE Cardinality(S) \in Nat
    BY FS_Subset, FS_CardinalityType, ProviderAssumption
  <2>2. QED
    BY <2>1 DEF Slots, Due
<1>4. /\ Interval * (dialled + Cardinality(Slots(chat))) <= elapsed + next
      /\ \A t \in Nat : Interval * (dialled + Cardinality(Due(chat, t)))
                          <= Interval + elapsed + t
  BY <1>1 DEF Paced, Pace
<1>5. Interval * (dialled' + Cardinality(Slots(chat'))) <= elapsed + next
  <2> DEFINE a == dialled' + Cardinality(Slots(chat'))
             b == dialled + Cardinality(Slots(chat))
  <2>1. a \in Nat /\ b \in Nat /\ a <= b
    BY <1>2, <1>3
  <2>2. Interval * b <= elapsed + next
    BY <1>4
  <2> HIDE DEF a, b
  <2>3. Interval * a <= elapsed + next
    BY <1>2, <2>1, <2>2, Intervals
  <2>4. QED
    BY <2>3 DEF a
<1>6. ASSUME NEW t \in Nat
      PROVE  Interval * (dialled' + Cardinality(Due(chat', t))) <= Interval + elapsed + t
  <2> DEFINE a == dialled' + Cardinality(Due(chat', t))
             b == dialled + Cardinality(Due(chat, t))
  <2>1. a \in Nat /\ b \in Nat /\ a <= b
    BY <1>2, <1>3
  <2>2. Interval * b <= Interval + elapsed + t
    BY <1>4
  <2> HIDE DEF a, b
  <2>3. Interval * a <= Interval + elapsed + t
    BY <1>2, <2>1, <2>2, Intervals
  <2>4. QED
    BY <2>3 DEF a
<1>7. QED
  BY <1>5, <1>6

\* Whoever holds a token uses it or lets it lapse.
LEMMA PaceContinues ==
  ASSUME Paced, NEW c \in Callers, NEW s, Continues(c, s)
  PROVE  Pace' /\ dialled' \in Nat /\ dialled' <= MaxCount
<1>1. /\ chat' \in [Callers -> Chats] /\ chat'[c] = s
      /\ \A d \in Callers \ {c} : chat'[d] = chat[d]
  BY Moved DEF Continues, Paced, ProviderTypeOK
<1>2. dialled \in Nat /\ next \in Nat /\ dialled <= MaxCount
  BY DEF Paced, ProviderTypeOK
<1>3. s.pc # "slot" /\ next' = next /\ elapsed' = elapsed
  BY DEF Continues
<1>4. Slots(chat') = Slots(chat) \ {c}
  BY <1>1, <1>3 DEF Slots
<1>5. \A t \in Nat : Due(chat', t) = Due(chat, t) \ {c}
  BY <1>1, <1>3 DEF Slots, Due
<1>6. \A t \in Nat : Due(chat, t) \in SUBSET Callers
  BY DEF Due, Slots
<1>7. Slots(chat) \in SUBSET Callers
  BY DEF Slots
<1>8. CASE UNCHANGED dialled
  <2>1. /\ Cardinality(Slots(chat')) <= Cardinality(Slots(chat))
        /\ Cardinality(Slots(chat)) \in Nat /\ Cardinality(Slots(chat')) \in Nat
    BY <1>4, <1>7, Counting
  <2>2. ASSUME NEW t \in Nat
        PROVE  /\ Cardinality(Due(chat', t)) <= Cardinality(Due(chat, t))
               /\ Cardinality(Due(chat, t)) \in Nat /\ Cardinality(Due(chat', t)) \in Nat
    BY <1>5, <1>6, Counting
  <2>3. QED
    BY <1>2, <1>3, <1>8, <2>1, <2>2, NoMore
<1>9. CASE chat[c].pc = "slot" /\ chat[c].wait = 0 /\ Dialled
  <2>1. dialled' \in Nat /\ dialled' <= dialled + 1 /\ dialled' <= MaxCount
    BY <1>9, DialledOnce
  <2>2. c \in Slots(chat) /\ \A t \in Nat : c \in Due(chat, t)
    BY <1>9 DEF Slots, Due
  <2>3. /\ Cardinality(Slots(chat')) = Cardinality(Slots(chat)) - 1
        /\ Cardinality(Slots(chat)) \in Nat
    BY <1>4, <1>7, <2>2, Counting
  <2>4. ASSUME NEW t \in Nat
        PROVE  /\ Cardinality(Due(chat', t)) = Cardinality(Due(chat, t)) - 1
               /\ Cardinality(Due(chat, t)) \in Nat
    BY <1>5, <1>6, <2>2, Counting
  <2>5. QED
    BY <1>2, <1>3, <2>1, <2>3, <2>4, NoMore
<1>10. QED
  BY <1>8, <1>9 DEF Continues

\* The new slot is granted when all others were, and one interval is added.
LEMMA PaceAttempt ==
  ASSUME Paced, NEW c \in Callers, chat[c].pc # "slot", UNCHANGED elapsed,
         NEW role \in Role, NEW i \in 1 .. MaxAttempts, Attempt(c, role, i)
  PROVE  Pace' /\ dialled' \in Nat /\ dialled' <= MaxCount
<1>1. /\ dialled \in Nat /\ next \in Nat /\ dialled <= MaxCount /\ elapsed \in Nat
      /\ Interval \in Nat /\ chat \in [Callers -> Chats]
  BY ProviderAssumption DEF Paced, ProviderTypeOK
<1>2. /\ next' = next + Interval
      /\ \E s : /\ Moves(c, s) /\ s.role = role /\ s.tries = i /\ s.cost = 0
                /\ \/ s.pc = "slot" /\ s.wait = next /\ UNCHANGED dialled
                   \/ s.pc = "wire" /\ next = 0 /\ Dialled
                   \/ s.pc = "answered" /\ UNCHANGED dialled
  BY <1>1, AttemptTo
<1>3. PICK s : /\ Moves(c, s)
               /\ \/ s.pc = "slot" /\ s.wait = next /\ UNCHANGED dialled
                  \/ s.pc = "wire" /\ next = 0 /\ Dialled
                  \/ s.pc = "answered" /\ UNCHANGED dialled
  BY <1>2
<1>4. /\ chat'[c] = s
      /\ \A d \in Callers \ {c} : chat'[d] = chat[d]
  BY <1>1, <1>3, Moved
<1>5. dialled' \in Nat /\ dialled' <= MaxCount
  BY <1>1, <1>3, DialledOnce
<1> DEFINE S == Slots(chat)
           all == dialled + Cardinality(S)
           all2 == dialled' + Cardinality(Slots(chat'))
           sum(t) == dialled + Cardinality(Due(chat, t))
           sum2(t) == dialled' + Cardinality(Due(chat', t))
<1>6. /\ S \in SUBSET Callers /\ c \notin S
      /\ \A t \in Nat : Due(chat, t) \in SUBSET S
  BY DEF Slots, Due
<1>7. /\ Cardinality(S) \in Nat
      /\ Cardinality(S \cup {c}) = Cardinality(S) + 1
      /\ \A t \in Nat : /\ Cardinality(Due(chat, t)) \in Nat
                        /\ Cardinality(Due(chat, t)) <= Cardinality(S)
  <2>1. \A t \in Nat : Due(chat, t) \in SUBSET Callers
    BY <1>6
  <2>2. QED
    BY <1>6, <2>1, Counting
<1>8. /\ all2 \in Nat /\ all2 <= all + 1
      /\ \A t \in Nat : /\ sum2(t) \in Nat
                        /\ sum2(t) <= sum(t) \/ (t >= next /\ sum2(t) <= all + 1)
  <2>1. CASE s.pc = "slot" /\ s.wait = next /\ UNCHANGED dialled
    <3>1. Slots(chat') = S \cup {c}
      BY <1>4, <2>1 DEF Slots
    <3>2. ASSUME NEW t \in Nat
          PROVE  \/ t < next /\ Due(chat', t) = Due(chat, t)
                 \/ t >= next /\ Due(chat', t) = Due(chat, t) \cup {c}
      BY <1>1, <1>4, <2>1 DEF Due, Slots
    <3>3. ASSUME NEW t \in Nat
          PROVE  Cardinality(Due(chat, t) \cup {c}) = Cardinality(Due(chat, t)) + 1
      BY <1>6, Counting
    <3>4. ASSUME NEW t \in Nat
          PROVE  /\ sum2(t) \in Nat
                 /\ sum2(t) <= sum(t) \/ (t >= next /\ sum2(t) <= all + 1)
      <4>1. Cardinality(Due(chat, t)) \in Nat /\ Cardinality(Due(chat, t)) <= Cardinality(S)
        BY <1>7
      <4>2. CASE t < next /\ Due(chat', t) = Due(chat, t)
        BY <1>1, <2>1, <4>1, <4>2
      <4>3. CASE t >= next /\ Due(chat', t) = Due(chat, t) \cup {c}
        <5>1. Cardinality(Due(chat', t)) = Cardinality(Due(chat, t)) + 1
          BY <3>3, <4>3
        <5>2. QED
          BY <1>1, <1>7, <2>1, <4>1, <4>3, <5>1
      <4>4. QED
        BY <3>2, <4>2, <4>3
    <3>5. all2 \in Nat /\ all2 <= all + 1
      BY <1>1, <1>7, <2>1, <3>1
    <3>6. QED
      BY <3>4, <3>5
  <2>2. CASE s.pc # "slot" /\ dialled' <= dialled + 1 /\ (next = 0 \/ dialled' = dialled)
    <3>1. Slots(chat') = S
      BY <1>4, <2>2 DEF Slots
    <3>2. \A t \in Nat : Due(chat', t) = Due(chat, t)
      BY <1>4, <2>2 DEF Due, Slots
    <3>3. all2 \in Nat /\ all2 <= all + 1
      BY <1>1, <1>5, <1>7, <2>2, <3>1
    <3>4. ASSUME NEW t \in Nat
          PROVE  /\ sum2(t) \in Nat
                 /\ sum2(t) <= sum(t) \/ (t >= next /\ sum2(t) <= all + 1)
      <4>1. Cardinality(Due(chat, t)) \in Nat /\ Cardinality(Due(chat, t)) <= Cardinality(S)
        BY <1>7
      <4>2. Cardinality(Due(chat', t)) = Cardinality(Due(chat, t))
        BY <3>2
      <4>3. QED
        BY <1>1, <1>5, <1>7, <2>2, <4>1, <4>2
    <3>5. QED
      BY <3>3, <3>4
  <2>3. QED
    BY <1>1, <1>3, <2>1, <2>2, DialledOnce
<1>9. /\ all \in Nat /\ \A t \in Nat : sum(t) \in Nat
  BY <1>1, <1>7
<1>10. Pace'
  <2>1. SUFFICES ASSUME Interval > 0, elapsed < Interval * MaxCount
                 PROVE  /\ Interval * all2 <= elapsed + next + Interval
                        /\ \A t \in Nat : Interval * sum2(t) <= Interval + elapsed + t
    <3>1. elapsed' + next' = elapsed + next + Interval /\ elapsed' = elapsed
      BY <1>1, <1>2
    <3>2. QED
      BY <2>1, <3>1 DEF Pace
  <2>2. /\ Interval * all <= elapsed + next
        /\ \A t \in Nat : Interval * sum(t) <= Interval + elapsed + t
    BY <2>1 DEF Paced, Pace
  <2> HIDE DEF all, all2, sum, sum2
  <2>3. Interval * (all + 1) <= elapsed + next + Interval
    BY <1>1, <1>9, <2>2, Intervals
  <2>4. Interval * all2 <= elapsed + next + Interval
    BY <1>1, <1>8, <1>9, <2>3, Intervals
  <2>5. ASSUME NEW t \in Nat
        PROVE  Interval * sum2(t) <= Interval + elapsed + t
    <3>1. CASE sum2(t) <= sum(t)
      <4>1. Interval * sum2(t) <= Interval * sum(t)
        BY <1>1, <1>8, <1>9, <3>1, Intervals
      <4>2. Interval * sum2(t) \in Nat /\ Interval * sum(t) \in Nat
        BY <1>1, <1>8, <1>9, Intervals
      <4>3. QED
        BY <1>1, <2>2, <4>1, <4>2
    <3>2. CASE t >= next /\ sum2(t) <= all + 1
      <4>1. Interval * sum2(t) <= Interval * (all + 1)
        BY <1>1, <1>8, <1>9, <3>2, Intervals
      <4>2. Interval * sum2(t) \in Nat /\ Interval * (all + 1) \in Nat
        BY <1>1, <1>8, <1>9, Intervals
      <4>3. QED
        BY <1>1, <2>3, <3>2, <4>1, <4>2
    <3>3. QED
      BY <1>8, <3>1, <3>2
  <2>6. QED
    BY <2>4, <2>5
<1>11. QED
  BY <1>5, <1>10

\* Time brings every promise nearer, and the rate allows for it.
LEMMA PaceTick ==
  ASSUME Paced, Tick
  PROVE  Pace' /\ dialled' \in Nat /\ dialled' <= MaxCount
<1>1. /\ dialled \in Nat /\ next \in Nat /\ dialled <= MaxCount /\ elapsed \in Nat
      /\ Interval \in Nat /\ MaxCount \in Nat /\ chat \in [Callers -> Chats]
  BY ProviderAssumption DEF Paced, ProviderTypeOK
<1>2. /\ dialled' = dialled /\ next' = Less(next)
      /\ elapsed' = IF elapsed < Interval * MaxCount THEN elapsed + 1 ELSE elapsed
      /\ chat' = [c \in Callers |-> [chat[c] EXCEPT !.wait = Less(@)]]
  BY DEF Tick
<1>3. ASSUME NEW c \in Callers
      PROVE  /\ chat'[c].pc = chat[c].pc
             /\ chat[c].wait \in Nat /\ chat'[c].wait = Less(chat[c].wait)
  BY <1>1, <1>2 DEF Chats
<1>4. Slots(chat') = Slots(chat)
  BY <1>3 DEF Slots
<1>5. \A t \in Nat : Due(chat', t) = Due(chat, t + 1)
  BY <1>3 DEF Due, Slots, Less
<1>6. SUFFICES ASSUME Interval > 0, elapsed' < Interval * MaxCount
               PROVE  /\ Interval * (dialled' + Cardinality(Slots(chat'))) <= elapsed' + next'
                      /\ \A t \in Nat : Interval * (dialled' + Cardinality(Due(chat', t)))
                                          <= Interval + elapsed' + t
  BY <1>1, <1>2 DEF Pace
<1>7. Interval * MaxCount \in Nat
  BY <1>1, Intervals
<1>8. elapsed < Interval * MaxCount /\ elapsed' = elapsed + 1
  BY <1>1, <1>2, <1>6, <1>7
<1>9. /\ Interval * (dialled + Cardinality(Slots(chat))) <= elapsed + next
      /\ \A t \in Nat : Interval * (dialled + Cardinality(Due(chat, t)))
                          <= Interval + elapsed + t
  BY <1>6, <1>8 DEF Paced, Pace
<1>10. ASSUME NEW S \in SUBSET Callers
       PROVE  Interval * (dialled + Cardinality(S)) \in Nat
  BY <1>1, FS_Subset, FS_CardinalityType, ProviderAssumption
<1>11. Interval * (dialled' + Cardinality(Slots(chat'))) <= elapsed' + next'
  <2>1. Slots(chat) \in SUBSET Callers
    BY DEF Slots
  <2>2. Interval * (dialled + Cardinality(Slots(chat))) \in Nat
    BY <1>10, <2>1
  <2>3. elapsed + next <= elapsed' + next'
    BY <1>1, <1>2, <1>8 DEF Less
  <2>4. elapsed' + next' \in Nat
    BY <1>1, <1>2, <1>8 DEF Less
  <2>5. dialled' + Cardinality(Slots(chat')) = dialled + Cardinality(Slots(chat))
    BY <1>2, <1>4
  <2>6. QED
    BY <1>1, <1>9, <2>2, <2>3, <2>4, <2>5
<1>12. ASSUME NEW t \in Nat
       PROVE  Interval * (dialled' + Cardinality(Due(chat', t))) <= Interval + elapsed' + t
  <2>1. Interval * (dialled + Cardinality(Due(chat, t + 1))) <= Interval + elapsed + (t + 1)
    BY <1>9
  <2>2. Interval + elapsed + (t + 1) = Interval + elapsed' + t
    BY <1>1, <1>8
  <2>3. Due(chat', t) = Due(chat, t + 1)
    BY <1>5
  <2>4. dialled' + Cardinality(Due(chat', t)) = dialled + Cardinality(Due(chat, t + 1))
    BY <1>2, <2>3
  <2>5. QED
    BY <2>1, <2>2, <2>4
<1>13. QED
  BY <1>11, <1>12

\* A quiet client begins a new window.
LEMMA PaceQuiet ==
  ASSUME Paced, next' = next, elapsed' = 0, dialled' = 0,
         \A c \in Callers : chat'[c].pc # "slot"
  PROVE  Pace'
<1>1. next \in Nat /\ Interval \in Nat
  BY ProviderAssumption DEF Paced, ProviderTypeOK
<1>2. Slots(chat') = {} /\ \A t \in Nat : Due(chat', t) = {}
  BY DEF Slots, Due
<1>3. Cardinality({}) = 0 /\ Interval * (0 + 0) = 0
  BY <1>1, FS_EmptySet
<1>4. QED
  BY <1>1, <1>2, <1>3 DEF Pace

\* The rate is held as long as the limiter keeps its pace.
LEMMA PaceHoldsRate ==
  ASSUME Paced
  PROVE  RateHeld
<1>1. /\ dialled \in Nat /\ next \in Nat /\ dialled <= MaxCount /\ elapsed \in Nat
      /\ Interval \in Nat /\ MaxCount \in Nat
  BY ProviderAssumption DEF Paced, ProviderTypeOK
<1>2. Interval * dialled \in Nat /\ Interval * MaxCount \in Nat
  BY <1>1, Intervals
<1>3. CASE elapsed >= Interval * MaxCount
  <2>1. Interval * dialled <= Interval * MaxCount
    BY <1>1, Intervals
  <2>2. QED
    BY <1>1, <1>2, <1>3, <2>1 DEF RateHeld
<1>4. CASE Interval > 0 /\ elapsed < Interval * MaxCount
  <2>1. Interval * (dialled + Cardinality(Due(chat, 0))) <= Interval + elapsed + 0
    BY <1>4 DEF Paced, Pace
  <2>2. Cardinality(Due(chat, 0)) \in Nat
    <3>1. Due(chat, 0) \in SUBSET Callers
      BY DEF Due, Slots
    <3>2. QED
      BY <3>1, FS_Subset, FS_CardinalityType, ProviderAssumption
  <2> DEFINE sum == dialled + Cardinality(Due(chat, 0))
  <2>3. sum \in Nat /\ dialled <= sum
    BY <1>1, <2>2
  <2>4. Interval * sum <= Interval + elapsed + 0
    BY <2>1
  <2> HIDE DEF sum
  <2>5. Interval * dialled <= Interval * sum /\ Interval * sum \in Nat
    BY <1>1, <2>3, Intervals
  <2>6. QED
    BY <1>1, <1>2, <2>4, <2>5 DEF RateHeld
<1>5. QED
  BY <1>1, <1>2, <1>3, <1>4 DEF RateHeld

-----------------------------------------------------------------------------
(* What the ledgers and the client do together. *)

\* Metering keeps the budget a budget, touches no reservation and never
\* disarms the soft stop.
LEMMA RecordUsageFacts ==
  ASSUME NEW b \in Budgets, NEW r \in Role, NEW u \in Nat
  PROVE  /\ RecordUsage(b, r, u) \in Budgets
         /\ RecordUsage(b, r, u).evals = b.evals
         /\ b.softStop => RecordUsage(b, r, u).softStop
<1> DEFINE spent == [b.usage EXCEPT ![r] = @ + u]
           after == [evals |-> b.evals, usage |-> spent, softStop |-> b.softStop]
           arm == r \in {"executor", "judge"} /\ OverLimit(after)
<1>1. b.evals \in Nat /\ b.usage \in [Role -> Nat] /\ b.softStop \in BOOLEAN
  BY DEF Budgets
<1>2. spent \in [Role -> Nat]
  BY <1>1
<1>3. RecordUsage(b, r, u)
        = [evals |-> b.evals, usage |-> spent, softStop |-> b.softStop \/ arm]
  BY DEF RecordUsage
<1>4. (b.softStop \/ arm) \in BOOLEAN
  BY <1>1, Zenon
<1> HIDE DEF spent, after, arm
<1>5. QED
  BY <1>1, <1>2, <1>3, <1>4 DEF Budgets

\* Charging the optimiser adds up, and never lifts the valve.
LEMMA ChargeFacts ==
  ASSUME budget \in Budgets, NEW n \in Nat,
         budget' = RecordUsage(budget, "optimizer", n)
  PROVE  /\ budget' \in Budgets
         /\ budget'.usage["optimizer"] = budget.usage["optimizer"] + n
         /\ budget.usage["optimizer"] \in Nat
         /\ ValveTripped => ValveTripped'
<1>1. "optimizer" \in Role
  BY DEF Role
<1>2. budget' \in Budgets
  BY <1>1, RecordUsageFacts
<1>3. budget.usage \in [Role -> Nat]
  BY DEF Budgets
<1>4. budget'.usage = [budget.usage EXCEPT !["optimizer"] = @ + n]
  BY DEF RecordUsage
<1>5. /\ budget'.usage["optimizer"] = budget.usage["optimizer"] + n
      /\ budget.usage["optimizer"] \in Nat
  BY <1>1, <1>3, <1>4
<1>6. ValveTripped => ValveTripped'
  BY <1>5, CallsAssumption DEF ValveTripped
<1>7. QED
  BY <1>2, <1>5, <1>6

OneIf(b) == IF b THEN 1 ELSE 0

\* A step of a client's own: whose it is, what it costs, how many requests.
Stepped(c, s) ==
  /\ Moves(c, s) /\ chat[c].pc \notin {"idle", "answered"} /\ s.pc # "idle"
  /\ s.role = chat[c].role /\ s.tries >= 1
  /\ s.pc = "backoff" => s.tries < MaxAttempts
  /\ s.pc # "answered" => s.cost = 0
  /\ meter' = [meter EXCEPT ![s.role] = @ + s.cost]
  /\ dialled' + OneIf(s.pc = "slot")
       <= dialled + OneIf(chat[c].pc = "slot") + (s.tries - chat[c].tries)
  /\ next' \in Nat /\ elapsed' = elapsed
  /\ dialled' \in Nat /\ dialled' <= MaxCount /\ Pace'

\* Both kinds of a client's step, with what the invariant needs of them.
LEMMA ClientFacts ==
  ASSUME TypeOK, Pace, Shape, dialled <= MaxCount, NEW c \in Callers, ClientStep(c)
  PROVE  \E s : Stepped(c, s)
<1>1. /\ Paced /\ chat \in [Callers -> Chats] /\ meter \in [Role -> Nat]
      /\ next \in Nat /\ dialled \in Nat /\ Interval \in Nat
  BY ProviderAssumption DEF TypeOK, ProviderTypeOK, Paced
<1>2. /\ chat[c].pc # "answered" => chat[c].cost = 0
      /\ chat[c].pc # "idle" => chat[c].tries >= 1
      /\ chat[c].pc = "backoff" => chat[c].tries < MaxAttempts
  BY DEF Shape
<1>3. chat[c].tries \in Nat /\ chat[c].role \in Role
  BY <1>1, ProviderAssumption DEF Chats
<1>4. CASE \E s : Continues(c, s)
  <2>1. PICK s : Continues(c, s)
    BY <1>4
  <2>2. Pace' /\ dialled' \in Nat /\ dialled' <= MaxCount
    BY <1>1, <2>1, PaceContinues
  <2>3. dialled' + OneIf(s.pc = "slot")
          <= dialled + OneIf(chat[c].pc = "slot") + (s.tries - chat[c].tries)
    BY <1>1, <1>3, <2>1, <2>2, DialledOnce DEF Continues, OneIf
  <2>4. QED
    BY <1>1, <1>2, <2>1, <2>2, <2>3 DEF Continues, Stepped
<1>5. CASE /\ chat[c].pc = "backoff"
           /\ Attempt(c, chat[c].role, chat[c].tries + 1)
           /\ UNCHANGED <<meter, elapsed>>
  <2>1. chat[c].tries + 1 \in 1 .. MaxAttempts
    BY <1>2, <1>3, <1>5, ProviderAssumption
  <2>2. Pace' /\ dialled' \in Nat /\ dialled' <= MaxCount
    BY <1>1, <1>3, <1>5, <2>1, PaceAttempt
  <2>3. PICK s : /\ Moves(c, s) /\ s.role = chat[c].role
                 /\ s.tries = chat[c].tries + 1 /\ s.cost = 0
                 /\ \/ s.pc = "slot" /\ s.wait = next /\ UNCHANGED dialled
                    \/ s.pc = "wire" /\ next = 0 /\ Dialled
                    \/ s.pc = "answered" /\ UNCHANGED dialled
    BY <1>1, <1>3, <1>5, <2>1, AttemptTo
  <2>4. next' = next + Interval
    BY <1>1, <1>3, <1>5, <2>1, AttemptTo
  <2>5. dialled' + OneIf(s.pc = "slot")
          <= dialled + OneIf(chat[c].pc = "slot") + (s.tries - chat[c].tries)
    BY <1>1, <1>3, <1>5, <2>2, <2>3, DialledOnce DEF OneIf
  <2>6. meter' = [meter EXCEPT ![s.role] = @ + s.cost]
    BY <1>1, <1>3, <1>5, <2>3
  <2>7. /\ s.pc \in {"slot", "wire", "answered"} /\ s.tries >= 1
        /\ elapsed' = elapsed /\ next' \in Nat
    BY <1>1, <1>3, <1>5, <2>3, <2>4
  <2>8. QED
    BY <1>5, <2>2, <2>3, <2>5, <2>6, <2>7 DEF Stepped
<1>6. QED
  BY <1>1, <1>2, <1>4, <1>5, ClientTo

-----------------------------------------------------------------------------
(* Every step keeps the invariant. *)

\* What the run itself keeps when only chats move.
LEMMA RunStays ==
  ASSUME IInv, UNCHANGED runVars, UNCHANGED historyVars
  PROVE  /\ StageBound' /\ Late' /\ LearnedCapWorked'
         /\ InLadder' = InLadder
<1>1. /\ phase' = phase /\ stage' = stage /\ call' = call /\ learned' = learned
      /\ pending' = pending /\ budget' = budget /\ valveFired' = valveFired
      /\ lost' = lost /\ worked' = worked /\ late' = late
  BY DEF runVars, historyVars
<1>2. StageBound' /\ InLadder' = InLadder
  BY <1>1 DEF IInv, StageBound, InLadder
<1>3. Late'
  BY <1>1 DEF IInv, Late, ValveTripped, InLadder
<1>4. LearnedCapWorked'
  BY <1>1 DEF IInv, LearnedCapWorked
<1>5. QED
  BY <1>2, <1>3, <1>4

\* A client's variables well typed, the run's untouched: all is well typed.
LEMMA RunTyped ==
  ASSUME IInv, UNCHANGED runVars, UNCHANGED historyVars, ProviderTypeOK'
  PROVE  TypeOK'
BY DEF IInv, TypeOK, runVars, historyVars

\* A chat in progress: Granted, GivesUp, BackedOff, Refused, Rejected, Answered.
LEMMA ClientKeeps ==
  ASSUME IInv, NEW c \in Callers, Client(c)
  PROVE  IInv'
<1>1. ClientStep(c) /\ UNCHANGED cancelled /\ UNCHANGED runVars /\ UNCHANGED historyVars
  BY DEF Client
<1>2. /\ TypeOK /\ ProviderTypeOK /\ Pace /\ Shape /\ Requests /\ LedgersAgree
  BY DEF IInv, TypeOK
<1>3. PICK s : Stepped(c, s)
  BY <1>1, <1>2, ClientFacts DEF Requests
<1>4. /\ chat \in [Callers -> Chats] /\ meter \in [Role -> Nat]
      /\ dialled \in Nat /\ elapsed \in Nat
      /\ Optimizer \in Callers
  BY <1>2, CallsAssumption DEF ProviderTypeOK
<1>5. /\ chat' \in [Callers -> Chats] /\ chat'[c] = s /\ s \in Chats
      /\ \A d \in Callers \ {c} : chat'[d] = chat[d]
  BY <1>3, <1>4, Moved DEF Stepped, Moves
<1>6. /\ s.role \in Role /\ s.cost \in Nat /\ s.tries \in Nat
      /\ chat[c].tries \in Nat /\ chat[c].cost \in Nat
  BY <1>4, <1>5, ProviderAssumption DEF Chats
<1>7. /\ StageBound' /\ Late' /\ LearnedCapWorked' /\ InLadder' = InLadder
      /\ phase' = phase /\ call' = call
  BY <1>1, RunStays DEF runVars
<1>8. meter' \in [Role -> Nat]
  BY <1>3, <1>4, <1>6 DEF Stepped
<1>9. TypeOK'
  <2>1. ProviderTypeOK'
    BY <1>1, <1>2, <1>3, <1>4, <1>5, <1>8 DEF Stepped, ProviderTypeOK
  <2>2. QED
    BY <1>1, <2>1, RunTyped
<1>10. Pace'
  BY <1>3 DEF Stepped
<1>11. chat[c].pc \notin {"idle", "answered"}
  BY <1>3 DEF Stepped
<1>12. /\ c # Optimizer => phase = "evaluate" /\ s.role = "executor"
       /\ c = Optimizer => InLadder /\ s.role = "optimizer"
  BY <1>2, <1>3, <1>11 DEF Shape, Workers, Idle, Stepped
<1>13. Shape'
  <2>1. phase' # "evaluate" => \A w \in Workers : chat'[w] = Idle
    BY <1>2, <1>5, <1>7, <1>12 DEF Shape, Workers
  <2>2. ~ InLadder' => chat'[Optimizer] = Idle
    BY <1>2, <1>4, <1>5, <1>7, <1>12 DEF Shape
  <2>3. ASSUME NEW d \in Callers
        PROVE  /\ chat'[d].pc = "backoff" => chat'[d].tries < MaxAttempts
               /\ chat'[d].pc # "answered" => chat'[d].cost = 0
               /\ chat'[d].pc # "idle" =>
                    /\ chat'[d].tries >= 1
                    /\ chat'[d].role = IF d = Optimizer THEN "optimizer" ELSE "executor"
    <3>1. CASE d = c
      BY <1>3, <1>5, <1>12, <3>1 DEF Stepped
    <3>2. CASE d # c
      BY <1>2, <1>5, <3>2 DEF Shape
    <3>3. QED
      BY <3>1, <3>2
  <2>4. QED
    BY <1>2, <1>7, <2>1, <2>2, <2>3 DEF Shape
<1>14. Requests'
  <2>1. dialled' <= MaxCount /\ dialled' \in Nat
    BY <1>3 DEF Stepped
  <2>2. CASE c # Optimizer
    <3>1. ~ InLadder
      BY <1>12, <2>2 DEF InLadder, Ladders
    <3>2. QED
      BY <1>7, <1>12, <2>1, <2>2, <3>1 DEF Requests
  <2>3. CASE c = Optimizer
    <3>1. dialled + OneIf(chat[c].pc = "slot")
            <= call.attempt * MaxAttempts + chat[c].tries
      BY <1>2, <1>12, <2>3 DEF Requests, OneIf
    <3>2. call.attempt * MaxAttempts \in Nat
      BY <1>2, ProviderAssumption DEF TypeOK, MaxOptAttempts
    <3>3. dialled' + OneIf(s.pc = "slot")
            <= dialled + OneIf(chat[c].pc = "slot") + (s.tries - chat[c].tries)
      BY <1>3 DEF Stepped
    <3>4. dialled' + OneIf(s.pc = "slot") <= call.attempt * MaxAttempts + s.tries
      <4> DEFINE n == call.attempt * MaxAttempts
      <4>1. dialled + OneIf(chat[c].pc = "slot") <= n + chat[c].tries /\ n \in Nat
        BY <3>1, <3>2
      <4> HIDE DEF n
      <4>2. dialled' + OneIf(s.pc = "slot") <= n + s.tries
        BY <1>4, <1>6, <2>1, <3>3, <4>1 DEF OneIf
      <4>3. QED
        BY <4>2 DEF n
    <3>5. QED
      BY <1>5, <1>7, <1>12, <2>1, <2>3, <3>4 DEF Requests, OneIf
  <2>4. QED
    BY <2>2, <2>3
<1>15. LedgersAgree'
  <2>1. budget' = budget /\ pending' = pending /\ lost' = lost
    BY <1>1 DEF runVars, historyVars
  <2>2. chat[c].cost = 0
    BY <1>2, <1>11 DEF Shape
  <2>3. meter' = [meter EXCEPT ![s.role] = @ + s.cost]
    BY <1>3 DEF Stepped
  <2>4. budget.usage["optimizer"] \in Nat /\ pending \in Nat /\ lost \in Nat
    BY <1>2 DEF TypeOK, Budgets, Role
  <2>5. meter["optimizer"] \in Nat
    BY <1>4 DEF Role
  <2>6. CASE c = Optimizer
    <3>1. meter'["optimizer"] = meter["optimizer"] + s.cost
      BY <1>4, <1>6, <1>12, <2>3, <2>6
    <3>2. chat'[Optimizer].cost = s.cost /\ chat[Optimizer].cost = 0
      BY <1>5, <2>2, <2>6
    <3>3. QED
      BY <1>2, <1>6, <2>1, <2>4, <2>5, <3>1, <3>2 DEF LedgersAgree
  <2>7. CASE c # Optimizer
    <3>1. meter'["optimizer"] = meter["optimizer"]
      BY <1>4, <1>6, <1>12, <2>3, <2>7
    <3>2. chat'[Optimizer] = chat[Optimizer]
      BY <1>4, <1>5, <2>7
    <3>3. QED
      BY <1>2, <2>1, <3>1, <3>2 DEF LedgersAgree
  <2>8. QED
    BY <2>6, <2>7
<1>16. QED
  BY <1>7, <1>9, <1>10, <1>13, <1>14, <1>15 DEF IInv

\* A tick only brings timers and the next token nearer.
LEMMA ClockKeeps ==
  ASSUME IInv, Clock
  PROVE  IInv'
<1>1. Tick /\ UNCHANGED runVars /\ UNCHANGED historyVars
  BY DEF Clock
<1>2. /\ TypeOK /\ ProviderTypeOK /\ Pace /\ Shape /\ Requests /\ LedgersAgree /\ Paced
  BY DEF IInv, TypeOK, Requests, Paced
<1>3. /\ StageBound' /\ Late' /\ LearnedCapWorked' /\ InLadder' = InLadder
      /\ phase' = phase /\ call' = call
      /\ budget' = budget /\ pending' = pending /\ lost' = lost
  BY <1>1, RunStays DEF runVars, historyVars
<1>4. /\ chat' = [c \in Callers |-> [chat[c] EXCEPT !.wait = Less(@)]]
      /\ next' = Less(next) /\ meter' = meter /\ cancelled' = cancelled
      /\ dialled' = dialled
      /\ elapsed' = IF elapsed < Interval * MaxCount THEN elapsed + 1 ELSE elapsed
  BY <1>1 DEF Tick
<1>5. Pace' /\ dialled' \in Nat /\ dialled' <= MaxCount
  BY <1>1, <1>2, PaceTick
<1>6. ASSUME NEW c \in Callers
      PROVE  /\ chat'[c] \in Chats /\ chat'[c].pc = chat[c].pc
             /\ chat'[c].tries = chat[c].tries /\ chat'[c].role = chat[c].role
             /\ chat'[c].cost = chat[c].cost
             /\ chat[c] = Idle => chat'[c] = Idle
  <2> DEFINE r == chat[c]
  <2>1. r \in Chats /\ chat'[c] = [r EXCEPT !.wait = Less(r.wait)]
    BY <1>2, <1>4 DEF ProviderTypeOK
  <2>2. r.wait \in Nat /\ Less(r.wait) \in Nat
    BY <2>1 DEF Chats, Less
  <2> DEFINE n == Less(r.wait)
             q == [r EXCEPT !.wait = n]
  <2>3. chat'[c] = q /\ n \in Nat
    BY <2>1, <2>2
  <2>4. r = Idle => q = Idle
    BY DEF Idle, Less
  <2> HIDE DEF n, r
  <2>5. q \in Chats /\ q.pc = r.pc /\ q.tries = r.tries /\ q.role = r.role /\ q.cost = r.cost
    BY <2>1, <2>3 DEF Chats
  <2>6. QED
    BY <2>3, <2>4, <2>5 DEF r
<1>7. TypeOK'
  <2>1. chat' \in [Callers -> Chats]
    BY <1>4, <1>6
  <2>2. next' \in Nat /\ elapsed' \in Nat
    BY <1>2, <1>4 DEF ProviderTypeOK, Less
  <2>3. ProviderTypeOK'
    BY <1>2, <1>4, <1>5, <2>1, <2>2 DEF ProviderTypeOK
  <2>4. QED
    BY <1>1, <2>3, RunTyped
<1>8. Optimizer \in Callers
  BY CallsAssumption
<1>9. Shape'
  BY <1>2, <1>3, <1>6, <1>8 DEF Shape, Workers
<1>10. Requests'
  BY <1>2, <1>3, <1>4, <1>6, <1>8 DEF Requests
<1>11. LedgersAgree'
  BY <1>2, <1>3, <1>4, <1>6, <1>8 DEF LedgersAgree
<1>12. QED
  BY <1>3, <1>5, <1>7, <1>9, <1>10, <1>11 DEF IInv

\* What the client keeps when only the run moves on; the rest is the run's own.
LEMMA ClientStays ==
  ASSUME IInv, UNCHANGED clientVars, cancelled' \in BOOLEAN
  PROVE  /\ ProviderTypeOK' /\ Pace' /\ chat' = chat /\ meter' = meter
         /\ dialled' = dialled
BY DEF IInv, TypeOK, clientVars, ProviderTypeOK, Pace, Slots, Due

\* A cancellation, or nothing at all.
LEMMA CancelKeeps ==
  ASSUME IInv, Cancel \/ UNCHANGED vars
  PROVE  IInv'
<1>1. /\ UNCHANGED clientVars /\ UNCHANGED runVars /\ UNCHANGED historyVars
      /\ cancelled' \in BOOLEAN
  BY DEF Cancel, vars, IInv, TypeOK, ProviderTypeOK
<1>2. /\ ProviderTypeOK' /\ Pace' /\ chat' = chat /\ meter' = meter
      /\ dialled' = dialled
  BY <1>1, ClientStays
<1>3. /\ StageBound' /\ Late' /\ LearnedCapWorked' /\ InLadder' = InLadder
      /\ phase' = phase /\ call' = call
      /\ budget' = budget /\ pending' = pending /\ lost' = lost
  BY <1>1, RunStays DEF runVars, historyVars
<1>4. TypeOK'
  BY <1>1, <1>2, RunTyped
<1>5. Shape'
  BY <1>2, <1>3 DEF IInv, Shape
<1>6. Requests'
  BY <1>2, <1>3 DEF IInv, Requests
<1>7. LedgersAgree'
  BY <1>2, <1>3 DEF IInv, LedgersAgree
<1>8. QED
  BY <1>2, <1>3, <1>4, <1>5, <1>6, <1>7 DEF IInv

\* The steps between two calls: no ladder is in progress, before or after.
Between ==
  \/ RefuseCall \/ CannotWrite \/ Parsed \/ Repair \/ Unusable \/ Abort

\* A failed stage fails the synthesis, or costs the optimiser's round.
LEMMA StageFailsFacts ==
  ASSUME TypeOK, StageBound, phase \in Ladders, StageFails
  PROVE  /\ phase' \in {"failed", "optimise", "done"}
         /\ phase' = "optimise" => phase = "optimise"
         /\ phase = "synthesise" => phase' = "failed"
         /\ phase = "optimise" => call' = NoCall
         /\ stage' \in 1 .. SynthStages + MaxStages
         /\ phase' = "optimise" => stage' <= MaxStages
         /\ call' = call \/ call' = NoCall
<1>1. CASE phase = "synthesise"
  BY <1>1 DEF StageFails, TypeOK
<1>2. CASE phase = "optimise"
  <2>1. NextStage("optimise")
    BY <1>2 DEF StageFails
  <2>2. stage \in Nat /\ stage >= 1 /\ stage <= MaxStages /\ MaxStages \in Nat
    BY <1>2, CallsAssumption DEF TypeOK, StageBound, SynthStages
  <2>3. stage' = stage + 1
    BY <2>1 DEF NextStage
  <2>4. phase' = IF stage = MaxStages THEN "done" ELSE "optimise"
    BY <1>2, <2>1 DEF NextStage
  <2>5. QED
    BY <1>2, <2>1, <2>2, <2>3, <2>4 DEF NextStage, SynthStages
<1>3. QED
  BY <1>1, <1>2 DEF Ladders

\* Between two calls the ledgers move tokens but lose none.
LEMMA BetweenKeeps ==
  ASSUME IInv, Between
  PROVE  IInv'
<1>1. /\ TypeOK /\ StageBound /\ Shape /\ Requests /\ Late /\ LedgersAgree
      /\ LearnedCapWorked
  BY DEF IInv
<1>2. /\ UNCHANGED clientVars /\ cancelled' = cancelled /\ learned' = learned
      /\ lost' = lost /\ worked' = worked /\ late' = late
  BY DEF Between, RefuseCall, CannotWrite, Parsed, Repair, Unusable, Abort,
         historyVars
<1>3. /\ ProviderTypeOK' /\ Pace' /\ chat' = chat /\ meter' = meter
      /\ dialled' = dialled
  BY <1>1, <1>2, ClientStays DEF TypeOK, ProviderTypeOK
<1>4. phase \in Ladders /\ call.at \in {"ready", "parse"}
  BY <1>1 DEF Between, RefuseCall, CannotWrite, Parsed, Repair, Unusable, Abort,
              Calling, Ladders, NoCall, TypeOK
<1>5. /\ phase' \in Ladders \cup {"evaluate"} \cup Over
      /\ stage' \in 1 .. SynthStages + MaxStages
      /\ call' = call \/ call' = NoCall \/ call' = [NoCall EXCEPT !.repair = TRUE]
      /\ StageBound'
      /\ phase' = "evaluate" => phase = "synthesise" /\ call' = NoCall
      /\ phase' = "synthesise" => phase = "synthesise"
  <2>1. CASE RefuseCall \/ Abort
    BY <1>1, <2>1 DEF RefuseCall, Abort, TypeOK, StageBound, Over, Ladders
  <2>2. CASE CannotWrite \/ Unusable
    <3>1. StageFails
      BY <2>2 DEF CannotWrite, Unusable
    <3>2. QED
      BY <1>1, <1>4, <3>1, StageFailsFacts DEF StageBound, Ladders, Over
  <2>3. CASE Repair
    BY <1>1, <1>4, <2>3 DEF Repair, TypeOK, StageBound, Ladders
  <2>4. CASE Parsed
    <3>1. CASE phase = "synthesise" /\ stage = SynthStages
      <4>1. Synthesised
        BY <2>4, <3>1 DEF Parsed
      <4>2. QED
        BY <3>1, <4>1, CallsAssumption DEF Synthesised, StageBound, SynthStages
    <3>2. CASE phase = "synthesise" /\ stage # SynthStages
      <4>1. NextStage("synthesise") /\ stage \in Nat /\ stage <= 3 /\ stage >= 1
        BY <1>1, <2>4, <3>2, CallsAssumption
           DEF Parsed, TypeOK, StageBound, SynthStages
      <4>2. stage' = stage + 1 /\ phase' = "synthesise" /\ call' = NoCall
        BY <3>2, <4>1 DEF NextStage
      <4>3. stage' <= 3
        BY <3>2, <4>1, <4>2 DEF SynthStages
      <4>4. QED
        BY <3>2, <4>1, <4>2, <4>3, CallsAssumption DEF StageBound, SynthStages, Ladders
    <3>3. CASE phase = "optimise"
      <4>1. StageFails
        BY <2>4, <3>3 DEF Parsed, StageFails
      <4>2. QED
        BY <1>1, <1>4, <3>3, <4>1, StageFailsFacts DEF StageBound, Ladders, Over
    <3>4. QED
      BY <1>4, <3>1, <3>2, <3>3 DEF Ladders
  <2>5. QED
    BY <2>1, <2>2, <2>3, <2>4 DEF Between
<1>6. /\ pending' \in Nat /\ budget' \in Budgets /\ valveFired' \in BOOLEAN
      /\ budget'.usage["optimizer"] + pending' = budget.usage["optimizer"] + pending
      /\ ValveTripped => ValveTripped'
      /\ budget.usage["optimizer"] \in Nat /\ budget'.usage["optimizer"] \in Nat
  <2>1. budget \in Budgets /\ pending \in Nat /\ valveFired \in BOOLEAN
    BY <1>1 DEF TypeOK
  <2>2. budget.usage["optimizer"] \in Nat
    BY <2>1 DEF Budgets, Role
  <2>3. valveFired' \in BOOLEAN
    BY <2>1 DEF Between, RefuseCall, CannotWrite, Parsed, Repair, Unusable, Abort
  <2>4. CASE budget' = budget /\ pending' = pending
    BY <2>1, <2>2, <2>3, <2>4 DEF ValveTripped
  <2>5. CASE Synthesised
    <3>1. budget' = RecordUsage(budget, "optimizer", pending) /\ pending' = 0
      BY <2>5 DEF Synthesised, Charged
    <3>2. QED
      BY <2>1, <2>2, <2>3, <3>1, ChargeFacts
  <2>6. QED
    BY <2>4, <2>5
       DEF Between, RefuseCall, CannotWrite, Parsed, Repair, Unusable, Abort
<1>7. call' \in [at : {"ready", "dialling", "parse"}, repair : BOOLEAN,
                 attempt : 0 .. MaxOptAttempts - 1]
      /\ call'.at # "dialling"
  <2> DEFINE S == [at : {"ready", "dialling", "parse"}, repair : BOOLEAN,
                   attempt : 0 .. MaxOptAttempts - 1]
             r == NoCall
             q == [r EXCEPT !.repair = TRUE]
  <2>1. 0 \in 0 .. MaxOptAttempts - 1
    BY DEF MaxOptAttempts
  <2>2. NoCall \in S /\ NoCall.at = "ready"
    BY <2>1 DEF NoCall
  <2>3. r \in S /\ r.at = "ready"
    BY <2>2
  <2> HIDE DEF r
  <2>4. q \in S /\ q.at = "ready"
    BY <2>3
  <2>5. call' = call \/ call' = NoCall \/ call' = q
    BY <1>5 DEF r
  <2> HIDE DEF q
  <2>6. call \in S
    BY <1>1 DEF TypeOK
  <2> HIDE DEF S
  <2>7. call' \in S /\ call'.at # "dialling"
    BY <1>4, <2>2, <2>4, <2>5, <2>6
  <2>8. QED
    BY <2>7 DEF S
<1>8. ~ InLadder /\ ~ InLadder'
  BY <1>4, <1>7 DEF InLadder
<1>9. TypeOK'
  BY <1>1, <1>2, <1>3, <1>5, <1>6, <1>7 DEF TypeOK
<1>10. phase # "evaluate"
  BY <1>4 DEF Ladders
<1>11. Shape'
  BY <1>1, <1>3, <1>5, <1>8, <1>10 DEF Shape
<1>12. Requests'
  BY <1>1, <1>3, <1>8, <1>10 DEF Requests
<1>13. Late'
  BY <1>1, <1>2, <1>5, <1>6, <1>8, <1>10 DEF Late
<1>14. LedgersAgree'
  <2>1. /\ lost \in Nat /\ chat[Optimizer].cost = 0 /\ pending \in Nat
        /\ pending' \in Nat
    BY <1>1, <1>6, <1>8 DEF TypeOK, Shape, Idle
  <2>2. QED
    BY <1>1, <1>2, <1>3, <1>6, <2>1 DEF LedgersAgree
<1>15. LearnedCapWorked'
  BY <1>1, <1>2 DEF LearnedCapWorked
<1>16. QED
  BY <1>3, <1>5, <1>9, <1>11, <1>12, <1>13, <1>14, <1>15 DEF IInv

\* The first attempt of a chat.
LEMMA FirstAttempt ==
  ASSUME Paced, NEW c \in Callers, chat[c].pc # "slot", UNCHANGED elapsed,
         NEW role \in Role, Attempt(c, role, 1)
  PROVE  \E s : /\ Moves(c, s) /\ s.role = role /\ s.tries = 1 /\ s.cost = 0
                /\ s.pc \in {"slot", "wire", "answered"}
                /\ dialled' + OneIf(s.pc = "slot") <= dialled + 1
                /\ next' \in Nat /\ dialled' \in Nat /\ dialled' <= MaxCount /\ Pace'
<1>1. 1 \in 1 .. MaxAttempts /\ Interval \in Nat
  BY ProviderAssumption
<1>2. /\ chat \in [Callers -> Chats] /\ next \in Nat /\ dialled \in Nat
  BY DEF Paced, ProviderTypeOK
<1>3. Pace' /\ dialled' \in Nat /\ dialled' <= MaxCount
  BY <1>1, PaceAttempt
<1>4. next' = next + Interval
  BY <1>1, <1>2, AttemptTo
<1>5. PICK s : /\ Moves(c, s) /\ s.role = role /\ s.tries = 1 /\ s.cost = 0
               /\ \/ s.pc = "slot" /\ s.wait = next /\ UNCHANGED dialled
                  \/ s.pc = "wire" /\ next = 0 /\ Dialled
                  \/ s.pc = "answered" /\ UNCHANGED dialled
  BY <1>1, <1>2, AttemptTo
<1>6. dialled' + OneIf(s.pc = "slot") <= dialled + 1
  BY <1>2, <1>5, DialledOnce DEF OneIf
<1>7. QED
  BY <1>1, <1>2, <1>3, <1>4, <1>5, <1>6

\* A chat that begins belongs to the driver's ladder, or to the pool.
LEMMA BegunShape ==
  ASSUME Shape, chat \in [Callers -> Chats], NEW c \in Callers, NEW s,
         Moves(c, s), s.pc # "backoff", s.cost = 0, s.tries >= 1,
         s.role = IF c = Optimizer THEN "optimizer" ELSE "executor",
         c = Optimizer => InLadder', c # Optimizer => phase = "evaluate",
         phase' = phase, InLadder => InLadder', call' = NoCall \/ phase # "evaluate"
  PROVE  Shape'
<1>1. /\ chat' \in [Callers -> Chats] /\ chat'[c] = s
      /\ \A d \in Callers \ {c} : chat'[d] = chat[d]
  BY Moved
<1>2. Optimizer \in Callers
  BY CallsAssumption
<1>3. phase' # "evaluate" => \A w \in Workers : chat'[w] = Idle
  BY <1>1 DEF Shape, Workers
<1>4. ~ InLadder' => chat'[Optimizer] = Idle
  BY <1>1, <1>2 DEF Shape
<1>5. ASSUME NEW d \in Callers
      PROVE  /\ chat'[d].pc = "backoff" => chat'[d].tries < MaxAttempts
             /\ chat'[d].pc # "answered" => chat'[d].cost = 0
             /\ chat'[d].pc # "idle" =>
                  /\ chat'[d].tries >= 1
                  /\ chat'[d].role = IF d = Optimizer THEN "optimizer" ELSE "executor"
  <2>1. CASE d = c
    BY <1>1, <2>1
  <2>2. CASE d # c
    BY <1>1, <2>2 DEF Shape
  <2>3. QED
    BY <2>1, <2>2
<1>6. QED
  BY <1>3, <1>4, <1>5 DEF Shape

\* A worker's chat begins only while the pool runs.
LEMMA WorkerKeeps ==
  ASSUME IInv, NEW w \in Workers, WorkerChat(w)
  PROVE  IInv'
<1>1. /\ phase = "evaluate" /\ chat[w].pc = "idle" /\ Attempt(w, "executor", 1)
      /\ UNCHANGED <<meter, elapsed, cancelled>>
      /\ UNCHANGED runVars /\ UNCHANGED historyVars
  BY DEF WorkerChat, Chat, Is
<1>2. /\ TypeOK /\ ProviderTypeOK /\ Pace /\ Shape /\ Requests /\ LedgersAgree /\ Paced
      /\ w \in Callers /\ w # Optimizer /\ "executor" \in Role
  BY DEF IInv, TypeOK, Requests, Paced, Workers, Role
<1>3. PICK s : /\ Moves(w, s) /\ s.role = "executor" /\ s.tries = 1 /\ s.cost = 0
               /\ s.pc \in {"slot", "wire", "answered"}
               /\ next' \in Nat /\ dialled' \in Nat /\ dialled' <= MaxCount /\ Pace'
  BY <1>1, <1>2, FirstAttempt
<1>4. /\ StageBound' /\ Late' /\ LearnedCapWorked' /\ InLadder' = InLadder
      /\ phase' = phase /\ call' = call
      /\ budget' = budget /\ pending' = pending /\ lost' = lost
  BY <1>1, RunStays DEF runVars, historyVars
<1>5. chat \in [Callers -> Chats] /\ Optimizer \in Callers
  BY <1>2, CallsAssumption DEF ProviderTypeOK
<1>6. chat' \in [Callers -> Chats] /\ chat'[Optimizer] = chat[Optimizer]
  BY <1>2, <1>3, <1>5, Moved
<1>7. TypeOK'
  <2>1. ProviderTypeOK'
    BY <1>1, <1>2, <1>3, <1>6 DEF ProviderTypeOK
  <2>2. QED
    BY <1>1, <2>1, RunTyped
<1>8. Shape'
  <2>1. call' = NoCall
    BY <1>1, <1>2, <1>4 DEF Shape
  <2>2. QED
    BY <1>1, <1>2, <1>3, <1>4, <1>5, <2>1, BegunShape
<1>9. ~ InLadder'
  BY <1>1, <1>4 DEF InLadder, Ladders
<1>10. Requests'
  BY <1>1, <1>3, <1>4, <1>9 DEF Requests
<1>11. LedgersAgree'
  BY <1>1, <1>2, <1>4, <1>6 DEF LedgersAgree
<1>12. QED
  BY <1>3, <1>4, <1>7, <1>8, <1>10, <1>11 DEF IInv

\* The pool leaves the client quiet, its window closed.
LEMMA PoolDoneKeeps ==
  ASSUME IInv, PoolDone
  PROVE  IInv'
<1>1. /\ phase = "evaluate" /\ phase' = "optimise"
      /\ chat' = [c \in Callers |-> Idle] /\ elapsed' = 0 /\ dialled' = 0
      /\ next' = next /\ meter' = meter /\ cancelled' = cancelled
      /\ stage' = stage /\ call' = call /\ learned' = learned
      /\ pending' = pending /\ budget' = budget /\ valveFired' = valveFired
      /\ lost' = lost /\ worked' = worked /\ late' = late
  BY DEF PoolDone, historyVars
<1>2. /\ TypeOK /\ ProviderTypeOK /\ Shape /\ Requests /\ LedgersAgree /\ Paced
      /\ StageBound /\ Late /\ LearnedCapWorked /\ Optimizer \in Callers
  BY CallsAssumption DEF IInv, TypeOK, Requests, Paced
<1>3. call = NoCall /\ ~ InLadder /\ ~ InLadder'
  BY <1>1, <1>2 DEF Shape, InLadder, NoCall, Ladders
<1>4. TypeOK'
  BY <1>1, <1>2, IdleIsChat DEF TypeOK, ProviderTypeOK, Ladders
<1>5. Pace'
  BY <1>1, <1>2, PaceQuiet DEF Idle
<1>6. Shape'
  BY <1>1, <1>2, <1>3 DEF Shape, Workers, Idle
<1>7. StageBound' /\ LearnedCapWorked'
  BY <1>1, <1>2 DEF StageBound, LearnedCapWorked
<1>8. Requests'
  BY <1>1, <1>3, ProviderAssumption DEF Requests
<1>9. Late'
  <2>1. late = 0 /\ late \in Nat
    BY <1>1, <1>2 DEF Late, TypeOK
  <2>2. QED
    BY <1>1, <1>3, <2>1 DEF Late, MaxOptAttempts
<1>10. LedgersAgree'
  <2>1. chat[Optimizer] = Idle /\ chat'[Optimizer] = Idle
    BY <1>1, <1>2, <1>3 DEF Shape
  <2>2. QED
    BY <1>1, <1>2, <2>1 DEF LedgersAgree
<1>11. QED
  BY <1>4, <1>5, <1>6, <1>7, <1>8, <1>9, <1>10 DEF IInv

\* A ladder begins below the valve, with no request sent yet.
LEMMA StartKeeps ==
  ASSUME IInv, StartCall
  PROVE  IInv'
<1>1. /\ phase \in Ladders /\ call.at = "ready" /\ MayDial
      /\ chat[Optimizer].pc = "idle" /\ Attempt(Optimizer, "optimizer", 1)
      /\ call' = [call EXCEPT !.at = "dialling"]
      /\ meter' = meter /\ elapsed' = elapsed /\ cancelled' = cancelled
      /\ phase' = phase /\ stage' = stage /\ learned' = learned
      /\ pending' = pending /\ budget' = budget /\ valveFired' = valveFired
      /\ lost' = lost /\ worked' = worked /\ late' = late
  BY DEF StartCall, Calling, Admitted, Chat, Is, historyVars
<1>2. /\ TypeOK /\ ProviderTypeOK /\ Shape /\ Requests /\ LedgersAgree /\ Paced
      /\ StageBound /\ Late /\ LearnedCapWorked /\ Optimizer \in Callers
      /\ "optimizer" \in Role
  BY CallsAssumption DEF IInv, TypeOK, Requests, Paced, Role
<1>3. PICK s : /\ Moves(Optimizer, s) /\ s.role = "optimizer" /\ s.tries = 1 /\ s.cost = 0
               /\ s.pc \in {"slot", "wire", "answered"}
               /\ dialled' + OneIf(s.pc = "slot") <= dialled + 1
               /\ next' \in Nat /\ dialled' \in Nat /\ dialled' <= MaxCount /\ Pace'
  BY <1>1, <1>2, FirstAttempt
<1>4. /\ call' \in [at : {"ready", "dialling", "parse"}, repair : BOOLEAN,
                    attempt : 0 .. MaxOptAttempts - 1]
      /\ call'.at = "dialling" /\ call'.attempt = call.attempt
      /\ call.attempt \in Nat
  BY <1>1, <1>2 DEF TypeOK, MaxOptAttempts
<1>5. ~ InLadder /\ InLadder' /\ phase # "evaluate"
  BY <1>1, <1>4 DEF InLadder, Ladders
<1>6. chat \in [Callers -> Chats]
  BY <1>2 DEF ProviderTypeOK
<1>7. chat' \in [Callers -> Chats] /\ chat'[Optimizer] = s
  BY <1>2, <1>3, <1>6, Moved
<1>8. TypeOK'
  BY <1>1, <1>2, <1>3, <1>4, <1>7 DEF TypeOK, ProviderTypeOK
<1>9. Shape'
  BY <1>1, <1>2, <1>3, <1>5, <1>6, BegunShape
<1>10. StageBound' /\ LearnedCapWorked'
  BY <1>1, <1>2 DEF StageBound, LearnedCapWorked
<1>11. Requests'
  <2>1. dialled = 0
    BY <1>2, <1>5 DEF Requests
  <2>2. call.attempt * MaxAttempts \in Nat
    BY <1>4, ProviderAssumption
  <2>3. dialled' + OneIf(s.pc = "slot") <= call.attempt * MaxAttempts + s.tries
    <3> DEFINE n == call.attempt * MaxAttempts
    <3>1. n \in Nat
      BY <2>2
    <3> HIDE DEF n
    <3> DEFINE m == dialled' + OneIf(s.pc = "slot")
    <3>2. m \in Nat
      <4>1. OneIf(s.pc = "slot") \in Nat
        BY DEF OneIf
      <4>2. dialled' \in Nat
        BY <1>3
      <4>3. QED
        BY <4>1, <4>2
    <3>3. m <= 0 + 1 /\ s.tries = 1
      BY <1>3, <2>1
    <3> HIDE DEF m
    <3>4. m <= n + s.tries
      BY <3>1, <3>2, <3>3
    <3>5. QED
      BY <3>4 DEF n, m
  <2>4. QED
    BY <1>3, <1>4, <1>5, <1>7, <2>3 DEF Requests, OneIf
<1>12. Late'
  <2>1. ValveTripped' = ValveTripped
    BY <1>1 DEF ValveTripped
  <2>2. phase = "optimise" => ~ ValveTripped /\ late = 0
    BY <1>1, <1>2 DEF MayDial, Late, TypeOK
  <2>3. QED
    BY <1>1, <1>2, <1>4, <2>1, <2>2 DEF Late
<1>13. LedgersAgree'
  <2>1. chat[Optimizer].cost = 0
    BY <1>1, <1>2 DEF Shape
  <2>2. QED
    BY <1>1, <1>2, <1>3, <1>7, <2>1 DEF LedgersAgree
<1>14. QED
  BY <1>3, <1>8, <1>9, <1>10, <1>11, <1>12, <1>13 DEF IInv

\* Outside the pool, a quiet client has nobody at a chat.
LEMMA QuietFacts ==
  ASSUME IInv, Quiet, InLadder, UNCHANGED <<meter, cancelled>>
  PROVE  /\ ProviderTypeOK' /\ Pace' /\ dialled' = 0
         /\ \A c \in Callers : chat'[c] = Idle
<1>1. /\ ProviderTypeOK /\ Paced /\ Shape /\ Optimizer \in Callers
      /\ chat \in [Callers -> Chats] /\ phase # "evaluate"
  BY CallsAssumption
     DEF IInv, TypeOK, ProviderTypeOK, Requests, Paced, InLadder, Ladders
<1>2. /\ chat' = [chat EXCEPT ![Optimizer] = Idle]
      /\ elapsed' = 0 /\ dialled' = 0 /\ next' = next
  BY DEF Quiet
<1>3. \A c \in Callers : chat'[c] = Idle
  BY <1>1, <1>2 DEF Shape, Workers
<1>4. chat' \in [Callers -> Chats]
  BY <1>1, <1>2, IdleIsChat
<1>5. ProviderTypeOK'
  BY <1>1, <1>2, <1>4 DEF ProviderTypeOK
<1>6. Idle.pc # "slot"
  BY DEF Idle
<1>7. Pace'
  BY <1>1, <1>2, <1>3, <1>6, PaceQuiet
<1>8. QED
  BY <1>2, <1>3, <1>5, <1>7

\* The tokens of a chat are charged, or held until the synthesis is.
LEMMA AccountFacts ==
  ASSUME TypeOK, NEW n \in Nat, Account(n)
  PROVE  /\ budget' \in Budgets /\ pending' \in Nat
         /\ budget.usage["optimizer"] \in Nat /\ budget'.usage["optimizer"] \in Nat
         /\ budget'.usage["optimizer"] + pending'
              = budget.usage["optimizer"] + pending + n
         /\ ValveTripped => ValveTripped'
<1>1. budget \in Budgets /\ pending \in Nat /\ budget.usage["optimizer"] \in Nat
  BY DEF TypeOK, Budgets, Role
<1>2. CASE pending' = pending + n /\ budget' = budget
  BY <1>1, <1>2 DEF ValveTripped
<1>3. CASE budget' = RecordUsage(budget, "optimizer", n) /\ pending' = pending
  BY <1>1, <1>3, ChargeFacts
<1>4. QED
  BY <1>2, <1>3 DEF Account

\* An answer beyond the valve comes of an escalation.
LEMMA LateFacts ==
  ASSUME IInv, InLadder, late' = IF MayDial THEN late ELSE late + 1,
         ValveTripped => ValveTripped'
  PROVE  /\ late' \in Nat /\ late' <= call.attempt /\ late' < MaxOptAttempts
         /\ late' > 0 => ValveTripped' /\ phase = "optimise"
<1>1. /\ TypeOK /\ Late /\ late \in Nat /\ call.attempt \in 0 .. 2
      /\ phase \in Ladders
  BY DEF IInv, TypeOK, InLadder, MaxOptAttempts
<1>2. CASE phase = "synthesise"
  <2>1. late = 0 /\ late' = late
    BY <1>1, <1>2 DEF Late, MayDial
  <2>2. QED
    BY <1>1, <2>1 DEF MaxOptAttempts
<1>3. CASE phase = "optimise" /\ ~ ValveTripped
  <2>1. late = 0 /\ late' = late
    BY <1>1, <1>3 DEF Late, MayDial
  <2>2. QED
    BY <1>1, <2>1 DEF MaxOptAttempts
<1>4. CASE phase = "optimise" /\ ValveTripped
  <2>1. late' = late + 1 /\ late < call.attempt
    BY <1>1, <1>4 DEF Late, MayDial
  <2>2. QED
    BY <1>1, <1>4, <2>1 DEF MaxOptAttempts
<1>5. QED
  BY <1>1, <1>2, <1>3, <1>4 DEF Ladders

\* The call as one of its fields changes.
LEMMA CallFacts ==
  ASSUME TypeOK
  PROVE  /\ [call EXCEPT !.at = "parse"] \in
              [at : {"ready", "dialling", "parse"}, repair : BOOLEAN,
               attempt : 0 .. MaxOptAttempts - 1]
         /\ [call EXCEPT !.at = "parse"].at = "parse"
         /\ NoCall \in [at : {"ready", "dialling", "parse"}, repair : BOOLEAN,
                        attempt : 0 .. MaxOptAttempts - 1]
         /\ call.attempt \in 0 .. 2
         /\ call.attempt + 1 < MaxOptAttempts =>
              LET more == [call EXCEPT !.attempt = @ + 1]
              IN  /\ more \in [at : {"ready", "dialling", "parse"}, repair : BOOLEAN,
                               attempt : 0 .. MaxOptAttempts - 1]
                  /\ more.attempt = call.attempt + 1 /\ more.at = call.at
<1> DEFINE S == [at : {"ready", "dialling", "parse"}, repair : BOOLEAN,
                 attempt : 0 .. 2]
<1>1. call \in S /\ MaxOptAttempts = 3
  BY DEF TypeOK, MaxOptAttempts
<1>2. call.attempt \in 0 .. 2
  BY <1>1
<1>3. [call EXCEPT !.at = "parse"] \in S /\ [call EXCEPT !.at = "parse"].at = "parse"
  BY <1>1
<1>4. NoCall \in S
  BY DEF NoCall
<1> DEFINE n == call.attempt + 1
           more == [call EXCEPT !.attempt = n]
<1>5. ASSUME call.attempt + 1 < 3
      PROVE  more \in S /\ more.attempt = n /\ more.at = call.at
  <2>1. n \in 0 .. 2
    BY <1>2, <1>5
  <2> HIDE DEF n
  <2>2. QED
    BY <1>1, <2>1
<1>6. QED
  BY <1>1, <1>2, <1>3, <1>4, <1>5

\* A call that is over, however it went: what of the invariant is left to show.
Ended ==
  /\ Quiet /\ UNCHANGED <<meter, cancelled, valveFired>>
  /\ call' \in [at : {"ready", "dialling", "parse"}, repair : BOOLEAN,
                attempt : 0 .. MaxOptAttempts - 1]
  /\ phase' # "evaluate" /\ ~ InLadder'
  /\ phase' \in Ladders \cup Over
  /\ phase' = "synthesise" => phase = "synthesise"
  /\ stage' \in 1 .. SynthStages + MaxStages /\ StageBound'
  /\ budget' \in Budgets /\ pending' \in Nat /\ lost' \in Nat
  /\ budget'.usage["optimizer"] + pending' + lost'
       = budget.usage["optimizer"] + pending + lost + chat[Optimizer].cost
  /\ late' \in Nat /\ late' < MaxOptAttempts
  /\ late' > 0 => ValveTripped' /\ phase = "optimise"

\* What Ended and the learned caps say is enough.
LEMMA EndedKeeps ==
  ASSUME IInv, InLadder, Ended, learned' \in [Ladders -> Nat],
         worked' \in [Ladders -> SUBSET Nat], LearnedCapWorked'
  PROVE  IInv'
<1>1. /\ ProviderTypeOK' /\ Pace' /\ dialled' = 0
      /\ \A c \in Callers : chat'[c] = Idle
  BY QuietFacts DEF Ended
<1>2. /\ TypeOK /\ Shape /\ LedgersAgree /\ Optimizer \in Callers
  BY CallsAssumption DEF IInv
<1>3. TypeOK'
  BY <1>1, <1>2 DEF TypeOK, Ended
<1>4. Shape'
  BY <1>1, <1>2 DEF Shape, Workers, Idle, Ended
<1>5. Requests'
  BY <1>1, ProviderAssumption DEF Requests, Ended
<1>6. Late'
  BY DEF Late, Ended
<1>7. LedgersAgree'
  <2>1. chat'[Optimizer].cost = 0
    BY <1>1, <1>2 DEF Idle
  <2>2. meter' = meter
    BY DEF Ended
  <2>3. budget'.usage["optimizer"] \in Nat /\ pending' \in Nat /\ lost' \in Nat
    BY DEF Ended, Budgets, Role
  <2>4. budget'.usage["optimizer"] + pending' + lost'
          = budget.usage["optimizer"] + pending + lost + chat[Optimizer].cost
    BY DEF Ended
  <2>5. QED
    BY <1>2, <2>1, <2>2, <2>3, <2>4 DEF LedgersAgree
<1>8. QED
  BY <1>1, <1>3, <1>4, <1>5, <1>6, <1>7 DEF IInv, Ended

\* Whatever ends a ladder without a text costs its stage.
LEMMA NoTextShape ==
  ASSUME IInv, InLadder, StageFails
  PROVE  /\ call' \in [at : {"ready", "dialling", "parse"}, repair : BOOLEAN,
                       attempt : 0 .. MaxOptAttempts - 1]
         /\ phase' # "evaluate" /\ ~ InLadder' /\ phase' \in Ladders \cup Over
         /\ phase' # "synthesise"
         /\ stage' \in 1 .. SynthStages + MaxStages /\ StageBound'
<1>1. TypeOK /\ StageBound /\ phase \in Ladders
  BY DEF IInv, InLadder
<1>2. /\ phase' \in {"failed", "optimise", "done"}
      /\ phase = "synthesise" => phase' = "failed"
      /\ phase = "optimise" => call' = NoCall
      /\ stage' \in 1 .. SynthStages + MaxStages
      /\ phase' = "optimise" => stage' <= MaxStages
      /\ call' = call \/ call' = NoCall
  BY <1>1, StageFailsFacts
<1>3. ~ InLadder'
  <2>1. NoCall.at = "ready"
    BY DEF NoCall
  <2>2. QED
    BY <1>1, <1>2, <2>1 DEF InLadder, Ladders
<1>4. call' \in [at : {"ready", "dialling", "parse"}, repair : BOOLEAN,
                 attempt : 0 .. MaxOptAttempts - 1]
  BY <1>1, <1>2, CallFacts DEF TypeOK
<1>5. QED
  BY <1>2, <1>3, <1>4 DEF StageBound, Ladders, Over

\* A failed chat's tokens are lost to the ledgers, not to the account.
LEMMA FailsKeeps ==
  ASSUME IInv, CallFails
  PROVE  IInv'
<1>1. /\ InLadder /\ Quiet /\ StageFails /\ lost' = lost + chat[Optimizer].cost
      /\ learned' = learned /\ worked' = worked /\ meter' = meter
      /\ cancelled' = cancelled /\ pending' = pending /\ budget' = budget
      /\ valveFired' = valveFired /\ late' = late
  BY DEF CallFails, Calling, InLadder, NoText
<1>2. /\ TypeOK /\ Late /\ LearnedCapWorked /\ phase \in Ladders
  BY <1>1 DEF IInv, InLadder
<1>3. /\ chat[Optimizer].cost \in Nat /\ lost \in Nat /\ pending \in Nat
      /\ budget.usage["optimizer"] \in Nat
  BY <1>2, CallsAssumption DEF TypeOK, ProviderTypeOK, Chats, Budgets, Role
<1>4. /\ late' \in Nat /\ late' < MaxOptAttempts
      /\ late' > 0 => ValveTripped' /\ phase = "optimise"
  BY <1>1, <1>2 DEF Late, ValveTripped, TypeOK, Ladders
<1>5. Ended
  BY <1>1, <1>2, <1>3, <1>4, NoTextShape DEF Ended, TypeOK
<1>6. LearnedCapWorked'
  BY <1>1, <1>2 DEF LearnedCapWorked
<1>7. QED
  BY <1>1, <1>2, <1>5, <1>6, EndedKeeps DEF TypeOK

\* A cap that got a text is the one remembered, and no smaller than before.
LEMMA TextLearns ==
  ASSUME IInv, InLadder, Text
  PROVE  /\ learned' \in [Ladders -> Nat] /\ worked' \in [Ladders -> SUBSET Nat]
         /\ LearnedCapWorked'
<1>1. /\ learned \in [Ladders -> Nat] /\ worked \in [Ladders -> SUBSET Nat]
      /\ LearnedCapWorked /\ phase \in Ladders /\ call.attempt \in Nat
  BY DEF IInv, TypeOK, InLadder, MaxOptAttempts
<1>2. /\ learned' = IF call.attempt > 0 THEN [learned EXCEPT ![phase] = Cap] ELSE learned
      /\ worked' = [worked EXCEPT ![phase] = @ \cup {Cap}]
  BY DEF Text, Learnt
<1>3. Cap = learned[phase] + call.attempt /\ learned[phase] \in Nat /\ Cap \in Nat
  BY <1>1 DEF Cap
<1>4. learned' \in [Ladders -> Nat] /\ learned'[phase] = Cap
      /\ \A l \in Ladders \ {phase} : learned'[l] = learned[l]
  BY <1>1, <1>2, <1>3
<1>5. worked' \in [Ladders -> SUBSET Nat] /\ worked'[phase] = worked[phase] \cup {Cap}
      /\ \A l \in Ladders \ {phase} : worked'[l] = worked[l]
  BY <1>1, <1>2, <1>3
<1>6. ASSUME NEW l \in Ladders
      PROVE  \A n \in worked'[l] \cup {0} : /\ n <= learned'[l]
                                            /\ learned'[l] \in worked'[l] \cup {0}
  <2>1. CASE l = phase
    <3>1. \A n \in worked[phase] \cup {0} : n <= learned[phase] /\ n \in Nat
      BY <1>1 DEF LearnedCapWorked
    <3>2. QED
      BY <1>1, <1>3, <1>4, <1>5, <2>1, <3>1
  <2>2. CASE l # phase
    BY <1>1, <1>4, <1>5, <2>2 DEF LearnedCapWorked
  <2>3. QED
    BY <2>1, <2>2
<1>7. LearnedCapWorked'
  BY <1>6 DEF LearnedCapWorked
<1>8. QED
  BY <1>4, <1>5, <1>7

\* A chat of the ladder returns: a text, an escalation or the end of it.
LEMMA ReadKeeps ==
  ASSUME IInv, ReadAnswer
  PROVE  IInv'
<1> DEFINE cost == chat[Optimizer].cost
<1>1. /\ InLadder /\ chat[Optimizer].pc = "answered" /\ Account(cost)
      /\ late' = IF MayDial THEN late ELSE late + 1
      /\ meter' = meter /\ cancelled' = cancelled /\ valveFired' = valveFired
      /\ lost' = lost
      /\ Text \/ (Escalates /\ Escalate) \/ NoText
  BY DEF ReadAnswer, Calling, InLadder, Is, Spent
<1>2. /\ TypeOK /\ ProviderTypeOK /\ Shape /\ StageBound /\ Requests /\ LedgersAgree
      /\ LearnedCapWorked /\ Paced /\ Optimizer \in Callers /\ phase \in Ladders
      /\ "optimizer" \in Role
  BY <1>1, CallsAssumption DEF IInv, TypeOK, InLadder, Requests, Paced, Role
<1>3. cost \in Nat /\ lost \in Nat /\ pending \in Nat
  BY <1>2 DEF TypeOK, ProviderTypeOK, Chats
<1>4. /\ budget' \in Budgets /\ pending' \in Nat
      /\ budget.usage["optimizer"] \in Nat /\ budget'.usage["optimizer"] \in Nat
      /\ budget'.usage["optimizer"] + pending'
           = budget.usage["optimizer"] + pending + cost
      /\ ValveTripped => ValveTripped'
  BY <1>1, <1>2, <1>3, AccountFacts
<1>5. /\ late' \in Nat /\ late' <= call.attempt /\ late' < MaxOptAttempts
      /\ late' > 0 => ValveTripped' /\ phase = "optimise"
  BY <1>1, <1>4, LateFacts
<1>6. budget'.usage["optimizer"] + pending' + lost'
        = budget.usage["optimizer"] + pending + lost + cost
  BY <1>1, <1>3, <1>4
<1>7. CASE Text
  <2>1. /\ Quiet /\ phase' = phase /\ stage' = stage
        /\ call' = [call EXCEPT !.at = "parse"]
    BY <1>7 DEF Text
  <2>2. /\ call' \in [at : {"ready", "dialling", "parse"}, repair : BOOLEAN,
                      attempt : 0 .. MaxOptAttempts - 1]
        /\ call'.at = "parse"
    BY <1>2, <2>1, CallFacts
  <2>3. ~ InLadder' /\ StageBound' /\ phase' # "evaluate"
    BY <1>2, <2>1, <2>2 DEF InLadder, StageBound, Ladders
  <2>4. Ended
    BY <1>1, <1>2, <1>3, <1>4, <1>5, <1>6, <2>1, <2>2, <2>3 DEF Ended, TypeOK
  <2>5. QED
    BY <1>1, <1>7, <2>4, EndedKeeps, TextLearns
<1>8. CASE NoText
  <2>1. /\ Quiet /\ StageFails /\ learned' = learned /\ worked' = worked
    BY <1>8 DEF NoText
  <2>2. Ended
    BY <1>1, <1>2, <1>3, <1>4, <1>5, <1>6, <2>1, NoTextShape DEF Ended
  <2>3. LearnedCapWorked'
    BY <1>2, <2>1 DEF LearnedCapWorked
  <2>4. QED
    BY <1>1, <1>2, <2>1, <2>2, <2>3, EndedKeeps DEF TypeOK
<1>9. CASE Escalates /\ Escalate
  <2>1. /\ Attempt(Optimizer, "optimizer", 1) /\ call.attempt + 1 < MaxOptAttempts
        /\ call' = [call EXCEPT !.attempt = @ + 1]
        /\ elapsed' = elapsed /\ phase' = phase /\ stage' = stage
        /\ learned' = learned /\ worked' = worked
    BY <1>9 DEF Escalates, Escalate
  <2>2. /\ call' \in [at : {"ready", "dialling", "parse"}, repair : BOOLEAN,
                      attempt : 0 .. MaxOptAttempts - 1]
        /\ call'.attempt = call.attempt + 1 /\ call'.at = call.at
        /\ call.attempt \in 0 .. 2
    BY <1>2, <2>1, CallFacts
  <2>3. InLadder' /\ phase # "evaluate"
    BY <1>1, <1>2, <2>1, <2>2 DEF InLadder, Ladders
  <2>4. PICK s : /\ Moves(Optimizer, s) /\ s.role = "optimizer" /\ s.tries = 1
                 /\ s.cost = 0 /\ s.pc \in {"slot", "wire", "answered"}
                 /\ dialled' + OneIf(s.pc = "slot") <= dialled + 1
                 /\ next' \in Nat /\ dialled' \in Nat /\ dialled' <= MaxCount /\ Pace'
    BY <1>1, <1>2, <2>1, FirstAttempt
  <2>5. chat \in [Callers -> Chats] /\ dialled \in Nat
    BY <1>2 DEF ProviderTypeOK
  <2>6. chat' \in [Callers -> Chats] /\ chat'[Optimizer] = s
    BY <1>2, <2>4, <2>5, Moved
  <2>7. ProviderTypeOK'
    BY <1>1, <1>2, <2>1, <2>4, <2>6 DEF ProviderTypeOK
  <2>8. TypeOK'
    BY <1>1, <1>2, <1>4, <1>5, <2>1, <2>2, <2>7 DEF TypeOK
  <2>9. Shape'
    BY <1>1, <1>2, <2>1, <2>3, <2>4, <2>5, BegunShape
  <2>10. StageBound' /\ LearnedCapWorked'
    BY <1>2, <2>1 DEF StageBound, LearnedCapWorked
  <2>11. Late'
    BY <1>2, <1>5, <2>1, <2>2 DEF Late, Ladders
  <2>12. LedgersAgree'
    BY <1>1, <1>2, <1>3, <1>4, <1>6, <2>4, <2>6 DEF LedgersAgree
  <2>13. Requests'
    <3> DEFINE n == call.attempt * MaxAttempts
               n2 == call'.attempt * MaxAttempts
               m == dialled' + OneIf(s.pc = "slot")
    <3>1. MaxAttempts \in Nat
      BY ProviderAssumption
    <3>2. n \in Nat /\ n2 = n + MaxAttempts
      BY <2>2, <3>1, Intervals
    <3>3. dialled <= n + chat[Optimizer].tries
      BY <1>1, <1>2, <2>5 DEF Requests
    <3>4. chat[Optimizer].tries \in Nat /\ chat[Optimizer].tries <= MaxAttempts
      BY <1>2, <2>5, <3>1 DEF Chats
    <3>5. m \in Nat
      <4>1. OneIf(s.pc = "slot") \in Nat
        BY DEF OneIf
      <4>2. QED
        BY <2>4, <4>1
    <3>6. m <= dialled + 1 /\ s.tries = 1
      BY <2>4
    <3> HIDE DEF n, n2, m
    <3>7. m <= n2 + s.tries
      BY <2>5, <3>1, <3>2, <3>3, <3>4, <3>5, <3>6
    <3>8. dialled' + OneIf(s.pc = "slot") <= call'.attempt * MaxAttempts + s.tries
      BY <3>7 DEF n2, m
    <3>9. QED
      BY <2>3, <2>4, <2>6, <3>8 DEF Requests, OneIf
  <2>14. QED
    BY <2>4, <2>8, <2>9, <2>10, <2>11, <2>12, <2>13 DEF IInv
<1>10. QED
  BY <1>1, <1>7, <1>8, <1>9

-----------------------------------------------------------------------------
(* The theorems. *)

\* A run begins with nothing sent, nothing spent and nothing learned.
LEMMA Initially ==
  ASSUME Init
  PROVE  IInv
<1>1. /\ chat = [c \in Callers |-> Idle] /\ next = 0 /\ meter = [r \in Role |-> 0]
      /\ cancelled = FALSE /\ elapsed = 0 /\ dialled = 0
      /\ phase = "synthesise" /\ stage = 1 /\ call = NoCall
      /\ learned = [l \in Ladders |-> 0] /\ pending = 0 /\ budget = NewBudget
      /\ valveFired = FALSE /\ lost = 0 /\ worked = [l \in Ladders |-> {}] /\ late = 0
  BY DEF Init, ProviderInit
<1>2. /\ Optimizer \in Callers /\ MaxStages \in Nat \ {0} /\ MaxAttempts \in Nat \ {0}
      /\ MaxCount \in Nat /\ Interval \in Nat /\ OptLimit \in Nat
  BY ProviderAssumption, CallsAssumption
<1>3. NewBudget \in Budgets /\ NewBudget.usage["optimizer"] = 0
  BY DEF NewBudget, Budgets, Role
<1>4. /\ NoCall \in [at : {"ready", "dialling", "parse"}, repair : BOOLEAN,
                     attempt : 0 .. MaxOptAttempts - 1]
      /\ NoCall.at = "ready"
  BY DEF NoCall, MaxOptAttempts
<1>5. ~ InLadder
  BY <1>1, <1>4 DEF InLadder
<1>6. TypeOK
  <2>1. chat \in [Callers -> Chats]
    BY <1>1, IdleIsChat
  <2>2. ProviderTypeOK
    BY <1>1, <2>1 DEF ProviderTypeOK
  <2>3. 1 \in 1 .. SynthStages + MaxStages
    BY <1>2 DEF SynthStages
  <2>4. QED
    BY <1>1, <1>3, <1>4, <2>2, <2>3 DEF TypeOK, Ladders
<1>7. Pace
  <2>1. Slots(chat) = {} /\ \A t \in Nat : Due(chat, t) = {}
    BY <1>1 DEF Slots, Due, Idle
  <2>2. Cardinality({}) = 0 /\ Interval * (0 + 0) = 0
    BY <1>2, FS_EmptySet
  <2>3. QED
    BY <1>1, <1>2, <2>1, <2>2 DEF Pace
<1>8. Shape
  BY <1>1, <1>2, <1>5 DEF Shape, Workers, Idle
<1>9. StageBound /\ Requests
  BY <1>1, <1>2, <1>5 DEF StageBound, SynthStages, Requests
<1>10. Late
  BY <1>1, <1>5 DEF Late, MaxOptAttempts
<1>11. LedgersAgree
  BY <1>1, <1>2, <1>3 DEF LedgersAgree, Idle, Role
<1>12. LearnedCapWorked
  BY <1>1 DEF LearnedCapWorked
<1>13. QED
  BY <1>6, <1>7, <1>8, <1>9, <1>10, <1>11, <1>12 DEF IInv

\* One step of every action.
LEMMA Inductive ==
  ASSUME IInv, [Next]_vars
  PROVE  IInv'
<1>1. CASE Driver
  <2>1. CASE Between
    BY <2>1, BetweenKeeps
  <2>2. CASE StartCall
    BY <2>2, StartKeeps
  <2>3. CASE ReadAnswer
    BY <2>3, ReadKeeps
  <2>4. CASE CallFails
    BY <2>4, FailsKeeps
  <2>5. CASE PoolDone
    BY <2>5, PoolDoneKeeps
  <2>6. QED
    BY <1>1, <2>1, <2>2, <2>3, <2>4, <2>5 DEF Driver, Between
<1>2. CASE \E w \in Workers : WorkerChat(w)
  BY <1>2, WorkerKeeps
<1>3. CASE \E c \in Callers : Client(c)
  BY <1>3, ClientKeeps
<1>4. CASE Clock
  BY <1>4, ClockKeeps
<1>5. CASE Cancel \/ Returned \/ UNCHANGED vars
  BY <1>5, CancelKeeps DEF Returned
<1>6. QED
  BY <1>1, <1>2, <1>3, <1>4, <1>5 DEF Next

\* The invariant of every run.
LEMMA Invariant == Spec => []IInv
BY Initially, Inductive, PTL DEF Spec

\* What the callers, the limiter, the meter, the call and the ledgers hold
\* stays what the code declares it to be.
THEOREM TypeCorrect == Spec => []TypeOK
<1>1. IInv => TypeOK
  BY DEF IInv
<1>2. QED
  BY <1>1, Invariant, PTL

\* rateLimiter.Wait reserves its slots in order under the lock: whatever
\* retries, escalations, cancellations and late wake-ups mix, no window since
\* the client was quiet holds more requests than one and one per interval.
THEOREM RateHeldHolds == Spec => []RateHeld
<1>1. IInv => RateHeld
  BY PaceHoldsRate DEF IInv, TypeOK, Requests, Paced
<1>2. QED
  BY <1>1, Invariant, PTL

\* No token metered for the optimiser is forgotten or charged twice, the valve
\* ends within one ladder, a ladder's requests are bounded by its escalations
\* times the client's attempts, and a remembered cap is one that worked.
THEOREM CallsAccountedHolds == Spec => []CallsAccounted
<1>1. IInv => ValveClosesWithinACall
  BY DEF IInv, Late, ValveClosesWithinACall
<1>2. IInv => RequestsBounded
  <2>1. SUFFICES ASSUME IInv, call.at = "dialling"
                 PROVE  dialled <= MaxOptAttempts * MaxAttempts
    BY DEF RequestsBounded
  <2>2. /\ TypeOK /\ Requests /\ Shape /\ dialled \in Nat /\ Optimizer \in Callers
        /\ MaxAttempts \in Nat /\ call.attempt \in 0 .. 2
    <3>1. IInv
      BY <2>1
    <3>2. /\ TypeOK /\ Requests /\ Shape /\ ProviderTypeOK
      BY <3>1 DEF IInv, TypeOK
    <3>3. MaxAttempts \in Nat /\ Optimizer \in Callers
      BY ProviderAssumption, CallsAssumption
    <3>4. call.attempt \in 0 .. 2
      BY <3>2 DEF TypeOK, MaxOptAttempts
    <3>5. QED
      BY <3>2, <3>3, <3>4 DEF ProviderTypeOK
  <2>3. phase # "evaluate"
    BY <2>1, <2>2 DEF Shape, NoCall
  <2>4. CASE InLadder
    <3>1. chat[Optimizer].tries \in Nat /\ chat[Optimizer].tries <= MaxAttempts
      BY <2>2 DEF TypeOK, ProviderTypeOK, Chats
    <3>2. /\ dialled <= call.attempt * MaxAttempts + chat[Optimizer].tries
          /\ call.attempt * MaxAttempts \in Nat
      <4>1. call.attempt * MaxAttempts \in Nat
        BY <2>2
      <4>2. dialled + OneIf(chat[Optimizer].pc = "slot")
              <= call.attempt * MaxAttempts + chat[Optimizer].tries
        BY <2>2, <2>4 DEF Requests, OneIf
      <4>3. dialled <= dialled + OneIf(chat[Optimizer].pc = "slot")
        BY <2>2 DEF OneIf
      <4> DEFINE n == call.attempt * MaxAttempts
                 m == dialled + OneIf(chat[Optimizer].pc = "slot")
      <4>4. m \in Nat /\ m <= n + chat[Optimizer].tries /\ dialled <= m /\ n \in Nat
        BY <2>2, <4>1, <4>2, <4>3 DEF OneIf
      <4> HIDE DEF n, m
      <4>5. dialled <= n + chat[Optimizer].tries
        BY <2>2, <3>1, <4>4
      <4>6. QED
        BY <4>1, <4>5 DEF n
    <3>3. call.attempt * MaxAttempts <= 2 * MaxAttempts
      <4>1. CASE call.attempt = 0
        BY <2>2, <4>1
      <4>2. CASE call.attempt = 1
        BY <2>2, <4>2
      <4>3. CASE call.attempt = 2
        BY <2>2, <4>3
      <4>4. QED
        BY <2>2, <4>1, <4>2, <4>3
    <3> DEFINE n == call.attempt * MaxAttempts
    <3>4. /\ dialled <= n + chat[Optimizer].tries /\ n \in Nat
          /\ n <= 2 * MaxAttempts
      BY <3>2, <3>3
    <3> HIDE DEF n
    <3>5. dialled <= 3 * MaxAttempts
      BY <2>2, <3>1, <3>4
    <3>6. QED
      BY <3>5 DEF MaxOptAttempts
  <2>5. CASE ~ InLadder
    BY <2>2, <2>3, <2>5 DEF Requests, MaxOptAttempts
  <2>6. QED
    BY <2>4, <2>5
<1>3. IInv => CallsAccounted
  BY <1>1, <1>2 DEF IInv, CallsAccounted, CallsBounded
<1>4. QED
  BY <1>3, Invariant, PTL

=============================================================================
