------------------------------- MODULE Provider -------------------------------
(***************************************************************************)
(* A model client (internal/provider): the rate limiter, the retry policy, *)
(* the two wire formats and the meter, for callers that share one client.  *)
(*                                                                         *)
(* Time is relative: a pending timer is the number of ticks it still has   *)
(* to run, the limiter's next token the number of ticks until it is        *)
(* granted.  A timer that has run out may be noticed late: nothing forces  *)
(* a goroutine to run at that very tick.  The gateway (external) answers   *)
(* what it likes when it likes, or not at all until the deadline.          *)
(***************************************************************************)
EXTENDS Budget, FiniteSets

CONSTANTS Callers,         \* goroutines that share the client
          Backend,         \* "openai" or "anthropic"
          MaxAttempts,     \* attempts of a chat, the first included
          Interval,        \* ticks between two tokens; 0 means no limiter
          Backoff,         \* backoff base, in ticks
          MaxRetryAfter,   \* maxRetryAfter
          RetryAfters,     \* Retry-After of a refusal; 0 means no header
          TokenCosts,      \* tokens an answer may cost
          MaxCount         \* a window's counters stop here (bound)

ASSUME ProviderAssumption ==
  /\ IsFiniteSet(Callers)
  /\ Backend \in {"openai", "anthropic"}
  /\ MaxAttempts \in Nat \ {0}
  /\ Interval \in Nat /\ Backoff \in Nat /\ MaxRetryAfter \in Nat
  /\ RetryAfters \subseteq Nat /\ TokenCosts \subseteq Nat
  /\ MaxCount \in Nat

VARIABLES
  chat,        \* what each caller's Chat is at
  next,        \* rateLimiter.next
  meter,       \* Meter.byRole
  cancelled,   \* ctx.Err() # nil
  (* history, read by the properties only *)
  elapsed,     \* ticks since the window began
  dialled      \* requests sent since the window began

clientVars == <<chat, next, meter, elapsed, dialled>>

Answers == {"none", "content", "burn", "empty", "error"}
Chats == [pc : {"idle", "slot", "wire", "backoff", "answered"},
          role : Role, tries : 0 .. MaxAttempts, wait : Nat,
          answer : Answers, cost : Nat]

Idle == [pc |-> "idle", role |-> "optimizer", tries |-> 0, wait |-> 0,
         answer |-> "none", cost |-> 0]

ProviderTypeOK ==
  /\ chat \in [Callers -> Chats]
  /\ next \in Nat
  /\ meter \in [Role -> Nat]
  /\ cancelled \in BOOLEAN
  /\ elapsed \in Nat /\ dialled \in Nat

ProviderInit ==
  /\ chat = [c \in Callers |-> Idle]
  /\ next = 0
  /\ meter = [r \in Role |-> 0]
  /\ cancelled = FALSE
  /\ elapsed = 0 /\ dialled = 0

-----------------------------------------------------------------------------
(* What a step does to one caller's chat. *)

Is(c, pc) == chat[c].pc = pc
Dialled == dialled' = IF dialled < MaxCount THEN dialled + 1 ELSE dialled
Goes(c, pc, wait) == chat' = [chat EXCEPT ![c].pc = pc, ![c].wait = wait]

Returns(c, answer, cost) ==
  chat' = [chat EXCEPT ![c] = [@ EXCEPT !.pc = "answered", !.wait = 0,
                                        !.answer = answer, !.cost = cost]]

Fails(c) == Returns(c, "error", 0)

\* http.Client.Do: a context that is done keeps the request back.
Send(c) ==
  IF cancelled THEN Fails(c) /\ UNCHANGED dialled
               ELSE Goes(c, "wire", 0) /\ Dialled

\* rateLimiter.Wait: the slot is reserved under the lock, and lapses if its
\* caller gives up.
FromNow == Interval                               \* slip: slots do not queue up
AfterSlot == next + Interval

Reserve ==
  IF Interval = 0 THEN UNCHANGED next ELSE next' = AfterSlot

\* The head of an attempt, retries included.
Attempt(c, role, i) ==
  LET begun == [chat[c] EXCEPT !.role = role, !.tries = i, !.answer = "none",
                               !.cost = 0]
      At(pc, wait) == [begun EXCEPT !.pc = pc, !.wait = wait]
  IN  /\ Reserve
      /\ \/ /\ next > 0
            /\ chat' = [chat EXCEPT ![c] = At("slot", next)]
            /\ UNCHANGED dialled
         \/ /\ next = 0 /\ ~ cancelled
            /\ chat' = [chat EXCEPT ![c] = At("wire", 0)]
            /\ Dialled
         \/ /\ next = 0 /\ cancelled
            /\ chat' = [chat EXCEPT ![c] =
                          [At("answered", 0) EXCEPT !.answer = "error"]]
            /\ UNCHANGED dialled

Chat(c, role) ==
  /\ Is(c, "idle")
  /\ Attempt(c, role, 1)
  /\ UNCHANGED <<meter, elapsed>>

\* The select of Wait: with the timer and the context both ready, either.
Granted(c) ==
  /\ Is(c, "slot") /\ chat[c].wait = 0
  /\ Send(c)
  /\ UNCHANGED <<next, meter, elapsed>>

GivesUp(c) ==
  /\ chat[c].pc \in {"slot", "backoff"} /\ cancelled
  /\ Fails(c)
  /\ UNCHANGED <<next, meter, elapsed, dialled>>

\* retryDelay of a refusal that another attempt may mend.
UncappedDelay(i, told) ==                         \* slip: the header as it is
  IF told > 0 THEN told ELSE Backoff * 2 ^ (i - 1)

RetryDelay(i, told) ==
  IF told > 0 THEN IF told < MaxRetryAfter THEN told ELSE MaxRetryAfter
  ELSE Backoff * 2 ^ (IF i - 1 < 16 THEN i - 1 ELSE 16)

\* 429, 5xx and transport errors other than the attempt's own deadline.
OneMore(i) == i <= MaxAttempts                    \* slip: off by one
MayRetry(i) == i < MaxAttempts
SameTry(i) == i                                   \* slip: never counted
NextTry(i) == i + 1

Refused(c) ==
  /\ Is(c, "wire")
  /\ \E told \in RetryAfters :
       IF MayRetry(chat[c].tries) /\ ~ cancelled
       THEN Goes(c, "backoff", RetryDelay(chat[c].tries, told))
       ELSE Fails(c)
  /\ UNCHANGED <<next, meter, elapsed, dialled>>

\* Any other status, the attempt's deadline, an answer that does not decode
\* or holds no choice; the request aborted with its context.
Rejected(c) ==
  /\ Is(c, "wire")
  /\ Fails(c)
  /\ UNCHANGED <<next, meter, elapsed, dialled>>

\* What the client makes of an answer: text, or nothing but reasoning that ate
\* the completion cap, or nothing at all.  The OpenAI format has a content
\* that may be empty; the Messages format needs a text block.
Distilled(raw) ==
  CASE raw = "text" -> "content"
    [] raw = "thinking" -> IF Backend = "openai" THEN "burn" ELSE "error"
    [] raw = "blank" -> "empty"

Recorded(role, answer, cost) ==
  IF answer = "error" THEN meter ELSE [meter EXCEPT ![role] = @ + cost]

Answered(c, raw, cost) ==
  /\ Is(c, "wire")
  /\ LET answer == Distilled(raw)
         paid == IF answer = "error" THEN 0 ELSE cost
     IN  /\ Returns(c, answer, paid)
         /\ meter' = Recorded(chat[c].role, answer, cost)
  /\ UNCHANGED <<next, elapsed, dialled>>

BackedOff(c) ==
  /\ Is(c, "backoff") /\ chat[c].wait = 0
  /\ Attempt(c, chat[c].role, NextTry(chat[c].tries))
  /\ UNCHANGED <<meter, elapsed>>

ClientStep(c) ==
  \/ Granted(c) \/ GivesUp(c) \/ BackedOff(c)
  \/ Refused(c) \/ Rejected(c)
  \/ \E raw \in {"text", "thinking", "blank"}, cost \in TokenCosts :
       Answered(c, raw, cost)

\* Time passes while a timer is pending.
Less(n) == IF n > 0 THEN n - 1 ELSE 0

Tick ==
  /\ next > 0 \/ \E c \in Callers : chat[c].wait > 0
  /\ chat' = [c \in Callers |-> [chat[c] EXCEPT !.wait = Less(@)]]
  /\ next' = Less(next)
  /\ elapsed' = IF elapsed < Interval * MaxCount THEN elapsed + 1 ELSE elapsed
  /\ UNCHANGED <<meter, cancelled, dialled>>

-----------------------------------------------------------------------------
(* Properties. *)

\* However callers, retries and late wake-ups interleave, a gateway never
\* sees more requests than the configured rate allows since the client was
\* quiet: one, and one more for every interval.
RateHeld == Interval > 0 => Interval * dialled <= Interval + elapsed

=============================================================================
