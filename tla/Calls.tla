-------------------------------- MODULE Calls ---------------------------------
(***************************************************************************)
(* The model calls of one run over one client: the three synthesis stages  *)
(* (harness/synthesize.go), the executor's pool (one chat each), and the   *)
(* optimiser's stages (engine/calls.go, reflector.go, candidate.go).       *)
(*                                                                         *)
(* A stage is a call, and a repair call when the answer does not parse or  *)
(* does not pass its check.  A call is a ladder of chats: while reasoning  *)
(* eats the whole completion cap, the cap doubles.  Synthesizer and        *)
(* Advisor have a ladder each; only the Advisor's is behind the valve.     *)
(*                                                                         *)
(* A cap is the number of doublings above the configured floor.  Prompts   *)
(* and answers are left out, but for whether an answer is usable.          *)
(***************************************************************************)
EXTENDS Provider

CONSTANTS Optimizer,   \* the goroutine that drives the run, one of Callers
          OptLimit,    \* OptBudgetTokens; 0 means no valve
          MaxStages    \* optimiser stages of a run, at most (bound)

ASSUME CallsAssumption ==
  /\ Optimizer \in Callers
  /\ OptLimit \in Nat
  /\ MaxStages \in Nat \ {0}

VARIABLES
  phase,       \* what the run is at
  stage,       \* the stage of that phase
  call,        \* the call of that stage
  learned,     \* Synthesizer.floor and Advisor.floor
  pending,     \* Synthesizer.usage, until it is recorded
  budget,      \* the run's Budget
  valveFired,  \* Advisor.valveFired
  (* history, read by the properties only *)
  lost,        \* tokens of answers whose trace could not be written
  worked,      \* caps at which a client got its text
  late         \* answers paid for beyond the valve

runVars == <<phase, stage, call, learned, pending, budget, valveFired>>
historyVars == <<lost, worked, late>>
vars == <<clientVars, cancelled, runVars, historyVars>>

Ladders == {"synthesise", "optimise"}
Over == {"done", "stopped", "aborted", "failed"}
SynthStages == 3                \* spec, samples, probes
MaxOptAttempts == 3             \* maxOptAttempts, maxSynthAttempts
NoCall == [at |-> "ready", repair |-> FALSE, attempt |-> 0]

TypeOK ==
  /\ ProviderTypeOK
  /\ phase \in Ladders \cup {"evaluate"} \cup Over
  /\ stage \in 1 .. SynthStages + MaxStages
  /\ call \in [at : {"ready", "dialling", "parse"}, repair : BOOLEAN,
               attempt : 0 .. MaxOptAttempts - 1]
  /\ learned \in [Ladders -> Nat]
  /\ pending \in Nat
  /\ budget \in Budgets
  /\ valveFired \in BOOLEAN
  /\ lost \in Nat
  /\ worked \in [Ladders -> SUBSET Nat]
  /\ late \in Nat

Init ==
  /\ ProviderInit
  /\ phase = "synthesise" /\ stage = 1 /\ call = NoCall
  /\ learned = [l \in Ladders |-> 0]
  /\ pending = 0 /\ budget = NewBudget
  /\ valveFired = FALSE
  /\ lost = 0 /\ worked = [l \in Ladders |-> {}] /\ late = 0

Workers == Callers \ {Optimizer}
ValveTripped == OptLimit > 0 /\ budget.usage["optimizer"] >= OptLimit
MayDial == phase = "optimise" => ~ ValveTripped
Cap == learned[phase] + call.attempt

-----------------------------------------------------------------------------
(* The end of a stage. *)

NextStage(ladder) ==
  /\ call' = NoCall
  /\ stage' = stage + 1
  /\ phase' = IF ladder = "optimise" /\ stage = MaxStages THEN "done" ELSE phase

\* A failed synthesis fails the run; a failed optimiser stage costs its round.
StageFails ==
  IF phase = "synthesise" THEN phase' = "failed" /\ UNCHANGED <<stage, call>>
                          ELSE NextStage("optimise")

\* The synthesis is charged as a whole, once its artifacts are saved.
Uncharged == budget                               \* slip: never recorded
Charged == RecordUsage(budget, "optimizer", pending)

Synthesised ==
  /\ phase' = "evaluate" /\ stage' = 1 /\ call' = NoCall
  /\ budget' = Charged /\ pending' = 0

-----------------------------------------------------------------------------
(* A call. *)

FirstCallOnly == call.repair \/ MayDial           \* slip: repair is not gated
Admitted == MayDial

Calling(at) == phase \in Ladders /\ call.at = at

\* Advisor.Call, Synthesizer.call: the first chat of the ladder.
StartCall ==
  /\ Calling("ready") /\ Admitted
  /\ Chat(Optimizer, "optimizer")
  /\ call' = [call EXCEPT !.at = "dialling"]
  /\ UNCHANGED <<cancelled, phase, stage, learned, pending, budget, valveFired,
                 historyVars>>

\* The valve refuses: ErrOptBudget, also out of a repair, ends the run.
RefuseCall ==
  /\ Calling("ready") /\ ~ Admitted
  /\ phase' = "stopped" /\ valveFired' = TRUE
  /\ UNCHANGED <<clientVars, cancelled, stage, call, learned, pending, budget,
                 historyVars>>

\* The directory of the traces, or an artifact, cannot be written.
CannotWrite ==
  /\ \/ Calling("ready") /\ Admitted
     \/ Calling("parse") /\ phase = "synthesise" /\ stage = SynthStages
  /\ StageFails
  /\ UNCHANGED <<clientVars, cancelled, learned, pending, budget, valveFired,
                 historyVars>>

\* chat(): the tokens count also when the content is empty.
OnlyContent(answer, cost) ==                      \* slip: empty is free
  IF answer = "content" THEN cost ELSE 0
Spent(answer, cost) == cost

Account(spent) ==
  IF phase = "synthesise"
  THEN pending' = pending + spent /\ UNCHANGED budget
  ELSE budget' = RecordUsage(budget, "optimizer", spent) /\ UNCHANGED pending

\* The cap that worked is remembered when it took an escalation to find it.
OneDoubling == [learned EXCEPT ![phase] = @ + 1]  \* slip: not the cap itself
Learnt == IF call.attempt > 0 THEN [learned EXCEPT ![phase] = Cap]
                              ELSE learned

Escalates == call.attempt + 1 < MaxOptAttempts

\* The client is quiet again: a new window for the rate.
Quiet ==
  /\ chat' = [chat EXCEPT ![Optimizer] = Idle]
  /\ elapsed' = 0 /\ dialled' = 0
  /\ UNCHANGED next

Text ==
  /\ Quiet
  /\ learned' = Learnt
  /\ worked' = [worked EXCEPT ![phase] = @ \cup {Cap}]
  /\ call' = [call EXCEPT !.at = "parse"]
  /\ UNCHANGED <<phase, stage>>

Escalate ==
  /\ Attempt(Optimizer, "optimizer", 1)
  /\ call' = [call EXCEPT !.attempt = @ + 1]
  /\ UNCHANGED <<elapsed, phase, stage, learned, worked>>

NoText == Quiet /\ StageFails /\ UNCHANGED <<learned, worked>>

\* One chat of the ladder has returned.
ReadAnswer ==
  LET answer == chat[Optimizer].answer
      cost == chat[Optimizer].cost
  IN  /\ Calling("dialling") /\ Is(Optimizer, "answered")
      /\ \/ /\ answer = "content" /\ Text
         \/ /\ answer = "burn" /\ Escalates /\ Escalate
         \/ /\ answer = "empty" \/ (answer = "burn" /\ ~ Escalates)
            /\ NoText
      /\ Account(Spent(answer, cost))
      /\ late' = IF MayDial THEN late ELSE late + 1
      /\ UNCHANGED <<meter, cancelled, valveFired, lost>>

\* The chat failed, or its trace could not be written: then its tokens are
\* in the client's meter only.
CallFails ==
  /\ Calling("dialling") /\ Is(Optimizer, "answered")
  /\ lost' = lost + chat[Optimizer].cost
  /\ NoText
  /\ UNCHANGED <<meter, cancelled, pending, budget, valveFired, late>>

\* Defend, defendWithRepair: one repair call, unless the text is blank.
Parsed ==
  /\ Calling("parse")
  /\ IF phase = "synthesise" /\ stage = SynthStages THEN Synthesised
     ELSE NextStage(phase) /\ UNCHANGED <<budget, pending>>
  /\ UNCHANGED <<clientVars, cancelled, learned, valveFired, historyVars>>

Repair ==
  /\ Calling("parse") /\ ~ call.repair
  /\ call' = [NoCall EXCEPT !.repair = TRUE]
  /\ UNCHANGED <<clientVars, cancelled, phase, stage, learned, pending, budget,
                 valveFired, historyVars>>

Unusable ==
  /\ Calling("parse")
  /\ StageFails
  /\ UNCHANGED <<clientVars, cancelled, learned, pending, budget, valveFired,
                 historyVars>>

\* The loop's gate between two stages: cancellation beats everything.
Abort ==
  /\ phase = "optimise" /\ call = NoCall /\ Is(Optimizer, "idle")
  /\ cancelled
  /\ phase' = "aborted"
  /\ UNCHANGED <<clientVars, cancelled, stage, call, learned, pending, budget,
                 valveFired, historyVars>>

-----------------------------------------------------------------------------
(* The pool and its run. *)

WorkerChat(w) ==
  /\ phase = "evaluate"
  /\ Chat(w, "executor")
  /\ UNCHANGED <<cancelled, runVars, historyVars>>

PoolDone ==
  /\ phase = "evaluate"
  /\ \A w \in Workers : Is(w, "answered")
  /\ phase' = "optimise"
  /\ chat' = [c \in Callers |-> Idle]
  /\ elapsed' = 0 /\ dialled' = 0
  /\ UNCHANGED <<next, meter, cancelled, stage, call, learned, pending, budget,
                 valveFired, historyVars>>

Cancel ==
  /\ phase \notin Over /\ ~ cancelled
  /\ cancelled' = TRUE
  /\ UNCHANGED <<clientVars, runVars, historyVars>>

Driver ==
  \/ StartCall \/ RefuseCall \/ CannotWrite \/ ReadAnswer \/ CallFails
  \/ Parsed \/ Repair \/ Unusable \/ Abort \/ PoolDone

Client(c) == ClientStep(c) /\ UNCHANGED <<cancelled, runVars, historyVars>>
Clock == Tick /\ UNCHANGED <<runVars, historyVars>>

Returned == phase \in Over /\ UNCHANGED vars

Next ==
  \/ Driver
  \/ \E w \in Workers : WorkerChat(w)
  \/ \E c \in Callers : Client(c)
  \/ Clock \/ Cancel \/ Returned

Spec == Init /\ [][Next]_vars

\* Goroutines are scheduled, timers run out, and every request has a deadline.
FairSpec ==
  /\ Spec
  /\ WF_vars(Driver) /\ WF_vars(Clock)
  /\ \A c \in Callers : WF_vars(Client(c) \/ (c \in Workers /\ WorkerChat(c)))

-----------------------------------------------------------------------------
(* Properties. *)

\* Three accounts of the same tokens: what the client metered for the
\* optimiser is charged to the run, or held by a synthesis not charged yet,
\* but for answers whose trace was lost.  Nothing is charged twice.
LedgersAgree ==
  meter["optimizer"] = budget.usage["optimizer"] + pending + lost
                       + chat[Optimizer].cost

\* A ladder in progress is not stopped by the valve, but once the valve has
\* tripped no further call begins, a repair no more than a stage: all that is
\* still paid for is the rest of one ladder.  And whatever escalations and
\* retries combine, one call sends a bounded number of requests.
ValveClosesWithinACall == late < MaxOptAttempts
RequestsBounded == call.at = "dialling" => dialled <= MaxOptAttempts * MaxAttempts
CallsBounded == ValveClosesWithinACall /\ RequestsBounded

\* The cap a ladder starts from is the largest that ever got a text out of
\* the model, never one that failed.
LearnedCapWorked ==
  \A l \in Ladders : \A n \in worked[l] \cup {0} : n <= learned[l]
                     /\ learned[l] \in worked[l] \cup {0}

\* What the retries, the ladders and the valves of both clients come to together.
CallsAccounted == LedgersAgree /\ CallsBounded /\ LearnedCapWorked

\* Every run comes to its end, whatever the gateway answers.
CallsReturn == <>(phase \in Over)

\* As calls.go:22-25 has it of any reasoning model: an answer that is nothing
\* but reasoning is recognised as such, so that the ladder escalates.
BurnEscalates ==
  [][\A cost \in TokenCosts :
       Answered(Optimizer, "thinking", cost) => chat'[Optimizer].answer = "burn"]_vars

=============================================================================
