-------------------------- MODULE EvalEngineProofs --------------------------
(***************************************************************************)
(* Theorems about EvalEngine for every number of samples, set of workers,  *)
(* number of repetitions, judge, cost and inherited budget.                *)
(***************************************************************************)
EXTENDS EvalEngine, Functions, TLAPS, FiniteSetTheorems, WellFoundedInduction

-----------------------------------------------------------------------------
(* Sums over the workers.  The induction is over the set of sizes a fact     *)
(* holds of.                                                                 *)

\* Every nonempty set of numbers has a least element.
LEMMA LeastNumber ==
  ASSUME NEW T \in SUBSET Nat, T # {}
  PROVE  \E n \in T : \A m \in T : n <= m
<1>1. ASSUME NEW m \in Nat, NEW n \in Nat, m < n
      PROVE  <<m, n>> \in OpToRel(<, Nat)
  <2>1. <<m, n>>[1] < <<m, n>>[2] /\ <<m, n>> \in Nat \X Nat
    BY <1>1
  <2> QED BY <2>1, Zenon DEF OpToRel
<1>2. PICK n \in T : \A m \in T : <<m, n>> \notin OpToRel(<, Nat)
  BY NatLessThanWellFounded, WFMin
<1>3. \A m \in T : ~ (m < n)
  BY <1>1, <1>2, Zenon
<1> QED BY <1>3

\* Induction over the numbers, stated of the set it is to hold of.
LEMMA NumberInduction ==
  ASSUME NEW P \in SUBSET Nat, 0 \in P, \A n \in P : n + 1 \in P
  PROVE  P = Nat
<1> SUFFICES ASSUME Nat \ P # {} PROVE FALSE
  OBVIOUS
<1>1. PICK n \in Nat \ P : \A m \in Nat \ P : n <= m
  BY LeastNumber
<1>2. n # 0 /\ n - 1 \in Nat
  BY <1>1
<1>3. n - 1 \in P
  BY <1>1, <1>2
<1> QED BY <1>1, <1>2, <1>3

\* A nonempty part of a finite set is an element and a smaller part.
LEMMA OneLess ==
  ASSUME NEW S, IsFiniteSet(S), NEW T \in SUBSET S, NEW x \in T
  PROVE  /\ IsFiniteSet(T) /\ Cardinality(T) \in Nat
         /\ T \ {x} \in SUBSET S /\ Cardinality(T \ {x}) = Cardinality(T) - 1
BY FS_Subset, FS_CardinalityType, FS_RemoveElement

\* Only the empty part has no elements.
LEMMA Sizes ==
  ASSUME NEW S, IsFiniteSet(S)
  PROVE  \A T \in SUBSET S : /\ Cardinality(T) \in Nat
                             /\ Cardinality(T) = 0 <=> T = {}
                             /\ Cardinality(T) <= Cardinality(S)
BY FS_Subset, FS_CardinalityType, FS_EmptySet

\* The fold behind SumFunctionOnSet: at each set an element of its, and what
\* the fold gives for the rest.
Picked(s) == CHOOSE x \in s : TRUE
TallyAt(g, f, s) == IF s = {} THEN 0 ELSE f[Picked(s)] + g[s \ {Picked(s)}]
IsTally(g, f, S) == g = [s \in SUBSET S |-> TallyAt(g, f, s)]
Tally(f, S) == CHOOSE g : IsTally(g, f, S)

LEMMA PickedFrom ==
  ASSUME NEW S, IsFiniteSet(S), NEW T \in SUBSET S, T # {}
  PROVE  /\ Picked(T) \in T /\ T \ {Picked(T)} \in SUBSET S
         /\ Cardinality(T) \in Nat
         /\ Cardinality(T \ {Picked(T)}) = Cardinality(T) - 1
<1>1. Picked(T) \in T
  BY DEF Picked
<1> QED BY <1>1, OneLess

\* Every finite set has a tally: one that is right up to some size gives one
\* that is right up to the next.
LEMMA TallyExists ==
  ASSUME NEW S, IsFiniteSet(S), NEW f
  PROVE  \E g : IsTally(g, f, S)
<1> DEFINE Right(g, n) == \A T \in SUBSET S :
                            Cardinality(T) <= n => g[T] = TallyAt(g, f, T)
           P == {n \in Nat : \E g : Right(g, n)}
<1>1. 0 \in P
  <2>1. Right([T \in SUBSET S |-> 0], 0)
    BY Sizes DEF TallyAt
  <2> QED BY <2>1
<1>2. ASSUME NEW n \in P PROVE n + 1 \in P
  <2>1. PICK g : Right(g, n)
    OBVIOUS
  <2> DEFINE h == [T \in SUBSET S |-> TallyAt(g, f, T)]
  <2>2. ASSUME NEW T \in SUBSET S, Cardinality(T) <= n + 1
        PROVE  h[T] = TallyAt(h, f, T)
    <3>1. CASE T = {}
      BY <3>1 DEF TallyAt
    <3>2. CASE T # {}
      <4> DEFINE U == T \ {Picked(T)}
      <4>1. n \in Nat
        OBVIOUS
      <4>2. U \in SUBSET S /\ Cardinality(U) <= n
        BY <2>2, <3>2, <4>1, PickedFrom
      <4>3. h[U] = g[U]
        BY <2>1, <4>2
      <4> QED BY <3>2, <4>3 DEF TallyAt
    <3> QED BY <3>1, <3>2
  <2>3. Right(h, n + 1)
    BY <2>2
  <2> HIDE DEF h, Right
  <2>4. \E k : Right(k, n + 1)
    BY <2>3, Zenon
  <2>5. n + 1 \in Nat
    OBVIOUS
  <2> QED BY <2>4, <2>5, Zenon
<1> HIDE DEF P
<1>3. P = Nat
  BY <1>1, <1>2, NumberInduction DEF P
<1>4. PICK g : Right(g, Cardinality(S))
  BY <1>3, Sizes DEF P
<1>5. \A T \in SUBSET S : g[T] = TallyAt(g, f, T)
  BY <1>4, Sizes
<1> DEFINE h == [T \in SUBSET S |-> TallyAt(g, f, T)]
<1>6. \A T \in SUBSET S : h[T] = TallyAt(h, f, T)
  <2> SUFFICES ASSUME NEW T \in SUBSET S PROVE h[T] = TallyAt(h, f, T)
    OBVIOUS
  <2>1. CASE T = {}
    BY <2>1 DEF TallyAt
  <2>2. CASE T # {}
    <3>1. h[T \ {Picked(T)}] = g[T \ {Picked(T)}]
      BY <1>5, <2>2, PickedFrom
    <3> QED BY <2>2, <3>1 DEF TallyAt
  <2> QED BY <2>1, <2>2
<1>7. IsTally(h, f, S)
  BY <1>6 DEF IsTally
<1> QED BY <1>7

\* The sum is the tally of the whole set.
LEMMA SumOfTally ==
  ASSUME NEW S, IsFiniteSet(S), NEW f
  PROVE  /\ SumFunctionOnSet(f, S) = Tally(f, S)[S]
         /\ \A T \in SUBSET S : Tally(f, S)[T] = TallyAt(Tally(f, S), f, T)
<1>1. IsTally(Tally(f, S), f, S)
  BY TallyExists DEF Tally
<1>2. SumFunctionOnSet(f, S) = Tally(f, S)[S]
  BY DEF SumFunctionOnSet, FoldFunctionOnSet, MapThenFoldSet, Tally, IsTally,
         TallyAt, Picked
<1> QED BY <1>1, <1>2 DEF IsTally

\* Sums of numbers up to a bound are numbers, up to as many times the bound.
LEMMA SumWithin ==
  ASSUME NEW S, IsFiniteSet(S), NEW k \in Nat, NEW f,
         \A x \in S : f[x] \in 0 .. k
  PROVE  /\ SumFunctionOnSet(f, S) \in Nat
         /\ SumFunctionOnSet(f, S) <= Cardinality(S) * k
<1> DEFINE g == Tally(f, S)
<1>1. /\ SumFunctionOnSet(f, S) = g[S]
      /\ \A T \in SUBSET S : g[T] = TallyAt(g, f, T)
  BY SumOfTally
<1> HIDE DEF g
<1> DEFINE Holds(T) == g[T] \in Nat /\ g[T] <= Cardinality(T) * k
           P == {n \in Nat : \A T \in SUBSET S : Cardinality(T) = n => Holds(T)}
<1>0. g[{}] = 0
  BY <1>1 DEF TallyAt
<1>2. 0 \in P
  BY <1>0, Sizes
<1>3. ASSUME NEW n \in P PROVE n + 1 \in P
  <2> SUFFICES ASSUME NEW T \in SUBSET S, Cardinality(T) = n + 1
               PROVE  Holds(T)
    OBVIOUS
  <2> DEFINE p == Picked(T)
             U == T \ {p}
  <2>1. n \in Nat /\ T # {}
    BY Sizes
  <2>2. p \in T /\ U \in SUBSET S /\ Cardinality(U) = n
    BY <2>1, PickedFrom
  <2>3. g[T] = f[p] + g[U]
    BY <1>1, <2>1 DEF TallyAt
  <2>4. g[U] \in Nat /\ g[U] <= n * k
    BY <2>2
  <2>5. f[p] \in Nat /\ f[p] <= k
    BY <2>2
  <2>6. (n + 1) * k = n * k + k /\ n * k \in Nat
    BY <2>1
  <2> HIDE DEF p, U
  <2> DEFINE low == n * k
             high == (n + 1) * k
  <2>7. g[U] <= low /\ high = low + k /\ low \in Nat
    BY <2>4, <2>6
  <2> HIDE DEF low, high
  <2>8. g[T] \in Nat /\ g[T] <= high
    BY <2>3, <2>4, <2>5, <2>7
  <2> QED BY <2>8 DEF high
<1> HIDE DEF P
<1>4. P = Nat
  BY <1>2, <1>3, NumberInduction DEF P
<1>5. Holds(S)
  BY <1>4, Sizes DEF P
<1> QED BY <1>1, <1>5

\* Changing one term changes the sum by as much.
LEMMA SumChange ==
  ASSUME NEW S, IsFiniteSet(S), NEW w \in S, NEW e, NEW f,
         \A x \in S : e[x] \in Int /\ f[x] \in Int,
         \A x \in S \ {w} : e[x] = f[x]
  PROVE  SumFunctionOnSet(f, S) = SumFunctionOnSet(e, S) + f[w] - e[w]
<1> DEFINE g == Tally(e, S)
           h == Tally(f, S)
<1>1. /\ SumFunctionOnSet(e, S) = g[S]
      /\ \A T \in SUBSET S : g[T] = TallyAt(g, e, T)
  BY SumOfTally
<1>2. /\ SumFunctionOnSet(f, S) = h[S]
      /\ \A T \in SUBSET S : h[T] = TallyAt(h, f, T)
  BY SumOfTally
<1> HIDE DEF g, h
<1> DEFINE Holds(T) == /\ g[T] \in Int /\ h[T] \in Int
                       /\ w \in T => h[T] = g[T] + f[w] - e[w]
                       /\ w \notin T => h[T] = g[T]
           P == {n \in Nat : \A T \in SUBSET S : Cardinality(T) = n => Holds(T)}
<1>0. g[{}] = 0 /\ h[{}] = 0
  BY <1>1, <1>2 DEF TallyAt
<1>3. 0 \in P
  BY <1>0, Sizes
<1>4. ASSUME NEW n \in P PROVE n + 1 \in P
  <2> SUFFICES ASSUME NEW T \in SUBSET S, Cardinality(T) = n + 1
               PROVE  Holds(T)
    OBVIOUS
  <2> DEFINE p == Picked(T)
             U == T \ {p}
  <2>1. n \in Nat /\ T # {}
    BY Sizes
  <2>2. p \in T /\ U \in SUBSET S /\ Cardinality(U) = n
    BY <2>1, PickedFrom
  <2>3. g[T] = e[p] + g[U] /\ h[T] = f[p] + h[U]
    BY <1>1, <1>2, <2>1 DEF TallyAt
  <2>4. Holds(U)
    BY <2>2
  <2>5. e[p] \in Int /\ f[p] \in Int /\ (p # w => e[p] = f[p])
    BY <2>2
  <2>6. w \in T <=> w = p \/ w \in U
    BY <2>2
  <2>7. p \notin U
    OBVIOUS
  <2> HIDE DEF p, U
  <2> QED BY <2>3, <2>4, <2>5, <2>6, <2>7
<1> HIDE DEF P
<1>5. P = Nat
  BY <1>3, <1>4, NumberInduction DEF P
<1>6. Holds(S)
  BY <1>5, Sizes DEF P
<1> QED BY <1>1, <1>2, <1>6

-----------------------------------------------------------------------------
(* The budget. *)

\* Metering keeps the budget a budget, touches no reservation and never
\* disarms the soft stop.
LEMMA RecordUsageFacts ==
  ASSUME NEW b \in Budgets, NEW r \in Role, NEW u \in Nat
  PROVE  /\ RecordUsage(b, r, u) \in Budgets
         /\ RecordUsage(b, r, u).evals = b.evals
         /\ b.softStop => RecordUsage(b, r, u).softStop
<1> DEFINE spent == [b.usage EXCEPT ![r] = @ + u]
           after == [evals |-> b.evals, usage |-> spent, softStop |-> b.softStop]
           arm == r \in {"executor", "judge"} /\ OverLimit(after)
<1>1. b.evals \in Nat /\ b.usage \in [Role -> Nat] /\ b.softStop \in BOOLEAN
  BY DEF Budgets
<1>2. spent \in [Role -> Nat]
  BY <1>1
<1>3. RecordUsage(b, r, u)
        = [evals |-> b.evals, usage |-> spent, softStop |-> b.softStop \/ arm]
  BY DEF RecordUsage
<1>4. (b.softStop \/ arm) \in BOOLEAN
  BY <1>1, Zenon
<1> HIDE DEF spent, after, arm
<1>5. QED
  BY <1>1, <1>2, <1>3, <1>4 DEF Budgets

\* A reservation keeps the budget a budget and does not touch the soft stop.
LEMMA AcquireFacts ==
  ASSUME NEW b \in Budgets, NEW k \in Nat
  PROVE  /\ Acquire(b, k) \in Budgets
         /\ Acquire(b, k).evals = b.evals + k
         /\ Acquire(b, k).softStop = b.softStop
BY DEF Acquire, Budgets

\* Repetitions are counted from one, whatever was configured.
LEMMA RepCountType == RepCount \in Nat /\ RepCount >= 1
BY EngineAssumption DEF RepCount

-----------------------------------------------------------------------------
(* Type correctness. *)

\* The types alone are not inductive: the dispatcher must hold an index into
\* the samples when it uses it, and a busy worker a sample.
IndexOK ==
  /\ dispatch \in {"acquire", "send"} => next \in Samples
  /\ \A w \in Workers : at[w] # "idle" => job[w] \in Samples

TypeInv == TypeOK /\ IndexOK

LEMMA TypeInvInit == Init => TypeInv
<1> SUFFICES ASSUME Init PROVE TypeInv
  OBVIOUS
<1>1. /\ budget \in Budgets
      /\ initial \in StartBudgets
  BY EngineAssumption DEF Init, Reachable
<1>2. /\ next \in 1 .. N + 1
      /\ [s \in Samples |-> "pending"] \in [Samples -> Outcome]
      /\ [w \in Workers |-> 0] \in [Workers -> 0 .. N]
      /\ [w \in Workers |-> 1] \in [Workers -> 1 .. RepCount]
  BY SampleAssumption, RepCountType DEF Init, Outcome
<1>3. /\ at \in [Workers -> WorkerAt]
      /\ erred \subseteq Workers
  BY DEF Init, WorkerAt
<1>4. /\ dispatch \in DispatchAt /\ status \in Status
      /\ started \subseteq Samples /\ finished \subseteq Samples
      /\ stopEvents \in 0 .. 1
  BY DEF Init, DispatchAt, Status
<1>5. TypeOK
  BY <1>1, <1>2, <1>3, <1>4 DEF Init, TypeOK
<1>6. IndexOK
  BY DEF Init, IndexOK
<1>7. QED
  BY <1>5, <1>6 DEF TypeInv

LEMMA TypeInvStep == TypeInv /\ [Next]_vars => TypeInv'
<1> SUFFICES ASSUME TypeInv, [Next]_vars PROVE TypeInv'
OBVIOUS
<1> USE SampleAssumption, RepCountType DEF TypeInv, TypeOK, IndexOK, Samples, Outcome, WorkerAt, DispatchAt, Status,
        dispatcherVars, workerVars, eventVars, historyVars
<1>1. CASE CheckContext
  BY <1>1 DEF CheckContext
<1>2. CASE AcquireSlots
  <2>1. Acquire(budget, RepCount) \in Budgets
    BY AcquireFacts
  <2>2. CASE CanAcquire(budget, RepCount)
    BY <1>2, <2>1, <2>2 DEF AcquireSlots
  <2>3. CASE ~ CanAcquire(budget, RepCount)
    BY <1>2, <2>3 DEF AcquireSlots, Following
  <2>4. QED BY <2>2, <2>3
<1>3. CASE Conclude
  <2>1. FinalStatus \in Status
    BY DEF FinalStatus
  <2>2. QED BY <1>3, <2>1 DEF Conclude
<1>4. ASSUME NEW w \in Workers, HandOff(w) PROVE TypeInv'
  BY <1>4 DEF HandOff, Received
<1>5. ASSUME NEW w \in Workers, ExecutorCall(w) PROVE TypeInv'
  <2>1. \A u \in TokenCosts : RecordUsage(budget, "executor", u) \in Budgets
    BY RecordUsageFacts, EngineAssumption DEF Role
  <2>2. budget' \in Budgets
    BY <1>5, <2>1 DEF ExecutorCall
  <2>3. at' \in [Workers -> WorkerAt] /\ erred' \subseteq Workers
        /\ \A v \in Workers : at'[v] # "idle" => at[v] # "idle"
    BY <1>5 DEF ExecutorCall
  <2>4. /\ UNCHANGED <<cancelled, dispatch, next, outcome, job, rep, started,
                       finished, stopEvents, status, initial, lateStarts>>
        /\ dials' \in Nat
    BY <1>5 DEF ExecutorCall
  <2>5. QED BY <2>2, <2>3, <2>4
<1>6. ASSUME NEW w \in Workers, CheckAnswer(w) PROVE TypeInv'
  <2>1. AfterAnswer \in WorkerAt
    BY EngineAssumption DEF AfterAnswer
  <2>2. at' \in [Workers -> WorkerAt] /\ erred' \subseteq Workers
        /\ \A v \in Workers : at'[v] # "idle" => at[v] # "idle"
    BY <1>6, <2>1 DEF CheckAnswer
  <2>3. /\ UNCHANGED <<budget, cancelled, dispatch, next, outcome, job, rep,
                       started, finished, status, initial, dials, lateStarts>>
        /\ stopEvents' \in 0 .. 1
    BY <1>6 DEF CheckAnswer, AnnounceStop
  <2>4. QED BY <2>2, <2>3
<1>7. ASSUME NEW w \in Workers, DecisionCall(w) PROVE TypeInv'
  <2>1. \A u \in TokenCosts \cup {0} : RecordUsage(budget, "judge", u) \in Budgets
    BY RecordUsageFacts, EngineAssumption DEF Role
  <2>2. budget' \in Budgets
    BY <1>7, <2>1 DEF DecisionCall
  <2>3. QED BY <1>7, <2>2 DEF DecisionCall
<1>8. ASSUME NEW w \in Workers, JudgeCall(w) PROVE TypeInv'
  <2>1. \A u \in TokenCosts : RecordUsage(budget, "judge", u) \in Budgets
    BY RecordUsageFacts, EngineAssumption DEF Role
  <2>2. budget' \in Budgets
    BY <1>8, <2>1 DEF JudgeCall
  <2>3. QED BY <1>8, <2>2 DEF JudgeCall
<1>9. ASSUME NEW w \in Workers, CheckJudged(w) PROVE TypeInv'
  BY <1>9 DEF CheckJudged, AnnounceStop
<1>10. ASSUME NEW w \in Workers, EndRep(w) PROVE TypeInv'
  <2>1. at' \in [Workers -> WorkerAt] /\ erred' \subseteq Workers
        /\ \A v \in Workers : at'[v] # "idle" => at[v] # "idle"
    BY <1>10 DEF EndRep
  <2>2. rep' \in [Workers -> 1 .. RepCount]
    BY <1>10 DEF EndRep
  <2>3. UNCHANGED <<budget, cancelled, dispatch, next, outcome, job, started,
                    finished, stopEvents, status, initial, dials, lateStarts>>
    BY <1>10 DEF EndRep
  <2>4. QED BY <2>1, <2>2, <2>3
<1>11. ASSUME NEW w \in Workers, FinishSample(w) PROVE TypeInv'
  <2>1. job[w] \in Samples
    BY <1>11 DEF FinishSample
  <2>2. outcome' \in [Samples -> Outcome] 
    BY <1>11, <2>1 DEF FinishSample
  <2>3. finished' \subseteq Samples
    BY <1>11, <2>1 DEF FinishSample
  <2>4. at' \in [Workers -> WorkerAt] /\ job' \in [Workers -> 0 .. N]
    BY <1>11, <2>1 DEF FinishSample
  <2>5. \A v \in Workers : at'[v] # "idle" => at[v] # "idle" /\ job'[v] = job[v]
    BY <1>11, <2>1 DEF FinishSample
  <2>6. UNCHANGED <<budget, cancelled, dispatch, next, rep, erred, started,
                    stopEvents, status, initial, dials, lateStarts>>
    BY <1>11 DEF FinishSample
  <2> QED BY <2>2, <2>3, <2>4, <2>5, <2>6
<1>12. CASE Cancel
  BY <1>12 DEF Cancel
<1>13. CASE UNCHANGED vars
  BY <1>13 DEF vars
<1>14. QED
  BY <1>1, <1>2, <1>3, <1>4, <1>5, <1>6, <1>7, <1>8, <1>9, <1>10, <1>11,
     <1>12, <1>13 DEF Next, Dispatcher, Worker, Returned

\* Every reachable state of a run is well typed.
THEOREM TypeCorrect == Spec => []TypeOK
<1>1. Spec => []TypeInv
  BY TypeInvInit, TypeInvStep, PTL DEF Spec
<1>2. TypeInv => TypeOK
  BY DEF TypeInv
<1>3. QED
  BY <1>1, <1>2, PTL

-----------------------------------------------------------------------------
(* What a step can do to the budget, and what a worker leaves alone. *)

\* A worker between the hand-off and the end of its sample.
Inside(w) ==
  \/ ExecutorCall(w) \/ CheckAnswer(w) \/ DecisionCall(w)
  \/ JudgeCall(w) \/ CheckJudged(w) \/ EndRep(w)

LEMMA InsideFrame ==
  ASSUME TypeInv, NEW w \in Workers, Inside(w)
  PROVE  /\ UNCHANGED <<cancelled, dispatch, next, outcome, job, started,
                        finished, status, initial, lateStarts>>
         /\ at[w] # "idle" /\ at'[w] # "idle"
         /\ \A v \in Workers \ {w} : at'[v] = at[v]
<1> USE DEF TypeInv, TypeOK, dispatcherVars, workerVars, eventVars, historyVars
<1>1. CASE ExecutorCall(w)
  BY <1>1 DEF ExecutorCall
<1>2. CASE CheckAnswer(w)
  <2>1. AfterAnswer # "idle"
    BY EngineAssumption DEF AfterAnswer
  <2>2. QED BY <1>2, <2>1 DEF CheckAnswer
<1>3. CASE DecisionCall(w)
  BY <1>3 DEF DecisionCall
<1>4. CASE JudgeCall(w)
  BY <1>4 DEF JudgeCall
<1>5. CASE CheckJudged(w)
  BY <1>5 DEF CheckJudged
<1>6. CASE EndRep(w)
  BY <1>6 DEF EndRep
<1>7. QED
  BY <1>1, <1>2, <1>3, <1>4, <1>5, <1>6 DEF Inside

\* Only a granted reservation changes the number of evaluations, and nothing
\* disarms the soft stop.
Metered ==
  /\ budget'.evals = budget.evals
  /\ budget.softStop => budget'.softStop

LEMMA InsideMeters ==
  ASSUME TypeInv, NEW w \in Workers, Inside(w)
  PROVE  Metered
<1>1. budget \in Budgets
  BY DEF TypeInv, TypeOK
<1>2. \A r \in Role, u \in TokenCosts \cup {0} :
        /\ RecordUsage(budget, r, u).evals = budget.evals
        /\ budget.softStop => RecordUsage(budget, r, u).softStop
  BY <1>1, RecordUsageFacts, EngineAssumption
<1>3. "executor" \in Role /\ "judge" \in Role
  BY DEF Role
<1>4. \/ budget' = budget
      \/ \E r \in Role, u \in TokenCosts \cup {0} :
           budget' = RecordUsage(budget, r, u)
  BY <1>3 DEF Inside, ExecutorCall, CheckAnswer, DecisionCall, JudgeCall,
              CheckJudged, EndRep
<1>5. QED
  BY <1>2, <1>4 DEF Metered

\* The steps of Next, grouped for the proofs below.
LEMMA StepCases ==
  [Next]_vars <=>
    \/ CheckContext \/ AcquireSlots \/ Conclude
    \/ \E w \in Workers : HandOff(w) \/ Inside(w) \/ FinishSample(w)
    \/ Cancel
    \/ UNCHANGED vars
BY DEF Next, Dispatcher, Worker, Inside, Returned

LEMMA BudgetStep ==
  ASSUME TypeInv, [Next]_vars
  PROVE  \/ Metered
         \/ /\ AcquireSlots
            /\ CanAcquire(budget, RepCount)
            /\ budget'.evals = budget.evals + RepCount
            /\ budget'.softStop = budget.softStop
<1>1. CASE AcquireSlots
  <2>1. budget \in Budgets
    BY DEF TypeInv, TypeOK
  <2>2. QED
    BY <1>1, <2>1, AcquireFacts, RepCountType DEF AcquireSlots, Metered
<1>2. CASE \E w \in Workers : Inside(w)
  BY <1>2, InsideMeters
<1>3. CASE CheckContext \/ Conclude \/ Cancel \/ UNCHANGED vars
  BY <1>3 DEF CheckContext, Conclude, Cancel, vars, Metered
<1>4. CASE \E w \in Workers : HandOff(w) \/ FinishSample(w)
  BY <1>4 DEF HandOff, FinishSample, Metered
<1>5. QED
  BY <1>1, <1>2, <1>3, <1>4, StepCases

-----------------------------------------------------------------------------
(* The evaluation limit. *)

\* Reservations never pass the evaluation limit, for any number of workers,
\* repetitions per sample and earlier runs on the same budget.
THEOREM EvalLimitIsHeld == Spec => []EvalLimitHeld
<1>1. Init => EvalLimitHeld
  BY EngineAssumption DEF Init, Reachable, EvalLimitHeld
<1>2. TypeInv /\ EvalLimitHeld /\ [Next]_vars => EvalLimitHeld'
  <2> SUFFICES ASSUME TypeInv, EvalLimitHeld, [Next]_vars PROVE EvalLimitHeld'
    OBVIOUS
  <2>1. CASE Metered
    BY <2>1 DEF EvalLimitHeld, Metered
  <2>2. CASE CanAcquire(budget, RepCount) /\ budget'.evals = budget.evals + RepCount
    BY <2>2 DEF EvalLimitHeld, CanAcquire
  <2>3. QED
    BY <2>1, <2>2, BudgetStep
<1>3. Spec => []TypeInv
  BY TypeInvInit, TypeInvStep, PTL DEF Spec
<1>4. QED
  BY <1>1, <1>2, <1>3, PTL DEF Spec

-----------------------------------------------------------------------------
(* Samples and workers. *)

\* Every sample before the dispatcher's index is decided or in the pool, every
\* later one untouched until the loop ends.
SampleInv ==
  \A s \in Samples :
    /\ s >= next => s \notin started
    /\ s >= next /\ dispatch \notin {"drain", "done"} => outcome[s] = "pending"
    /\ s < next \/ dispatch \in {"drain", "done"}
         => s \in started \/ outcome[s] = "undispatched"
    /\ s \in started => outcome[s] # "undispatched"
    /\ s \in finished <=> outcome[s] \in {"failed", "scored"}
    /\ s \in finished => s \in started

\* The samples in the pool are exactly those the busy workers hold, one each.
PoolInv ==
  /\ \A w \in Workers : at[w] # "idle" => job[w] \in started \ finished
  /\ \A v, w \in Workers :
       at[v] # "idle" /\ at[w] # "idle" /\ v # w => job[v] # job[w]
  /\ \A s \in started \ finished : \E w \in Workers : at[w] # "idle" /\ job[w] = s

EndInv ==
  /\ status = "running" <=> dispatch # "done"
  /\ dispatch = "done" => WorkersGone

DispatchInv == SampleInv /\ PoolInv /\ EndInv

LEMMA DispatchInit == Init => DispatchInv
<1> SUFFICES ASSUME Init PROVE DispatchInv
  OBVIOUS
<1>1. SampleInv
  BY SampleAssumption DEF Init, SampleInv, Samples
<1>2. PoolInv /\ EndInv
  BY DEF Init, PoolInv, EndInv
<1>3. QED
  BY <1>1, <1>2 DEF DispatchInv

LEMMA DispatchStep == TypeInv /\ DispatchInv /\ [Next]_vars => DispatchInv'
<1> SUFFICES ASSUME TypeInv, DispatchInv, [Next]_vars PROVE DispatchInv'
  OBVIOUS
<1> USE SampleAssumption DEF TypeInv, TypeOK, IndexOK, DispatchInv, Samples, Outcome,
        dispatcherVars, workerVars, eventVars, historyVars
<1>1. CASE CheckContext
  <2>1. SampleInv'
    BY <1>1 DEF CheckContext, SampleInv, Rest
  <2>2. PoolInv' /\ EndInv'
    BY <1>1 DEF CheckContext, PoolInv, EndInv
  <2>3. QED BY <2>1, <2>2
<1>2. CASE AcquireSlots
  <2>1. SampleInv'
    BY <1>2 DEF AcquireSlots, SampleInv, Following
  <2>2. PoolInv' /\ EndInv'
    BY <1>2 DEF AcquireSlots, PoolInv, EndInv
  <2>3. QED BY <2>1, <2>2
<1>3. CASE Conclude
  <2>1. SampleInv' /\ PoolInv'
    BY <1>3 DEF Conclude, SampleInv, PoolInv
  <2>2. FinalStatus # "running"
    BY DEF FinalStatus
  <2>3. EndInv'
    BY <1>3, <2>2 DEF Conclude, EndInv, WorkersGone
  <2>4. QED BY <2>1, <2>3
<1>4. ASSUME NEW w \in Workers, HandOff(w) PROVE DispatchInv'
  <2>1. next \in Samples /\ next \notin started /\ outcome[next] = "pending"
    BY <1>4 DEF HandOff, SampleInv
  <2>2. SampleInv'
    BY <1>4, <2>1 DEF HandOff, SampleInv, Received
  <2>3. at' = [at EXCEPT ![w] = "call"] /\ job' = [job EXCEPT ![w] = next]
    BY <1>4 DEF HandOff, Received
  <2>4. started' = started \cup {next} /\ finished' = finished /\ at[w] = "idle"
    BY <1>4 DEF HandOff, Received
  <2>5. next \notin finished
    BY <2>1 DEF SampleInv
  <2>6. PoolInv'
    BY <2>1, <2>3, <2>4, <2>5 DEF PoolInv
  <2>7. EndInv'
    BY <1>4 DEF HandOff, EndInv
  <2>8. QED BY <2>2, <2>6, <2>7
<1>5. ASSUME NEW w \in Workers, Inside(w) PROVE DispatchInv'
  <2>1. /\ UNCHANGED <<dispatch, next, outcome, job, started, finished, status>>
        /\ \A v \in Workers : at'[v] # "idle" <=> at[v] # "idle"
    BY <1>5, InsideFrame
  <2>2. SampleInv' /\ PoolInv'
    BY <2>1 DEF SampleInv, PoolInv
  <2>3. EndInv'
    BY <2>1 DEF EndInv, WorkersGone
  <2>4. QED BY <2>2, <2>3
<1>6. ASSUME NEW w \in Workers, FinishSample(w) PROVE DispatchInv'
  <2>1. /\ job[w] \in Samples /\ job[w] \in started \ finished
        /\ at[w] # "idle"
    BY <1>6 DEF FinishSample, PoolInv
  <2>2. /\ UNCHANGED <<dispatch, next, started, status>>
        /\ finished' = finished \cup {job[w]}
        /\ at' = [at EXCEPT ![w] = "idle"] /\ job' = [job EXCEPT ![w] = 0]
    BY <1>6 DEF FinishSample
  <2>3. /\ outcome'[job[w]] \in {"failed", "scored"}
        /\ \A s \in Samples \ {job[w]} : outcome'[s] = outcome[s]
    BY <1>6, <2>1 DEF FinishSample
  <2>4. SampleInv'
    <3> SUFFICES ASSUME NEW s \in Samples
                 PROVE  /\ s >= next' => s \notin started'
                        /\ s >= next' /\ dispatch' \notin {"drain", "done"}
                             => outcome'[s] = "pending"
                        /\ s < next' \/ dispatch' \in {"drain", "done"}
                             => s \in started' \/ outcome'[s] = "undispatched"
                        /\ s \in started' => outcome'[s] # "undispatched"
                        /\ s \in finished' <=> outcome'[s] \in {"failed", "scored"}
                        /\ s \in finished' => s \in started'
      BY DEF SampleInv
    <3>1. CASE s = job[w]
      BY <3>1, <2>1, <2>2, <2>3 DEF SampleInv
    <3>2. CASE s # job[w]
      BY <3>2, <2>2, <2>3 DEF SampleInv
    <3>3. QED BY <3>1, <3>2
  <2>5. PoolInv'
    BY <2>1, <2>2 DEF PoolInv
  <2>6. EndInv'
    BY <1>6, <2>2 DEF FinishSample, EndInv, WorkersGone
  <2>7. QED BY <2>4, <2>5, <2>6
<1>7. CASE Cancel
  <2>1. UNCHANGED <<dispatch, next, outcome, at, job, started, finished, status>>
    BY <1>7 DEF Cancel
  <2>2. QED BY <2>1 DEF SampleInv, PoolInv, EndInv, WorkersGone
<1>8. CASE UNCHANGED vars
  BY <1>8 DEF vars, SampleInv, PoolInv, EndInv, WorkersGone
<1>9. QED
  BY <1>1, <1>2, <1>3, <1>4, <1>5, <1>6, <1>7, <1>8, StepCases

LEMMA Invariants == Spec => [](TypeInv /\ DispatchInv)
BY TypeInvInit, TypeInvStep, DispatchInit, DispatchStep, PTL DEF Spec

\* A reported run is over: nothing is left in the pool and every sample has
\* its verdict.
THEOREM RunDoneIsLastHolds == Spec => []RunDoneIsLast
<1>1. TypeInv /\ DispatchInv => RunDoneIsLast
  <2> SUFFICES ASSUME TypeInv, DispatchInv, status # "running" PROVE RunDoneIsLast
    BY DEF RunDoneIsLast
  <2>1. dispatch = "done" /\ \A w \in Workers : at[w] = "idle"
    BY DEF DispatchInv, EndInv, WorkersGone
  <2>2. started = finished
    BY <2>1 DEF DispatchInv, PoolInv, SampleInv, TypeInv, TypeOK
  <2>3. \A s \in Samples : /\ outcome[s] # "pending"
                            /\ s \in finished <=> outcome[s] # "undispatched"
    BY <2>1, <2>2 DEF DispatchInv, SampleInv, TypeInv, TypeOK, Outcome
  <2>4. QED BY <2>1, <2>2, <2>3 DEF RunDoneIsLast, Busy
<1>2. QED
  BY <1>1, Invariants, PTL

\* No sample is evaluated by two workers, or twice.
THEOREM OneWorkerPerSampleHolds == Spec => []OneWorkerPerSample
<1>1. TypeInv /\ DispatchInv => OneWorkerPerSample
  <2> SUFFICES ASSUME TypeInv, DispatchInv, NEW w \in Busy
               PROVE  /\ outcome[job[w]] = "pending"
                      /\ \A v \in Busy \ {w} : job[v] # job[w]
    BY DEF OneWorkerPerSample
  <2>1. w \in Workers /\ at[w] # "idle"
    BY DEF Busy
  <2>2. job[w] \in started \ finished /\ job[w] \in Samples
    BY <2>1 DEF DispatchInv, PoolInv, TypeInv, IndexOK
  <2>3. outcome[job[w]] = "pending"
    BY <2>2 DEF DispatchInv, SampleInv, TypeInv, TypeOK, Outcome
  <2>4. \A v \in Busy \ {w} : job[v] # job[w]
    BY <2>1 DEF Busy, DispatchInv, PoolInv
  <2>5. QED BY <2>3, <2>4
<1>2. QED
  BY <1>1, Invariants, PTL

-----------------------------------------------------------------------------
(* The soft stop and cancellation. *)

\* After one late start the dispatcher is past its reservation, or about to be
\* refused one.
LateInv ==
  /\ lateStarts <= 1
  /\ lateStarts = 1 =>
       /\ budget.softStop \/ cancelled
       /\ \/ dispatch \in {"check", "drain", "done"}
          \/ dispatch = "acquire" /\ budget.softStop

\* A refusal is final: whoever was refused would still be.
RefusalInv ==
  ~ cancelled /\ (\E s \in Samples : outcome[s] = "undispatched")
    => ~ CanAcquire(budget, RepCount)

LEMMA LateStep == TypeInv /\ LateInv /\ [Next]_vars => LateInv'
<1> SUFFICES ASSUME TypeInv, LateInv, [Next]_vars PROVE LateInv'
  OBVIOUS
<1> USE DEF LateInv, TypeInv, TypeOK, dispatcherVars, workerVars, eventVars, historyVars
<1>0. budget.softStop => budget'.softStop
  BY BudgetStep DEF Metered
<1>1. CASE CheckContext
  BY <1>1 DEF CheckContext
<1>2. CASE AcquireSlots
  <2>1. CASE CanAcquire(budget, RepCount)
    <3>1. lateStarts = 0 \/ (cancelled /\ dispatch # "acquire")
      BY <2>1 DEF CanAcquire
    <3>2. dispatch = "acquire" /\ UNCHANGED lateStarts
      BY <1>2 DEF AcquireSlots
    <3>3. QED BY <3>1, <3>2
  <2>2. CASE ~ CanAcquire(budget, RepCount)
    <3>1. dispatch' = "check" /\ UNCHANGED <<lateStarts, budget, cancelled>>
      BY <1>2, <2>2 DEF AcquireSlots
    <3>2. QED BY <3>1
  <2>3. QED BY <2>1, <2>2
<1>3. CASE Conclude
  BY <1>3 DEF Conclude
<1>4. ASSUME NEW w \in Workers, HandOff(w) PROVE LateInv'
  <2>1. lateStarts = 0
    BY <1>4 DEF HandOff
  <2>2. /\ dispatch' = "check" /\ UNCHANGED <<budget, cancelled>>
        /\ lateStarts' = IF budget.softStop \/ cancelled THEN 1 ELSE 0
    BY <1>4, <2>1 DEF HandOff
  <2>3. QED BY <2>2
<1>5. ASSUME NEW w \in Workers, Inside(w) PROVE LateInv'
  BY <1>0, <1>5, InsideFrame
<1>6. ASSUME NEW w \in Workers, FinishSample(w) PROVE LateInv'
  BY <1>6 DEF FinishSample
<1>7. CASE Cancel
  BY <1>7 DEF Cancel
<1>8. CASE UNCHANGED vars
  BY <1>8 DEF vars
<1>9. QED
  BY <1>1, <1>2, <1>3, <1>4, <1>5, <1>6, <1>7, <1>8, StepCases

\* Once the token limit is crossed or the run is cancelled, at most one more
\* sample starts, however many workers there are.
THEOREM AtMostOneLateStartHolds == Spec => []AtMostOneLateStart
<1>1. Init => LateInv
  BY DEF Init, LateInv
<1>2. LateInv => AtMostOneLateStart
  BY DEF LateInv, AtMostOneLateStart
<1>3. QED
  BY <1>1, <1>2, LateStep, Invariants, PTL DEF Spec

LEMMA RefusalStep ==
  TypeInv /\ DispatchInv /\ RefusalInv /\ [Next]_vars => RefusalInv'
<1> SUFFICES ASSUME TypeInv, DispatchInv, RefusalInv, [Next]_vars,
                    ~ cancelled', NEW s \in Samples, outcome'[s] = "undispatched"
             PROVE  ~ CanAcquire(budget', RepCount)
  BY DEF RefusalInv, CanAcquire
<1> USE DEF TypeInv, TypeOK, dispatcherVars, workerVars, eventVars, historyVars
<1>1. \/ ~ CanAcquire(budget, RepCount)
      \/ /\ \A t \in Samples : outcome[t] # "undispatched"
         /\ ~ cancelled
      \/ cancelled
  BY DEF RefusalInv
<1>2. ~ cancelled
  BY DEF Next, Dispatcher, Worker, CheckContext, AcquireSlots, Conclude, HandOff,
         ExecutorCall, CheckAnswer, DecisionCall, JudgeCall, CheckJudged, EndRep,
         FinishSample, Cancel, Returned, vars
<1>3. CASE ~ CanAcquire(budget, RepCount)
  <2>1. Metered
    BY <1>3, BudgetStep
  <2>2. QED BY <1>3, <2>1 DEF Metered, CanAcquire
<1>4. CASE /\ \A t \in Samples : outcome[t] # "undispatched"
           /\ CanAcquire(budget, RepCount)
  <2>1. outcome' = outcome
    <3>1. CASE CheckContext
      BY <1>2, <3>1 DEF CheckContext
    <3>2. CASE AcquireSlots
      BY <1>4, <3>2 DEF AcquireSlots
    <3>3. CASE Conclude \/ Cancel \/ UNCHANGED vars
      BY <3>3 DEF Conclude, Cancel, vars
    <3>4. ASSUME NEW w \in Workers, HandOff(w) \/ Inside(w) PROVE outcome' = outcome
      BY <3>4, InsideFrame DEF HandOff
    <3>5. ASSUME NEW w \in Workers, FinishSample(w) PROVE FALSE
      BY <1>4, <3>5 DEF FinishSample
    <3>6. QED
      BY <3>1, <3>2, <3>3, <3>4, <3>5, StepCases
  <2>2. QED BY <1>4, <2>1
<1>5. QED
  BY <1>1, <1>2, <1>3, <1>4

\* budget_exhausted always means that the budget refuses one more sample, and
\* never stands for a cancellation.
THEOREM ExhaustionIsRealHolds == Spec => []ExhaustionIsReal
<1> DEFINE Ended == status = "budget_exhausted" =>
                      ~ cancelled /\ \E s \in Samples : outcome[s] = "undispatched"
<1>1. Init => RefusalInv /\ Ended
  BY DEF Init, RefusalInv
<1>2. TypeInv /\ DispatchInv /\ Ended /\ [Next]_vars => Ended'
  <2> SUFFICES ASSUME TypeInv, DispatchInv, Ended, [Next]_vars PROVE Ended'
    OBVIOUS
  <2> USE DEF dispatcherVars, workerVars, eventVars, historyVars
  <2>1. CASE Conclude
    BY <2>1 DEF Conclude, FinalStatus, Some
  <2>2. CASE ~ Conclude /\ status = "budget_exhausted"
    <3>1. dispatch = "done" /\ \A w \in Workers : at[w] = "idle"
      BY <2>2 DEF DispatchInv, EndInv, WorkersGone
    <3>2. UNCHANGED <<outcome, cancelled, status>>
      BY <2>2, <3>1, StepCases, InsideFrame
         DEF CheckContext, AcquireSlots, HandOff, FinishSample, Cancel, vars
    <3>3. QED BY <2>2, <3>2
  <2>3. CASE ~ Conclude /\ status # "budget_exhausted"
    <3>1. status' = status
      BY <2>3, StepCases, InsideFrame
         DEF CheckContext, AcquireSlots, HandOff, FinishSample, Cancel, vars
    <3>2. QED BY <2>3, <3>1
  <2>4. QED BY <2>1, <2>2, <2>3
<1>3. RefusalInv /\ Ended => ExhaustionIsReal
  BY DEF RefusalInv, ExhaustionIsReal
<1> HIDE DEF Ended
<1>4. QED
  BY <1>1, <1>2, <1>3, RefusalStep, Invariants, PTL DEF Spec

\* Between crossing the limit and announcing it there is always a worker on
\* its way to the announcement.  A budget that was over the limit from the
\* start lets nobody in.
Announcing == \E w \in Workers : at[w] \in {"notify", "judge", "judged"}

AnnounceInv ==
  /\ initial.softStop =>
       budget.softStop /\ started = {} /\ stopEvents = 0 /\ dispatch # "send"
  /\ stopEvents = 1 => budget.softStop
  /\ budget.softStop /\ ~ initial.softStop => stopEvents = 1 \/ Announcing

LEMMA AnnounceStep ==
  TypeInv /\ DispatchInv /\ AnnounceInv /\ [Next]_vars => AnnounceInv'
<1> SUFFICES ASSUME TypeInv, DispatchInv, AnnounceInv, [Next]_vars
             PROVE  AnnounceInv'
  OBVIOUS
<1> USE DEF AnnounceInv, Announcing, TypeInv, TypeOK,
            dispatcherVars, workerVars, eventVars, historyVars
<1>0. budget.softStop => budget'.softStop
  BY BudgetStep DEF Metered
<1>1. CASE CheckContext \/ Conclude \/ Cancel \/ UNCHANGED vars
  BY <1>1 DEF CheckContext, Conclude, Cancel, vars
<1>2. CASE AcquireSlots
  <2>1. budget'.softStop = budget.softStop
    BY <1>2, AcquireFacts, RepCountType DEF AcquireSlots
  <2>2. dispatch' = "send" => ~ budget.softStop
    BY <1>2 DEF AcquireSlots, CanAcquire
  <2>3. UNCHANGED <<at, started, stopEvents, initial>>
    BY <1>2 DEF AcquireSlots
  <2>4. QED BY <2>1, <2>2, <2>3
<1>3. ASSUME NEW w \in Workers, HandOff(w) PROVE AnnounceInv'
  <2>1. ~ initial.softStop /\ at[w] = "idle"
    BY <1>3 DEF HandOff
  <2>2. UNCHANGED <<budget, stopEvents, initial>>
    BY <1>3 DEF HandOff
  <2>3. Announcing => Announcing'
    BY <1>3, <2>1 DEF HandOff
  <2>4. QED BY <2>1, <2>2, <2>3
<1>4. ASSUME NEW w \in Workers, Inside(w) PROVE AnnounceInv'
  <2>1. /\ UNCHANGED <<dispatch, started, initial>> /\ at[w] # "idle"
        /\ \A v \in Workers \ {w} : at'[v] = at[v]
    BY <1>4, InsideFrame
  <2>2. ~ initial.softStop
    BY <2>1 DEF DispatchInv, PoolInv
  <2>3. CASE ExecutorCall(w)
    BY <1>0, <2>1, <2>2, <2>3 DEF ExecutorCall
  <2>4. CASE CheckAnswer(w) \/ CheckJudged(w)
    BY <2>1, <2>2, <2>4 DEF CheckAnswer, CheckJudged, AnnounceStop
  <2>5. CASE DecisionCall(w) \/ JudgeCall(w)
    <3>1. at'[w] \in {"judge", "judged"} /\ UNCHANGED stopEvents
      BY <2>5 DEF DecisionCall, JudgeCall
    <3>2. QED BY <1>0, <2>1, <2>2, <3>1
  <2>6. CASE EndRep(w)
    BY <2>1, <2>2, <2>6 DEF EndRep
  <2>7. QED
    BY <1>4, <2>3, <2>4, <2>5, <2>6 DEF Inside
<1>5. ASSUME NEW w \in Workers, FinishSample(w) PROVE AnnounceInv'
  <2>1. /\ UNCHANGED <<budget, dispatch, started, stopEvents, initial>>
        /\ at[w] = "finish" /\ at' = [at EXCEPT ![w] = "idle"]
    BY <1>5 DEF FinishSample
  <2>2. QED BY <2>1
<1>6. QED
  BY <1>1, <1>2, <1>3, <1>4, <1>5, StepCases

\* A run announces the token soft stop exactly when it crossed the limit
\* itself, whichever worker and whichever call did it.
THEOREM StopAnnouncedHolds == Spec => []StopAnnounced
<1>1. Init => AnnounceInv
  BY DEF Init, AnnounceInv
<1>2. TypeInv /\ DispatchInv /\ AnnounceInv => StopAnnounced
  <2> SUFFICES ASSUME TypeInv, DispatchInv, AnnounceInv, status # "running"
               PROVE  stopEvents = 1 <=> budget.softStop /\ ~ initial.softStop
    BY DEF StopAnnounced
  <2>1. \A w \in Workers : at[w] = "idle"
    BY DEF DispatchInv, EndInv, WorkersGone
  <2>2. QED BY <2>1 DEF AnnounceInv, Announcing
<1>3. QED
  BY <1>1, <1>2, AnnounceStep, Invariants, PTL DEF Spec

-----------------------------------------------------------------------------
(* The limits. *)

\* The executor calls a worker that stands at p in its r-th repetition may
\* still make for its sample, and the answers it may still meter.
CallsAt(p, r) ==
  IF p \in {"idle", "finish"} THEN 0
  ELSE IF p = "call" THEN RepCount - r + 1 ELSE RepCount - r

OwnAt(p) ==
  IF p = "notify" THEN CallsPerRep - 1
  ELSE IF p = "decide" THEN 2 ELSE IF p = "judge" THEN 1 ELSE 0

MetersAt(p, r) == CallsAt(p, r) * CallsPerRep + OwnAt(p)

\* A sample that waits at the channel has its slots, and all its calls before
\* it.
Calls == [w \in Workers |-> CallsAt(at[w], rep[w])]
Meters == [w \in Workers |-> MetersAt(at[w], rep[w])]
AtChannel == IF dispatch = "send" THEN RepCount ELSE 0
CallsDue == SumFunctionOnSet(Calls, Workers) + AtChannel
MetersDue == SumFunctionOnSet(Meters, Workers) + AtChannel * CallsPerRep

\* Only the decision judge has a decision to ask for.
DecideInv == \A w \in Workers : at[w] = "decide" => Judge = "decision"

\* Slots are reserved for the calls made and for those still to come.
SlotInv == initial.evals + dials + CallsDue <= budget.evals

\* One call has a largest cost.
CostsBounded == \E c \in TokenCosts : \A d \in TokenCosts : d <= c

\* What was spent and what the calls to come may spend stay within the limit
\* and a full pool with one more sample at the channel.
Room == (Cardinality(Workers) + 1) * (RepCount * CallsPerRep)
OverInv ==
  /\ budget.softStop <=> OverLimit(budget)
  /\ TokenLimit > 0 /\ ~ initial.softStop =>
       EvalTokens(budget) + MetersDue * MaxCost <= TokenLimit + Room * MaxCost

LEMMA CallsPerRepType ==
  CallsPerRep \in 1 .. 3 /\ (Judge = "decision" => CallsPerRep = 3)
BY EngineAssumption DEF CallsPerRep

\* A worker has at most a sample's calls before it, and its terms are numbers.
LEMMA DueAt ==
  ASSUME NEW p \in WorkerAt, NEW r \in 1 .. RepCount,
         p = "decide" => Judge = "decision"
  PROVE  /\ CallsAt(p, r) \in 0 .. RepCount
         /\ MetersAt(p, r) \in 0 .. RepCount * CallsPerRep
<1>1. CallsAt(p, r) \in 0 .. RepCount
  BY RepCountType DEF CallsAt, WorkerAt
<1>2. CallsPerRep = 1 \/ CallsPerRep = 2 \/ CallsPerRep = 3
  BY CallsPerRepType
<1>3. OwnAt(p) \in 0 .. CallsPerRep
  BY CallsPerRepType DEF OwnAt
<1>4. OwnAt(p) = 0 \/ CallsAt(p, r) <= RepCount - 1
  BY RepCountType DEF OwnAt, CallsAt
<1> DEFINE c == CallsAt(p, r)
           o == OwnAt(p)
           k == CallsPerRep
<1> HIDE DEF c, o, k
<1>5. c \in 0 .. RepCount /\ o \in 0 .. k /\ (o = 0 \/ c <= RepCount - 1)
  BY <1>1, <1>3, <1>4 DEF c, o, k
<1>6. c * k + o \in 0 .. RepCount * k
  <2>1. CASE k = 1
    BY <1>5, <2>1, RepCountType
  <2>2. CASE k = 2
    BY <1>5, <2>2, RepCountType
  <2>3. CASE k = 3
    BY <1>5, <2>3, RepCountType
  <2> QED BY <1>2, <2>1, <2>2, <2>3 DEF k
<1> QED BY <1>1, <1>6 DEF MetersAt, c, o, k

\* All together: a pool's worth and the sample at the channel.
LEMMA DueWithin ==
  ASSUME TypeInv, DecideInv
  PROVE  /\ \A w \in Workers : Calls[w] \in Nat /\ Meters[w] \in Nat
         /\ SumFunctionOnSet(Calls, Workers) \in Nat
         /\ SumFunctionOnSet(Meters, Workers) \in Nat
         /\ CallsDue \in Nat
         /\ MetersDue \in Nat /\ MetersDue <= Room
<1> DEFINE k == RepCount * CallsPerRep
           n == Cardinality(Workers)
<1>1. RepCount \in Nat /\ CallsPerRep \in Nat /\ k \in Nat
  BY RepCountType, CallsPerRepType
<1>2. \A w \in Workers : /\ Calls[w] \in 0 .. RepCount
                         /\ Meters[w] \in 0 .. k
  <2> SUFFICES ASSUME NEW w \in Workers
               PROVE  /\ Calls[w] \in 0 .. RepCount
                      /\ Meters[w] \in 0 .. k
    OBVIOUS
  <2>1. /\ at[w] \in WorkerAt /\ rep[w] \in 1 .. RepCount
        /\ at[w] = "decide" => Judge = "decision"
    BY DEF TypeInv, TypeOK, DecideInv
  <2> QED BY <2>1, DueAt DEF Calls, Meters
<1>3. SumFunctionOnSet(Calls, Workers) \in Nat
  BY <1>1, <1>2, SumWithin, EngineAssumption
<1>4. /\ SumFunctionOnSet(Meters, Workers) \in Nat
      /\ SumFunctionOnSet(Meters, Workers) <= n * k
  BY <1>1, <1>2, SumWithin, EngineAssumption
<1>5. n \in Nat
  BY FS_CardinalityType, EngineAssumption
<1>6. AtChannel \in Nat /\ AtChannel * CallsPerRep \in Nat
      /\ AtChannel * CallsPerRep <= k
  <2>1. CASE dispatch = "send"
    BY <1>1, <2>1 DEF AtChannel
  <2>2. CASE dispatch # "send"
    BY <1>1, <2>2 DEF AtChannel
  <2> QED BY <2>1, <2>2
<1>7. (n + 1) * k = n * k + k /\ n * k \in Nat
  BY <1>1, <1>5
<1>8. Room = (n + 1) * k
  BY DEF Room
<1> DEFINE nk == n * k
           ch == AtChannel * CallsPerRep
           pool == SumFunctionOnSet(Meters, Workers)
<1>9. /\ Room = nk + k /\ nk \in Nat /\ k \in Nat /\ ch \in Nat /\ ch <= k
      /\ pool \in Nat /\ pool <= nk /\ MetersDue = pool + ch
  BY <1>1, <1>4, <1>6, <1>7, <1>8 DEF MetersDue
<1> HIDE DEF k, n, nk, ch, pool
<1>10. MetersDue \in Nat /\ MetersDue <= Room
  BY <1>9
<1> QED BY <1>2, <1>3, <1>4, <1>6, <1>10 DEF CallsDue, k

LEMMA DecideStep == TypeInv /\ DecideInv /\ [Next]_vars => DecideInv'
<1> SUFFICES ASSUME TypeInv, DecideInv, [Next]_vars PROVE DecideInv'
  OBVIOUS
<1> USE DEF DecideInv, TypeInv, TypeOK, workerVars
<1>1. CASE CheckContext \/ AcquireSlots \/ Conclude \/ Cancel \/ UNCHANGED vars
  BY <1>1 DEF CheckContext, AcquireSlots, Conclude, Cancel, vars
<1>2. ASSUME NEW w \in Workers, HandOff(w) \/ FinishSample(w)
      PROVE  DecideInv'
  BY <1>2 DEF HandOff, FinishSample
<1>3. ASSUME NEW w \in Workers, Inside(w) PROVE DecideInv'
  <2>1. \A v \in Workers \ {w} : at'[v] = at[v]
    BY <1>3, InsideFrame
  <2>2. at'[w] = "decide" => Judge = "decision"
    <3>1. AfterAnswer = "decide" => Judge = "decision"
      BY EngineAssumption DEF AfterAnswer
    <3> QED BY <1>3, <3>1 DEF Inside, ExecutorCall, CheckAnswer, DecisionCall,
                              JudgeCall, CheckJudged, EndRep
  <2> QED BY <2>1, <2>2
<1> QED BY <1>1, <1>2, <1>3, StepCases

\* A step of one worker changes the sums by its own terms.
LEMMA OneTerm ==
  ASSUME TypeInv, TypeInv', DecideInv, DecideInv', NEW w \in Workers,
         \A v \in Workers \ {w} : at'[v] = at[v] /\ rep'[v] = rep[v]
  PROVE  /\ SumFunctionOnSet(Calls', Workers)
              = SumFunctionOnSet(Calls, Workers)
                  + CallsAt(at'[w], rep'[w]) - CallsAt(at[w], rep[w])
         /\ SumFunctionOnSet(Meters', Workers)
              = SumFunctionOnSet(Meters, Workers)
                  + MetersAt(at'[w], rep'[w]) - MetersAt(at[w], rep[w])
<1>1. \A v \in Workers : /\ at[v] \in WorkerAt /\ rep[v] \in 1 .. RepCount
                         /\ at'[v] \in WorkerAt /\ rep'[v] \in 1 .. RepCount
                         /\ at[v] = "decide" => Judge = "decision"
                         /\ at'[v] = "decide" => Judge = "decision"
  BY DEF TypeInv, TypeOK, DecideInv
<1>2. RepCount \in Nat /\ RepCount * CallsPerRep \in Nat
  BY RepCountType, CallsPerRepType
<1>3. \A v \in Workers :
        /\ CallsAt(at[v], rep[v]) \in Int /\ MetersAt(at[v], rep[v]) \in Int
        /\ CallsAt(at'[v], rep'[v]) \in Int /\ MetersAt(at'[v], rep'[v]) \in Int
  BY <1>1, <1>2, DueAt
<1>4. \A v \in Workers : /\ Calls[v] \in Int /\ Calls'[v] \in Int
                         /\ Meters[v] \in Int /\ Meters'[v] \in Int
  BY <1>3 DEF Calls, Meters
<1>5. \A v \in Workers \ {w} : Calls[v] = Calls'[v] /\ Meters[v] = Meters'[v]
  BY DEF Calls, Meters
<1>6. /\ Calls[w] = CallsAt(at[w], rep[w]) /\ Calls'[w] = CallsAt(at'[w], rep'[w])
      /\ Meters[w] = MetersAt(at[w], rep[w])
      /\ Meters'[w] = MetersAt(at'[w], rep'[w])
  BY DEF Calls, Meters
<1> HIDE DEF Calls, Meters
<1>7. SumFunctionOnSet(Calls', Workers)
        = SumFunctionOnSet(Calls, Workers) + Calls'[w] - Calls[w]
  BY <1>4, <1>5, SumChange, EngineAssumption
<1>8. SumFunctionOnSet(Meters', Workers)
        = SumFunctionOnSet(Meters, Workers) + Meters'[w] - Meters[w]
  BY <1>4, <1>5, SumChange, EngineAssumption
<1> QED BY <1>6, <1>7, <1>8

\* Metering an evaluation role adds to the tokens, and arms the soft stop when
\* they pass the limit.
LEMMA MeterFacts ==
  ASSUME NEW b \in Budgets, b.softStop <=> OverLimit(b),
         NEW r \in {"executor", "judge"}, NEW u \in Nat
  PROVE  /\ EvalTokens(RecordUsage(b, r, u)) = EvalTokens(b) + u
         /\ RecordUsage(b, r, u).softStop <=> OverLimit(RecordUsage(b, r, u))
         /\ EvalTokens(b) \in Nat
<1> DEFINE spent == [b.usage EXCEPT ![r] = @ + u]
           after == [evals |-> b.evals, usage |-> spent, softStop |-> b.softStop]
           a == RecordUsage(b, r, u)
<1>1. b.usage \in [Role -> Nat] /\ b.softStop \in BOOLEAN
      /\ "executor" \in Role /\ "judge" \in Role
  BY DEF Budgets, Role
<1>2. a = [evals |-> b.evals, usage |-> spent,
           softStop |-> b.softStop \/ OverLimit(after)]
  BY DEF RecordUsage
<1>3. /\ b.usage["executor"] \in Nat /\ b.usage["judge"] \in Nat
      /\ spent["executor"] + spent["judge"]
           = b.usage["executor"] + b.usage["judge"] + u
  BY <1>1
<1>4. a.usage = spent /\ after.usage = spent
      /\ a.softStop = (b.softStop \/ OverLimit(after))
  BY <1>2
<1> HIDE DEF a, spent, after
<1>5. EvalTokens(b) \in Nat /\ EvalTokens(a) = EvalTokens(b) + u
  BY <1>3, <1>4 DEF EvalTokens
<1>6. OverLimit(after) <=> OverLimit(a)
  BY <1>4 DEF OverLimit, EvalTokens
<1>7. OverLimit(b) => OverLimit(a)
  BY <1>5, LimitAssumption DEF OverLimit
<1> QED BY <1>4, <1>5, <1>6, <1>7 DEF a

\* What a worker's step does to its own terms: a call takes one off, an answer
\* that is metered one of the answers, and nothing adds to either.
Unmetered(w) ==
  UNCHANGED budget /\ MetersAt(at'[w], rep'[w]) <= MetersAt(at[w], rep[w])

MeteredOne(w) ==
  /\ MetersAt(at'[w], rep'[w]) <= MetersAt(at[w], rep[w]) - 1
  /\ \E r \in {"executor", "judge"}, u \in TokenCosts \cup {0} :
       budget' = RecordUsage(budget, r, u)

LEMMA InsideTerms ==
  ASSUME TypeInv, TypeInv', DecideInv, DecideInv', NEW w \in Workers, Inside(w)
  PROVE  /\ \A v \in Workers \ {w} : at'[v] = at[v] /\ rep'[v] = rep[v]
         /\ \/ /\ dials' = dials + 1
               /\ CallsAt(at'[w], rep'[w]) <= CallsAt(at[w], rep[w]) - 1
            \/ /\ dials' = dials
               /\ CallsAt(at'[w], rep'[w]) <= CallsAt(at[w], rep[w])
         /\ Unmetered(w) \/ MeteredOne(w)
<1> USE DEF WorkerAt
<1>1. /\ at[w] \in WorkerAt /\ rep[w] \in 1 .. RepCount
      /\ at'[w] \in WorkerAt /\ rep'[w] \in 1 .. RepCount
      /\ at[w] = "decide" => Judge = "decision"
  BY DEF TypeInv, TypeOK, DecideInv
<1>2. RepCount \in Nat
  BY RepCountType
<1>3. CallsPerRep \in 1 .. 3 /\ (Judge = "decision" => CallsPerRep = 3)
  BY CallsPerRepType
<1>4. at \in [Workers -> WorkerAt] /\ rep \in [Workers -> 1 .. RepCount]
  BY DEF TypeInv, TypeOK
<1> DEFINE p == at[w]
           q == at'[w]
           r == rep[w]
           s == rep'[w]
           c == CallsAt(p, r)
           d == CallsAt(q, s)
           k == CallsPerRep
<1>5. c \in 0 .. RepCount /\ d \in 0 .. RepCount /\ k \in 1 .. 3
  BY <1>1, <1>3, DueAt DEF DecideInv
<1>6. ASSUME d <= c - 1 PROVE d * k <= c * k - k
  <2> HIDE DEF c, d, k
  <2>1. k = 1 \/ k = 2 \/ k = 3
    BY <1>5
  <2> QED BY <1>2, <1>5, <1>6, <2>1
<1>7. ASSUME d <= c PROVE d * k <= c * k
  <2> HIDE DEF c, d, k
  <2>1. k = 1 \/ k = 2 \/ k = 3
    BY <1>5
  <2> QED BY <1>2, <1>5, <1>7, <2>1
<1>8. d * k \in Int /\ c * k \in Int
  <2> HIDE DEF c, d, k
  <2> QED BY <1>2, <1>5
<1>9. MetersAt(q, s) = d * k + OwnAt(q) /\ MetersAt(p, r) = c * k + OwnAt(p)
  BY DEF MetersAt
<1>10. CASE ExecutorCall(w)
  <2>1. /\ p = "call" /\ q \in {"trace", "notify"} /\ s = r
        /\ dials' = dials + 1
        /\ \A v \in Workers \ {w} : at'[v] = at[v] /\ rep'[v] = rep[v]
        /\ \/ q = "trace" /\ UNCHANGED budget
           \/ \E u \in TokenCosts : budget' = RecordUsage(budget, "executor", u)
    BY <1>4, <1>10 DEF ExecutorCall, workerVars
  <2>2. d = c - 1
    BY <1>1, <1>2, <2>1 DEF CallsAt
  <2>3. OwnAt(p) = 0 /\ OwnAt(q) <= k - 1 /\ OwnAt(q) \in Int
    BY <1>3, <2>1 DEF OwnAt
  <2>4. d * k <= c * k - k
    BY <1>5, <1>6, <2>2
  <2> HIDE DEF p, q, r, s, c, d, k
  <2>5. MetersAt(q, s) <= MetersAt(p, r) - 1
    <3> DEFINE dk == d * k
               ck == c * k
    <3>1. dk \in Int /\ ck \in Int /\ dk <= ck - k
          /\ MetersAt(q, s) = dk + OwnAt(q) /\ MetersAt(p, r) = ck + OwnAt(p)
      BY <1>8, <1>9, <2>4
    <3> HIDE DEF dk, ck
    <3> QED BY <1>5, <2>3, <3>1
  <2>6. MetersAt(q, s) \in Int /\ MetersAt(p, r) \in Int
    BY <1>8, <1>9, <2>3
  <2>7. MetersAt(q, s) <= MetersAt(p, r)
    BY <2>5, <2>6
  <2> QED BY <2>1, <2>2, <2>5, <2>7, <1>5 DEF p, q, r, s, c, d, Unmetered, MeteredOne
<1>11. CASE CheckAnswer(w)
  <2>1. /\ p = "notify" /\ q \in {"trace", AfterAnswer} /\ s = r
        /\ dials' = dials /\ UNCHANGED budget
        /\ \A v \in Workers \ {w} : at'[v] = at[v] /\ rep'[v] = rep[v]
    BY <1>4, <1>11 DEF CheckAnswer, workerVars, historyVars
  <2>2. /\ q \in {"trace", "judge", "decide"}
        /\ OwnAt(q) <= OwnAt(p) /\ OwnAt(q) \in Int /\ OwnAt(p) \in Int
    BY <2>1, EngineAssumption DEF AfterAnswer, OwnAt, CallsPerRep
  <2>3. d = c
    BY <2>1, <2>2 DEF CallsAt
  <2>4. MetersAt(q, s) <= MetersAt(p, r)
    <3> HIDE DEF p, q, r, s, c, d, k
    <3> QED BY <1>8, <1>9, <2>2, <2>3
  <2> QED BY <2>1, <2>3, <2>4, <1>5 DEF Unmetered
<1>12. CASE DecisionCall(w)
  <2>1. /\ p = "decide" /\ q \in {"judged", "judge"} /\ s = r
        /\ dials' = dials
        /\ \A v \in Workers \ {w} : at'[v] = at[v] /\ rep'[v] = rep[v]
        /\ \E u \in TokenCosts \cup {0} : budget' = RecordUsage(budget, "judge", u)
    BY <1>4, <1>12 DEF DecisionCall, workerVars, historyVars
  <2>2. OwnAt(p) = 2 /\ OwnAt(q) <= 1 /\ OwnAt(q) \in Int
    BY <2>1 DEF OwnAt
  <2>3. d = c
    BY <2>1 DEF CallsAt
  <2>4. MetersAt(q, s) <= MetersAt(p, r) - 1
    <3> HIDE DEF p, q, r, s, c, d, k
    <3> QED BY <1>8, <1>9, <2>2, <2>3
  <2> QED BY <2>1, <2>3, <2>4, <1>5 DEF MeteredOne
<1>13. CASE JudgeCall(w)
  <2>1. /\ p = "judge" /\ q = "judged" /\ s = r
        /\ dials' = dials
        /\ \A v \in Workers \ {w} : at'[v] = at[v] /\ rep'[v] = rep[v]
        /\ \/ UNCHANGED budget
           \/ \E u \in TokenCosts : budget' = RecordUsage(budget, "judge", u)
    BY <1>4, <1>13 DEF JudgeCall, workerVars, historyVars
  <2>2. OwnAt(p) = 1 /\ OwnAt(q) = 0
    BY <2>1 DEF OwnAt
  <2>3. d = c
    BY <2>1 DEF CallsAt
  <2>4. MetersAt(q, s) <= MetersAt(p, r) - 1 /\ MetersAt(q, s) <= MetersAt(p, r)
    <3> HIDE DEF p, q, r, s, c, d, k
    <3> QED BY <1>8, <1>9, <2>2, <2>3
  <2> QED BY <2>1, <2>3, <2>4, <1>5 DEF MeteredOne, Unmetered
<1>14. CASE CheckJudged(w)
  <2>1. /\ p = "judged" /\ q = "trace" /\ s = r
        /\ dials' = dials /\ UNCHANGED budget
        /\ \A v \in Workers \ {w} : at'[v] = at[v] /\ rep'[v] = rep[v]
    BY <1>4, <1>14 DEF CheckJudged, workerVars, historyVars
  <2>2. OwnAt(p) = 0 /\ OwnAt(q) = 0
    BY <2>1 DEF OwnAt
  <2>3. d = c
    BY <2>1 DEF CallsAt
  <2>4. MetersAt(q, s) <= MetersAt(p, r)
    <3> HIDE DEF p, q, r, s, c, d, k
    <3> QED BY <1>8, <1>9, <2>2, <2>3
  <2> QED BY <2>1, <2>3, <2>4, <1>5 DEF Unmetered
<1>15. CASE EndRep(w)
  <2>1. /\ p = "trace" /\ dials' = dials /\ UNCHANGED budget
        /\ \A v \in Workers \ {w} : at'[v] = at[v] /\ rep'[v] = rep[v]
        /\ \/ q = "finish" /\ s = r
           \/ q = "call" /\ s = r + 1
    BY <1>4, <1>15 DEF EndRep, workerVars, historyVars
  <2>2. OwnAt(p) = 0 /\ OwnAt(q) = 0
    BY <2>1 DEF OwnAt
  <2>3. d <= c
    BY <1>1, <1>2, <2>1 DEF CallsAt
  <2>4. d * k <= c * k
    BY <1>7, <2>3
  <2>5. MetersAt(q, s) <= MetersAt(p, r)
    <3> DEFINE dk == d * k
               ck == c * k
    <3>1. /\ dk \in Int /\ ck \in Int /\ dk <= ck
          /\ MetersAt(q, s) = dk + OwnAt(q) /\ MetersAt(p, r) = ck + OwnAt(p)
      BY <1>8, <1>9, <2>4
    <3> HIDE DEF dk, ck, p, q, r, s
    <3> QED BY <2>2, <3>1
  <2> QED BY <2>1, <2>3, <2>5 DEF Unmetered
<1> QED BY <1>10, <1>11, <1>12, <1>13, <1>14, <1>15 DEF Inside

DueType == CallsDue \in Nat /\ MetersDue \in Nat /\ MetersDue <= Room

\* What a step does to the calls and answers still to come: a reservation adds
\* a sample's, a call and a metered answer take one off.
Granted ==
  /\ AcquireSlots /\ CanAcquire(budget, RepCount)
  /\ budget' = Acquire(budget, RepCount)
  /\ dials' = dials /\ CallsDue' = CallsDue + RepCount

NothingSpent == UNCHANGED budget /\ MetersDue' <= MetersDue

Spent ==
  /\ MetersDue' <= MetersDue - 1
  /\ \E r \in {"executor", "judge"}, u \in TokenCosts \cup {0} :
       budget' = RecordUsage(budget, r, u)

LEMMA DueStep ==
  ASSUME TypeInv, TypeInv', DecideInv, DecideInv', [Next]_vars
  PROVE  /\ UNCHANGED initial
         /\ \/ Granted
            \/ /\ dials' + CallsDue' <= dials + CallsDue
               /\ NothingSpent \/ Spent
<1> USE DEF dispatcherVars, workerVars, eventVars, historyVars
<1>1. /\ SumFunctionOnSet(Calls, Workers) \in Nat
      /\ SumFunctionOnSet(Meters, Workers) \in Nat
      /\ CallsDue \in Nat /\ MetersDue \in Nat
  BY DueWithin
<1>2. dials \in Nat /\ RepCount \in Nat /\ CallsPerRep \in Nat
      /\ AtChannel \in Nat /\ AtChannel * CallsPerRep \in Nat
  BY RepCountType, CallsPerRepType DEF TypeInv, TypeOK, AtChannel
<1>3. ASSUME UNCHANGED <<at, rep>>
      PROVE  Calls' = Calls /\ Meters' = Meters
  BY <1>3 DEF Calls, Meters
<1>4. CASE AcquireSlots /\ CanAcquire(budget, RepCount)
  <2>1. /\ dispatch = "acquire" /\ dispatch' = "send" /\ UNCHANGED <<at, rep, dials, initial>>
        /\ budget' = Acquire(budget, RepCount)
    BY <1>4 DEF AcquireSlots
  <2>2. AtChannel = 0 /\ AtChannel' = RepCount /\ Calls' = Calls
    BY <1>3, <2>1 DEF AtChannel
  <2>3. CallsDue' = CallsDue + RepCount
    BY <1>1, <1>2, <2>2 DEF CallsDue
  <2> QED BY <1>4, <2>1, <2>3 DEF Granted
<1>5. CASE \/ AcquireSlots /\ ~ CanAcquire(budget, RepCount)
           \/ CheckContext \/ Conclude \/ Cancel \/ UNCHANGED vars
  <2>1. /\ UNCHANGED <<at, rep, dials, initial, budget>>
        /\ (dispatch # "send" /\ dispatch' # "send") \/ UNCHANGED dispatch
    BY <1>5 DEF AcquireSlots, CheckContext, Conclude, Cancel, vars
  <2>2. AtChannel' = AtChannel /\ Calls' = Calls /\ Meters' = Meters
    BY <1>3, <2>1 DEF AtChannel
  <2>3. CallsDue' = CallsDue /\ MetersDue' = MetersDue
    BY <2>2 DEF CallsDue, MetersDue
  <2> QED BY <1>1, <1>2, <2>1, <2>3 DEF NothingSpent
<1>6. ASSUME NEW w \in Workers, HandOff(w)
      PROVE  /\ UNCHANGED initial
             /\ dials' + CallsDue' <= dials + CallsDue
             /\ NothingSpent
  <2>1. /\ at[w] = "idle" /\ at'[w] = "call" /\ rep'[w] = 1
        /\ dispatch = "send" /\ dispatch' = "check"
        /\ \A v \in Workers \ {w} : at'[v] = at[v] /\ rep'[v] = rep[v]
        /\ UNCHANGED <<initial, dials, budget>>
    BY <1>6 DEF HandOff, TypeInv, TypeOK
  <2>2. /\ CallsAt(at[w], rep[w]) = 0 /\ CallsAt(at'[w], rep'[w]) = RepCount
        /\ OwnAt(at[w]) = 0 /\ OwnAt(at'[w]) = 0
    BY <1>2, <2>1 DEF CallsAt, OwnAt
  <2>3. /\ MetersAt(at[w], rep[w]) = 0
        /\ MetersAt(at'[w], rep'[w]) = RepCount * CallsPerRep
    BY <1>2, <2>2 DEF MetersAt
  <2>4. AtChannel = RepCount /\ AtChannel' = 0
    BY <2>1 DEF AtChannel
  <2>5. /\ SumFunctionOnSet(Calls', Workers)
             = SumFunctionOnSet(Calls, Workers) + RepCount
        /\ SumFunctionOnSet(Meters', Workers)
             = SumFunctionOnSet(Meters, Workers) + RepCount * CallsPerRep
    BY <1>1, <1>2, <2>1, <2>2, <2>3, OneTerm
  <2>6. CallsDue' = CallsDue
    BY <1>1, <1>2, <2>4, <2>5 DEF CallsDue
  <2>7. MetersDue' = MetersDue
    <3> DEFINE k == RepCount * CallsPerRep
    <3>1. MetersDue = SumFunctionOnSet(Meters, Workers) + k
      BY <2>4 DEF MetersDue
    <3>2. MetersDue' = SumFunctionOnSet(Meters', Workers) + 0 * CallsPerRep
      BY <2>4 DEF MetersDue
    <3>3. 0 * CallsPerRep = 0 /\ k \in Nat
      BY <1>2
    <3> HIDE DEF k
    <3> QED BY <1>1, <2>5, <3>1, <3>2, <3>3 DEF k
  <2> QED BY <1>1, <1>2, <2>1, <2>6, <2>7 DEF NothingSpent
<1>7. ASSUME NEW w \in Workers, FinishSample(w)
      PROVE  /\ UNCHANGED initial
             /\ dials' + CallsDue' <= dials + CallsDue
             /\ NothingSpent
  <2>1. /\ at[w] = "finish" /\ at'[w] = "idle" /\ UNCHANGED rep
        /\ \A v \in Workers \ {w} : at'[v] = at[v] /\ rep'[v] = rep[v]
        /\ UNCHANGED <<initial, dials, budget, dispatch>>
    BY <1>7 DEF FinishSample, TypeInv, TypeOK
  <2>2. /\ CallsAt(at[w], rep[w]) = 0 /\ CallsAt(at'[w], rep'[w]) = 0
        /\ OwnAt(at[w]) = 0 /\ OwnAt(at'[w]) = 0
    BY <2>1 DEF CallsAt, OwnAt
  <2>3. MetersAt(at[w], rep[w]) = 0 /\ MetersAt(at'[w], rep'[w]) = 0
    BY <1>2, <2>2 DEF MetersAt
  <2>4. /\ SumFunctionOnSet(Calls', Workers) = SumFunctionOnSet(Calls, Workers)
        /\ SumFunctionOnSet(Meters', Workers) = SumFunctionOnSet(Meters, Workers)
    BY <1>1, <2>1, <2>2, <2>3, OneTerm
  <2>5. AtChannel' = AtChannel
    BY <2>1 DEF AtChannel
  <2>6. CallsDue' = CallsDue /\ MetersDue' = MetersDue
    BY <2>4, <2>5 DEF CallsDue, MetersDue
  <2> QED BY <1>1, <1>2, <2>1, <2>6 DEF NothingSpent
<1>8. ASSUME NEW w \in Workers, Inside(w)
      PROVE  /\ UNCHANGED initial
             /\ dials' + CallsDue' <= dials + CallsDue
             /\ NothingSpent \/ Spent
  <2> DEFINE c == CallsAt(at[w], rep[w])
             d == CallsAt(at'[w], rep'[w])
             m == MetersAt(at[w], rep[w])
             n == MetersAt(at'[w], rep'[w])
  <2>1. /\ \A v \in Workers \ {w} : at'[v] = at[v] /\ rep'[v] = rep[v]
        /\ \/ dials' = dials + 1 /\ d <= c - 1
           \/ dials' = dials /\ d <= c
        /\ Unmetered(w) \/ MeteredOne(w)
    BY <1>8, InsideTerms
  <2>2. UNCHANGED <<initial, dispatch>>
    BY <1>8, InsideFrame
  <2>3. c \in Int /\ d \in Int /\ m \in Int /\ n \in Int
    <3>1. /\ at[w] \in WorkerAt /\ rep[w] \in 1 .. RepCount
          /\ at'[w] \in WorkerAt /\ rep'[w] \in 1 .. RepCount
          /\ at[w] = "decide" => Judge = "decision"
          /\ at'[w] = "decide" => Judge = "decision"
      BY DEF TypeInv, TypeOK, DecideInv
    <3>2. RepCount * CallsPerRep \in Nat
      BY <1>2
    <3> QED BY <1>2, <3>1, <3>2, DueAt
  <2>4. /\ SumFunctionOnSet(Calls', Workers)
             = SumFunctionOnSet(Calls, Workers) + d - c
        /\ SumFunctionOnSet(Meters', Workers)
             = SumFunctionOnSet(Meters, Workers) + n - m
    BY <2>1, OneTerm
  <2>5. AtChannel' = AtChannel
    BY <2>2 DEF AtChannel
  <2> HIDE DEF c, d, m, n
  <2>6. CallsDue' = CallsDue + d - c
    BY <1>1, <1>2, <2>3, <2>4, <2>5 DEF CallsDue
  <2>7. MetersDue' = MetersDue + n - m
    <3> DEFINE ch == AtChannel * CallsPerRep
    <3>1. /\ MetersDue = SumFunctionOnSet(Meters, Workers) + ch
          /\ MetersDue' = SumFunctionOnSet(Meters', Workers) + ch
          /\ ch \in Nat
      BY <1>2, <2>5 DEF MetersDue
    <3> HIDE DEF ch
    <3> QED BY <1>1, <2>3, <2>4, <3>1
  <2>8. dials' + CallsDue' <= dials + CallsDue
    BY <1>1, <1>2, <2>1, <2>3, <2>6
  <2>9. Unmetered(w) => NothingSpent
    BY <1>1, <2>3, <2>7 DEF Unmetered, NothingSpent, m, n
  <2>10. MeteredOne(w) => Spent
    <3>1. MeteredOne(w) => n <= m - 1
      BY DEF MeteredOne, m, n
    <3>2. MeteredOne(w) => MetersDue' <= MetersDue - 1
      BY <1>1, <2>3, <2>7, <3>1
    <3> QED BY <3>2 DEF MeteredOne, Spent
  <2> QED BY <2>1, <2>2, <2>8, <2>9, <2>10
<1> QED BY <1>4, <1>5, <1>6, <1>7, <1>8, StepCases

LEMMA SlotStep ==
  TypeInv /\ TypeInv' /\ DecideInv /\ DecideInv' /\ DueType' /\ SlotInv
    /\ [Next]_vars => SlotInv'
<1> SUFFICES ASSUME TypeInv, TypeInv', DecideInv, DecideInv', DueType', SlotInv,
                    [Next]_vars
             PROVE  SlotInv'
  OBVIOUS
<1>1. /\ budget \in Budgets /\ initial.evals \in Nat /\ dials \in Nat
      /\ RepCount \in Nat /\ CallsDue \in Nat
  BY RepCountType, DueWithin, EngineAssumption
     DEF TypeInv, TypeOK, Reachable, Budgets
<1>2. budget.evals \in Nat
  BY <1>1 DEF Budgets
<1>3. dials' \in Nat /\ CallsDue' \in Int
  <2>1. dials' \in Nat
    BY DEF TypeInv, TypeOK
  <2> QED BY <2>1 DEF DueType
<1>4. CASE Granted
  <2>1. budget'.evals = budget.evals + RepCount /\ UNCHANGED initial
    BY <1>1, <1>4, AcquireFacts, DueStep DEF Granted
  <2> QED BY <1>1, <1>2, <1>4, <2>1 DEF Granted, SlotInv
<1>5. CASE dials' + CallsDue' <= dials + CallsDue /\ (NothingSpent \/ Spent)
  <2>1. UNCHANGED initial
    BY DueStep
  <2>2. budget'.evals = budget.evals
    <3>1. CASE NothingSpent
      BY <3>1 DEF NothingSpent
    <3>2. CASE Spent
      <4>1. \A r \in Role, u \in TokenCosts \cup {0} :
              RecordUsage(budget, r, u).evals = budget.evals
        BY <1>1, RecordUsageFacts, EngineAssumption
      <4>2. {"executor", "judge"} \subseteq Role
        BY DEF Role
      <4> QED BY <3>2, <4>1, <4>2 DEF Spent
    <3> QED BY <1>5, <3>1, <3>2
  <2>3. initial'.evals = initial.evals
    BY <2>1
  <2>4. initial.evals + dials + CallsDue <= budget.evals
    BY DEF SlotInv
  <2>5. initial.evals + dials' + CallsDue' <= budget.evals
    <3>1. dials' + CallsDue' <= dials + CallsDue
      BY <1>5
    <3> DEFINE i == initial.evals
               b == budget.evals
               d == CallsDue'
               e == dials'
    <3>2. /\ i \in Nat /\ b \in Nat /\ d \in Int /\ e \in Nat
          /\ e + d <= dials + CallsDue /\ i + dials + CallsDue <= b
      BY <1>1, <1>2, <1>3, <2>4, <3>1
    <3> HIDE DEF i, b, d, e
    <3>3. i + e + d <= b
      BY <1>1, <3>2
    <3> QED BY <3>3 DEF i, b, d, e
  <2> QED BY <2>2, <2>3, <2>5 DEF SlotInv
<1> QED BY <1>4, <1>5, DueStep

\* More answers to come may cost more, one more by one cost.
LEMMA CostOf ==
  ASSUME NEW m \in Nat, NEW a \in Nat, NEW b \in Nat
  PROVE  /\ a <= b => a * m <= b * m
         /\ a <= b - 1 => a * m + m <= b * m
         /\ a * m \in Nat
<1>1. a * m \in Nat /\ b * m \in Nat
  OBVIOUS
<1>2. ASSUME a <= b PROVE a * m <= b * m
  <2>1. PICK k \in Nat : b = a + k
    <3>1. b - a \in Nat /\ b = a + (b - a)
      BY <1>2
    <3> QED BY <3>1
  <2>2. b * m = a * m + k * m /\ k * m \in Nat
    BY <2>1
  <2> DEFINE am == a * m
             km == k * m
             bm == b * m
  <2>3. bm = am + km /\ km \in Nat /\ am \in Nat
    BY <1>1, <2>2
  <2> HIDE DEF am, bm, km
  <2>4. am <= bm
    BY <2>3
  <2> QED BY <2>4 DEF am, bm
<1>3. ASSUME a <= b - 1 PROVE a * m + m <= b * m
  <2>1. PICK k \in Nat : b = a + 1 + k
    <3>1. b - a - 1 \in Nat /\ b = a + 1 + (b - a - 1)
      BY <1>3
    <3> QED BY <3>1
  <2>2. b * m = a * m + m + k * m /\ k * m \in Nat
    BY <2>1
  <2> DEFINE am == a * m
             km == k * m
             bm == b * m
  <2>3. bm = am + m + km /\ km \in Nat /\ am \in Nat
    BY <1>1, <2>2
  <2> HIDE DEF am, bm, km
  <2>4. am + m <= bm
    BY <2>3
  <2> QED BY <2>4 DEF am, bm
<1> QED BY <1>1, <1>2, <1>3

LEMMA LargestCost ==
  ASSUME CostsBounded
  PROVE  MaxCost \in Nat /\ \A c \in TokenCosts \cup {0} : c \in Nat /\ c <= MaxCost
<1>1. MaxCost \in TokenCosts /\ \A d \in TokenCosts : d <= MaxCost
  BY DEF CostsBounded, MaxCost
<1>2. TokenCosts \subseteq Nat
  BY EngineAssumption
<1> QED BY <1>1, <1>2

LEMMA OverStep ==
  ASSUME CostsBounded, TypeInv, TypeInv', DecideInv, DecideInv',
         DueType, DueType', OverInv, [Next]_vars
  PROVE  OverInv'
<1> DEFINE t == EvalTokens(budget)
           u == EvalTokens(budget')
           cost == MetersDue * MaxCost
           then == MetersDue' * MaxCost
           most == Room * MaxCost
<1>1. MaxCost \in Nat /\ \A c \in TokenCosts \cup {0} : c \in Nat /\ c <= MaxCost
  BY LargestCost
<1>2. budget \in Budgets /\ (budget.softStop <=> OverLimit(budget)) /\ t \in Nat
  BY DEF TypeInv, TypeOK, OverInv, Budgets, EvalTokens, Role
<1>3. Room \in Nat
  <2>1. Cardinality(Workers) \in Nat /\ RepCount * CallsPerRep \in Nat
    BY FS_CardinalityType, EngineAssumption, RepCountType, CallsPerRepType
  <2> QED BY <2>1 DEF Room
<1>4. /\ cost \in Nat /\ then \in Nat /\ most \in Nat /\ then <= most
      /\ MetersDue' <= MetersDue => then <= cost
      /\ MetersDue' <= MetersDue - 1 => then + MaxCost <= cost
  <2>1. MetersDue \in Nat /\ MetersDue' \in Nat /\ MetersDue' <= Room
    BY DEF DueType, Room
  <2> QED BY <1>1, <1>3, <2>1, CostOf
<1>5. UNCHANGED initial
  BY DueStep
<1>6. OverInv' <=> /\ budget'.softStop <=> OverLimit(budget')
                   /\ TokenLimit > 0 /\ ~ initial.softStop
                        => u + then <= TokenLimit + most
  BY <1>5 DEF OverInv, Room, OverLimit, EvalTokens
<1>7. TokenLimit > 0 /\ ~ initial.softStop => t + cost <= TokenLimit + most
  BY DEF OverInv
<1>8. TokenLimit \in Nat
  BY LimitAssumption
<1> HIDE DEF t, u, cost, then, most
<1>9. CASE Granted
  <2>1. ~ budget.softStop /\ budget'.softStop = budget.softStop
        /\ budget'.usage = budget.usage
    BY <1>2, <1>9 DEF Granted, CanAcquire, Acquire, Budgets
  <2>2. u = t /\ (OverLimit(budget') <=> OverLimit(budget))
    BY <2>1 DEF OverLimit, EvalTokens, u, t
  <2>3. TokenLimit > 0 => t <= TokenLimit
    BY <1>2, <1>8, <2>1 DEF OverLimit, t
  <2> QED BY <1>2, <1>4, <1>6, <1>8, <2>1, <2>2, <2>3
<1>10. CASE NothingSpent
  <2>1. u = t /\ budget' = budget /\ MetersDue' <= MetersDue
    BY <1>10 DEF NothingSpent, u, t
  <2>2. u + then <= t + cost
    BY <1>2, <1>4, <2>1
  <2> QED BY <1>2, <1>4, <1>6, <1>7, <1>8, <2>1, <2>2
<1>11. CASE Spent
  <2>1. PICK r \in {"executor", "judge"}, c \in TokenCosts \cup {0} :
          budget' = RecordUsage(budget, r, c)
    BY <1>11 DEF Spent
  <2>2. u = t + c /\ (budget'.softStop <=> OverLimit(budget'))
    BY <1>1, <1>2, <2>1, MeterFacts DEF u, t
  <2>3. MetersDue' <= MetersDue - 1
    BY <1>11 DEF Spent
  <2>4. u + then <= t + cost
    BY <1>1, <1>2, <1>4, <2>2, <2>3
  <2> QED BY <1>1, <1>2, <1>4, <1>6, <1>7, <1>8, <2>2, <2>4
<1> QED BY <1>9, <1>10, <1>11, DueStep

\* At the start nobody has a call before it.
LEMMA LimitsInit ==
  Init => DecideInv /\ SlotInv /\ (CostsBounded => OverInv)
<1> SUFFICES ASSUME Init PROVE DecideInv /\ SlotInv /\ (CostsBounded => OverInv)
  OBVIOUS
<1>1. /\ budget \in StartBudgets /\ initial = budget /\ dials = 0
      /\ dispatch = "check"
      /\ \A w \in Workers : at[w] = "idle"
  BY DEF Init
<1>2. DecideInv
  BY <1>1 DEF DecideInv
<1>3. \A w \in Workers : Calls[w] = 0 /\ Meters[w] = 0
  <2>1. CallsPerRep \in Nat
    BY CallsPerRepType
  <2> QED BY <1>1, <2>1 DEF Calls, Meters, CallsAt, MetersAt, OwnAt
<1>4. SumFunctionOnSet(Calls, Workers) = 0 /\ SumFunctionOnSet(Meters, Workers) = 0
  <2>1. /\ SumFunctionOnSet(Calls, Workers) \in Nat
        /\ SumFunctionOnSet(Meters, Workers) \in Nat
        /\ SumFunctionOnSet(Calls, Workers) <= Cardinality(Workers) * 0
        /\ SumFunctionOnSet(Meters, Workers) <= Cardinality(Workers) * 0
    <3>1. \A w \in Workers : Calls[w] \in 0 .. 0 /\ Meters[w] \in 0 .. 0
      BY <1>3
    <3> HIDE DEF Calls, Meters
    <3> QED BY <3>1, SumWithin, EngineAssumption
  <2>2. Cardinality(Workers) * 0 = 0
    BY FS_CardinalityType, EngineAssumption
  <2> QED BY <2>1, <2>2
<1>5. AtChannel = 0 /\ CallsDue = 0
  BY <1>1, <1>4 DEF AtChannel, CallsDue
<1>6. MetersDue = 0
  BY <1>4, <1>5, CallsPerRepType DEF MetersDue
<1>7. budget \in Budgets /\ (budget.softStop <=> OverLimit(budget))
  BY <1>1, EngineAssumption DEF Reachable
<1>8. SlotInv
  BY <1>1, <1>5, <1>7 DEF SlotInv, Budgets
<1>9. ASSUME CostsBounded PROVE OverInv
  <2>1. MaxCost \in Nat /\ Room \in Nat
    <3>1. Cardinality(Workers) \in Nat /\ RepCount * CallsPerRep \in Nat
      BY FS_CardinalityType, EngineAssumption, RepCountType, CallsPerRepType
    <3> QED BY <1>9, <3>1, LargestCost DEF Room
  <2>2. Room * MaxCost \in Nat /\ MetersDue * MaxCost = 0
    BY <1>6, <2>1
  <2> DEFINE most == Room * MaxCost
             cost == MetersDue * MaxCost
  <2>3. EvalTokens(budget) \in Nat /\ TokenLimit \in Nat
    BY <1>7, LimitAssumption DEF EvalTokens, Budgets, Role
  <2>4. initial.softStop = budget.softStop
    BY <1>1
  <2>5. most \in Nat /\ cost = 0
    BY <2>2
  <2> HIDE DEF most, cost
  <2>6. TokenLimit > 0 /\ ~ initial.softStop
          => EvalTokens(budget) + cost <= TokenLimit + most
    BY <1>7, <2>3, <2>4, <2>5 DEF OverLimit
  <2> QED BY <1>7, <2>6 DEF OverInv, most, cost
<1> QED BY <1>2, <1>8, <1>9

LEMMA SlotsHold == Spec => [](TypeInv /\ DecideInv /\ DueType /\ SlotInv)
<1>1. TypeInv /\ DecideInv => DueType
  BY DueWithin DEF DueType
<1>2. Init => DecideInv /\ SlotInv
  BY LimitsInit
<1> QED BY <1>1, <1>2, DecideStep, SlotStep, Invariants, PTL DEF Spec

\* No executor call is made without a slot reserved for it, whichever sample
\* fails and whatever it leaves unused (TryAcquireEvals before the dispatch).
THEOREM CallsHaveSlotsHolds == Spec => []CallsHaveSlots
<1>1. TypeInv /\ DueType /\ SlotInv => CallsHaveSlots
  <2> SUFFICES ASSUME TypeInv, DueType, SlotInv PROVE CallsHaveSlots
    OBVIOUS
  <2>1. /\ budget.evals \in Nat /\ initial.evals \in Nat /\ dials \in Nat
        /\ CallsDue \in Nat
    BY EngineAssumption DEF TypeInv, TypeOK, Reachable, Budgets, DueType
  <2> QED BY <2>1 DEF SlotInv, CallsHaveSlots
<1> QED BY <1>1, SlotsHold, PTL

\* However many workers meter answers behind a soft stop, the overshoot is what
\* a full pool and the sample at the channel may spend, if one call has a
\* largest cost.
THEOREM OvershootBoundedHolds ==
  ASSUME CostsBounded
  PROVE  Spec => []OvershootBounded
<1>1. TypeInv /\ DueType /\ OverInv => OvershootBounded
  <2> SUFFICES ASSUME TypeInv, DueType, OverInv, TokenLimit > 0, ~ initial.softStop
               PROVE  EvalTokens(budget) <= TokenLimit
                        + (Cardinality(Workers) + 1) * RepCount * CallsPerRep
                            * MaxCost
    BY DEF OvershootBounded
  <2>1. /\ MaxCost \in Nat /\ RepCount \in Nat /\ CallsPerRep \in Nat
        /\ Cardinality(Workers) \in Nat
    BY LargestCost, RepCountType, CallsPerRepType, FS_CardinalityType,
       EngineAssumption
  <2>2. (Cardinality(Workers) + 1) * RepCount * CallsPerRep = Room
    BY <2>1 DEF Room
  <2>3. MetersDue * MaxCost \in Nat
    BY <2>1 DEF DueType
  <2>4. EvalTokens(budget) + MetersDue * MaxCost <= TokenLimit + Room * MaxCost
    BY DEF OverInv
  <2>5. EvalTokens(budget) \in Nat /\ TokenLimit \in Nat /\ Room * MaxCost \in Nat
    <3>1. Room \in Nat
      BY <2>1 DEF Room
    <3> QED BY <2>1, <3>1, LimitAssumption
            DEF EvalTokens, TypeInv, TypeOK, Budgets, Role
  <2> DEFINE cost == MetersDue * MaxCost
             most == Room * MaxCost
  <2>6. EvalTokens(budget) <= TokenLimit + most
    <3>1. cost \in Nat /\ most \in Nat
          /\ EvalTokens(budget) + cost <= TokenLimit + most
      BY <2>3, <2>4, <2>5
    <3> HIDE DEF cost, most
    <3> QED BY <2>5, <3>1
  <2> QED BY <2>2, <2>6
<1>2. /\ Init => OverInv
      /\ TypeInv /\ TypeInv' /\ DecideInv /\ DecideInv' /\ DueType /\ DueType'
           /\ OverInv /\ [Next]_vars => OverInv'
  BY LimitsInit, OverStep
<1> QED BY <1>1, <1>2, SlotsHold, PTL DEF Spec

-----------------------------------------------------------------------------
(* The properties as the runs check them. *)

\* The limits hold (EvalLimitHeld, CallsHaveSlots, OvershootBounded).
THEOREM LimitsHeldHolds ==
  ASSUME CostsBounded
  PROVE  Spec => []LimitsHeld
<1>1. EvalLimitHeld /\ CallsHaveSlots /\ OvershootBounded => LimitsHeld
  BY DEF LimitsHeld
<1> QED BY <1>1, EvalLimitIsHeld, CallsHaveSlotsHolds, OvershootBoundedHolds, PTL

\* A stop lets one sample in and is announced (AtMostOneLateStart,
\* StopAnnounced).
THEOREM StopsInOrderHolds == Spec => []StopsInOrder
<1>1. AtMostOneLateStart /\ StopAnnounced => StopsInOrder
  BY DEF StopsInOrder
<1> QED BY <1>1, AtMostOneLateStartHolds, StopAnnouncedHolds, PTL

\* What the report says is final and true (OneWorkerPerSample, RunDoneIsLast,
\* ExhaustionIsReal).
THEOREM ReportIsFinalHolds == Spec => []ReportIsFinal
<1>1. OneWorkerPerSample /\ RunDoneIsLast /\ ExhaustionIsReal => ReportIsFinal
  BY DEF ReportIsFinal
<1> QED BY <1>1, OneWorkerPerSampleHolds, RunDoneIsLastHolds,
           ExhaustionIsRealHolds, PTL

-----------------------------------------------------------------------------
(* Refinement. *)

\* Every step of the run is a step of its contract or changes nothing the
\* contract can see.
THEOREM ImplementsContractSafely == Spec => Contract!Init /\ [][Contract!Next]_Contract!vars
<1> USE DEF Contract!vars, dispatcherVars, workerVars, eventVars, historyVars
<1>1. Init => Contract!Init
  BY DEF Init, Contract!Init, Contract!Samples, Samples
<1>2. TypeInv /\ DispatchInv /\ [Next]_vars => [Contract!Next]_Contract!vars
  <2> SUFFICES ASSUME TypeInv, DispatchInv, [Next]_vars
               PROVE  Contract!Next \/ UNCHANGED <<outcome, cancelled, status>>
    BY DEF Contract!Next
  <2> DEFINE P == {s \in Samples : outcome[s] = "pending"}
  <2>0. Contract!Pending = P
    BY DEF Contract!Pending, Contract!Samples, Samples
  <2>1. CASE CheckContext
    <3>1. CASE next \in Samples /\ cancelled
      <4>1. Rest \in (SUBSET P) \ {{}}
        <5>1. Rest \subseteq P
          BY <2>1, <3>1 DEF CheckContext, Rest, DispatchInv, SampleInv
        <5>2. next \in Rest
          BY <3>1, SampleAssumption DEF Rest, Samples
        <5>3. QED BY <5>1, <5>2
      <4>2. outcome' = [s \in Samples |-> IF s \in Rest THEN "undispatched"
                                                        ELSE outcome[s]]
        BY <2>1, <3>1 DEF CheckContext
      <4>3. Contract!Resolve
        BY <2>0, <2>1, <4>1, <4>2
           DEF Contract!Resolve, Contract!Samples, Samples, CheckContext
      <4>4. QED BY <4>3 DEF Contract!Next
    <3>2. CASE ~ (next \in Samples /\ cancelled)
      BY <2>1, <3>2 DEF CheckContext
    <3>3. QED BY <3>1, <3>2
  <2>2. CASE AcquireSlots
    <3>1. CASE CanAcquire(budget, RepCount)
      BY <2>2, <3>1 DEF AcquireSlots
    <3>2. CASE ~ CanAcquire(budget, RepCount)
      <4>1. next \in Samples /\ outcome[next] = "pending"
        BY <2>2 DEF AcquireSlots, TypeInv, IndexOK, DispatchInv, SampleInv, Samples
      <4>2. {next} \in (SUBSET P) \ {{}}
        <5>1. {next} \subseteq P /\ next \in {next}
          BY <4>1
        <5>2. QED BY <5>1, Zenon
      <4>3. outcome' = [s \in Samples |-> IF s \in {next} THEN "undispatched"
                                                          ELSE outcome[s]]
        BY <2>2, <3>2, <4>1 DEF AcquireSlots, TypeInv, TypeOK
      <4>4. Contract!Resolve
        BY <2>0, <2>2, <4>2, <4>3
           DEF Contract!Resolve, Contract!Samples, Samples, AcquireSlots
      <4>5. QED BY <4>4 DEF Contract!Next
    <3>3. QED BY <3>1, <3>2
  <2>3. CASE Conclude
    <3>1. status = "running"
      BY <2>3 DEF Conclude, DispatchInv, EndInv
    <3>2. P = {}
      <4> SUFFICES ASSUME NEW s \in Samples, outcome[s] = "pending" PROVE FALSE
        OBVIOUS
      <4>1. s \in started \ finished
        BY <2>3 DEF Conclude, DispatchInv, SampleInv
      <4>2. QED
        BY <2>3, <4>1 DEF Conclude, WorkersGone, DispatchInv, PoolInv
    <3>3. \A v : v \in Contract!Verdicts <=> Some(v)
      BY DEF Contract!Verdicts, Contract!Samples, Samples, Some
    <3>4. FinalStatus = IF cancelled THEN "aborted"
                        ELSE IF "undispatched" \in Contract!Verdicts THEN "budget_exhausted"
                        ELSE IF "failed" \in Contract!Verdicts THEN "failed"
                        ELSE "completed"
      <4>1. CASE cancelled
        BY <4>1 DEF FinalStatus
      <4>2. CASE ~ cancelled /\ Some("undispatched")
        BY <3>3, <4>2 DEF FinalStatus
      <4>3. CASE ~ cancelled /\ ~ Some("undispatched") /\ Some("failed")
        BY <3>3, <4>3 DEF FinalStatus
      <4>4. CASE ~ cancelled /\ ~ Some("undispatched") /\ ~ Some("failed")
        BY <3>3, <4>4 DEF FinalStatus
      <4>5. QED BY <4>1, <4>2, <4>3, <4>4
    <3>5. Contract!Report
      BY <2>0, <2>3, <3>1, <3>2, <3>4 DEF Contract!Report, Conclude
    <3>6. QED BY <3>5 DEF Contract!Next
  <2>4. ASSUME NEW w \in Workers, HandOff(w) \/ Inside(w)
        PROVE  UNCHANGED <<outcome, cancelled, status>>
    BY <2>4, InsideFrame DEF HandOff
  <2>5. ASSUME NEW w \in Workers, FinishSample(w) PROVE Contract!Next
    <3>1. job[w] \in P
      BY <2>5 DEF FinishSample, DispatchInv, PoolInv, SampleInv, TypeInv, TypeOK,
                  IndexOK, Outcome
    <3>2. Contract!Resolve
      BY <2>0, <2>5, <3>1 DEF Contract!Resolve, FinishSample
    <3>3. QED BY <3>2 DEF Contract!Next
  <2>6. CASE Cancel
    BY <2>6 DEF Cancel, Contract!Next, Contract!Interrupt
  <2>7. CASE UNCHANGED vars
    BY <2>7 DEF vars
  <2>8. QED
    BY <2>1, <2>2, <2>3, <2>4, <2>5, <2>6, <2>7, StepCases
<1>3. QED
  BY <1>1, <1>2, Invariants, PTL DEF Spec

=============================================================================
