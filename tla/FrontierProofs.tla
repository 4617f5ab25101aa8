--------------------------- MODULE FrontierProofs ---------------------------
(***************************************************************************)
(* Theorems about Frontier, for every set of cells, scores, deviations and *)
(* for any number of children.                                             *)
(*                                                                         *)
(* The margins differ from pair to pair and beating is not transitive, so  *)
(* the proofs use only what survives: beating implies being as good on     *)
(* every cell (BeatsIsAbove), which is transitive, and sameness is         *)
(* symmetric and within the noise.  A member that leaves does so for one   *)
(* that is as good on every cell (CoverKept).                              *)
(***************************************************************************)
EXTENDS Frontier, TLAPS, FiniteSetTheorems, WellFoundedInduction

-----------------------------------------------------------------------------
(* Finite sets of numbered candidates: sums over the cells, and the first of *)
(* an order.  The induction is over the set of sizes a fact holds of.        *)

\* Every nonempty set of numbers has a least element.
LEMMA LeastNumber ==
  ASSUME NEW T \in SUBSET Nat, T # {}
  PROVE  \E n \in T : \A m \in T : n <= m
<1>1. ASSUME NEW m \in Nat, NEW n \in Nat, m < n
      PROVE  <<m, n>> \in OpToRel(<, Nat)
  <2>1. <<m, n>>[1] < <<m, n>>[2] /\ <<m, n>> \in Nat \X Nat
    BY <1>1
  <2> QED BY <2>1, Zenon DEF OpToRel
<1>2. PICK n \in T : \A m \in T : <<m, n>> \notin OpToRel(<, Nat)
  BY NatLessThanWellFounded, WFMin
<1>3. \A m \in T : ~ (m < n)
  BY <1>1, <1>2, Zenon
<1> QED BY <1>3

\* Induction over the numbers, stated of the set it is to hold of.
LEMMA NumberInduction ==
  ASSUME NEW P \in SUBSET Nat, 0 \in P, \A n \in P : n + 1 \in P
  PROVE  P = Nat
<1> SUFFICES ASSUME Nat \ P # {} PROVE FALSE
  OBVIOUS
<1>1. PICK n \in Nat \ P : \A m \in Nat \ P : n <= m
  BY LeastNumber
<1>2. n # 0 /\ n - 1 \in Nat
  BY <1>1
<1>3. n - 1 \in P
  BY <1>1, <1>2
<1> QED BY <1>1, <1>2, <1>3

\* A nonempty part of a finite set is an element and a smaller part.
LEMMA OneLess ==
  ASSUME NEW S, IsFiniteSet(S), NEW T \in SUBSET S, NEW x \in T
  PROVE  /\ IsFiniteSet(T) /\ Cardinality(T) \in Nat
         /\ T \ {x} \in SUBSET S /\ Cardinality(T \ {x}) = Cardinality(T) - 1
BY FS_Subset, FS_CardinalityType, FS_RemoveElement

\* Only the empty part has no elements.
LEMMA Sizes ==
  ASSUME NEW S, IsFiniteSet(S)
  PROVE  \A T \in SUBSET S : /\ Cardinality(T) \in Nat
                             /\ Cardinality(T) = 0 <=> T = {}
                             /\ Cardinality(T) <= Cardinality(S)
BY FS_Subset, FS_CardinalityType, FS_EmptySet

\* The fold behind SumFunctionOnSet: at each set an element of its, and what
\* the fold gives for the rest.
Picked(s) == CHOOSE x \in s : TRUE
TallyAt(g, f, s) == IF s = {} THEN 0 ELSE f[Picked(s)] + g[s \ {Picked(s)}]
IsTally(g, f, S) == g = [s \in SUBSET S |-> TallyAt(g, f, s)]
Tally(f, S) == CHOOSE g : IsTally(g, f, S)

LEMMA PickedFrom ==
  ASSUME NEW S, IsFiniteSet(S), NEW T \in SUBSET S, T # {}
  PROVE  /\ Picked(T) \in T /\ T \ {Picked(T)} \in SUBSET S
         /\ Cardinality(T) \in Nat
         /\ Cardinality(T \ {Picked(T)}) = Cardinality(T) - 1
<1>1. Picked(T) \in T
  BY DEF Picked
<1> QED BY <1>1, OneLess

\* Every finite set has a tally: one that is right up to some size gives one
\* that is right up to the next.
LEMMA TallyExists ==
  ASSUME NEW S, IsFiniteSet(S), NEW f
  PROVE  \E g : IsTally(g, f, S)
<1> DEFINE Right(g, n) == \A T \in SUBSET S :
                            Cardinality(T) <= n => g[T] = TallyAt(g, f, T)
           P == {n \in Nat : \E g : Right(g, n)}
<1>1. 0 \in P
  <2>1. Right([T \in SUBSET S |-> 0], 0)
    BY Sizes DEF TallyAt
  <2> QED BY <2>1
<1>2. ASSUME NEW n \in P PROVE n + 1 \in P
  <2>1. PICK g : Right(g, n)
    OBVIOUS
  <2> DEFINE h == [T \in SUBSET S |-> TallyAt(g, f, T)]
  <2>2. ASSUME NEW T \in SUBSET S, Cardinality(T) <= n + 1
        PROVE  h[T] = TallyAt(h, f, T)
    <3>1. CASE T = {}
      BY <3>1 DEF TallyAt
    <3>2. CASE T # {}
      <4> DEFINE U == T \ {Picked(T)}
      <4>1. n \in Nat
        OBVIOUS
      <4>2. U \in SUBSET S /\ Cardinality(U) <= n
        BY <2>2, <3>2, <4>1, PickedFrom
      <4>3. h[U] = g[U]
        BY <2>1, <4>2
      <4> QED BY <3>2, <4>3 DEF TallyAt
    <3> QED BY <3>1, <3>2
  <2>3. Right(h, n + 1)
    BY <2>2
  <2> HIDE DEF h, Right
  <2>4. \E k : Right(k, n + 1)
    BY <2>3, Zenon
  <2>5. n + 1 \in Nat
    OBVIOUS
  <2> QED BY <2>4, <2>5, Zenon
<1> HIDE DEF P
<1>3. P = Nat
  BY <1>1, <1>2, NumberInduction DEF P
<1>4. PICK g : Right(g, Cardinality(S))
  BY <1>3, Sizes DEF P
<1>5. \A T \in SUBSET S : g[T] = TallyAt(g, f, T)
  BY <1>4, Sizes
<1> DEFINE h == [T \in SUBSET S |-> TallyAt(g, f, T)]
<1>6. \A T \in SUBSET S : h[T] = TallyAt(h, f, T)
  <2> SUFFICES ASSUME NEW T \in SUBSET S PROVE h[T] = TallyAt(h, f, T)
    OBVIOUS
  <2>1. CASE T = {}
    BY <2>1 DEF TallyAt
  <2>2. CASE T # {}
    <3>1. h[T \ {Picked(T)}] = g[T \ {Picked(T)}]
      BY <1>5, <2>2, PickedFrom
    <3> QED BY <2>2, <3>1 DEF TallyAt
  <2> QED BY <2>1, <2>2
<1>7. IsTally(h, f, S)
  BY <1>6 DEF IsTally
<1> QED BY <1>7

\* The sum is the tally of the whole set.
LEMMA SumOfTally ==
  ASSUME NEW S, IsFiniteSet(S), NEW f
  PROVE  /\ SumFunctionOnSet(f, S) = Tally(f, S)[S]
         /\ \A T \in SUBSET S : Tally(f, S)[T] = TallyAt(Tally(f, S), f, T)
<1>1. IsTally(Tally(f, S), f, S)
  BY TallyExists DEF Tally
<1>2. SumFunctionOnSet(f, S) = Tally(f, S)[S]
  BY DEF SumFunctionOnSet, FoldFunctionOnSet, MapThenFoldSet, Tally, IsTally,
         TallyAt, Picked
<1> QED BY <1>1, <1>2 DEF IsTally

\* Sums of numbers are numbers, and a row that is nowhere below another has no
\* smaller sum.
LEMMA SumIsMonotone ==
  ASSUME NEW S, IsFiniteSet(S), NEW e, NEW f,
         \A x \in S : e[x] \in Int /\ f[x] \in Int /\ e[x] <= f[x]
  PROVE  /\ SumFunctionOnSet(e, S) \in Int /\ SumFunctionOnSet(f, S) \in Int
         /\ SumFunctionOnSet(e, S) <= SumFunctionOnSet(f, S)
         /\ (\E x \in S : e[x] < f[x]) =>
              SumFunctionOnSet(e, S) < SumFunctionOnSet(f, S)
<1> DEFINE g == Tally(e, S)
           h == Tally(f, S)
<1>1. /\ SumFunctionOnSet(e, S) = g[S]
      /\ \A T \in SUBSET S : g[T] = TallyAt(g, e, T)
  BY SumOfTally
<1>2. /\ SumFunctionOnSet(f, S) = h[S]
      /\ \A T \in SUBSET S : h[T] = TallyAt(h, f, T)
  BY SumOfTally
<1> HIDE DEF g, h
<1> DEFINE Holds(T) == /\ g[T] \in Int /\ h[T] \in Int /\ g[T] <= h[T]
                       /\ (\E x \in T : e[x] < f[x]) => g[T] < h[T]
           P == {n \in Nat : \A T \in SUBSET S : Cardinality(T) = n => Holds(T)}
<1>0. g[{}] = 0 /\ h[{}] = 0
  BY <1>1, <1>2 DEF TallyAt
<1>3. 0 \in P
  BY <1>0, Sizes
<1>4. ASSUME NEW n \in P PROVE n + 1 \in P
  <2> SUFFICES ASSUME NEW T \in SUBSET S, Cardinality(T) = n + 1
               PROVE  Holds(T)
    OBVIOUS
  <2> DEFINE p == Picked(T)
             U == T \ {p}
  <2>1. n \in Nat /\ T # {}
    BY Sizes
  <2>2. p \in T /\ U \in SUBSET S /\ Cardinality(U) = n
    BY <2>1, PickedFrom
  <2>3. g[T] = e[p] + g[U] /\ h[T] = f[p] + h[U]
    BY <1>1, <1>2, <2>1 DEF TallyAt
  <2>4. Holds(U)
    BY <2>2
  <2>5. e[p] \in Int /\ f[p] \in Int /\ e[p] <= f[p]
    BY <2>2
  <2>6. \A x \in T : x = p \/ x \in U
    OBVIOUS
  <2> HIDE DEF p, U
  <2>7. g[T] \in Int /\ h[T] \in Int /\ g[T] <= h[T]
    BY <2>3, <2>4, <2>5
  <2>8. ASSUME NEW x \in T, e[x] < f[x] PROVE g[T] < h[T]
    BY <2>3, <2>4, <2>5, <2>6, <2>8
  <2> QED BY <2>7, <2>8
<1> HIDE DEF P
<1>5. P = Nat
  BY <1>3, <1>4, NumberInduction DEF P
<1>6. Holds(S)
  BY <1>5, Sizes DEF P
<1> QED BY <1>1, <1>2, <1>6

\* A total and transitive relation has a first element in every finite set.
LEMMA FirstOfOrder ==
  ASSUME NEW S, IsFiniteSet(S), S # {}, NEW R,
         \A x, y \in S : x # y => <<x, y>> \in R \/ <<y, x>> \in R,
         \A x, y, z \in S : <<x, y>> \in R /\ <<y, z>> \in R => <<x, z>> \in R
  PROVE  \E x \in S : \A y \in S \ {x} : <<x, y>> \in R
<1> DEFINE Has(T) == T = {} \/ \E x \in T : \A y \in T \ {x} : <<x, y>> \in R
           P == {n \in Nat : \A T \in SUBSET S : Cardinality(T) = n => Has(T)}
<1>1. 0 \in P
  BY Sizes
<1>2. ASSUME NEW n \in P PROVE n + 1 \in P
  <2> SUFFICES ASSUME NEW U \in SUBSET S, Cardinality(U) = n + 1
               PROVE  Has(U)
    OBVIOUS
  <2>1. PICK x \in U : TRUE
    BY Sizes
  <2> DEFINE T == U \ {x}
  <2>2. T \in SUBSET S /\ Cardinality(T) = n
    BY OneLess
  <2>3. CASE T = {}
    BY <2>1, <2>3
  <2>4. CASE T # {}
    <3>1. PICK t \in T : \A y \in T \ {t} : <<t, y>> \in R
      BY <2>2, <2>4
    <3>2. CASE <<t, x>> \in R
      <4>1. \A y \in U \ {t} : <<t, y>> \in R
        BY <3>1, <3>2
      <4> QED BY <4>1
    <3>3. CASE <<x, t>> \in R
      <4>1. \A y \in U \ {x} : <<x, y>> \in R
        BY <3>1, <3>3
      <4> QED BY <4>1
    <3> QED BY <3>1, <3>2, <3>3
  <2> QED BY <2>3, <2>4
<1> HIDE DEF P
<1>3. P = Nat
  BY <1>1, <1>2, NumberInduction DEF P
<1> QED BY <1>3, Sizes DEF P

\* The order of First is total on candidates with ids of their own, and
\* transitive, when their keys have one length.
LEMMA BeforeIsOrder ==
  ASSUME NEW n \in {1, 2}, NEW x, NEW y, NEW z,
         x.id \in Int, y.id \in Int, z.id \in Int,
         NEW k \in [1 .. n -> Int], NEW l \in [1 .. n -> Int],
         NEW m \in [1 .. n -> Int]
  PROVE  /\ x.id # y.id => Before(x, k, y, l) \/ Before(y, l, x, k)
         /\ Before(x, k, y, l) /\ Before(y, l, z, m) => Before(x, k, z, m)
<1>1. CASE n = 1
  <2>1. \A a, b \in [1 .. 1 -> Int] : a = b <=> a[1] = b[1]
    OBVIOUS
  <2>2. ASSUME NEW u, NEW v, NEW a \in [1 .. 1 -> Int], NEW b \in [1 .. 1 -> Int]
        PROVE  Before(u, a, v, b) <=> a[1] > b[1] \/ (a[1] = b[1] /\ u.id < v.id)
    BY <2>1 DEF Before
  <2> QED BY <1>1, <2>2
<1>2. CASE n = 2
  <2>1. \A a, b \in [1 .. 2 -> Int] : a = b <=> a[1] = b[1] /\ a[2] = b[2]
    OBVIOUS
  <2>2. ASSUME NEW u, NEW v, NEW a \in [1 .. 2 -> Int], NEW b \in [1 .. 2 -> Int]
        PROVE  Before(u, a, v, b) <=>
                 \/ a[1] > b[1]
                 \/ a[1] = b[1] /\ a[2] > b[2]
                 \/ a[1] = b[1] /\ a[2] = b[2] /\ u.id < v.id
    BY <2>1 DEF Before
  <2> QED BY <1>2, <2>2
<1> QED BY <1>1, <1>2

\* First finds its candidate.
LEMMA FirstExists ==
  ASSUME NEW n \in {1, 2}, NEW S, IsFiniteSet(S), S # {},
         \A x \in S : x.id \in Int,
         \A x, y \in S : x.id = y.id => x = y,
         NEW key, \A x \in S : key[x] \in [1 .. n -> Int]
  PROVE  /\ First(S, key) \in S
         /\ \A y \in S \ {First(S, key)} :
              Before(First(S, key), key[First(S, key)], y, key[y])
<1> DEFINE R == {e \in S \X S : Before(e[1], key[e[1]], e[2], key[e[2]])}
<1>1. \A x, y \in S : <<x, y>> \in R <=> Before(x, key[x], y, key[y])
  OBVIOUS
<1>2. ASSUME NEW x \in S, NEW y \in S, x # y
      PROVE  Before(x, key[x], y, key[y]) \/ Before(y, key[y], x, key[x])
  <2>1. x.id # y.id
    BY <1>2
  <2> QED BY <2>1, BeforeIsOrder
<1>3. ASSUME NEW x \in S, NEW y \in S, NEW z \in S,
             Before(x, key[x], y, key[y]), Before(y, key[y], z, key[z])
      PROVE  Before(x, key[x], z, key[z])
  BY <1>3, BeforeIsOrder
<1> HIDE DEF R
<1>4. /\ \A x, y \in S : x # y => <<x, y>> \in R \/ <<y, x>> \in R
      /\ \A x, y, z \in S : <<x, y>> \in R /\ <<y, z>> \in R => <<x, z>> \in R
  BY <1>1, <1>2, <1>3
<1>5. \E x \in S : \A y \in S \ {x} : <<x, y>> \in R
  BY <1>4, FirstOfOrder
<1>6. \E x \in S : \A y \in S \ {x} : Before(x, key[x], y, key[y])
  BY <1>1, <1>5
<1> QED BY <1>6 DEF First

-----------------------------------------------------------------------------

USE ScoreAssumption, CellAssumption

Rows == [Cells -> Int]

-----------------------------------------------------------------------------
(* The comparisons. *)

\* A row is as good as itself, and as-good-as is transitive.
LEMMA BelowOrder ==
  ASSUME NEW a \in Rows, NEW b \in Rows, NEW c \in Rows
  PROVE  /\ Below(a, a)
         /\ Below(a, b) /\ Below(b, c) => Below(a, c)
BY DEF Rows, Below

\* A candidate's row and its deviations are numbers, the latter within the
\* noise.
LEMMA CandidateType ==
  ASSUME NEW x \in Candidate
  PROVE  x.row \in Rows /\ x.sd \in [Cells -> 0 .. MaxNoise]
BY DEF Candidate, Rows

\* The margin of a pair lies within the noise on every cell, and is the same
\* for the pair turned round.
LEMMA MarginWithinNoise ==
  ASSUME NEW x \in Candidate, NEW y \in Candidate
  PROVE  /\ \A c \in Cells : MarginOf(x, y)[c] \in 0 .. MaxNoise
         /\ MarginOf(x, y) = MarginOf(y, x)
<1>1. x.sd \in [Cells -> 0 .. MaxNoise] /\ y.sd \in [Cells -> 0 .. MaxNoise]
  BY CandidateType
<1>2. \A c \in Cells : MarginOf(x, y)[c] = MarginOf(y, x)[c]
  BY <1>1 DEF MarginOf
<1> QED BY <1>1, <1>2 DEF MarginOf

\* Beating, by whatever margin, implies being as good on every cell
\* (DominatesWithMargin against Dominates, with margins that are never
\* negative).
LEMMA BeatsIsAbove ==
  ASSUME NEW x \in Candidate, NEW y \in Candidate, Beats(x, y)
  PROVE  Below(y.row, x.row)
<1>1. x.row \in Rows /\ y.row \in Rows
  BY CandidateType
<1>2. CASE BothRepeated(x, y)
  <2>1. \A c \in Cells : x.row[c] >= y.row[c] + MarginOf(x, y)[c]
    BY <1>2 DEF Beats, DominatesWithMargin
  <2> QED BY <1>1, <2>1, MarginWithinNoise DEF Below, Rows
<1>3. CASE ~ BothRepeated(x, y)
  BY <1>3 DEF Beats, Dominates
<1> QED BY <1>2, <1>3

\* Being indistinguishable is symmetric.
LEMMA SameSymmetric ==
  ASSUME NEW x \in Candidate, NEW y \in Candidate, Same(x, y)
  PROVE  Same(y, x)
<1>1. MarginOf(x, y) = MarginOf(y, x)
  BY MarginWithinNoise
<1> QED BY <1>1 DEF Same, BothRepeated, IsEpsClone

\* Indistinguishable rows differ by no more than the noise.
LEMMA SameWithinNoise ==
  ASSUME NEW x \in Candidate, NEW y \in Candidate, Same(x, y)
  PROVE  \A c \in Cells : y.row[c] <= x.row[c] + MaxNoise
<1>1. x.row \in Rows /\ y.row \in Rows
  BY CandidateType
<1>2. CASE BothRepeated(x, y)
  <2> SUFFICES ASSUME NEW c \in Cells
               PROVE  y.row[c] <= x.row[c] + MaxNoise
    OBVIOUS
  <2>1. PICK d \in Cells : y.row[c] - x.row[c] <= MarginOf(x, y)[d]
    BY <1>2 DEF Same, IsEpsClone
  <2>2. MarginOf(x, y)[d] \in 0 .. MaxNoise
    BY MarginWithinNoise
  <2> QED BY <1>1, <2>1, <2>2 DEF Rows
<1>3. CASE ~ BothRepeated(x, y)
  BY <1>1, <1>3 DEF Same, Rows
<1> QED BY <1>2, <1>3

-----------------------------------------------------------------------------
(* What one admission keeps. *)

\* A row that some member matches up to a slack is matched up to the same
\* slack after any admission.
LEMMA CoverKept ==
  ASSUME NEW S \in SUBSET Candidate, NEW m \in Candidate,
         NEW r \in Rows, NEW k \in Nat,
         \E x \in S : \A c \in Cells : r[c] <= x.row[c] + k
  PROVE  \E x \in AddNoiseAware(S, m) : \A c \in Cells : r[c] <= x.row[c] + k
<1>1. PICK x \in S : \A c \in Cells : r[c] <= x.row[c] + k
  OBVIOUS
<1>2. CASE x \in AddNoiseAware(S, m)
  BY <1>1, <1>2
<1>3. CASE x \notin AddNoiseAware(S, m)
  <2>1. Beats(m, x) /\ m \in AddNoiseAware(S, m)
    BY <1>3 DEF AddNoiseAware, Evicted
  <2>2. Below(x.row, m.row)
    BY <2>1, BeatsIsAbove
  <2>3. x.row \in Rows /\ m.row \in Rows
    BY CandidateType
  <2>4. \A c \in Cells : r[c] <= m.row[c] + k
    BY <1>1, <2>2, <2>3 DEF Below, Rows
  <2> QED BY <2>1, <2>4
<1> QED BY <1>2, <1>3

\* A candidate that has just been offered is matched up to the noise: by
\* itself or by the member it was refused for.
LEMMA NewcomerCovered ==
  ASSUME NEW S \in SUBSET Candidate, NEW m \in Candidate
  PROVE  \E x \in AddNoiseAware(S, m) :
           \A c \in Cells : m.row[c] <= x.row[c] + MaxNoise
<1>1. CASE Refused(S, m)
  <2>1. PICK x \in S : Beats(x, m) \/ Same(x, m)
    BY <1>1 DEF Refused
  <2>2. CASE Beats(x, m)
    <3>1. Below(m.row, x.row)
      BY <2>2, BeatsIsAbove
    <3>2. x.row \in Rows /\ m.row \in Rows
      BY CandidateType
    <3> QED BY <1>1, <3>1, <3>2 DEF AddNoiseAware, Below, Rows
  <2>3. CASE Same(x, m)
    BY <1>1, <2>3, SameWithinNoise DEF AddNoiseAware
  <2> QED BY <2>1, <2>2, <2>3
<1>2. CASE ~ Refused(S, m)
  <2>1. m \in AddNoiseAware(S, m)
    BY <1>2 DEF AddNoiseAware
  <2>2. m.row \in Rows
    BY CandidateType
  <2> QED BY <2>1, <2>2 DEF Rows
<1> QED BY <1>1, <1>2

-----------------------------------------------------------------------------
(* The invariants. *)

\* The state has its type: members were admitted, and what was admitted was
\* offered (Frontier.AddNoiseAware invents no member).
THEOREM TypeCorrect == Spec => []TypeOK
<1>1. Init => TypeOK
  BY DEF Init, TypeOK, Measured
<1>2. TypeOK /\ [Next]_vars => TypeOK'
  <2> SUFFICES ASSUME TypeOK, [Next]_vars PROVE TypeOK'
    OBVIOUS
  <2>1. CASE Offer
    <3>1. PICK m \in Measured(count') :
            /\ members' = AddNoiseAware(members, m)
            /\ offered' = offered \cup {m}
            /\ admitted' = IF Refused(members, m) THEN admitted
                                                  ELSE admitted \cup {m}
      BY <2>1 DEF Offer
    <3>2. m \in Candidate
      BY DEF Measured
    <3>3. count' \in 0 .. MaxChildren
      BY <2>1 DEF Offer, TypeOK
    <3>4. members' \subseteq admitted'
      BY <3>1 DEF TypeOK, AddNoiseAware
    <3> QED BY <3>1, <3>2, <3>3, <3>4 DEF TypeOK
  <2>2. CASE UNCHANGED vars
    BY <2>2 DEF TypeOK, vars
  <2> QED BY <2>1, <2>2 DEF Next
<1> QED BY <1>1, <1>2, PTL DEF Spec

\* A step that is not a stutter adds one measured candidate to the frontier.
LEMMA OfferStep ==
  ASSUME TypeOK, Next
  PROVE  \E m \in Candidate :
           /\ m.repeated \in Shapes
           /\ members' = AddNoiseAware(members, m)
           /\ offered' = offered \cup {m}
           /\ admitted' = IF Refused(members, m) THEN admitted
                                                 ELSE admitted \cup {m}
BY DEF Next, Offer, Measured, Candidate

\* Admission and eviction keep the members beyond each other's noise
\* (Frontier.AddNoiseAware).
THEOREM PairwiseBeyondNoiseHolds == Spec => []PairwiseBeyondNoise
<1>1. Init => PairwiseBeyondNoise
  BY DEF Init, PairwiseBeyondNoise
<1>2. TypeOK /\ PairwiseBeyondNoise /\ [Next]_vars => PairwiseBeyondNoise'
  <2> SUFFICES ASSUME TypeOK, PairwiseBeyondNoise, [Next]_vars
               PROVE  PairwiseBeyondNoise'
    OBVIOUS
  <2>1. CASE Next
    <3>1. PICK m \in Candidate : members' = AddNoiseAware(members, m)
      BY <2>1, OfferStep
    <3>2. CASE Refused(members, m)
      BY <3>1, <3>2 DEF AddNoiseAware, PairwiseBeyondNoise
    <3>3. CASE ~ Refused(members, m)
      <4>1. members' = (members \ Evicted(members, m)) \cup {m}
        BY <3>1, <3>3 DEF AddNoiseAware
      <4>2. \A x \in members : ~ Beats(x, m) /\ ~ Same(x, m)
        BY <3>3 DEF Refused
      <4>3. \A x \in members : ~ Same(m, x)
        BY <4>2, SameSymmetric DEF TypeOK
      <4>4. \A x \in members \ Evicted(members, m) : ~ Beats(m, x)
        BY DEF Evicted
      <4> QED BY <4>1, <4>2, <4>3, <4>4 DEF PairwiseBeyondNoise
    <3> QED BY <3>2, <3>3
  <2>2. CASE UNCHANGED vars
    BY <2>2 DEF PairwiseBeyondNoise, vars
  <2> QED BY <2>1, <2>2
<1> QED BY <1>1, <1>2, TypeCorrect, PTL DEF Spec

\* Everything offered stays matched up to the noise, and everything admitted
\* stays matched exactly.
LEMMA CoverStep ==
  ASSUME TypeOK, Next
  PROVE  /\ RefusedWithinNoise => RefusedWithinNoise'
         /\ NoGroundLost => NoGroundLost'
<1>1. PICK m \in Candidate :
        /\ members' = AddNoiseAware(members, m)
        /\ offered' = offered \cup {m}
        /\ admitted' = IF Refused(members, m) THEN admitted
                                              ELSE admitted \cup {m}
  BY OfferStep
<1>2. members \in SUBSET Candidate
  BY DEF TypeOK
<1>3. ASSUME RefusedWithinNoise, NEW o \in offered'
      PROVE  \E x \in members' : \A c \in Cells : o.row[c] <= x.row[c] + MaxNoise
  <2>1. CASE o = m
    BY <1>1, <1>2, <2>1, NewcomerCovered
  <2>2. CASE o \in offered
    <3>1. o.row \in Rows
      BY <2>2, CandidateType DEF TypeOK
    <3>2. \E x \in members : \A c \in Cells : o.row[c] <= x.row[c] + MaxNoise
      BY <1>3, <2>2 DEF RefusedWithinNoise
    <3> QED BY <1>1, <1>2, <3>1, <3>2, CoverKept
  <2> QED BY <1>1, <2>1, <2>2
<1>4. ASSUME NoGroundLost, NEW a \in admitted'
      PROVE  \E x \in members' : Below(a.row, x.row)
  <2>1. CASE a \in admitted
    <3>1. a.row \in Rows /\ \A x \in members' : x.row \in Rows
      BY <1>1, <1>2, <2>1, CandidateType DEF TypeOK, AddNoiseAware
    <3>2. \E x \in members : \A c \in Cells : a.row[c] <= x.row[c] + 0
      <4>1. PICK x \in members : Below(a.row, x.row)
        BY <1>4, <2>1 DEF NoGroundLost
      <4>2. x.row \in Rows
        BY <1>2, CandidateType
      <4> QED BY <3>1, <4>1, <4>2 DEF Below, Rows
    <3>3. \E x \in members' : \A c \in Cells : a.row[c] <= x.row[c] + 0
      BY <1>1, <1>2, <3>1, <3>2, CoverKept
    <3> QED BY <3>1, <3>3 DEF Below, Rows
  <2>2. CASE a \notin admitted
    <3>1. a = m /\ m \in members'
      BY <1>1, <2>2 DEF AddNoiseAware
    <3> QED BY <3>1, CandidateType, BelowOrder
  <2> QED BY <2>1, <2>2
<1> QED BY <1>3, <1>4 DEF RefusedWithinNoise, NoGroundLost

\* However long the chain of evictions, each beyond its own margin, what was
\* admitted once is still matched on every cell by one member.
THEOREM NoGroundLostHolds == Spec => []NoGroundLost
<1>1. Init => NoGroundLost
  <2> SUFFICES ASSUME Init, NEW a \in admitted
               PROVE  \E m \in members : Below(a.row, m.row)
    BY DEF NoGroundLost
  <2>1. a \in members /\ a \in Candidate
    BY DEF Init, Measured
  <2> QED BY <2>1, CandidateType, BelowOrder
<1>2. TypeOK /\ NoGroundLost /\ [Next]_vars => NoGroundLost'
  <2>1. TypeOK /\ NoGroundLost /\ Next => NoGroundLost'
    BY CoverStep
  <2>2. NoGroundLost /\ UNCHANGED vars => NoGroundLost'
    BY DEF NoGroundLost, vars
  <2> QED BY <2>1, <2>2
<1> QED BY <1>1, <1>2, TypeCorrect, PTL DEF Spec

\* What the noise gate refuses is, for the rest of the run, within the noise
\* of a member.
THEOREM RefusedWithinNoiseHolds == Spec => []RefusedWithinNoise
<1>1. Init => RefusedWithinNoise
  <2> SUFFICES ASSUME Init, NEW o \in offered
               PROVE  \E m \in members :
                        \A c \in Cells : o.row[c] <= m.row[c] + MaxNoise
    BY DEF RefusedWithinNoise
  <2>1. o \in members /\ o \in Candidate
    BY DEF Init, Measured
  <2>2. o.row \in Rows
    BY <2>1, CandidateType
  <2> QED BY <2>1, <2>2 DEF Rows
<1>2. TypeOK /\ RefusedWithinNoise /\ [Next]_vars => RefusedWithinNoise'
  <2>1. TypeOK /\ RefusedWithinNoise /\ Next => RefusedWithinNoise'
    BY CoverStep
  <2>2. RefusedWithinNoise /\ UNCHANGED vars => RefusedWithinNoise'
    BY DEF RefusedWithinNoise, vars
  <2> QED BY <2>1, <2>2
<1> QED BY <1>1, <1>2, TypeCorrect, PTL DEF Spec

\* Both together: what the frontier has gained it keeps, and what it refuses
\* it already has, up to the noise.
THEOREM GroundKeptHolds == Spec => []GroundKept
<1>1. NoGroundLost /\ RefusedWithinNoise => GroundKept
  BY DEF GroundKept
<1> QED BY <1>1, NoGroundLostHolds, RefusedWithinNoiseHolds, PTL

-----------------------------------------------------------------------------
(* Rows measured once. *)

\* Every offered row is matched by a member, without slack.
Covered == \A o \in offered : \E m \in members : Below(o.row, m.row)

\* Without deviations no pair has a margin, and only equal rows are the same.
LEMMA OnceIsPlain ==
  ASSUME NEW x \in Candidate, NEW y \in Candidate, ~ x.repeated
  PROVE  /\ Beats(x, y) <=> Dominates(x.row, y.row)
         /\ Same(x, y) <=> x.row = y.row
BY DEF Beats, Same, BothRepeated

\* A row that is not below another one it is as good as dominates it.
LEMMA BelowIsDominated ==
  ASSUME NEW a \in Rows, NEW b \in Rows, Below(a, b), a # b
  PROVE  Dominates(b, a)
<1>1. PICK c \in Cells : a[c] # b[c]
  BY DEF Rows
<1> QED BY <1>1 DEF Below, Dominates, Rows

\* Nothing dominates what it is not strictly above, and domination carries
\* over to whatever is as good.
LEMMA DominatesUp ==
  ASSUME NEW a \in Rows, NEW b \in Rows, NEW d \in Rows,
         Dominates(a, b), Below(a, d)
  PROVE  Dominates(d, b)
BY DEF Dominates, Below, Rows

LEMMA CoveredStep ==
  ASSUME Once', TypeOK, Covered, Next
  PROVE  Covered'
<1>1. PICK m \in Candidate : /\ members' = AddNoiseAware(members, m)
                             /\ offered' = offered \cup {m}
  BY OfferStep
<1>2. members \in SUBSET Candidate
  BY DEF TypeOK
<1> SUFFICES ASSUME NEW o \in offered'
             PROVE  \E x \in members' : Below(o.row, x.row)
  BY DEF Covered
<1>3. o \in Candidate /\ o.row \in Rows
  BY <1>1, CandidateType DEF TypeOK
<1>4. ASSUME \E x \in members : Below(o.row, x.row)
      PROVE  \E x \in members' : Below(o.row, x.row)
  <2>1. \A x \in members \cup members' : x.row \in Rows
    BY <1>1, <1>2, CandidateType DEF AddNoiseAware
  <2>2. \E x \in members : \A c \in Cells : o.row[c] <= x.row[c] + 0
    BY <1>3, <1>4, <2>1 DEF Below, Rows
  <2>3. \E x \in members' : \A c \in Cells : o.row[c] <= x.row[c] + 0
    BY <1>1, <1>2, <1>3, <2>2, CoverKept
  <2> QED BY <1>3, <2>1, <2>3 DEF Below, Rows
<1>5. CASE o \in offered
  BY <1>4, <1>5 DEF Covered
<1>6. CASE o = m /\ Refused(members, m)
  <2>1. PICK x \in members : Beats(x, m) \/ Same(x, m)
    BY <1>6 DEF Refused
  <2>2. x \in Candidate
    BY <1>2
  <2>3. Below(m.row, x.row)
    <3>1. ~ x.repeated
      BY <1>1, <2>1 DEF Once, TypeOK
    <3> QED BY <3>1, <2>1, <2>2, <1>3, <1>6, BeatsIsAbove, OnceIsPlain, BelowOrder
  <2> QED BY <1>4, <1>6, <2>3
<1>7. CASE o = m /\ ~ Refused(members, m)
  <2>1. m \in members'
    BY <1>1, <1>7 DEF AddNoiseAware
  <2> QED BY <1>3, <1>7, <2>1, BelowOrder
<1> QED BY <1>1, <1>5, <1>6, <1>7

\* An antichain that covers everything offered is the set of its maximal rows.
LEMMA AntichainIsMaximal ==
  ASSUME TypeOK, PairwiseBeyondNoise, Once => Covered
  PROVE  FrontierIsPareto
<1> SUFFICES ASSUME Once
             PROVE  /\ {m.row : m \in members} = {x.row : x \in Maximal(offered)}
                    /\ \A x, y \in members : x.row = y.row => x = y
  BY DEF FrontierIsPareto
<1>1. \A x \in offered : x \in Candidate /\ x.row \in Rows /\ ~ x.repeated
  BY CandidateType DEF TypeOK, Once
<1>2. \A x \in members : x \in offered
  BY DEF TypeOK
<1>3. \A x, y \in members :
        x # y => ~ Dominates(x.row, y.row) /\ x.row # y.row
  BY <1>1, <1>2, OnceIsPlain DEF PairwiseBeyondNoise
<1>4. \A x \in offered : ~ Dominates(x.row, x.row)
  BY <1>1 DEF Dominates, Rows
<1>5. ASSUME NEW m \in members
      PROVE  m \in Maximal(offered)
  <2> SUFFICES ASSUME NEW o \in offered, Dominates(o.row, m.row)
               PROVE  FALSE
    BY <1>2 DEF Maximal
  <2>1. PICK x \in members : Below(o.row, x.row)
    BY DEF Covered
  <2>2. Dominates(x.row, m.row)
    BY <1>1, <1>2, <2>1, DominatesUp
  <2> QED BY <1>2, <1>3, <1>4, <2>2
<1>6. ASSUME NEW o \in Maximal(offered)
      PROVE  \E m \in members : m.row = o.row
  <2>1. o \in offered /\ \A y \in offered : ~ Dominates(y.row, o.row)
    BY <1>6 DEF Maximal
  <2>2. PICK x \in members : Below(o.row, x.row)
    BY <2>1 DEF Covered
  <2>3. x.row = o.row
    BY <1>1, <1>2, <2>1, <2>2, BelowIsDominated
  <2> QED BY <2>3
<1>7. {m.row : m \in members} = {x.row : x \in Maximal(offered)}
  BY <1>5, <1>6
<1> QED BY <1>3, <1>7

\* As long as rows are measured once the frontier is, after every admission,
\* exactly the set of maximal rows of all candidates the run evaluated.
THEOREM FrontierIsParetoOnce == Spec => []FrontierIsPareto
<1> DEFINE CoveredOnce == Once => Covered
<1>1. Init => CoveredOnce
  <2> SUFFICES ASSUME Init, NEW o \in offered
               PROVE  \E m \in members : Below(o.row, m.row)
    BY DEF Covered
  <2>1. o \in members /\ o \in Candidate
    BY DEF Init, Measured
  <2> QED BY <2>1, CandidateType, BelowOrder
<1>2. TypeOK /\ CoveredOnce /\ [Next]_vars => CoveredOnce'
  <2>1. ASSUME TypeOK, CoveredOnce, Next, Once'
        PROVE  Covered'
    <3>1. Once
      BY <2>1, OfferStep DEF Once
    <3> QED BY <2>1, <3>1, CoveredStep
  <2>2. CoveredOnce /\ UNCHANGED vars => CoveredOnce'
    BY DEF Covered, Once, vars
  <2> QED BY <2>1, <2>2
<1>3. TypeOK /\ PairwiseBeyondNoise /\ CoveredOnce => FrontierIsPareto
  BY AntichainIsMaximal
<1> QED BY <1>1, <1>2, <1>3, TypeCorrect, PairwiseBeyondNoiseHolds, PTL
        DEF Spec

-----------------------------------------------------------------------------
(* The deliverable and the merge partner. *)

\* The frontier is finite and never empty, and an id names one candidate: a
\* child's id is its round, and rounds only go up (Loop.Admit).
IdsOwn ==
  /\ IsFiniteSet(offered) /\ members # {}
  /\ \A x \in offered : x.id <= count
  /\ \A x, y \in offered : x.id = y.id => x = y

LEMMA IdsOwnHolds == Spec => []IdsOwn
<1>1. Init => IdsOwn
  <2> SUFFICES ASSUME Init PROVE IdsOwn
    OBVIOUS
  <2>1. PICK m \in Measured(0) : members = {m}
    BY DEF Init
  <2>2. m.id = 0 /\ offered = {m} /\ count = 0
    BY <2>1 DEF Init, Measured
  <2>3. IsFiniteSet(offered)
    BY <2>2, FS_Singleton
  <2> QED BY <2>1, <2>2, <2>3 DEF IdsOwn
<1>2. TypeOK /\ IdsOwn /\ [Next]_vars => IdsOwn'
  <2> SUFFICES ASSUME TypeOK, IdsOwn, [Next]_vars PROVE IdsOwn'
    OBVIOUS
  <2>1. CASE Next
    <3>1. PICK m \in Measured(count') : /\ members' = AddNoiseAware(members, m)
                                        /\ offered' = offered \cup {m}
      BY <2>1 DEF Next, Offer
    <3>2. count \in Nat /\ count' \in Nat /\ count < count'
      BY <2>1 DEF Next, Offer, TypeOK
    <3>3. m.id = count' /\ \A x \in offered : x.id \in Nat /\ x.id < count'
      BY <3>2 DEF Measured, IdsOwn, TypeOK, Candidate
    <3>4. IsFiniteSet(offered')
      BY <3>1, FS_AddElement DEF IdsOwn
    <3>5. members' # {}
      BY <3>1 DEF IdsOwn, AddNoiseAware
    <3>6. \A x \in offered' : x.id <= count'
      BY <3>1, <3>2, <3>3
    <3>7. \A x, y \in offered' : x.id = y.id => x = y
      BY <3>1, <3>2, <3>3 DEF IdsOwn
    <3> QED BY <3>4, <3>5, <3>6, <3>7 DEF IdsOwn
  <2>2. CASE UNCHANGED vars
    BY <2>2 DEF IdsOwn, vars
  <2> QED BY <2>1, <2>2
<1> QED BY <1>1, <1>2, TypeCorrect, PTL DEF Spec

\* What the choices need of the candidates they choose from.
Choosable(S) ==
  /\ S \subseteq Candidate /\ IsFiniteSet(S) /\ S # {}
  /\ \A x, y \in S : x.id = y.id => x = y

LEMMA MembersChoosable ==
  ASSUME TypeOK, IdsOwn
  PROVE  Choosable(members)
<1>1. members \subseteq offered /\ IsFiniteSet(members)
  BY FS_Subset DEF TypeOK, IdsOwn
<1> QED BY <1>1 DEF Choosable, TypeOK, IdsOwn

\* The sum of a candidate's row over any cells is a number.
LEMMA SumType ==
  ASSUME NEW x \in Candidate, NEW C \in SUBSET Cells
  PROVE  SumFunctionOnSet(x.row, C) \in Int /\ Sum(x.row) \in Int
<1>1. x.row \in Rows /\ DOMAIN x.row = Cells
  BY DEF Candidate, Rows
<1>2. ASSUME NEW D \in SUBSET Cells PROVE SumFunctionOnSet(x.row, D) \in Int
  <2>1. IsFiniteSet(D) /\ \A c \in D : x.row[c] \in Int /\ x.row[c] <= x.row[c]
    BY <1>1, FS_Subset DEF Rows
  <2> QED BY <2>1, SumIsMonotone
<1> QED BY <1>1, <1>2 DEF Sum, SumFunction

\* A row that is as good on every cell has no smaller sum.
LEMMA SumFollowsBelow ==
  ASSUME NEW x \in Candidate, NEW y \in Candidate, Below(x.row, y.row)
  PROVE  Sum(x.row) <= Sum(y.row)
<1>1. /\ x.row \in Rows /\ y.row \in Rows
      /\ DOMAIN x.row = Cells /\ DOMAIN y.row = Cells
  BY DEF Candidate, Rows
<1>2. \A c \in Cells : x.row[c] \in Int /\ y.row[c] \in Int /\ x.row[c] <= y.row[c]
  BY <1>1 DEF Below, Rows
<1> QED BY <1>1, <1>2, SumIsMonotone DEF Sum, SumFunction

\* The merge partner is another member (Frontier.ComplementFor).
LEMMA ComplementIsOther ==
  ASSUME NEW S, Choosable(S), NEW p \in S, S # {p}
  PROVE  Complement(S, p) \in S \ {p}
<1> DEFINE pool == S \ {p}
           failing == Failing(S, p)
           plain == [m \in S |-> <<Sum(m.row)>>]
           split == [m \in S |-> <<SumFunctionOnSet(m.row, failing), Sum(m.row)>>]
<1>1. pool # {} /\ IsFiniteSet(pool) /\ pool \subseteq Candidate
  BY FS_Subset DEF Choosable
<1>2. /\ \A x \in pool : x.id \in Int
      /\ \A x, y \in pool : x.id = y.id => x = y
  BY DEF Choosable, Candidate
<1>3. failing \in SUBSET Cells
  BY DEF Failing
<1>4. \A x \in pool : Sum(x.row) \in Int /\ SumFunctionOnSet(x.row, failing) \in Int
  BY <1>1, <1>3, SumType
<1> HIDE DEF failing
<1>5. \A x \in pool : plain[x] \in [1 .. 1 -> Int] /\ split[x] \in [1 .. 2 -> Int]
  BY <1>4
<1> HIDE DEF pool, plain, split
<1>6. First(pool, plain) \in pool
  BY <1>1, <1>2, <1>5, FirstExists
<1>7. First(pool, split) \in pool
  BY <1>1, <1>2, <1>5, FirstExists
<1>8. Complement(S, p) = First(pool, [m \in S |->
                            IF failing = {}
                            THEN <<Sum(m.row)>>
                            ELSE <<SumFunctionOnSet(m.row, failing), Sum(m.row)>>])
  BY DEF Complement, pool, failing
<1>9. CASE failing = {}
  BY <1>6, <1>8, <1>9 DEF plain, pool
<1>10. CASE failing # {}
  BY <1>7, <1>8, <1>10 DEF split, pool
<1> QED BY <1>9, <1>10

\* The frontier of rows measured once is the set of maximal rows, and a merge
\* partner brings something the parent lacks (Frontier.ComplementFor).
THEOREM ParetoWhenOnceHolds == Spec => []ParetoWhenOnce
<1>1. TypeOK /\ IdsOwn /\ PairwiseBeyondNoise => ComplementHelps
  <2> SUFFICES ASSUME TypeOK, IdsOwn, PairwiseBeyondNoise, Once,
                      NEW p \in members, members # {p}
               PROVE  \E c \in Cells : Complement(members, p).row[c] > p.row[c]
    BY DEF ComplementHelps
  <2> DEFINE x == Complement(members, p)
  <2>1. x \in members /\ x # p
    BY MembersChoosable, ComplementIsOther
  <2> HIDE DEF x
  <2>2. /\ x \in Candidate /\ p \in Candidate /\ ~ x.repeated /\ ~ p.repeated
        /\ x.row \in Rows /\ p.row \in Rows
    BY <2>1, CandidateType DEF TypeOK, Once
  <2>3. ~ Dominates(p.row, x.row) /\ x.row # p.row
    BY <2>1, <2>2, OnceIsPlain DEF PairwiseBeyondNoise
  <2>4. ~ Below(x.row, p.row)
    BY <2>2, <2>3, BelowIsDominated
  <2>5. \E c \in Cells : x.row[c] > p.row[c]
    BY <2>2, <2>4 DEF Below, Rows
  <2> QED BY <2>5 DEF x
<1>2. FrontierIsPareto /\ ComplementHelps => ParetoWhenOnce
  BY DEF ParetoWhenOnce
<1> QED BY <1>1, <1>2, TypeCorrect, IdsOwnHolds, PairwiseBeyondNoiseHolds,
           FrontierIsParetoOnce, PTL

\* What Best chooses by: the mean alone, among those that meet the constraint,
\* or after the constraint.
LEMMA BestFacts ==
  ASSUME NEW S, Choosable(S)
  PROVE  /\ Best(S) \in S
         /\ ~ Constrained => \A y \in S : Sum(y.row) <= Sum(Best(S).row)
         /\ Constrained /\ Satisfying(S) # {} =>
              /\ Best(S) \in Satisfying(S)
              /\ \A y \in Satisfying(S) : Sum(y.row) <= Sum(Best(S).row)
         /\ Constrained /\ Satisfying(S) = {} =>
              \A y \in S : \/ y.rate < Best(S).rate
                           \/ /\ y.rate = Best(S).rate
                              /\ Sum(y.row) <= Sum(Best(S).row)
<1> DEFINE kept == Satisfying(S)
           byMean == [m \in S |-> <<Sum(m.row)>>]
           byBoth == [m \in S |-> <<Sum(m.row), m.rate>>]
           byRate == [m \in S |-> <<m.rate, Sum(m.row)>>]
<1>1. /\ \A x \in S : x.id \in Int /\ Sum(x.row) \in Int /\ x.rate \in Int
      /\ \A x, y \in S : x.id = y.id => x = y
      /\ S # {} /\ IsFiniteSet(S)
  BY SumType, ConstraintAssumption DEF Choosable, Candidate
<1>2. kept \subseteq S /\ IsFiniteSet(kept)
  BY <1>1, FS_Subset DEF Satisfying
<1>3. \A x \in S : /\ byMean[x] \in [1 .. 1 -> Int] /\ byBoth[x] \in [1 .. 2 -> Int]
                   /\ byRate[x] \in [1 .. 2 -> Int]
  BY <1>1
<1>4. CASE ~ Constrained
  <2> DEFINE b == First(S, byMean)
  <2>1. Best(S) = b
    BY <1>4 DEF Best, ByMean
  <2> HIDE DEF byMean
  <2>2. b \in S /\ \A y \in S \ {b} : Before(b, byMean[b], y, byMean[y])
    BY <1>1, <1>3, FirstExists
  <2> HIDE DEF b
  <2>3. ASSUME NEW y \in S PROVE Sum(y.row) <= Sum(b.row)
    <3>1. y = b \/ Before(b, <<Sum(b.row)>>, y, <<Sum(y.row)>>)
      BY <2>2 DEF byMean
    <3> QED BY <1>1, <2>2, <3>1 DEF Before
  <2> QED BY <1>4, <2>1, <2>2, <2>3
<1>5. CASE Constrained /\ kept # {}
  <2> DEFINE b == First(kept, byBoth)
  <2>1. Best(S) = b
    BY <1>5 DEF Best
  <2> HIDE DEF byBoth, kept
  <2>2. b \in kept /\ \A y \in kept \ {b} : Before(b, byBoth[b], y, byBoth[y])
    BY <1>1, <1>2, <1>3, <1>5, FirstExists
  <2> HIDE DEF b
  <2>3. ASSUME NEW y \in kept PROVE Sum(y.row) <= Sum(b.row)
    <3>1. y = b \/ Before(b, <<Sum(b.row), b.rate>>, y, <<Sum(y.row), y.rate>>)
      BY <1>2, <2>2 DEF byBoth
    <3>2. \/ y = b \/ Sum(b.row) > Sum(y.row) \/ Sum(b.row) = Sum(y.row)
      BY <3>1 DEF Before
    <3> QED BY <1>1, <1>2, <2>2, <3>2
  <2> QED BY <1>2, <1>5, <2>1, <2>2, <2>3 DEF kept
<1>6. CASE Constrained /\ kept = {}
  <2> DEFINE b == First(S, byRate)
  <2>1. Best(S) = b
    BY <1>6 DEF Best
  <2> HIDE DEF byRate
  <2>2. b \in S /\ \A y \in S \ {b} : Before(b, byRate[b], y, byRate[y])
    BY <1>1, <1>3, FirstExists
  <2> HIDE DEF b
  <2>3. ASSUME NEW y \in S
        PROVE  y.rate < b.rate \/ (y.rate = b.rate /\ Sum(y.row) <= Sum(b.row))
    <3>1. y = b \/ Before(b, <<b.rate, Sum(b.row)>>, y, <<y.rate, Sum(y.row)>>)
      BY <2>2 DEF byRate
    <3>2. \/ y = b \/ b.rate > y.rate
          \/ b.rate = y.rate /\ (Sum(b.row) > Sum(y.row) \/ Sum(b.row) = Sum(y.row))
      BY <3>1 DEF Before
    <3> QED BY <1>1, <2>2, <3>2
  <2> QED BY <1>6, <2>1, <2>2, <2>3
<1> QED BY <1>4, <1>5, <1>6

\* The deliverable is at least as good as whatever some member is at least as
\* good as: by the mean, and under a constraint by the rate as well.
LEMMA BestIsAtLeast ==
  ASSUME NEW S, Choosable(S), NEW b \in Candidate, NEW x \in S,
         Sum(b.row) <= Sum(x.row), Constrained => b.rate <= x.rate
  PROVE  AtLeastAsGood(Best(S), b, 0)
<1> DEFINE t == Best(S)
<1>1. /\ t \in S /\ t \in Candidate /\ x \in Candidate
      /\ t.rate \in 0 .. FullRate /\ x.rate \in 0 .. FullRate
      /\ b.rate \in 0 .. FullRate /\ FullRate \in Nat
  BY BestFacts, ConstraintAssumption DEF Choosable, Candidate
<1>2. Sum(t.row) \in Int /\ Sum(x.row) \in Int /\ Sum(b.row) \in Int
  BY <1>1, SumType
<1>3. Satisfying(S) # {} /\ t \in Satisfying(S) => t.rate >= FullRate
  BY DEF Satisfying
<1>4. x.rate >= FullRate => x \in Satisfying(S)
  BY DEF Satisfying
<1> SUFFICES AtLeastAsGood(t, b, 0)
  OBVIOUS
<1>5. CASE ~ Constrained
  <2>1. Sum(x.row) <= Sum(t.row)
    BY <1>5, BestFacts
  <2> HIDE DEF t
  <2> QED BY <1>2, <1>5, <2>1 DEF AtLeastAsGood
<1>6. CASE Constrained /\ Satisfying(S) # {}
  <2>1. t \in Satisfying(S) /\ \A y \in Satisfying(S) : Sum(y.row) <= Sum(t.row)
    BY <1>6, BestFacts
  <2> HIDE DEF t
  <2>2. t.rate >= FullRate
    BY <1>3, <1>6, <2>1
  <2>3. b.rate >= FullRate => Sum(x.row) <= Sum(t.row)
    BY <1>1, <1>4, <1>6, <2>1
  <2> QED BY <1>1, <1>2, <1>6, <2>2, <2>3 DEF AtLeastAsGood
<1>7. CASE Constrained /\ Satisfying(S) = {}
  <2>1. x.rate < t.rate \/ (x.rate = t.rate /\ Sum(x.row) <= Sum(t.row))
    BY <1>7, BestFacts
  <2> HIDE DEF t
  <2>2. b.rate < FullRate
    BY <1>1, <1>4, <1>7
  <2> QED BY <1>1, <1>2, <1>7, <2>1, <2>2 DEF AtLeastAsGood
<1> QED BY <1>5, <1>6, <1>7, ConstraintAssumption

\* An admission takes nothing from the deliverable (Frontier.Best after
\* Frontier.AddNoiseAware), unless the newcomer matches it on every cell and
\* meets the constraint less well.
THEOREM BestNeverRegressesHolds == Spec => BestNeverRegresses
<1> DEFINE b == Best(members)
           Kept == \/ ~ Once'
                   \/ AtLeastAsGood(Best(members'), b, 0)
                   \/ \E n \in members' \ members :
                        /\ Constrained /\ n.rate < b.rate
                        /\ Below(b.row, n.row)
<1>1. TypeOK /\ TypeOK' /\ IdsOwn /\ IdsOwn' /\ Next => Kept
  <2> SUFFICES ASSUME TypeOK, TypeOK', IdsOwn, IdsOwn', Next, Once' PROVE Kept
    OBVIOUS
  <2>1. Choosable(members) /\ Choosable(members')
    <3>1. members' \subseteq offered' /\ IsFiniteSet(members')
      BY FS_Subset DEF TypeOK, IdsOwn
    <3> QED BY <3>1, MembersChoosable DEF Choosable, TypeOK, IdsOwn
  <2>2. /\ b \in members /\ b \in Candidate /\ Sum(b.row) \in Int
        /\ b.rate \in 0 .. FullRate
    <3>1. b \in members /\ b \in Candidate
      BY <2>1, BestFacts DEF Choosable
    <3> QED BY <3>1, SumType DEF Candidate
  <2>3. PICK m \in Candidate : /\ members' = AddNoiseAware(members, m)
                               /\ offered' = offered \cup {m}
    BY OfferStep
  <2> HIDE DEF b
  <2>4. CASE b \in members'
    <3>1. AtLeastAsGood(Best(members'), b, 0)
      BY <2>1, <2>2, <2>4, BestIsAtLeast, ConstraintAssumption
    <3> QED BY <3>1
  <2>5. CASE b \notin members'
    <3>1. ~ Refused(members, m) /\ Beats(m, b) /\ m \in members'
      BY <2>2, <2>3, <2>5 DEF AddNoiseAware, Evicted
    <3>2. Below(b.row, m.row)
      BY <2>2, <3>1, BeatsIsAbove
    <3>3. Sum(b.row) <= Sum(m.row)
      BY <2>2, <3>2, SumFollowsBelow
    <3>4. CASE Constrained => b.rate <= m.rate
      <4>1. AtLeastAsGood(Best(members'), b, 0)
        BY <2>1, <2>2, <3>1, <3>3, <3>4, BestIsAtLeast
      <4> QED BY <4>1
    <3>5. CASE Constrained /\ ~ (b.rate <= m.rate)
      <4>1. m.rate < b.rate
        <5>1. m.rate \in 0 .. FullRate
          BY DEF Candidate
        <5> QED BY <2>2, <3>5, <5>1, ConstraintAssumption
      <4>2. m \notin members
        <5>1. ~ m.repeated
          BY <2>3 DEF Once
        <5>2. Same(m, m)
          BY <5>1, OnceIsPlain
        <5> QED BY <3>1, <5>2 DEF Refused
      <4> QED BY <3>1, <3>2, <3>5, <4>1, <4>2
    <3> QED BY <3>4, <3>5
  <2> QED BY <2>4, <2>5
<1>2. TypeOK /\ TypeOK' /\ IdsOwn /\ IdsOwn' /\ [Next]_vars => [Kept]_vars
  BY <1>1, Zenon
<1> QED BY <1>2, TypeCorrect, IdsOwnHolds, PTL DEF Spec, BestNeverRegresses

=============================================================================
