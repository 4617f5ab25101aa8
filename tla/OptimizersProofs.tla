-------------------------- MODULE OptimizersProofs ---------------------------
(***************************************************************************)
(* Theorems about Optimizers: whichever optimiser runs, for every set of   *)
(* samples and scores, every limit and any number of rounds.               *)
(***************************************************************************)
EXTENDS Optimizers, TLAPS, FiniteSetTheorems, SequenceTheorems,
        WellFoundedInduction

(* Finite sets of numbered candidates: sums over the cells, and the first of *)
(* an order.  The induction is over the set of sizes a fact holds of.        *)

\* Every nonempty set of numbers has a least element.
LEMMA LeastNumber ==
  ASSUME NEW T \in SUBSET Nat, T # {}
  PROVE  \E n \in T : \A m \in T : n <= m
<1>1. ASSUME NEW m \in Nat, NEW n \in Nat, m < n
      PROVE  <<m, n>> \in OpToRel(<, Nat)
  <2>1. <<m, n>>[1] < <<m, n>>[2] /\ <<m, n>> \in Nat \X Nat
    BY <1>1
  <2> QED BY <2>1, Zenon DEF OpToRel
<1>2. PICK n \in T : \A m \in T : <<m, n>> \notin OpToRel(<, Nat)
  BY NatLessThanWellFounded, WFMin
<1>3. \A m \in T : ~ (m < n)
  BY <1>1, <1>2, Zenon
<1> QED BY <1>3

\* Induction over the numbers, stated of the set it is to hold of.
LEMMA NumberInduction ==
  ASSUME NEW Sizewise \in SUBSET Nat, 0 \in Sizewise, \A n \in Sizewise : n + 1 \in Sizewise
  PROVE  Sizewise = Nat
<1> SUFFICES ASSUME Nat \ Sizewise # {} PROVE FALSE
  OBVIOUS
<1>1. PICK n \in Nat \ Sizewise : \A m \in Nat \ Sizewise : n <= m
  BY LeastNumber
<1>2. n # 0 /\ n - 1 \in Nat
  BY <1>1
<1>3. n - 1 \in Sizewise
  BY <1>1, <1>2
<1> QED BY <1>1, <1>2, <1>3

\* A nonempty part of a finite set is an element and a smaller part.
LEMMA OneLess ==
  ASSUME NEW S, IsFiniteSet(S), NEW T \in SUBSET S, NEW x \in T
  PROVE  /\ IsFiniteSet(T) /\ Cardinality(T) \in Nat
         /\ T \ {x} \in SUBSET S /\ Cardinality(T \ {x}) = Cardinality(T) - 1
BY FS_Subset, FS_CardinalityType, FS_RemoveElement

\* Only the empty part has no elements.
LEMMA Sizes ==
  ASSUME NEW S, IsFiniteSet(S)
  PROVE  \A T \in SUBSET S : /\ Cardinality(T) \in Nat
                             /\ Cardinality(T) = 0 <=> T = {}
                             /\ Cardinality(T) <= Cardinality(S)
BY FS_Subset, FS_CardinalityType, FS_EmptySet

\* The fold behind SumFunctionOnSet: at each set an element of its, and what
\* the fold gives for the rest.
Picked(s) == CHOOSE x \in s : TRUE
TallyAt(g, f, s) == IF s = {} THEN 0 ELSE f[Picked(s)] + g[s \ {Picked(s)}]
IsTally(g, f, S) == g = [s \in SUBSET S |-> TallyAt(g, f, s)]
Tally(f, S) == CHOOSE g : IsTally(g, f, S)

LEMMA PickedFrom ==
  ASSUME NEW S, IsFiniteSet(S), NEW T \in SUBSET S, T # {}
  PROVE  /\ Picked(T) \in T /\ T \ {Picked(T)} \in SUBSET S
         /\ Cardinality(T) \in Nat
         /\ Cardinality(T \ {Picked(T)}) = Cardinality(T) - 1
<1>1. Picked(T) \in T
  BY DEF Picked
<1> QED BY <1>1, OneLess

\* Every finite set has a tally: one that is right up to some size gives one
\* that is right up to the next.
LEMMA TallyExists ==
  ASSUME NEW S, IsFiniteSet(S), NEW f
  PROVE  \E g : IsTally(g, f, S)
<1> DEFINE Right(g, n) == \A T \in SUBSET S :
                            Cardinality(T) <= n => g[T] = TallyAt(g, f, T)
           Sizewise == {n \in Nat : \E g : Right(g, n)}
<1>1. 0 \in Sizewise
  <2>1. Right([T \in SUBSET S |-> 0], 0)
    BY Sizes DEF TallyAt
  <2> QED BY <2>1
<1>2. ASSUME NEW n \in Sizewise PROVE n + 1 \in Sizewise
  <2>1. PICK g : Right(g, n)
    OBVIOUS
  <2> DEFINE h == [T \in SUBSET S |-> TallyAt(g, f, T)]
  <2>2. ASSUME NEW T \in SUBSET S, Cardinality(T) <= n + 1
        PROVE  h[T] = TallyAt(h, f, T)
    <3>1. CASE T = {}
      BY <3>1 DEF TallyAt
    <3>2. CASE T # {}
      <4> DEFINE U == T \ {Picked(T)}
      <4>1. n \in Nat
        OBVIOUS
      <4>2. U \in SUBSET S /\ Cardinality(U) <= n
        BY <2>2, <3>2, <4>1, PickedFrom
      <4>3. h[U] = g[U]
        BY <2>1, <4>2
      <4> QED BY <3>2, <4>3 DEF TallyAt
    <3> QED BY <3>1, <3>2
  <2>3. Right(h, n + 1)
    BY <2>2
  <2> HIDE DEF h, Right
  <2>4. \E k : Right(k, n + 1)
    BY <2>3, Zenon
  <2>5. n + 1 \in Nat
    OBVIOUS
  <2> QED BY <2>4, <2>5, Zenon
<1> HIDE DEF Sizewise
<1>3. Sizewise = Nat
  BY <1>1, <1>2, NumberInduction DEF Sizewise
<1>4. PICK g : Right(g, Cardinality(S))
  BY <1>3, Sizes DEF Sizewise
<1>5. \A T \in SUBSET S : g[T] = TallyAt(g, f, T)
  BY <1>4, Sizes
<1> DEFINE h == [T \in SUBSET S |-> TallyAt(g, f, T)]
<1>6. \A T \in SUBSET S : h[T] = TallyAt(h, f, T)
  <2> SUFFICES ASSUME NEW T \in SUBSET S PROVE h[T] = TallyAt(h, f, T)
    OBVIOUS
  <2>1. CASE T = {}
    BY <2>1 DEF TallyAt
  <2>2. CASE T # {}
    <3>1. h[T \ {Picked(T)}] = g[T \ {Picked(T)}]
      BY <1>5, <2>2, PickedFrom
    <3> QED BY <2>2, <3>1 DEF TallyAt
  <2> QED BY <2>1, <2>2
<1>7. IsTally(h, f, S)
  BY <1>6 DEF IsTally
<1> QED BY <1>7

\* The sum is the tally of the whole set.
LEMMA SumOfTally ==
  ASSUME NEW S, IsFiniteSet(S), NEW f
  PROVE  /\ SumFunctionOnSet(f, S) = Tally(f, S)[S]
         /\ \A T \in SUBSET S : Tally(f, S)[T] = TallyAt(Tally(f, S), f, T)
<1>1. IsTally(Tally(f, S), f, S)
  BY TallyExists DEF Tally
<1>2. SumFunctionOnSet(f, S) = Tally(f, S)[S]
  BY DEF SumFunctionOnSet, FoldFunctionOnSet, MapThenFoldSet, Tally, IsTally,
         TallyAt, Picked
<1> QED BY <1>1, <1>2 DEF IsTally

\* Sums of numbers are numbers, and a row that is nowhere below another has no
\* smaller sum.
LEMMA SumIsMonotone ==
  ASSUME NEW S, IsFiniteSet(S), NEW e, NEW f,
         \A x \in S : e[x] \in Int /\ f[x] \in Int /\ e[x] <= f[x]
  PROVE  /\ SumFunctionOnSet(e, S) \in Int /\ SumFunctionOnSet(f, S) \in Int
         /\ SumFunctionOnSet(e, S) <= SumFunctionOnSet(f, S)
         /\ (\E x \in S : e[x] < f[x]) =>
              SumFunctionOnSet(e, S) < SumFunctionOnSet(f, S)
<1> DEFINE g == Tally(e, S)
           h == Tally(f, S)
<1>1. /\ SumFunctionOnSet(e, S) = g[S]
      /\ \A T \in SUBSET S : g[T] = TallyAt(g, e, T)
  BY SumOfTally
<1>2. /\ SumFunctionOnSet(f, S) = h[S]
      /\ \A T \in SUBSET S : h[T] = TallyAt(h, f, T)
  BY SumOfTally
<1> HIDE DEF g, h
<1> DEFINE Holds(T) == /\ g[T] \in Int /\ h[T] \in Int /\ g[T] <= h[T]
                       /\ (\E x \in T : e[x] < f[x]) => g[T] < h[T]
           Sizewise == {n \in Nat : \A T \in SUBSET S : Cardinality(T) = n => Holds(T)}
<1>0. g[{}] = 0 /\ h[{}] = 0
  BY <1>1, <1>2 DEF TallyAt
<1>3. 0 \in Sizewise
  BY <1>0, Sizes
<1>4. ASSUME NEW n \in Sizewise PROVE n + 1 \in Sizewise
  <2> SUFFICES ASSUME NEW T \in SUBSET S, Cardinality(T) = n + 1
               PROVE  Holds(T)
    OBVIOUS
  <2> DEFINE p == Picked(T)
             U == T \ {p}
  <2>1. n \in Nat /\ T # {}
    BY Sizes
  <2>2. p \in T /\ U \in SUBSET S /\ Cardinality(U) = n
    BY <2>1, PickedFrom
  <2>3. g[T] = e[p] + g[U] /\ h[T] = f[p] + h[U]
    BY <1>1, <1>2, <2>1 DEF TallyAt
  <2>4. Holds(U)
    BY <2>2
  <2>5. e[p] \in Int /\ f[p] \in Int /\ e[p] <= f[p]
    BY <2>2
  <2>6. \A x \in T : x = p \/ x \in U
    OBVIOUS
  <2> HIDE DEF p, U
  <2>7. g[T] \in Int /\ h[T] \in Int /\ g[T] <= h[T]
    BY <2>3, <2>4, <2>5
  <2>8. ASSUME NEW x \in T, e[x] < f[x] PROVE g[T] < h[T]
    BY <2>3, <2>4, <2>5, <2>6, <2>8
  <2> QED BY <2>7, <2>8
<1> HIDE DEF Sizewise
<1>5. Sizewise = Nat
  BY <1>3, <1>4, NumberInduction DEF Sizewise
<1>6. Holds(S)
  BY <1>5, Sizes DEF Sizewise
<1> QED BY <1>1, <1>2, <1>6

\* A row that is nowhere more than k above another has a sum at most as many
\* times k above the other's.
LEMMA SumIsClose ==
  ASSUME NEW S, IsFiniteSet(S), NEW k \in Nat, NEW e, NEW f,
         \A x \in S : e[x] \in Int /\ f[x] \in Int /\ e[x] <= f[x] + k
  PROVE  /\ SumFunctionOnSet(e, S) \in Int /\ SumFunctionOnSet(f, S) \in Int
         /\ SumFunctionOnSet(e, S) <= SumFunctionOnSet(f, S) + Cardinality(S) * k
<1> DEFINE g == Tally(e, S)
           h == Tally(f, S)
<1>1. /\ SumFunctionOnSet(e, S) = g[S]
      /\ \A T \in SUBSET S : g[T] = TallyAt(g, e, T)
  BY SumOfTally
<1>2. /\ SumFunctionOnSet(f, S) = h[S]
      /\ \A T \in SUBSET S : h[T] = TallyAt(h, f, T)
  BY SumOfTally
<1> HIDE DEF g, h
<1> DEFINE Holds(T) == /\ g[T] \in Int /\ h[T] \in Int
                       /\ g[T] <= h[T] + Cardinality(T) * k
           Sizewise == {n \in Nat : \A T \in SUBSET S : Cardinality(T) = n => Holds(T)}
<1>0. g[{}] = 0 /\ h[{}] = 0
  BY <1>1, <1>2 DEF TallyAt
<1>3. 0 \in Sizewise
  <2> SUFFICES ASSUME NEW T \in SUBSET S, Cardinality(T) = 0 PROVE Holds(T)
    OBVIOUS
  <2>1. T = {} /\ 0 * k = 0
    BY Sizes
  <2> QED BY <1>0, <2>1
<1> HIDE DEF Holds
<1>4. ASSUME NEW n \in Sizewise PROVE n + 1 \in Sizewise
  <2> SUFFICES ASSUME NEW T \in SUBSET S, Cardinality(T) = n + 1
               PROVE  Holds(T)
    OBVIOUS
  <2> DEFINE p == Picked(T)
             U == T \ {p}
  <2>1. n \in Nat /\ T # {}
    BY Sizes
  <2>2. p \in T /\ U \in SUBSET S /\ Cardinality(U) = n
    <3>1. p \in T /\ U \in SUBSET S /\ Cardinality(U) = Cardinality(T) - 1
      BY <2>1, PickedFrom, Zenon
    <3> HIDE DEF U
    <3> QED BY <2>1, <3>1
  <2>3. g[T] = e[p] + g[U] /\ h[T] = f[p] + h[U]
    BY <1>1, <1>2, <2>1 DEF TallyAt
  <2>4. g[U] \in Int /\ h[U] \in Int /\ g[U] <= h[U] + n * k
    BY <2>2 DEF Holds
  <2>5. e[p] \in Int /\ f[p] \in Int /\ e[p] <= f[p] + k
    BY <2>2
  <2>6. (n + 1) * k = n * k + k /\ n * k \in Nat
    BY <2>1
  <2> HIDE DEF p, U
  <2> DEFINE low == n * k
             high == (n + 1) * k
  <2>7. g[U] <= h[U] + low /\ high = low + k /\ low \in Nat
    BY <2>4, <2>6
  <2> HIDE DEF low, high
  <2>8. g[T] \in Int /\ h[T] \in Int /\ g[T] <= h[T] + high
    BY <2>3, <2>4, <2>5, <2>7
  <2> QED BY <2>8 DEF high, Holds
<1> HIDE DEF Sizewise
<1>5. Sizewise = Nat
  BY <1>3, <1>4, NumberInduction DEF Sizewise
<1>6. Holds(S)
  BY <1>5, Sizes DEF Sizewise
<1> QED BY <1>1, <1>2, <1>6 DEF Holds

\* A total and transitive relation has a first element in every finite set.
LEMMA FirstOfOrder ==
  ASSUME NEW S, IsFiniteSet(S), S # {}, NEW R,
         \A x, y \in S : x # y => <<x, y>> \in R \/ <<y, x>> \in R,
         \A x, y, z \in S : <<x, y>> \in R /\ <<y, z>> \in R => <<x, z>> \in R
  PROVE  \E x \in S : \A y \in S \ {x} : <<x, y>> \in R
<1> DEFINE Has(T) == T = {} \/ \E x \in T : \A y \in T \ {x} : <<x, y>> \in R
           Sizewise == {n \in Nat : \A T \in SUBSET S : Cardinality(T) = n => Has(T)}
<1>1. 0 \in Sizewise
  BY Sizes
<1>2. ASSUME NEW n \in Sizewise PROVE n + 1 \in Sizewise
  <2> SUFFICES ASSUME NEW U \in SUBSET S, Cardinality(U) = n + 1
               PROVE  Has(U)
    OBVIOUS
  <2>1. PICK x \in U : TRUE
    BY Sizes
  <2> DEFINE T == U \ {x}
  <2>2. T \in SUBSET S /\ Cardinality(T) = n
    BY OneLess
  <2>3. CASE T = {}
    BY <2>1, <2>3
  <2>4. CASE T # {}
    <3>1. PICK t \in T : \A y \in T \ {t} : <<t, y>> \in R
      BY <2>2, <2>4
    <3>2. CASE <<t, x>> \in R
      <4>1. \A y \in U \ {t} : <<t, y>> \in R
        BY <3>1, <3>2
      <4> QED BY <4>1
    <3>3. CASE <<x, t>> \in R
      <4>1. \A y \in U \ {x} : <<x, y>> \in R
        BY <3>1, <3>3
      <4> QED BY <4>1
    <3> QED BY <3>1, <3>2, <3>3
  <2> QED BY <2>3, <2>4
<1> HIDE DEF Sizewise
<1>3. Sizewise = Nat
  BY <1>1, <1>2, NumberInduction DEF Sizewise
<1> QED BY <1>3, Sizes DEF Sizewise

\* The order of First is total on candidates with ids of their own, and
\* transitive, when their keys have one length.
LEMMA BeforeIsOrder ==
  ASSUME NEW n \in {1, 2}, NEW x, NEW y, NEW z,
         x.id \in Int, y.id \in Int, z.id \in Int,
         NEW k \in [1 .. n -> Int], NEW l \in [1 .. n -> Int],
         NEW m \in [1 .. n -> Int]
  PROVE  /\ x.id # y.id => Before(x, k, y, l) \/ Before(y, l, x, k)
         /\ Before(x, k, y, l) /\ Before(y, l, z, m) => Before(x, k, z, m)
<1>1. CASE n = 1
  <2>1. \A a, b \in [1 .. 1 -> Int] : a = b <=> a[1] = b[1]
    OBVIOUS
  <2>2. ASSUME NEW u, NEW v, NEW a \in [1 .. 1 -> Int], NEW b \in [1 .. 1 -> Int]
        PROVE  Before(u, a, v, b) <=> a[1] > b[1] \/ (a[1] = b[1] /\ u.id < v.id)
    BY <2>1 DEF Before
  <2> QED BY <1>1, <2>2
<1>2. CASE n = 2
  <2>1. \A a, b \in [1 .. 2 -> Int] : a = b <=> a[1] = b[1] /\ a[2] = b[2]
    OBVIOUS
  <2>2. ASSUME NEW u, NEW v, NEW a \in [1 .. 2 -> Int], NEW b \in [1 .. 2 -> Int]
        PROVE  Before(u, a, v, b) <=>
                 \/ a[1] > b[1]
                 \/ a[1] = b[1] /\ a[2] > b[2]
                 \/ a[1] = b[1] /\ a[2] = b[2] /\ u.id < v.id
    BY <2>1 DEF Before
  <2> QED BY <1>2, <2>2
<1> QED BY <1>1, <1>2

\* First finds its candidate.
LEMMA FirstExists ==
  ASSUME NEW n \in {1, 2}, NEW S, IsFiniteSet(S), S # {},
         \A x \in S : x.id \in Int,
         \A x, y \in S : x.id = y.id => x = y,
         NEW key, \A x \in S : key[x] \in [1 .. n -> Int]
  PROVE  /\ First(S, key) \in S
         /\ \A y \in S \ {First(S, key)} :
              Before(First(S, key), key[First(S, key)], y, key[y])
<1> DEFINE R == {e \in S \X S : Before(e[1], key[e[1]], e[2], key[e[2]])}
<1>1. \A x, y \in S : <<x, y>> \in R <=> Before(x, key[x], y, key[y])
  OBVIOUS
<1>2. ASSUME NEW x \in S, NEW y \in S, x # y
      PROVE  Before(x, key[x], y, key[y]) \/ Before(y, key[y], x, key[x])
  <2>1. x.id # y.id
    BY <1>2
  <2> QED BY <2>1, BeforeIsOrder
<1>3. ASSUME NEW x \in S, NEW y \in S, NEW z \in S,
             Before(x, key[x], y, key[y]), Before(y, key[y], z, key[z])
      PROVE  Before(x, key[x], z, key[z])
  BY <1>3, BeforeIsOrder
<1> HIDE DEF R
<1>4. /\ \A x, y \in S : x # y => <<x, y>> \in R \/ <<y, x>> \in R
      /\ \A x, y, z \in S : <<x, y>> \in R /\ <<y, z>> \in R => <<x, z>> \in R
  BY <1>1, <1>2, <1>3
<1>5. \E x \in S : \A y \in S \ {x} : <<x, y>> \in R
  BY <1>4, FirstOfOrder
<1>6. \E x \in S : \A y \in S \ {x} : Before(x, key[x], y, key[y])
  BY <1>1, <1>5
<1> QED BY <1>6 DEF First
\* Sums of numbers up to a bound are numbers, up to as many times the bound.
LEMMA SumWithin ==
  ASSUME NEW S, IsFiniteSet(S), NEW k \in Nat, NEW f,
         \A x \in S : f[x] \in 0 .. k
  PROVE  /\ SumFunctionOnSet(f, S) \in Nat
         /\ SumFunctionOnSet(f, S) <= Cardinality(S) * k
<1> DEFINE g == Tally(f, S)
<1>1. /\ SumFunctionOnSet(f, S) = g[S]
      /\ \A T \in SUBSET S : g[T] = TallyAt(g, f, T)
  BY SumOfTally
<1> HIDE DEF g
<1> DEFINE Holds(T) == g[T] \in Nat /\ g[T] <= Cardinality(T) * k
           Sizewise == {n \in Nat : \A T \in SUBSET S : Cardinality(T) = n => Holds(T)}
<1>0. g[{}] = 0
  BY <1>1 DEF TallyAt
<1>2. 0 \in Sizewise
  BY <1>0, Sizes
<1>3. ASSUME NEW n \in Sizewise PROVE n + 1 \in Sizewise
  <2> SUFFICES ASSUME NEW T \in SUBSET S, Cardinality(T) = n + 1
               PROVE  Holds(T)
    OBVIOUS
  <2> DEFINE p == Picked(T)
             U == T \ {p}
  <2>1. n \in Nat /\ T # {}
    BY Sizes
  <2>2. p \in T /\ U \in SUBSET S /\ Cardinality(U) = n
    BY <2>1, PickedFrom
  <2>3. g[T] = f[p] + g[U]
    BY <1>1, <2>1 DEF TallyAt
  <2>4. g[U] \in Nat /\ g[U] <= n * k
    BY <2>2
  <2>5. f[p] \in Nat /\ f[p] <= k
    BY <2>2
  <2>6. (n + 1) * k = n * k + k /\ n * k \in Nat
    BY <2>1
  <2> HIDE DEF p, U
  <2> DEFINE low == n * k
             high == (n + 1) * k
  <2>7. g[U] <= low /\ high = low + k /\ low \in Nat
    BY <2>4, <2>6
  <2> HIDE DEF low, high
  <2>8. g[T] \in Nat /\ g[T] <= high
    BY <2>3, <2>4, <2>5, <2>7
  <2> QED BY <2>8 DEF high
<1> HIDE DEF Sizewise
<1>4. Sizewise = Nat
  BY <1>2, <1>3, NumberInduction DEF Sizewise
<1>5. Holds(S)
  BY <1>4, Sizes DEF Sizewise
<1> QED BY <1>1, <1>5

\* Changing one term changes the sum by as much.
LEMMA SumChange ==
  ASSUME NEW S, IsFiniteSet(S), NEW w \in S, NEW e, NEW f,
         \A x \in S : e[x] \in Int /\ f[x] \in Int,
         \A x \in S \ {w} : e[x] = f[x]
  PROVE  SumFunctionOnSet(f, S) = SumFunctionOnSet(e, S) + f[w] - e[w]
<1> DEFINE g == Tally(e, S)
           h == Tally(f, S)
<1>1. /\ SumFunctionOnSet(e, S) = g[S]
      /\ \A T \in SUBSET S : g[T] = TallyAt(g, e, T)
  BY SumOfTally
<1>2. /\ SumFunctionOnSet(f, S) = h[S]
      /\ \A T \in SUBSET S : h[T] = TallyAt(h, f, T)
  BY SumOfTally
<1> HIDE DEF g, h
<1> DEFINE Holds(T) == /\ g[T] \in Int /\ h[T] \in Int
                       /\ w \in T => h[T] = g[T] + f[w] - e[w]
                       /\ w \notin T => h[T] = g[T]
           Sizewise == {n \in Nat : \A T \in SUBSET S : Cardinality(T) = n => Holds(T)}
<1>0. g[{}] = 0 /\ h[{}] = 0
  BY <1>1, <1>2 DEF TallyAt
<1>3. 0 \in Sizewise
  BY <1>0, Sizes
<1>4. ASSUME NEW n \in Sizewise PROVE n + 1 \in Sizewise
  <2> SUFFICES ASSUME NEW T \in SUBSET S, Cardinality(T) = n + 1
               PROVE  Holds(T)
    OBVIOUS
  <2> DEFINE p == Picked(T)
             U == T \ {p}
  <2>1. n \in Nat /\ T # {}
    BY Sizes
  <2>2. p \in T /\ U \in SUBSET S /\ Cardinality(U) = n
    BY <2>1, PickedFrom
  <2>3. g[T] = e[p] + g[U] /\ h[T] = f[p] + h[U]
    BY <1>1, <1>2, <2>1 DEF TallyAt
  <2>4. Holds(U)
    BY <2>2
  <2>5. e[p] \in Int /\ f[p] \in Int /\ (p # w => e[p] = f[p])
    BY <2>2
  <2>6. w \in T <=> w = p \/ w \in U
    BY <2>2
  <2>7. p \notin U
    OBVIOUS
  <2> HIDE DEF p, U
  <2> QED BY <2>3, <2>4, <2>5, <2>6, <2>7
<1> HIDE DEF Sizewise
<1>5. Sizewise = Nat
  BY <1>3, <1>4, NumberInduction DEF Sizewise
<1>6. Holds(S)
  BY <1>5, Sizes DEF Sizewise
<1> QED BY <1>1, <1>2, <1>6


-----------------------------------------------------------------------------
(* The frontier of a run.                                                    *)

\* What the choices need of the candidates they choose from.
Choosable(S) ==
  /\ S \subseteq Candidates(Nat) /\ IsFiniteSet(S) /\ S # {}
  /\ \A x, y \in S : x.id = y.id => x = y

LEMMA RowFacts ==
  ASSUME NEW x \in Candidates(Nat)
  PROVE  /\ x.row \in [Cells -> Int] /\ DOMAIN x.row = Cells
         /\ x.id \in Nat /\ x.rate \in 0 .. FullRate
         /\ x.sd \in [Cells -> 0 .. MaxNoise] /\ MaxNoise \in Nat
BY LoopAssumption DEF Candidates

\* A sum is a number; a row that is as good on every cell has no smaller one,
\* and one that is as good up to k misses at most as many times k.
LEMMA SumFacts ==
  ASSUME NEW x \in Candidates(Nat), NEW y \in Candidates(Nat)
  PROVE  /\ Sum(x.row) \in Int /\ Sum(y.row) \in Int
         /\ Below(x.row, y.row) => Sum(x.row) <= Sum(y.row)
         /\ \A k \in Nat : Within(x.row, y.row, k) =>
              Sum(x.row) <= Sum(y.row) + Cardinality(Cells) * k
<1>1. /\ \A c \in Cells : x.row[c] \in Int /\ y.row[c] \in Int
      /\ DOMAIN x.row = Cells /\ DOMAIN y.row = Cells
  BY RowFacts
<1>2. ASSUME NEW z, DOMAIN z = Cells, \A c \in Cells : z[c] \in Int
      PROVE  Sum(z) \in Int
  <2>1. \A c \in Cells : z[c] \in Int /\ z[c] \in Int /\ z[c] <= z[c]
    BY <1>2
  <2> QED BY <1>2, <2>1, CellAssumption, SumIsMonotone DEF Sum, SumFunction
<1>3. Below(x.row, y.row) => Sum(x.row) <= Sum(y.row)
  <2> SUFFICES ASSUME Below(x.row, y.row) PROVE Sum(x.row) <= Sum(y.row)
    OBVIOUS
  <2>1. \A c \in Cells : /\ x.row[c] \in Int /\ y.row[c] \in Int
                         /\ x.row[c] <= y.row[c]
    BY <1>1 DEF Below
  <2> QED BY <1>1, <2>1, CellAssumption, SumIsMonotone DEF Sum, SumFunction
<1>4. ASSUME NEW k \in Nat, Within(x.row, y.row, k)
      PROVE  Sum(x.row) <= Sum(y.row) + Cardinality(Cells) * k
  <2>1. \A c \in Cells : /\ x.row[c] \in Int /\ y.row[c] \in Int
                         /\ x.row[c] <= y.row[c] + k
    BY <1>1, <1>4 DEF Within
  <2> QED BY <1>1, <2>1, CellAssumption, SumIsClose DEF Sum, SumFunction
<1> QED BY <1>1, <1>2, <1>3, <1>4

\* The first by mean has the largest mean and is no other's second; what
\* precedes every other is the first.
LEMMA MeanFacts ==
  ASSUME NEW S, Choosable(S)
  PROVE  /\ ByMean(S) \in S
         /\ \A y \in S : Sum(y.row) <= Sum(ByMean(S).row)
         /\ \A x \in S : (\A y \in S \ {x} :
                            Before(x, <<Sum(x.row)>>, y, <<Sum(y.row)>>))
                         => x = ByMean(S)
<1> DEFINE byMean == [m \in S |-> <<Sum(m.row)>>]
           b == First(S, byMean)
<1>1. /\ \A x \in S : x.id \in Int /\ Sum(x.row) \in Int
      /\ \A x, y \in S : x.id = y.id => x = y
      /\ S # {} /\ IsFiniteSet(S)
  BY RowFacts, SumFacts DEF Choosable
<1>2. \A x \in S : byMean[x] = <<Sum(x.row)>> /\ byMean[x] \in [1 .. 1 -> Int]
  BY <1>1
<1>3. ByMean(S) = b
  BY DEF ByMean
<1> HIDE DEF byMean
<1>4. b \in S /\ \A y \in S \ {b} : Before(b, byMean[b], y, byMean[y])
  BY <1>1, <1>2, FirstExists
<1> HIDE DEF b
<1>5. \A y \in S \ {b} : Before(b, <<Sum(b.row)>>, y, <<Sum(y.row)>>)
  BY <1>2, <1>4
<1>6. ASSUME NEW y \in S PROVE Sum(y.row) <= Sum(b.row)
  <2>1. y = b \/ Before(b, <<Sum(b.row)>>, y, <<Sum(y.row)>>)
    BY <1>5
  <2> QED BY <1>1, <1>4, <2>1 DEF Before
<1>7. ASSUME NEW x \in S,
             \A y \in S \ {x} : Before(x, <<Sum(x.row)>>, y, <<Sum(y.row)>>)
      PROVE  x = b
  <2> SUFFICES ASSUME x # b PROVE FALSE
    OBVIOUS
  <2>1. /\ Before(x, <<Sum(x.row)>>, b, <<Sum(b.row)>>)
        /\ Before(b, <<Sum(b.row)>>, x, <<Sum(x.row)>>)
    BY <1>4, <1>5, <1>7
  <2> QED BY <1>1, <1>4, <2>1 DEF Before
<1> QED BY <1>3, <1>4, <1>6, <1>7

\* What Best chooses by: the mean alone, the mean among those that meet the
\* constraint, or the mean after the constraint (Frontier.Best).
LEMMA BestFacts ==
  ASSUME NEW S, Choosable(S)
  PROVE  /\ Best(S) \in S
         /\ ~ Constrained => \A y \in S : Sum(y.row) <= Sum(Best(S).row)
         /\ Constrained /\ Satisfying(S) # {} =>
              /\ Best(S) \in Satisfying(S)
              /\ \A y \in Satisfying(S) : Sum(y.row) <= Sum(Best(S).row)
         /\ Constrained /\ Satisfying(S) = {} =>
              \A y \in S : \/ y.rate < Best(S).rate
                           \/ /\ y.rate = Best(S).rate
                              /\ Sum(y.row) <= Sum(Best(S).row)
<1> DEFINE kept == Satisfying(S)
           byBoth == [m \in S |-> <<Sum(m.row), m.rate>>]
           byRate == [m \in S |-> <<m.rate, Sum(m.row)>>]
<1>1. /\ \A x \in S : x.id \in Int /\ Sum(x.row) \in Int /\ x.rate \in Int
      /\ \A x, y \in S : x.id = y.id => x = y
      /\ S # {} /\ IsFiniteSet(S)
  BY RowFacts, SumFacts, ConstraintAssumption DEF Choosable
<1>2. kept \subseteq S /\ IsFiniteSet(kept)
  BY <1>1, FS_Subset DEF Satisfying
<1>3. \A x \in S : byBoth[x] \in [1 .. 2 -> Int] /\ byRate[x] \in [1 .. 2 -> Int]
  BY <1>1
<1>4. CASE ~ Constrained
  BY <1>4, MeanFacts DEF Best
<1>5. CASE Constrained /\ kept # {}
  <2> DEFINE b == First(kept, byBoth)
  <2>1. Best(S) = b
    BY <1>5 DEF Best
  <2> HIDE DEF byBoth, kept
  <2>2. b \in kept /\ \A y \in kept \ {b} : Before(b, byBoth[b], y, byBoth[y])
    BY <1>1, <1>2, <1>3, <1>5, FirstExists
  <2> HIDE DEF b
  <2>3. ASSUME NEW y \in kept PROVE Sum(y.row) <= Sum(b.row)
    <3>1. y = b \/ Before(b, <<Sum(b.row), b.rate>>, y, <<Sum(y.row), y.rate>>)
      BY <1>2, <2>2 DEF byBoth
    <3>2. \/ y = b \/ Sum(b.row) > Sum(y.row) \/ Sum(b.row) = Sum(y.row)
      BY <3>1 DEF Before
    <3> QED BY <1>1, <1>2, <2>2, <3>2
  <2> QED BY <1>2, <1>5, <2>1, <2>2, <2>3 DEF kept
<1>6. CASE Constrained /\ kept = {}
  <2> DEFINE b == First(S, byRate)
  <2>1. Best(S) = b
    BY <1>6 DEF Best
  <2> HIDE DEF byRate
  <2>2. b \in S /\ \A y \in S \ {b} : Before(b, byRate[b], y, byRate[y])
    BY <1>1, <1>3, FirstExists
  <2> HIDE DEF b
  <2>3. ASSUME NEW y \in S
        PROVE  y.rate < b.rate \/ (y.rate = b.rate /\ Sum(y.row) <= Sum(b.row))
    <3>1. y = b \/ Before(b, <<b.rate, Sum(b.row)>>, y, <<y.rate, Sum(y.row)>>)
      BY <2>2 DEF byRate
    <3>2. \/ y = b \/ b.rate > y.rate
          \/ b.rate = y.rate /\ (Sum(b.row) > Sum(y.row) \/ Sum(b.row) = Sum(y.row))
      BY <3>1 DEF Before
    <3> QED BY <1>1, <2>2, <3>2
  <2> QED BY <1>6, <2>1, <2>2, <2>3
<1> QED BY <1>4, <1>5, <1>6

\* The deliverable is at least as good, up to k, as whatever some member is at
\* least as good as up to k: by the mean, and under a constraint by the rate.
LEMMA BestIsAtLeast ==
  ASSUME NEW S, Choosable(S), NEW b \in Candidates(Nat), NEW x \in S, NEW k \in Nat,
         Sum(b.row) <= Sum(x.row) + k, Constrained => b.rate <= x.rate
  PROVE  AtLeastAsGood(Best(S), b, k)
<1> DEFINE t == Best(S)
<1>1. /\ t \in S /\ t \in Candidates(Nat) /\ x \in Candidates(Nat)
      /\ t.rate \in 0 .. FullRate /\ x.rate \in 0 .. FullRate
      /\ b.rate \in 0 .. FullRate /\ FullRate \in Nat
  BY BestFacts, RowFacts, ConstraintAssumption DEF Choosable
<1>2. Sum(t.row) \in Int /\ Sum(x.row) \in Int /\ Sum(b.row) \in Int
  BY <1>1, SumFacts
<1>3. Satisfying(S) # {} /\ t \in Satisfying(S) => t.rate >= FullRate
  BY DEF Satisfying
<1>4. x.rate >= FullRate => x \in Satisfying(S)
  BY DEF Satisfying
<1> SUFFICES AtLeastAsGood(t, b, k)
  OBVIOUS
<1>5. CASE ~ Constrained
  <2>1. Sum(x.row) <= Sum(t.row)
    BY <1>5, BestFacts
  <2> HIDE DEF t
  <2> QED BY <1>2, <1>5, <2>1 DEF AtLeastAsGood
<1>6. CASE Constrained /\ Satisfying(S) # {}
  <2>1. t \in Satisfying(S) /\ \A y \in Satisfying(S) : Sum(y.row) <= Sum(t.row)
    BY <1>6, BestFacts
  <2> HIDE DEF t
  <2>2. t.rate >= FullRate
    BY <1>3, <1>6, <2>1
  <2>3. b.rate >= FullRate => Sum(x.row) <= Sum(t.row)
    BY <1>1, <1>4, <1>6, <2>1
  <2> QED BY <1>1, <1>2, <1>6, <2>2, <2>3 DEF AtLeastAsGood
<1>7. CASE Constrained /\ Satisfying(S) = {}
  <2>1. x.rate < t.rate \/ (x.rate = t.rate /\ Sum(x.row) <= Sum(t.row))
    BY <1>7, BestFacts
  <2> HIDE DEF t
  <2>2. b.rate < FullRate
    BY <1>1, <1>4, <1>7
  <2> QED BY <1>1, <1>2, <1>7, <2>1, <2>2 DEF AtLeastAsGood
<1> QED BY <1>5, <1>6, <1>7, ConstraintAssumption

-----------------------------------------------------------------------------
(* The measured noise, and what it may hide.                                 *)

\* The noise of a set of candidates: Noise and Blur are those of offered.
NoiseOf(O) == {o.sd[c] : o \in O, c \in Cells}
BlurOf(O) == CHOOSE e \in NoiseOf(O) : \A f \in NoiseOf(O) : f <= e

\* Every candidate is matched by some member up to the noise.
CoveredBy(O, S) ==
  \A o \in O : \E m \in S : Within(o.row, m.row, BlurOf(O))

LEMMA BlurFacts ==
  ASSUME NEW O, O \subseteq Candidates(Nat), O # {}
  PROVE  /\ BlurOf(O) \in Nat /\ BlurOf(O) \in NoiseOf(O)
         /\ \A o \in O : \A c \in Cells : o.sd[c] \in Nat /\ o.sd[c] <= BlurOf(O)
<1>1. NoiseOf(O) \subseteq 0 .. MaxNoise /\ MaxNoise \in Nat
  BY RowFacts, LoopAssumption DEF NoiseOf
<1>2. NoiseOf(O) # {}
  <2>1. PICK o \in O, c \in Cells : TRUE
    BY CellAssumption
  <2>2. o.sd[c] \in NoiseOf(O)
    BY <2>1 DEF NoiseOf
  <2> QED BY <2>2
<1> DEFINE T == {n \in Nat : \E f \in NoiseOf(O) : n = MaxNoise - f}
<1>3. T \in SUBSET Nat /\ T # {}
  <2>1. PICK f \in NoiseOf(O) : TRUE
    BY <1>2
  <2>2. MaxNoise - f \in T
    BY <1>1
  <2> QED BY <2>2
<1>4. PICK n \in T : \A m \in T : n <= m
  BY <1>3, LeastNumber
<1>5. PICK e \in NoiseOf(O) : n = MaxNoise - e
  BY <1>4
<1>6. \A f \in NoiseOf(O) : f <= e
  <2> SUFFICES ASSUME NEW f \in NoiseOf(O) PROVE f <= e
    OBVIOUS
  <2>1. MaxNoise - f \in T
    BY <1>1
  <2>2. n <= MaxNoise - f
    BY <1>4, <2>1
  <2> QED BY <1>1, <1>5, <2>2
<1>7. BlurOf(O) \in NoiseOf(O) /\ \A f \in NoiseOf(O) : f <= BlurOf(O)
  BY <1>6 DEF BlurOf
<1>8. \A o \in O : \A c \in Cells : o.sd[c] \in NoiseOf(O)
  BY DEF NoiseOf
<1> QED BY <1>1, <1>7, <1>8

\* Beating, by whatever margin, implies being as good on every cell
\* (DominatesWithMargin against Dominates, with margins that are never
\* negative).
LEMMA BeatsIsAbove ==
  ASSUME NEW x \in Candidates(Nat), NEW y \in Candidates(Nat), Beats(x, y)
  PROVE  Below(y.row, x.row)
<1>1. x.row \in [Cells -> Int] /\ y.row \in [Cells -> Int]
  BY RowFacts
<1>2. CASE BothRepeated(x, y)
  <2>1. \A c \in Cells : x.row[c] >= y.row[c] + MarginOf(x, y)[c]
    BY <1>2 DEF Beats, DominatesWithMargin
  <2>2. \A c \in Cells : MarginOf(x, y)[c] \in 0 .. MaxNoise
    BY RowFacts DEF MarginOf
  <2> QED BY <1>1, <2>1, <2>2 DEF Below
<1>3. CASE ~ BothRepeated(x, y)
  BY <1>3 DEF Beats, Dominates
<1> QED BY <1>2, <1>3

\* Indistinguishable rows differ by no more than the larger deviation
\* (IsEpsClone).
LEMMA SameIsWithin ==
  ASSUME NEW x \in Candidates(Nat), NEW y \in Candidates(Nat), Same(x, y),
         NEW e \in Nat, \A c \in Cells : x.sd[c] <= e /\ y.sd[c] <= e
  PROVE  Within(y.row, x.row, e)
<1>1. x.row \in [Cells -> Int] /\ y.row \in [Cells -> Int]
  BY RowFacts
<1>2. CASE BothRepeated(x, y)
  <2> SUFFICES ASSUME NEW c \in Cells
               PROVE  y.row[c] <= x.row[c] + e
    BY DEF Within
  <2>1. PICK d \in Cells : y.row[c] - x.row[c] <= MarginOf(x, y)[d]
    BY <1>2 DEF Same, IsEpsClone
  <2>2. MarginOf(x, y)[d] \in 0 .. MaxNoise /\ MarginOf(x, y)[d] <= e
    BY RowFacts DEF MarginOf
  <2> QED BY <1>1, <2>1, <2>2
<1>3. CASE ~ BothRepeated(x, y)
  BY <1>1, <1>3 DEF Same, Within
<1> QED BY <1>2, <1>3

\* An admission keeps every candidate matched up to the noise, the newcomer
\* included: what was refused is matched by the member it was refused for, and
\* a member leaves for one as good on every cell (Frontier.AddNoiseAware).
LEMMA AdmissionCovers ==
  ASSUME NEW O, O \subseteq Candidates(Nat), O # {}, NEW S, S \subseteq O,
         CoveredBy(O, S), NEW m \in Candidates(Nat)
  PROVE  CoveredBy(O \cup {m}, AddNoiseAware(S, m))
<1> DEFINE U == O \cup {m}
           T == AddNoiseAware(S, m)
           d == BlurOf(O)
           e == BlurOf(U)
<1>1. /\ U \subseteq Candidates(Nat) /\ U # {}
      /\ d \in Nat /\ e \in Nat
      /\ \A o \in U : \A c \in Cells : o.sd[c] <= e
  BY BlurFacts
<1>2. d <= e
  <2>1. d \in NoiseOf(O)
    BY BlurFacts
  <2>2. PICK o \in O, c \in Cells : d = o.sd[c]
    BY <2>1 DEF NoiseOf
  <2> QED BY <1>1, <2>2
<1>3. \A x \in U : x.row \in [Cells -> Int]
  BY <1>1, RowFacts
<1> HIDE DEF d, e
<1>4. ASSUME NEW r \in [Cells -> Int], NEW x \in S, Within(r, x.row, e)
      PROVE  \E n \in T : Within(r, n.row, e)
  <2>1. CASE x \in T
    BY <1>4, <2>1
  <2>2. CASE x \notin T
    <3>1. Beats(m, x) /\ m \in T
      BY <2>2 DEF AddNoiseAware, Evicted
    <3>2. Below(x.row, m.row)
      BY <1>1, <3>1, BeatsIsAbove
    <3>3. Within(r, m.row, e)
      BY <1>1, <1>3, <1>4, <3>2 DEF Within, Below
    <3> QED BY <3>1, <3>3
  <2> QED BY <2>1, <2>2
<1>5. ASSUME NEW o \in O PROVE \E n \in T : Within(o.row, n.row, e)
  <2>1. PICK x \in S : Within(o.row, x.row, d)
    BY DEF CoveredBy, d
  <2>2. Within(o.row, x.row, e)
    BY <1>1, <1>2, <1>3, <2>1 DEF Within
  <2> QED BY <1>3, <1>4, <2>2
<1>6. \E n \in T : Within(m.row, n.row, e)
  <2>1. CASE Refused(S, m)
    <3>1. PICK x \in S : Beats(x, m) \/ Same(x, m)
      BY <2>1 DEF Refused
    <3>2. CASE Beats(x, m)
      <4>1. Below(m.row, x.row)
        BY <1>1, <3>2, BeatsIsAbove
      <4>2. Within(m.row, x.row, e)
        BY <1>1, <1>3, <4>1 DEF Below, Within
      <4> QED BY <2>1, <4>2 DEF AddNoiseAware
    <3>3. CASE Same(x, m)
      <4>1. Within(m.row, x.row, e)
        BY <1>1, <3>3, SameIsWithin
      <4> QED BY <2>1, <4>1 DEF AddNoiseAware
    <3> QED BY <3>1, <3>2, <3>3
  <2>2. CASE ~ Refused(S, m)
    <3>1. m \in T
      BY <2>2 DEF AddNoiseAware
    <3>2. Within(m.row, m.row, e)
      BY <1>1, <1>3 DEF Within
    <3> QED BY <3>1, <3>2
  <2> QED BY <2>1, <2>2
<1> QED BY <1>5, <1>6 DEF CoveredBy, e

\* What is matched up to the noise leaves the deliverable no room to be worse,
\* but for the two concessions.
LEMMA CoveredIsDelivered ==
  ASSUME NEW O, O \subseteq Candidates(Nat), NEW S, S \subseteq O, Choosable(S),
         CoveredBy(O, S), NEW o \in O
  PROVE  \/ AtLeastAsGood(Best(S), o, Cardinality(Cells) * BlurOf(O))
         \/ \E n \in S : /\ Constrained /\ n.rate < o.rate
                         /\ Within(o.row, n.row, BlurOf(O))
<1>1. PICK n \in S : Within(o.row, n.row, BlurOf(O))
  BY DEF CoveredBy
<1>2. BlurOf(O) \in Nat /\ Cardinality(Cells) \in Nat
  BY BlurFacts, CellAssumption, FS_CardinalityType
<1> DEFINE k == Cardinality(Cells) * BlurOf(O)
<1>3. k \in Nat
  BY <1>2
<1>4. Sum(o.row) <= Sum(n.row) + k
  BY <1>1, <1>2, SumFacts
<1> HIDE DEF k
<1>5. CASE Constrained => o.rate <= n.rate
  <2>1. AtLeastAsGood(Best(S), o, k)
    BY <1>3, <1>4, <1>5, BestIsAtLeast
  <2> QED BY <2>1 DEF k
<1>6. CASE Constrained /\ ~ (o.rate <= n.rate)
  <2>1. n.rate < o.rate
    <3>1. o.rate \in 0 .. FullRate /\ n.rate \in 0 .. FullRate
      BY RowFacts
    <3> QED BY <1>6, <3>1, ConstraintAssumption
  <2> QED BY <1>1, <1>6, <2>1
<1> QED BY <1>5, <1>6, ConstraintAssumption

-----------------------------------------------------------------------------
(* The budget. *)

\* Metering keeps the budget a budget, touches no reservation and never
\* disarms the soft stop.
LEMMA RecordUsageFacts ==
  ASSUME NEW b \in Budgets, NEW r \in Role, NEW u \in Nat
  PROVE  /\ RecordUsage(b, r, u) \in Budgets
         /\ RecordUsage(b, r, u).evals = b.evals
         /\ b.softStop => RecordUsage(b, r, u).softStop
<1> DEFINE spent == [b.usage EXCEPT ![r] = @ + u]
           after == [evals |-> b.evals, usage |-> spent, softStop |-> b.softStop]
           arms == r \in {"executor", "judge"} /\ OverLimit(after)
<1>1. b.evals \in Nat /\ b.usage \in [Role -> Nat] /\ b.softStop \in BOOLEAN
  BY DEF Budgets
<1>2. spent \in [Role -> Nat]
  BY <1>1
<1>3. RecordUsage(b, r, u)
        = [evals |-> b.evals, usage |-> spent, softStop |-> b.softStop \/ arms]
  BY DEF RecordUsage
<1>4. (b.softStop \/ arms) \in BOOLEAN
  BY <1>1, Zenon
<1> HIDE DEF spent, after, arms
<1>5. QED
  BY <1>1, <1>2, <1>3, <1>4 DEF Budgets

\* A reservation keeps the budget a budget and does not touch the soft stop.
LEMMA AcquireFacts ==
  ASSUME NEW b \in Budgets, NEW k \in Nat
  PROVE  /\ Acquire(b, k) \in Budgets
         /\ Acquire(b, k).evals = b.evals + k
         /\ Acquire(b, k).softStop = b.softStop
BY DEF Acquire, Budgets

\* A unit over n samples leaves a budget behind it and has reserved what it
\* dispatched.
LEMMA UnitFacts ==
  ASSUME NEW n \in Nat, NEW d, RunUnit(n, d), budget \in Budgets,
         cancelled \in BOOLEAN
  PROVE  /\ d \in 0 .. n
         /\ budget' \in Budgets /\ cancelled' \in BOOLEAN
         /\ budget'.evals = budget.evals + Reps * d
         /\ EvalLimit > 0 => budget'.evals <= EvalLimit
         /\ d < n => cancelled' \/ ~ CanAcquire(budget', Reps)
<1>1. d \in Nat /\ Reps * d \in Nat /\ 0 .. d * MaxSampleCost \subseteq Nat
  BY LoopAssumption DEF RunUnit
<1>2. PICK cost \in Nat :
        budget' = RecordUsage(Acquire(budget, Reps * d), "executor", cost)
  BY <1>1 DEF RunUnit
<1>3. /\ Acquire(budget, Reps * d) \in Budgets
      /\ Acquire(budget, Reps * d).evals = budget.evals + Reps * d
  BY <1>1, AcquireFacts
<1>4. "executor" \in Role
  BY DEF Role
<1>5. budget' \in Budgets /\ budget'.evals = budget.evals + Reps * d
  BY <1>2, <1>3, <1>4, RecordUsageFacts
<1> QED BY <1>5 DEF RunUnit

\* An optimiser stage leaves a budget behind it and reserves nothing; one that
\* is refused leaves the valve closed.
LEMMA StageFacts ==
  ASSUME StageRefused \/ StageFailed \/ StageDone, budget \in Budgets
  PROVE  /\ budget' \in Budgets /\ budget'.evals = budget.evals
         /\ StageRefused => ValveTripped(budget')
<1>1. \/ UNCHANGED budget
      \/ \E c \in StageCosts : budget' = RecordUsage(budget, "optimizer", c)
  BY DEF StageRefused, StageFailed, StageDone
<1>2. ASSUME NEW c \in StageCosts
      PROVE  /\ RecordUsage(budget, "optimizer", c) \in Budgets
             /\ RecordUsage(budget, "optimizer", c).evals = budget.evals
  <2>1. c \in Nat /\ "optimizer" \in Role
    BY LoopAssumption DEF Role
  <2> QED BY <2>1, RecordUsageFacts
<1>3. StageRefused => ValveTripped(budget')
  BY DEF StageRefused
<1> QED BY <1>1, <1>2, <1>3

\* The retained set has a size.
LEMMA CellCount == Cardinality(Cells) \in Nat \ {0}
BY CellAssumption, FS_CardinalityType, FS_EmptySet

-----------------------------------------------------------------------------
(* The steps the optimisers share.  Whatever the optimiser, a step leaves    *)
(* frontier and lineage alone, raises a child of a fresh id, or records one  *)
(* that was cut short; what these keep is proved once, here.                 *)

Ends == {"finish", "done", "error"}

\* The ids that are in use.
Taken == {l.id : l \in lineage} \cup {o.id : o \in offered} \cup whole

Data(ids) ==
  /\ members \subseteq offered /\ admitted \subseteq offered
  /\ offered \subseteq Candidates(ids)
  /\ lineage \subseteq Lineages(ids)
  /\ whole \subseteq ids

Flags ==
  /\ budget \in Budgets
  /\ valveFired \in BOOLEAN /\ cancelled \in BOOLEAN
  /\ reason \in Reason

Rounds == round \in 0 .. MaxRounds /\ rounds \in 0 .. round

\* The lineage and the frontier agree, also once an error ended the run.
Explained ==
  /\ members \subseteq admitted /\ OnlyWholeMembers /\ 0 \in Taken
  /\ \A m \in members : \E l \in lineage : l.id = m.id /\ l.admitted
  /\ \A l \in lineage : l.admitted <=> \E a \in admitted : a.id = l.id
  /\ \A l \in lineage : l.incomplete <=> l.id \notin whole \cup {0}
  /\ \A k, l \in lineage : k.id = l.id => k = l

\* Ids name candidates, and everything offered is matched by a member.
Delivers ==
  /\ IsFiniteSet(offered) /\ members # {}
  /\ \A x, y \in offered : x.id = y.id => x = y
  /\ CoveredBy(offered, members)

LoopInv == Explained /\ Delivers

LEMMA LoopTypeParts ==
  ASSUME NEW ids
  PROVE  LoopType(ids) <=> Data(ids) /\ Flags /\ Rounds
BY DEF LoopType, Data, Flags, Rounds

\* Where every optimiser begins.
LEMMA NewLoopFacts ==
  ASSUME NEW start, NewLoop(start), NEW ids, 0 \in ids, ids \subseteq Nat
  PROVE  /\ at = start /\ round = 0 /\ rounds = 0 /\ reason = "none"
         /\ whole = {} /\ Taken = {0}
         /\ \E m \in Candidates({0}) : members = {m} /\ offered = {m}
         /\ budget \in Inherited
         /\ Data(ids) /\ Flags /\ Rounds /\ LoopInv
<1>1. PICK m \in Candidates({0}) : members = {m}
  BY DEF NewLoop
<1>2. /\ at = start /\ round = 0 /\ rounds = 0 /\ reason = "none" /\ whole = {}
      /\ lineage = {[id |-> 0, admitted |-> TRUE, incomplete |-> FALSE]}
      /\ offered = {m} /\ admitted = {m}
      /\ valveFired = FALSE /\ cancelled = FALSE
  BY <1>1 DEF NewLoop
<1>3. m.id = 0 /\ m \in Candidates(ids) /\ m \in Candidates(Nat)
  BY DEF Candidates
<1>4. Taken = {0}
  BY <1>2, <1>3 DEF Taken
<1>5. Data(ids)
  BY <1>1, <1>2, <1>3 DEF Data, Lineages
<1>6. Flags /\ budget \in Inherited
  <2>1. budget \in Inherited
    BY DEF NewLoop
  <2>2. budget \in Budgets
    BY <2>1, LoopAssumption DEF Reachable
  <2> QED BY <1>2, <2>1, <2>2 DEF Flags, Reason
<1>7. Rounds
  BY <1>2, LoopAssumption DEF Rounds
<1>8. Explained
  BY <1>1, <1>2, <1>3, <1>4 DEF Explained, OnlyWholeMembers
<1>9. Delivers
  <2>1. IsFiniteSet({m})
    BY FS_Singleton
  <2>2. CoveredBy({m}, {m})
    <3>1. BlurOf({m}) \in Nat /\ m.row \in [Cells -> Int]
      BY <1>3, BlurFacts, RowFacts
    <3>2. Within(m.row, m.row, BlurOf({m}))
      BY <3>1 DEF Within
    <3> QED BY <3>2 DEF CoveredBy
  <2> QED BY <1>1, <1>2, <2>1, <2>2 DEF Delivers
<1> QED BY <1>1, <1>2, <1>4, <1>5, <1>6, <1>7, <1>8, <1>9 DEF LoopInv

\* A step that leaves frontier and lineage alone.
LEMMA FrameKeeps ==
  ASSUME UNCHANGED frontierVars, LoopInv
  PROVE  /\ LoopInv' /\ Taken' = Taken
         /\ \A ids : Data(ids) => Data(ids)'
BY DEF frontierVars, LoopInv, Explained, Delivers, OnlyWholeMembers, Taken, Data

\* A child that was cut short: it is in the lineage only.
LEMMA CutKeeps ==
  ASSUME NEW ids, Data(ids), LoopInv, NEW id \in ids, id \notin Taken,
         CutShort(id)
  PROVE  Data(ids)' /\ LoopInv' /\ Taken' = Taken \cup {id}
<1> DEFINE n == [id |-> id, admitted |-> FALSE, incomplete |-> TRUE]
<1>1. lineage' = lineage \cup {n} /\ UNCHANGED <<members, offered, admitted, whole>>
  BY DEF CutShort, RecordedIncomplete
<1>2. n.id = id /\ n.admitted = FALSE /\ n.incomplete = TRUE /\ n \in Lineages(ids)
  BY DEF Lineages
<1> HIDE DEF n
<1>3. Data(ids)'
  BY <1>1, <1>2 DEF Data
<1>4. Taken' = Taken \cup {id}
  BY <1>1, <1>2 DEF Taken
<1>5. Explained'
  <2>1. /\ \A l \in lineage : l.id # id
        /\ \A a \in admitted : a.id # id
        /\ id \notin whole \cup {0}
    BY DEF Taken, Data, LoopInv, Explained
  <2>2. \A l \in lineage' : l.admitted <=> \E a \in admitted' : a.id = l.id
    BY <1>1, <1>2, <2>1 DEF LoopInv, Explained
  <2>3. \A l \in lineage' : l.incomplete <=> l.id \notin whole' \cup {0}
    BY <1>1, <1>2, <2>1 DEF LoopInv, Explained
  <2>4. \A k, l \in lineage' : k.id = l.id => k = l
    BY <1>1, <1>2, <2>1 DEF LoopInv, Explained
  <2>5. \A m \in members' : \E l \in lineage' : l.id = m.id /\ l.admitted
    BY <1>1 DEF LoopInv, Explained
  <2>6. members' \subseteq admitted' /\ OnlyWholeMembers' /\ 0 \in Taken'
    BY <1>1, <1>4 DEF LoopInv, Explained, OnlyWholeMembers
  <2> QED BY <2>2, <2>3, <2>4, <2>5, <2>6 DEF Explained
<1>6. Delivers'
  BY <1>1 DEF LoopInv, Delivers
<1> QED BY <1>3, <1>4, <1>5, <1>6 DEF LoopInv

\* A child evaluated on every sample: its record agrees with what became of it.
LEMMA RaiseExplained ==
  ASSUME NEW ids, Data(ids), LoopInv, NEW id \in ids, id \notin Taken,
         NEW m \in Candidates({id}), Raise(m)
  PROVE  Data(ids)' /\ Explained' /\ Taken' = Taken \cup {id}
<1> DEFINE b == ~ Refused(members, m)
           n == [id |-> id, admitted |-> b, incomplete |-> FALSE]
<1>0. m.id = id /\ m \in Candidates(ids)
  BY DEF Candidates
<1>1. b \in BOOLEAN
  BY Zenon DEF Refused
<1>2. /\ lineage' = lineage \cup {n}
      /\ offered' = offered \cup {m}
      /\ members' = AddNoiseAware(members, m)
      /\ admitted' = IF b THEN admitted \cup {m} ELSE admitted
      /\ whole' = whole \cup {id}
  BY <1>0 DEF Raise, Offered, Recorded, RecordedAdmitted, Joined
<1>3. /\ members' \subseteq members \cup {m}
      /\ ~ b => members' = members
  BY <1>2 DEF AddNoiseAware
<1> HIDE DEF b
<1>4. n.id = id /\ n.admitted = b /\ n.incomplete = FALSE /\ n \in Lineages(ids)
  BY <1>1 DEF Lineages
<1> HIDE DEF n
<1>5. Data(ids)'
  BY <1>0, <1>2, <1>3, <1>4 DEF Data
<1>6. Taken' = Taken \cup {id}
  BY <1>0, <1>2, <1>4 DEF Taken
<1>7. /\ \A l \in lineage : l.id # id
      /\ \A a \in admitted : a.id # id
  BY DEF Taken, Data
<1>8. \A x \in members' : \E l \in lineage' : l.id = x.id /\ l.admitted
  <2>1. CASE ~ b
    BY <1>2, <1>3, <2>1 DEF LoopInv, Explained
  <2>2. CASE b
    <3>1. n \in lineage' /\ n.id = m.id /\ n.admitted
      BY <1>0, <1>2, <1>4, <2>2
    <3>2. \A x \in members : \E l \in lineage' : l.id = x.id /\ l.admitted
      BY <1>2 DEF LoopInv, Explained
    <3> QED BY <1>3, <3>1, <3>2
  <2> QED BY <2>1, <2>2
<1>9. \A l \in lineage' : l.admitted <=> \E a \in admitted' : a.id = l.id
  <2>1. n.admitted <=> \E a \in admitted' : a.id = n.id
    BY <1>0, <1>2, <1>4, <1>7
  <2>2. \A l \in lineage : (\E a \in admitted' : a.id = l.id)
                            <=> \E a \in admitted : a.id = l.id
    BY <1>0, <1>2, <1>7
  <2> QED BY <1>2, <2>1, <2>2 DEF LoopInv, Explained
<1>10. \A l \in lineage' : l.incomplete <=> l.id \notin whole' \cup {0}
  BY <1>2, <1>4, <1>7 DEF LoopInv, Explained
<1>11. \A k, l \in lineage' : k.id = l.id => k = l
  BY <1>2, <1>4, <1>7 DEF LoopInv, Explained
<1>12. members' \subseteq admitted' /\ OnlyWholeMembers' /\ 0 \in Taken'
  BY <1>0, <1>2, <1>3, <1>6 DEF LoopInv, Explained, OnlyWholeMembers
<1> QED BY <1>5, <1>6, <1>8, <1>9, <1>10, <1>11, <1>12 DEF Explained

\* ... and everything offered is still matched by a member.
LEMMA RaiseDelivers ==
  ASSUME NEW ids \in SUBSET Nat, Data(ids), LoopInv, NEW id \in ids,
         id \notin Taken, NEW m \in Candidates({id}), Raise(m)
  PROVE  Delivers'
<1>1. /\ offered' = offered \cup {m}
      /\ members' = AddNoiseAware(members, m)
  BY DEF Raise, Offered, Joined
<1>2. /\ m.id = id /\ m \in Candidates(Nat)
      /\ offered \subseteq Candidates(Nat)
  BY DEF Candidates, Data
<1>3. /\ IsFiniteSet(offered') /\ offered' \subseteq Candidates(Nat)
      /\ \A x, y \in offered' : x.id = y.id => x = y
  <2>1. \A x \in offered : x.id # id
    BY DEF Taken
  <2> QED BY <1>1, <1>2, <2>1, FS_AddElement DEF LoopInv, Delivers
<1>4. members' # {}
  BY <1>1 DEF AddNoiseAware, LoopInv, Delivers
<1>5. CoveredBy(offered', members')
  <2>1. members \subseteq offered /\ members # {} /\ CoveredBy(offered, members)
    BY DEF Data, LoopInv, Delivers
  <2>2. offered # {}
    BY <2>1
  <2> QED BY <1>1, <1>2, <2>1, <2>2, AdmissionCovers
<1> QED BY <1>3, <1>4, <1>5 DEF Delivers

LEMMA RaiseKeeps ==
  ASSUME NEW ids \in SUBSET Nat, Data(ids), LoopInv, NEW id \in ids,
         id \notin Taken, NEW m \in Candidates({id}), Raise(m)
  PROVE  Data(ids)' /\ LoopInv' /\ Taken' = Taken \cup {id}
BY RaiseExplained, RaiseDelivers DEF LoopInv

-----------------------------------------------------------------------------
(* The instances' operators are the loop's.                                  *)

\* ProTeGi's ...
LEMMA SamePT ==
  /\ \A n, d : PT!RunUnit(n, d) <=> RunUnit(n, d)
  /\ PT!StageRefused <=> StageRefused
  /\ PT!StageDone <=> StageDone
  /\ PT!StageFailed <=> StageFailed
  /\ PT!Stopped = Stopped /\ PT!Stopped' = Stopped'
  /\ \A m : PT!Raise(m) <=> Raise(m)
  /\ \A id : PT!CutShort(id) <=> CutShort(id)
  /\ \A start : PT!NewLoop(start) <=> NewLoop(start)
  /\ \A ids : PT!LoopType(ids) <=> LoopType(ids)
  /\ \A ids : PT!Candidates(ids) = Candidates(ids)
  /\ \A S : PT!Cardinality(S) = Cardinality(S)
  /\ \A f : PT!SumFunction(f) = SumFunction(f)
<1>1. \A n, d : PT!RunUnit(n, d) <=> RunUnit(n, d)
  BY DEF RunUnit, RecordUsage, Acquire, CanAcquire, OverLimit, EvalTokens,
         PT!RunUnit, PT!RecordUsage, PT!Acquire, PT!CanAcquire,
         PT!OverLimit, PT!EvalTokens
<1>2. /\ PT!StageRefused <=> StageRefused
      /\ PT!StageDone <=> StageDone
      /\ PT!StageFailed <=> StageFailed
  BY DEF StageRefused, StageDone, StageFailed, ValveTripped, RecordUsage,
         OverLimit, EvalTokens, PT!StageRefused, PT!StageDone,
         PT!StageFailed, PT!ValveTripped, PT!RecordUsage, PT!OverLimit,
         PT!EvalTokens
<1>3. PT!Stopped = Stopped /\ PT!Stopped' = Stopped'
  BY DEF Stopped, ValveTripped, PT!Stopped, PT!ValveTripped
<1>4. \A x, y : PT!Beats(x, y) = Beats(x, y) /\ PT!Same(x, y) = Same(x, y)
  BY DEF Beats, Same, BothRepeated, DominatesWithMargin, MarginOf,
         IsEpsClone, Dominates, Below, PT!Beats, PT!Same, PT!BothRepeated,
         PT!DominatesWithMargin, PT!MarginOf, PT!IsEpsClone, PT!Dominates,
         PT!Below
<1>5. \A S, m : /\ PT!Refused(S, m) = Refused(S, m)
               /\ PT!Evicted(S, m) = Evicted(S, m)
  BY <1>4 DEF Refused, Evicted, PT!Refused, PT!Evicted
<1>6. \A m : PT!Raise(m) <=> Raise(m)
  BY <1>5 DEF Raise, Offered, Joined, AddNoiseAware, Recorded, RecordedAdmitted,
         PT!Raise, PT!Offered, PT!Joined, PT!AddNoiseAware, PT!Recorded,
         PT!RecordedAdmitted
<1>7. \A id : PT!CutShort(id) <=> CutShort(id)
  BY DEF CutShort, RecordedIncomplete, Stop, PT!CutShort,
         PT!RecordedIncomplete, PT!Stop
<1>8. \A ids : PT!Candidates(ids) = Candidates(ids)
  BY DEF Candidates, Unscored, PT!Candidates, PT!Unscored
<1>9. \A start : PT!NewLoop(start) <=> NewLoop(start)
  BY <1>8 DEF NewLoop, PT!NewLoop
<1>10. \A ids : PT!LoopType(ids) <=> LoopType(ids)
  BY <1>8 DEF LoopType, Lineages, Budgets, Role, Reason, PT!LoopType,
         PT!Lineages, PT!Budgets, PT!Role, PT!Reason
<1>11. \A S : PT!Cardinality(S) = Cardinality(S)
  BY DEF Cardinality, PT!Cardinality
<1>12. \A f : PT!SumFunction(f) = SumFunction(f)
  BY DEF SumFunction, SumFunctionOnSet, FoldFunctionOnSet, MapThenFoldSet,
         PT!SumFunction, PT!SumFunctionOnSet, PT!FoldFunctionOnSet,
         PT!MapThenFoldSet
<1> QED BY <1>1, <1>2, <1>3, <1>6, <1>7, <1>8, <1>9, <1>10, <1>11, <1>12

\* ... EvoPrompt's ...
LEMMA SameEP ==
  /\ \A n, d : EP!RunUnit(n, d) <=> RunUnit(n, d)
  /\ EP!StageRefused <=> StageRefused
  /\ EP!StageDone <=> StageDone
  /\ EP!StageFailed <=> StageFailed
  /\ EP!Stopped = Stopped /\ EP!Stopped' = Stopped'
  /\ \A m : EP!Raise(m) <=> Raise(m)
  /\ \A id : EP!CutShort(id) <=> CutShort(id)
  /\ \A start : EP!NewLoop(start) <=> NewLoop(start)
  /\ \A ids : EP!LoopType(ids) <=> LoopType(ids)
  /\ \A ids : EP!Candidates(ids) = Candidates(ids)
  /\ \A S : EP!Cardinality(S) = Cardinality(S)
  /\ \A f : EP!SumFunction(f) = SumFunction(f)
  /\ \A S : EP!ByMean(S) = ByMean(S)
  /\ \A a, b, e : EP!Within(a, b, e) <=> Within(a, b, e)
  /\ EP!Blur = Blur
<1>1. \A n, d : EP!RunUnit(n, d) <=> RunUnit(n, d)
  BY DEF RunUnit, RecordUsage, Acquire, CanAcquire, OverLimit, EvalTokens,
         EP!RunUnit, EP!RecordUsage, EP!Acquire, EP!CanAcquire,
         EP!OverLimit, EP!EvalTokens
<1>2. /\ EP!StageRefused <=> StageRefused
      /\ EP!StageDone <=> StageDone
      /\ EP!StageFailed <=> StageFailed
  BY DEF StageRefused, StageDone, StageFailed, ValveTripped, RecordUsage,
         OverLimit, EvalTokens, EP!StageRefused, EP!StageDone,
         EP!StageFailed, EP!ValveTripped, EP!RecordUsage, EP!OverLimit,
         EP!EvalTokens
<1>3. EP!Stopped = Stopped /\ EP!Stopped' = Stopped'
  BY DEF Stopped, ValveTripped, EP!Stopped, EP!ValveTripped
<1>4. \A x, y : EP!Beats(x, y) = Beats(x, y) /\ EP!Same(x, y) = Same(x, y)
  BY DEF Beats, Same, BothRepeated, DominatesWithMargin, MarginOf,
         IsEpsClone, Dominates, Below, EP!Beats, EP!Same, EP!BothRepeated,
         EP!DominatesWithMargin, EP!MarginOf, EP!IsEpsClone, EP!Dominates,
         EP!Below
<1>5. \A S, m : /\ EP!Refused(S, m) = Refused(S, m)
               /\ EP!Evicted(S, m) = Evicted(S, m)
  BY <1>4 DEF Refused, Evicted, EP!Refused, EP!Evicted
<1>6. \A m : EP!Raise(m) <=> Raise(m)
  BY <1>5 DEF Raise, Offered, Joined, AddNoiseAware, Recorded, RecordedAdmitted,
         EP!Raise, EP!Offered, EP!Joined, EP!AddNoiseAware, EP!Recorded,
         EP!RecordedAdmitted
<1>7. \A id : EP!CutShort(id) <=> CutShort(id)
  BY DEF CutShort, RecordedIncomplete, Stop, EP!CutShort,
         EP!RecordedIncomplete, EP!Stop
<1>8. \A ids : EP!Candidates(ids) = Candidates(ids)
  BY DEF Candidates, Unscored, EP!Candidates, EP!Unscored
<1>9. \A start : EP!NewLoop(start) <=> NewLoop(start)
  BY <1>8 DEF NewLoop, EP!NewLoop
<1>10. \A ids : EP!LoopType(ids) <=> LoopType(ids)
  BY <1>8 DEF LoopType, Lineages, Budgets, Role, Reason, EP!LoopType,
         EP!Lineages, EP!Budgets, EP!Role, EP!Reason
<1>11. \A S : EP!Cardinality(S) = Cardinality(S)
  BY DEF Cardinality, EP!Cardinality
<1>12. \A S : EP!ByMean(S) = ByMean(S)
  BY DEF ByMean, First, Before, Sum, SumFunction, SumFunctionOnSet,
         FoldFunctionOnSet, MapThenFoldSet, EP!ByMean, EP!First, EP!Before,
         EP!Sum, EP!SumFunction, EP!SumFunctionOnSet, EP!FoldFunctionOnSet,
         EP!MapThenFoldSet
<1>13. \A f : EP!SumFunction(f) = SumFunction(f)
  BY DEF SumFunction, SumFunctionOnSet, FoldFunctionOnSet, MapThenFoldSet,
         EP!SumFunction, EP!SumFunctionOnSet, EP!FoldFunctionOnSet,
         EP!MapThenFoldSet
<1>14. \A a, b, e : EP!Within(a, b, e) <=> Within(a, b, e)
  BY DEF Within, EP!Within
<1>15. EP!Blur = Blur
  BY DEF Blur, Noise, EP!Blur, EP!Noise
<1> QED BY <1>1, <1>2, <1>3, <1>6, <1>7, <1>8, <1>9, <1>10, <1>11, <1>12, <1>13, <1>14,
          <1>15

\* ... MIPROv2's ...
LEMMA SameMP ==
  /\ \A n, d : MP!RunUnit(n, d) <=> RunUnit(n, d)
  /\ MP!StageRefused <=> StageRefused
  /\ MP!StageDone <=> StageDone
  /\ MP!StageFailed <=> StageFailed
  /\ MP!Stopped = Stopped /\ MP!Stopped' = Stopped'
  /\ \A m : MP!Raise(m) <=> Raise(m)
  /\ \A id : MP!CutShort(id) <=> CutShort(id)
  /\ \A start : MP!NewLoop(start) <=> NewLoop(start)
  /\ \A ids : MP!LoopType(ids) <=> LoopType(ids)
  /\ \A ids : MP!Candidates(ids) = Candidates(ids)
  /\ \A S : MP!Cardinality(S) = Cardinality(S)
  /\ \A f : MP!SumFunction(f) = SumFunction(f)
<1>1. \A n, d : MP!RunUnit(n, d) <=> RunUnit(n, d)
  BY DEF RunUnit, RecordUsage, Acquire, CanAcquire, OverLimit, EvalTokens,
         MP!RunUnit, MP!RecordUsage, MP!Acquire, MP!CanAcquire,
         MP!OverLimit, MP!EvalTokens
<1>2. /\ MP!StageRefused <=> StageRefused
      /\ MP!StageDone <=> StageDone
      /\ MP!StageFailed <=> StageFailed
  BY DEF StageRefused, StageDone, StageFailed, ValveTripped, RecordUsage,
         OverLimit, EvalTokens, MP!StageRefused, MP!StageDone,
         MP!StageFailed, MP!ValveTripped, MP!RecordUsage, MP!OverLimit,
         MP!EvalTokens
<1>3. MP!Stopped = Stopped /\ MP!Stopped' = Stopped'
  BY DEF Stopped, ValveTripped, MP!Stopped, MP!ValveTripped
<1>4. \A x, y : MP!Beats(x, y) = Beats(x, y) /\ MP!Same(x, y) = Same(x, y)
  BY DEF Beats, Same, BothRepeated, DominatesWithMargin, MarginOf,
         IsEpsClone, Dominates, Below, MP!Beats, MP!Same, MP!BothRepeated,
         MP!DominatesWithMargin, MP!MarginOf, MP!IsEpsClone, MP!Dominates,
         MP!Below
<1>5. \A S, m : /\ MP!Refused(S, m) = Refused(S, m)
               /\ MP!Evicted(S, m) = Evicted(S, m)
  BY <1>4 DEF Refused, Evicted, MP!Refused, MP!Evicted
<1>6. \A m : MP!Raise(m) <=> Raise(m)
  BY <1>5 DEF Raise, Offered, Joined, AddNoiseAware, Recorded, RecordedAdmitted,
         MP!Raise, MP!Offered, MP!Joined, MP!AddNoiseAware, MP!Recorded,
         MP!RecordedAdmitted
<1>7. \A id : MP!CutShort(id) <=> CutShort(id)
  BY DEF CutShort, RecordedIncomplete, Stop, MP!CutShort,
         MP!RecordedIncomplete, MP!Stop
<1>8. \A ids : MP!Candidates(ids) = Candidates(ids)
  BY DEF Candidates, Unscored, MP!Candidates, MP!Unscored
<1>9. \A start : MP!NewLoop(start) <=> NewLoop(start)
  BY <1>8 DEF NewLoop, MP!NewLoop
<1>10. \A ids : MP!LoopType(ids) <=> LoopType(ids)
  BY <1>8 DEF LoopType, Lineages, Budgets, Role, Reason, MP!LoopType,
         MP!Lineages, MP!Budgets, MP!Role, MP!Reason
<1>11. \A S : MP!Cardinality(S) = Cardinality(S)
  BY DEF Cardinality, MP!Cardinality
<1>12. \A f : MP!SumFunction(f) = SumFunction(f)
  BY DEF SumFunction, SumFunctionOnSet, FoldFunctionOnSet, MapThenFoldSet,
         MP!SumFunction, MP!SumFunctionOnSet, MP!FoldFunctionOnSet,
         MP!MapThenFoldSet
<1> QED BY <1>1, <1>2, <1>3, <1>6, <1>7, <1>8, <1>9, <1>10, <1>11, <1>12

\* ... and P1's.
LEMMA SameP ==
  /\ \A n, d : P!RunUnit(n, d) <=> RunUnit(n, d)
  /\ P!StageRefused <=> StageRefused
  /\ P!StageDone <=> StageDone
  /\ P!StageFailed <=> StageFailed
  /\ P!Stopped = Stopped /\ P!Stopped' = Stopped'
  /\ \A m : P!Raise(m) <=> Raise(m)
  /\ \A id : P!CutShort(id) <=> CutShort(id)
  /\ \A start : P!NewLoop(start) <=> NewLoop(start)
  /\ \A ids : P!LoopType(ids) <=> LoopType(ids)
  /\ \A ids : P!Candidates(ids) = Candidates(ids)
  /\ \A S : P!Cardinality(S) = Cardinality(S)
  /\ \A f : P!SumFunction(f) = SumFunction(f)
<1>1. \A n, d : P!RunUnit(n, d) <=> RunUnit(n, d)
  BY DEF RunUnit, RecordUsage, Acquire, CanAcquire, OverLimit, EvalTokens,
         P!RunUnit, P!RecordUsage, P!Acquire, P!CanAcquire, P!OverLimit,
         P!EvalTokens
<1>2. /\ P!StageRefused <=> StageRefused
      /\ P!StageDone <=> StageDone
      /\ P!StageFailed <=> StageFailed
  BY DEF StageRefused, StageDone, StageFailed, ValveTripped, RecordUsage,
         OverLimit, EvalTokens, P!StageRefused, P!StageDone, P!StageFailed,
         P!ValveTripped, P!RecordUsage, P!OverLimit, P!EvalTokens
<1>3. P!Stopped = Stopped /\ P!Stopped' = Stopped'
  BY DEF Stopped, ValveTripped, P!Stopped, P!ValveTripped
<1>4. \A x, y : P!Beats(x, y) = Beats(x, y) /\ P!Same(x, y) = Same(x, y)
  BY DEF Beats, Same, BothRepeated, DominatesWithMargin, MarginOf,
         IsEpsClone, Dominates, Below, P!Beats, P!Same, P!BothRepeated,
         P!DominatesWithMargin, P!MarginOf, P!IsEpsClone, P!Dominates,
         P!Below
<1>5. \A S, m : /\ P!Refused(S, m) = Refused(S, m)
               /\ P!Evicted(S, m) = Evicted(S, m)
  BY <1>4 DEF Refused, Evicted, P!Refused, P!Evicted
<1>6. \A m : P!Raise(m) <=> Raise(m)
  BY <1>5 DEF Raise, Offered, Joined, AddNoiseAware, Recorded, RecordedAdmitted,
         P!Raise, P!Offered, P!Joined, P!AddNoiseAware, P!Recorded,
         P!RecordedAdmitted
<1>7. \A id : P!CutShort(id) <=> CutShort(id)
  BY DEF CutShort, RecordedIncomplete, Stop, P!CutShort,
         P!RecordedIncomplete, P!Stop
<1>8. \A ids : P!Candidates(ids) = Candidates(ids)
  BY DEF Candidates, Unscored, P!Candidates, P!Unscored
<1>9. \A start : P!NewLoop(start) <=> NewLoop(start)
  BY <1>8 DEF NewLoop, P!NewLoop
<1>10. \A ids : P!LoopType(ids) <=> LoopType(ids)
  BY <1>8 DEF LoopType, Lineages, Budgets, Role, Reason, P!LoopType, P!Lineages,
         P!Budgets, P!Role, P!Reason
<1>11. \A S : P!Cardinality(S) = Cardinality(S)
  BY DEF Cardinality, P!Cardinality
<1>12. \A f : P!SumFunction(f) = SumFunction(f)
  BY DEF SumFunction, SumFunctionOnSet, FoldFunctionOnSet, MapThenFoldSet,
         P!SumFunction, P!SumFunctionOnSet, P!FoldFunctionOnSet,
         P!MapThenFoldSet
<1> QED BY <1>1, <1>2, <1>3, <1>6, <1>7, <1>8, <1>9, <1>10, <1>11, <1>12

-----------------------------------------------------------------------------
(* ProTeGi. *)

\* A sum of numbers from 0 is at least each of them.
LEMMA TermBound ==
  ASSUME NEW S, IsFiniteSet(S), NEW f, \A x \in S : f[x] \in Nat, NEW w \in S
  PROVE  SumFunctionOnSet(f, S) \in Int /\ f[w] <= SumFunctionOnSet(f, S)
<1> DEFINE zero == [x \in S |-> 0]
           one == [x \in S |-> IF x = w THEN f[w] ELSE 0]
<1>1. SumFunctionOnSet(zero, S) = 0
  <2>1. \A x \in S : zero[x] \in 0 .. 0
    OBVIOUS
  <2> HIDE DEF zero
  <2>2. /\ SumFunctionOnSet(zero, S) \in Nat
        /\ SumFunctionOnSet(zero, S) <= Cardinality(S) * 0
    BY <2>1, SumWithin
  <2>3. Cardinality(S) * 0 = 0
    BY FS_CardinalityType
  <2> QED BY <2>2, <2>3
<1>2. SumFunctionOnSet(one, S) = SumFunctionOnSet(zero, S) + f[w] - 0
  <2>1. /\ \A x \in S : zero[x] \in Int /\ one[x] \in Int
        /\ \A x \in S \ {w} : zero[x] = one[x]
        /\ zero[w] = 0 /\ one[w] = f[w]
    OBVIOUS
  <2> HIDE DEF zero, one
  <2> QED BY <2>1, SumChange
<1>3. /\ SumFunctionOnSet(f, S) \in Int
      /\ SumFunctionOnSet(one, S) <= SumFunctionOnSet(f, S)
  <2>1. \A x \in S : one[x] \in Int /\ f[x] \in Int /\ one[x] <= f[x]
    OBVIOUS
  <2> HIDE DEF one
  <2> QED BY <2>1, SumIsMonotone
<1> HIDE DEF zero, one
<1> QED BY <1>1, <1>2, <1>3

InArmRound == at \in {"gradient", "apply", "child"}

IdsUpTo(n) == Taken \subseteq 0 .. n

PTType ==
  /\ at \in {"gate", "gradient", "apply", "child"} \cup Ends
  /\ Data(0 .. MaxRounds) /\ Flags /\ Rounds
  /\ PT!BanditType

\* A round has an id of its own, which nothing has before its child has.
PTIds == IdsUpTo(IF InArmRound THEN round - 1 ELSE round)

InTurn ==
  /\ \A a, b \in PT!Arms : a < b /\ pulls[b] > 0 => pulls[a] > 0
  /\ (\E a \in PT!Arms : pulls[a] = 0) => \A a \in PT!Arms : pulls[a] <= 1

\* A round has been charged to an arm, or has failed, when it is over.
ArmBooks ==
  /\ InArmRound => PT!Selected(arm)
  /\ at = "gate" => rounds = round
  /\ at \notin Ends =>
       SumFunction(pulls) + unpaid = IF InArmRound THEN round - 1 ELSE round
  /\ InTurn

\* What was spent before the run and on its first two children.
UsedAsReckoned ==
  Reps = 1 /\ \A b \in Inherited : b.evals <= 3 * Cardinality(Cells)

Spent ==
  /\ Cardinality(whole) = 0 => budget.evals <= 3 * Cardinality(Cells)
  /\ Cardinality(whole) = 1 => budget.evals <= 4 * Cardinality(Cells)

Afforded ==
  /\ auto => ~ TightBudget
  /\ at \notin Ends => reason = "none"
  /\ UsedAsReckoned /\ at \notin Ends => Spent
  /\ TwoRoundsAfforded

PTInv == PTType /\ LoopInv /\ PTIds /\ ArmBooks /\ Afforded

\* There is an arm.
LEMMA ArmsFacts ==
  /\ PT!ArmCount \in Nat \ {0} /\ PT!Arms = 1 .. PT!ArmCount
  /\ IsFiniteSet(PT!Arms) /\ PT!Arms \subseteq Nat
<1>1. /\ MaxArms \in Nat \ {0} /\ FoldSize \in Nat \ {0}
  BY OptimizersAssumption DEF PT!ProTeGiParameters
<1>2. PT!Cardinality(Cells) \in Nat
  BY CellCount, SamePT
<1>3. PT!Cardinality(Cells) \div FoldSize \in Nat
  BY <1>1, <1>2
<1>4. PT!ArmCount \in Nat \ {0}
  BY <1>1, <1>3 DEF PT!ArmCount, PT!Smaller, PT!Larger
<1>5. PT!Arms = 1 .. PT!ArmCount
  BY DEF PT!Arms
<1> HIDE DEF PT!ArmCount
<1> QED BY <1>4, <1>5, FS_Interval

\* Charging an arm adds one pull.
LEMMA ChargeFacts ==
  ASSUME pulls \in [PT!Arms -> Nat], NEW a \in PT!Arms,
         pulls' = [pulls EXCEPT ![a] = @ + 1]
  PROVE  /\ pulls' \in [PT!Arms -> Nat]
         /\ SumFunction(pulls) \in Nat
         /\ SumFunction(pulls') = SumFunction(pulls) + 1
         /\ \A b \in PT!Arms : pulls[b] <= SumFunction(pulls)
         /\ \A b \in PT!Arms : pulls'[b] <= SumFunction(pulls) + 1
<1>0. IsFiniteSet(PT!Arms)
  BY ArmsFacts
<1>1. /\ pulls' \in [PT!Arms -> Nat]
      /\ \A b \in PT!Arms \ {a} : pulls[b] = pulls'[b]
      /\ pulls'[a] = pulls[a] + 1
      /\ DOMAIN pulls = PT!Arms /\ DOMAIN pulls' = PT!Arms
      /\ \A b \in PT!Arms : /\ pulls[b] \in Nat /\ pulls'[b] \in Nat
                            /\ pulls[b] \in Int /\ pulls'[b] \in Int
  OBVIOUS
<1>2. SumFunctionOnSet(pulls', PT!Arms)
        = SumFunctionOnSet(pulls, PT!Arms) + pulls'[a] - pulls[a]
  <2>1. ASSUME NEW e, NEW f,
               \A x \in PT!Arms : e[x] \in Int /\ f[x] \in Int,
               \A x \in PT!Arms \ {a} : e[x] = f[x]
        PROVE  SumFunctionOnSet(f, PT!Arms)
                 = SumFunctionOnSet(e, PT!Arms) + f[a] - e[a]
    BY <1>0, <2>1, SumChange
  <2> QED BY <1>1, <2>1
<1>3. \A b \in PT!Arms : /\ SumFunctionOnSet(pulls, PT!Arms) \in Int
                         /\ pulls[b] <= SumFunctionOnSet(pulls, PT!Arms)
  BY <1>0, <1>1, TermBound
<1>4. \A b \in PT!Arms : pulls'[b] <= SumFunctionOnSet(pulls, PT!Arms) + 1
  BY <1>1, <1>3
<1> QED BY <1>1, <1>2, <1>3, <1>4 DEF SumFunction

\* What the steps do, in the words of the loop.
LEMMA PTGateFacts ==
  ASSUME PT!Gate
  PROVE  /\ at = "gate"
         /\ UNCHANGED <<frontierVars, budget, cancelled, folds, unpaid>>
         /\ \/ /\ at' = "finish"
               /\ reason' \in {"rounds_done", "aborted", "budget_stopped"}
               /\ reason' = "budget_stopped" => Stopped'
               /\ valveFired' \in {valveFired, TRUE}
               /\ UNCHANGED <<round, rounds, pulls, arm>>
            \/ /\ round # MaxRounds /\ round' = round + 1
               /\ arm' \in PT!Arms /\ PT!Selected(arm')
               /\ \/ /\ pulls' = [pulls EXCEPT ![arm'] = @ + 1]
                     /\ rounds' = round' /\ at' = "gate"
                  \/ at' = "gradient" /\ UNCHANGED <<rounds, pulls>>
               /\ UNCHANGED <<reason, valveFired>>
<1>1. PT!Stopped = Stopped /\ PT!Stopped' = Stopped'
  BY SamePT
<1>2. budget' = budget => Stopped' = Stopped
  BY DEF Stopped, ValveTripped
<1> QED BY <1>1, <1>2 DEF PT!Gate, PT!RoundsOver, PT!GateStops, PT!Stop,
           PT!Charge, PT!frontierVars, frontierVars

LEMMA PTStageFacts ==
  ASSUME NEW here, NEW next, PT!Stage(here, next)
  PROVE  /\ at = here
         /\ StageRefused \/ StageFailed \/ StageDone
         /\ UNCHANGED <<round, frontierVars, cancelled, folds, pulls, arm>>
         /\ valveFired' \in {valveFired, TRUE}
         /\ \/ /\ StageRefused /\ at' = "finish" /\ reason' = "budget_stopped"
               /\ UNCHANGED <<rounds, unpaid>>
            \/ /\ at' = "gate" /\ rounds' = round /\ unpaid' = unpaid + 1
               /\ UNCHANGED reason
            \/ at' = next /\ UNCHANGED <<rounds, unpaid, reason>>
BY SamePT DEF PT!Stage, PT!Stop, PT!frontierVars, frontierVars

LEMMA PTChildFacts ==
  ASSUME PT!Child
  PROVE  /\ at = "child" /\ rounds' = round
         /\ UNCHANGED <<round, folds, arm, unpaid>>
         /\ valveFired' \in {valveFired, TRUE}
         /\ \E d \in 0 .. Cardinality(Cells) :
              /\ RunUnit(Cardinality(Cells), d)
              /\ \/ /\ \E m \in Candidates({round}) : Raise(m)
                    /\ pulls' = [pulls EXCEPT ![arm] = @ + 1]
                    /\ \/ Stopped' /\ at' = "finish" /\ reason' = "budget_stopped"
                       \/ at' = "gate" /\ UNCHANGED reason
                 \/ /\ d # Cardinality(Cells)
                    /\ CutShort(round)
                    /\ UNCHANGED pulls
<1>1. PICK d \in 0 .. Cardinality(Cells) :
        /\ RunUnit(Cardinality(Cells), d)
        /\ \/ /\ \E m \in Candidates({round}) : Raise(m)
              /\ PT!Charge(arm)
              /\ PT!CloseRound("gate")
           \/ /\ ~ PT!Complete(d)
              /\ CutShort(round)
              /\ UNCHANGED pulls
  BY SamePT DEF PT!Child
<1>2. PT!CloseRound("gate") =>
        /\ valveFired' \in {valveFired, TRUE}
        /\ \/ Stopped' /\ at' = "finish" /\ reason' = "budget_stopped"
           \/ at' = "gate" /\ UNCHANGED reason
  BY SamePT DEF PT!CloseRound, PT!Stop
<1>3. CutShort(round) => UNCHANGED valveFired
  BY DEF CutShort
<1>4. ~ PT!Complete(d) => d # Cardinality(Cells)
  BY SamePT DEF PT!Complete
<1>5. PT!Charge(arm) => pulls' = [pulls EXCEPT ![arm] = @ + 1]
  BY DEF PT!Charge
<1>6. /\ at = "child" /\ rounds' = round
      /\ UNCHANGED <<round, folds, arm, unpaid>>
  BY DEF PT!Child
<1> QED BY <1>1, <1>2, <1>3, <1>4, <1>5, <1>6

LEMMA PTRestFacts ==
  ASSUME (PT!Finish \/ PT!Cancel \/ PT!Fails({"child"})) /\ UNCHANGED PT!banditVars
  PROVE  /\ UNCHANGED <<round, frontierVars, budget, valveFired, reason, rounds,
                        folds, pulls, arm, unpaid>>
         /\ at' \in {at, "done", "error"}
         /\ cancelled' \in {cancelled, TRUE}
         /\ at \in {"finish", "done", "error"} => at' \in {at, "done", "error"}
BY DEF PT!Finish, PT!Cancel, PT!Fails, PT!banditVars, PT!frontierVars,
       frontierVars

\* Charging the arm that was selected keeps the arms' turns.
LEMMA ChargeInTurn ==
  ASSUME pulls \in [PT!Arms -> Nat], NEW a \in PT!Arms, PT!Selected(a), InTurn,
         pulls' = [pulls EXCEPT ![a] = @ + 1]
  PROVE  InTurn'
<1>1. /\ \A b \in PT!Arms : pulls[b] \in Nat
      /\ \A b \in PT!Arms : pulls'[b] = IF b = a THEN pulls[b] + 1 ELSE pulls[b]
  OBVIOUS
<1>2. \/ pulls[a] = 0 /\ \A b \in PT!Arms : b < a => pulls[b] # 0
      \/ \A b \in PT!Arms : pulls[b] # 0
  <2>1. \A b \in PT!Arms : b < a => b \in 1 .. a - 1
    BY ArmsFacts
  <2> QED BY <2>1 DEF PT!Selected
<1>3. \A b \in PT!Arms : b \in Nat
  BY ArmsFacts
<1> QED BY <1>1, <1>2, <1>3 DEF InTurn

\* The numbers the steps reckon with.
LEMMA PTNumbers ==
  ASSUME PTInv
  PROVE  /\ round \in Nat /\ MaxRounds \in Nat /\ round <= MaxRounds
         /\ rounds \in Nat /\ rounds <= round
         /\ unpaid \in Nat /\ arm \in PT!Arms
         /\ pulls \in [PT!Arms -> Nat] /\ pulls \in [PT!Arms -> 0 .. MaxRounds]
         /\ SumFunction(pulls) \in Nat
         /\ InArmRound => round >= 1 /\ round \notin Taken
         /\ 0 .. MaxRounds \in SUBSET Nat
<1>1. /\ round \in Nat /\ MaxRounds \in Nat /\ round <= MaxRounds
      /\ rounds \in Nat /\ rounds <= round
  BY LoopAssumption DEF PTInv, PTType, Rounds
<1>2. /\ unpaid \in Nat /\ arm \in PT!Arms
      /\ pulls \in [PT!Arms -> Nat] /\ pulls \in [PT!Arms -> 0 .. MaxRounds]
  BY <1>1 DEF PTInv, PTType, PT!BanditType
<1>3. SumFunction(pulls) \in Nat
  <2>1. \A x \in PT!Arms : pulls[x] \in 0 .. MaxRounds
    BY <1>2
  <2>2. SumFunctionOnSet(pulls, PT!Arms) \in Nat
    BY <1>1, <2>1, ArmsFacts, SumWithin
  <2> QED BY <1>2, <2>2 DEF SumFunction
<1>4. ASSUME InArmRound PROVE round >= 1 /\ round \notin Taken
  <2>1. Taken \subseteq 0 .. round - 1 /\ 0 \in Taken
    BY <1>4 DEF PTInv, PTIds, IdsUpTo, LoopInv, Explained
  <2> QED BY <1>1, <2>1
<1> QED BY <1>1, <1>2, <1>3, <1>4

LEMMA PTGateStep ==
  ASSUME PTInv, PT!Gate
  PROVE  PTType' /\ LoopInv' /\ PTIds' /\ ArmBooks'
<1>1. LoopInv' /\ Taken' = Taken /\ Data(0 .. MaxRounds)'
  BY PTGateFacts, FrameKeeps DEF PTInv, PTType
<1>2. Flags'
  <2>1. /\ reason' \in Reason /\ valveFired' \in BOOLEAN
        /\ UNCHANGED <<budget, cancelled>>
    BY PTGateFacts DEF PTInv, PTType, Flags, Reason
  <2> QED BY <2>1 DEF PTInv, PTType, Flags
<1>3. /\ at = "gate" /\ ~ InArmRound /\ at \notin Ends
      /\ Taken \subseteq 0 .. round
      /\ rounds = round /\ SumFunction(pulls) + unpaid = round /\ InTurn
      /\ folds \in PT!Foldings
  BY PTGateFacts DEF PTInv, InArmRound, PTIds, IdsUpTo, ArmBooks, Ends,
                     PTType, PT!BanditType
<1>4. CASE at' = "finish"
  <2>1. UNCHANGED <<round, rounds, pulls, arm, folds, unpaid>>
    BY <1>4, PTGateFacts
  <2>2. PTType'
    BY <1>1, <1>2, <1>4, <2>1
       DEF PTInv, PTType, Rounds, PT!BanditType, Ends
  <2>3. PTIds' /\ ArmBooks'
    BY <1>1, <1>3, <1>4, <2>1
       DEF PTIds, IdsUpTo, ArmBooks, InTurn, InArmRound, Ends
  <2> QED BY <1>1, <2>2, <2>3
<1>5. ASSUME at' # "finish"
      PROVE  PTType' /\ PTIds' /\ ArmBooks'
  <2>1. /\ round # MaxRounds /\ round' = round + 1
        /\ arm' \in PT!Arms /\ PT!Selected(arm')
        /\ UNCHANGED <<folds, unpaid>>
        /\ \/ /\ pulls' = [pulls EXCEPT ![arm'] = @ + 1]
              /\ rounds' = round' /\ at' = "gate"
           \/ at' = "gradient" /\ UNCHANGED <<rounds, pulls>>
    BY <1>5, PTGateFacts
  <2>2. round' \in Nat /\ round' <= MaxRounds /\ Taken' \subseteq 0 .. round
    BY <1>1, <1>3, <2>1, PTNumbers
  <2>3. CASE at' = "gate"
    <3>1. pulls' = [pulls EXCEPT ![arm'] = @ + 1] /\ rounds' = round'
      BY <2>1, <2>3
    <3>2. /\ pulls' \in [PT!Arms -> Nat]
          /\ SumFunction(pulls') = SumFunction(pulls) + 1
          /\ \A b \in PT!Arms : pulls'[b] <= SumFunction(pulls) + 1
      BY <2>1, <3>1, PTNumbers, ChargeFacts
    <3>3. \A b \in PT!Arms : pulls'[b] \in 0 .. MaxRounds
      BY <1>3, <2>1, <2>2, <3>2, PTNumbers
    <3>4. pulls' \in [PT!Arms -> 0 .. MaxRounds]
      BY <3>2, <3>3
    <3>5. InTurn'
      BY <1>3, <2>1, <3>1, PTNumbers, ChargeInTurn
    <3>6. SumFunction(pulls') + unpaid' = round'
      BY <1>3, <2>1, <3>2, PTNumbers
    <3>7. PTType'
      BY <1>1, <1>2, <1>3, <2>1, <2>2, <2>3, <3>1, <3>4
         DEF PTInv, PTType, Rounds, PT!BanditType
    <3>8. Taken' \subseteq 0 .. round'
      BY <2>1, <2>2, PTNumbers
    <3> QED BY <2>3, <3>1, <3>5, <3>6, <3>7, <3>8
            DEF PTIds, IdsUpTo, ArmBooks, InArmRound
  <2>4. CASE at' = "gradient"
    <3>1. UNCHANGED <<rounds, pulls>>
      BY <2>1, <2>4
    <3>2. PTType'
      <4>1. rounds' \in 0 .. round' /\ round' \in 0 .. MaxRounds
        BY <2>1, <2>2, <3>1, PTNumbers
      <4> QED BY <1>1, <1>2, <2>1, <2>4, <3>1, <4>1
              DEF PTInv, PTType, Rounds, PT!BanditType
    <3>3. PT!Selected(arm)'
      BY <2>1, <3>1 DEF PT!Selected
    <3>4. round = round' - 1
      BY <2>1, PTNumbers
    <3> QED BY <1>3, <2>1, <2>2, <2>4, <3>1, <3>2, <3>3, <3>4
            DEF PTIds, IdsUpTo, ArmBooks, InTurn, InArmRound
  <2> QED BY <2>1, <2>3, <2>4
<1> QED BY <1>1, <1>4, <1>5

LEMMA PTStageStep ==
  ASSUME PTInv, NEW here, NEW next, here \in {"gradient", "apply"},
         next \in {"apply", "child"}, PT!Stage(here, next)
  PROVE  PTType' /\ LoopInv' /\ PTIds' /\ ArmBooks'
<1>1. LoopInv' /\ Taken' = Taken /\ Data(0 .. MaxRounds)'
  BY PTStageFacts, FrameKeeps DEF PTInv, PTType
<1>2. Flags'
  <2>1. budget' \in Budgets
    BY PTStageFacts, StageFacts DEF PTInv, PTType, Flags
  <2>2. reason' \in Reason /\ valveFired' \in BOOLEAN /\ UNCHANGED cancelled
    BY PTStageFacts DEF PTInv, PTType, Flags, Reason
  <2> QED BY <2>1, <2>2 DEF PTInv, PTType, Flags
<1>3. /\ InArmRound /\ Taken \subseteq 0 .. round - 1 /\ at \notin Ends
      /\ SumFunction(pulls) + unpaid = round - 1
      /\ PT!Selected(arm) /\ InTurn
      /\ UNCHANGED <<round, folds, pulls, arm>>
  BY PTStageFacts DEF PTInv, InArmRound, PTIds, IdsUpTo, ArmBooks, Ends
<1>4. Taken' \subseteq 0 .. round' - 1 /\ Taken' \subseteq 0 .. round'
  BY <1>1, <1>3, PTNumbers
<1>5. CASE at' = "finish" \/ at' = next
  <2>1. at' \in {"finish", "apply", "child"} /\ UNCHANGED <<rounds, unpaid>>
    BY <1>5, PTStageFacts
  <2>2. PTType'
    BY <1>1, <1>2, <1>3, <2>1
       DEF PTInv, PTType, Rounds, PT!BanditType, Ends
  <2>3. PTIds' /\ ArmBooks'
    BY <1>3, <1>4, <2>1
       DEF PTIds, IdsUpTo, ArmBooks, InTurn, InArmRound, Ends, PT!Selected
  <2> QED BY <1>1, <2>2, <2>3
<1>6. CASE at' = "gate"
  <2>1. rounds' = round /\ unpaid' = unpaid + 1
    BY <1>6, PTStageFacts
  <2>2. /\ unpaid' \in 0 .. MaxRounds
        /\ SumFunction(pulls') + unpaid' = round'
        /\ rounds' \in 0 .. round'
    BY <1>3, <2>1, PTNumbers
  <2>3. PTType'
    BY <1>1, <1>2, <1>3, <1>6, <2>2
       DEF PTInv, PTType, Rounds, PT!BanditType
  <2>4. PTIds' /\ ArmBooks'
    BY <1>3, <1>4, <1>6, <2>1, <2>2
       DEF PTIds, IdsUpTo, ArmBooks, InTurn, InArmRound
  <2> QED BY <1>1, <2>3, <2>4
<1> QED BY <1>5, <1>6, PTStageFacts

\* What the evaluation of a child does to the data, whatever its outcome.
LEMMA OneChild ==
  ASSUME NEW ids \in SUBSET Nat, Data(ids), LoopInv, NEW id \in ids,
         id \notin Taken,
         (\E m \in Candidates({id}) : Raise(m)) \/ CutShort(id)
  PROVE  Data(ids)' /\ LoopInv' /\ Taken' = Taken \cup {id}
BY RaiseKeeps, CutKeeps

LEMMA PTChildStep ==
  ASSUME PTInv, PT!Child
  PROVE  PTType' /\ LoopInv' /\ PTIds' /\ ArmBooks'
<1>1. PICK d \in 0 .. Cardinality(Cells) :
        /\ RunUnit(Cardinality(Cells), d)
        /\ \/ /\ \E m \in Candidates({round}) : Raise(m)
              /\ pulls' = [pulls EXCEPT ![arm] = @ + 1]
              /\ \/ Stopped' /\ at' = "finish" /\ reason' = "budget_stopped"
                 \/ at' = "gate" /\ UNCHANGED reason
           \/ /\ d # Cardinality(Cells)
              /\ CutShort(round)
              /\ UNCHANGED pulls
  BY PTChildFacts
<1>2. /\ at = "child" /\ InArmRound /\ at \notin Ends /\ rounds' = round
      /\ UNCHANGED <<round, folds, arm, unpaid>>
      /\ valveFired' \in {valveFired, TRUE}
      /\ Taken \subseteq 0 .. round - 1
      /\ SumFunction(pulls) + unpaid = round - 1
      /\ PT!Selected(arm) /\ InTurn
  BY PTChildFacts DEF PTInv, InArmRound, PTIds, IdsUpTo, ArmBooks, Ends
<1>3. Data(0 .. MaxRounds)' /\ LoopInv' /\ Taken' = Taken \cup {round}
  <2>1. /\ 0 .. MaxRounds \in SUBSET Nat /\ round \in 0 .. MaxRounds
        /\ round \notin Taken /\ Data(0 .. MaxRounds) /\ LoopInv
    BY <1>2, PTNumbers DEF PTInv, PTType
  <2> QED BY <1>1, <2>1, OneChild
<1>4. Taken' \subseteq 0 .. round'
  <2>1. 0 .. round - 1 \subseteq 0 .. round /\ round \in 0 .. round
    BY PTNumbers
  <2> QED BY <1>2, <1>3, <2>1
<1>5. /\ at' \in {"gate", "finish"}
      /\ reason' \in {reason, "budget_stopped"}
  BY <1>1 DEF CutShort, Stop
<1>6. Flags'
  <2>1. budget' \in Budgets /\ cancelled' \in BOOLEAN
    BY <1>1, CellCount, UnitFacts DEF PTInv, PTType, Flags
  <2>2. reason' \in Reason /\ valveFired' \in BOOLEAN
    BY <1>2, <1>5 DEF PTInv, PTType, Flags, Reason
  <2> QED BY <2>1, <2>2 DEF Flags
<1>7. Rounds'
  BY <1>2, PTNumbers DEF PTInv, PTType, Rounds
<1>8. CASE pulls' = [pulls EXCEPT ![arm] = @ + 1]
  <2>1. /\ pulls' \in [PT!Arms -> Nat]
        /\ SumFunction(pulls') = SumFunction(pulls) + 1
        /\ \A b \in PT!Arms : pulls'[b] <= SumFunction(pulls) + 1
    BY <1>8, PTNumbers, ChargeFacts
  <2>2. \A b \in PT!Arms : pulls'[b] \in 0 .. MaxRounds
    BY <1>2, <2>1, PTNumbers
  <2>3. pulls' \in [PT!Arms -> 0 .. MaxRounds]
    BY <2>1, <2>2
  <2>4. InTurn'
    BY <1>2, <1>8, PTNumbers, ChargeInTurn
  <2>5. SumFunction(pulls') + unpaid' = round'
    BY <1>2, <2>1, PTNumbers
  <2>6. PTType'
    BY <1>2, <1>3, <1>5, <1>6, <1>7, <2>3
       DEF PTInv, PTType, PT!BanditType, Ends
  <2> QED BY <1>2, <1>3, <1>4, <1>5, <2>4, <2>5, <2>6
          DEF PTIds, IdsUpTo, ArmBooks, InArmRound
<1>9. CASE CutShort(round) /\ UNCHANGED pulls
  <2>1. at' = "finish"
    BY <1>9 DEF CutShort, Stop
  <2>2. PTType'
    BY <1>2, <1>3, <1>6, <1>7, <1>9, <2>1
       DEF PTInv, PTType, PT!BanditType, Ends
  <2> QED BY <1>2, <1>3, <1>4, <1>9, <2>1, <2>2
          DEF PTIds, IdsUpTo, ArmBooks, InArmRound, InTurn, Ends
<1> QED BY <1>1, <1>8, <1>9

LEMMA PTRestStep ==
  ASSUME PTInv,
         (PT!Finish \/ PT!Cancel \/ PT!Fails({"child"})) /\ UNCHANGED PT!banditVars
  PROVE  PTType' /\ LoopInv' /\ PTIds' /\ ArmBooks'
<1>1. /\ UNCHANGED <<round, frontierVars, budget, valveFired, reason, rounds,
                     folds, pulls, arm, unpaid>>
      /\ at' \in {at, "done", "error"}
      /\ cancelled' \in {cancelled, TRUE}
  BY PTRestFacts
<1>2. LoopInv' /\ Taken' = Taken /\ Data(0 .. MaxRounds)'
  BY <1>1, FrameKeeps DEF PTInv, PTType
<1>3. Flags' /\ Rounds'
  BY <1>1 DEF PTInv, PTType, Flags, Rounds
<1>4. PTType'
  BY <1>1, <1>2, <1>3 DEF PTInv, PTType, PT!BanditType, Ends
<1>5. PTIds'
  <2>1. Taken \subseteq 0 .. round
    BY PTNumbers DEF PTInv, PTIds, IdsUpTo
  <2> QED BY <1>1, <1>2, <2>1 DEF PTInv, PTIds, IdsUpTo, InArmRound
<1>6. ArmBooks'
  BY <1>1 DEF PTInv, ArmBooks, InTurn, InArmRound, Ends, PT!Selected
<1> QED BY <1>2, <1>4, <1>5, <1>6

\* What was spent is bounded by the children raised, as long as they are two
\* at most; and a run the evaluation budget stops has raised both.
LEMMA AffordedChild ==
  ASSUME PTInv, PT!Child, UNCHANGED choiceVars
  PROVE  Afforded'
<1>1. PICK d \in 0 .. Cardinality(Cells) :
        /\ RunUnit(Cardinality(Cells), d)
        /\ \/ /\ \E m \in Candidates({round}) : Raise(m)
              /\ \/ Stopped' /\ at' = "finish" /\ reason' = "budget_stopped"
                 \/ at' = "gate" /\ UNCHANGED reason
           \/ d # Cardinality(Cells) /\ CutShort(round)
  BY PTChildFacts
<1>2. /\ at = "child" /\ InArmRound /\ at \notin Ends
      /\ auto' = auto /\ paradigm' = paradigm
  BY PTChildFacts DEF InArmRound, Ends, choiceVars
<1>3. /\ auto => ~ TightBudget
      /\ reason = "none"
      /\ UsedAsReckoned => Spent
  BY <1>2 DEF PTInv, Afforded
<1>4. /\ budget.evals \in Nat /\ budget' \in Budgets
      /\ budget'.evals = budget.evals + Reps * d
      /\ d < Cardinality(Cells) => cancelled' \/ ~ CanAcquire(budget', Reps)
      /\ d \in Nat /\ d <= Cardinality(Cells) /\ Cardinality(Cells) \in Nat
  BY <1>1, CellCount, UnitFacts DEF PTInv, PTType, Flags, Budgets
<1>5. IsFiniteSet(whole) /\ Cardinality(whole) \in Nat
  <2>1. whole \in SUBSET (0 .. MaxRounds)
    BY DEF PTInv, PTType, Data
  <2>2. 0 \in Int /\ MaxRounds \in Int
    BY LoopAssumption
  <2>3. IsFiniteSet(0 .. MaxRounds)
    BY <2>2, FS_Interval
  <2> QED BY <2>1, <2>3, FS_Subset, FS_CardinalityType
<1>6. Reps = 1 => budget'.evals = budget.evals + d
  BY <1>4
<1>7. CASE \E m \in Candidates({round}) : Raise(m)
  <2>1. whole' = whole \cup {round} /\ round \notin whole
    <3>1. \A m \in Candidates({round}) : m.id = round
      BY DEF Candidates
    <3> QED BY <1>2, <1>7, <3>1, PTNumbers DEF Raise, Taken
  <2>2. Cardinality(whole') = Cardinality(whole) + 1
    BY <1>5, <2>1, FS_AddElement
  <2>3. UsedAsReckoned => Spent'
    <3> SUFFICES ASSUME UsedAsReckoned PROVE Spent'
      OBVIOUS
    <3>1. budget'.evals <= budget.evals + Cardinality(Cells)
      BY <1>4, <1>6 DEF UsedAsReckoned
    <3>2. /\ Cardinality(whole) = 0 => budget.evals <= 3 * Cardinality(Cells)
      BY <1>3 DEF Spent
    <3>3. budget'.evals \in Nat
      BY <1>4 DEF Budgets
    <3> QED BY <1>4, <1>5, <2>2, <3>1, <3>2, <3>3 DEF Spent
  <2>4. \/ Stopped' /\ at' = "finish"
        \/ at' = "gate" /\ reason' = "none"
        \/ at' = "finish" /\ Cardinality(whole') >= 2
    <3>1. CASE CutShort(round)
      BY <1>7, <2>1, <3>1 DEF CutShort
    <3> QED BY <1>1, <1>3, <3>1
  <2>5. TwoRoundsAfforded'
    BY <2>4 DEF TwoRoundsAfforded
  <2>6. at' \notin Ends => reason' = "none"
    BY <2>4 DEF Ends
  <2> QED BY <1>2, <1>3, <2>3, <2>5, <2>6 DEF Afforded, UsedAsReckoned
<1>8. CASE d # Cardinality(Cells) /\ CutShort(round)
  <2>1. at' = "finish" /\ whole' = whole
    BY <1>8 DEF CutShort, Stop
  <2>2. TwoRoundsAfforded'
    <3> SUFFICES ASSUME auto, UsedAsReckoned, ~ cancelled', ~ Stopped',
                        Cardinality(whole) <= 1
                 PROVE  FALSE
      BY <1>2, <1>5, <2>1 DEF TwoRoundsAfforded, UsedAsReckoned
    <3>1. Reps = 1 /\ ~ CanAcquire(budget', 1)
      BY <1>4, <1>8 DEF UsedAsReckoned
    <3>2. EvalLimit > 0 /\ ~ (budget'.evals + 1 <= EvalLimit)
      BY <3>1 DEF CanAcquire, Stopped
    <3>3. ~ (EvalLimit < 5 * Cardinality(Cells))
      BY <1>3, <3>2 DEF TightBudget
    <3>4. budget.evals <= 4 * Cardinality(Cells)
      <4>1. Cardinality(whole) = 0 \/ Cardinality(whole) = 1
        BY <1>5
      <4> QED BY <1>3, <1>4, <4>1 DEF Spent
    <3>5. budget'.evals = budget.evals + d /\ d + 1 <= Cardinality(Cells)
      BY <1>4, <1>6, <1>8, <3>1
    <3> QED BY <1>4, <3>2, <3>3, <3>4, <3>5, LimitAssumption
  <2> QED BY <1>2, <1>3, <2>1, <2>2 DEF Afforded, Ends
<1> QED BY <1>1, <1>7, <1>8

LEMMA AffordedFrame ==
  ASSUME Afforded, UNCHANGED <<auto, paradigm, whole>>,
         budget'.evals = budget.evals,
         \/ at' \notin Ends /\ at \notin Ends /\ UNCHANGED reason
         \/ at \notin Ends /\ UNCHANGED reason
         \/ Stopped' /\ at' \in Ends
         \/ reason' # "budget_stopped" /\ at' \in Ends
         \/ UNCHANGED <<reason, budget>> /\ at' \in Ends
            /\ cancelled' \in {cancelled, TRUE}
  PROVE  Afforded'
<1>1. Spent => Spent'
  BY DEF Spent
<1>2. TwoRoundsAfforded'
  <2>1. CASE Stopped' \/ reason' # "budget_stopped"
    BY <2>1 DEF TwoRoundsAfforded
  <2>2. CASE at \notin Ends /\ UNCHANGED reason
    BY <2>2 DEF Afforded, TwoRoundsAfforded
  <2>3. CASE UNCHANGED <<reason, budget>> /\ cancelled' \in {cancelled, TRUE}
    <3>1. Stopped' = Stopped
      BY <2>3 DEF Stopped, ValveTripped
    <3> QED BY <2>3, <3>1 DEF Afforded, TwoRoundsAfforded
  <2> QED BY <2>1, <2>2, <2>3
<1> QED BY <1>1, <1>2 DEF Afforded, UsedAsReckoned

LEMMA AffordedStep ==
  ASSUME PTInv, PT!Next, UNCHANGED choiceVars
  PROVE  Afforded'
<1>0. Afforded /\ UNCHANGED <<auto, paradigm>>
  BY DEF PTInv, choiceVars
<1>1. CASE PT!Gate
  <2>1. /\ at \notin Ends /\ UNCHANGED <<whole, budget>>
        /\ \/ at' \notin Ends /\ UNCHANGED reason
           \/ at' \in Ends /\ Stopped'
           \/ at' \in Ends /\ reason' # "budget_stopped"
    BY <1>1, PTGateFacts DEF Ends, frontierVars
  <2> QED BY <1>0, <2>1, AffordedFrame
<1>2. ASSUME NEW here \in {"gradient", "apply"}, NEW next \in {"apply", "child"},
             PT!Stage(here, next)
      PROVE  Afforded'
  <2>1. at \notin Ends /\ UNCHANGED whole /\ budget'.evals = budget.evals
    BY <1>2, PTStageFacts, StageFacts
       DEF Ends, frontierVars, PTInv, PTType, Flags
  <2>2. StageRefused => Stopped'
    BY DEF StageRefused, Stopped
  <2>3. \/ at' \notin Ends /\ UNCHANGED reason
        \/ at' \in Ends /\ Stopped'
    BY <1>2, <2>2, PTStageFacts DEF Ends
  <2> QED BY <1>0, <2>1, <2>3, AffordedFrame
<1>3. CASE (PT!Finish \/ PT!Cancel \/ PT!Fails({"child"}))
             /\ UNCHANGED PT!banditVars
  <2>1. /\ UNCHANGED <<whole, budget, reason>>
        /\ at' \in {at, "done", "error"} /\ cancelled' \in {cancelled, TRUE}
    BY <1>3, PTRestFacts DEF frontierVars
  <2>2. at' \in Ends \/ (at' \notin Ends /\ at \notin Ends)
    BY <2>1 DEF Ends
  <2> QED BY <1>0, <2>1, <2>2, AffordedFrame
<1> QED BY <1>1, <1>2, <1>3, AffordedChild DEF PT!Next

LEMMA PTInit ==
  ASSUME PT!Init, auto => ~ TightBudget
  PROVE  PTInv
<1>1. NewLoop("gate") /\ folds \in PT!Foldings
      /\ pulls = [a \in PT!Arms |-> 0] /\ arm = 1 /\ unpaid = 0
  BY SamePT DEF PT!Init
<1>2. 0 \in 0 .. MaxRounds /\ 0 .. MaxRounds \subseteq Nat /\ MaxRounds \in Nat
  BY LoopAssumption
<1>3. /\ at = "gate" /\ round = 0 /\ rounds = 0 /\ reason = "none"
      /\ whole = {} /\ Taken = {0} /\ budget \in Inherited
      /\ Data(0 .. MaxRounds) /\ Flags /\ Rounds /\ LoopInv
  BY <1>1, <1>2, NewLoopFacts
<1>4. PTType
  <2>1. pulls \in [PT!Arms -> 0 .. MaxRounds]
    BY <1>1, <1>2
  <2>2. 1 \in PT!Arms
    BY ArmsFacts
  <2> QED BY <1>1, <1>2, <1>3, <2>1, <2>2 DEF PTType, PT!BanditType
<1>5. SumFunction(pulls) = 0
  <2>1. \A a \in PT!Arms : pulls[a] \in 0 .. 0
    BY <1>1
  <2>2. /\ SumFunctionOnSet(pulls, PT!Arms) \in Nat
        /\ SumFunctionOnSet(pulls, PT!Arms) <= Cardinality(PT!Arms) * 0
    BY <2>1, ArmsFacts, SumWithin
  <2>3. Cardinality(PT!Arms) * 0 = 0
    BY ArmsFacts, FS_CardinalityType
  <2>4. DOMAIN pulls = PT!Arms
    BY <1>1
  <2> QED BY <2>2, <2>3, <2>4 DEF SumFunction
<1>6. PTIds
  BY <1>3 DEF PTIds, IdsUpTo, InArmRound
<1>7. ArmBooks
  <2>1. InTurn
    BY <1>1 DEF InTurn
  <2> QED BY <1>1, <1>3, <1>5, <2>1 DEF ArmBooks, InArmRound, Ends
<1>8. Afforded
  <2>1. UsedAsReckoned => Spent
    <3>1. Cardinality(whole) = 0
      BY <1>3, FS_EmptySet
    <3> QED BY <1>3, <3>1 DEF UsedAsReckoned, Spent
  <2> QED BY <1>3, <2>1 DEF Afforded, TwoRoundsAfforded
<1> QED BY <1>3, <1>4, <1>6, <1>7, <1>8 DEF PTInv

LEMMA PTStep ==
  ASSUME PTInv, PT!Next, UNCHANGED choiceVars
  PROVE  PTInv'
<1>1. PTType' /\ LoopInv' /\ PTIds' /\ ArmBooks'
  BY PTGateStep, PTStageStep, PTChildStep, PTRestStep DEF PT!Next
<1> QED BY <1>1, AffordedStep DEF PTInv

\* What the invariant says of the run's properties.
LEMMA PTConsequences ==
  ASSUME PTInv
  PROVE  PT!TypeOK /\ PT!ArmsInTurn
<1>1. PT!LoopType(0 .. MaxRounds)
  BY SamePT, LoopTypeParts DEF PTInv, PTType
<1>2. PT!TypeOK
  BY <1>1 DEF PTInv, PTType, Ends, PT!TypeOK
<1>3. at = "gate" => SumFunction(pulls) + unpaid = rounds
  BY DEF PTInv, ArmBooks, InArmRound, Ends
<1>4. PT!ArmsInTurn
  BY <1>3, SamePT DEF PTInv, ArmBooks, InTurn, PT!ArmsInTurn
<1> QED BY <1>2, <1>4

-----------------------------------------------------------------------------
(* MIPROv2. *)

InPairRound == at \in {"combo", "child"}

MPType ==
  /\ at \in {"propose", "gate", "combo", "child"} \cup Ends
  /\ Data(0 .. MaxRounds) /\ Flags /\ Rounds
  /\ MP!MIPROv2Type

MPIds == IdsUpTo(IF InPairRound THEN round - 1 ELSE round)

\* Every pair of the round is still to come, scored or cut short, and one that
\* was scored had a minibatch.
Pairs ==
  /\ combos + scored + truncated <= CombosPerRound
  /\ pool \in MP!Pools
  /\ demos \cap batch = {}
  /\ InPairRound /\ scored > 0 => batch # {}
  /\ at = "child" => scored > 0

MPInv == MPType /\ LoopInv /\ MPIds /\ Pairs

MPKept == MPType' /\ LoopInv' /\ MPIds' /\ Pairs'

LEMMA MPParameters ==
  /\ DemoPoolCap \in Nat \ {0} /\ DemosPerCombo \in Nat \ {0}
  /\ NumInstructions \in Nat \ {0} /\ CombosPerRound \in Nat \ {0}
  /\ Batch \in Nat \ {0} /\ Train \subseteq Cells
BY OptimizersAssumption DEF MP!MIPROv2Parameters

\* The draw leaves a sample of the pool out, so there is always something left
\* to grade a pair on.
LEMMA PairFacts ==
  ASSUME pool \in MP!Pools, NEW d \in MP!Draws, NEW b \in MP!Minibatches(d)
  PROVE  /\ d \subseteq Cells /\ b \subseteq Cells
         /\ d \cap b = {} /\ b # {}
         /\ Cardinality(b) \in Nat
<1>1. /\ pool \subseteq Cells
      /\ Cardinality(pool) = MP!Least(DemoPoolCap, Cardinality(Cells))
  BY SameMP DEF MP!Pools
<1>2. Cardinality(pool) \in Nat /\ Cardinality(pool) >= 1
  BY <1>1, CellCount, MPParameters DEF MP!Least
<1>3. IsFiniteSet(pool)
  BY <1>1, CellAssumption, FS_Subset
<1>4. /\ d \subseteq pool
      /\ Cardinality(d) = IF Cardinality(pool) <= 1 THEN 0
                          ELSE MP!Least(DemosPerCombo, Cardinality(pool) - 1)
  BY SameMP DEF MP!Draws
<1>5. d # pool
  BY <1>2, <1>4, MPParameters DEF MP!Least
<1> DEFINE rest == Cells \ d
<1>6. rest # {} /\ IsFiniteSet(rest)
  BY <1>1, <1>4, <1>5, CellAssumption, FS_Subset
<1>7. Cardinality(rest) \in Nat /\ Cardinality(rest) # 0
  BY <1>6, FS_CardinalityType, FS_EmptySet
<1>8. /\ b \subseteq rest
      /\ Cardinality(b) = MP!Least(Batch, Cardinality(rest))
  BY <1>6, SameMP DEF MP!Minibatches
<1>9. Cardinality(b) \in Nat /\ Cardinality(b) # 0
  BY <1>7, <1>8, MPParameters DEF MP!Least
<1>10. b # {}
  BY <1>9, FS_EmptySet
<1> QED BY <1>1, <1>4, <1>8, <1>9, <1>10

LEMMA MPProposeFacts ==
  ASSUME MP!Propose
  PROVE  /\ at = "propose"
         /\ UNCHANGED <<round, rounds, frontierVars, cancelled, pool, combos,
                        scored, truncated, demos, batch>>
         /\ valveFired' \in {valveFired, TRUE}
         /\ \/ /\ at' = "finish" /\ reason' \in {"aborted", "budget_stopped"}
               /\ UNCHANGED instructions
            \/ /\ at' = "gate" /\ UNCHANGED reason
               /\ instructions' \in 1 .. NumInstructions
         /\ UNCHANGED budget \/ StageRefused \/ StageFailed \/ StageDone
<1>1. 1 \in 1 .. NumInstructions
  BY MPParameters
<1>2. /\ UNCHANGED <<round, rounds, frontierVars, cancelled, pool, combos,
                        scored, truncated, demos, batch>>
      /\ at = "propose"
  BY DEF MP!Propose, MP!frontierVars, frontierVars
<1> QED BY <1>1, <1>2, SameMP DEF MP!Propose, MP!Stop

LEMMA MPGateFacts ==
  ASSUME MP!Gate
  PROVE  /\ at = "gate"
         /\ UNCHANGED <<rounds, frontierVars, budget, cancelled, instructions,
                        pool, demos, batch>>
         /\ valveFired' \in {valveFired, TRUE}
         /\ \/ /\ at' = "finish"
               /\ reason' \in {"rounds_done", "aborted", "budget_stopped"}
               /\ UNCHANGED <<round, combos, scored, truncated>>
            \/ /\ at' = "combo" /\ UNCHANGED reason
               /\ round # MaxRounds /\ round' = round + 1
               /\ combos' = MP!Least(CombosPerRound, instructions)
               /\ scored' = 0 /\ truncated' = 0
BY DEF MP!Gate, MP!RoundsOver, MP!GateStops, MP!Stop, MP!frontierVars,
       frontierVars

LEMMA MPComboFacts ==
  ASSUME MP!Combo
  PROVE  /\ at = "combo" /\ combos > 0 /\ combos' = combos - 1
         /\ demos' \in MP!Draws /\ batch' \in MP!Minibatches(demos')
         /\ \E d : RunUnit(Cardinality(batch'), d)
         /\ \/ truncated' = truncated + 1 /\ UNCHANGED scored
            \/ scored' = scored + 1 /\ UNCHANGED truncated
         /\ UNCHANGED <<at, round, rounds, frontierVars, valveFired, reason,
                        instructions, pool>>
BY SameMP DEF MP!Combo, MP!frontierVars, frontierVars

LEMMA MPEndCombosFacts ==
  ASSUME MP!EndCombos
  PROVE  /\ at = "combo"
         /\ UNCHANGED <<round, frontierVars, budget, cancelled, valveFired,
                        instructions, pool, combos, scored, truncated, demos,
                        batch>>
         /\ rounds' \in {rounds, round}
         /\ \/ at' = "finish" /\ reason' \in {"aborted", "budget_stopped"}
            \/ at' = "child" /\ scored > 0 /\ UNCHANGED reason
BY DEF MP!EndCombos, MP!Stop, MP!frontierVars, frontierVars, MP!jointVars

LEMMA MPChildFacts ==
  ASSUME MP!Child
  PROVE  /\ at = "child" /\ rounds' = round
         /\ UNCHANGED <<round, instructions, pool, combos, scored, truncated,
                        demos, batch>>
         /\ valveFired' \in {valveFired, TRUE}
         /\ at' \in {"finish", "gate"}
         /\ reason' \in {reason, "budget_stopped"}
         /\ \E d : RunUnit(Cardinality(Cells), d)
         /\ (\E m \in Candidates({round}) : Raise(m)) \/ CutShort(round)
<1>1. PICK d :
        /\ RunUnit(Cardinality(Cells), d)
        /\ \/ /\ \E m \in Candidates({round}) : Raise(m)
              /\ \/ MP!Stop("budget_stopped") /\ valveFired' = TRUE
                 \/ MP!CloseRound("gate")
           \/ CutShort(round)
  BY SameMP DEF MP!Child
<1>2. MP!Stop("budget_stopped") =>
        at' = "finish" /\ reason' = "budget_stopped"
  BY DEF MP!Stop
<1>3. MP!CloseRound("gate") =>
        /\ at' \in {"finish", "gate"} /\ reason' \in {reason, "budget_stopped"}
        /\ valveFired' \in {valveFired, TRUE}
  BY DEF MP!CloseRound, MP!Stop
<1>4. CutShort(round) =>
        /\ at' = "finish" /\ reason' = "budget_stopped"
        /\ UNCHANGED valveFired
  BY DEF CutShort, Stop
<1>5. /\ at = "child" /\ rounds' = round
      /\ UNCHANGED <<round, instructions, pool, combos, scored, truncated,
                     demos, batch>>
  BY DEF MP!Child, MP!jointVars
<1> QED BY <1>1, <1>2, <1>3, <1>4, <1>5

LEMMA MPRestFacts ==
  ASSUME (MP!Finish \/ MP!Cancel \/ MP!Fails({"combo", "child"}))
           /\ UNCHANGED MP!jointVars
  PROVE  /\ UNCHANGED <<round, frontierVars, budget, valveFired, reason, rounds,
                        instructions, pool, combos, scored, truncated, demos,
                        batch>>
         /\ at' \in {at, "done", "error"}
         /\ cancelled' \in {cancelled, TRUE}
BY DEF MP!Finish, MP!Cancel, MP!Fails, MP!jointVars, MP!frontierVars,
       frontierVars

LEMMA MPInit ==
  ASSUME MP!Init
  PROVE  MPInv
<1>1. /\ NewLoop("propose") /\ pool \in MP!Pools
      /\ instructions = 0 /\ combos = 0 /\ scored = 0 /\ truncated = 0
      /\ demos = {} /\ batch = {}
  BY SameMP DEF MP!Init
<1>2. 0 \in 0 .. MaxRounds /\ 0 .. MaxRounds \subseteq Nat
  BY LoopAssumption
<1>3. /\ at = "propose" /\ round = 0 /\ Taken = {0}
      /\ Data(0 .. MaxRounds) /\ Flags /\ Rounds /\ LoopInv
  BY <1>1, <1>2, NewLoopFacts
<1>4. MPType
  BY <1>1, <1>3, MPParameters DEF MPType, MP!MIPROv2Type, MP!Pools
<1>5. MPIds
  BY <1>3 DEF MPIds, IdsUpTo, InPairRound
<1>6. Pairs
  BY <1>1, <1>3, MPParameters DEF Pairs, InPairRound
<1> QED BY <1>3, <1>4, <1>5, <1>6 DEF MPInv

LEMMA MPNumbers ==
  ASSUME MPInv
  PROVE  /\ round \in Nat /\ MaxRounds \in Nat /\ round <= MaxRounds
         /\ rounds \in Nat /\ rounds <= round
         /\ instructions \in Nat /\ instructions <= NumInstructions
         /\ combos \in Nat /\ scored \in Nat /\ truncated \in Nat
         /\ combos <= CombosPerRound /\ scored <= CombosPerRound
         /\ truncated <= CombosPerRound
         /\ InPairRound => round >= 1 /\ round \notin Taken
         /\ Taken \subseteq 0 .. round
         /\ 0 .. MaxRounds \in SUBSET Nat
<1>1. /\ round \in Nat /\ MaxRounds \in Nat /\ round <= MaxRounds
      /\ rounds \in Nat /\ rounds <= round
  BY LoopAssumption DEF MPInv, MPType, Rounds
<1>2. /\ combos \in 0 .. CombosPerRound /\ scored \in 0 .. CombosPerRound
      /\ truncated \in 0 .. CombosPerRound
      /\ instructions \in 0 .. NumInstructions
  BY DEF MPInv, MPType, MP!MIPROv2Type
<1>3. Taken \subseteq 0 .. round
  BY <1>1 DEF MPInv, MPIds, IdsUpTo
<1>4. ASSUME InPairRound PROVE round >= 1 /\ round \notin Taken
  <2>1. Taken \subseteq 0 .. round - 1 /\ 0 \in Taken
    BY <1>4 DEF MPInv, MPIds, IdsUpTo, LoopInv, Explained
  <2> QED BY <1>1, <2>1
<1> QED BY <1>1, <1>2, <1>3, <1>4, MPParameters

\* Steps that leave frontier, lineage and pairs alone.
LEMMA MPQuietStep ==
  ASSUME MPInv, UNCHANGED <<frontierVars, round, pool, combos, scored,
                            truncated, demos, batch>>,
         budget' \in Budgets, valveFired' \in {valveFired, TRUE},
         cancelled' \in {cancelled, TRUE}, reason' \in Reason,
         rounds' \in 0 .. round, instructions' \in 0 .. NumInstructions,
         at' \in {at, "gate", "child"} \cup Ends,
         InPairRound' => InPairRound, at' = "child" => scored > 0
  PROVE  MPKept
<1>1. LoopInv' /\ Taken' = Taken /\ Data(0 .. MaxRounds)'
  BY FrameKeeps DEF MPInv, MPType
<1>2. Flags' /\ Rounds'
  BY DEF MPInv, MPType, Flags, Rounds
<1>3. MPType'
  BY <1>1, <1>2 DEF MPInv, MPType, MP!MIPROv2Type, Ends
<1>4. MPIds'
  BY <1>1, MPNumbers DEF MPInv, MPIds, IdsUpTo
<1>5. Pairs'
  BY DEF MPInv, Pairs
<1> QED BY <1>1, <1>3, <1>4, <1>5 DEF MPKept

LEMMA MPGateStep ==
  ASSUME MPInv, MP!Gate
  PROVE  MPKept
<1>1. /\ at = "gate" /\ valveFired' \in {valveFired, TRUE}
      /\ UNCHANGED <<rounds, frontierVars, budget, cancelled, instructions,
                     pool, demos, batch>>
  BY MPGateFacts
<1>2. CASE at' = "finish"
  <2>1. /\ reason' \in Reason
        /\ UNCHANGED <<round, combos, scored, truncated>>
    BY <1>2, MPGateFacts DEF Reason
  <2>2. /\ budget' \in Budgets /\ rounds' \in 0 .. round
        /\ instructions' \in 0 .. NumInstructions
    BY <1>1 DEF MPInv, MPType, Flags, Rounds, MP!MIPROv2Type
  <2>3. at' \in Ends /\ ~ InPairRound' /\ at' # "child"
    BY <1>2 DEF Ends, InPairRound
  <2> QED BY <1>1, <2>1, <2>2, <2>3, MPQuietStep
<1>3. CASE at' # "finish"
  <2>1. /\ at' = "combo" /\ UNCHANGED reason
        /\ round # MaxRounds /\ round' = round + 1
        /\ combos' = MP!Least(CombosPerRound, instructions)
        /\ scored' = 0 /\ truncated' = 0
    BY <1>3, MPGateFacts
  <2>2. LoopInv' /\ Taken' = Taken /\ Data(0 .. MaxRounds)'
    BY <1>1, FrameKeeps DEF MPInv, MPType
  <2>3. combos' \in 0 .. CombosPerRound
    BY <2>1, MPNumbers, MPParameters DEF MP!Least
  <2>4. round' \in 0 .. MaxRounds /\ rounds' \in 0 .. round'
    BY <1>1, <2>1, MPNumbers
  <2>5. Flags'
    BY <1>1, <2>1 DEF MPInv, MPType, Flags
  <2>6. MPType'
    BY <1>1, <2>1, <2>2, <2>3, <2>4, <2>5, MPParameters
       DEF MPInv, MPType, Rounds, MP!MIPROv2Type
  <2>7. MPIds'
    <3>1. round' - 1 = round /\ Taken \subseteq 0 .. round
      BY <2>1, MPNumbers
    <3> QED BY <2>1, <2>2, <3>1 DEF MPIds, IdsUpTo, InPairRound
  <2>8. Pairs'
    BY <1>1, <2>1, <2>3, MPParameters DEF MPInv, Pairs
  <2> QED BY <2>2, <2>6, <2>7, <2>8 DEF MPKept
<1> QED BY <1>2, <1>3

LEMMA MPComboStep ==
  ASSUME MPInv, MP!Combo
  PROVE  MPKept
<1>1. /\ at = "combo" /\ combos > 0 /\ combos' = combos - 1
      /\ \/ truncated' = truncated + 1 /\ UNCHANGED scored
         \/ scored' = scored + 1 /\ UNCHANGED truncated
      /\ UNCHANGED <<at, round, rounds, frontierVars, valveFired, reason,
                     instructions, pool>>
  BY MPComboFacts
<1>2. LoopInv' /\ Taken' = Taken /\ Data(0 .. MaxRounds)'
  BY <1>1, FrameKeeps DEF MPInv, MPType
<1>3. /\ demos' \subseteq Cells /\ batch' \subseteq Cells
      /\ demos' \cap batch' = {} /\ batch' # {}
      /\ Cardinality(batch') \in Nat
  <2>1. pool \in MP!Pools
    BY DEF MPInv, Pairs
  <2> QED BY <2>1, MPComboFacts, PairFacts
<1>4. Flags'
  <2>1. budget' \in Budgets /\ cancelled' \in BOOLEAN
    BY <1>3, MPComboFacts, UnitFacts DEF MPInv, MPType, Flags
  <2> QED BY <1>1, <2>1 DEF MPInv, MPType, Flags
<1>5. /\ combos' \in 0 .. CombosPerRound /\ scored' \in 0 .. CombosPerRound
      /\ truncated' \in 0 .. CombosPerRound
      /\ combos' + scored' + truncated' <= CombosPerRound
  <2>1. combos + scored + truncated <= CombosPerRound
    BY DEF MPInv, Pairs
  <2> QED BY <1>1, <2>1, MPNumbers, MPParameters
<1>6. MPType'
  BY <1>1, <1>2, <1>3, <1>4, <1>5
     DEF MPInv, MPType, Rounds, MP!MIPROv2Type
<1>7. MPIds'
  BY <1>1, <1>2 DEF MPInv, MPIds, IdsUpTo, InPairRound
<1>8. Pairs'
  BY <1>1, <1>3, <1>5 DEF MPInv, Pairs
<1> QED BY <1>2, <1>6, <1>7, <1>8 DEF MPKept

LEMMA MPChildStep ==
  ASSUME MPInv, MP!Child
  PROVE  MPKept
<1>1. /\ at = "child" /\ InPairRound /\ rounds' = round
      /\ UNCHANGED <<round, instructions, pool, combos, scored, truncated,
                     demos, batch>>
      /\ at' \in {"finish", "gate"} /\ ~ InPairRound'
  BY MPChildFacts DEF InPairRound
<1>2. Data(0 .. MaxRounds)' /\ LoopInv' /\ Taken' = Taken \cup {round}
  <2>1. /\ 0 .. MaxRounds \in SUBSET Nat /\ round \in 0 .. MaxRounds
        /\ round \notin Taken /\ Data(0 .. MaxRounds) /\ LoopInv
    BY <1>1, MPNumbers DEF MPInv, MPType
  <2> QED BY <2>1, MPChildFacts, OneChild
<1>3. Flags'
  <2>1. budget' \in Budgets /\ cancelled' \in BOOLEAN
    BY MPChildFacts, CellCount, UnitFacts DEF MPInv, MPType, Flags
  <2>2. reason' \in Reason /\ valveFired' \in BOOLEAN
    BY MPChildFacts DEF MPInv, MPType, Flags, Reason
  <2> QED BY <2>1, <2>2 DEF Flags
<1>4. Rounds'
  BY <1>1, MPNumbers DEF MPInv, MPType, Rounds
<1>5. MPType'
  BY <1>1, <1>2, <1>3, <1>4 DEF MPInv, MPType, MP!MIPROv2Type, Ends
<1>6. MPIds'
  <2>1. Taken' \subseteq 0 .. round
    <3>1. Taken \subseteq 0 .. round /\ round \in 0 .. round
      BY MPNumbers
    <3> QED BY <1>2, <3>1
  <2> QED BY <1>1, <2>1 DEF MPIds, IdsUpTo
<1>7. Pairs'
  BY <1>1 DEF MPInv, Pairs
<1> QED BY <1>2, <1>5, <1>6, <1>7 DEF MPKept

LEMMA MPStep ==
  ASSUME MPInv, MP!Next
  PROVE  MPInv'
<1>0. /\ budget \in Budgets /\ valveFired \in BOOLEAN /\ cancelled \in BOOLEAN
      /\ reason \in Reason /\ rounds \in 0 .. round
      /\ instructions \in 0 .. NumInstructions /\ round \in 0 .. round
  BY MPNumbers DEF MPInv, MPType, Flags, Rounds, MP!MIPROv2Type
<1>1. CASE MP!Propose
  <2>1. budget' \in Budgets
    BY <1>0, <1>1, MPProposeFacts, StageFacts
  <2>2. instructions' \in 0 .. NumInstructions
    BY <1>0, <1>1, MPProposeFacts
  <2>3. reason' \in Reason
    BY <1>0, <1>1, MPProposeFacts DEF Reason
  <2>4. at' \in {"gate"} \cup Ends /\ ~ InPairRound' /\ at' # "child"
    BY <1>1, MPProposeFacts DEF Ends, InPairRound
  <2> QED BY <1>0, <1>1, <2>1, <2>2, <2>3, <2>4, MPProposeFacts, MPQuietStep
          DEF MPKept, MPInv
<1>2. CASE MP!EndCombos
  <2>1. reason' \in Reason
    BY <1>0, <1>2, MPEndCombosFacts DEF Reason
  <2>2. /\ at' \in {"child"} \cup Ends /\ InPairRound
        /\ at' = "child" => scored > 0
    BY <1>2, MPEndCombosFacts DEF Ends, InPairRound
  <2>3. rounds' \in 0 .. round
    BY <1>0, <1>2, MPEndCombosFacts
  <2> QED BY <1>0, <1>2, <2>1, <2>2, <2>3, MPEndCombosFacts, MPQuietStep
          DEF MPKept, MPInv
<1>3. CASE (MP!Finish \/ MP!Cancel \/ MP!Fails({"combo", "child"}))
             /\ UNCHANGED MP!jointVars
  <2>1. /\ at' \in {at} \cup Ends
        /\ InPairRound' => InPairRound
        /\ at' = "child" => scored > 0
    BY <1>3, MPRestFacts DEF Ends, InPairRound, MPInv, Pairs
  <2> QED BY <1>0, <1>3, <2>1, MPRestFacts, MPQuietStep DEF MPKept, MPInv
<1> QED BY <1>1, <1>2, <1>3, MPGateStep, MPComboStep, MPChildStep
        DEF MP!Next, MPKept, MPInv

LEMMA MPConsequences ==
  ASSUME MPInv
  PROVE  MP!TypeOK /\ MP!LeakFree
<1>1. MP!LoopType(0 .. MaxRounds)
  BY SameMP, LoopTypeParts DEF MPInv, MPType
<1>2. MP!TypeOK
  BY <1>1 DEF MPInv, MPType, Ends, MP!TypeOK
<1>3. MP!LeakFree
  BY DEF MPInv, Pairs, InPairRound, MP!LeakFree
<1> QED BY <1>2, <1>3

-----------------------------------------------------------------------------
(* P1. *)

P1Type ==
  /\ at \in {"gate", "reflect", "probe", "mutate", "child", "searched", "final"}
         \cup Ends
  /\ Data({0, 1}) /\ Flags /\ Rounds
  /\ P!P1Type

\* The only child of the run's own loop is the last thing it evaluates.
P1Ids == at \notin Ends => Taken \subseteq {0}

ProbeSize == P!Lesser(Batch, star)

\* What the rounds to come and the rest of this round may spend.
Later == (MaxRounds - round) * share

Still ==
  IF at = "reflect" THEN star + ProbeSize
  ELSE IF at = "probe" /\ left > 0 THEN star + ProbeSize
  ELSE IF at \in {"probe", "mutate", "child"} THEN star
  ELSE 0

\* The plan covers them and the final evaluation.
PlanApplies ==
  EvalLimit > 0 /\ Reps = 1 /\ share >= 2 /\ probed <= 1 /\ at \notin Ends

Planned ==
  /\ left <= probed
  /\ PlanApplies =>
       /\ star + ProbeSize <= share
       /\ budget.evals + Cardinality(Cells) + Later + Still <= EvalLimit

P1Inv == P1Type /\ LoopInv /\ P1Ids /\ Planned

P1Kept == P1Type' /\ LoopInv' /\ P1Ids' /\ Planned'

LEMMA P1Parameters ==
  /\ Batch \in Nat \ {0} /\ MaxHypotheses \in Nat
  /\ MaxRounds \in Nat \ {0} /\ EvalLimit \in Nat
  /\ P!Kept = Cardinality(Cells) /\ P!Kept \in Nat \ {0}
BY OptimizersAssumption, LoopAssumption, LimitAssumption, SameP, CellCount
   DEF P!P1Parameters, P!Kept

\* A share per round to come; one round begun is one share less.
LEMMA Shares ==
  ASSUME NEW m \in Nat, NEW r \in Nat, r <= m, NEW s \in Nat
  PROVE  /\ (m - r) * s \in Nat
         /\ r < m => (m - r) * s = (m - (r + 1)) * s + s
<1>1. m - r \in Nat
  OBVIOUS
<1>2. (m - r) * s \in Nat
  BY <1>1
<1>3. ASSUME r < m PROVE (m - r) * s = (m - (r + 1)) * s + s
  <2> DEFINE k == m - (r + 1)
  <2>1. k \in Nat /\ m - r = k + 1
    BY <1>3
  <2> HIDE DEF k
  <2>2. (k + 1) * s = k * s + s
    BY <2>1
  <2> QED BY <2>1, <2>2 DEF k
<1> QED BY <1>2, <1>3

\* Rounding down, the shares never exceed what is shared out.
LEMMA SharedOut ==
  ASSUME NEW x \in Nat, NEW m \in Nat \ {0}
  PROVE  x \div m \in Nat /\ m * (x \div m) <= x
OBVIOUS

\* The plan is made so that a round with one probe fits its share.
LEMMA PlanFits ==
  ASSUME NEW k \in Nat \ {0}, NEW b \in Nat \ {0}, NEW s \in Nat,
         NEW t, t = P!Greater(1, P!Lesser(s - P!Lesser(b, s), k))
  PROVE  /\ t \in 1 .. k
         /\ s >= 2 => t + P!Lesser(b, t) <= s
<1>1. P!Lesser(b, s) \in Nat /\ P!Lesser(b, s) <= s /\ P!Lesser(b, s) <= b
  BY DEF P!Lesser
<1>2. t \in 1 .. k
  BY <1>1 DEF P!Greater, P!Lesser
<1>3. ASSUME s >= 2 PROVE t + P!Lesser(b, t) <= s
  <2>1. CASE b >= s
    <3>1. P!Lesser(b, s) = s
      BY <2>1 DEF P!Lesser
    <3>2. t = 1
      BY <3>1 DEF P!Greater, P!Lesser
    <3> QED BY <1>3, <3>2 DEF P!Lesser
  <2>2. CASE b < s
    <3>1. P!Lesser(b, s) = b /\ s - b >= 1
      BY <2>2 DEF P!Lesser
    <3>2. t <= s - b
      BY <3>1 DEF P!Greater, P!Lesser
    <3>3. P!Lesser(b, t) <= b /\ P!Lesser(b, t) \in Nat
      BY <1>2 DEF P!Lesser
    <3> QED BY <1>2, <3>2, <3>3
  <2> QED BY <2>1, <2>2
<1> QED BY <1>2, <1>3

LEMMA P1Numbers ==
  ASSUME P1Inv
  PROVE  /\ round \in Nat /\ MaxRounds \in Nat /\ round <= MaxRounds
         /\ rounds \in Nat /\ rounds <= round
         /\ star \in Nat /\ star >= 1 /\ star <= Cardinality(Cells)
         /\ share \in Nat /\ probed \in Nat /\ left \in Nat
         /\ probed <= MaxHypotheses /\ left <= MaxHypotheses
         /\ ProbeSize \in Nat /\ Later \in Nat /\ Still \in Nat
         /\ budget.evals \in Nat
         /\ Cardinality(Cells) \in Nat
<1>1. /\ round \in Nat /\ MaxRounds \in Nat /\ round <= MaxRounds
      /\ rounds \in Nat /\ rounds <= round
  BY LoopAssumption DEF P1Inv, P1Type, Rounds
<1>2. /\ star \in Nat /\ star >= 1 /\ star <= Cardinality(Cells)
      /\ share \in Nat /\ probed \in Nat /\ left \in Nat
      /\ probed <= MaxHypotheses /\ left <= MaxHypotheses
      /\ Cardinality(Cells) \in Nat
  BY P1Parameters DEF P1Inv, P1Type, P!P1Type
<1>3. ProbeSize \in Nat
  BY <1>2, P1Parameters DEF ProbeSize, P!Lesser
<1>4. Later \in Nat
  BY <1>1, <1>2, Shares DEF Later
<1>5. Still \in Nat
  BY <1>2, <1>3 DEF Still
<1>6. budget.evals \in Nat
  BY DEF P1Inv, P1Type, Flags, Budgets
<1> QED BY <1>1, <1>2, <1>3, <1>4, <1>5, <1>6

LEMMA P1Init ==
  ASSUME P!Init
  PROVE  P1Inv
<1>1. /\ NewLoop("gate")
      /\ star = P!PlanStar(budget.evals) /\ share = P!ShareOf(budget.evals)
      /\ left = 0 /\ lift = FALSE /\ short = FALSE
      /\ probed = 0 /\ raised = FALSE
  BY SameP DEF P!Init
<1>2. /\ at = "gate" /\ round = 0 /\ Taken = {0}
      /\ Data({0, 1}) /\ Flags /\ Rounds /\ LoopInv
  BY <1>1, NewLoopFacts
<1>3. budget.evals \in Nat /\ P!Kept \in Nat \ {0} /\ MaxRounds \in Nat \ {0}
      /\ EvalLimit \in Nat
  BY <1>2, P1Parameters, LimitAssumption DEF Flags, Budgets
<1> DEFINE x == P!Greater(0, EvalLimit - budget.evals - P!Kept)
<1>4. x \in Nat /\ x <= P!Greater(0, EvalLimit - budget.evals - P!Kept)
  BY <1>3 DEF P!Greater
<1>5. share = x \div MaxRounds
  BY <1>1 DEF P!ShareOf
<1>6. x = 0 \/ x = EvalLimit - budget.evals - P!Kept
  BY <1>3 DEF P!Greater
<1> HIDE DEF x
<1>7. share \in Nat /\ MaxRounds * share <= x
  BY <1>3, <1>4, <1>5, SharedOut
<1>8. share >= 2 => x # 0
  <2>1. x = 0 => share = 0
    BY <1>3, <1>5
  <2> QED BY <1>7, <2>1
<1>9. /\ star \in 1 .. P!Kept
      /\ EvalLimit > 0 /\ share >= 2 => star + ProbeSize <= share
  <2>1. CASE EvalLimit = 0
    BY <1>1, <1>3, <2>1 DEF P!PlanStar
  <2>2. CASE EvalLimit # 0
    <3>1. star = P!Greater(1, P!Lesser(share - P!Lesser(Batch, share), P!Kept))
      BY <1>1, <2>2 DEF P!PlanStar
    <3>2. /\ star \in 1 .. P!Kept
          /\ share >= 2 => star + P!Lesser(Batch, star) <= share
      BY <1>3, <1>7, <3>1, P1Parameters, PlanFits
    <3> QED BY <3>2 DEF ProbeSize
  <2> QED BY <2>1, <2>2
<1>10. P1Type
  <2>1. left \in 0 .. MaxHypotheses /\ probed \in 0 .. MaxHypotheses
    BY <1>1, P1Parameters
  <2>2. {lift, short, raised} \subseteq BOOLEAN
    BY <1>1
  <2>3. P!P1Type
    BY <1>7, <1>9, <2>1, <2>2 DEF P!P1Type
  <2> QED BY <1>2, <2>3 DEF P1Type
<1>11. P1Ids
  BY <1>2 DEF P1Ids
<1>12. Planned
  <2>1. Later = MaxRounds * share
    BY <1>2, <1>3, <1>7 DEF Later
  <2>2. Still = 0
    BY <1>2 DEF Still
  <2>3. share >= 2 => budget.evals + P!Kept + MaxRounds * share <= EvalLimit
    BY <1>3, <1>6, <1>7, <1>8
  <2>4. Later \in Nat
    BY <1>2, <1>3, <1>7, Shares DEF Later
  <2> HIDE DEF Later
  <2>5. share >= 2 =>
          budget.evals + Cardinality(Cells) + Later + Still <= EvalLimit
    BY <1>3, <2>1, <2>2, <2>3, <2>4, P1Parameters
  <2> QED BY <1>1, <1>9, <2>5 DEF Planned, PlanApplies
<1> QED BY <1>2, <1>10, <1>11, <1>12 DEF P1Inv

LEMMA P1GateFacts ==
  ASSUME P!Gate
  PROVE  /\ at = "gate"
         /\ UNCHANGED <<rounds, frontierVars, budget, valveFired, cancelled,
                        star, share, raised, probed>>
         /\ \/ /\ at' = "searched"
               /\ reason' \in {"rounds_done", "aborted", "budget_stopped"}
               /\ UNCHANGED <<round, left, lift, short>>
            \/ /\ at' = "reflect" /\ UNCHANGED reason
               /\ round # MaxRounds /\ round' = round + 1
               /\ left' = 0 /\ lift' = FALSE /\ short' = FALSE
BY DEF P!Gate, P!RoundsOver, P!Leave, P!planVars, P!roundVars,
       P!frontierVars, frontierVars

LEMMA P1StageFacts ==
  ASSUME NEW here, NEW next, NEW hypotheses, P!Stage(here, next, hypotheses)
  PROVE  /\ at = here
         /\ StageRefused \/ StageFailed \/ StageDone
         /\ UNCHANGED <<round, frontierVars, valveFired, cancelled, lift, short,
                        star, share, raised>>
         /\ probed' = P!Greater(probed, left')
         /\ rounds' \in {rounds, round}
         /\ reason' \in {reason, "budget_stopped"}
         /\ \/ at' \in {"searched", "gate"} /\ UNCHANGED left
            \/ at' = next /\ left' \in hypotheses
BY SameP DEF P!Stage, P!Leave, P!planVars, P!frontierVars, frontierVars

LEMMA P1ProbeFacts ==
  ASSUME P!Probe
  PROVE  /\ at = "probe" /\ left > 0 /\ left' = left - 1
         /\ \E d : /\ RunUnit(ProbeSize, d)
                   /\ lift' = (lift \/ d = ProbeSize)
                   /\ short' = (short \/ d < ProbeSize)
         /\ UNCHANGED <<at, round, rounds, frontierVars, valveFired, reason,
                        star, share, raised, probed>>
BY SameP DEF P!Probe, ProbeSize, P!planVars, P!frontierVars, frontierVars

LEMMA P1EndProbesFacts ==
  ASSUME P!EndProbes
  PROVE  /\ at = "probe"
         /\ UNCHANGED <<round, frontierVars, budget, valveFired, cancelled,
                        star, share, raised, probed, left, lift, short>>
         /\ rounds' \in {rounds, round}
         /\ reason' \in {reason, "aborted", "budget_stopped"}
         /\ at' \in {"searched", "gate", "mutate"}
BY DEF P!EndProbes, P!Leave, P!searchVars, P!planVars, P!roundVars,
       P!frontierVars, frontierVars

LEMMA P1StarChildFacts ==
  ASSUME P!StarChild
  PROVE  /\ at = "child" /\ rounds' = round
         /\ \E d : RunUnit(star, d) /\ raised' = (raised \/ d = star)
         /\ at' \in {"searched", "gate"}
         /\ reason' \in {reason, "budget_stopped"}
         /\ UNCHANGED <<round, frontierVars, valveFired, star, share, probed,
                        left, lift, short>>
BY SameP DEF P!StarChild, P!Leave, P!planVars, P!roundVars, P!frontierVars,
             frontierVars

LEMMA P1SearchedFacts ==
  ASSUME P!Searched
  PROVE  /\ at = "searched"
         /\ at' \in {"finish", "final"} /\ reason' \in {reason, "aborted"}
         /\ UNCHANGED <<round, rounds, frontierVars, budget, valveFired,
                        cancelled, star, share, raised, probed, left, lift,
                        short>>
BY DEF P!Searched, P!Stop, P!searchVars, P!planVars, P!roundVars,
       P!frontierVars, frontierVars

LEMMA P1FinalFacts ==
  ASSUME P!Final
  PROVE  /\ at = "final" /\ at' = "finish"
         /\ reason' \in {reason, "budget_stopped"} /\ UNCHANGED valveFired
         /\ \E d : RunUnit(Cardinality(Cells), d)
         /\ (\E m \in Candidates({1}) : Raise(m)) \/ CutShort(1)
         /\ UNCHANGED <<round, rounds, star, share, raised, probed, left, lift,
                        short>>
<1>1. PICK d :
        /\ RunUnit(Cardinality(Cells), d)
        /\ \/ /\ \E m \in Candidates({1}) : Raise(m)
              /\ at' = "finish" /\ UNCHANGED <<reason, valveFired>>
           \/ CutShort(1)
  BY SameP DEF P!Final, P!Kept
<1>2. CutShort(1) =>
        /\ at' = "finish" /\ reason' = "budget_stopped"
        /\ UNCHANGED valveFired
  BY DEF CutShort, Stop
<1>3. /\ at = "final"
      /\ UNCHANGED <<round, rounds, star, share, raised, probed, left, lift,
                     short>>
  BY DEF P!Final, P!searchVars, P!planVars, P!roundVars
<1> QED BY <1>1, <1>2, <1>3

LEMMA P1RestFacts ==
  ASSUME (P!Finish \/ P!Cancel \/ P!Fails({"probe", "child", "final"}))
           /\ UNCHANGED P!searchVars
  PROVE  /\ UNCHANGED <<round, frontierVars, budget, valveFired, reason, rounds,
                        star, share, raised, probed, left, lift, short>>
         /\ at' \in {at, "done", "error"}
         /\ cancelled' \in {cancelled, TRUE}
BY DEF P!Finish, P!Cancel, P!Fails, P!searchVars, P!planVars, P!roundVars,
       P!frontierVars, frontierVars

\* Steps that leave frontier and lineage alone: their types.
LEMMA P1TypeStep ==
  ASSUME P1Inv, UNCHANGED <<frontierVars, star, share>>,
         budget' \in Budgets, valveFired' = valveFired,
         cancelled' \in BOOLEAN, reason' \in Reason,
         round' \in 0 .. MaxRounds, rounds' \in 0 .. round',
         left' \in 0 .. MaxHypotheses, probed' \in 0 .. MaxHypotheses,
         lift' \in BOOLEAN, short' \in BOOLEAN, raised' \in BOOLEAN,
         at' \in {"gate", "reflect", "probe", "mutate", "child", "searched",
                  "final"} \cup Ends,
         at' \notin Ends => at \notin Ends
  PROVE  P1Type' /\ LoopInv' /\ P1Ids'
<1>1. LoopInv' /\ Taken' = Taken /\ Data({0, 1})'
  BY FrameKeeps DEF P1Inv, P1Type
<1>2. Flags' /\ Rounds'
  BY DEF P1Inv, P1Type, Flags, Rounds
<1>3. P!P1Type'
  BY DEF P1Inv, P1Type, P!P1Type
<1>4. P1Type'
  BY <1>1, <1>2, <1>3 DEF P1Type
<1>5. P1Ids'
  BY <1>1 DEF P1Inv, P1Ids
<1> QED BY <1>1, <1>4, <1>5

\* What a step spends is taken from what the round may still spend.
LEMMA P1PlanStep ==
  ASSUME P1Inv, UNCHANGED <<star, share, round>>,
         left' <= probed', probed' \in Nat, probed <= probed',
         at' \notin Ends => at \notin Ends,
         budget'.evals \in Nat, Still' \in Nat,
         PlanApplies' => budget'.evals + Still' <= budget.evals + Still
  PROVE  Planned'
<1>1. ProbeSize' = ProbeSize /\ Later' = Later
  BY DEF ProbeSize, Later
<1> SUFFICES ASSUME PlanApplies'
             PROVE  /\ star + ProbeSize <= share
                    /\ budget'.evals + Cardinality(Cells) + Later + Still'
                         <= EvalLimit
  BY <1>1 DEF Planned
<1>2. PlanApplies
  BY P1Numbers DEF PlanApplies
<1>3. /\ star + ProbeSize <= share
      /\ budget.evals + Cardinality(Cells) + Later + Still <= EvalLimit
  BY <1>2 DEF P1Inv, Planned
<1> QED BY <1>3, P1Numbers, P1Parameters

\* A step that spends nothing and does not add to what the round may spend.
LEMMA P1FreeStep ==
  ASSUME P1Inv, UNCHANGED <<star, share, round, left, probed>>,
         budget'.evals = budget.evals,
         \/ at' = at
         \/ at' \in {"gate", "searched", "final"} \cup Ends
         \/ at \in {"probe", "mutate"} /\ at' = "mutate",
         at' \notin Ends => at \notin Ends
  PROVE  Planned'
<1>1. ProbeSize' = ProbeSize
  BY DEF ProbeSize
<1>2. Still' \in Nat /\ Still' <= Still
  BY <1>1, P1Numbers DEF Still, Ends
<1>3. left <= probed
  BY DEF P1Inv, Planned
<1> QED BY <1>2, <1>3, P1Numbers, P1PlanStep

\* A round that begins uses up its share.
LEMMA P1GateStep ==
  ASSUME P1Inv, P!Gate
  PROVE  P1Kept
<1>1. /\ at = "gate" /\ at \notin Ends
      /\ UNCHANGED <<rounds, frontierVars, budget, valveFired, cancelled,
                     star, share, raised, probed>>
  BY P1GateFacts DEF Ends
<1>2. /\ budget \in Budgets /\ cancelled \in BOOLEAN /\ reason \in Reason
      /\ lift \in BOOLEAN /\ short \in BOOLEAN /\ raised \in BOOLEAN
      /\ left \in 0 .. MaxHypotheses /\ probed \in 0 .. MaxHypotheses
      /\ round \in 0 .. MaxRounds /\ rounds \in 0 .. round
  BY DEF P1Inv, P1Type, Flags, Rounds, P!P1Type
<1>3. CASE at' = "searched"
  <2>1. UNCHANGED <<round, left, lift, short>> /\ reason' \in Reason
    BY <1>3, P1GateFacts DEF Reason
  <2>2. P1Type' /\ LoopInv' /\ P1Ids'
    BY <1>1, <1>2, <1>3, <2>1, P1TypeStep
  <2>3. Planned'
    BY <1>1, <1>3, <2>1, P1FreeStep
  <2> QED BY <2>2, <2>3 DEF P1Kept
<1>4. CASE at' # "searched"
  <2>1. /\ at' = "reflect" /\ UNCHANGED reason
        /\ round # MaxRounds /\ round' = round + 1
        /\ left' = 0 /\ lift' = FALSE /\ short' = FALSE
    BY <1>4, P1GateFacts
  <2>2. P1Type' /\ LoopInv' /\ P1Ids'
    <3>1. /\ round' \in 0 .. MaxRounds /\ rounds' \in 0 .. round'
          /\ left' \in 0 .. MaxHypotheses
      BY <1>1, <2>1, P1Numbers, P1Parameters
    <3> QED BY <1>1, <1>2, <2>1, <3>1, P1TypeStep
  <2>3. ProbeSize' = ProbeSize /\ Still = 0 /\ Still' = star + ProbeSize
    BY <1>1, <2>1 DEF ProbeSize, Still
  <2>4. Later = Later' + share /\ Later' \in Nat
    <3>1. round \in Nat /\ round < MaxRounds /\ round + 1 <= MaxRounds
      BY <2>1, P1Numbers
    <3>2. /\ (MaxRounds - round) * share
               = (MaxRounds - (round + 1)) * share + share
          /\ (MaxRounds - (round + 1)) * share \in Nat
      BY <3>1, P1Numbers, Shares
    <3> QED BY <1>1, <2>1, <3>2 DEF Later
  <2>5. Planned'
    <3>1. left' <= probed'
      BY <1>1, <2>1, P1Numbers
    <3> SUFFICES ASSUME PlanApplies'
                 PROVE  /\ star + ProbeSize <= share
                        /\ budget.evals + Cardinality(Cells) + Later' + Still'
                             <= EvalLimit
      BY <1>1, <2>3, <3>1 DEF Planned
    <3>2. PlanApplies
      BY <1>1 DEF PlanApplies
    <3>3. /\ star + ProbeSize <= share
          /\ budget.evals + Cardinality(Cells) + Later + Still <= EvalLimit
      BY <3>2 DEF P1Inv, Planned
    <3> QED BY <2>3, <2>4, <3>3, P1Numbers, P1Parameters
  <2> QED BY <2>2, <2>5 DEF P1Kept
<1> QED BY <1>3, <1>4

\* Reflecting leaves one hypothesis at most when the plan is to apply; mutating
\* leaves the hypotheses alone.
LEMMA P1StageStep ==
  ASSUME P1Inv, P!Stage("reflect", "probe", 0 .. MaxHypotheses)
                  \/ P!Stage("mutate", "child", {left})
  PROVE  P1Kept
<1>1. /\ at \in {"reflect", "mutate"} /\ at \notin Ends
      /\ UNCHANGED <<round, frontierVars, valveFired, cancelled, lift, short,
                     star, share, raised>>
      /\ StageRefused \/ StageFailed \/ StageDone
      /\ probed' = P!Greater(probed, left')
      /\ rounds' \in {rounds, round}
      /\ reason' \in {reason, "budget_stopped"}
      /\ \/ at' \in {"searched", "gate"} /\ UNCHANGED left
         \/ at = "reflect" /\ at' = "probe" /\ left' \in 0 .. MaxHypotheses
         \/ at = "mutate" /\ at' = "child" /\ UNCHANGED left
  <2>1. CASE P!Stage("reflect", "probe", 0 .. MaxHypotheses)
    <3> DEFINE hypotheses == 0 .. MaxHypotheses
    <3> HIDE DEF hypotheses
    <3>1. P!Stage("reflect", "probe", hypotheses)
      BY <2>1 DEF hypotheses
    <3>2. /\ at = "reflect" /\ at' = "probe" => left' \in hypotheses
          /\ left' \in hypotheses => left' \in 0 .. MaxHypotheses
      BY <3>1, P1StageFacts DEF hypotheses
    <3> QED BY <3>1, <3>2, P1StageFacts DEF Ends
  <2>2. CASE P!Stage("mutate", "child", {left})
    <3>1. left' \in {left} => UNCHANGED left
      OBVIOUS
    <3> QED BY <2>2, <3>1, P1StageFacts DEF Ends
  <2> QED BY <2>1, <2>2
<1>2. /\ budget \in Budgets /\ cancelled \in BOOLEAN /\ reason \in Reason
      /\ lift \in BOOLEAN /\ short \in BOOLEAN /\ raised \in BOOLEAN
      /\ left \in 0 .. MaxHypotheses /\ probed \in 0 .. MaxHypotheses
      /\ round \in 0 .. MaxRounds /\ rounds \in 0 .. round
  BY DEF P1Inv, P1Type, Flags, Rounds, P!P1Type
<1>3. budget' \in Budgets /\ budget'.evals = budget.evals
  BY <1>1, <1>2, StageFacts
<1>4. left' \in 0 .. MaxHypotheses
  BY <1>1, <1>2
<1>5. /\ probed' \in 0 .. MaxHypotheses
      /\ left' <= probed' /\ probed <= probed'
  BY <1>1, <1>2, <1>4 DEF P!Greater
<1>6. P1Type' /\ LoopInv' /\ P1Ids'
  <2>1. reason' \in Reason /\ rounds' \in 0 .. round'
    BY <1>1, <1>2 DEF Reason
  <2> QED BY <1>1, <1>2, <1>3, <1>4, <1>5, <2>1, P1TypeStep
<1>7. ProbeSize' = ProbeSize
  BY <1>1 DEF ProbeSize
<1>8. Still' \in Nat /\ Still' <= Still
  <2>1. CASE at' \in {"searched", "gate"}
    BY <2>1, P1Numbers DEF Still
  <2>2. CASE at = "reflect" /\ at' = "probe"
    BY <1>1, <1>7, <2>2, P1Numbers DEF Still
  <2>3. CASE at = "mutate" /\ at' = "child"
    BY <1>1, <1>7, <2>3, P1Numbers DEF Still
  <2> QED BY <1>1, <2>1, <2>2, <2>3
<1>9. Planned'
  BY <1>1, <1>3, <1>5, <1>8, P1Numbers, P1PlanStep
<1> QED BY <1>6, <1>9 DEF P1Kept

LEMMA P1ProbeStep ==
  ASSUME P1Inv, P!Probe
  PROVE  P1Kept
<1>1. /\ at = "probe" /\ at \notin Ends /\ left > 0 /\ left' = left - 1
      /\ UNCHANGED <<at, round, rounds, frontierVars, valveFired, reason,
                     star, share, raised, probed>>
  BY P1ProbeFacts DEF Ends
<1>2. PICK d : /\ RunUnit(ProbeSize, d)
               /\ lift' = (lift \/ d = ProbeSize)
               /\ short' = (short \/ d < ProbeSize)
  BY P1ProbeFacts
<1>3. /\ budget \in Budgets /\ cancelled \in BOOLEAN /\ reason \in Reason
      /\ raised \in BOOLEAN
      /\ probed \in 0 .. MaxHypotheses
      /\ round \in 0 .. MaxRounds /\ rounds \in 0 .. round
  BY DEF P1Inv, P1Type, Flags, Rounds, P!P1Type
<1>4. /\ budget' \in Budgets /\ cancelled' \in BOOLEAN
      /\ budget'.evals = budget.evals + Reps * d
      /\ d \in Nat /\ d <= ProbeSize
  BY <1>2, <1>3, P1Numbers, UnitFacts
<1>5. lift' \in BOOLEAN /\ short' \in BOOLEAN
  BY <1>2, Zenon
<1>6. left' \in 0 .. MaxHypotheses /\ left' <= probed
  <2>1. left <= probed
    BY DEF P1Inv, Planned
  <2>2. left \in 0 .. MaxHypotheses /\ MaxHypotheses \in Nat
    BY P1Parameters DEF P1Inv, P1Type, P!P1Type
  <2>3. probed \in Int
    BY <1>3, <2>2
  <2> QED BY <1>1, <2>1, <2>2, <2>3
<1>7. P1Type' /\ LoopInv' /\ P1Ids'
  <2>1. at' \in {"probe"} /\ at' \in {"gate", "reflect", "probe", "mutate",
          "child", "searched", "final"} \cup Ends
    BY <1>1
  <2> QED BY <1>1, <1>3, <1>4, <1>5, <1>6, <2>1, P1TypeStep
<1>8. ProbeSize' = ProbeSize
  BY <1>1 DEF ProbeSize
<1>9. Still' \in Nat
  BY <1>1, <1>6, <1>8, P1Numbers DEF Still
<1>10. ASSUME PlanApplies' PROVE budget'.evals + Still' <= budget.evals + Still
  <2>1. Reps = 1 /\ probed <= 1
    BY <1>1, <1>10 DEF PlanApplies
  <2>2. budget'.evals = budget.evals + d
    BY <1>4, <2>1
  <2>3. left = 1 /\ left' = 0
    <3>1. left <= probed
      BY DEF P1Inv, Planned
    <3> QED BY <1>1, <2>1, <3>1, P1Numbers
  <2>4. Still = star + ProbeSize /\ Still' = star
    BY <1>1, <2>3 DEF Still
  <2> QED BY <1>4, <2>2, <2>4, P1Numbers
<1>11. Planned'
  <2>1. budget'.evals \in Nat
    BY <1>4 DEF Budgets
  <2> QED BY <1>1, <1>6, <1>9, <1>10, <2>1, P1Numbers, P1PlanStep
<1> QED BY <1>7, <1>11 DEF P1Kept

LEMMA P1StarChildStep ==
  ASSUME P1Inv, P!StarChild
  PROVE  P1Kept
<1>1. /\ at = "child" /\ at \notin Ends /\ rounds' = round
      /\ at' \in {"searched", "gate"}
      /\ reason' \in {reason, "budget_stopped"}
      /\ UNCHANGED <<round, frontierVars, valveFired, star, share, probed,
                     left, lift, short>>
  BY P1StarChildFacts DEF Ends
<1>2. PICK d : RunUnit(star, d) /\ raised' = (raised \/ d = star)
  BY P1StarChildFacts
<1>3. /\ budget \in Budgets /\ cancelled \in BOOLEAN /\ reason \in Reason
      /\ lift \in BOOLEAN /\ short \in BOOLEAN
      /\ left \in 0 .. MaxHypotheses /\ probed \in 0 .. MaxHypotheses
      /\ round \in 0 .. MaxRounds
  BY DEF P1Inv, P1Type, Flags, Rounds, P!P1Type
<1>4. /\ budget' \in Budgets /\ cancelled' \in BOOLEAN
      /\ budget'.evals = budget.evals + Reps * d
      /\ d \in Nat /\ d <= star
  BY <1>2, <1>3, P1Numbers, UnitFacts
<1>5. P1Type' /\ LoopInv' /\ P1Ids'
  <2>1. raised' \in BOOLEAN
    BY <1>2, Zenon
  <2>2. reason' \in Reason /\ rounds' \in 0 .. round'
    BY <1>1, <1>3, P1Numbers DEF Reason
  <2> QED BY <1>1, <1>3, <1>4, <2>1, <2>2, P1TypeStep
<1>6. Still = star /\ Still' = 0
  BY <1>1 DEF Still
<1>7. PlanApplies' => budget'.evals + Still' <= budget.evals + Still
  <2> SUFFICES ASSUME Reps = 1
               PROVE  budget'.evals + Still' <= budget.evals + Still
    BY DEF PlanApplies
  <2>1. budget'.evals = budget.evals + d
    BY <1>4
  <2> QED BY <1>4, <1>6, <2>1, P1Numbers
<1>8. Planned'
  <2>1. budget'.evals \in Nat /\ left <= probed /\ Still' \in Nat
    BY <1>4, <1>6 DEF Budgets, P1Inv, Planned
  <2> QED BY <1>1, <1>7, <2>1, P1Numbers, P1PlanStep
<1> QED BY <1>5, <1>8 DEF P1Kept

LEMMA P1FinalStep ==
  ASSUME P1Inv, P!Final
  PROVE  P1Kept
<1>1. /\ at = "final" /\ at' = "finish" /\ at' \in Ends
      /\ reason' \in {reason, "budget_stopped"} /\ UNCHANGED valveFired
      /\ UNCHANGED <<round, rounds, star, share, raised, probed, left, lift,
                     short>>
  BY P1FinalFacts DEF Ends
<1>2. Data({0, 1})' /\ LoopInv'
  <2>1. /\ {0, 1} \in SUBSET Nat /\ 1 \in {0, 1}
        /\ Data({0, 1}) /\ LoopInv /\ 1 \notin Taken
    BY <1>1 DEF P1Inv, P1Type, P1Ids, Ends
  <2> QED BY <2>1, P1FinalFacts, OneChild
<1>3. Flags'
  <2>1. budget' \in Budgets /\ cancelled' \in BOOLEAN
    BY P1FinalFacts, CellCount, UnitFacts DEF P1Inv, P1Type, Flags
  <2>2. reason' \in Reason /\ valveFired' \in BOOLEAN
    BY <1>1 DEF P1Inv, P1Type, Flags, Reason
  <2> QED BY <2>1, <2>2 DEF Flags
<1>4. P1Type'
  BY <1>1, <1>2, <1>3 DEF P1Inv, P1Type, Rounds, P!P1Type
<1>5. P1Ids' /\ Planned'
  BY <1>1 DEF P1Ids, P1Inv, Planned, PlanApplies
<1> QED BY <1>2, <1>4, <1>5 DEF P1Kept

LEMMA P1Step ==
  ASSUME P1Inv, P!Next
  PROVE  P1Inv'
<1>0. /\ budget \in Budgets /\ cancelled \in BOOLEAN /\ reason \in Reason
      /\ lift \in BOOLEAN /\ short \in BOOLEAN /\ raised \in BOOLEAN
      /\ left \in 0 .. MaxHypotheses /\ probed \in 0 .. MaxHypotheses
      /\ round \in 0 .. MaxRounds /\ rounds \in 0 .. round
      /\ round \in 0 .. round
      /\ at \in {"gate", "reflect", "probe", "mutate", "child", "searched",
                 "final"} \cup Ends
  BY P1Numbers DEF P1Inv, P1Type, Flags, Rounds, P!P1Type
<1>1. CASE P!EndProbes
  <2>1. at \notin Ends /\ reason' \in Reason /\ rounds' \in 0 .. round'
    BY <1>0, <1>1, P1EndProbesFacts DEF Ends, Reason
  <2>2. P1Type' /\ LoopInv' /\ P1Ids'
    BY <1>0, <1>1, <2>1, P1EndProbesFacts, P1TypeStep
  <2>3. Planned'
    BY <1>1, <2>1, P1EndProbesFacts, P1FreeStep
  <2> QED BY <2>2, <2>3 DEF P1Inv
<1>2. CASE P!Searched
  <2>1. at \notin Ends /\ reason' \in Reason /\ at' \in {"final"} \cup Ends
    BY <1>0, <1>2, P1SearchedFacts DEF Ends, Reason
  <2>2. P1Type' /\ LoopInv' /\ P1Ids'
    BY <1>0, <1>2, <2>1, P1SearchedFacts, P1TypeStep
  <2>3. Planned'
    BY <1>2, <2>1, P1SearchedFacts, P1FreeStep
  <2> QED BY <2>2, <2>3 DEF P1Inv
<1>3. CASE (P!Finish \/ P!Cancel \/ P!Fails({"probe", "child", "final"}))
             /\ UNCHANGED P!searchVars
  <2>1. /\ at' \in {at} \cup Ends /\ (at' \notin Ends => at \notin Ends)
        /\ cancelled' \in BOOLEAN
        /\ at' = at \/ at' \in Ends
    BY <1>0, <1>3, P1RestFacts DEF Ends
  <2>2. P1Type' /\ LoopInv' /\ P1Ids'
    BY <1>0, <1>3, <2>1, P1RestFacts, P1TypeStep
  <2>3. Planned'
    BY <1>3, <2>1, P1RestFacts, P1FreeStep
  <2> QED BY <2>2, <2>3 DEF P1Inv
<1> QED BY <1>1, <1>2, <1>3, P1GateStep, P1StageStep, P1ProbeStep,
           P1StarChildStep, P1FinalStep DEF P!Next, P1Kept, P1Inv

LEMMA P1Consequences ==
  ASSUME P1Inv
  PROVE  P!TypeOK /\ P!ReserveHeld
<1>1. P!LoopType({0, 1})
  BY SameP, LoopTypeParts DEF P1Inv, P1Type
<1>2. P!TypeOK
  BY <1>1 DEF P1Inv, P1Type, Ends, P!TypeOK
<1>3. P!ReserveHeld
  <2> SUFFICES ASSUME PlanApplies
               PROVE  EvalLimit - budget.evals >= P!Kept
    BY DEF P!ReserveHeld, PlanApplies, Ends
  <2>1. budget.evals + Cardinality(Cells) + Later + Still <= EvalLimit
    BY DEF P1Inv, Planned
  <2> QED BY <2>1, P1Numbers, P1Parameters
<1> QED BY <1>2, <1>3

-----------------------------------------------------------------------------
(* EvoPrompt: the population's order.                                        *)

\* What EvoPrompt keeps of a candidate's place is a strict order on ids.
LEMMA FitterFacts ==
  ASSUME NEW x \in Candidates(Nat), NEW y \in Candidates(Nat),
         NEW z \in Candidates(Nat)
  PROVE  /\ EP!Fitter(x, y) <=> \/ Sum(x.row) > Sum(y.row)
                                \/ Sum(x.row) = Sum(y.row) /\ x.id < y.id
         /\ EP!Fitter(x, y) => ~ EP!Fitter(y, x)
         /\ EP!Fitter(x, y) /\ EP!Fitter(y, z) => EP!Fitter(x, z)
         /\ x.id # y.id => EP!Fitter(x, y) \/ EP!Fitter(y, x)
<1>1. \A m : EP!Fitness(m) = Sum(m.row)
  BY SameEP DEF EP!Fitness, EP!Sum, Sum
<1>2. /\ Sum(x.row) \in Int /\ Sum(y.row) \in Int /\ Sum(z.row) \in Int
      /\ x.id \in Nat /\ y.id \in Nat /\ z.id \in Nat
  BY SumFacts, RowFacts
<1> QED BY <1>1, <1>2 DEF EP!Fitter

\* Candidates told apart by their ids, as a population's are.
Ordered(A) ==
  /\ A \subseteq Candidates(Nat) /\ IsFiniteSet(A)
  /\ \A x, y \in A : x.id = y.id => x = y

Above(A, x) == {y \in A : EP!Fitter(y, x)}
Rank(A, x) == Cardinality(Above(A, x)) + 1

\* The ranks are the places from first to last, and the fitter is the earlier.
LEMMA RankFacts ==
  ASSUME NEW A, Ordered(A)
  PROVE  /\ Cardinality(A) \in Nat
         /\ \A x \in A : Rank(A, x) \in 1 .. Cardinality(A)
         /\ \A x, y \in A : EP!Fitter(x, y) => Rank(A, x) < Rank(A, y)
         /\ \A i \in 1 .. Cardinality(A) : \E x \in A : Rank(A, x) = i
<1> DEFINE n == Cardinality(A)
<1>0. n \in Nat
  BY FS_CardinalityType DEF Ordered
<1>1. ASSUME NEW x \in A
      PROVE  /\ IsFiniteSet(Above(A, x)) /\ Cardinality(Above(A, x)) \in Nat
             /\ x \notin Above(A, x) /\ Rank(A, x) \in 1 .. n
  <2>1. x \notin Above(A, x)
    BY FitterFacts DEF Ordered, Above
  <2>2. Above(A, x) \in SUBSET (A \ {x})
    BY <2>1 DEF Above
  <2>3. IsFiniteSet(A \ {x}) /\ Cardinality(A \ {x}) = n - 1
    BY FS_RemoveElement DEF Ordered
  <2>4. /\ IsFiniteSet(Above(A, x))
        /\ Cardinality(Above(A, x)) <= Cardinality(A \ {x})
    BY <2>2, <2>3, FS_Subset
  <2>5. Cardinality(Above(A, x)) \in Nat
    BY <2>4, FS_CardinalityType
  <2> QED BY <1>0, <2>1, <2>3, <2>4, <2>5 DEF Rank
<1>2. ASSUME NEW x \in A, NEW y \in A, EP!Fitter(x, y)
      PROVE  Rank(A, x) < Rank(A, y)
  <2>1. Above(A, x) \cup {x} \in SUBSET Above(A, y)
    <3>1. \A z \in Above(A, x) : z \in Above(A, y)
      BY <1>2, FitterFacts DEF Ordered, Above
    <3> QED BY <1>2, <3>1 DEF Above
  <2>2. Cardinality(Above(A, x) \cup {x}) = Cardinality(Above(A, x)) + 1
    BY <1>1, FS_AddElement
  <2>3. Cardinality(Above(A, x) \cup {x}) <= Cardinality(Above(A, y))
    BY <1>1, <2>1, FS_Subset
  <2> QED BY <1>1, <2>2, <2>3 DEF Rank
<1>3. ASSUME NEW i \in 1 .. n PROVE \E x \in A : Rank(A, x) = i
  <2> DEFINE f == [x \in A |-> Rank(A, x)]
  <2>1. f \in Injection(A, 1 .. n)
    <3>1. f \in [A -> 1 .. n]
      BY <1>1
    <3>2. ASSUME NEW x \in A, NEW y \in A, f[x] = f[y] PROVE x = y
      <4>1. Rank(A, x) = Rank(A, y) /\ Rank(A, x) \in Int
        BY <1>1, <3>2
      <4>2. ~ EP!Fitter(x, y) /\ ~ EP!Fitter(y, x)
        BY <1>2, <4>1
      <4> QED BY <4>2, FitterFacts DEF Ordered
    <3> QED BY <3>1, <3>2 DEF Injection, IsInjective
  <2>2. IsFiniteSet(1 .. n) /\ Cardinality(1 .. n) = n
    BY <1>0, FS_Interval
  <2>3. f \in Surjection(A, 1 .. n)
    BY <2>1, <2>2, FS_Injection
  <2> QED BY <2>3 DEF Surjection
<1> QED BY <1>0, <1>1, <1>2, <1>3

\* The population's places.
Places(s) == {s[i] : i \in DOMAIN s}

DistinctIds(s) == \A i, j \in DOMAIN s : s[i].id = s[j].id => i = j

\* Sorted and truncated, the population is some of what it was, everyone in it
\* once, and its first is fitter than everyone else.
LEMMA TruncatedFacts ==
  ASSUME NEW S, S \subseteq Candidates(Nat), pop \in Seq(S), pop # <<>>,
         DistinctIds(pop)
  PROVE  /\ EP!Truncated \in Seq(S) /\ EP!Truncated # <<>>
         /\ Len(EP!Truncated) <= PopulationSize
         /\ DistinctIds(EP!Truncated)
         /\ EP!Truncated[1] \in Places(pop)
         /\ \A x \in Places(pop) \ {EP!Truncated[1]} :
              EP!Fitter(EP!Truncated[1], x)
<1> DEFINE A == Places(pop)
           rank(x) == EP!Cardinality(Above(A, x)) + 1
           s == EP!SortedPop
           n == Len(pop)
           m == IF n < PopulationSize THEN n ELSE PopulationSize
           t == SubSeq(s, 1, m)
<1>1. n \in Nat \ {0} /\ DOMAIN pop = 1 .. n /\ pop \in [1 .. n -> S]
  BY EmptySeq, LenProperties
<1>2. Ordered(A) /\ Cardinality(A) = n /\ A \subseteq S
  <2>1. A \subseteq S
    BY <1>1 DEF Places
  <2>2. \A x, y \in A : x.id = y.id => x = y
    BY DEF Places, DistinctIds
  <2>3. pop \in Bijection(1 .. n, A)
    <3>1. pop \in [1 .. n -> A]
      BY <1>1 DEF Places
    <3>2. \A i, j \in 1 .. n : pop[i] = pop[j] => i = j
      BY <1>1 DEF DistinctIds
    <3>3. \A x \in A : \E i \in 1 .. n : pop[i] = x
      BY <1>1 DEF Places
    <3> QED BY <3>1, <3>2, <3>3
            DEF Bijection, Injection, Surjection, IsInjective
  <2>4. IsFiniteSet(1 .. n) /\ Cardinality(1 .. n) = n
    BY <1>1, FS_Interval
  <2>5. IsFiniteSet(A) /\ Cardinality(A) = n
    BY <2>3, <2>4, FS_Bijection DEF ExistsBijection
  <2> QED BY <2>1, <2>2, <2>5 DEF Ordered
<1>3. /\ s = [i \in 1 .. EP!Cardinality(A) |-> CHOOSE x \in A : rank(x) = i]
      /\ EP!Cardinality(A) = n
      /\ \A x \in A : rank(x) = Rank(A, x)
  <2>1. s = [i \in 1 .. EP!Cardinality(A) |-> CHOOSE x \in A : rank(x) = i]
    BY DEF EP!SortedPop, Above, Places
  <2> QED BY <1>2, <2>1, SameEP DEF Rank
<1>4. EP!Truncated = t
  BY DEF EP!Truncated
<1> HIDE DEF A, s, n, rank
<1>5. \A i \in 1 .. n : s[i] \in A /\ Rank(A, s[i]) = i
  BY <1>2, <1>3, RankFacts
<1>6. m \in Nat \ {0} /\ m <= n /\ m <= PopulationSize /\ 1 .. m \subseteq 1 .. n
  BY <1>1, OptimizersAssumption DEF EP!EvoPromptParameters
<1> HIDE DEF m
<1>7. /\ t \in Seq(A) /\ Len(t) = m
      /\ \A i \in 1 .. m : t[i] = s[i]
  <2>1. 1 \in Int /\ m \in Int /\ \A i \in 1 .. m : s[i] \in A
    BY <1>5, <1>6
  <2> QED BY <1>6, <2>1, SubSeqProperties
<1> HIDE DEF t
<1>8. DOMAIN t = 1 .. m /\ t # <<>> /\ t[1] = s[1] /\ t \in Seq(S)
  BY <1>2, <1>6, <1>7
<1>9. DistinctIds(t)
  <2> SUFFICES ASSUME NEW i \in 1 .. m, NEW j \in 1 .. m, t[i].id = t[j].id
               PROVE  i = j
    BY <1>8 DEF DistinctIds
  <2>1. t[i] = s[i] /\ t[j] = s[j] /\ s[i] \in A /\ s[j] \in A
    BY <1>5, <1>6, <1>7
  <2>2. s[i] = s[j]
    BY <1>2, <2>1 DEF Ordered
  <2> QED BY <1>5, <1>6, <2>2
<1>10. t[1] \in A
  BY <1>1, <1>5, <1>8
<1>11. ASSUME NEW x \in A \ {t[1]} PROVE EP!Fitter(t[1], x)
  <2>1. Rank(A, t[1]) = 1 /\ Rank(A, x) \in 1 .. Cardinality(A)
    BY <1>1, <1>2, <1>5, <1>8, RankFacts
  <2>2. ~ (Rank(A, x) < Rank(A, t[1]))
    BY <2>1
  <2>3. ~ EP!Fitter(x, t[1])
    BY <1>2, <1>10, <2>2, RankFacts
  <2>4. x.id # t[1].id
    BY <1>2, <1>10 DEF Ordered
  <2> QED BY <1>2, <1>10, <2>3, <2>4, FitterFacts DEF Ordered
<1> QED BY <1>4, <1>6, <1>7, <1>8, <1>9, <1>10, <1>11 DEF A

-----------------------------------------------------------------------------
(* EvoPrompt: its steps.                                                     *)

InBirth == at \in {"seedling", "child"}

BirthRecords == [places : Seq(Nat), drawn : Seq(Nat)]

EPType ==
  /\ at \in {"seed", "seedling", "gate", "breed", "child"} \cup Ends
  /\ Data(EP!Ids) /\ Flags /\ Rounds
  /\ EP!EvoType

\* A birth has an id of its own, which nothing has before its child has.
EPIds == IdsUpTo(IF InBirth THEN seq - 1 ELSE seq)

\* No more ids are handed out than there are variants and births to try.
Ledger ==
  /\ births \in Seq(BirthRecords)
  /\ at = "child" => births # <<>>
  /\ at \in {"seed", "seedling", "gate"} => births = <<>>
  /\ at \in {"seed", "seedling"} => round = 0
  /\ at = "seedling" => tries < PopulationSize - 1
  /\ at \notin Ends =>
       seq + Len(births) <= tries + 2 * round + (IF InBirth THEN 1 ELSE 0)

\* The parents drawn stand where they stood.
Held(b) ==
  \A k \in DOMAIN b.places :
    b.places[k] \in DOMAIN pop /\ pop[b.places[k]].id = b.drawn[k]

Populated ==
  /\ pop # <<>> /\ DistinctIds(pop)
  /\ \A i \in DOMAIN births : Held(births[i])
  /\ at = "gate" =>
       /\ Len(pop) <= PopulationSize
       /\ \A x \in Places(pop) \ {pop[1]} : EP!Fitter(pop[1], x)

\* Somewhere in the population stands the fittest of all that was ever offered;
\* while nothing was measured with noise, it is on the frontier, too.
Leads(t) ==
  /\ t \in Places(pop)
  /\ \A o \in offered \ {t} : EP!Fitter(t, o)
  /\ BlurOf(offered) = 0 => t \in members

Led == \E t \in offered : Leads(t)

EPInv == EPType /\ LoopInv /\ EPIds /\ Ledger /\ Populated /\ Led

EPKept == EPType' /\ LoopInv' /\ EPIds' /\ Ledger' /\ Populated' /\ Led'

LEMMA EPParameters ==
  /\ PopulationSize \in Nat \ {0} /\ MaxRounds \in Nat \ {0}
  /\ EP!MaxSeq = PopulationSize - 1 + 2 * MaxRounds
  /\ EP!Ids = 0 .. PopulationSize - 1 + 2 * MaxRounds
  /\ EP!Ids \in SUBSET Nat
BY OptimizersAssumption, LoopAssumption
   DEF EP!EvoPromptParameters, EP!MaxSeq, EP!Ids, EP!ChildrenPerGeneration

LEMMA EPNumbers ==
  ASSUME EPInv
  PROVE  /\ round \in Nat /\ round <= MaxRounds
         /\ rounds \in Nat /\ rounds <= round
         /\ tries \in Nat /\ tries <= PopulationSize - 1
         /\ seq \in Nat /\ seq \in EP!Ids
         /\ Len(births) \in Nat
         /\ births # <<>> => Len(births) >= 1
         /\ Taken \subseteq 0 .. seq
         /\ InBirth => seq \notin Taken
         /\ at \notin Ends =>
              seq + Len(births) <= tries + 2 * round + (IF InBirth THEN 1 ELSE 0)
<1>1. /\ round \in Nat /\ round <= MaxRounds
      /\ rounds \in Nat /\ rounds <= round
  BY LoopAssumption DEF EPInv, EPType, Rounds
<1>2. /\ tries \in Nat /\ tries <= PopulationSize - 1
      /\ seq \in Nat /\ seq \in EP!Ids
  BY EPParameters DEF EPInv, EPType, EP!EvoType
<1>3. Len(births) \in Nat /\ (births # <<>> => Len(births) >= 1)
  BY LenProperties, EmptySeq DEF EPInv, Ledger
<1>4. Taken \subseteq 0 .. seq /\ (InBirth => seq \notin Taken)
  BY <1>2 DEF EPInv, EPIds, IdsUpTo
<1> QED BY <1>1, <1>2, <1>3, <1>4 DEF EPInv, Ledger

\* The population's candidates are the frontier's, of ids in use.
LEMMA PopFacts ==
  ASSUME EPInv
  PROVE  /\ pop \in Seq(offered) /\ offered \subseteq Candidates(Nat)
         /\ Len(pop) \in Nat /\ DOMAIN pop = 1 .. Len(pop)
         /\ \A i \in DOMAIN pop : pop[i] \in offered /\ pop[i].id \in Taken
         /\ Places(pop) \subseteq offered
<1>1. pop \in Seq(offered)
  BY DEF EPInv, EPType, EP!EvoType
<1>2. offered \subseteq Candidates(Nat)
  BY EPParameters DEF EPInv, EPType, Data, Candidates
<1>3. /\ Len(pop) \in Nat /\ DOMAIN pop = 1 .. Len(pop)
      /\ pop \in [1 .. Len(pop) -> offered]
  BY <1>1, LenProperties
<1>4. \A i \in DOMAIN pop : pop[i] \in offered /\ pop[i].id \in Taken
  BY <1>3 DEF Taken
<1> QED BY <1>1, <1>2, <1>3, <1>4 DEF Places

LEMMA EPSeedFacts ==
  ASSUME EP!Seed
  PROVE  /\ at = "seed"
         /\ UNCHANGED <<round, rounds, frontierVars, cancelled, variant, births>>
         /\ valveFired' \in {valveFired, TRUE}
         /\ \/ /\ pop' = EP!Truncated /\ at' = "gate"
               /\ UNCHANGED <<budget, reason, tries, seq>>
            \/ /\ tries < PopulationSize - 1 /\ UNCHANGED pop
               /\ UNCHANGED budget \/ StageRefused \/ StageFailed \/ StageDone
               /\ \/ /\ at' = "finish" /\ reason' \in {"aborted", "budget_stopped"}
                     /\ UNCHANGED <<tries, seq>>
                  \/ at' = "seed" /\ tries' = tries + 1 /\ UNCHANGED <<reason, seq>>
                  \/ /\ at' = "seedling" /\ seq' = seq + 1
                     /\ UNCHANGED <<reason, tries>>
<1>1. /\ at = "seed"
      /\ UNCHANGED <<round, rounds, frontierVars, cancelled, variant, births>>
  BY DEF EP!Seed, EP!frontierVars, frontierVars
<1>2. EP!GateStops => /\ at' = "finish"
                      /\ reason' \in {"aborted", "budget_stopped"}
                      /\ valveFired' \in {valveFired, TRUE}
  BY DEF EP!GateStops, EP!Stop
<1>3. EP!Stop("budget_stopped") => at' = "finish" /\ reason' = "budget_stopped"
  BY DEF EP!Stop
<1> QED BY <1>1, <1>2, <1>3, SameEP DEF EP!Seed

LEMMA EPRaiseFacts ==
  ASSUME EP!RaiseChild
  PROVE  /\ \E d : RunUnit(Cardinality(Cells), d)
         /\ \/ /\ \E m \in Candidates({seq}) : Raise(m) /\ pop' = Append(pop, m)
               /\ at' = IF at = "seedling" THEN "seed" ELSE "breed"
               /\ UNCHANGED <<reason, valveFired>>
            \/ /\ CutShort(seq) /\ at' = "finish" /\ reason' = "budget_stopped"
               /\ UNCHANGED <<pop, valveFired>>
<1>1. CutShort(seq) => /\ at' = "finish" /\ reason' = "budget_stopped"
                       /\ UNCHANGED valveFired
  BY DEF CutShort, Stop
<1> QED BY <1>1, SameEP DEF EP!RaiseChild, EP!Appended

LEMMA EPGateFacts ==
  ASSUME EP!Gate
  PROVE  /\ at = "gate"
         /\ UNCHANGED <<frontierVars, budget, cancelled, variant, pop, tries, seq>>
         /\ valveFired' \in {valveFired, TRUE}
         /\ \/ /\ at' = "finish"
               /\ reason' \in {"rounds_done", "aborted", "budget_stopped"}
               /\ UNCHANGED <<round, rounds, births>>
            \/ /\ at' = "breed" /\ UNCHANGED reason
               /\ round # MaxRounds /\ round' = round + 1 /\ rounds' = round'
               /\ births' \in EP!Plans
BY DEF EP!Gate, EP!RoundsOver, EP!GateStops, EP!Stop, EP!frontierVars,
       frontierVars

LEMMA EPBreedFacts ==
  ASSUME EP!Breed
  PROVE  /\ at = "breed"
         /\ UNCHANGED <<round, rounds, frontierVars, cancelled, variant, tries>>
         /\ valveFired' \in {valveFired, TRUE}
         /\ \/ /\ births # <<>> /\ UNCHANGED pop
               /\ StageRefused \/ StageFailed \/ StageDone
               /\ \/ /\ at' = "finish" /\ reason' = "budget_stopped"
                     /\ UNCHANGED <<births, seq>>
                  \/ /\ at' = "breed" /\ births' = Tail(births)
                     /\ UNCHANGED <<reason, seq>>
                  \/ /\ at' = "child" /\ seq' = seq + 1
                     /\ UNCHANGED <<reason, births>>
            \/ /\ births = <<>> /\ pop' = EP!Truncated
               /\ UNCHANGED <<budget, births, seq>>
               /\ \/ at' = "finish" /\ reason' = "budget_stopped"
                  \/ at' = "gate" /\ UNCHANGED reason
<1>1. /\ at = "breed"
      /\ UNCHANGED <<round, rounds, frontierVars, cancelled, variant, tries>>
  BY DEF EP!Breed, EP!frontierVars, frontierVars
<1>2. EP!CloseRound("gate") =>
        /\ valveFired' \in {valveFired, TRUE}
        /\ \/ at' = "finish" /\ reason' = "budget_stopped"
           \/ at' = "gate" /\ UNCHANGED reason
  BY DEF EP!CloseRound, EP!Stop
<1>3. EP!Stop("budget_stopped") => at' = "finish" /\ reason' = "budget_stopped"
  BY DEF EP!Stop
<1> QED BY <1>1, <1>2, <1>3, SameEP DEF EP!Breed

LEMMA EPRestFacts ==
  ASSUME (EP!Finish \/ EP!Cancel \/ EP!Fails({"seedling", "child"}))
           /\ UNCHANGED EP!evoVars
  PROVE  /\ UNCHANGED <<round, frontierVars, budget, valveFired, reason, rounds,
                        variant, pop, tries, births, seq>>
         /\ at' \in {at, "done", "error"}
         /\ cancelled' \in {cancelled, TRUE}
BY DEF EP!Finish, EP!Cancel, EP!Fails, EP!evoVars, EP!frontierVars,
       frontierVars

\* Two births are planned, and both name places of the population.
LEMMA PlanFacts ==
  ASSUME EPInv, NEW plan \in EP!Plans
  PROVE  /\ plan \in Seq(BirthRecords) /\ Len(plan) = 2
         /\ \A i \in DOMAIN plan : Held(plan[i])
<1> DEFINE Good(b) == b \in BirthRecords /\ Held(b)
<1>1. ASSUME NEW places \in Seq(DOMAIN pop) PROVE Good(EP!Birth(places))
  <2> DEFINE n == Len(places)
  <2>1. /\ n \in Nat /\ DOMAIN places = 1 .. n
        /\ places \in [1 .. n -> DOMAIN pop]
    BY LenProperties
  <2>2. DOMAIN pop \subseteq Nat
    BY PopFacts
  <2>3. \A k \in 1 .. n : places[k] \in DOMAIN pop /\ pop[places[k]].id \in Nat
    BY <2>1, PopFacts, RowFacts
  <2> DEFINE drawn == [k \in 1 .. n |-> pop[places[k]].id]
  <2>4. places \in Seq(Nat)
    BY <2>1, <2>2
  <2>5. drawn \in Seq(Nat)
    BY <2>1, <2>3
  <2>6. EP!Birth(places) = [places |-> places, drawn |-> drawn]
    BY <2>1 DEF EP!Birth
  <2> HIDE DEF n
  <2> QED BY <2>1, <2>3, <2>4, <2>5, <2>6 DEF BirthRecords, Held
<1>2. \A e : EP!Winners(e) \subseteq DOMAIN pop
  BY DEF EP!Winners
<1>3. \A b \in EP!Mutation : Good(b)
  <2>1. Len(pop) = 1 => 1 \in DOMAIN pop
    BY PopFacts
  <2>2. \A b \in EP!Mutation : \E p \in DOMAIN pop : b = EP!Birth(<<p>>)
    BY <1>2, <2>1 DEF EP!Mutation
  <2>3. \A p \in DOMAIN pop : <<p>> \in Seq(DOMAIN pop)
    OBVIOUS
  <2> QED BY <1>1, <2>2, <2>3
<1>4. \A b \in EP!Crossover : Good(b)
  <2>1. \A b \in EP!Crossover :
          \E p \in DOMAIN pop, q \in DOMAIN pop : b = EP!Birth(<<p, q>>)
    BY <1>2 DEF EP!Crossover
  <2>2. \A p, q \in DOMAIN pop : <<p, q>> \in Seq(DOMAIN pop)
    OBVIOUS
  <2> QED BY <1>1, <2>1, <2>2
<1>5. \A b \in EP!Differential : Good(b)
  <2>1. ASSUME NEW b \in EP!Differential
        PROVE  \E p, q, r \in DOMAIN pop : b = EP!Birth(<<p, q, r>>)
    <3>1. PICK p \in EP!Winners({}) :
            b \in UNION {{EP!Birth(<<p, q, r>>) : r \in EP!Winners({q})}
                            : q \in EP!Winners({p})}
      BY DEF EP!Differential
    <3>2. PICK q \in EP!Winners({p}) :
            b \in {EP!Birth(<<p, q, r>>) : r \in EP!Winners({q})}
      BY <3>1
    <3> QED BY <1>2, <3>2
  <2>2. \A p, q, r \in DOMAIN pop : <<p, q, r>> \in Seq(DOMAIN pop)
    OBVIOUS
  <2> QED BY <1>1, <2>1, <2>2
<1>6. \E x, y : plan = <<x, y>> /\ Good(x) /\ Good(y)
  <2>1. \E x, y : /\ plan = <<x, y>>
                  /\ x \in EP!Mutation \cup EP!Crossover \cup EP!Differential
                  /\ y \in EP!Mutation \cup EP!Crossover \cup EP!Differential
    BY DEF EP!Plans
  <2> HIDE DEF Good
  <2> QED BY <1>3, <1>4, <1>5, <2>1
<1> QED BY <1>6

\* Steps that leave frontier and population alone.
LEMMA EPQuietStep ==
  ASSUME EPInv, UNCHANGED <<frontierVars, variant, pop>>,
         budget' \in Budgets, valveFired' \in {valveFired, TRUE},
         cancelled' \in {cancelled, TRUE}, reason' \in Reason,
         round' \in 0 .. MaxRounds, rounds' \in 0 .. round',
         tries' \in 0 .. PopulationSize - 1, seq' \in {seq, seq + 1},
         births' \in Seq(BirthRecords), Len(births') <= 2,
         \A i \in DOMAIN births' : Held(births'[i]),
         at' \in {"seed", "seedling", "breed", "child"} \cup Ends \cup {at},
         InBirth' /\ ~ InBirth => seq' = seq + 1,
         InBirth => seq' = seq,
         ~ InBirth' => seq' = seq,
         at' \notin Ends => at \notin Ends /\ (InBirth => InBirth'),
         Ledger'
  PROVE  EPKept
<1>1. LoopInv' /\ Taken' = Taken /\ Data(EP!Ids)'
  BY FrameKeeps DEF EPInv, EPType
<1>2. Flags' /\ Rounds'
  BY DEF EPInv, EPType, Flags, Rounds
<1>3. offered' = offered /\ members' = members
  BY DEF frontierVars
<1>4. seq' \in EP!Ids
  <2>1. CASE at' \in Ends \/ ~ InBirth'
    <3>1. seq' = seq
      BY <2>1 DEF InBirth, Ends
    <3> QED BY <3>1, EPNumbers
  <2>2. CASE at' \notin Ends /\ InBirth'
    <3>1. seq' \in Nat /\ Len(births') \in Nat
      BY EPNumbers, LenProperties
    <3>2. at' = "seedling" => births' = <<>> /\ round' = 0 /\ tries' < PopulationSize - 1
      BY DEF Ledger
    <3>3. at' = "child" => Len(births') >= 1
      BY EmptySeq DEF Ledger
    <3>4. seq' + Len(births') <= tries' + 2 * round' + 1
      BY <2>2 DEF Ledger
    <3>5. seq' <= PopulationSize - 1 + 2 * MaxRounds
      BY <2>2, <3>1, <3>2, <3>3, <3>4, EPParameters DEF InBirth
    <3> QED BY <3>1, <3>5, EPParameters
  <2> QED BY <2>1, <2>2
<1>5. EPType'
  BY <1>1, <1>2, <1>3, <1>4
     DEF EPInv, EPType, EP!EvoType, EP!ChildrenPerGeneration
<1>6. EPIds'
  BY <1>1, EPNumbers DEF EPInv, EPIds, IdsUpTo
<1>7. Populated'
  BY DEF EPInv, Populated, Held, Ends
<1>8. Led'
  BY <1>3 DEF EPInv, Led, Leads
<1> QED BY <1>1, <1>5, <1>6, <1>7, <1>8 DEF EPKept

\* Sorting and truncating keeps the leader, and puts it first.
LEMMA TruncationKeeps ==
  ASSUME EPInv, pop' = EP!Truncated, UNCHANGED frontierVars
  PROVE  /\ pop' \in Seq(offered') /\ pop' # <<>> /\ DistinctIds(pop)'
         /\ Len(pop') <= PopulationSize
         /\ \A x \in Places(pop)' \ {pop'[1]} : EP!Fitter(pop'[1], x)
         /\ Led'
<1>1. UNCHANGED <<members, offered>>
  BY DEF frontierVars
<1>2. /\ pop' \in Seq(offered) /\ pop' # <<>> /\ Len(pop') <= PopulationSize
      /\ DistinctIds(pop') /\ pop'[1] \in Places(pop)
      /\ \A x \in Places(pop) \ {pop'[1]} : EP!Fitter(pop'[1], x)
  BY PopFacts, TruncatedFacts DEF EPInv, Populated
<1>3. PICK t \in offered : Leads(t)
  BY DEF EPInv, Led
<1>4. /\ offered \subseteq Candidates(Nat) /\ Places(pop) \subseteq offered
      /\ t \in Places(pop)
  BY <1>3, PopFacts DEF Leads
<1>5. t = pop'[1]
  <2> SUFFICES ASSUME t # pop'[1] PROVE FALSE
    OBVIOUS
  <2>1. EP!Fitter(pop'[1], t) /\ EP!Fitter(t, pop'[1])
    BY <1>2, <1>3, <1>4 DEF Leads
  <2> QED BY <1>2, <1>4, <2>1, FitterFacts
<1>6. /\ pop' \in [1 .. Len(pop') -> offered] /\ DOMAIN pop' = 1 .. Len(pop')
      /\ Len(pop') \in Nat \ {0}
  BY <1>2, LenProperties, EmptySeq
<1>7. Places(pop)' \subseteq offered /\ t \in Places(pop)'
  BY <1>5, <1>6 DEF Places
<1>8. Led'
  BY <1>1, <1>3, <1>7 DEF Led, Leads
<1>9. \A x \in Places(pop)' \ {pop'[1]} : EP!Fitter(pop'[1], x)
  BY <1>3, <1>5, <1>7 DEF Leads
<1> QED BY <1>1, <1>2, <1>8, <1>9 DEF DistinctIds

\* Measured without noise, who beats another has a larger sum, and equals have
\* the same.
LEMMA BeatsFacts ==
  ASSUME NEW x \in Candidates(Nat), NEW y \in Candidates(Nat),
         \A c \in Cells : x.sd[c] = 0 /\ y.sd[c] = 0
  PROVE  /\ Beats(x, y) => Sum(y.row) < Sum(x.row)
         /\ Same(x, y) => Sum(x.row) = Sum(y.row)
<1>1. /\ \A c \in Cells : x.row[c] \in Int /\ y.row[c] \in Int
      /\ DOMAIN x.row = Cells /\ DOMAIN y.row = Cells
      /\ x.row \in [Cells -> Int] /\ y.row \in [Cells -> Int]
  BY RowFacts
<1>2. \A c \in Cells : MarginOf(x, y)[c] = 0
  BY DEF MarginOf
<1>3. ASSUME Beats(x, y) PROVE Dominates(x.row, y.row)
  <2>1. CASE BothRepeated(x, y)
    <3>1. DominatesWithMargin(x.row, y.row, MarginOf(x, y))
      BY <1>3, <2>1 DEF Beats
    <3> QED BY <1>1, <1>2, <3>1 DEF DominatesWithMargin, Dominates, Below
  <2> QED BY <1>3, <2>1 DEF Beats
<1>4. ASSUME Dominates(x.row, y.row) PROVE Sum(y.row) < Sum(x.row)
  <2>1. /\ \A c \in Cells : /\ y.row[c] \in Int /\ x.row[c] \in Int
                            /\ y.row[c] <= x.row[c]
        /\ \E c \in Cells : y.row[c] < x.row[c]
    BY <1>1, <1>4 DEF Dominates, Below
  <2> QED BY <1>1, <2>1, CellAssumption, SumIsMonotone DEF Sum, SumFunction
<1>5. ASSUME Same(x, y) PROVE x.row = y.row
  <2>1. CASE BothRepeated(x, y)
    <3>1. IsEpsClone(x.row, y.row, MarginOf(x, y))
      BY <1>5, <2>1 DEF Same
    <3>2. \A c \in Cells : x.row[c] = y.row[c]
      BY <1>1, <1>2, <3>1 DEF IsEpsClone
    <3> QED BY <1>1, <3>2
  <2> QED BY <1>5, <2>1 DEF Same
<1> QED BY <1>3, <1>4, <1>5

\* What is measured without noise was so before the last was offered.
LEMMA NoNoise ==
  ASSUME NEW O, O \subseteq Candidates(Nat), O # {}, NEW U, U \subseteq Candidates(Nat),
         O \subseteq U, BlurOf(U) = 0
  PROVE  /\ BlurOf(O) = 0
         /\ \A o \in U : \A c \in Cells : o.sd[c] = 0
<1>1. \A o \in U : \A c \in Cells : o.sd[c] = 0
  <2>1. \A o \in U : \A c \in Cells : o.sd[c] \in Nat /\ o.sd[c] <= BlurOf(U)
    BY BlurFacts
  <2> QED BY <2>1
<1>2. BlurOf(O) \in NoiseOf(O)
  BY BlurFacts
<1>3. PICK o \in O, c \in Cells : BlurOf(O) = o.sd[c]
  BY <1>2 DEF NoiseOf
<1> QED BY <1>1, <1>3

\* A newcomer leads if it is better than the leader; else the leader stays
\* ahead of it.  Measured without noise, the one who leads is on the frontier.
LEMMA RaiseKeepsLead ==
  ASSUME EPInv, InBirth, NEW m \in Candidates({seq}), Raise(m),
         pop' = Append(pop, m)
  PROVE  Led'
<1>1. /\ offered' = offered \cup {m}
      /\ members' = AddNoiseAware(members, m)
  BY DEF Raise, Offered, Joined
<1>2. /\ m \in Candidates(Nat) /\ m.id = seq /\ seq \in Nat
      /\ offered \subseteq Candidates(Nat) /\ members \subseteq offered
  BY EPNumbers, PopFacts DEF Candidates, EPInv, EPType, Data
<1>3. PICK t \in offered : Leads(t)
  BY DEF EPInv, Led
<1>4. t \in offered /\ t \in Candidates(Nat) /\ t.id < m.id
  <2>1. t \in offered /\ t \in Candidates(Nat)
    BY <1>2, <1>3
  <2>2. t.id \in Taken
    BY <2>1 DEF Taken
  <2>3. t.id \in 0 .. seq - 1
    BY <2>2 DEF EPInv, EPIds, IdsUpTo
  <2>4. t.id < seq
    BY <1>2, <2>3
  <2> QED BY <1>2, <2>1, <2>4
<1>5. /\ Sum(m.row) \in Int /\ Sum(t.row) \in Int
      /\ \A o \in offered : Sum(o.row) \in Int
  BY <1>2, <1>4, SumFacts
<1>6. \A o \in offered : Sum(o.row) <= Sum(t.row)
  <2>1. \A o \in offered \ {t} : EP!Fitter(t, o)
    BY <1>3 DEF Leads
  <2>2. \A o \in offered \ {t} : Sum(o.row) <= Sum(t.row)
    BY <1>2, <1>4, <1>5, <2>1, FitterFacts
  <2> QED BY <1>5, <2>2
<1>7. m \in Places(pop)' /\ Places(pop) \subseteq Places(pop)'
  <2>1. /\ pop \in Seq(offered \cup {m}) /\ m \in offered \cup {m}
        /\ Len(pop) \in Nat /\ DOMAIN pop = 1 .. Len(pop)
    BY PopFacts
  <2>2. /\ DOMAIN pop' = 1 .. Len(pop) + 1 /\ pop'[Len(pop) + 1] = m
        /\ \A i \in 1 .. Len(pop) : pop'[i] = pop[i]
    BY <2>1, AppendProperties, LenProperties
  <2>3. \A i \in 1 .. Len(pop) : i \in DOMAIN pop'
    BY <2>1, <2>2
  <2>4. Len(pop) + 1 \in DOMAIN pop'
    BY <2>1, <2>2
  <2> QED BY <2>1, <2>2, <2>3, <2>4 DEF Places
<1>8. ASSUME BlurOf(offered') = 0
      PROVE  /\ t \in members
             /\ \A x \in members \cup {m}, y \in members \cup {m} :
                  /\ Beats(x, y) => Sum(y.row) < Sum(x.row)
                  /\ Same(x, y) => Sum(x.row) = Sum(y.row)
  <2>1. offered' \subseteq Candidates(Nat) /\ offered # {}
    BY <1>1, <1>2, <1>3
  <2>2. /\ BlurOf(offered) = 0
        /\ \A o \in offered' : \A c \in Cells : o.sd[c] = 0
    BY <1>1, <1>2, <1>8, <2>1, NoNoise
  <2>3. t \in members
    BY <1>3, <2>2 DEF Leads
  <2>4. members \cup {m} \subseteq offered'
    BY <1>1, <1>2
  <2> QED BY <2>1, <2>2, <2>3, <2>4, BeatsFacts
<1>9. CASE Sum(m.row) > Sum(t.row)
  <2>1. ASSUME BlurOf(offered') = 0 PROVE m \in members'
    <3>1. ASSUME NEW cur \in members, Beats(cur, m) \/ Same(cur, m)
          PROVE  FALSE
      <4>1. Sum(m.row) <= Sum(cur.row) /\ Sum(cur.row) <= Sum(t.row)
        BY <1>2, <1>5, <1>6, <1>8, <2>1, <3>1
      <4> QED BY <1>2, <1>5, <1>9, <4>1
    <3>2. ~ Refused(members, m)
      BY <3>1 DEF Refused
    <3> QED BY <1>1, <3>2 DEF AddNoiseAware
  <2>2. \A o \in offered' \ {m} : EP!Fitter(m, o)
    BY <1>1, <1>2, <1>5, <1>6, <1>9, FitterFacts
  <2> QED BY <1>1, <1>7, <2>1, <2>2 DEF Led, Leads
<1>10. CASE ~ (Sum(m.row) > Sum(t.row))
  <2>1. ASSUME BlurOf(offered') = 0 PROVE t \in members'
    <3>1. ~ Beats(m, t)
      BY <1>5, <1>8, <1>10, <2>1
    <3> QED BY <1>1, <1>8, <2>1, <3>1 DEF AddNoiseAware, Evicted
  <2>2. EP!Fitter(t, m)
    BY <1>2, <1>4, <1>5, <1>10, FitterFacts
  <2>3. t \in Places(pop)'
    BY <1>3, <1>7 DEF Leads
  <2>4. \A o \in offered' \ {t} : EP!Fitter(t, o)
    BY <1>1, <1>3, <2>2 DEF Leads
  <2> QED BY <1>1, <2>1, <2>3, <2>4 DEF Led, Leads
<1> QED BY <1>9, <1>10

\* A birth carried out: a child raised, or one cut short.
LEMMA EPRaiseKeeps ==
  ASSUME EPInv, InBirth, EP!RaiseChild, UNCHANGED seq
  PROVE  /\ Data(EP!Ids)' /\ LoopInv' /\ Taken' = Taken \cup {seq} /\ Flags'
         /\ pop' \in Seq(offered') /\ pop' # <<>> /\ DistinctIds(pop)'
         /\ \A b : Held(b) => Held(b)'
         /\ Led'
         /\ at' \in {"finish", IF at = "seedling" THEN "seed" ELSE "breed"}
<1>1. Data(EP!Ids)' /\ LoopInv' /\ Taken' = Taken \cup {seq}
  <2>1. /\ EP!Ids \in SUBSET Nat /\ seq \in EP!Ids /\ seq \notin Taken
        /\ Data(EP!Ids) /\ LoopInv
    BY EPNumbers, EPParameters DEF EPInv, EPType
  <2>2. (\E m \in Candidates({seq}) : Raise(m)) \/ CutShort(seq)
    BY EPRaiseFacts
  <2> QED BY <2>1, <2>2, OneChild
<1>2. Flags'
  <2>1. budget' \in Budgets /\ cancelled' \in BOOLEAN
    BY EPRaiseFacts, CellCount, UnitFacts DEF EPInv, EPType, Flags
  <2>2. reason' \in Reason /\ valveFired' \in BOOLEAN
    BY EPRaiseFacts DEF EPInv, EPType, Flags, Reason
  <2> QED BY <2>1, <2>2 DEF Flags
<1>3. at' \in {"finish", IF at = "seedling" THEN "seed" ELSE "breed"}
  BY EPRaiseFacts
<1>4. pop # <<>> /\ DistinctIds(pop) /\ Led
  BY DEF EPInv, Populated
<1>5. CASE CutShort(seq) /\ UNCHANGED pop
  <2>1. UNCHANGED <<members, offered>>
    BY <1>5 DEF CutShort
  <2>2. pop' \in Seq(offered') /\ DistinctIds(pop)' /\ Led'
    BY <1>4, <1>5, <2>1, PopFacts DEF DistinctIds, Led, Leads, Places
  <2>3. \A b : Held(b) => Held(b)'
    BY <1>5 DEF Held
  <2> QED BY <1>1, <1>2, <1>3, <1>4, <1>5, <2>2, <2>3
<1>6. CASE \E m \in Candidates({seq}) : Raise(m) /\ pop' = Append(pop, m)
  <2>1. PICK m \in Candidates({seq}) : Raise(m) /\ pop' = Append(pop, m)
    BY <1>6
  <2>2. offered' = offered \cup {m} /\ m.id = seq
    BY <2>1 DEF Raise, Offered, Candidates
  <2>3. /\ pop \in Seq(offered') /\ m \in offered'
        /\ Len(pop) \in Nat /\ DOMAIN pop = 1 .. Len(pop)
        /\ \A i \in DOMAIN pop : pop[i].id \in Taken
    BY <2>2, PopFacts
  <2>4. /\ pop' \in Seq(offered') /\ pop' # <<>>
        /\ DOMAIN pop' = 1 .. Len(pop) + 1 /\ pop'[Len(pop) + 1] = m
        /\ \A i \in 1 .. Len(pop) : pop'[i] = pop[i]
    BY <2>1, <2>3, AppendProperties, LenProperties
  <2>5. DistinctIds(pop)'
    <3> SUFFICES ASSUME NEW i \in 1 .. Len(pop) + 1, NEW j \in 1 .. Len(pop) + 1,
                        pop'[i].id = pop'[j].id
                 PROVE  i = j
      BY <2>4 DEF DistinctIds
    <3>1. seq \notin Taken
      BY EPNumbers
    <3>2. CASE i \in 1 .. Len(pop) /\ j \in 1 .. Len(pop)
      BY <1>4, <2>3, <2>4, <3>2 DEF DistinctIds
    <3>3. CASE i = Len(pop) + 1 \/ j = Len(pop) + 1
      <4>1. \A k \in 1 .. Len(pop) : pop'[k].id # seq
        BY <2>3, <2>4, <3>1
      <4>2. pop'[Len(pop) + 1].id = seq
        BY <2>2, <2>4
      <4> QED BY <2>3, <3>3, <4>1, <4>2
    <3> QED BY <2>3, <3>2, <3>3
  <2>6. \A b : Held(b) => Held(b)'
    <3>1. \A i \in DOMAIN pop : i \in DOMAIN pop' /\ pop'[i] = pop[i]
      BY <2>3, <2>4
    <3> QED BY <3>1 DEF Held
  <2>7. Led'
    BY <2>1, RaiseKeepsLead
  <2> QED BY <1>1, <1>2, <1>3, <2>4, <2>5, <2>6, <2>7
<1> QED BY <1>5, <1>6, EPRaiseFacts

LEMMA EPInit ==
  ASSUME EP!Init
  PROVE  EPInv
<1>1. /\ NewLoop("seed")
      /\ variant \in {"ga", "de"}
      /\ \E m \in members : pop = <<m>>
      /\ tries = 0 /\ births = <<>> /\ seq = 0
  BY SameEP DEF EP!Init
<1>2. 0 \in EP!Ids /\ EP!Ids \subseteq Nat
  BY EPParameters
<1>3. /\ at = "seed" /\ round = 0 /\ Taken = {0}
      /\ \E m \in Candidates({0}) : members = {m} /\ offered = {m}
      /\ Data(EP!Ids) /\ Flags /\ Rounds /\ LoopInv
  BY <1>1, <1>2, NewLoopFacts
<1>4. PICK m \in Candidates({0}) : members = {m} /\ offered = {m}
  BY <1>3
<1>5. pop = <<m>> /\ pop \in Seq(offered) /\ Len(births) = 0
  BY <1>1, <1>4
<1>6. EPType
  BY <1>1, <1>2, <1>3, <1>5, EPParameters
     DEF EPType, EP!EvoType, EP!ChildrenPerGeneration
<1>7. EPIds
  BY <1>1, <1>3 DEF EPIds, IdsUpTo, InBirth
<1>8. Ledger
  BY <1>1, <1>3, <1>5 DEF Ledger, InBirth, BirthRecords
<1>9. Populated
  BY <1>1, <1>3, <1>5 DEF Populated, DistinctIds
<1>10. Led
  BY <1>4, <1>5 DEF Led, Leads, Places
<1> QED BY <1>3, <1>6, <1>7, <1>8, <1>9, <1>10 DEF EPInv

\* Seed variants are tried one after the other; then the seeds are ranked.
LEMMA EPSeedStep ==
  ASSUME EPInv, EP!Seed
  PROVE  EPKept
<1>1. /\ at = "seed" /\ ~ InBirth /\ at \notin Ends
      /\ UNCHANGED <<round, rounds, frontierVars, cancelled, variant, births>>
      /\ valveFired' \in {valveFired, TRUE}
  BY EPSeedFacts DEF InBirth, Ends
<1>2. /\ budget \in Budgets /\ reason \in Reason /\ valveFired \in BOOLEAN
      /\ cancelled \in BOOLEAN /\ round \in 0 .. MaxRounds
      /\ rounds \in 0 .. round /\ tries \in 0 .. PopulationSize - 1
      /\ births = <<>> /\ round = 0 /\ seq + 0 <= tries + 2 * round + 0
      /\ Len(births) = 0 /\ births \in Seq(BirthRecords)
  BY <1>1 DEF EPInv, EPType, Flags, Rounds, EP!EvoType, Ledger
<1>3. CASE pop' = EP!Truncated /\ at' = "gate" /\ UNCHANGED <<budget, reason, tries, seq>>
  <2>1. LoopInv' /\ Taken' = Taken /\ Data(EP!Ids)'
    BY <1>1, FrameKeeps DEF EPInv, EPType
  <2>2. Flags' /\ Rounds'
    BY <1>1, <1>2, <1>3 DEF Flags, Rounds
  <2>3. EPType'
    BY <1>1, <1>3, <2>1, <2>2, TruncationKeeps
       DEF EPInv, EPType, EP!EvoType, EP!Ids, EP!MaxSeq, EP!ChildrenPerGeneration
  <2>4. EPIds'
    BY <1>1, <1>3, <2>1 DEF EPInv, EPIds, IdsUpTo, InBirth
  <2>5. Ledger'
    BY <1>1, <1>2, <1>3 DEF EPInv, Ledger, InBirth
  <2>6. Populated' /\ Led'
    BY <1>1, <1>2, <1>3, TruncationKeeps DEF Populated
  <2> QED BY <2>1, <2>3, <2>4, <2>5, <2>6 DEF EPKept
<1>4. CASE ~ (pop' = EP!Truncated /\ at' = "gate"
                 /\ UNCHANGED <<budget, reason, tries, seq>>)
  <2>1. /\ tries < PopulationSize - 1 /\ UNCHANGED pop
        /\ UNCHANGED budget \/ StageRefused \/ StageFailed \/ StageDone
        /\ \/ /\ at' = "finish" /\ reason' \in {"aborted", "budget_stopped"}
              /\ UNCHANGED <<tries, seq>>
           \/ at' = "seed" /\ tries' = tries + 1 /\ UNCHANGED <<reason, seq>>
           \/ /\ at' = "seedling" /\ seq' = seq + 1
              /\ UNCHANGED <<reason, tries>>
    BY <1>4, EPSeedFacts
  <2>2. budget' \in Budgets
    BY <1>2, <2>1, StageFacts
  <2>3. reason' \in Reason
    BY <1>2, <2>1 DEF Reason
  <2>4. tries' \in 0 .. PopulationSize - 1
    BY <1>2, <2>1, EPParameters
  <2>5. /\ at' \in {"seed", "seedling"} \cup Ends
        /\ InBirth' <=> at' = "seedling"
        /\ seq' \in {seq, seq + 1}
        /\ InBirth' => seq' = seq + 1
        /\ ~ InBirth' => seq' = seq
    BY <2>1 DEF Ends, InBirth
  <2>6. Ledger'
    <3>1. at' \notin Ends =>
            seq' + Len(births') <= tries' + 2 * round' + (IF InBirth' THEN 1 ELSE 0)
      <4>1. seq \in Nat /\ tries \in Nat
        BY EPNumbers
      <4> QED BY <1>1, <1>2, <2>1, <2>5, <4>1 DEF Ends
    <3>2. at' # "child" /\ at' # "gate"
      BY <2>5 DEF Ends
    <3>3. at' = "seedling" => tries' < PopulationSize - 1
      BY <2>1
    <3>4. births' = <<>> /\ round' = 0 /\ births' \in Seq(BirthRecords)
      BY <1>1, <1>2
    <3> QED BY <3>1, <3>2, <3>3, <3>4 DEF Ledger
  <2>7. \A i \in DOMAIN births' : Held(births'[i])
    BY <1>1, <1>2
  <2>8. Len(births') <= 2 /\ births' \in Seq(BirthRecords)
    BY <1>1, <1>2
  <2> QED BY <1>1, <1>2, <2>1, <2>2, <2>3, <2>4, <2>5, <2>6, <2>7, <2>8,
             EPQuietStep
<1> QED BY <1>3, <1>4

LEMMA EPSeedlingStep ==
  ASSUME EPInv, EP!Seedling
  PROVE  EPKept
<1>1. /\ at = "seedling" /\ InBirth /\ EP!RaiseChild /\ tries' = tries + 1
      /\ UNCHANGED <<round, rounds, variant, births, seq>>
  BY DEF EP!Seedling, InBirth
<1>2. at' \in {"finish", "seed"} /\ ~ InBirth' /\ at \notin Ends
  BY <1>1, EPRaiseKeeps DEF InBirth, Ends
<1>3. /\ births = <<>> /\ round = 0 /\ births \in Seq(BirthRecords)
      /\ tries < PopulationSize - 1
  BY <1>1 DEF EPInv, Ledger
<1>4. tries' \in 0 .. PopulationSize - 1
  BY <1>1, <1>3, EPNumbers, EPParameters
<1>5. EPType'
  BY <1>1, <1>2, <1>4, EPRaiseKeeps
     DEF EPInv, EPType, Ends, Rounds, EP!EvoType, EP!Ids, EP!MaxSeq,
         EP!ChildrenPerGeneration
<1>6. EPIds'
  <2>1. seq \in 0 .. seq /\ Taken \subseteq 0 .. seq
    BY EPNumbers
  <2>2. Taken' = Taken \cup {seq}
    BY <1>1, EPRaiseKeeps
  <2> QED BY <1>1, <1>2, <2>1, <2>2 DEF EPIds, IdsUpTo
<1>7. Ledger'
  <2>1. seq' + Len(births') <= tries' + 2 * round'
    BY <1>1, <1>2, EPNumbers
  <2> QED BY <1>1, <1>2, <1>3, <2>1 DEF Ledger
<1>8. Populated'
  BY <1>1, <1>2, <1>3, EPRaiseKeeps DEF Populated
<1> QED BY <1>1, <1>5, <1>6, <1>7, <1>8, EPRaiseKeeps DEF EPKept

\* The births a generation plans.
LEMMA EPGateStep ==
  ASSUME EPInv, EP!Gate
  PROVE  EPKept
<1>1. /\ at = "gate" /\ ~ InBirth /\ at \notin Ends
      /\ UNCHANGED <<frontierVars, budget, cancelled, variant, pop, tries, seq>>
      /\ valveFired' \in {valveFired, TRUE}
  BY EPGateFacts DEF InBirth, Ends
<1>2. /\ budget \in Budgets /\ reason \in Reason /\ cancelled \in BOOLEAN
      /\ round \in 0 .. MaxRounds /\ rounds \in 0 .. round
      /\ tries \in 0 .. PopulationSize - 1 /\ births = <<>>
      /\ Len(births) <= 2 /\ births \in Seq(BirthRecords)
  BY <1>1 DEF EPInv, EPType, Flags, Rounds, EP!EvoType, Ledger
<1>3. CASE at' = "finish"
  <2>1. /\ UNCHANGED <<round, rounds, births>> /\ reason' \in Reason
        /\ at' \in Ends /\ ~ InBirth'
    BY <1>3, EPGateFacts DEF Reason, Ends, InBirth
  <2>2. Ledger'
    BY <1>1, <1>2, <1>3, <2>1 DEF Ledger
  <2>3. /\ \A i \in DOMAIN births' : Held(births'[i])
        /\ rounds' \in 0 .. round' /\ round' \in 0 .. MaxRounds
        /\ tries' \in 0 .. PopulationSize - 1
        /\ Len(births') <= 2 /\ births' \in Seq(BirthRecords)
    BY <1>1, <1>2, <2>1
  <2> QED BY <1>1, <1>2, <2>1, <2>2, <2>3, EPQuietStep
<1>4. CASE at' # "finish"
  <2>1. /\ at' = "breed" /\ UNCHANGED reason /\ ~ InBirth'
        /\ round # MaxRounds /\ round' = round + 1 /\ rounds' = round'
        /\ births' \in EP!Plans
    BY <1>4, EPGateFacts DEF InBirth
  <2>2. /\ births' \in Seq(BirthRecords) /\ Len(births') = 2
        /\ \A i \in DOMAIN births' : Held(births'[i])
    BY <2>1, PlanFacts
  <2>3. /\ round' \in 0 .. MaxRounds /\ rounds' \in 0 .. round'
    BY <1>2, <2>1, EPNumbers, EPParameters
  <2>4. Ledger'
    <3>1. seq' + Len(births') <= tries' + 2 * round' + 0
      BY <1>1, <1>2, <2>1, <2>2, EPNumbers
    <3> QED BY <2>1, <2>2, <3>1 DEF Ledger
  <2>5. /\ tries' \in 0 .. PopulationSize - 1 /\ budget' \in Budgets
        /\ cancelled' \in {cancelled, TRUE} /\ reason' \in Reason
        /\ seq' = seq /\ Len(births') <= 2
    BY <1>1, <1>2, <2>1, <2>2
  <2> QED BY <1>1, <2>1, <2>2, <2>3, <2>4, <2>5, EPQuietStep
<1> QED BY <1>3, <1>4

LEMMA EPBreedStep ==
  ASSUME EPInv, EP!Breed
  PROVE  EPKept
<1>1. /\ at = "breed" /\ ~ InBirth /\ at \notin Ends
      /\ UNCHANGED <<round, rounds, frontierVars, cancelled, variant, tries>>
      /\ valveFired' \in {valveFired, TRUE}
  BY EPBreedFacts DEF InBirth, Ends
<1>2. /\ budget \in Budgets /\ reason \in Reason /\ cancelled \in BOOLEAN
      /\ valveFired \in BOOLEAN
      /\ round \in 0 .. MaxRounds /\ rounds \in 0 .. round
      /\ tries \in 0 .. PopulationSize - 1
      /\ Len(births) <= 2 /\ births \in Seq(BirthRecords)
      /\ \A i \in DOMAIN births : Held(births[i])
  BY DEF EPInv, EPType, Flags, Rounds, EP!EvoType, EP!ChildrenPerGeneration,
         Ledger, Populated
<1>3. CASE births # <<>>
  <2>1. /\ UNCHANGED pop
        /\ StageRefused \/ StageFailed \/ StageDone
        /\ \/ /\ at' = "finish" /\ reason' = "budget_stopped"
              /\ UNCHANGED <<births, seq>>
           \/ /\ at' = "breed" /\ births' = Tail(births)
              /\ UNCHANGED <<reason, seq>>
           \/ /\ at' = "child" /\ seq' = seq + 1
              /\ UNCHANGED <<reason, births>>
    BY <1>3, EPBreedFacts
  <2>2. budget' \in Budgets
    BY <1>2, <2>1, StageFacts
  <2>3. reason' \in Reason
    BY <1>2, <2>1 DEF Reason
  <2>4. /\ Tail(births) \in Seq(BirthRecords)
        /\ Len(Tail(births)) = Len(births) - 1
        /\ DOMAIN Tail(births) = 1 .. Len(births) - 1
        /\ DOMAIN births = 1 .. Len(births)
        /\ \A i \in 1 .. Len(births) - 1 : Tail(births)[i] = births[i + 1]
    BY <1>2, <1>3, HeadTailProperties, LenProperties
  <2>5. Len(births) \in Nat
    BY EPNumbers
  <2>6. /\ births' \in Seq(BirthRecords) /\ Len(births') <= 2
        /\ \A i \in DOMAIN births' : Held(births'[i])
    <3>1. CASE births' = births
      BY <1>2, <3>1
    <3>2. CASE births' = Tail(births)
      <4>1. \A i \in 1 .. Len(births) - 1 : i + 1 \in DOMAIN births
        BY <2>4, <2>5
      <4>2. \A i \in DOMAIN Tail(births) : Held(Tail(births)[i])
        BY <1>2, <2>4, <4>1
      <4> QED BY <1>2, <2>4, <2>5, <3>2, <4>2
    <3> QED BY <2>1, <3>1, <3>2
  <2>7. /\ at' \in {"breed", "child"} \cup Ends
        /\ InBirth' <=> at' = "child"
        /\ seq' \in {seq, seq + 1}
        /\ InBirth' => seq' = seq + 1
        /\ ~ InBirth' => seq' = seq
    BY <2>1 DEF Ends, InBirth
  <2>8. Ledger'
    <3>1. at' \notin Ends =>
            seq' + Len(births') <= tries' + 2 * round' + (IF InBirth' THEN 1 ELSE 0)
      BY <1>1, <2>1, <2>4, <2>5, <2>7, EPNumbers DEF Ends
    <3>2. at' \notin {"seed", "seedling", "gate"}
      BY <2>7 DEF Ends
    <3>3. at' = "child" => births' # <<>>
      BY <1>3, <2>1
    <3> QED BY <2>6, <3>1, <3>2, <3>3 DEF Ledger
  <2>9. /\ round' \in 0 .. MaxRounds /\ rounds' \in 0 .. round'
        /\ tries' \in 0 .. PopulationSize - 1
        /\ cancelled' \in {cancelled, TRUE}
    BY <1>1, <1>2
  <2> QED BY <1>1, <2>1, <2>2, <2>3, <2>6, <2>7, <2>8, <2>9, EPQuietStep
<1>4. CASE births = <<>>
  <2>1. /\ pop' = EP!Truncated /\ UNCHANGED <<budget, births, seq>>
        /\ \/ at' = "finish" /\ reason' = "budget_stopped"
           \/ at' = "gate" /\ UNCHANGED reason
    BY <1>4, EPBreedFacts
  <2>2. LoopInv' /\ Taken' = Taken /\ Data(EP!Ids)'
    BY <1>1, FrameKeeps DEF EPInv, EPType
  <2>3. Flags' /\ Rounds'
    <3>1. reason' \in Reason /\ valveFired' \in BOOLEAN
      BY <1>1, <1>2, <2>1 DEF Reason
    <3> QED BY <1>1, <1>2, <2>1, <3>1 DEF Flags, Rounds
  <2>4. at' \in {"gate"} \cup Ends /\ ~ InBirth' /\ at' \notin {"seed", "seedling", "child"}
    BY <2>1 DEF Ends, InBirth
  <2>5. EPType'
    BY <1>1, <2>1, <2>2, <2>3, <2>4, TruncationKeeps
       DEF EPInv, EPType, EP!EvoType, EP!Ids, EP!MaxSeq, EP!ChildrenPerGeneration
  <2>6. EPIds'
    BY <1>1, <2>1, <2>2, <2>4 DEF EPInv, EPIds, IdsUpTo
  <2>7. Ledger'
    BY <1>1, <1>4, <2>1, <2>4 DEF EPInv, Ledger
  <2>8. Populated' /\ Led'
    <3>1. births' = <<>>
      BY <1>4, <2>1
    <3> QED BY <1>1, <2>1, <3>1, TruncationKeeps DEF Populated
  <2> QED BY <2>2, <2>5, <2>6, <2>7, <2>8 DEF EPKept
<1> QED BY <1>3, <1>4

LEMMA EPChildStep ==
  ASSUME EPInv, EP!Child
  PROVE  EPKept
<1>1. /\ at = "child" /\ InBirth /\ EP!RaiseChild /\ births' = Tail(births)
      /\ UNCHANGED <<round, rounds, variant, tries, seq>>
  BY DEF EP!Child, InBirth
<1>2. at' \in {"finish", "breed"} /\ ~ InBirth' /\ at \notin Ends
  BY <1>1, EPRaiseKeeps DEF InBirth, Ends
<1>3. /\ births # <<>> /\ births \in Seq(BirthRecords)
      /\ \A i \in DOMAIN births : Held(births[i])
      /\ Len(births) <= 2
  BY <1>1 DEF EPInv, EPType, EP!EvoType, EP!ChildrenPerGeneration, Ledger,
              Populated
<1>4. /\ births' \in Seq(BirthRecords) /\ Len(births') = Len(births) - 1
      /\ DOMAIN births' = 1 .. Len(births) - 1
      /\ DOMAIN births = 1 .. Len(births)
      /\ \A i \in 1 .. Len(births) - 1 : births'[i] = births[i + 1]
  BY <1>1, <1>3, HeadTailProperties, LenProperties
<1>5. Len(births) \in Nat
  BY EPNumbers
<1>6. EPType'
  <2>1. Len(births') <= 2
    BY <1>3, <1>4, <1>5
  <2> QED BY <1>1, <1>2, <2>1, EPRaiseKeeps
          DEF EPInv, EPType, Ends, Rounds, EP!EvoType, EP!Ids, EP!MaxSeq,
              EP!ChildrenPerGeneration
<1>7. EPIds'
  <2>1. seq \in 0 .. seq /\ Taken \subseteq 0 .. seq
    BY EPNumbers
  <2>2. Taken' = Taken \cup {seq}
    BY <1>1, EPRaiseKeeps
  <2> QED BY <1>1, <1>2, <2>1, <2>2 DEF EPIds, IdsUpTo
<1>8. Ledger'
  <2>1. seq' + Len(births') <= tries' + 2 * round' + 0
    BY <1>1, <1>2, <1>4, <1>5, EPNumbers
  <2>2. at' \notin {"seed", "seedling", "gate", "child"}
    BY <1>2
  <2>3. births' \in Seq(BirthRecords)
    BY <1>4
  <2> QED BY <1>2, <2>1, <2>2, <2>3 DEF Ledger
<1>9. Populated'
  <2>1. \A i \in 1 .. Len(births) - 1 : i + 1 \in DOMAIN births
    BY <1>4, <1>5
  <2>2. \A i \in DOMAIN births' : Held(births'[i])
    BY <1>3, <1>4, <2>1
  <2>3. (\A i \in DOMAIN births : Held(births[i]))'
    <3>1. \A b : Held(b) => Held(b)'
      BY <1>1, EPRaiseKeeps
    <3> QED BY <2>2, <3>1 DEF Held
  <2> QED BY <1>1, <1>2, <1>4, <2>3, EPRaiseKeeps DEF Populated
<1> QED BY <1>1, <1>6, <1>7, <1>8, <1>9, EPRaiseKeeps DEF EPKept

LEMMA EPStep ==
  ASSUME EPInv, EP!Next
  PROVE  EPInv'
<1>1. CASE (EP!Finish \/ EP!Cancel \/ EP!Fails({"seedling", "child"}))
             /\ UNCHANGED EP!evoVars
  <2>1. /\ budget \in Budgets /\ reason \in Reason
        /\ round \in 0 .. MaxRounds /\ rounds \in 0 .. round
        /\ tries \in 0 .. PopulationSize - 1
        /\ Len(births) <= 2 /\ births \in Seq(BirthRecords)
        /\ \A i \in DOMAIN births : Held(births[i])
    BY DEF EPInv, EPType, Flags, Rounds, EP!EvoType, EP!ChildrenPerGeneration,
           Ledger, Populated
  <2>2. /\ UNCHANGED <<round, frontierVars, budget, valveFired, reason, rounds,
                       variant, pop, tries, births, seq>>
        /\ cancelled' \in {cancelled, TRUE}
        /\ at' = at \/ at' \in Ends
    BY <1>1, EPRestFacts DEF Ends
  <2>3. at' \in {at} \cup Ends /\ (at' \notin Ends => at' = at)
    BY <2>2
  <2>4. /\ InBirth' => InBirth
        /\ at' \notin Ends => at \notin Ends /\ (InBirth => InBirth')
    BY <2>2 DEF Ends, InBirth
  <2>5. Ledger'
    BY <2>2 DEF EPInv, Ledger, InBirth, Ends
  <2>6. /\ round' \in 0 .. MaxRounds /\ rounds' \in 0 .. round'
        /\ tries' \in 0 .. PopulationSize - 1 /\ budget' \in Budgets
        /\ reason' \in Reason /\ Len(births') <= 2
        /\ births' \in Seq(BirthRecords)
        /\ \A i \in DOMAIN births' : Held(births'[i])
    BY <2>1, <2>2
  <2> QED BY <2>2, <2>3, <2>4, <2>5, <2>6, EPQuietStep DEF EPKept, EPInv
<1> QED BY <1>1, EPSeedStep, EPSeedlingStep, EPGateStep, EPBreedStep, EPChildStep
        DEF EP!Next, EPKept, EPInv

\* Measured without noise, the leader is the frontier's best by mean: both
\* orders are by mean and then by id.
LEMMA LeaderIsBest ==
  ASSUME EPInv, NEW t \in offered, Leads(t), BlurOf(offered) = 0
  PROVE  t = ByMean(members)
<1>1. /\ members \subseteq Candidates(Nat) /\ Choosable(members)
      /\ members \subseteq offered /\ t \in members
  <2>1. /\ members \subseteq offered /\ offered \subseteq Candidates(Nat)
        /\ IsFiniteSet(members) /\ t \in members
    BY PopFacts, FS_Subset DEF EPInv, EPType, Data, LoopInv, Delivers, Leads
  <2> QED BY <2>1 DEF Choosable, EPInv, LoopInv, Delivers
<1>2. ASSUME NEW y \in members \ {t}
      PROVE  Before(t, <<Sum(t.row)>>, y, <<Sum(y.row)>>)
  <2>1. EP!Fitter(t, y)
    BY <1>1 DEF Leads
  <2>2. \/ Sum(t.row) > Sum(y.row)
        \/ Sum(t.row) = Sum(y.row) /\ t.id < y.id
    BY <1>1, <2>1, FitterFacts
  <2> QED BY <2>2 DEF Before
<1> QED BY <1>1, <1>2, MeanFacts

LEMMA EPConsequences ==
  ASSUME EPInv
  PROVE  EP!TypeOK /\ EP!PopulationSound
<1>1. EP!LoopType(EP!Ids)
  BY SameEP, LoopTypeParts DEF EPInv, EPType
<1>2. EP!TypeOK
  BY <1>1 DEF EPInv, EPType, Ends, EP!TypeOK
<1>3. Blur = BlurOf(offered)
  BY DEF Blur, BlurOf, Noise, NoiseOf
<1>4. ASSUME at = "gate"
      PROVE  /\ \A o \in offered \ {pop[1]} : EP!Fitter(pop[1], o)
             /\ \E m \in members : Within(pop[1].row, m.row, Blur)
             /\ Blur = 0 => pop[1] = ByMean(members)
  <2>1. PICK t \in offered : Leads(t)
    BY DEF EPInv, Led
  <2>2. pop # <<>> /\ \A x \in Places(pop) \ {pop[1]} : EP!Fitter(pop[1], x)
    BY <1>4 DEF EPInv, Populated
  <2>3. 1 \in DOMAIN pop /\ pop[1] \in Places(pop)
    <3>1. Len(pop) \in Nat \ {0}
      BY <2>2, PopFacts, EmptySeq
    <3> QED BY <3>1, PopFacts DEF Places
  <2>4. pop[1] \in offered /\ offered \subseteq Candidates(Nat)
    BY <2>3, PopFacts
  <2>5. t = pop[1]
    <3> SUFFICES ASSUME t # pop[1] PROVE FALSE
      OBVIOUS
    <3>1. EP!Fitter(t, pop[1]) /\ EP!Fitter(pop[1], t)
      BY <2>1, <2>2, <2>4 DEF Leads
    <3> QED BY <2>4, <3>1, FitterFacts
  <2>6. \A o \in offered \ {pop[1]} : EP!Fitter(pop[1], o)
    BY <2>1, <2>5 DEF Leads
  <2>7. \E m \in members : Within(pop[1].row, m.row, Blur)
    BY <1>3, <2>4 DEF EPInv, LoopInv, Delivers, CoveredBy
  <2> QED BY <1>3, <2>1, <2>5, <2>6, <2>7, LeaderIsBest
<1>5. EP!PopulationSound
  BY <1>4, SameEP DEF EPInv, Populated, DistinctIds, Held, EP!PopulationSound
<1> QED BY <1>2, <1>5

-----------------------------------------------------------------------------
(* The run: one optimiser's steps, the others' state at rest.                *)

RunInv ==
  /\ paradigm \in Registered \ {"gepa"} /\ auto \in BOOLEAN
  /\ paradigm = "protegi" => PTInv
  /\ paradigm = "evoprompt" => EPInv
  /\ paradigm = "miprov2" => MPInv
  /\ paradigm = "p1" => P1Inv
  /\ Idle

\* auto goes to ProTeGi only with a budget for the probes, the baseline and two
\* rounds (routeFeatures, tightBudgetEvals).
LEMMA RoutedWithBudget ==
  ASSUME NEW f \in TaskFeatures, Resolve("auto", f) = "protegi"
  PROVE  ~ TightBudget
<1>1. f.tightBudget <=> TightBudget
  BY DEF TaskFeatures
<1>2. f.tightBudget => RouteIntent(f) = "p1"
  BY DEF RouteIntent
<1>3. f.tightBudget => Route(f) = "p1"
  BY <1>2 DEF Route, Registered
<1> QED BY <1>1, <1>3 DEF Resolve

LEMMA RunInit ==
  ASSUME Init
  PROVE  RunInv
<1>1. PICK requested \in Registered \cup {"auto"}, f \in TaskFeatures :
        /\ paradigm = Resolve(requested, f)
        /\ auto = (requested = "auto")
  BY DEF Init
<1>2. paradigm \in Registered
  BY <1>1, Zenon DEF Resolve, Route, Registered
<1>3. auto \in BOOLEAN
  BY <1>1, Zenon
<1>4. paradigm # "gepa" /\ Idle
  BY DEF Init
<1>5. paradigm = "protegi" => PTInv
  <2>1. auto /\ paradigm = "protegi" => ~ TightBudget
    BY <1>1, RoutedWithBudget
  <2> QED BY <2>1, PTInit DEF Init
<1> QED BY <1>2, <1>3, <1>4, <1>5, EPInit, MPInit, P1Init DEF Init, RunInv

\* What the optimisers share, and each one's own.
LEMMA SharedStutter ==
  ASSUME UNCHANGED loopVars
  PROVE  /\ LoopInv = LoopInv' /\ Taken = Taken' /\ Flags = Flags'
         /\ Rounds = Rounds' /\ Stopped = Stopped'
         /\ \A ids : Data(ids) = Data(ids)'
         /\ \A n : IdsUpTo(n) = IdsUpTo(n)'
BY DEF loopVars, LoopInv, Explained, Delivers, OnlyWholeMembers, Taken, Flags,
       Rounds, Stopped, ValveTripped, Data, IdsUpTo

LEMMA PTStutter ==
  ASSUME PTInv, UNCHANGED <<loopVars, choiceVars, protegiVars>>
  PROVE  PTInv'
<1>1. PTType' /\ PTIds'
  BY SharedStutter
     DEF PTInv, PTType, PTIds, InArmRound, loopVars, protegiVars, PT!BanditType
<1>2. ArmBooks'
  BY DEF PTInv, ArmBooks, InArmRound, InTurn, PT!Selected, loopVars, protegiVars
<1>3. Afforded'
  BY SharedStutter
     DEF PTInv, Afforded, Spent, UsedAsReckoned, TwoRoundsAfforded, loopVars,
         choiceVars
<1> QED BY <1>1, <1>2, <1>3, SharedStutter DEF PTInv

LEMMA EPStutter ==
  ASSUME EPInv, UNCHANGED <<loopVars, evoVars>>
  PROVE  EPInv'
<1>1. EPType' /\ EPIds'
  BY SharedStutter
     DEF EPInv, EPType, EPIds, InBirth, loopVars, evoVars, EP!EvoType
<1>2. Ledger' /\ Populated' /\ Led'
  BY DEF EPInv, Ledger, InBirth, Populated, DistinctIds, Held, Places, Led,
         Leads, loopVars, evoVars
<1> QED BY <1>1, <1>2, SharedStutter DEF EPInv

LEMMA MPStutter ==
  ASSUME MPInv, UNCHANGED <<loopVars, jointVars>>
  PROVE  MPInv'
<1>1. MPType' /\ MPIds'
  BY SharedStutter
     DEF MPInv, MPType, MPIds, InPairRound, loopVars, jointVars,
         MP!MIPROv2Type
<1>2. Pairs'
  BY DEF MPInv, Pairs, InPairRound, loopVars, jointVars
<1> QED BY <1>1, <1>2, SharedStutter DEF MPInv

LEMMA P1Stutter ==
  ASSUME P1Inv, UNCHANGED <<loopVars, p1Vars>>
  PROVE  P1Inv'
<1>1. P1Type' /\ P1Ids'
  BY SharedStutter
     DEF P1Inv, P1Type, P1Ids, loopVars, p1Vars, P!P1Type
<1>2. Planned'
  BY DEF P1Inv, Planned, PlanApplies, ProbeSize, Later, Still, loopVars, p1Vars
<1> QED BY <1>1, <1>2, SharedStutter DEF P1Inv

LEMMA RunStutter ==
  ASSUME RunInv, UNCHANGED vars
  PROVE  RunInv'
<1>1. UNCHANGED <<loopVars, choiceVars, protegiVars, evoVars, jointVars, p1Vars>>
  BY DEF vars
<1>2. paradigm' = paradigm /\ auto' = auto
  BY <1>1 DEF choiceVars
<1>3. Idle'
  BY <1>1 DEF RunInv, Idle, choiceVars, protegiVars, evoVars, jointVars, p1Vars
<1> QED BY <1>1, <1>2, <1>3, PTStutter, EPStutter, MPStutter, P1Stutter
        DEF RunInv

LEMMA RunStep ==
  ASSUME RunInv, Next
  PROVE  RunInv'
<1>1. CASE RunProTeGi
  <2>1. /\ paradigm = "protegi" /\ PT!Next
        /\ UNCHANGED <<choiceVars, evoVars, jointVars, p1Vars>>
    BY <1>1 DEF RunProTeGi
  <2>2. PTInv'
    BY <2>1, PTStep DEF RunInv
  <2>3. Idle' /\ paradigm' = paradigm /\ auto' = auto
    BY <2>1 DEF RunInv, Idle, choiceVars, evoVars, jointVars, p1Vars
  <2> QED BY <2>1, <2>2, <2>3 DEF RunInv
<1>2. CASE RunEvoPrompt
  <2>1. /\ paradigm = "evoprompt" /\ EP!Next
        /\ UNCHANGED <<choiceVars, protegiVars, jointVars, p1Vars>>
    BY <1>2 DEF RunEvoPrompt
  <2>2. EPInv'
    BY <2>1, EPStep DEF RunInv
  <2>3. Idle' /\ paradigm' = paradigm /\ auto' = auto
    BY <2>1 DEF RunInv, Idle, choiceVars, protegiVars, jointVars, p1Vars
  <2> QED BY <2>1, <2>2, <2>3 DEF RunInv
<1>3. CASE RunMIPROv2
  <2>1. /\ paradigm = "miprov2" /\ MP!Next
        /\ UNCHANGED <<choiceVars, protegiVars, evoVars, p1Vars>>
    BY <1>3 DEF RunMIPROv2
  <2>2. MPInv'
    BY <2>1, MPStep DEF RunInv
  <2>3. Idle' /\ paradigm' = paradigm /\ auto' = auto
    BY <2>1 DEF RunInv, Idle, choiceVars, protegiVars, evoVars, p1Vars
  <2> QED BY <2>1, <2>2, <2>3 DEF RunInv
<1>4. CASE RunP1
  <2>1. /\ paradigm = "p1" /\ P!Next
        /\ UNCHANGED <<choiceVars, protegiVars, evoVars, jointVars>>
    BY <1>4 DEF RunP1
  <2>2. P1Inv'
    BY <2>1, P1Step DEF RunInv
  <2>3. Idle' /\ paradigm' = paradigm /\ auto' = auto
    BY <2>1 DEF RunInv, Idle, choiceVars, protegiVars, evoVars, jointVars
  <2> QED BY <2>1, <2>2, <2>3 DEF RunInv
<1>5. CASE Returned
  BY <1>5, RunStutter DEF Returned
<1> QED BY <1>1, <1>2, <1>3, <1>4, <1>5 DEF Next

\* RunInv is inductive.
THEOREM RunInvariant == Spec => []RunInv
<1>1. Init => RunInv
  BY RunInit
<1>2. RunInv /\ [Next]_vars => RunInv'
  BY RunStep, RunStutter
<1> QED BY <1>1, <1>2, PTL DEF Spec

\* The optimiser that runs keeps its state and the loop's, and the others'
\* state is at rest (router.go, internal/optimizers).
THEOREM TypeCorrect == Spec => []TypeOK
<1>1. RunInv => TypeOK
  BY PTConsequences, EPConsequences, MPConsequences, P1Consequences
     DEF RunInv, TypeOK
<1> QED BY <1>1, RunInvariant, PTL

\* A run's candidates, whichever optimiser runs.
LEMMA RunCandidates ==
  ASSUME RunInv
  PROVE  /\ LoopInv /\ offered \subseteq Candidates(Nat)
         /\ members \subseteq offered /\ Choosable(members)
<1>1. LoopInv
  BY DEF RunInv, Registered, PTInv, EPInv, MPInv, P1Inv
<1>2. \E ids \in SUBSET Nat : Data(ids)
  <2>1. paradigm = "protegi" => 0 .. MaxRounds \in SUBSET Nat /\ Data(0 .. MaxRounds)
    BY LoopAssumption DEF RunInv, PTInv, PTType
  <2>2. paradigm = "evoprompt" => EP!Ids \in SUBSET Nat /\ Data(EP!Ids)
    BY EPParameters DEF RunInv, EPInv, EPType
  <2>3. paradigm = "miprov2" => 0 .. MaxRounds \in SUBSET Nat /\ Data(0 .. MaxRounds)
    BY LoopAssumption DEF RunInv, MPInv, MPType
  <2>4. paradigm = "p1" => {0, 1} \in SUBSET Nat /\ Data({0, 1})
    BY DEF RunInv, P1Inv, P1Type
  <2> QED BY <2>1, <2>2, <2>3, <2>4 DEF RunInv, Registered
<1>3. offered \subseteq Candidates(Nat) /\ members \subseteq offered
  <2>1. PICK ids \in SUBSET Nat : Data(ids)
    BY <1>2
  <2> QED BY <2>1 DEF Data, Candidates
<1>4. Choosable(members)
  <2>1. /\ IsFiniteSet(offered) /\ members # {}
        /\ \A x, y \in offered : x.id = y.id => x = y
    BY <1>1 DEF LoopInv, Delivers
  <2>2. IsFiniteSet(members)
    BY <1>3, <2>1, FS_Subset
  <2> QED BY <1>3, <2>1, <2>2 DEF Choosable
<1> QED BY <1>1, <1>3, <1>4

\* Whichever optimiser runs, and however often it measures a sample: the lineage
\* explains the frontier, and nothing that was evaluated in full is better than
\* the deliverable, up to the measured noise and to what meeting the constraint
\* may cost (Loop.Admit, Loop.Finish).
THEOREM RunsExplainedHolds == Spec => []RunsExplained
<1>1. ASSUME RunInv PROVE RunsExplained
  <2>1. /\ LoopInv /\ offered \subseteq Candidates(Nat)
        /\ members \subseteq offered /\ Choosable(members)
    BY <1>1, RunCandidates
  <2>2. CoveredBy(offered, members)
    BY <2>1 DEF LoopInv, Delivers
  <2>3. Blur = BlurOf(offered) /\ Slack = Cardinality(Cells) * BlurOf(offered)
    BY DEF Slack, Blur, BlurOf, Noise, NoiseOf
  <2>4. ASSUME NEW o \in offered
        PROVE  \/ AtLeastAsGood(Best(members), o, Slack)
               \/ \E n \in members :
                    Constrained /\ n.rate < o.rate /\ Within(o.row, n.row, Blur)
    BY <2>1, <2>2, <2>3, CoveredIsDelivered
  <2>5. DeliversTheBest
    BY <2>4 DEF DeliversTheBest
  <2>6. MembersExplained
    BY <2>1 DEF LoopInv, Explained, MembersExplained, LineageExplainsFrontier
  <2> QED BY <2>5, <2>6 DEF RunsExplained
<1> QED BY <1>1, RunInvariant, PTL

\* ProTeGi tries its arms in turn.  EvoPrompt's population is headed by the
\* fittest of all that was offered, which the frontier matches up to the noise,
\* and it still has the parents a birth was planned with where the plan found
\* them (bandit.go, operators.go).
THEOREM BooksAgreeHolds == Spec => []BooksAgree
<1>1. RunInv => BooksAgree
  BY PTConsequences, EPConsequences DEF RunInv, BooksAgree
<1> QED BY <1>1, RunInvariant, PTL

\* MIPROv2 chooses between pairs on samples none of them demonstrates (the chosen
\* one is then evaluated on all of them), P1 keeps what the final evaluation
\* costs, and auto sends a run to ProTeGi only where the evaluation budget bears
\* two children (miprov2.go, p1.go, router.go).
THEOREM SpendsAsPlannedHolds == Spec => []SpendsAsPlanned
<1>1. RunInv => SpendsAsPlanned
  <2>1. TwoRoundsAfforded \/ paradigm = "protegi"
    BY DEF TwoRoundsAfforded
  <2>2. RunInv /\ paradigm = "protegi" => TwoRoundsAfforded
    BY DEF RunInv, PTInv, Afforded
  <2> QED BY <2>1, <2>2, MPConsequences, P1Consequences
          DEF RunInv, SpendsAsPlanned
<1> QED BY <1>1, RunInvariant, PTL

=============================================================================
