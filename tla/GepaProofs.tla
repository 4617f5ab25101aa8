----------------------------- MODULE GepaProofs -----------------------------
(***************************************************************************)
(* Theorems about Gepa for every set of samples and scores, every limit,   *)
(* and any number of rounds, hypotheses and repetitions.                   *)
(***************************************************************************)
EXTENDS Gepa, TLAPS, FiniteSetTheorems, WellFoundedInduction

-----------------------------------------------------------------------------
(* Finite sets of numbered candidates: sums over the cells, and the first of *)
(* an order.  The induction is over the set of sizes a fact holds of.        *)

\* Every nonempty set of numbers has a least element.
LEMMA LeastNumber ==
  ASSUME NEW T \in SUBSET Nat, T # {}
  PROVE  \E n \in T : \A m \in T : n <= m
<1>1. ASSUME NEW m \in Nat, NEW n \in Nat, m < n
      PROVE  <<m, n>> \in OpToRel(<, Nat)
  <2>1. <<m, n>>[1] < <<m, n>>[2] /\ <<m, n>> \in Nat \X Nat
    BY <1>1
  <2> QED BY <2>1, Zenon DEF OpToRel
<1>2. PICK n \in T : \A m \in T : <<m, n>> \notin OpToRel(<, Nat)
  BY NatLessThanWellFounded, WFMin
<1>3. \A m \in T : ~ (m < n)
  BY <1>1, <1>2, Zenon
<1> QED BY <1>3

\* Induction over the numbers, stated of the set it is to hold of.
LEMMA NumberInduction ==
  ASSUME NEW P \in SUBSET Nat, 0 \in P, \A n \in P : n + 1 \in P
  PROVE  P = Nat
<1> SUFFICES ASSUME Nat \ P # {} PROVE FALSE
  OBVIOUS
<1>1. PICK n \in Nat \ P : \A m \in Nat \ P : n <= m
  BY LeastNumber
<1>2. n # 0 /\ n - 1 \in Nat
  BY <1>1
<1>3. n - 1 \in P
  BY <1>1, <1>2
<1> QED BY <1>1, <1>2, <1>3

\* A nonempty part of a finite set is an element and a smaller part.
LEMMA OneLess ==
  ASSUME NEW S, IsFiniteSet(S), NEW T \in SUBSET S, NEW x \in T
  PROVE  /\ IsFiniteSet(T) /\ Cardinality(T) \in Nat
         /\ T \ {x} \in SUBSET S /\ Cardinality(T \ {x}) = Cardinality(T) - 1
BY FS_Subset, FS_CardinalityType, FS_RemoveElement

\* Only the empty part has no elements.
LEMMA Sizes ==
  ASSUME NEW S, IsFiniteSet(S)
  PROVE  \A T \in SUBSET S : /\ Cardinality(T) \in Nat
                             /\ Cardinality(T) = 0 <=> T = {}
                             /\ Cardinality(T) <= Cardinality(S)
BY FS_Subset, FS_CardinalityType, FS_EmptySet

\* The fold behind SumFunctionOnSet: at each set an element of its, and what
\* the fold gives for the rest.
Picked(s) == CHOOSE x \in s : TRUE
TallyAt(g, f, s) == IF s = {} THEN 0 ELSE f[Picked(s)] + g[s \ {Picked(s)}]
IsTally(g, f, S) == g = [s \in SUBSET S |-> TallyAt(g, f, s)]
Tally(f, S) == CHOOSE g : IsTally(g, f, S)

LEMMA PickedFrom ==
  ASSUME NEW S, IsFiniteSet(S), NEW T \in SUBSET S, T # {}
  PROVE  /\ Picked(T) \in T /\ T \ {Picked(T)} \in SUBSET S
         /\ Cardinality(T) \in Nat
         /\ Cardinality(T \ {Picked(T)}) = Cardinality(T) - 1
<1>1. Picked(T) \in T
  BY DEF Picked
<1> QED BY <1>1, OneLess

\* Every finite set has a tally: one that is right up to some size gives one
\* that is right up to the next.
LEMMA TallyExists ==
  ASSUME NEW S, IsFiniteSet(S), NEW f
  PROVE  \E g : IsTally(g, f, S)
<1> DEFINE Right(g, n) == \A T \in SUBSET S :
                            Cardinality(T) <= n => g[T] = TallyAt(g, f, T)
           P == {n \in Nat : \E g : Right(g, n)}
<1>1. 0 \in P
  <2>1. Right([T \in SUBSET S |-> 0], 0)
    BY Sizes DEF TallyAt
  <2> QED BY <2>1
<1>2. ASSUME NEW n \in P PROVE n + 1 \in P
  <2>1. PICK g : Right(g, n)
    OBVIOUS
  <2> DEFINE h == [T \in SUBSET S |-> TallyAt(g, f, T)]
  <2>2. ASSUME NEW T \in SUBSET S, Cardinality(T) <= n + 1
        PROVE  h[T] = TallyAt(h, f, T)
    <3>1. CASE T = {}
      BY <3>1 DEF TallyAt
    <3>2. CASE T # {}
      <4> DEFINE U == T \ {Picked(T)}
      <4>1. n \in Nat
        OBVIOUS
      <4>2. U \in SUBSET S /\ Cardinality(U) <= n
        BY <2>2, <3>2, <4>1, PickedFrom
      <4>3. h[U] = g[U]
        BY <2>1, <4>2
      <4> QED BY <3>2, <4>3 DEF TallyAt
    <3> QED BY <3>1, <3>2
  <2>3. Right(h, n + 1)
    BY <2>2
  <2> HIDE DEF h, Right
  <2>4. \E k : Right(k, n + 1)
    BY <2>3, Zenon
  <2>5. n + 1 \in Nat
    OBVIOUS
  <2> QED BY <2>4, <2>5, Zenon
<1> HIDE DEF P
<1>3. P = Nat
  BY <1>1, <1>2, NumberInduction DEF P
<1>4. PICK g : Right(g, Cardinality(S))
  BY <1>3, Sizes DEF P
<1>5. \A T \in SUBSET S : g[T] = TallyAt(g, f, T)
  BY <1>4, Sizes
<1> DEFINE h == [T \in SUBSET S |-> TallyAt(g, f, T)]
<1>6. \A T \in SUBSET S : h[T] = TallyAt(h, f, T)
  <2> SUFFICES ASSUME NEW T \in SUBSET S PROVE h[T] = TallyAt(h, f, T)
    OBVIOUS
  <2>1. CASE T = {}
    BY <2>1 DEF TallyAt
  <2>2. CASE T # {}
    <3>1. h[T \ {Picked(T)}] = g[T \ {Picked(T)}]
      BY <1>5, <2>2, PickedFrom
    <3> QED BY <2>2, <3>1 DEF TallyAt
  <2> QED BY <2>1, <2>2
<1>7. IsTally(h, f, S)
  BY <1>6 DEF IsTally
<1> QED BY <1>7

\* The sum is the tally of the whole set.
LEMMA SumOfTally ==
  ASSUME NEW S, IsFiniteSet(S), NEW f
  PROVE  /\ SumFunctionOnSet(f, S) = Tally(f, S)[S]
         /\ \A T \in SUBSET S : Tally(f, S)[T] = TallyAt(Tally(f, S), f, T)
<1>1. IsTally(Tally(f, S), f, S)
  BY TallyExists DEF Tally
<1>2. SumFunctionOnSet(f, S) = Tally(f, S)[S]
  BY DEF SumFunctionOnSet, FoldFunctionOnSet, MapThenFoldSet, Tally, IsTally,
         TallyAt, Picked
<1> QED BY <1>1, <1>2 DEF IsTally

\* Sums of numbers are numbers, and a row that is nowhere below another has no
\* smaller sum.
LEMMA SumIsMonotone ==
  ASSUME NEW S, IsFiniteSet(S), NEW e, NEW f,
         \A x \in S : e[x] \in Int /\ f[x] \in Int /\ e[x] <= f[x]
  PROVE  /\ SumFunctionOnSet(e, S) \in Int /\ SumFunctionOnSet(f, S) \in Int
         /\ SumFunctionOnSet(e, S) <= SumFunctionOnSet(f, S)
         /\ (\E x \in S : e[x] < f[x]) =>
              SumFunctionOnSet(e, S) < SumFunctionOnSet(f, S)
<1> DEFINE g == Tally(e, S)
           h == Tally(f, S)
<1>1. /\ SumFunctionOnSet(e, S) = g[S]
      /\ \A T \in SUBSET S : g[T] = TallyAt(g, e, T)
  BY SumOfTally
<1>2. /\ SumFunctionOnSet(f, S) = h[S]
      /\ \A T \in SUBSET S : h[T] = TallyAt(h, f, T)
  BY SumOfTally
<1> HIDE DEF g, h
<1> DEFINE Holds(T) == /\ g[T] \in Int /\ h[T] \in Int /\ g[T] <= h[T]
                       /\ (\E x \in T : e[x] < f[x]) => g[T] < h[T]
           P == {n \in Nat : \A T \in SUBSET S : Cardinality(T) = n => Holds(T)}
<1>0. g[{}] = 0 /\ h[{}] = 0
  BY <1>1, <1>2 DEF TallyAt
<1>3. 0 \in P
  BY <1>0, Sizes
<1>4. ASSUME NEW n \in P PROVE n + 1 \in P
  <2> SUFFICES ASSUME NEW T \in SUBSET S, Cardinality(T) = n + 1
               PROVE  Holds(T)
    OBVIOUS
  <2> DEFINE p == Picked(T)
             U == T \ {p}
  <2>1. n \in Nat /\ T # {}
    BY Sizes
  <2>2. p \in T /\ U \in SUBSET S /\ Cardinality(U) = n
    BY <2>1, PickedFrom
  <2>3. g[T] = e[p] + g[U] /\ h[T] = f[p] + h[U]
    BY <1>1, <1>2, <2>1 DEF TallyAt
  <2>4. Holds(U)
    BY <2>2
  <2>5. e[p] \in Int /\ f[p] \in Int /\ e[p] <= f[p]
    BY <2>2
  <2>6. \A x \in T : x = p \/ x \in U
    OBVIOUS
  <2> HIDE DEF p, U
  <2>7. g[T] \in Int /\ h[T] \in Int /\ g[T] <= h[T]
    BY <2>3, <2>4, <2>5
  <2>8. ASSUME NEW x \in T, e[x] < f[x] PROVE g[T] < h[T]
    BY <2>3, <2>4, <2>5, <2>6, <2>8
  <2> QED BY <2>7, <2>8
<1> HIDE DEF P
<1>5. P = Nat
  BY <1>3, <1>4, NumberInduction DEF P
<1>6. Holds(S)
  BY <1>5, Sizes DEF P
<1> QED BY <1>1, <1>2, <1>6

\* A row that is nowhere more than k above another has a sum at most as many
\* times k above the other's.
LEMMA SumIsClose ==
  ASSUME NEW S, IsFiniteSet(S), NEW k \in Nat, NEW e, NEW f,
         \A x \in S : e[x] \in Int /\ f[x] \in Int /\ e[x] <= f[x] + k
  PROVE  /\ SumFunctionOnSet(e, S) \in Int /\ SumFunctionOnSet(f, S) \in Int
         /\ SumFunctionOnSet(e, S) <= SumFunctionOnSet(f, S) + Cardinality(S) * k
<1> DEFINE g == Tally(e, S)
           h == Tally(f, S)
<1>1. /\ SumFunctionOnSet(e, S) = g[S]
      /\ \A T \in SUBSET S : g[T] = TallyAt(g, e, T)
  BY SumOfTally
<1>2. /\ SumFunctionOnSet(f, S) = h[S]
      /\ \A T \in SUBSET S : h[T] = TallyAt(h, f, T)
  BY SumOfTally
<1> HIDE DEF g, h
<1> DEFINE Holds(T) == /\ g[T] \in Int /\ h[T] \in Int
                       /\ g[T] <= h[T] + Cardinality(T) * k
           Sizewise == {n \in Nat : \A T \in SUBSET S : Cardinality(T) = n => Holds(T)}
<1>0. g[{}] = 0 /\ h[{}] = 0
  BY <1>1, <1>2 DEF TallyAt
<1>3. 0 \in Sizewise
  <2> SUFFICES ASSUME NEW T \in SUBSET S, Cardinality(T) = 0 PROVE Holds(T)
    OBVIOUS
  <2>1. T = {} /\ 0 * k = 0
    BY Sizes
  <2> QED BY <1>0, <2>1
<1> HIDE DEF Holds
<1>4. ASSUME NEW n \in Sizewise PROVE n + 1 \in Sizewise
  <2> SUFFICES ASSUME NEW T \in SUBSET S, Cardinality(T) = n + 1
               PROVE  Holds(T)
    OBVIOUS
  <2> DEFINE p == Picked(T)
             U == T \ {p}
  <2>1. n \in Nat /\ T # {}
    BY Sizes
  <2>2. p \in T /\ U \in SUBSET S /\ Cardinality(U) = n
    <3>1. p \in T /\ U \in SUBSET S /\ Cardinality(U) = Cardinality(T) - 1
      BY <2>1, PickedFrom, Zenon
    <3> HIDE DEF U
    <3> QED BY <2>1, <3>1
  <2>3. g[T] = e[p] + g[U] /\ h[T] = f[p] + h[U]
    BY <1>1, <1>2, <2>1 DEF TallyAt
  <2>4. g[U] \in Int /\ h[U] \in Int /\ g[U] <= h[U] + n * k
    BY <2>2 DEF Holds
  <2>5. e[p] \in Int /\ f[p] \in Int /\ e[p] <= f[p] + k
    BY <2>2
  <2>6. (n + 1) * k = n * k + k /\ n * k \in Nat
    BY <2>1
  <2> HIDE DEF p, U
  <2> DEFINE low == n * k
             high == (n + 1) * k
  <2>7. g[U] <= h[U] + low /\ high = low + k /\ low \in Nat
    BY <2>4, <2>6
  <2> HIDE DEF low, high
  <2>8. g[T] \in Int /\ h[T] \in Int /\ g[T] <= h[T] + high
    BY <2>3, <2>4, <2>5, <2>7
  <2> QED BY <2>8 DEF high, Holds
<1> HIDE DEF Sizewise
<1>5. Sizewise = Nat
  BY <1>3, <1>4, NumberInduction DEF Sizewise
<1>6. Holds(S)
  BY <1>5, Sizes DEF Sizewise
<1> QED BY <1>1, <1>2, <1>6 DEF Holds

\* A total and transitive relation has a first element in every finite set.
LEMMA FirstOfOrder ==
  ASSUME NEW S, IsFiniteSet(S), S # {}, NEW R,
         \A x, y \in S : x # y => <<x, y>> \in R \/ <<y, x>> \in R,
         \A x, y, z \in S : <<x, y>> \in R /\ <<y, z>> \in R => <<x, z>> \in R
  PROVE  \E x \in S : \A y \in S \ {x} : <<x, y>> \in R
<1> DEFINE Has(T) == T = {} \/ \E x \in T : \A y \in T \ {x} : <<x, y>> \in R
           P == {n \in Nat : \A T \in SUBSET S : Cardinality(T) = n => Has(T)}
<1>1. 0 \in P
  BY Sizes
<1>2. ASSUME NEW n \in P PROVE n + 1 \in P
  <2> SUFFICES ASSUME NEW U \in SUBSET S, Cardinality(U) = n + 1
               PROVE  Has(U)
    OBVIOUS
  <2>1. PICK x \in U : TRUE
    BY Sizes
  <2> DEFINE T == U \ {x}
  <2>2. T \in SUBSET S /\ Cardinality(T) = n
    BY OneLess
  <2>3. CASE T = {}
    BY <2>1, <2>3
  <2>4. CASE T # {}
    <3>1. PICK t \in T : \A y \in T \ {t} : <<t, y>> \in R
      BY <2>2, <2>4
    <3>2. CASE <<t, x>> \in R
      <4>1. \A y \in U \ {t} : <<t, y>> \in R
        BY <3>1, <3>2
      <4> QED BY <4>1
    <3>3. CASE <<x, t>> \in R
      <4>1. \A y \in U \ {x} : <<x, y>> \in R
        BY <3>1, <3>3
      <4> QED BY <4>1
    <3> QED BY <3>1, <3>2, <3>3
  <2> QED BY <2>3, <2>4
<1> HIDE DEF P
<1>3. P = Nat
  BY <1>1, <1>2, NumberInduction DEF P
<1> QED BY <1>3, Sizes DEF P

\* The order of First is total on candidates with ids of their own, and
\* transitive, when their keys have one length.
LEMMA BeforeIsOrder ==
  ASSUME NEW n \in {1, 2}, NEW x, NEW y, NEW z,
         x.id \in Int, y.id \in Int, z.id \in Int,
         NEW k \in [1 .. n -> Int], NEW l \in [1 .. n -> Int],
         NEW m \in [1 .. n -> Int]
  PROVE  /\ x.id # y.id => Before(x, k, y, l) \/ Before(y, l, x, k)
         /\ Before(x, k, y, l) /\ Before(y, l, z, m) => Before(x, k, z, m)
<1>1. CASE n = 1
  <2>1. \A a, b \in [1 .. 1 -> Int] : a = b <=> a[1] = b[1]
    OBVIOUS
  <2>2. ASSUME NEW u, NEW v, NEW a \in [1 .. 1 -> Int], NEW b \in [1 .. 1 -> Int]
        PROVE  Before(u, a, v, b) <=> a[1] > b[1] \/ (a[1] = b[1] /\ u.id < v.id)
    BY <2>1 DEF Before
  <2> QED BY <1>1, <2>2
<1>2. CASE n = 2
  <2>1. \A a, b \in [1 .. 2 -> Int] : a = b <=> a[1] = b[1] /\ a[2] = b[2]
    OBVIOUS
  <2>2. ASSUME NEW u, NEW v, NEW a \in [1 .. 2 -> Int], NEW b \in [1 .. 2 -> Int]
        PROVE  Before(u, a, v, b) <=>
                 \/ a[1] > b[1]
                 \/ a[1] = b[1] /\ a[2] > b[2]
                 \/ a[1] = b[1] /\ a[2] = b[2] /\ u.id < v.id
    BY <2>1 DEF Before
  <2> QED BY <1>2, <2>2
<1> QED BY <1>1, <1>2

\* First finds its candidate.
LEMMA FirstExists ==
  ASSUME NEW n \in {1, 2}, NEW S, IsFiniteSet(S), S # {},
         \A x \in S : x.id \in Int,
         \A x, y \in S : x.id = y.id => x = y,
         NEW key, \A x \in S : key[x] \in [1 .. n -> Int]
  PROVE  /\ First(S, key) \in S
         /\ \A y \in S \ {First(S, key)} :
              Before(First(S, key), key[First(S, key)], y, key[y])
<1> DEFINE R == {e \in S \X S : Before(e[1], key[e[1]], e[2], key[e[2]])}
<1>1. \A x, y \in S : <<x, y>> \in R <=> Before(x, key[x], y, key[y])
  OBVIOUS
<1>2. ASSUME NEW x \in S, NEW y \in S, x # y
      PROVE  Before(x, key[x], y, key[y]) \/ Before(y, key[y], x, key[x])
  <2>1. x.id # y.id
    BY <1>2
  <2> QED BY <2>1, BeforeIsOrder
<1>3. ASSUME NEW x \in S, NEW y \in S, NEW z \in S,
             Before(x, key[x], y, key[y]), Before(y, key[y], z, key[z])
      PROVE  Before(x, key[x], z, key[z])
  BY <1>3, BeforeIsOrder
<1> HIDE DEF R
<1>4. /\ \A x, y \in S : x # y => <<x, y>> \in R \/ <<y, x>> \in R
      /\ \A x, y, z \in S : <<x, y>> \in R /\ <<y, z>> \in R => <<x, z>> \in R
  BY <1>1, <1>2, <1>3
<1>5. \E x \in S : \A y \in S \ {x} : <<x, y>> \in R
  BY <1>4, FirstOfOrder
<1>6. \E x \in S : \A y \in S \ {x} : Before(x, key[x], y, key[y])
  BY <1>1, <1>5
<1> QED BY <1>6 DEF First

-----------------------------------------------------------------------------
(* The frontier of a run.                                                    *)

\* What the choices need of the candidates they choose from.
Choosable(S) ==
  /\ S \subseteq Candidates(Nat) /\ IsFiniteSet(S) /\ S # {}
  /\ \A x, y \in S : x.id = y.id => x = y

LEMMA RowFacts ==
  ASSUME NEW x \in Candidates(Nat)
  PROVE  /\ x.row \in [Cells -> Int] /\ DOMAIN x.row = Cells
         /\ x.id \in Nat /\ x.rate \in 0 .. FullRate
         /\ x.sd \in [Cells -> 0 .. MaxNoise] /\ MaxNoise \in Nat
BY LoopAssumption DEF Candidates

\* A sum is a number; a row that is as good on every cell has no smaller one,
\* and one that is as good up to k misses at most as many times k.
LEMMA SumFacts ==
  ASSUME NEW x \in Candidates(Nat), NEW y \in Candidates(Nat)
  PROVE  /\ Sum(x.row) \in Int /\ Sum(y.row) \in Int
         /\ Below(x.row, y.row) => Sum(x.row) <= Sum(y.row)
         /\ \A k \in Nat : Within(x.row, y.row, k) =>
              Sum(x.row) <= Sum(y.row) + Cardinality(Cells) * k
<1>1. /\ \A c \in Cells : x.row[c] \in Int /\ y.row[c] \in Int
      /\ DOMAIN x.row = Cells /\ DOMAIN y.row = Cells
  BY RowFacts
<1>2. ASSUME NEW z, DOMAIN z = Cells, \A c \in Cells : z[c] \in Int
      PROVE  Sum(z) \in Int
  <2>1. \A c \in Cells : z[c] \in Int /\ z[c] \in Int /\ z[c] <= z[c]
    BY <1>2
  <2> QED BY <1>2, <2>1, CellAssumption, SumIsMonotone DEF Sum, SumFunction
<1>3. Below(x.row, y.row) => Sum(x.row) <= Sum(y.row)
  <2> SUFFICES ASSUME Below(x.row, y.row) PROVE Sum(x.row) <= Sum(y.row)
    OBVIOUS
  <2>1. \A c \in Cells : /\ x.row[c] \in Int /\ y.row[c] \in Int
                         /\ x.row[c] <= y.row[c]
    BY <1>1 DEF Below
  <2> QED BY <1>1, <2>1, CellAssumption, SumIsMonotone DEF Sum, SumFunction
<1>4. ASSUME NEW k \in Nat, Within(x.row, y.row, k)
      PROVE  Sum(x.row) <= Sum(y.row) + Cardinality(Cells) * k
  <2>1. \A c \in Cells : /\ x.row[c] \in Int /\ y.row[c] \in Int
                         /\ x.row[c] <= y.row[c] + k
    BY <1>1, <1>4 DEF Within
  <2> QED BY <1>1, <2>1, CellAssumption, SumIsClose DEF Sum, SumFunction
<1> QED BY <1>1, <1>2, <1>3, <1>4

\* The first by mean has the largest mean and is no other's second; what
\* precedes every other is the first.
LEMMA MeanFacts ==
  ASSUME NEW S, Choosable(S)
  PROVE  /\ ByMean(S) \in S
         /\ \A y \in S : Sum(y.row) <= Sum(ByMean(S).row)
         /\ \A x \in S : (\A y \in S \ {x} :
                            Before(x, <<Sum(x.row)>>, y, <<Sum(y.row)>>))
                         => x = ByMean(S)
<1> DEFINE byMean == [m \in S |-> <<Sum(m.row)>>]
           b == First(S, byMean)
<1>1. /\ \A x \in S : x.id \in Int /\ Sum(x.row) \in Int
      /\ \A x, y \in S : x.id = y.id => x = y
      /\ S # {} /\ IsFiniteSet(S)
  BY RowFacts, SumFacts DEF Choosable
<1>2. \A x \in S : byMean[x] = <<Sum(x.row)>> /\ byMean[x] \in [1 .. 1 -> Int]
  BY <1>1
<1>3. ByMean(S) = b
  BY DEF ByMean
<1> HIDE DEF byMean
<1>4. b \in S /\ \A y \in S \ {b} : Before(b, byMean[b], y, byMean[y])
  BY <1>1, <1>2, FirstExists
<1> HIDE DEF b
<1>5. \A y \in S \ {b} : Before(b, <<Sum(b.row)>>, y, <<Sum(y.row)>>)
  BY <1>2, <1>4
<1>6. ASSUME NEW y \in S PROVE Sum(y.row) <= Sum(b.row)
  <2>1. y = b \/ Before(b, <<Sum(b.row)>>, y, <<Sum(y.row)>>)
    BY <1>5
  <2> QED BY <1>1, <1>4, <2>1 DEF Before
<1>7. ASSUME NEW x \in S,
             \A y \in S \ {x} : Before(x, <<Sum(x.row)>>, y, <<Sum(y.row)>>)
      PROVE  x = b
  <2> SUFFICES ASSUME x # b PROVE FALSE
    OBVIOUS
  <2>1. /\ Before(x, <<Sum(x.row)>>, b, <<Sum(b.row)>>)
        /\ Before(b, <<Sum(b.row)>>, x, <<Sum(x.row)>>)
    BY <1>4, <1>5, <1>7
  <2> QED BY <1>1, <1>4, <2>1 DEF Before
<1> QED BY <1>3, <1>4, <1>6, <1>7

\* What Best chooses by: the mean alone, the mean among those that meet the
\* constraint, or the mean after the constraint (Frontier.Best).
LEMMA BestFacts ==
  ASSUME NEW S, Choosable(S)
  PROVE  /\ Best(S) \in S
         /\ ~ Constrained => \A y \in S : Sum(y.row) <= Sum(Best(S).row)
         /\ Constrained /\ Satisfying(S) # {} =>
              /\ Best(S) \in Satisfying(S)
              /\ \A y \in Satisfying(S) : Sum(y.row) <= Sum(Best(S).row)
         /\ Constrained /\ Satisfying(S) = {} =>
              \A y \in S : \/ y.rate < Best(S).rate
                           \/ /\ y.rate = Best(S).rate
                              /\ Sum(y.row) <= Sum(Best(S).row)
<1> DEFINE kept == Satisfying(S)
           byBoth == [m \in S |-> <<Sum(m.row), m.rate>>]
           byRate == [m \in S |-> <<m.rate, Sum(m.row)>>]
<1>1. /\ \A x \in S : x.id \in Int /\ Sum(x.row) \in Int /\ x.rate \in Int
      /\ \A x, y \in S : x.id = y.id => x = y
      /\ S # {} /\ IsFiniteSet(S)
  BY RowFacts, SumFacts, ConstraintAssumption DEF Choosable
<1>2. kept \subseteq S /\ IsFiniteSet(kept)
  BY <1>1, FS_Subset DEF Satisfying
<1>3. \A x \in S : byBoth[x] \in [1 .. 2 -> Int] /\ byRate[x] \in [1 .. 2 -> Int]
  BY <1>1
<1>4. CASE ~ Constrained
  BY <1>4, MeanFacts DEF Best
<1>5. CASE Constrained /\ kept # {}
  <2> DEFINE b == First(kept, byBoth)
  <2>1. Best(S) = b
    BY <1>5 DEF Best
  <2> HIDE DEF byBoth, kept
  <2>2. b \in kept /\ \A y \in kept \ {b} : Before(b, byBoth[b], y, byBoth[y])
    BY <1>1, <1>2, <1>3, <1>5, FirstExists
  <2> HIDE DEF b
  <2>3. ASSUME NEW y \in kept PROVE Sum(y.row) <= Sum(b.row)
    <3>1. y = b \/ Before(b, <<Sum(b.row), b.rate>>, y, <<Sum(y.row), y.rate>>)
      BY <1>2, <2>2 DEF byBoth
    <3>2. \/ y = b \/ Sum(b.row) > Sum(y.row) \/ Sum(b.row) = Sum(y.row)
      BY <3>1 DEF Before
    <3> QED BY <1>1, <1>2, <2>2, <3>2
  <2> QED BY <1>2, <1>5, <2>1, <2>2, <2>3 DEF kept
<1>6. CASE Constrained /\ kept = {}
  <2> DEFINE b == First(S, byRate)
  <2>1. Best(S) = b
    BY <1>6 DEF Best
  <2> HIDE DEF byRate
  <2>2. b \in S /\ \A y \in S \ {b} : Before(b, byRate[b], y, byRate[y])
    BY <1>1, <1>3, FirstExists
  <2> HIDE DEF b
  <2>3. ASSUME NEW y \in S
        PROVE  y.rate < b.rate \/ (y.rate = b.rate /\ Sum(y.row) <= Sum(b.row))
    <3>1. y = b \/ Before(b, <<b.rate, Sum(b.row)>>, y, <<y.rate, Sum(y.row)>>)
      BY <2>2 DEF byRate
    <3>2. \/ y = b \/ b.rate > y.rate
          \/ b.rate = y.rate /\ (Sum(b.row) > Sum(y.row) \/ Sum(b.row) = Sum(y.row))
      BY <3>1 DEF Before
    <3> QED BY <1>1, <2>2, <3>2
  <2> QED BY <1>6, <2>1, <2>2, <2>3
<1> QED BY <1>4, <1>5, <1>6

\* The deliverable is at least as good, up to k, as whatever some member is at
\* least as good as up to k: by the mean, and under a constraint by the rate.
LEMMA BestIsAtLeast ==
  ASSUME NEW S, Choosable(S), NEW b \in Candidates(Nat), NEW x \in S, NEW k \in Nat,
         Sum(b.row) <= Sum(x.row) + k, Constrained => b.rate <= x.rate
  PROVE  AtLeastAsGood(Best(S), b, k)
<1> DEFINE t == Best(S)
<1>1. /\ t \in S /\ t \in Candidates(Nat) /\ x \in Candidates(Nat)
      /\ t.rate \in 0 .. FullRate /\ x.rate \in 0 .. FullRate
      /\ b.rate \in 0 .. FullRate /\ FullRate \in Nat
  BY BestFacts, RowFacts, ConstraintAssumption DEF Choosable
<1>2. Sum(t.row) \in Int /\ Sum(x.row) \in Int /\ Sum(b.row) \in Int
  BY <1>1, SumFacts
<1>3. Satisfying(S) # {} /\ t \in Satisfying(S) => t.rate >= FullRate
  BY DEF Satisfying
<1>4. x.rate >= FullRate => x \in Satisfying(S)
  BY DEF Satisfying
<1> SUFFICES AtLeastAsGood(t, b, k)
  OBVIOUS
<1>5. CASE ~ Constrained
  <2>1. Sum(x.row) <= Sum(t.row)
    BY <1>5, BestFacts
  <2> HIDE DEF t
  <2> QED BY <1>2, <1>5, <2>1 DEF AtLeastAsGood
<1>6. CASE Constrained /\ Satisfying(S) # {}
  <2>1. t \in Satisfying(S) /\ \A y \in Satisfying(S) : Sum(y.row) <= Sum(t.row)
    BY <1>6, BestFacts
  <2> HIDE DEF t
  <2>2. t.rate >= FullRate
    BY <1>3, <1>6, <2>1
  <2>3. b.rate >= FullRate => Sum(x.row) <= Sum(t.row)
    BY <1>1, <1>4, <1>6, <2>1
  <2> QED BY <1>1, <1>2, <1>6, <2>2, <2>3 DEF AtLeastAsGood
<1>7. CASE Constrained /\ Satisfying(S) = {}
  <2>1. x.rate < t.rate \/ (x.rate = t.rate /\ Sum(x.row) <= Sum(t.row))
    BY <1>7, BestFacts
  <2> HIDE DEF t
  <2>2. b.rate < FullRate
    BY <1>1, <1>4, <1>7
  <2> QED BY <1>1, <1>2, <1>7, <2>1, <2>2 DEF AtLeastAsGood
<1> QED BY <1>5, <1>6, <1>7, ConstraintAssumption

-----------------------------------------------------------------------------
(* The measured noise, and what it may hide.                                 *)

\* The noise of a set of candidates: Noise and Blur are those of offered.
NoiseOf(O) == {o.sd[c] : o \in O, c \in Cells}
BlurOf(O) == CHOOSE e \in NoiseOf(O) : \A f \in NoiseOf(O) : f <= e

\* Every candidate is matched by some member up to the noise.
CoveredBy(O, S) ==
  \A o \in O : \E m \in S : Within(o.row, m.row, BlurOf(O))

LEMMA BlurFacts ==
  ASSUME NEW O, O \subseteq Candidates(Nat), O # {}
  PROVE  /\ BlurOf(O) \in Nat /\ BlurOf(O) \in NoiseOf(O)
         /\ \A o \in O : \A c \in Cells : o.sd[c] \in Nat /\ o.sd[c] <= BlurOf(O)
<1>1. NoiseOf(O) \subseteq 0 .. MaxNoise /\ MaxNoise \in Nat
  BY RowFacts, LoopAssumption DEF NoiseOf
<1>2. NoiseOf(O) # {}
  <2>1. PICK o \in O, c \in Cells : TRUE
    BY CellAssumption
  <2>2. o.sd[c] \in NoiseOf(O)
    BY <2>1 DEF NoiseOf
  <2> QED BY <2>2
<1> DEFINE T == {n \in Nat : \E f \in NoiseOf(O) : n = MaxNoise - f}
<1>3. T \in SUBSET Nat /\ T # {}
  <2>1. PICK f \in NoiseOf(O) : TRUE
    BY <1>2
  <2>2. MaxNoise - f \in T
    BY <1>1
  <2> QED BY <2>2
<1>4. PICK n \in T : \A m \in T : n <= m
  BY <1>3, LeastNumber
<1>5. PICK e \in NoiseOf(O) : n = MaxNoise - e
  BY <1>4
<1>6. \A f \in NoiseOf(O) : f <= e
  <2> SUFFICES ASSUME NEW f \in NoiseOf(O) PROVE f <= e
    OBVIOUS
  <2>1. MaxNoise - f \in T
    BY <1>1
  <2>2. n <= MaxNoise - f
    BY <1>4, <2>1
  <2> QED BY <1>1, <1>5, <2>2
<1>7. BlurOf(O) \in NoiseOf(O) /\ \A f \in NoiseOf(O) : f <= BlurOf(O)
  BY <1>6 DEF BlurOf
<1>8. \A o \in O : \A c \in Cells : o.sd[c] \in NoiseOf(O)
  BY DEF NoiseOf
<1> QED BY <1>1, <1>7, <1>8

\* Beating, by whatever margin, implies being as good on every cell
\* (DominatesWithMargin against Dominates, with margins that are never
\* negative).
LEMMA BeatsIsAbove ==
  ASSUME NEW x \in Candidates(Nat), NEW y \in Candidates(Nat), Beats(x, y)
  PROVE  Below(y.row, x.row)
<1>1. x.row \in [Cells -> Int] /\ y.row \in [Cells -> Int]
  BY RowFacts
<1>2. CASE BothRepeated(x, y)
  <2>1. \A c \in Cells : x.row[c] >= y.row[c] + MarginOf(x, y)[c]
    BY <1>2 DEF Beats, DominatesWithMargin
  <2>2. \A c \in Cells : MarginOf(x, y)[c] \in 0 .. MaxNoise
    BY RowFacts DEF MarginOf
  <2> QED BY <1>1, <2>1, <2>2 DEF Below
<1>3. CASE ~ BothRepeated(x, y)
  BY <1>3 DEF Beats, Dominates
<1> QED BY <1>2, <1>3

\* Indistinguishable rows differ by no more than the larger deviation
\* (IsEpsClone).
LEMMA SameIsWithin ==
  ASSUME NEW x \in Candidates(Nat), NEW y \in Candidates(Nat), Same(x, y),
         NEW e \in Nat, \A c \in Cells : x.sd[c] <= e /\ y.sd[c] <= e
  PROVE  Within(y.row, x.row, e)
<1>1. x.row \in [Cells -> Int] /\ y.row \in [Cells -> Int]
  BY RowFacts
<1>2. CASE BothRepeated(x, y)
  <2> SUFFICES ASSUME NEW c \in Cells
               PROVE  y.row[c] <= x.row[c] + e
    BY DEF Within
  <2>1. PICK d \in Cells : y.row[c] - x.row[c] <= MarginOf(x, y)[d]
    BY <1>2 DEF Same, IsEpsClone
  <2>2. MarginOf(x, y)[d] \in 0 .. MaxNoise /\ MarginOf(x, y)[d] <= e
    BY RowFacts DEF MarginOf
  <2> QED BY <1>1, <2>1, <2>2
<1>3. CASE ~ BothRepeated(x, y)
  BY <1>1, <1>3 DEF Same, Within
<1> QED BY <1>2, <1>3

\* An admission keeps every candidate matched up to the noise, the newcomer
\* included: what was refused is matched by the member it was refused for, and
\* a member leaves for one as good on every cell (Frontier.AddNoiseAware).
LEMMA AdmissionCovers ==
  ASSUME NEW O, O \subseteq Candidates(Nat), O # {}, NEW S, S \subseteq O,
         CoveredBy(O, S), NEW m \in Candidates(Nat)
  PROVE  CoveredBy(O \cup {m}, AddNoiseAware(S, m))
<1> DEFINE U == O \cup {m}
           T == AddNoiseAware(S, m)
           d == BlurOf(O)
           e == BlurOf(U)
<1>1. /\ U \subseteq Candidates(Nat) /\ U # {}
      /\ d \in Nat /\ e \in Nat
      /\ \A o \in U : \A c \in Cells : o.sd[c] <= e
  BY BlurFacts
<1>2. d <= e
  <2>1. d \in NoiseOf(O)
    BY BlurFacts
  <2>2. PICK o \in O, c \in Cells : d = o.sd[c]
    BY <2>1 DEF NoiseOf
  <2> QED BY <1>1, <2>2
<1>3. \A x \in U : x.row \in [Cells -> Int]
  BY <1>1, RowFacts
<1> HIDE DEF d, e
<1>4. ASSUME NEW r \in [Cells -> Int], NEW x \in S, Within(r, x.row, e)
      PROVE  \E n \in T : Within(r, n.row, e)
  <2>1. CASE x \in T
    BY <1>4, <2>1
  <2>2. CASE x \notin T
    <3>1. Beats(m, x) /\ m \in T
      BY <2>2 DEF AddNoiseAware, Evicted
    <3>2. Below(x.row, m.row)
      BY <1>1, <3>1, BeatsIsAbove
    <3>3. Within(r, m.row, e)
      BY <1>1, <1>3, <1>4, <3>2 DEF Within, Below
    <3> QED BY <3>1, <3>3
  <2> QED BY <2>1, <2>2
<1>5. ASSUME NEW o \in O PROVE \E n \in T : Within(o.row, n.row, e)
  <2>1. PICK x \in S : Within(o.row, x.row, d)
    BY DEF CoveredBy, d
  <2>2. Within(o.row, x.row, e)
    BY <1>1, <1>2, <1>3, <2>1 DEF Within
  <2> QED BY <1>3, <1>4, <2>2
<1>6. \E n \in T : Within(m.row, n.row, e)
  <2>1. CASE Refused(S, m)
    <3>1. PICK x \in S : Beats(x, m) \/ Same(x, m)
      BY <2>1 DEF Refused
    <3>2. CASE Beats(x, m)
      <4>1. Below(m.row, x.row)
        BY <1>1, <3>2, BeatsIsAbove
      <4>2. Within(m.row, x.row, e)
        BY <1>1, <1>3, <4>1 DEF Below, Within
      <4> QED BY <2>1, <4>2 DEF AddNoiseAware
    <3>3. CASE Same(x, m)
      <4>1. Within(m.row, x.row, e)
        BY <1>1, <3>3, SameIsWithin
      <4> QED BY <2>1, <4>1 DEF AddNoiseAware
    <3> QED BY <3>1, <3>2, <3>3
  <2>2. CASE ~ Refused(S, m)
    <3>1. m \in T
      BY <2>2 DEF AddNoiseAware
    <3>2. Within(m.row, m.row, e)
      BY <1>1, <1>3 DEF Within
    <3> QED BY <3>1, <3>2
  <2> QED BY <2>1, <2>2
<1> QED BY <1>5, <1>6 DEF CoveredBy, e

\* What is matched up to the noise leaves the deliverable no room to be worse,
\* but for the two concessions.
LEMMA CoveredIsDelivered ==
  ASSUME NEW O, O \subseteq Candidates(Nat), NEW S, S \subseteq O, Choosable(S),
         CoveredBy(O, S), NEW o \in O
  PROVE  \/ AtLeastAsGood(Best(S), o, Cardinality(Cells) * BlurOf(O))
         \/ \E n \in S : /\ Constrained /\ n.rate < o.rate
                         /\ Within(o.row, n.row, BlurOf(O))
<1>1. PICK n \in S : Within(o.row, n.row, BlurOf(O))
  BY DEF CoveredBy
<1>2. BlurOf(O) \in Nat /\ Cardinality(Cells) \in Nat
  BY BlurFacts, CellAssumption, FS_CardinalityType
<1> DEFINE k == Cardinality(Cells) * BlurOf(O)
<1>3. k \in Nat
  BY <1>2
<1>4. Sum(o.row) <= Sum(n.row) + k
  BY <1>1, <1>2, SumFacts
<1> HIDE DEF k
<1>5. CASE Constrained => o.rate <= n.rate
  <2>1. AtLeastAsGood(Best(S), o, k)
    BY <1>3, <1>4, <1>5, BestIsAtLeast
  <2> QED BY <2>1 DEF k
<1>6. CASE Constrained /\ ~ (o.rate <= n.rate)
  <2>1. n.rate < o.rate
    <3>1. o.rate \in 0 .. FullRate /\ n.rate \in 0 .. FullRate
      BY RowFacts
    <3> QED BY <1>6, <3>1, ConstraintAssumption
  <2> QED BY <1>1, <1>6, <2>1
<1> QED BY <1>5, <1>6, ConstraintAssumption

-----------------------------------------------------------------------------
(* The budget. *)

\* Metering keeps the budget a budget, touches no reservation and never
\* disarms the soft stop.
LEMMA RecordUsageFacts ==
  ASSUME NEW b \in Budgets, NEW r \in Role, NEW u \in Nat
  PROVE  /\ RecordUsage(b, r, u) \in Budgets
         /\ RecordUsage(b, r, u).evals = b.evals
         /\ b.softStop => RecordUsage(b, r, u).softStop
<1> DEFINE spent == [b.usage EXCEPT ![r] = @ + u]
           after == [evals |-> b.evals, usage |-> spent, softStop |-> b.softStop]
           arm == r \in {"executor", "judge"} /\ OverLimit(after)
<1>1. b.evals \in Nat /\ b.usage \in [Role -> Nat] /\ b.softStop \in BOOLEAN
  BY DEF Budgets
<1>2. spent \in [Role -> Nat]
  BY <1>1
<1>3. RecordUsage(b, r, u)
        = [evals |-> b.evals, usage |-> spent, softStop |-> b.softStop \/ arm]
  BY DEF RecordUsage
<1>4. (b.softStop \/ arm) \in BOOLEAN
  BY <1>1, Zenon
<1> HIDE DEF spent, after, arm
<1>5. QED
  BY <1>1, <1>2, <1>3, <1>4 DEF Budgets

\* A reservation keeps the budget a budget and does not touch the soft stop.
LEMMA AcquireFacts ==
  ASSUME NEW b \in Budgets, NEW k \in Nat
  PROVE  /\ Acquire(b, k) \in Budgets
         /\ Acquire(b, k).evals = b.evals + k
         /\ Acquire(b, k).softStop = b.softStop
BY DEF Acquire, Budgets

\* Optimiser tokens never arm the soft stop.
LEMMA OptimizerNeverStops ==
  ASSUME NEW b \in Budgets, NEW u \in Nat
  PROVE  RecordUsage(b, "optimizer", u).softStop = b.softStop
<1>1. b.softStop \in BOOLEAN
  BY DEF Budgets
<1> QED BY <1>1 DEF RecordUsage

-----------------------------------------------------------------------------
(* What the loop's steps have in common. *)

\* A unit leaves a budget behind it and never disarms the soft stop.
LEMMA UnitFacts ==
  ASSUME NEW n \in Nat, NEW d, RunUnit(n, d), budget \in Budgets,
         cancelled \in BOOLEAN
  PROVE  /\ budget' \in Budgets /\ cancelled' \in BOOLEAN
         /\ budget.softStop => budget'.softStop
<1>1. d \in Nat /\ Reps * d \in Nat /\ 0 .. d * MaxSampleCost \subseteq Nat
  BY GepaAssumption, LoopAssumption DEF RunUnit
<1>2. PICK cost \in Nat :
        budget' = RecordUsage(Acquire(budget, Reps * d), "executor", cost)
  BY <1>1 DEF RunUnit
<1>3. /\ Acquire(budget, Reps * d) \in Budgets
      /\ Acquire(budget, Reps * d).softStop = budget.softStop
  BY <1>1, AcquireFacts
<1>4. "executor" \in Role
  BY DEF Role
<1>5. budget' \in Budgets /\ (budget.softStop => budget'.softStop)
  BY <1>2, <1>3, <1>4, RecordUsageFacts
<1>6. cancelled' \in BOOLEAN
  BY DEF RunUnit
<1> QED BY <1>5, <1>6

\* An optimiser stage leaves a budget behind it and does not touch the soft
\* stop.
LEMMA StageFacts ==
  ASSUME StageRefused \/ StageFailed \/ StageDone, budget \in Budgets
  PROVE  budget' \in Budgets /\ budget'.softStop = budget.softStop
<1>1. \/ UNCHANGED budget
      \/ \E c \in StageCosts : budget' = RecordUsage(budget, "optimizer", c)
  BY DEF StageRefused, StageFailed, StageDone
<1>2. ASSUME NEW c \in StageCosts
      PROVE  /\ RecordUsage(budget, "optimizer", c) \in Budgets
             /\ RecordUsage(budget, "optimizer", c).softStop = budget.softStop
  <2>1. c \in Nat /\ "optimizer" \in Role
    BY GepaAssumption, LoopAssumption DEF Role
  <2> QED BY <2>1, RecordUsageFacts, OptimizerNeverStops
<1> QED BY <1>1, <1>2

\* The retained set has a size.
LEMMA CellCount == Cardinality(Cells) \in Nat
BY CellAssumption, FS_CardinalityType

\* What a round offers is a candidate of the round's id.
LEMMA CandidateOf ==
  ASSUME NEW r \in 0 .. MaxRounds, NEW m \in Candidates({r})
  PROVE  m \in Candidate /\ m \in Candidates(Nat) /\ m.id = r
<1>1. r \in Nat
  BY LoopAssumption
<1>2. ASSUME NEW ids, r \in ids PROVE m \in Candidates(ids)
  BY <1>2 DEF Candidates
<1>3. m.id = r
  BY DEF Candidates
<1> QED BY <1>1, <1>2, <1>3 DEF Candidate

\* The evaluation of a child offers it or marks it incomplete.
LEMMA ChildShape ==
  ASSUME round \in 0 .. MaxRounds, Child
  PROVE  \E d \in 0 .. Cardinality(Cells) :
           /\ RunUnit(Cardinality(Cells), d)
           /\ IF Complete(d)
              THEN \E m \in Candidate : /\ m.id = round /\ m \in Candidates(Nat)
                                       /\ Admit(m)
              ELSE MarkIncomplete
           /\ whole' = IF Complete(d) THEN whole \cup {round} ELSE whole
<1>1. PICK d \in 0 .. Cardinality(Cells) :
        /\ RunUnit(Cardinality(Cells), d)
        /\ IF Complete(d) THEN \E m \in Candidates({round}) : Admit(m)
                          ELSE MarkIncomplete
        /\ whole' = IF Complete(d) THEN whole \cup {round} ELSE whole
  BY Zenon DEF Child, Complete
<1>2. CASE Complete(d)
  <2>1. PICK m \in Candidates({round}) : Admit(m)
    BY <1>1, <1>2
  <2>2. m \in Candidate /\ m \in Candidates(Nat) /\ m.id = round
    BY CandidateOf
  <2> QED BY <1>1, <1>2, <2>1, <2>2, Zenon
<1>3. CASE ~ Complete(d)
  BY <1>1, <1>3, Zenon
<1> QED BY <1>2, <1>3

\* A run begins with the baseline, on a budget that others have drawn on.
LEMMA InitShape ==
  ASSUME Init
  PROVE  /\ \E m \in Candidate : /\ m.id = 0 /\ m \in Candidates(Nat)
                                /\ members = {m} /\ bestMean = Sum(m.row)
         /\ budget \in Budgets /\ brought = budget.usage["optimizer"]
         /\ brought \in Nat
<1>1. 0 \in 0 .. MaxRounds
  BY LoopAssumption
<1>2. PICK m \in Candidates({0}) : members = {m} /\ bestMean = Sum(m.row)
  BY DEF Init
<1>3. m \in Candidate /\ m \in Candidates(Nat) /\ m.id = 0
  BY <1>1, CandidateOf
<1>4. budget \in Budgets /\ brought = budget.usage["optimizer"]
  BY LoopAssumption DEF Init, Reachable
<1>5. brought \in Nat
  BY <1>4 DEF Budgets, Role
<1> QED BY <1>2, <1>3, <1>4, <1>5

-----------------------------------------------------------------------------
(* Type correctness.  It needs the bound on the stagnation counter: every    *)
(* round counts at most once, and a restart starts the count again.          *)

InRound == at \in {"reflect", "probe", "mutate", "child"}

Leeway == IF restarted = 0 THEN 0 ELSE 1

StagnationBound ==
  /\ stagnant + restarted <= round + Leeway
  /\ InRound => stagnant + restarted <= round - 1 + Leeway
  /\ InRound => latest < round
  /\ at = "reflect" => validated = 0
  /\ left + validated <= MaxHypotheses

\* The types in three parts: where the loop stands, what it has, and the flags
\* and the budget.
CounterType ==
  /\ at \in At /\ reason \in Reason
  /\ round \in 0 .. MaxRounds
  /\ left \in 0 .. MaxHypotheses /\ validated \in 0 .. MaxHypotheses
  /\ stagnant \in 0 .. MaxRounds
  /\ rounds \in 0 .. round
  /\ latest \in 0 .. round
  /\ restarted \in 0 .. round
  /\ brought \in Nat /\ lateStages \in Nat

DataType ==
  /\ members \subseteq offered /\ admitted \subseteq offered
  /\ offered \subseteq Candidate
  /\ lineage \subseteq Lineage
  /\ whole \subseteq 1 .. MaxRounds

FlagType ==
  /\ budget \in Budgets
  /\ truncated \in BOOLEAN /\ valveFired \in BOOLEAN /\ cancelled \in BOOLEAN

Counters == CounterType /\ StagnationBound

TypeInv == Counters /\ DataType /\ FlagType

LEMMA TypeParts == TypeOK <=> CounterType /\ DataType /\ FlagType
BY DEF TypeOK, CounterType, DataType, FlagType

LEMMA TypeInvInit == Init => TypeInv
<1> SUFFICES ASSUME Init PROVE TypeInv
  OBVIOUS
<1>1. FlagType
  BY InitShape DEF Init, FlagType
<1>2. DataType
  <2>1. members \subseteq Candidate /\ offered = members /\ admitted = members
    BY InitShape DEF Init
  <2>2. [id |-> 0, admitted |-> TRUE, incomplete |-> FALSE] \in Lineage
    BY GepaAssumption, LoopAssumption DEF Lineage, Lineages
  <2> QED BY <2>1, <2>2 DEF Init, DataType
<1>3. Counters
  <2>1. /\ at = "gate" /\ reason = "none" /\ round = 0 /\ left = 0
        /\ validated = 0 /\ stagnant = 0 /\ rounds = 0 /\ latest = 0
        /\ restarted = 0 /\ lateStages = 0 /\ brought \in Nat
    BY InitShape DEF Init
  <2> QED BY <2>1, GepaAssumption, LoopAssumption DEF Counters, CounterType, StagnationBound,
             InRound, Leeway, At, Reason
<1> QED BY <1>1, <1>2, <1>3 DEF TypeInv

\* The steps that leave the frontier and the lineage alone.
LEMMA DataFrame ==
  ASSUME DataType, UNCHANGED frontierVars
  PROVE  DataType'
BY DEF DataType, frontierVars

LEMMA FlagStep ==
  ASSUME TypeInv, [Next]_vars
  PROVE  FlagType'
<1> USE GepaAssumption, LoopAssumption DEF TypeInv, FlagType, roundVars, frontierVars,
        resultVars, Stop
<1>1. CASE Gate
  BY <1>1, Zenon DEF Gate
<1>2. CASE Reflect
  <2>1. budget' \in Budgets
    BY <1>2, StageFacts DEF Reflect
  <2>2. /\ valveFired' \in {valveFired, TRUE}
        /\ UNCHANGED <<truncated, cancelled>>
    BY <1>2 DEF Reflect
  <2> QED BY <2>1, <2>2
<1>3. CASE Probe
  <2>1. Batch \in Nat
    BY CellCount
  <2>2. PICK d \in 0 .. Batch : /\ RunUnit(Batch, d)
                                /\ truncated' = (truncated \/ d < Batch)
    BY <1>3 DEF Probe
  <2>3. budget' \in Budgets /\ cancelled' \in BOOLEAN
    BY <2>1, <2>2, UnitFacts
  <2>4. truncated' \in BOOLEAN
    BY <2>2, Zenon
  <2>5. UNCHANGED valveFired
    BY <1>3 DEF Probe
  <2> QED BY <2>3, <2>4, <2>5
<1>4. CASE EndProbes
  BY <1>4 DEF EndProbes
<1>5. CASE Mutate
  <2>1. budget' \in Budgets
    BY <1>5, StageFacts DEF Mutate
  <2>2. /\ valveFired' \in {valveFired, TRUE}
        /\ UNCHANGED <<truncated, cancelled>>
    BY <1>5 DEF Mutate
  <2> QED BY <2>1, <2>2
<1>6. CASE Child
  <2>1. PICK d \in 0 .. Cardinality(Cells) :
          /\ RunUnit(Cardinality(Cells), d)
          /\ \/ \E m \in Candidate : Admit(m)
             \/ MarkIncomplete
    BY <1>6, ChildShape DEF Counters, CounterType
  <2>2. budget' \in Budgets /\ cancelled' \in BOOLEAN
    BY <2>1, CellCount, UnitFacts
  <2>3. valveFired' \in {valveFired, TRUE}
    BY <2>1 DEF Admit, MarkIncomplete
  <2>4. UNCHANGED truncated
    BY <1>6 DEF Child
  <2> QED BY <2>2, <2>3, <2>4
<1>7. CASE UnitError \/ Finish
  BY <1>7 DEF UnitError, Finish
<1>8. CASE Cancel
  BY <1>8 DEF Cancel
<1>9. CASE UNCHANGED vars
  BY <1>9 DEF vars
<1> QED BY <1>1, <1>2, <1>3, <1>4, <1>5, <1>6, <1>7, <1>8, <1>9
        DEF Next, Loop, Returned

\* What the evaluation of a child does to the data and to the counters.
LEMMA ChildFacts ==
  ASSUME TypeInv, Child
  PROVE  /\ DataType'
         /\ stagnant' \in {0, stagnant, stagnant + 1}
         /\ rounds' \in {rounds, round}
         /\ latest' \in {latest, round}
         /\ at' \in {"finish", "gate", "error"}
         /\ reason' \in {reason, "budget_stopped"}
         /\ UNCHANGED brought
<1>0. UNCHANGED brought
  BY DEF Child
<1>1. PICK d \in 0 .. Cardinality(Cells) :
        /\ \/ \E m \in Candidate : m.id = round /\ Admit(m)
           \/ MarkIncomplete
        /\ whole' \in {whole, whole \cup {round}}
  BY ChildShape DEF TypeInv, Counters, CounterType
<1>2. at = "child" /\ round \in 1 .. MaxRounds
  BY GepaAssumption, LoopAssumption DEF Child, TypeInv, Counters, CounterType,
                        StagnationBound, InRound
<1>3. whole' \subseteq 1 .. MaxRounds
  BY <1>1, <1>2 DEF TypeInv, DataType
<1>4. CASE \E m \in Candidate : m.id = round /\ Admit(m)
  <2>1. PICK m \in Candidate : m.id = round /\ Admit(m)
    BY <1>4
  <2>2. /\ members' \subseteq offered' /\ admitted' \subseteq offered'
        /\ offered' \subseteq Candidate /\ latest' = round
    BY <2>1 DEF Admit, Offered, Recorded, Joined, AddNoiseAware, TypeInv, DataType
  <2>3. [id |-> round, admitted |-> RecordedAdmitted(m),
         incomplete |-> FALSE] \in Lineage
    <3>1. RecordedAdmitted(m) \in BOOLEAN
      BY Zenon DEF RecordedAdmitted
    <3>2. round \in 0 .. MaxRounds
      BY <1>2, GepaAssumption, LoopAssumption
    <3> HIDE DEF RecordedAdmitted
    <3> QED BY <3>1, <3>2 DEF Lineage, Lineages
  <2>4. lineage' \subseteq Lineage
    BY <2>1, <2>3 DEF Admit, Offered, Recorded, TypeInv, DataType
  <2>5. /\ stagnant' \in {0, stagnant, stagnant + 1}
        /\ rounds' \in {rounds, round}
        /\ at' \in {"finish", "gate", "error"}
        /\ reason' \in {reason, "budget_stopped"}
    BY <2>1 DEF Admit, Stop, resultVars
  <2> QED BY <1>0, <1>3, <2>2, <2>4, <2>5 DEF DataType
<1>5. CASE MarkIncomplete
  <2>1. [id |-> round, admitted |-> FALSE, incomplete |-> TRUE] \in Lineage
    BY <1>2, GepaAssumption, LoopAssumption DEF Lineage, Lineages
  <2>2. /\ lineage' \subseteq Lineage
        /\ UNCHANGED <<members, offered, admitted, latest>>
    BY <1>5, <2>1 DEF MarkIncomplete, RecordedIncomplete, TypeInv, DataType
  <2>3. /\ stagnant' \in {stagnant, stagnant + 1}
        /\ rounds' \in {rounds, round}
        /\ at' \in {"finish", "error"}
        /\ reason' \in {reason, "budget_stopped"}
    BY <1>5 DEF MarkIncomplete, Stop, resultVars
  <2> QED BY <1>0, <1>3, <2>2, <2>3 DEF TypeInv, DataType
<1> QED BY <1>0, <1>1, <1>4, <1>5

LEMMA DataStep ==
  ASSUME TypeInv, [Next]_vars
  PROVE  DataType'
<1>1. CASE Child
  BY <1>1, ChildFacts
<1>2. CASE Gate \/ Reflect \/ Probe \/ EndProbes \/ Mutate \/ UnitError
           \/ Finish \/ Cancel \/ UNCHANGED vars
  <2>1. UNCHANGED frontierVars
    BY <1>2 DEF Gate, Reflect, Probe, EndProbes, Mutate, UnitError, Finish,
                Cancel, vars
  <2> QED BY <2>1, DataFrame DEF TypeInv
<1> QED BY <1>1, <1>2 DEF Next, Loop, Returned

\* One more stagnant round stays within the bound.
LEMMA CountOnce ==
  ASSUME NEW s \in Nat, NEW q \in Nat, NEW r \in Nat, NEW k \in Nat,
         NEW m \in Nat, s + q <= r - 1 + k, k <= q, r <= m
  PROVE  /\ s + 1 + q <= r + k /\ s + 1 \in 0 .. m
         /\ 0 + q <= r + k /\ s + q <= r + k
OBVIOUS

\* One probe fewer, at most one lift more.
LEMMA ProbeOnce ==
  ASSUME NEW l \in Nat, NEW v \in Nat, NEW m \in Nat, l + v <= m, l > 0,
         NEW u \in {v, v + 1}
  PROVE  l - 1 + u <= m /\ l - 1 \in 0 .. m /\ u \in 0 .. m
OBVIOUS

\* What the counters say within a round.
LEMMA InRoundFacts ==
  ASSUME Counters, InRound
  PROVE  /\ stagnant \in Nat /\ round \in Nat /\ restarted \in Nat
         /\ Leeway \in Nat /\ Leeway <= restarted /\ MaxRounds \in Nat
         /\ round >= 1 /\ round <= MaxRounds
         /\ stagnant + restarted <= round - 1 + Leeway
<1>1. round \in 0 .. MaxRounds /\ latest \in 0 .. round /\ latest < round
  BY DEF Counters, CounterType, StagnationBound
<1>2. stagnant \in 0 .. MaxRounds /\ restarted \in 0 .. round
      /\ stagnant + restarted <= round - 1 + Leeway
  BY DEF Counters, CounterType, StagnationBound
<1>3. Leeway \in Nat /\ Leeway <= restarted
  BY <1>1, <1>2 DEF Leeway
<1> QED BY <1>1, <1>2, <1>3, GepaAssumption, LoopAssumption

LEMMA GateStep ==
  ASSUME Counters, Gate
  PROVE  Counters'
<1>1. /\ at = "gate"
      /\ UNCHANGED <<stagnant, latest, rounds, restarted, brought, lateStages>>
      /\ \/ /\ at' = "finish"
            /\ reason' \in {"rounds_done", "budget_stopped", "aborted"}
            /\ UNCHANGED <<round, left, validated>>
         \/ /\ at' = "reflect" /\ round < MaxRounds /\ round' = round + 1
            /\ left' = 0 /\ validated' = 0
            /\ UNCHANGED reason
  BY DEF Gate, Stop, roundVars, frontierVars, resultVars
<1> QED BY <1>1, GepaAssumption, LoopAssumption DEF Counters, CounterType, StagnationBound,
           InRound, Leeway, At, Reason

\* A step that ends a round, or the run from within a round, and counts the
\* round as stagnant at most once.
LEMMA RoundEnds ==
  ASSUME Counters, InRound,
         at' \in {"gate", "finish", "error"},
         stagnant' \in {0, stagnant, stagnant + 1},
         rounds' \in {rounds, round},
         latest' \in {latest, round},
         reason' \in {reason, "budget_stopped", "aborted"},
         lateStages' \in Nat,
         UNCHANGED <<round, left, validated, restarted, brought>>
  PROVE  Counters'
<1>1. /\ stagnant' + restarted' <= round' + Leeway'
      /\ stagnant' \in 0 .. MaxRounds
  <2>1. Leeway' = Leeway
    BY DEF Leeway
  <2> QED BY <2>1, InRoundFacts, CountOnce
<1>2. ~ InRound' /\ at' # "reflect" /\ at' \in At /\ reason' \in Reason
  BY DEF InRound, At, Reason, Counters, CounterType
<1>3. rounds' \in 0 .. round' /\ latest' \in 0 .. round'
  BY DEF Counters, CounterType
<1> QED BY <1>1, <1>2, <1>3 DEF Counters, CounterType, StagnationBound

LEMMA StageHistoryType ==
  ASSUME Counters, StageHistory
  PROVE  lateStages' \in Nat
BY DEF Counters, CounterType, StageHistory

\* No hypothesis has been probed yet.
LEMMA NoLiftYet ==
  ASSUME NEW m \in Nat, NEW l \in 0 .. m, NEW v \in {0}
  PROVE  l + v <= m
OBVIOUS

LEMMA ReflectStep ==
  ASSUME Counters, Reflect
  PROVE  Counters'
<1>1. at = "reflect" /\ InRound /\ lateStages' \in Nat
  BY StageHistoryType DEF Reflect, InRound
<1>2. UNCHANGED <<round, validated, latest, restarted, brought>>
  BY DEF Reflect, frontierVars
<1>3. CASE at' # "probe"
  <2>1. /\ at' \in {"gate", "finish"}
        /\ stagnant' \in {stagnant, stagnant + 1}
        /\ rounds' \in {rounds, round}
        /\ reason' \in {reason, "budget_stopped"}
        /\ UNCHANGED left
    BY <1>3 DEF Reflect, Stop, resultVars
  <2> QED BY <1>1, <1>2, <2>1, RoundEnds
<1>4. CASE at' = "probe"
  <2>1. left' \in 0 .. MaxHypotheses /\ UNCHANGED <<stagnant, reason, rounds>>
    BY <1>1, <1>4 DEF Reflect, Stop, resultVars
  <2>2. left' + validated' <= MaxHypotheses
    <3>1. validated' = 0 /\ MaxHypotheses \in Nat
      BY <1>1, <1>2, GepaAssumption, LoopAssumption DEF Counters, StagnationBound
    <3> QED BY <2>1, <3>1, NoLiftYet
  <2>5. Leeway' = Leeway
    BY <1>2 DEF Leeway
  <2>3. stagnant' + restarted' <= round' - 1 + Leeway'
    BY <1>1, <1>2, <2>1, <2>5, InRoundFacts
  <2>4. stagnant' + restarted' <= round' + Leeway'
    BY <1>1, <1>2, <2>1, <2>3, <2>5, InRoundFacts
  <2> QED BY <1>1, <1>2, <1>4, <2>1, <2>2, <2>3, <2>4, <2>5
          DEF Counters, CounterType, StagnationBound, InRound, Leeway, At
<1> QED BY <1>3, <1>4

LEMMA ProbeStep ==
  ASSUME Counters, Probe
  PROVE  Counters'
<1>1. /\ at = "probe" /\ left > 0
      /\ left' = left - 1 /\ validated' \in {validated, validated + 1}
      /\ UNCHANGED <<at, round, stagnant, latest, reason, rounds, restarted,
                     brought, lateStages>>
  BY DEF Probe, OneFewer, frontierVars, resultVars
<1>2. left \in Nat /\ validated \in Nat /\ left + validated <= MaxHypotheses
  BY GepaAssumption, LoopAssumption DEF Counters, CounterType, StagnationBound
<1>3. /\ left' + validated' <= MaxHypotheses
      /\ left' \in 0 .. MaxHypotheses /\ validated' \in 0 .. MaxHypotheses
  BY <1>1, <1>2, ProbeOnce, GepaAssumption, LoopAssumption
<1> QED BY <1>1, <1>3 DEF Counters, CounterType, StagnationBound, InRound, Leeway

LEMMA EndProbesStep ==
  ASSUME Counters, EndProbes
  PROVE  Counters'
<1>1. /\ at = "probe" /\ InRound
      /\ UNCHANGED <<round, left, validated, latest, restarted, brought,
                     lateStages>>
  BY DEF EndProbes, InRound, roundVars, frontierVars
<1>2. CASE at' # "mutate"
  <2>1. /\ at' \in {"gate", "finish"}
        /\ stagnant' \in {stagnant, stagnant + 1}
        /\ rounds' \in {rounds, round}
        /\ reason' \in {reason, "budget_stopped", "aborted"}
        /\ lateStages' \in Nat
    BY <1>1, <1>2 DEF EndProbes, Stop, resultVars, Counters, CounterType
  <2> QED BY <1>1, <2>1, RoundEnds
<1>3. CASE at' = "mutate"
  <2>1. UNCHANGED <<stagnant, reason, rounds>>
    BY <1>3 DEF EndProbes, Stop, resultVars
  <2> QED BY <1>1, <1>3, <2>1
          DEF Counters, CounterType, StagnationBound, InRound, Leeway, At
<1> QED BY <1>2, <1>3

LEMMA MutateStep ==
  ASSUME Counters, Mutate
  PROVE  Counters'
<1>1. /\ at = "mutate" /\ InRound /\ lateStages' \in Nat
      /\ UNCHANGED <<round, left, validated, latest, brought>>
      /\ at' \in {"finish", "gate", "child"}
      /\ rounds' \in {rounds, round}
      /\ reason' \in {reason, "budget_stopped"}
  BY StageHistoryType DEF Mutate, InRound, Stop, roundVars, frontierVars,
                          resultVars
<1>2. CASE Restart
  <2>1. /\ restarted' = round
        /\ \/ stagnant' = 0
           \/ stagnant' = 1 /\ at' = "gate"
    BY <1>2 DEF Mutate, AfterLadder, Stop
  <2>2. /\ round \in 1 .. MaxRounds /\ round \in Nat
        /\ rounds \in 0 .. round /\ latest \in 0 .. round - 1
    BY <1>1, InRoundFacts DEF Counters, CounterType, StagnationBound
  <2>3. Leeway' = 1
    BY <2>1, <2>2 DEF Leeway
  <2>4. /\ stagnant' \in 0 .. MaxRounds
        /\ stagnant' + restarted' <= round' + Leeway'
        /\ InRound' => stagnant' + restarted' <= round' - 1 + Leeway'
    <3>1. MaxRounds \in Nat /\ 1 \in 0 .. MaxRounds /\ 0 \in 0 .. MaxRounds
      BY GepaAssumption, LoopAssumption
    <3>2. InRound' => stagnant' = 0
      BY <1>1, <2>1 DEF InRound
    <3>3. stagnant' = 0 \/ stagnant' = 1
      BY <2>1
    <3>4. 0 + round <= round - 1 + 1 /\ 0 + round <= round + 1 /\ 1 + round <= round + 1
      BY <2>2
    <3> QED BY <1>1, <2>1, <2>3, <3>1, <3>2, <3>3, <3>4
  <2>5. at' \in At /\ at' # "reflect" /\ reason' \in Reason
    BY <1>1 DEF At, Reason, Counters, CounterType
  <2> QED BY <1>1, <2>1, <2>2, <2>4, <2>5
          DEF Counters, CounterType, StagnationBound
<1>3. CASE ~ Restart /\ at' # "child"
  <2>1. stagnant' \in {stagnant, stagnant + 1} /\ UNCHANGED restarted
    BY <1>3 DEF Mutate, AfterLadder
  <2> QED BY <1>1, <1>3, <2>1, RoundEnds
<1>4. CASE ~ Restart /\ at' = "child"
  <2>1. UNCHANGED <<stagnant, restarted, reason, rounds>>
    BY <1>4 DEF Mutate, AfterLadder, Stop, resultVars
  <2> QED BY <1>1, <1>4, <2>1
          DEF Counters, CounterType, StagnationBound, InRound, Leeway, At
<1> QED BY <1>1, <1>2, <1>3, <1>4

LEMMA CounterStep ==
  ASSUME TypeInv, [Next]_vars
  PROVE  Counters'
<1> Counters
  BY DEF TypeInv
<1>1. CASE Child
  <2>1. /\ InRound
        /\ UNCHANGED <<round, left, validated, restarted, brought, lateStages>>
    BY <1>1 DEF Child, InRound, roundVars
  <2>2. lateStages' \in Nat
    BY <2>1 DEF Counters, CounterType
  <2> QED BY <1>1, <2>1, <2>2, ChildFacts, RoundEnds
<1>2. CASE UnitError
  <2>1. /\ InRound /\ at' = "error" /\ lateStages' \in Nat
        /\ UNCHANGED <<round, left, validated, stagnant, latest, reason,
                       rounds, restarted, brought>>
    BY <1>2 DEF UnitError, InRound, roundVars, frontierVars, resultVars,
                Counters, CounterType
  <2> QED BY <2>1, RoundEnds
<1>3. CASE Finish \/ Cancel \/ UNCHANGED vars
  <2>1. UNCHANGED <<round, left, validated, stagnant, latest, reason, rounds,
                    restarted, brought, lateStages>>
    BY <1>3 DEF Finish, Cancel, vars, roundVars, frontierVars, resultVars
  <2>2. at' = at \/ at' \in {"done", "error"}
    BY <1>3 DEF Finish, Cancel, vars
  <2> QED BY <2>1, <2>2
          DEF Counters, CounterType, StagnationBound, InRound, Leeway, At
<1> QED BY <1>1, <1>2, <1>3, GateStep, ReflectStep, ProbeStep, EndProbesStep,
           MutateStep DEF Next, Loop, Returned

LEMMA TypeInvHolds == Spec => []TypeInv
<1>1. TypeInv /\ [Next]_vars => TypeInv'
  BY CounterStep, DataStep, FlagStep DEF TypeInv
<1> QED BY <1>1, TypeInvInit, PTL DEF Spec

\* Every state of the loop is well typed; in particular the stagnation counter
\* never outgrows the rounds.
THEOREM TypeCorrect == Spec => []TypeOK
<1>1. TypeInv => TypeOK
  BY TypeParts DEF TypeInv, Counters
<1> QED BY <1>1, TypeInvHolds, PTL

-----------------------------------------------------------------------------
(* Restarts and late stages. *)

\* Restarts are spaced by the stagnation limit: the bound on the stagnation
\* counter leaves no room for an earlier one.
THEOREM RestartsSpacedHolds == Spec => RestartsSpaced
<1>1. ASSUME TypeInv, [Next]_vars, restarted' # restarted
      PROVE  IF restarted = 0 THEN restarted' > StagnationLimit
                              ELSE restarted' - restarted >= StagnationLimit
  <2>1. Mutate
    BY <1>1 DEF Next, Loop, Returned, vars, Gate, Reflect, Probe, EndProbes,
                Child, Finish, UnitError, Cancel
  <2>2. restarted' = round /\ stagnant >= StagnationLimit
    BY <1>1, <2>1 DEF Mutate, Restart
  <2>3. Counters /\ InRound
    BY <1>1, <2>1 DEF TypeInv, Mutate, InRound
  <2>4. /\ stagnant \in Nat /\ round \in Nat /\ restarted \in Nat
        /\ stagnant + restarted <= round - 1 + Leeway
    BY <2>3, InRoundFacts
  <2> QED BY <2>2, <2>4, GepaAssumption, LoopAssumption DEF Leeway
<1>2. TypeInv /\ [Next]_vars =>
        [restarted' # restarted =>
           IF restarted = 0 THEN restarted' > StagnationLimit
                            ELSE restarted' - restarted >= StagnationLimit]_vars
  BY <1>1
<1> QED BY <1>2, TypeInvHolds, PTL DEF Spec, RestartsSpaced

\* A round begins before any soft stop.  A stage that spends after one is the
\* round's mutation, and the round that let it through is the last.
LateStageInv ==
  /\ at = "reflect" => ~ budget.softStop
  /\ lateStages <= 1
  /\ lateStages > 0 =>
       /\ budget.softStop
       /\ at \notin {"reflect", "probe", "mutate"}

LEMMA LateStageStep ==
  ASSUME TypeInv, LateStageInv, [Next]_vars
  PROVE  LateStageInv'
<1> lateStages \in Nat /\ budget \in Budgets /\ cancelled \in BOOLEAN
  BY DEF TypeInv, Counters, CounterType, FlagType
<1>1. CASE Gate
  <2>1. UNCHANGED <<budget, lateStages>>
    BY <1>1 DEF Gate
  <2>2. at' \in {"finish", "reflect"} /\ (at' = "reflect" => ~ budget.softStop)
    BY <1>1 DEF Gate, Stop, Stopped
  <2> QED BY <2>1, <2>2 DEF LateStageInv
<1>2. CASE Reflect
  <2>1. lateStages = 0 /\ ~ budget.softStop
    BY <1>2 DEF LateStageInv, Reflect
  <2>2. lateStages' = 0
    BY <1>2, <2>1 DEF Reflect, StageHistory
  <2>3. at' # "reflect"
    BY <1>2 DEF Reflect, Stop
  <2> QED BY <2>2, <2>3 DEF LateStageInv
<1>3. CASE Probe \/ EndProbes
  <2>1. lateStages = 0 /\ UNCHANGED lateStages /\ at' # "reflect"
    BY <1>3 DEF LateStageInv, Probe, EndProbes, Stop
  <2> QED BY <2>1 DEF LateStageInv
<1>4. CASE Mutate
  <2>1. lateStages = 0 /\ at' \in {"finish", "gate", "child"}
    BY <1>4 DEF LateStageInv, Mutate, Stop
  <2>2. budget'.softStop = budget.softStop
    BY <1>4, StageFacts DEF Mutate
  <2>3. lateStages' = 0 \/ (lateStages' = 1 /\ budget.softStop)
    BY <1>4, <2>1 DEF Mutate, StageHistory
  <2> QED BY <2>1, <2>2, <2>3 DEF LateStageInv
<1>5. CASE Child
  <2>1. budget.softStop => budget'.softStop
    BY <1>5, CellCount, UnitFacts DEF Child
  <2>2. at' \in {"finish", "gate", "error"} /\ UNCHANGED lateStages
    BY <1>5, ChildFacts DEF Child
  <2> QED BY <2>1, <2>2 DEF LateStageInv
<1>6. CASE UnitError \/ Finish \/ Cancel \/ UNCHANGED vars
  <2>1. UNCHANGED <<budget, lateStages>> /\ at' \in {at, "done", "error"}
    BY <1>6 DEF UnitError, Finish, Cancel, vars
  <2> QED BY <2>1 DEF LateStageInv
<1> QED BY <1>1, <1>2, <1>3, <1>4, <1>5, <1>6 DEF Next, Loop, Returned

\* At most one optimiser stage spends tokens after a soft stop.
THEOREM AtMostOneLateStageHolds == Spec => []AtMostOneLateStage
<1>1. Init => LateStageInv
  BY DEF Init, LateStageInv
<1>2. LateStageInv => AtMostOneLateStage
  BY DEF LateStageInv, AtMostOneLateStage
<1> QED BY <1>1, <1>2, LateStageStep, TypeInvHolds, PTL DEF Spec

-----------------------------------------------------------------------------
(* Admission and the lineage. *)

\* The frontier, the lineage and what the properties remember agree on the ids:
\* every round writes once, and this round has not written yet.
Written == \A l \in lineage : l.id <= round /\ (InRound => l.id < round)

Numbered ==
  /\ \A a \in admitted : a.id <= round /\ (InRound => a.id < round)
  /\ \A r \in whole : r <= round /\ (InRound => r < round)

LineageInv ==
  /\ Written /\ Numbered
  /\ OnlyWholeMembers
  /\ members \subseteq admitted
  /\ LineageExplainsFrontier

LEMMA LineageInit == Init => LineageInv
<1> SUFFICES ASSUME Init PROVE LineageInv
  OBVIOUS
<1>1. PICK m \in Candidate : m.id = 0 /\ members = {m}
  BY InitShape
<1>2. /\ lineage = {[id |-> 0, admitted |-> TRUE, incomplete |-> FALSE]}
      /\ admitted = {m} /\ whole = {} /\ round = 0 /\ at = "gate"
  BY <1>1 DEF Init
<1> QED BY <1>1, <1>2 DEF LineageInv, Written, Numbered, OnlyWholeMembers,
                          LineageExplainsFrontier, InRound

\* Ids are numbers.
LEMMA IdType ==
  ASSUME DataType
  PROVE  /\ \A l \in lineage : l.id \in Nat
         /\ \A a \in admitted : a.id \in Nat
         /\ \A r \in whole : r \in Nat
<1>1. \A l \in Lineage : l.id \in 0 .. MaxRounds
  BY DEF Lineage, Lineages
<1>2. \A m \in Candidate : m.id \in 0 .. MaxRounds
  BY Zenon DEF Candidate, Candidates
<1>3. MaxRounds \in Nat
  BY GepaAssumption, LoopAssumption
<1>4. lineage \subseteq Lineage /\ admitted \subseteq Candidate
      /\ whole \subseteq 1 .. MaxRounds
  BY DEF DataType
<1> QED BY <1>1, <1>2, <1>3, <1>4

\* Steps that end or begin a round without a child.
LEMMA LineageFrame ==
  ASSUME LineageInv, UNCHANGED frontierVars, Counters, DataType,
         \/ UNCHANGED round /\ (InRound' => InRound)
         \/ round' = round + 1,
         at' # "error" => at # "error"
  PROVE  LineageInv'
<1>1. UNCHANGED <<lineage, admitted, members, whole>>
  BY DEF frontierVars
<1>2. round \in Nat
  BY GepaAssumption, LoopAssumption DEF Counters, CounterType
<1>3. Written' /\ Numbered'
  <2>1. ASSUME NEW i \in Nat, i <= round /\ (InRound => i < round)
        PROVE  i <= round' /\ (InRound' => i < round')
    BY <1>2, <2>1
  <2>2. \A l \in lineage : l.id <= round' /\ (InRound' => l.id < round')
    BY <2>1, IdType DEF LineageInv, Written
  <2>3. /\ \A a \in admitted : a.id <= round' /\ (InRound' => a.id < round')
        /\ \A r \in whole : r <= round' /\ (InRound' => r < round')
    BY <2>1, IdType DEF LineageInv, Numbered
  <2> QED BY <1>1, <2>2, <2>3 DEF Written, Numbered
<1> QED BY <1>1, <1>3 DEF LineageInv, OnlyWholeMembers, LineageExplainsFrontier

\* The child's evaluation writes one record, which agrees with what is kept.
LEMMA LineageChild ==
  ASSUME TypeInv, LineageInv, Child
  PROVE  LineageInv'
<1>1. PICK d \in 0 .. Cardinality(Cells) :
        /\ IF Complete(d) THEN \E m \in Candidate : m.id = round /\ Admit(m)
                          ELSE MarkIncomplete
        /\ whole' = IF Complete(d) THEN whole \cup {round} ELSE whole
  BY ChildShape DEF TypeInv, Counters, CounterType
<1>2. /\ at = "child" /\ InRound /\ round' = round
      /\ round \in Nat /\ round >= 1
  BY InRoundFacts DEF Child, InRound, TypeInv
<1>3. ~ InRound'
  BY ChildFacts DEF InRound
<1>4. /\ \A l \in lineage : l.id \in Nat /\ l.id < round
      /\ \A a \in admitted : a.id \in Nat /\ a.id < round
      /\ \A r \in whole : r \in Nat /\ r < round
  BY <1>2, IdType DEF LineageInv, Written, Numbered, TypeInv
<1>5. /\ \A x \in members : \E l \in lineage : l.id = x.id /\ l.admitted
      /\ \A l \in lineage : l.admitted <=> \E a \in admitted : a.id = l.id
      /\ \A l \in lineage : l.incomplete <=> l.id \notin whole \cup {0}
      /\ \A k, l \in lineage : k.id = l.id => k = l
  BY <1>2 DEF LineageInv, LineageExplainsFrontier
<1>6. CASE Complete(d)
  <2>1. PICK m \in Candidate : m.id = round /\ Admit(m)
    BY <1>1, <1>6
  <2>2. whole' = whole \cup {round}
    BY <1>1, <1>6
  <2>3. /\ members' \subseteq admitted'
        /\ members' \subseteq members \cup {m}
        /\ admitted' = IF Refused(members, m) THEN admitted
                                              ELSE admitted \cup {m}
        /\ Refused(members, m) => members' = members
    BY <2>1 DEF Admit, Offered, Recorded, Joined, AddNoiseAware, LineageInv
  <2>4. OnlyWholeMembers'
    BY <2>1, <2>2, <2>3 DEF LineageInv, OnlyWholeMembers
  <2>5. Numbered'
    BY <1>2, <1>3, <1>4, <2>1, <2>2, <2>3 DEF Numbered
  <2>6. CASE at' = "error" /\ UNCHANGED lineage
    <3>1. Written'
      BY <1>2, <1>3, <1>4, <2>6 DEF Written
    <3> QED BY <2>3, <2>4, <2>5, <2>6, <3>1
            DEF LineageInv, LineageExplainsFrontier
  <2>7. CASE \E b \in BOOLEAN :
               /\ b = ~ Refused(members, m)
               /\ lineage' = lineage \cup
                    {[id |-> round, admitted |-> b, incomplete |-> FALSE]}
    <3>1. PICK b \in BOOLEAN :
            /\ b = ~ Refused(members, m)
            /\ lineage' = lineage \cup
                 {[id |-> round, admitted |-> b, incomplete |-> FALSE]}
      BY <2>7
    <3>2. Written'
      BY <1>2, <1>3, <1>4, <3>1 DEF Written
    <3> DEFINE n == [id |-> round, admitted |-> b, incomplete |-> FALSE]
    <3>0. /\ lineage' = lineage \cup {n}
          /\ n.id = round /\ n.admitted = b /\ n.incomplete = FALSE
      BY <3>1
    <3> HIDE DEF n
    <3>3. \A x \in members' : \E l \in lineage' : l.id = x.id /\ l.admitted
      <4>1. CASE Refused(members, m)
        BY <1>5, <2>3, <3>0, <4>1
      <4>2. CASE ~ Refused(members, m)
        <5>1. n \in lineage' /\ n.id = m.id /\ n.admitted
          BY <2>1, <3>0, <3>1, <4>2
        <5>2. \A x \in members : \E l \in lineage' : l.id = x.id /\ l.admitted
          BY <1>5, <3>0
        <5> QED BY <2>3, <5>1, <5>2
      <4> QED BY <4>1, <4>2
    <3>4. \A l \in lineage' : l.admitted <=> \E a \in admitted' : a.id = l.id
      <4>1. n.admitted <=> \E a \in admitted' : a.id = n.id
        <5>1. \A a \in admitted : a.id # round
          BY <1>2, <1>4
        <5> QED BY <2>1, <2>3, <3>0, <3>1, <5>1
      <4>2. \A l \in lineage : l.admitted <=> \E a \in admitted' : a.id = l.id
        <5>1. \A l \in lineage : l.id # round
          BY <1>2, <1>4
        <5>2. \A l \in lineage : (\E a \in admitted' : a.id = l.id)
                                  <=> \E a \in admitted : a.id = l.id
          BY <2>1, <2>3, <5>1
        <5> QED BY <1>5, <5>2
      <4> QED BY <3>0, <4>1, <4>2
    <3>5. \A l \in lineage' : l.incomplete <=> l.id \notin whole' \cup {0}
      <4>1. n.incomplete <=> n.id \notin whole' \cup {0}
        BY <2>2, <3>0
      <4>2. \A l \in lineage : l.incomplete <=> l.id \notin whole' \cup {0}
        <5>1. \A l \in lineage : l.id # round
          BY <1>2, <1>4
        <5> QED BY <1>5, <2>2, <5>1
      <4> QED BY <3>0, <4>1, <4>2
    <3>6. \A k, l \in lineage' : k.id = l.id => k = l
      <4>1. \A l \in lineage : l.id # n.id
        BY <1>2, <1>4, <3>0
      <4> QED BY <1>5, <3>0, <4>1
    <3> QED BY <2>3, <2>4, <2>5, <3>2, <3>3, <3>4, <3>5, <3>6
            DEF LineageInv, LineageExplainsFrontier
  <2>8. Refused(members, m) \in BOOLEAN
    BY Zenon DEF Refused
  <2> QED BY <2>1, <2>6, <2>7, <2>8 DEF Admit, Offered, Recorded, RecordedAdmitted
<1>7. CASE ~ Complete(d)
  <2>1. /\ UNCHANGED <<members, admitted, whole>>
        /\ \/ lineage' = lineage \cup
                {[id |-> round, admitted |-> FALSE, incomplete |-> TRUE]}
           \/ at' = "error" /\ UNCHANGED lineage
    BY <1>1, <1>7 DEF MarkIncomplete, RecordedIncomplete
  <2>2. /\ Written' /\ Numbered' /\ OnlyWholeMembers'
        /\ members' \subseteq admitted'
    BY <1>2, <1>3, <1>4, <2>1
       DEF Written, Numbered, OnlyWholeMembers, LineageInv
  <2>3. CASE at' = "error"
    BY <2>2, <2>3 DEF LineageInv, LineageExplainsFrontier
  <2>4. CASE lineage' = lineage \cup
               {[id |-> round, admitted |-> FALSE, incomplete |-> TRUE]}
    <3> DEFINE n == [id |-> round, admitted |-> FALSE, incomplete |-> TRUE]
    <3>1. /\ lineage' = lineage \cup {n}
          /\ n.id = round /\ n.admitted = FALSE /\ n.incomplete = TRUE
      BY <2>4
    <3> HIDE DEF n
    <3>2. \A l \in lineage : l.id # n.id
      BY <1>2, <1>4, <3>1
    <3>3. \A x \in members' : \E l \in lineage' : l.id = x.id /\ l.admitted
      BY <1>5, <2>1, <3>1
    <3>4. \A l \in lineage' : l.admitted <=> \E a \in admitted' : a.id = l.id
      <4>1. \A a \in admitted : a.id # n.id
        BY <1>2, <1>4, <3>1
      <4> QED BY <1>5, <2>1, <3>1, <4>1
    <3>5. \A l \in lineage' : l.incomplete <=> l.id \notin whole' \cup {0}
      <4>1. n.id \notin whole \cup {0}
        BY <1>2, <1>4, <3>1
      <4> QED BY <1>5, <2>1, <3>1, <4>1
    <3>6. \A k, l \in lineage' : k.id = l.id => k = l
      BY <1>5, <3>1, <3>2
    <3> QED BY <2>2, <3>3, <3>4, <3>5, <3>6
            DEF LineageInv, LineageExplainsFrontier
  <2> QED BY <2>1, <2>3, <2>4
<1> QED BY <1>1, <1>6, <1>7

LEMMA LineageStep ==
  ASSUME TypeInv, LineageInv, [Next]_vars
  PROVE  LineageInv'
<1>1. CASE Child
  BY <1>1, LineageChild
<1>2. CASE Gate
  <2>1. /\ UNCHANGED frontierVars /\ at = "gate"
        /\ \/ UNCHANGED round /\ ~ InRound'
           \/ round' = round + 1
    BY <1>2 DEF Gate, Stop, InRound
  <2> QED BY <2>1, LineageFrame DEF TypeInv
<1>3. CASE Reflect \/ Probe \/ EndProbes \/ Mutate \/ UnitError \/ Finish
           \/ Cancel \/ UNCHANGED vars
  <2>1. /\ UNCHANGED <<frontierVars, round>>
        /\ InRound' => InRound
        /\ at' # "error" => at # "error"
    BY <1>3 DEF Reflect, Probe, EndProbes, Mutate, UnitError, Finish, Cancel,
                vars, InRound
  <2> QED BY <2>1, LineageFrame DEF TypeInv
<1> QED BY <1>1, <1>2, <1>3 DEF Next, Loop, Returned

LEMMA LineageInvHolds == Spec => []LineageInv
BY LineageInit, LineageStep, TypeInvHolds, PTL DEF Spec

\* Only candidates evaluated on every retained sample are on the frontier,
\* whatever cut an evaluation short.
THEOREM OnlyWholeMembersHolds == Spec => []OnlyWholeMembers
<1>1. LineageInv => OnlyWholeMembers
  BY DEF LineageInv
<1> QED BY <1>1, LineageInvHolds, PTL

\* The lineage explains the frontier: its records and the members, the
\* admissions and the incomplete children agree as long as it can be written.
THEOREM LineageExplainsFrontierHolds == Spec => []LineageExplainsFrontier
<1>1. LineageInv => LineageExplainsFrontier
  BY DEF LineageInv
<1> QED BY <1>1, LineageInvHolds, PTL

\* Both together: who is a member, and why, is on disk.
THEOREM MembersExplainedHolds == Spec => []MembersExplained
<1>1. OnlyWholeMembers /\ LineageExplainsFrontier => MembersExplained
  BY DEF MembersExplained
<1> QED BY <1>1, OnlyWholeMembersHolds, LineageExplainsFrontierHolds, PTL

-----------------------------------------------------------------------------
(* The deliverable. *)

\* Ids name candidates; every one offered is matched by a member up to the
\* noise; and the loop's record is the largest mean that was offered.
OfferedOnce ==
  /\ IsFiniteSet(offered) /\ members # {}
  /\ \A x \in offered : x.id <= latest
  /\ \A x, y \in offered : x.id = y.id => x = y

RecordKept ==
  /\ \A o \in offered : Sum(o.row) <= bestMean
  /\ \E o \in offered : bestMean = Sum(o.row)

BestInv ==
  /\ OfferedOnce
  /\ CoveredBy(offered, members)
  /\ at # "error" => RecordKept

LEMMA OfferedChoosable ==
  ASSUME DataType, OfferedOnce
  PROVE  /\ Choosable(members) /\ offered \subseteq Candidates(Nat)
         /\ members \subseteq offered /\ offered # {}
<1>1. 0 .. MaxRounds \subseteq Nat
  BY GepaAssumption, LoopAssumption
<1>2. Candidate \subseteq Candidates(Nat)
  BY <1>1 DEF Candidate, Candidates
<1>3. members \subseteq offered /\ IsFiniteSet(members)
  BY FS_Subset DEF DataType, OfferedOnce
<1> QED BY <1>2, <1>3 DEF Choosable, DataType, OfferedOnce

LEMMA BestInit == Init => BestInv
<1> SUFFICES ASSUME Init PROVE BestInv
  OBVIOUS
<1>1. PICK m \in Candidate : /\ m.id = 0 /\ m \in Candidates(Nat)
                             /\ members = {m} /\ bestMean = Sum(m.row)
  BY InitShape
<1>2. offered = {m} /\ latest = 0
  BY <1>1 DEF Init
<1>3. OfferedOnce
  <2>1. IsFiniteSet({m})
    BY FS_Singleton
  <2> QED BY <1>1, <1>2, <2>1 DEF OfferedOnce
<1>4. CoveredBy({m}, {m})
  <2>1. BlurOf({m}) \in Nat /\ m.row \in [Cells -> Int]
    BY <1>1, BlurFacts, RowFacts
  <2>2. Within(m.row, m.row, BlurOf({m}))
    BY <2>1 DEF Within
  <2> QED BY <2>2 DEF CoveredBy
<1>5. Sum(m.row) \in Int
  BY <1>1, SumFacts
<1> QED BY <1>1, <1>2, <1>3, <1>4, <1>5 DEF BestInv, RecordKept

\* A child that is offered is matched, and raises the record if it is better.
LEMMA BestChild ==
  ASSUME TypeInv, TypeInv', BestInv, Child
  PROVE  BestInv'
<1>1. PICK d : IF Complete(d) THEN \E m \in Candidate : m.id = round /\ Admit(m)
                              ELSE MarkIncomplete
  BY ChildShape DEF TypeInv, Counters, CounterType
<1>2. CASE MarkIncomplete
  <2>1. /\ UNCHANGED <<bestMean, members, offered, latest>>
        /\ at # "error"
    BY <1>2 DEF MarkIncomplete, Child
  <2> QED BY <2>1 DEF BestInv, OfferedOnce, RecordKept
<1>3. ASSUME NEW m \in Candidate, m.id = round, Admit(m)
      PROVE  BestInv'
  <2>1. /\ latest' = round /\ members' = AddNoiseAware(members, m)
        /\ offered' = offered \cup {m}
        /\ at' # "error" => bestMean' = IF Sum(m.row) > bestMean THEN Sum(m.row)
                                                                 ELSE bestMean
        /\ at # "error"
    BY <1>3 DEF Admit, Offered, Joined, Progress, Child
  <2>2. /\ round \in Nat /\ latest \in Nat /\ latest < round
        /\ \A x \in offered : x.id \in Nat
        /\ m.id \in Nat
    <3>1. DataType /\ OfferedOnce
      BY DEF TypeInv, BestInv
    <3>2. \A x \in offered : x.id \in Nat
      BY <3>1, OfferedChoosable, RowFacts
    <3> QED BY <1>3, <3>2, InRoundFacts
            DEF TypeInv, Counters, CounterType, StagnationBound, InRound, Child
  <2>3. OfferedOnce'
    <3>1. IsFiniteSet(offered')
      BY <2>1, FS_AddElement DEF BestInv, OfferedOnce
    <3>2. members' # {}
      BY <2>1 DEF BestInv, OfferedOnce, AddNoiseAware
    <3>3. \A x \in offered : x.id < round
      BY <2>2 DEF BestInv, OfferedOnce
    <3>4. \A x \in offered' : x.id <= latest'
      BY <1>3, <2>1, <2>2, <3>3
    <3>5. \A x, y \in offered' : x.id = y.id => x = y
      BY <1>3, <2>1, <2>2, <3>3 DEF BestInv, OfferedOnce
    <3> QED BY <3>1, <3>2, <3>4, <3>5 DEF OfferedOnce
  <2>4. /\ offered \subseteq Candidates(Nat) /\ offered # {}
        /\ members \subseteq offered /\ m \in Candidates(Nat)
    <3>1. DataType /\ OfferedOnce
      BY DEF TypeInv, BestInv
    <3>2. m \in Candidates(Nat)
      <4>1. 0 .. MaxRounds \subseteq Nat
        BY GepaAssumption, LoopAssumption
      <4> QED BY <4>1 DEF Candidate, Candidates
    <3> QED BY <3>1, <3>2, OfferedChoosable
  <2>5. CoveredBy(offered', members')
    <3>1. CoveredBy(offered, members)
      BY DEF BestInv
    <3> QED BY <2>1, <2>4, <3>1, AdmissionCovers
  <2>6. at' # "error" => RecordKept'
    <3>1. /\ \A o \in offered : Sum(o.row) \in Int /\ Sum(o.row) <= bestMean
          /\ Sum(m.row) \in Int
          /\ \E o \in offered : bestMean = Sum(o.row)
      BY <2>1, <2>4, SumFacts DEF BestInv, RecordKept
    <3>2. CASE Sum(m.row) > bestMean
      BY <2>1, <3>1, <3>2 DEF RecordKept
    <3>3. CASE ~ (Sum(m.row) > bestMean)
      BY <2>1, <3>1, <3>3 DEF RecordKept
    <3> QED BY <3>2, <3>3
  <2> QED BY <2>3, <2>5, <2>6 DEF BestInv
<1> QED BY <1>1, <1>2, <1>3

LEMMA BestStep ==
  ASSUME TypeInv, TypeInv', BestInv, [Next]_vars
  PROVE  BestInv'
<1>1. CASE Child
  BY <1>1, BestChild
<1>2. CASE UNCHANGED frontierVars /\ (at' # "error" => at # "error")
  BY <1>2 DEF BestInv, OfferedOnce, RecordKept, frontierVars
<1> QED BY <1>1, <1>2
        DEF Next, Loop, Returned, vars, Gate, Reflect, Probe, EndProbes,
            Mutate, Finish, UnitError, Cancel

\* The largest mean offered is matched up to the noise, and nothing offered is
\* left without a match.
LEMMA BestConsequences ==
  ASSUME TypeInv, BestInv
  PROVE  BestDelivered
<1>1. /\ Choosable(members) /\ offered \subseteq Candidates(Nat)
      /\ members \subseteq offered /\ offered # {}
      /\ CoveredBy(offered, members)
  BY OfferedChoosable DEF TypeInv, BestInv
<1>2. Blur = BlurOf(offered)
  BY DEF Blur, BlurOf, Noise, NoiseOf
<1>3. Slack = Cardinality(Cells) * BlurOf(offered)
  BY <1>2 DEF Slack
<1>4. DeliversTheBest
  <2>1. ASSUME NEW o \in offered
        PROVE  \/ AtLeastAsGood(Best(members), o, Slack)
               \/ \E n \in members :
                    Constrained /\ n.rate < o.rate /\ Within(o.row, n.row, Blur)
    BY <1>1, <1>2, <1>3, CoveredIsDelivered
  <2> QED BY <2>1 DEF DeliversTheBest
<1>5. ASSUME at # "error"
      PROVE  /\ \A m \in members : Sum(m.row) <= bestMean
             /\ \E m \in members : /\ bestMean <= Sum(m.row) + Slack
                                   /\ ~ Constrained => m = Best(members)
  <2>1. RecordKept
    BY <1>5 DEF BestInv
  <2>2. PICK o \in offered : bestMean = Sum(o.row)
    BY <2>1 DEF RecordKept
  <2>3. PICK n \in members : Within(o.row, n.row, BlurOf(offered))
    BY <1>1 DEF CoveredBy
  <2>4. /\ BlurOf(offered) \in Nat /\ o \in Candidates(Nat)
        /\ n \in Candidates(Nat)
    BY <1>1, BlurFacts
  <2>5. bestMean <= Sum(n.row) + Slack
    BY <1>3, <2>2, <2>3, <2>4, SumFacts
  <2>6. CASE Constrained
    BY <1>1, <2>1, <2>5, <2>6 DEF RecordKept
  <2>7. CASE ~ Constrained
    <3>1. Best(members) \in members /\ Sum(n.row) <= Sum(Best(members).row)
      BY <1>1, <2>7, BestFacts
    <3>2. /\ Sum(Best(members).row) \in Int /\ Sum(n.row) \in Int
          /\ bestMean \in Int
      BY <1>1, <2>2, <2>4, <3>1, SumFacts
    <3>3. Slack \in Int
      <4>1. Cardinality(Cells) \in Nat
        BY CellCount
      <4> QED BY <1>3, <2>4, <4>1
    <3>4. bestMean <= Sum(Best(members).row) + Slack
      BY <2>5, <3>1, <3>2, <3>3
    <3> QED BY <1>1, <2>1, <3>1, <3>4 DEF RecordKept
  <2> QED BY <2>6, <2>7
<1> QED BY <1>4, <1>5 DEF BestDelivered, ProgressTracksBest

\* Whatever was refused, admitted or evicted on the way, and however noisy the
\* rows and strict the constraint, the record by which the loop tells progress
\* from stagnation stays with the frontier, and nothing it evaluated in full is
\* better than the deliverable, up to the noise and to what meeting the
\* constraint may cost (gepa.go and Frontier.AddNoiseAware against
\* Frontier.Best).
THEOREM BestDeliveredHolds == Spec => []BestDelivered
<1>1. TypeInv /\ [Next]_vars /\ BestInv /\ TypeInv' => BestInv'
  BY BestStep
<1>2. TypeInv /\ BestInv => BestDelivered
  BY BestConsequences
<1> QED BY BestInit, <1>1, <1>2, TypeInvHolds, PTL DEF Spec

-----------------------------------------------------------------------------
(* Refinement. *)

\* The operators of the instance are those of the loop.
LEMMA SameOperators ==
  ASSUME NEW S, NEW m
  PROVE  /\ ParetoFrontier!Refused(S, m) = Refused(S, m)
         /\ ParetoFrontier!AddNoiseAware(S, m) = AddNoiseAware(S, m)
<1>1. \A x, y : ParetoFrontier!Beats(x, y) = Beats(x, y)
  BY DEF Beats, BothRepeated, DominatesWithMargin, MarginOf, Dominates, Below,
         ParetoFrontier!Beats, ParetoFrontier!BothRepeated,
         ParetoFrontier!DominatesWithMargin, ParetoFrontier!MarginOf,
         ParetoFrontier!Dominates, ParetoFrontier!Below
<1>2. \A x, y : ParetoFrontier!Same(x, y) = Same(x, y)
  BY DEF Same, BothRepeated, IsEpsClone, MarginOf, ParetoFrontier!Same,
         ParetoFrontier!BothRepeated, ParetoFrontier!IsEpsClone,
         ParetoFrontier!MarginOf
<1>3. ParetoFrontier!Refused(S, m) = Refused(S, m)
  BY <1>1, <1>2 DEF Refused, ParetoFrontier!Refused
<1>4. ParetoFrontier!Evicted(S, m) = Evicted(S, m)
  BY <1>1 DEF Evicted, ParetoFrontier!Evicted
<1> QED BY <1>3, <1>4 DEF AddNoiseAware, ParetoFrontier!AddNoiseAware

\* The rows of the loop are rows the frontier expects.
LEMMA SameCandidates ==
  ASSUME NEW m \in Candidate, m.id \in 0 .. MaxRounds
  PROVE  m \in ParetoFrontier!Measured(m.id)
<1>1. m \in ParetoFrontier!Candidate
  BY DEF Candidate, Candidates, ParetoFrontier!Candidate
<1>2. ~ m.repeated => \A c \in Cells : m.sd[c] = 0
  BY DEF Candidate, Candidates
<1> QED BY <1>1, <1>2 DEF ParetoFrontier!Measured

\* What the loop does to its frontier, over any number of rounds, is what
\* Frontier allows: the theorems about Frontier hold of the run's frontier.
THEOREM UsesFrontierHolds == Spec => UsesFrontier
<1>1. Init => ParetoFrontier!Init
  <2> SUFFICES ASSUME Init PROVE ParetoFrontier!Init
    OBVIOUS
  <2>1. PICK m \in Candidate : m.id = 0 /\ members = {m}
    BY InitShape
  <2>2. m \in ParetoFrontier!Measured(0)
    BY <2>1, SameCandidates, GepaAssumption, LoopAssumption
  <2> QED BY <2>1, <2>2 DEF Init, ParetoFrontier!Init
<1>2. ASSUME TypeInv, [Next]_vars
      PROVE  ParetoFrontier!Next \/ UNCHANGED <<members, latest, offered, admitted>>
  <2>1. CASE Child
    <3>1. PICK d : IF Complete(d) THEN \E m \in Candidate : m.id = round /\ Admit(m)
                                  ELSE MarkIncomplete
      BY <1>2, <2>1, ChildShape DEF TypeInv, Counters, CounterType
    <3>2. CASE MarkIncomplete
      BY <3>2 DEF MarkIncomplete, RecordedIncomplete
    <3>3. ASSUME NEW m \in Candidate, m.id = round, Admit(m)
          PROVE  ParetoFrontier!Next
      <4>1. /\ latest' = round /\ members' = AddNoiseAware(members, m)
            /\ offered' = offered \cup {m}
            /\ admitted' = IF Refused(members, m) THEN admitted
                                                  ELSE admitted \cup {m}
        BY <3>3 DEF Admit, Offered, Recorded, Joined
      <4>2. round \in latest + 1 .. MaxRounds /\ round \in 0 .. MaxRounds
        BY <1>2, <2>1, InRoundFacts, GepaAssumption, LoopAssumption
           DEF TypeInv, Counters, CounterType, StagnationBound, InRound, Child
      <4>3. m \in ParetoFrontier!Measured(latest')
        BY <3>3, <4>1, <4>2, SameCandidates
      <4> QED BY <4>1, <4>2, <4>3, SameOperators
              DEF ParetoFrontier!Next, ParetoFrontier!Offer
    <3> QED BY <3>1, <3>2, <3>3
  <2>2. CASE UNCHANGED frontierVars
    BY <2>2 DEF frontierVars
  <2> QED BY <1>2, <2>1, <2>2
          DEF Next, Loop, Returned, vars, Gate, Reflect, Probe, EndProbes,
              Mutate, Finish, UnitError, Cancel
<1>3. TypeInv /\ [Next]_vars => [ParetoFrontier!Next]_ParetoFrontier!vars
  BY <1>2 DEF ParetoFrontier!vars
<1> QED BY <1>1, <1>3, TypeInvHolds, PTL DEF Spec, UsesFrontier, ParetoFrontier!Spec

-----------------------------------------------------------------------------
(* The valve. *)

\* A stage has a largest cost.
CostsBounded == \E c \in StageCosts : \A d \in StageCosts : d <= c

LEMMA LargestCost ==
  ASSUME CostsBounded
  PROVE  MaxStageCost \in Nat /\ \A d \in StageCosts : d <= MaxStageCost
BY GepaAssumption, LoopAssumption DEF CostsBounded, MaxStageCost

\* A unit spends the executor's tokens, not the optimiser's.
LEMMA UnitSpares ==
  ASSUME NEW n \in Nat, NEW d, RunUnit(n, d), budget \in Budgets
  PROVE  budget'.usage["optimizer"] = budget.usage["optimizer"]
<1>1. PICK cost :
        budget' = RecordUsage(Acquire(budget, Reps * d), "executor", cost)
  BY DEF RunUnit
<1> QED BY <1>1 DEF RecordUsage, Acquire, Budgets, Role

\* A stage that spends starts below the limit.
LEMMA StageWithinBound ==
  ASSUME CostsBounded, ValveOvershootBounded, budget \in Budgets,
         brought \in Nat, UNCHANGED brought,
         StageRefused \/ StageFailed \/ StageDone
  PROVE  ValveOvershootBounded'
<1>1. CASE UNCHANGED budget
  BY <1>1 DEF ValveOvershootBounded
<1>2. CASE /\ ~ ValveTripped(budget)
           /\ \E c \in StageCosts : budget' = RecordUsage(budget, "optimizer", c)
  <2>1. PICK c \in StageCosts : budget' = RecordUsage(budget, "optimizer", c)
    BY <1>2
  <2>2. c \in Nat /\ MaxStageCost \in Nat /\ c <= MaxStageCost
    BY LargestCost, GepaAssumption, LoopAssumption
  <2>3. budget'.usage["optimizer"] = budget.usage["optimizer"] + c
    BY <2>1 DEF RecordUsage, Budgets, Role
  <2>4. budget.usage["optimizer"] \in Nat
    BY DEF Budgets, Role
  <2>5. OptLimit > 0 => budget.usage["optimizer"] < OptLimit
    BY <1>2, <2>4, GepaAssumption, LoopAssumption DEF ValveTripped
  <2>6. OptLimit > 0 => budget'.usage["optimizer"] < OptLimit + MaxStageCost
    BY <2>2, <2>3, <2>4, <2>5, GepaAssumption, LoopAssumption
  <2>7. OptLimit > 0 => ~ (brought >= OptLimit)
    BY <2>4, <2>5, GepaAssumption, LoopAssumption DEF ValveOvershootBounded
  <2> QED BY <2>6, <2>7 DEF ValveOvershootBounded
<1> QED BY <1>1, <1>2 DEF StageRefused, StageFailed, StageDone

\* However many stages a run has, the optimiser's tokens pass their limit by
\* less than one stage may cost; and once they have passed it before the loop,
\* by whatever the synthesis spent unstopped, the loop adds nothing.
THEOREM ValveOvershootBoundedHolds ==
  ASSUME CostsBounded
  PROVE  Spec => []ValveOvershootBounded
<1>1. Init => ValveOvershootBounded
  <2> SUFFICES ASSUME Init PROVE ValveOvershootBounded
    OBVIOUS
  <2>1. budget.usage["optimizer"] = brought /\ brought \in Nat
    BY InitShape
  <2> QED BY <2>1, LargestCost, GepaAssumption, LoopAssumption DEF ValveOvershootBounded
<1>2. ASSUME TypeInv, ValveOvershootBounded, [Next]_vars
      PROVE  ValveOvershootBounded'
  <2>0. budget \in Budgets /\ brought \in Nat /\ UNCHANGED brought
    <3>1. UNCHANGED brought
      BY <1>2 DEF Next, Loop, Returned, vars, Gate, Reflect, Probe, EndProbes,
                  Mutate, Child, Finish, UnitError, Cancel
    <3> QED BY <1>2, <3>1 DEF TypeInv, FlagType, Counters, CounterType
  <2>1. CASE Reflect \/ Mutate
    BY <1>2, <2>0, <2>1, StageWithinBound DEF Reflect, Mutate
  <2>2. CASE Probe \/ Child
    <3>1. budget'.usage["optimizer"] = budget.usage["optimizer"]
      <4>1. Batch \in Nat /\ Cardinality(Cells) \in Nat
        BY CellCount, GepaAssumption, LoopAssumption
      <4> QED BY <2>0, <2>2, <4>1, UnitSpares DEF Probe, Child
    <3> QED BY <1>2, <2>0, <3>1 DEF ValveOvershootBounded
  <2>3. CASE UNCHANGED budget
    BY <1>2, <2>0, <2>3 DEF ValveOvershootBounded
  <2> QED BY <1>2, <2>1, <2>2, <2>3
          DEF Next, Loop, Returned, vars, Gate, EndProbes, Finish, UnitError,
              Cancel
<1>3. TypeInv /\ ValveOvershootBounded /\ [Next]_vars => ValveOvershootBounded'
  BY <1>2
<1> QED BY <1>1, <1>3, TypeInvHolds, PTL DEF Spec

\* Both limits on what is still spent after a stop.
THEOREM StopsHeldHolds ==
  ASSUME CostsBounded
  PROVE  Spec => []StopsHeld
<1>1. ValveOvershootBounded /\ AtMostOneLateStage => StopsHeld
  BY DEF StopsHeld
<1> QED BY <1>1, ValveOvershootBoundedHolds, AtMostOneLateStageHolds, PTL

=============================================================================
