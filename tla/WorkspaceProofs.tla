--------------------------- MODULE WorkspaceProofs --------------------------
(***************************************************************************)
(* The workspace for any number of processes and any scenes: what the      *)
(* files hold, what each command makes of them, and what it leaves behind. *)
(***************************************************************************)
EXTENDS Workspace, TLAPS, NaturalsInduction, WellFoundedInduction,
        SequenceTheorems

(* The folds behind Less and Fresh, as runs along the sequence. *)

\* Every nonempty set of numbers has a least element.
LEMMA LeastNumber ==
  ASSUME NEW T \in SUBSET Nat, T # {}
  PROVE  \E n \in T : \A m \in T : n <= m
<1>1. ASSUME NEW m \in Nat, NEW n \in Nat, m < n
      PROVE  <<m, n>> \in OpToRel(<, Nat)
  <2>1. <<m, n>>[1] < <<m, n>>[2] /\ <<m, n>> \in Nat \X Nat
    BY <1>1
  <2> QED BY <2>1, Zenon DEF OpToRel
<1>2. PICK n \in T : \A m \in T : <<m, n>> \notin OpToRel(<, Nat)
  BY NatLessThanWellFounded, WFMin
<1>3. \A m \in T : ~ (m < n)
  BY <1>1, <1>2, Zenon
<1> QED BY <1>3

\* Induction over the numbers, stated of the set it is to hold of.
LEMMA NumberInduction ==
  ASSUME NEW N \in SUBSET Nat, 0 \in N, \A n \in N : n + 1 \in N
  PROVE  N = Nat
<1> SUFFICES ASSUME Nat \ N # {} PROVE FALSE
  OBVIOUS
<1>1. PICK n \in Nat \ N : \A m \in Nat \ N : n <= m
  BY LeastNumber
<1>2. n # 0 /\ n - 1 \in Nat
  BY <1>1
<1>3. n - 1 \in N
  BY <1>1, <1>2
<1> QED BY <1>1, <1>2, <1>3

\* A nonempty set of positions has a last one, and the others are before it.
LEMMA LastPosition ==
  ASSUME NEW n \in Nat, NEW s \in SUBSET (1 .. n), s # {}
  PROVE  /\ Max(s) \in s /\ \A i \in s : i <= Max(s)
         /\ \A m \in Nat : n <= m + 1 => s \ {Max(s)} \in SUBSET (1 .. m)
<1> DEFINE above == {m \in Nat : \A i \in s : i <= m}
<1>1. n \in above
  OBVIOUS
<1>2. PICK m \in above : \A k \in above : m <= k
  BY <1>1, LeastNumber
<1>3. m \in s
  <2> SUFFICES ASSUME m \notin s PROVE FALSE
    OBVIOUS
  <2>1. \A i \in s : i <= m - 1 /\ i >= 1 /\ i \in Nat
    BY <1>2
  <2>2. PICK i \in s : TRUE
    OBVIOUS
  <2>3. m \in Nat /\ m - 1 \in Nat
    BY <1>2, <2>1, <2>2
  <2>4. m - 1 \in above
    BY <2>1, <2>3
  <2> QED BY <1>2, <2>3, <2>4
<1>4. \E k \in s : \A i \in s : k >= i
  BY <1>2, <1>3
<1>5. Max(s) \in s /\ \A i \in s : Max(s) >= i
  BY <1>4 DEF Max
<1>6. ASSUME NEW k \in Nat, n <= k + 1, NEW i \in s \ {Max(s)}
      PROVE  i \in 1 .. k
  <2>1. i \in 1 .. n /\ Max(s) \in 1 .. n /\ i <= Max(s) /\ i # Max(s)
    BY <1>5, <1>6
  <2> HIDE DEF above
  <2> QED BY <1>6, <2>1
<1>7. \A k \in Nat : n <= k + 1 => s \ {Max(s)} \in SUBSET (1 .. k)
  BY <1>6
<1>8. \A i \in s : i <= Max(s)
  BY <1>5
<1> QED BY <1>5, <1>7, <1>8

LEMMA LastOfFirst ==
  ASSUME NEW n \in Nat
  PROVE  /\ 1 .. (n + 1) # {} /\ Max(1 .. (n + 1)) = n + 1
         /\ (1 .. (n + 1)) \ {n + 1} = 1 .. n
<1>1. n + 1 \in 1 .. (n + 1) /\ 1 .. (n + 1) \in SUBSET (1 .. (n + 1))
  OBVIOUS
<1>2. n + 1 \in Nat /\ 1 .. (n + 1) # {}
  BY <1>1
<1>3. Max(1 .. (n + 1)) \in 1 .. (n + 1) /\ n + 1 <= Max(1 .. (n + 1))
  BY <1>1, <1>2, LastPosition
<1> QED BY <1>1, <1>3

\* A fold from the last position down has a value on every set of positions: one
\* that is right up to some position gives one that is right up to the next.
FoldAt(g, step, base, s) ==
  IF s = {} THEN base ELSE step[<<Max(s), g[s \ {Max(s)}]>>]

Stays(n, V, step) == \A i \in 1 .. n, v \in V : step[<<i, v>>] \in V

Folded(n, V, step, base) ==
  \E g : \A s \in SUBSET (1 .. n) :
           g[s] \in V /\ g[s] = FoldAt(g, step, base, s)

LEMMA FoldExists ==
  ASSUME NEW n \in Nat, NEW V, NEW base, base \in V, NEW step, Stays(n, V, step)
  PROVE  Folded(n, V, step, base)
<1> USE DEF Stays
<1> DEFINE Folds == [SUBSET (1 .. n) -> V]
           Right(g, m) == \A s \in SUBSET (1 .. n) :
                            s \subseteq 1 .. m => g[s] = FoldAt(g, step, base, s)
           Good == {m \in Nat : \E g \in Folds : Right(g, m)}
<1>1. 0 \in Good
  <2> DEFINE g == [s \in SUBSET (1 .. n) |-> base]
  <2>1. g \in Folds
    OBVIOUS
  <2>2. \A s : s \subseteq 1 .. 0 => s = {}
    OBVIOUS
  <2>3. Right(g, 0)
    BY <2>2 DEF FoldAt
  <2> QED BY <2>1, <2>3
<1>2. ASSUME NEW m \in Good PROVE m + 1 \in Good
  <2>1. PICK g \in Folds : Right(g, m)
    OBVIOUS
  <2> DEFINE h == [s \in SUBSET (1 .. n) |-> FoldAt(g, step, base, s)]
  <2>2. ASSUME NEW s \in SUBSET (1 .. n) PROVE h[s] \in V
    <3>1. CASE s = {}
      BY <3>1 DEF FoldAt
    <3>2. CASE s # {}
      <4>1. Max(s) \in 1 .. n /\ s \ {Max(s)} \in SUBSET (1 .. n)
        BY <3>2, LastPosition
      <4>2. g[s \ {Max(s)}] \in V
        BY <4>1
      <4> QED BY <3>2, <4>1, <4>2 DEF FoldAt
    <3> QED BY <3>1, <3>2
  <2>3. h \in Folds
    BY <2>2
  <2>4. ASSUME NEW s \in SUBSET (1 .. n), s \subseteq 1 .. (m + 1)
        PROVE  h[s] = FoldAt(h, step, base, s)
    <3>1. CASE s = {}
      BY <3>1 DEF FoldAt
    <3>2. CASE s # {}
      <4> DEFINE t == s \ {Max(s)}
      <4>1. m + 1 \in Nat /\ s \in SUBSET (1 .. (m + 1))
        BY <2>4
      <4>2. t \in SUBSET (1 .. m) /\ t \in SUBSET (1 .. n)
        BY <3>2, <4>1, LastPosition
      <4>3. h[t] = g[t]
        BY <2>1, <4>2
      <4> QED BY <3>2, <4>3 DEF FoldAt
    <3> QED BY <3>1, <3>2
  <2>5. Right(h, m + 1)
    BY <2>4
  <2> HIDE DEF h, Right
  <2>6. \E k \in Folds : Right(k, m + 1)
    BY <2>3, <2>5, Zenon
  <2>7. m + 1 \in Nat
    OBVIOUS
  <2> QED BY <2>6, <2>7, Zenon
<1>3. Good \in SUBSET Nat
  OBVIOUS
<1> HIDE DEF Good
<1>4. n \in Good
  BY <1>1, <1>2, <1>3, NumberInduction
<1>5. PICK g \in Folds : Right(g, n)
  BY <1>4 DEF Good
<1> QED BY <1>5 DEF Folded

-----------------------------------------------------------------------------
(* Less: a sequence without the members of a set. *)

LessAt(g, seq, out, s) ==
  IF s = {} THEN <<>>
  ELSE IF seq[Max(s)] \in out THEN g[s \ {Max(s)}]
                              ELSE Append(g[s \ {Max(s)}], seq[Max(s)])
IsLess(g, seq, out) == g = [s \in SUBSET (DOMAIN seq) |-> LessAt(g, seq, out, s)]
LessFold(seq, out) == CHOOSE g : IsLess(g, seq, out)

\* h collects, position by position, what is not in out.
Collects(h, seq, out) ==
  /\ h[0] = <<>>
  /\ \A i \in 1 .. Len(seq) :
       h[i] = IF seq[i] \in out THEN h[i - 1] ELSE Append(h[i - 1], seq[i])

LEMMA LessFolds ==
  ASSUME NEW S, NEW seq \in Seq(S), NEW out
  PROVE  /\ Less(seq, out) = LessFold(seq, out)[1 .. Len(seq)]
         /\ \A s \in SUBSET (1 .. Len(seq)) :
              LessFold(seq, out)[s] = LessAt(LessFold(seq, out), seq, out, s)
<1> DEFINE n == Len(seq)
           step == [x \in (1 .. n) \X Seq(S) |->
                      IF seq[x[1]] \in out THEN x[2] ELSE Append(x[2], seq[x[1]])]
<1>1. n \in Nat /\ DOMAIN seq = 1 .. n /\ \A i \in 1 .. n : seq[i] \in S
  OBVIOUS
<1>2. Stays(n, Seq(S), step)
  BY <1>1 DEF Stays
<1>3. <<>> \in Seq(S)
  OBVIOUS
<1> HIDE DEF step, n
<1>4. PICK g : \A s \in SUBSET (1 .. n) :
                g[s] \in Seq(S) /\ g[s] = FoldAt(g, step, <<>>, s)
  <2>1. Folded(n, Seq(S), step, <<>>)
    BY <1>1, <1>2, <1>3, FoldExists
  <2> QED BY <2>1 DEF Folded
<1>5. ASSUME NEW s \in SUBSET (1 .. n) PROVE g[s] = LessAt(g, seq, out, s)
  <2>1. CASE s = {}
    BY <1>4, <2>1 DEF FoldAt, LessAt
  <2>2. CASE s # {}
    <3>1. Max(s) \in 1 .. n /\ s \ {Max(s)} \in SUBSET (1 .. n)
      BY <1>1, <2>2, LastPosition
    <3>2. <<Max(s), g[s \ {Max(s)}]>> \in (1 .. n) \X Seq(S)
      BY <1>4, <3>1
    <3>3. g[s] = step[<<Max(s), g[s \ {Max(s)}]>>]
      BY <1>4, <2>2 DEF FoldAt
    <3> QED BY <2>2, <3>2, <3>3 DEF step, LessAt
  <2> QED BY <2>1, <2>2
<1> DEFINE f == [s \in SUBSET (1 .. n) |-> g[s]]
<1>6. IsLess(f, seq, out)
  <2>1. ASSUME NEW s \in SUBSET (1 .. n) PROVE f[s] = LessAt(f, seq, out, s)
    <3>1. CASE s = {}
      BY <1>5, <3>1 DEF LessAt
    <3>2. CASE s # {}
      <4>1. s \ {Max(s)} \in SUBSET (1 .. n)
        OBVIOUS
      <4> QED BY <1>5, <3>2, <4>1 DEF LessAt
    <3> QED BY <3>1, <3>2
  <2> QED BY <1>1, <2>1 DEF IsLess
<1>7. IsLess(LessFold(seq, out), seq, out)
  BY <1>6 DEF LessFold
<1>8. Less(seq, out) = LessFold(seq, out)[DOMAIN seq]
  BY DEF Less, FoldLeft, MapThenFoldSet, LessFold, IsLess, LessAt
<1> HIDE DEF LessFold
<1> QED BY <1>1, <1>7, <1>8 DEF IsLess, n

\* The members of a longer sequence.
LEMMA AppendRange ==
  ASSUME NEW S, NEW seq \in Seq(S), NEW e
  PROVE  /\ Range(Append(seq, e)) = Range(seq) \cup {e}
         /\ InputsOf(Append(seq, e)) = InputsOf(seq) \cup {e.input}
BY DEF Range, InputsOf

LEMMA LessCollects ==
  ASSUME NEW S, NEW seq \in Seq(S), NEW out
  PROVE  \E h : /\ DOMAIN h = 0 .. Len(seq) /\ Collects(h, seq, out)
                /\ Less(seq, out) = h[Len(seq)]
<1> DEFINE g == LessFold(seq, out)
           h == [i \in 0 .. Len(seq) |-> g[1 .. i]]
<1>1. \A s \in SUBSET (1 .. Len(seq)) : g[s] = LessAt(g, seq, out, s)
  BY LessFolds
<1>2. Len(seq) \in Nat
  OBVIOUS
<1> HIDE DEF g
<1>3. h[0] = <<>>
  <2>1. 1 .. 0 = {} /\ {} \in SUBSET (1 .. Len(seq))
    OBVIOUS
  <2>2. g[{}] = <<>>
    BY <1>1, <2>1 DEF LessAt
  <2>3. h[0] = g[1 .. 0]
    BY <1>2
  <2> QED BY <2>1, <2>2, <2>3
<1>4. ASSUME NEW i \in 1 .. Len(seq)
      PROVE  h[i] = IF seq[i] \in out THEN h[i - 1] ELSE Append(h[i - 1], seq[i])
  <2>1. /\ i - 1 \in Nat /\ (i - 1) + 1 = i
        /\ i \in 0 .. Len(seq) /\ i - 1 \in 0 .. Len(seq)
    BY <1>2
  <2>2. 1 .. i # {} /\ Max(1 .. i) = i /\ (1 .. i) \ {i} = 1 .. (i - 1)
    BY <2>1, LastOfFirst
  <2>3. 1 .. i \in SUBSET (1 .. Len(seq))
    BY <1>2
  <2>4. g[1 .. i] = IF seq[i] \in out THEN g[1 .. (i - 1)]
                                      ELSE Append(g[1 .. (i - 1)], seq[i])
    BY <1>1, <2>2, <2>3 DEF LessAt
  <2> QED BY <2>1, <2>4
<1>5. Collects(h, seq, out)
  BY <1>3, <1>4 DEF Collects
<1>6. Less(seq, out) = h[Len(seq)]
  BY <1>2, LessFolds DEF g
<1> HIDE DEF h
<1>7. DOMAIN h = 0 .. Len(seq)
  BY DEF h
<1> QED BY <1>5, <1>6, <1>7

\* Nothing but what was there and is not in out, and all of that.
LEMMA LessFacts ==
  ASSUME NEW S, NEW seq \in Seq(S), NEW out
  PROVE  /\ Less(seq, out) \in Seq(S \ out)
         /\ Range(Less(seq, out)) = Range(seq) \ out
<1>1. PICK h : Collects(h, seq, out) /\ Less(seq, out) = h[Len(seq)]
  BY LessCollects
<1> DEFINE n == Len(seq)
           Right(i) == /\ h[i] \in Seq(S \ out)
                       /\ Range(h[i]) = {seq[j] : j \in 1 .. i} \ out
           Good == {i \in Nat : i <= n => Right(i)}
<1>2. n \in Nat /\ DOMAIN seq = 1 .. n /\ \A i \in 1 .. n : seq[i] \in S
  OBVIOUS
<1>3. 0 \in Good
  <2>1. h[0] = <<>> /\ 1 .. 0 = {}
    BY <1>1 DEF Collects
  <2>2. h[0] \in Seq(S \ out) /\ Range(h[0]) = {}
    BY <2>1 DEF Range
  <2>3. {seq[j] : j \in 1 .. 0} = {}
    BY <2>1
  <2> QED BY <2>2, <2>3
<1>4. ASSUME NEW i \in Good PROVE i + 1 \in Good
  <2> SUFFICES ASSUME i + 1 <= n PROVE Right(i + 1)
    OBVIOUS
  <2>1. i \in Nat /\ i + 1 \in 1 .. n /\ Right(i)
    BY <1>2
  <2>2. h[i + 1] = IF seq[i + 1] \in out THEN h[i] ELSE Append(h[i], seq[i + 1])
    BY <1>1, <2>1 DEF Collects
  <2>3. {seq[j] : j \in 1 .. (i + 1)} = {seq[j] : j \in 1 .. i} \cup {seq[i + 1]}
    BY <2>1
  <2>4. CASE seq[i + 1] \in out
    BY <2>1, <2>2, <2>3, <2>4
  <2>5. CASE seq[i + 1] \notin out
    <3>1. seq[i + 1] \in S \ out
      BY <1>2, <2>1, <2>5
    <3>2. /\ h[i + 1] = Append(h[i], seq[i + 1])
          /\ h[i + 1] \in Seq(S \ out)
      BY <2>1, <2>2, <2>5, <3>1
    <3>3. Range(h[i + 1]) = Range(h[i]) \cup {seq[i + 1]}
      BY <2>1, <3>1, <3>2, AppendRange
    <3> QED BY <2>1, <2>3, <2>5, <3>2, <3>3
  <2> QED BY <2>4, <2>5
<1>5. Good \in SUBSET Nat
  OBVIOUS
<1> HIDE DEF Good
<1>6. n \in Good
  BY <1>2, <1>3, <1>4, <1>5, NumberInduction
<1>7. Right(n)
  BY <1>2, <1>6 DEF Good
<1> QED BY <1>1, <1>2, <1>7 DEF Range

\* A run along a longer sequence begins as the one along the shorter.
LEMMA LessAppend ==
  ASSUME NEW S, NEW seq \in Seq(S), NEW e \in S, NEW out
  PROVE  Less(Append(seq, e), out)
           = IF e \in out THEN Less(seq, out) ELSE Append(Less(seq, out), e)
<1> DEFINE n == Len(seq)
           longer == Append(seq, e)
<1>1. PICK h : Collects(h, seq, out) /\ Less(seq, out) = h[n]
  BY LessCollects
<1>2. longer \in Seq(S)
  OBVIOUS
<1>3. PICK k : Collects(k, longer, out) /\ Less(longer, out) = k[Len(longer)]
  BY <1>2, LessCollects
<1>4. /\ n \in Nat /\ Len(longer) = n + 1 /\ longer[n + 1] = e
      /\ \A i \in 1 .. n : longer[i] = seq[i]
  OBVIOUS
<1> HIDE DEF longer
<1> DEFINE Good == {i \in Nat : i <= n => k[i] = h[i]}
<1>5. 0 \in Good
  BY <1>1, <1>3 DEF Collects
<1>6. ASSUME NEW i \in Good PROVE i + 1 \in Good
  <2> SUFFICES ASSUME i + 1 <= n PROVE k[i + 1] = h[i + 1]
    OBVIOUS
  <2>1. i \in Nat /\ i + 1 \in 1 .. n /\ i + 1 \in 1 .. Len(longer)
    BY <1>4
  <2>2. k[i] = h[i] /\ longer[i + 1] = seq[i + 1] /\ (i + 1) - 1 = i
    BY <1>4, <2>1
  <2> QED BY <1>1, <1>3, <2>1, <2>2 DEF Collects
<1>7. Good \in SUBSET Nat
  OBVIOUS
<1> HIDE DEF Good
<1>8. n \in Good
  BY <1>4, <1>5, <1>6, <1>7, NumberInduction
<1>9. k[n] = h[n]
  BY <1>4, <1>8 DEF Good
<1>10. k[n + 1] = IF e \in out THEN k[n] ELSE Append(k[n], e)
  BY <1>3, <1>4 DEF Collects
<1> QED BY <1>1, <1>3, <1>4, <1>9, <1>10 DEF longer

\* One more entry, whose input has no slot yet.
LEMMA NoRepeatAppend ==
  ASSUME NEW S, NEW seq \in Seq(S), NEW e, NoRepeat(seq), e.input \notin InputsOf(seq)
  PROVE  NoRepeat(Append(seq, e))
BY DEF NoRepeat, InputsOf

LEMMA LessEntries ==
  ASSUME NEW S, NEW seq \in Seq(S), NEW out
  PROVE  /\ InputsOf(Less(seq, out)) = {x.input : x \in Range(seq) \ out}
         /\ NoRepeat(seq) => NoRepeat(Less(seq, out))
<1>1. Range(Less(seq, out)) = Range(seq) \ out
  BY LessFacts
<1>2. InputsOf(Less(seq, out)) = {x.input : x \in Range(Less(seq, out))}
  BY DEF InputsOf, Range
<1>3. ASSUME NoRepeat(seq) PROVE NoRepeat(Less(seq, out))
  <2>1. PICK h : Collects(h, seq, out) /\ Less(seq, out) = h[Len(seq)]
    BY LessCollects
  <2> DEFINE n == Len(seq)
             Right(i) == /\ h[i] \in Seq(S) /\ NoRepeat(h[i])
                         /\ InputsOf(h[i]) \subseteq {seq[j].input : j \in 1 .. i}
             Good == {i \in Nat : i <= n => Right(i)}
  <2>2. n \in Nat /\ DOMAIN seq = 1 .. n /\ \A i \in 1 .. n : seq[i] \in S
    OBVIOUS
  <2>3. 0 \in Good
    <3>1. h[0] = <<>>
      BY <2>1 DEF Collects
    <3>2. h[0] \in Seq(S) /\ NoRepeat(h[0]) /\ InputsOf(h[0]) = {}
      BY <3>1 DEF NoRepeat, InputsOf
    <3> QED BY <3>2
  <2>4. ASSUME NEW i \in Good PROVE i + 1 \in Good
    <3> SUFFICES ASSUME i + 1 <= n PROVE Right(i + 1)
      OBVIOUS
    <3>1. i \in Nat /\ i + 1 \in 1 .. n /\ Right(i)
      BY <2>2
    <3>2. h[i + 1] = IF seq[i + 1] \in out THEN h[i] ELSE Append(h[i], seq[i + 1])
      BY <2>1, <3>1 DEF Collects
    <3>3. \A j \in 1 .. i : seq[j].input # seq[i + 1].input
      BY <1>3, <2>2, <3>1 DEF NoRepeat
    <3>4. /\ {seq[j].input : j \in 1 .. i} \subseteq {seq[j].input : j \in 1 .. (i + 1)}
          /\ seq[i + 1].input \in {seq[j].input : j \in 1 .. (i + 1)}
      BY <3>1
    <3>5. CASE seq[i + 1] \in out
      BY <3>1, <3>2, <3>4, <3>5
    <3>6. CASE seq[i + 1] \notin out
      <4>1. h[i + 1] = Append(h[i], seq[i + 1]) /\ h[i + 1] \in Seq(S)
        BY <2>2, <3>1, <3>2, <3>6
      <4>2. seq[i + 1].input \notin InputsOf(h[i])
        BY <3>1, <3>3
      <4>3. NoRepeat(h[i + 1])
        BY <3>1, <4>1, <4>2, NoRepeatAppend
      <4>4. InputsOf(h[i + 1]) = InputsOf(h[i]) \cup {seq[i + 1].input}
        BY <3>1, <4>1, AppendRange
      <4> QED BY <3>1, <3>4, <4>1, <4>3, <4>4
    <3> QED BY <3>5, <3>6
  <2>5. Good \in SUBSET Nat
    OBVIOUS
  <2> HIDE DEF Good
  <2>6. n \in Good
    BY <2>2, <2>3, <2>4, <2>5, NumberInduction
  <2> QED BY <2>1, <2>2, <2>6 DEF Good
<1> QED BY <1>1, <1>2, <1>3

-----------------------------------------------------------------------------
(* Fresh: one entry for each input that has no slot. *)

FreshAt(g, seq, taken, s) ==
  IF s = {} THEN <<>>
  ELSE IF seq[Max(s)].input \in taken \cup InputsOf(g[s \ {Max(s)}])
       THEN g[s \ {Max(s)}]
       ELSE Append(g[s \ {Max(s)}], seq[Max(s)])
IsFresh(g, seq, taken) ==
  g = [s \in SUBSET (DOMAIN seq) |-> FreshAt(g, seq, taken, s)]
FreshFold(seq, taken) == CHOOSE g : IsFresh(g, seq, taken)

LEMMA FreshFolds ==
  ASSUME NEW S, NEW seq \in Seq(S), NEW taken
  PROVE  /\ Fresh(seq, taken) = FreshFold(seq, taken)[1 .. Len(seq)]
         /\ \A s \in SUBSET (1 .. Len(seq)) :
              FreshFold(seq, taken)[s] = FreshAt(FreshFold(seq, taken), seq, taken, s)
<1> DEFINE n == Len(seq)
           step == [x \in (1 .. n) \X Seq(S) |->
                      IF seq[x[1]].input \in taken \cup InputsOf(x[2])
                      THEN x[2] ELSE Append(x[2], seq[x[1]])]
<1>1. n \in Nat /\ DOMAIN seq = 1 .. n /\ \A i \in 1 .. n : seq[i] \in S
  OBVIOUS
<1>2. Stays(n, Seq(S), step)
  BY <1>1 DEF Stays
<1>3. <<>> \in Seq(S)
  OBVIOUS
<1> HIDE DEF step, n
<1>4. PICK g : \A s \in SUBSET (1 .. n) :
                g[s] \in Seq(S) /\ g[s] = FoldAt(g, step, <<>>, s)
  <2>1. Folded(n, Seq(S), step, <<>>)
    BY <1>1, <1>2, <1>3, FoldExists
  <2> QED BY <2>1 DEF Folded
<1>5. ASSUME NEW s \in SUBSET (1 .. n) PROVE g[s] = FreshAt(g, seq, taken, s)
  <2>1. CASE s = {}
    BY <1>4, <2>1 DEF FoldAt, FreshAt
  <2>2. CASE s # {}
    <3>1. Max(s) \in 1 .. n /\ s \ {Max(s)} \in SUBSET (1 .. n)
      BY <1>1, <2>2, LastPosition
    <3>2. <<Max(s), g[s \ {Max(s)}]>> \in (1 .. n) \X Seq(S)
      BY <1>4, <3>1
    <3>3. g[s] = step[<<Max(s), g[s \ {Max(s)}]>>]
      BY <1>4, <2>2 DEF FoldAt
    <3> QED BY <2>2, <3>2, <3>3 DEF step, FreshAt
  <2> QED BY <2>1, <2>2
<1> DEFINE f == [s \in SUBSET (1 .. n) |-> g[s]]
<1>6. IsFresh(f, seq, taken)
  <2>1. ASSUME NEW s \in SUBSET (1 .. n) PROVE f[s] = FreshAt(f, seq, taken, s)
    <3>1. CASE s = {}
      BY <1>5, <3>1 DEF FreshAt
    <3>2. CASE s # {}
      <4>1. s \ {Max(s)} \in SUBSET (1 .. n)
        OBVIOUS
      <4> QED BY <1>5, <3>2, <4>1 DEF FreshAt
    <3> QED BY <3>1, <3>2
  <2> QED BY <1>1, <2>1 DEF IsFresh
<1>7. IsFresh(FreshFold(seq, taken), seq, taken)
  BY <1>6 DEF FreshFold
<1>8. Fresh(seq, taken) = FreshFold(seq, taken)[DOMAIN seq]
  BY DEF Fresh, FoldLeft, MapThenFoldSet, FreshFold, IsFresh, FreshAt
<1> HIDE DEF FreshFold
<1> QED BY <1>1, <1>7, <1>8 DEF IsFresh, n

\* What Fresh keeps is of what it is given, once each, and all that has no slot.
LEMMA FreshFacts ==
  ASSUME NEW S, NEW seq \in Seq(S), NEW taken
  PROVE  /\ Fresh(seq, taken) \in Seq(S)
         /\ Range(Fresh(seq, taken)) \subseteq Range(seq)
         /\ NoRepeat(Fresh(seq, taken))
         /\ InputsOf(Fresh(seq, taken)) = InputsOf(seq) \ taken
<1> DEFINE n == Len(seq)
           g == FreshFold(seq, taken)
           First(i) == {seq[j].input : j \in 1 .. i}
           Right(k, i) == /\ k \in Seq(S) /\ NoRepeat(k)
                          /\ Range(k) \subseteq Range(seq)
                          /\ InputsOf(k) = First(i) \ taken
           Good == {i \in Nat : i <= n => Right(g[1 .. i], i)}
<1>1. /\ n \in Nat /\ DOMAIN seq = 1 .. n
      /\ \A i \in 1 .. n : seq[i] \in S /\ seq[i] \in Range(seq)
  BY DEF Range
<1>2. \A s \in SUBSET (1 .. n) : g[s] = FreshAt(g, seq, taken, s)
  BY FreshFolds
<1> HIDE DEF g
<1>3. 0 \in Good
  <2>1. 1 .. 0 = {} /\ {} \in SUBSET (1 .. n)
    OBVIOUS
  <2>2. g[1 .. 0] = <<>>
    BY <1>2, <2>1 DEF FreshAt
  <2>3. /\ <<>> \in Seq(S) /\ NoRepeat(<<>>) /\ Range(<<>>) = {} /\ InputsOf(<<>>) = {}
        /\ First(0) = {}
    BY <2>1 DEF NoRepeat, InputsOf, Range
  <2> QED BY <2>2, <2>3
<1>4. ASSUME NEW i \in Good PROVE i + 1 \in Good
  <2> SUFFICES ASSUME i + 1 <= n PROVE Right(g[1 .. (i + 1)], i + 1)
    OBVIOUS
  <2> DEFINE k == g[1 .. i]
             e == seq[i + 1]
  <2>1. i \in Nat /\ i + 1 \in 1 .. n /\ Right(k, i)
    BY <1>1
  <2>2. 1 .. (i + 1) # {} /\ Max(1 .. (i + 1)) = i + 1 /\ (1 .. (i + 1)) \ {i + 1} = 1 .. i
    BY <2>1, LastOfFirst
  <2>3. 1 .. (i + 1) \in SUBSET (1 .. n)
    BY <1>1, <2>1
  <2>4. g[1 .. (i + 1)] = IF e.input \in taken \cup InputsOf(k) THEN k ELSE Append(k, e)
    BY <1>2, <2>2, <2>3 DEF FreshAt
  <2>5. First(i + 1) = First(i) \cup {e.input}
    BY <2>1
  <2>6. e \in S /\ e \in Range(seq)
    BY <1>1, <2>1
  <2> HIDE DEF k, e, First
  <2>7. CASE e.input \in taken \cup InputsOf(k)
    <3>1. First(i + 1) \ taken = First(i) \ taken
      BY <2>1, <2>5, <2>7
    <3> QED BY <2>1, <2>4, <2>7, <3>1
  <2>8. CASE e.input \notin taken \cup InputsOf(k)
    <3>1. g[1 .. (i + 1)] = Append(k, e) /\ k \in Seq(S)
      BY <2>1, <2>4, <2>8
    <3>2. NoRepeat(Append(k, e))
      BY <2>1, <2>8, NoRepeatAppend
    <3>3. /\ Range(Append(k, e)) = Range(k) \cup {e}
          /\ InputsOf(Append(k, e)) = InputsOf(k) \cup {e.input}
      BY <3>1, AppendRange
    <3>4. Append(k, e) \in Seq(S)
      BY <2>6, <3>1
    <3>5. InputsOf(Append(k, e)) = First(i + 1) \ taken
      BY <2>1, <2>5, <2>8, <3>3
    <3> QED BY <2>1, <2>6, <3>1, <3>2, <3>3, <3>4, <3>5
  <2> QED BY <2>7, <2>8
<1>5. Good \in SUBSET Nat
  OBVIOUS
<1> HIDE DEF Good
<1>6. n \in Good
  BY <1>1, <1>3, <1>4, <1>5, NumberInduction
<1>7. Right(g[1 .. n], n)
  BY <1>1, <1>6 DEF Good
<1>8. Fresh(seq, taken) = g[1 .. n]
  BY FreshFolds DEF g
<1>9. First(n) = InputsOf(seq)
  BY <1>1 DEF InputsOf
<1> QED BY <1>7, <1>8, <1>9

-----------------------------------------------------------------------------
(* Journals. *)

\* A line is added, or runs into one that was cut short.
LEMMA Journalling ==
  ASSUME NEW S, NEW lines \in Seq(S), NEW line
  PROVE  \/ Journalled(lines, line) = Append(lines, line)
         \/ \E front \in Seq(S) :
              /\ lines = Append(front, Torn)
              /\ Journalled(lines, line) = Append(front, Garbled)
<1>1. CASE lines # <<>> /\ Last(lines) = Torn
  <2> DEFINE n == Len(lines)
             front == SubSeq(lines, 1, n - 1)
  <2>1. n \in Nat /\ n >= 1 /\ lines[n] = Torn
    BY <1>1 DEF Last
  <2>2. front \in Seq(S)
    BY <2>1, SubSeqProperties
  <2>3. front = Front(lines)
    BY DEF Front
  <2>4. lines = front \o <<lines[n]>>
    BY <2>1, SubSeqRecursiveSecond, SubSeqFull
  <2> HIDE DEF front
  <2>5. lines = Append(front, Torn)
    BY <2>1, <2>2, <2>4
  <2>6. Journalled(lines, line) = front \o <<Garbled>>
    BY <1>1, <2>3 DEF Journalled
  <2>7. front \o <<Garbled>> = Append(front, Garbled)
    BY <2>2
  <2> QED BY <2>2, <2>5, <2>6, <2>7
<1>2. CASE ~ (lines # <<>> /\ Last(lines) = Torn)
  BY <1>2 DEF Journalled
<1> QED BY <1>1, <1>2

LEMMA CuttingIn ==
  ASSUME NEW lines
  PROVE  CutIn(lines) \in {lines, Append(lines, Torn)}
BY DEF CutIn

\* What a journal may hold after a line more.
LEMMA JournalRange ==
  ASSUME NEW S, Torn \in S, Garbled \in S, NEW lines \in Seq(S), NEW line \in S
  PROVE  Journalled(lines, line) \in Seq(S) /\ CutIn(lines) \in Seq(S)
<1>1. Append(lines, line) \in Seq(S) /\ Append(lines, Torn) \in Seq(S)
  OBVIOUS
<1>2. CASE Journalled(lines, line) = Append(lines, line)
  BY <1>1, <1>2, CuttingIn
<1>3. CASE Journalled(lines, line) # Append(lines, line)
  <2>1. PICK front \in Seq(S) : Journalled(lines, line) = Append(front, Garbled)
    BY <1>3, Journalling
  <2>2. Append(front, Garbled) \in Seq(S)
    OBVIOUS
  <2> QED BY <1>1, <2>1, <2>2, CuttingIn
<1> QED BY <1>2, <1>3

\* Lines that do not count.
LEMMA ReadableAppend ==
  ASSUME NEW S, NEW lines \in Seq(S), NEW line \in S
  PROVE  Readable(Append(lines, line))
           = IF line \in {Torn, Garbled} THEN Readable(lines)
                                         ELSE Append(Readable(lines), line)
BY LessAppend DEF Readable

LEMMA TargetAppend ==
  ASSUME NEW S, NEW lines \in Seq(S), NEW line \in S, NEW from,
         line \in {Torn, Garbled, from}
  PROVE  RollbackTarget(from, Append(lines, line)) = RollbackTarget(from, lines)
<1>1. CASE line \in {Torn, Garbled}
  BY <1>1, ReadableAppend DEF RollbackTarget
<1>2. CASE line = from /\ line \notin {Torn, Garbled}
  <2> DEFINE counted == Readable(lines)
  <2>1. Readable(Append(lines, line)) = Append(counted, line)
    BY <1>2, ReadableAppend
  <2>2. counted \in Seq(S)
    <3>1. counted \in Seq(S \ {Torn, Garbled})
      BY LessFacts DEF Readable
    <3> QED BY <3>1
  <2> HIDE DEF counted
  <2>3. line \in {from}
    BY <1>2
  <2>4. Less(Append(counted, line), {from}) = Less(counted, {from})
    BY <2>2, <2>3, LessAppend
  <2> QED BY <2>1, <2>4 DEF RollbackTarget, counted
<1> QED BY <1>1, <1>2

\* What is chosen was adopted once, or is the baseline.
LEMMA TargetFacts ==
  ASSUME NEW S, NEW lines \in Seq(S \cup {Torn, Garbled}), NEW from, Baseline \in S
  PROVE  RollbackTarget(from, lines) \in S
<1> DEFINE T == (S \cup {Torn, Garbled}) \ {Torn, Garbled}
           others == Less(Readable(lines), {from})
<1>1. Readable(lines) \in Seq(T)
  BY LessFacts DEF Readable
<1>2. others \in Seq(T \ {from})
  BY <1>1, LessFacts
<1> HIDE DEF others
<1>3. others # <<>> => Last(others) \in S
  BY <1>2 DEF Last
<1> QED BY <1>3 DEF RollbackTarget, others

-----------------------------------------------------------------------------
(* What the library is given. *)

LEMMA EntryFacts ==
  ASSUME NEW s \in Samples, NEW source \in {"manual", "verify-failure"},
         NEW verdict \in {"none", "regressed", "pass"}
  PROVE  Entry(s, source, verdict) \in Entries /\ Entry(s, source, verdict).source = source
BY DEF Entry, Entries, Samples

LEMMA LabelledFacts ==
  ASSUME NEW samples \in Seq(Samples), NEW verdicts \in [DOMAIN samples -> {"regressed", "pass"}]
  PROVE  Labelled(samples, verdicts) \in Seq(Entries)
<1>1. DOMAIN samples = 1 .. Len(samples) /\ Len(samples) \in Nat
  OBVIOUS
<1>2. \A i \in 1 .. Len(samples) : Entry(samples[i], "verify-failure", verdicts[i]) \in Entries
  BY <1>1, EntryFacts
<1>3. Labelled(samples, verdicts) \in [1 .. Len(samples) -> Entries]
  BY <1>1, <1>2 DEF Labelled
<1> QED BY <1>1, <1>3

LEMMA JoinedFacts ==
  ASSUME NEW k \in Seq(Entries), NEW l \in Seq(Entries)
  PROVE  /\ k \o l \in Seq(Entries) /\ IsPrefix(k, k \o l)
         /\ InputsOf(k \o l) = InputsOf(k) \cup InputsOf(l)
         /\ Range(k \o l) = Range(k) \cup Range(l)
         /\ NoRepeat(k) /\ NoRepeat(l) /\ InputsOf(k) \cap InputsOf(l) = {}
              => NoRepeat(k \o l)
<1>1. /\ k \o l \in Seq(Entries) /\ Len(k \o l) = Len(k) + Len(l)
      /\ \A i \in DOMAIN k : i \in DOMAIN (k \o l) /\ (k \o l)[i] = k[i]
      /\ \A i \in DOMAIN l : Len(k) + i \in DOMAIN (k \o l) /\ (k \o l)[Len(k) + i] = l[i]
      /\ \A i \in DOMAIN (k \o l) :
           \/ i \in DOMAIN k
           \/ \E j \in DOMAIN l : i = Len(k) + j
  <2>1. \A i \in DOMAIN (k \o l) : i \notin DOMAIN k => i - Len(k) \in DOMAIN l /\ i = Len(k) + (i - Len(k))
    OBVIOUS
  <2> QED BY <2>1
<1>2. IsPrefix(k, k \o l)
  BY <1>1 DEF IsPrefix
<1> DEFINE both == k \o l
<1> HIDE DEF both
<1>3. InputsOf(both) = InputsOf(k) \cup InputsOf(l)
  <2>1. ASSUME NEW x \in InputsOf(both) PROVE x \in InputsOf(k) \cup InputsOf(l)
    <3>1. PICK i \in DOMAIN both : x = both[i].input
      BY <2>1 DEF InputsOf
    <3> QED BY <1>1, <3>1 DEF InputsOf, both
  <2>2. ASSUME NEW x \in InputsOf(k) \cup InputsOf(l) PROVE x \in InputsOf(both)
    <3>1. CASE x \in InputsOf(k)
      <4>1. PICK i \in DOMAIN k : x = k[i].input
        BY <3>1 DEF InputsOf
      <4>2. i \in DOMAIN both /\ both[i].input = x
        BY <1>1, <4>1 DEF both
      <4> QED BY <4>2 DEF InputsOf
    <3>2. CASE x \in InputsOf(l)
      <4>1. PICK i \in DOMAIN l : x = l[i].input
        BY <3>2 DEF InputsOf
      <4>2. Len(k) + i \in DOMAIN both /\ both[Len(k) + i].input = x
        BY <1>1, <4>1 DEF both
      <4> QED BY <4>2 DEF InputsOf
    <3> QED BY <2>2, <3>1, <3>2
  <2> QED BY <2>1, <2>2
<1>4. Range(both) = Range(k) \cup Range(l)
  <2>1. ASSUME NEW x \in Range(both) PROVE x \in Range(k) \cup Range(l)
    <3>1. PICK i \in DOMAIN both : x = both[i]
      BY <2>1 DEF Range
    <3> QED BY <1>1, <3>1 DEF Range, both
  <2>2. ASSUME NEW x \in Range(k) \cup Range(l) PROVE x \in Range(both)
    BY <1>1, <2>2 DEF Range, both
  <2> QED BY <2>1, <2>2
<1>5. ASSUME NoRepeat(k), NoRepeat(l), InputsOf(k) \cap InputsOf(l) = {}
      PROVE  NoRepeat(k \o l)
  <2> SUFFICES ASSUME NEW i \in DOMAIN (k \o l), NEW j \in DOMAIN (k \o l),
                      (k \o l)[i].input = (k \o l)[j].input
               PROVE  i = j
    BY DEF NoRepeat
  <2>1. \A a \in DOMAIN k, b \in DOMAIN l : k[a].input # l[b].input
    BY <1>5 DEF InputsOf
  <2> QED BY <1>1, <1>5, <2>1 DEF NoRepeat
<1> QED BY <1>1, <1>2, <1>3, <1>4, <1>5 DEF both

-----------------------------------------------------------------------------
(* What a process holds, by its command. *)

Layers == Seq(Entries) \X Seq(Entries)

RollbackShape(j) ==
  /\ j.pc \in {"pick", "journal", "save"} /\ j.from \in Adoptable
  /\ j.pc = "pick" => j.to \in Members \cup {Nobody}
  /\ j.pc # "pick" => j.to \in Adoptable /\ j.plain \in BOOLEAN /\ j.seen \in Nat

\* A verdict has its evidence.
ReportShape(j) ==
  /\ j.cmd = "verify" /\ j.pc = "report" /\ j.via \in {"cli", "mcp"}
  /\ j.dir \in 1 .. MaxSeconds /\ j.exit \in 0 .. 3
  /\ j.exit \in {0, 3} => j.blanks = {}
  /\ j.exit = 3 /\ ~ j.violated => \E pair \in j.lower : pair[1] = pair[2] \/ j.shared

VerifyShape(j) ==
  /\ j.pc \in {"mkdir", "gather", "evaluate", "report"} /\ j.via \in {"cli", "mcp"}
  /\ j.pc # "mkdir" => j.dir \in 1 .. MaxSeconds
  /\ j.pc \in {"mkdir", "gather"} => j.source \in Sources
  /\ j.pc # "report" => (j.via = "mcp" => ~ j.promote)
  /\ j.pc = "evaluate" => j.samples \in Seq(Samples) /\ Len(j.samples) <= MaxSet
  /\ j.pc = "report" => ReportShape(j)

\* What Add found no slot for.
Addition(entries, read) ==
  /\ entries \in Seq(Entries) /\ entries # <<>> /\ NoRepeat(entries)
  /\ InputsOf(entries) \cap (InputsOf(read[1]) \cup InputsOf(read[2])) = {}

\* People add by hand; the verify command adds to staging, and goes on to its
\* report.
AddShape(j) ==
  /\ j.pc \in {"load", "scan", "reread", "save"} /\ j.by \in {"human", "verify"}
  /\ j.layer \in {"confirmed", "staging"}
  /\ j.by = "verify" => j.layer = "staging"
  /\ j.after = Over \/ (ReportShape(j.after) /\ j.after.via = "cli")
  /\ j.pc # "save" =>
       /\ j.entries \in Seq(Entries)
       /\ j.by = "human" =>
            \A i \in DOMAIN j.entries : j.entries[i].source = "manual"
  /\ j.pc = "scan" => j.seen \in Seq(Entries)
  /\ j.pc \in {"reread", "save"} => j.read \in Layers
  /\ j.pc = "reread" => Addition(j.entries, j.read)
  /\ j.pc = "save" => j.next \in Seq(Entries)

\* What Promote found, and what it makes of it.
PromisedShape(j) ==
  /\ j.pc \in {"confirm", "unstage"} /\ j.left \in Seq(Entries) /\ j.read \in Layers
  /\ Range(j.left) \subseteq Range(j.read[2])
  /\ InputsOf(j.read[2]) \ InputsOf(j.left) # {}
  /\ NoRepeat(j.read[2]) => NoRepeat(j.left)
  /\ j.pc = "confirm" =>
       /\ j.next \in Seq(Entries) /\ IsPrefix(j.read[1], j.next)
       /\ NoRepeat(j.read[1]) => NoRepeat(j.next)
       /\ Range(j.next) \subseteq Range(j.read[1]) \cup Range(j.read[2])
       /\ InputsOf(j.left) \cap InputsOf(j.next) \subseteq InputsOf(j.read[1])
       /\ InputsOf(j.read[2]) \subseteq InputsOf(j.left) \cup InputsOf(j.next)
  /\ j.pc = "unstage" =>
       InputsOf(j.read[2]) \subseteq InputsOf(j.left) \cup InputsOf(j.read[1])

PromoteShape(j) ==
  \/ j.pc = "read" /\ j.seen \in Seq(Entries)
  \/ PromisedShape(j)

RunShape(j) ==
  /\ j.pc \in {"compare", "append", "finish"} /\ j.via \in {"cli", "mcp"}
  /\ j.pc # "finish" => j.mine \in Records

EditShape(j) ==
  /\ j.pc \in {"read", "rename"} /\ j.scope \in Scopes /\ j.key \in Keys
  /\ j.pc = "read" => j.value \in 0 .. Top
  /\ j.pc = "rename" =>
       /\ j.read \in FileStates \ {Corrupt} /\ j.next \in Layer
       /\ \A k \in Keys \ {j.key} : j.next[k] = KeysOf(j.read)[k]

InitShape(j) ==
  /\ j.pc = "wizard" /\ j.scope \in Scopes
  /\ j.read \in {NoFile, Holding(Blank), j.gives}

Shape(j) ==
  /\ j.cmd \in {"none", "over", "exited", "rollback", "add", "promote", "verify",
                "call", "run", "optimized", "ran", "verified", "edit", "init"}
  /\ j.cmd = "exited" => j.exit \in 0 .. 3
  /\ j.cmd = "rollback" => RollbackShape(j)
  /\ j.cmd = "add" => AddShape(j)
  /\ j.cmd = "promote" => PromoteShape(j)
  /\ j.cmd = "verify" => VerifyShape(j)
  /\ j.cmd = "call" => j.via = "mcp" /\ j.exit \in 0 .. 3
  /\ j.cmd = "run" => RunShape(j)
  /\ j.cmd = "optimized" => j.via = "mcp"
  /\ j.cmd = "edit" => EditShape(j)
  /\ j.cmd = "init" => InitShape(j)

ShapeInv == DOMAIN job = Procs /\ \A p \in Procs : Shape(job[p])

-----------------------------------------------------------------------------
(* What the files know of the processes. *)

AdoptionData ==
  /\ adopted \in Adoptable \cup {Nobody} /\ displaced \in Adoptable \cup {Nobody}
  /\ history \in Seq(Adoptable \cup {Torn, Garbled})

LibraryData ==
  /\ confirmed \in Seq(Entries) /\ staging \in Seq(Entries)
  /\ raced \in BOOLEAN /\ halved \in BOOLEAN

ReportStates == {NoDir, EmptyDir} \cup {Report(p, via, e) : p \in Procs, via \in {"cli", "mcp"}, e \in 0 .. 3}

VerifyData ==
  now \in 1 .. MaxSeconds /\ reports \in [1 .. MaxSeconds -> ReportStates]

PoolData ==
  /\ pool \in Seq(Records \cup {Torn, Garbled})
  /\ warned \subseteq Procs /\ summaries \subseteq Procs /\ liveSinks \subseteq Procs

SettingsData ==
  /\ env \in [Keys -> 0 .. Unparsable] /\ files \in [Scopes -> FileStates]
  /\ manifest \in Layer /\ overwrote \in BOOLEAN

DataInv ==
  /\ AdoptionData /\ LibraryData /\ VerifyData /\ PoolData /\ SettingsData
  /\ DOMAIN answers = Procs

\* A rollback's target stays what it was while no line but its own is new, and
\* once it has written one, the adoption it replaces is in the journal.
Targets(j, lines) ==
  /\ j.seen <= Len(lines)
  /\ j.plain /\ Len(lines) = j.seen => RollbackTarget(j.from, lines) = j.to
  /\ j.pc = "save" =>
       /\ \E i \in DOMAIN lines : lines[i] \in {j.from, Garbled}
       /\ j.plain /\ Len(lines) = j.seen + 1 /\ Last(lines) = j.from =>
            RollbackTarget(j.from, lines) = j.to

JournalInv ==
  \A p \in Procs :
    job[p].cmd = "rollback" /\ job[p].pc # "pick" => Targets(job[p], history)

\* From one state of the library to a later one, when no writers overlap.
Later(k, l) ==
  /\ IsPrefix(k[1], l[1])
  /\ InputsOf(k[1]) \cup InputsOf(k[2]) \subseteq InputsOf(l[1]) \cup InputsOf(l[2])
  /\ InputsOf(l[2]) \cap InputsOf(k[1]) \subseteq InputsOf(k[2])

HasRead(j) ==
  \/ j.cmd = "add" /\ j.pc \in {"reread", "save"}
  \/ j.cmd = "promote" /\ j.pc = "unstage"

\* While the library is what an add has read, what it is to write adds to it.
AddsTo(j) ==
  \E e \in Seq(Entries) :
    /\ Addition(e, j.read)
    /\ j.next = (IF j.layer = "confirmed" THEN j.read[1] ELSE j.read[2]) \o e

Unstaging == {p \in Procs : At(p, "promote", "unstage")}

\* An input in both layers: some promote is between its writes, or ended there.
Excused(p) ==
  /\ library = job[p].read
  /\ InputsOf(confirmed) \cap InputsOf(job[p].left) # {}
  => halved \/ Unstaging \ {p} # {}

LibraryInv ==
  ~ raced =>
    /\ NoRepeat(confirmed) /\ NoRepeat(staging)
    /\ \A p \in Procs : HasRead(job[p]) => Later(job[p].read, library)
    /\ \A p \in Procs : At(p, "add", "scan") => IsPrefix(job[p].seen, confirmed)
    /\ \A p \in Procs : At(p, "add", "save") /\ library = job[p].read => AddsTo(job[p])
    /\ InputsOf(confirmed) \cap InputsOf(staging) # {} => halved \/ Unstaging # {}
    /\ \A p \in Unstaging : Excused(p)

\* No command makes a file that does not decode.
EditInv ==
  \A p \in Procs : At(p, "edit", "rename") => files[job[p].scope] # Corrupt

Vouched(layer, by) ==
  \A i \in DOMAIN layer : layer[i].source = "verify-failure" => layer[i] \in by

EndorsedInv ==
  /\ Vouched(confirmed, endorsed)
  /\ \A p \in Procs :
       /\ At(p, "add", "save") /\ job[p].layer = "confirmed"
            => Vouched(job[p].next, endorsed)
       /\ At(p, "promote", "confirm")
            => Vouched(job[p].next, endorsed \cup Range(job[p].read[2]))

\* Who wrote a report is past its gate, and its exit code is the report's or an
\* error's.
Reporter(j, exit) ==
  /\ j.cmd \in {"exited", "call", "over"}
  /\ j.cmd # "over" => j.exit \in {exit, 1}

GateInv ==
  \A d \in 1 .. MaxSeconds :
    reports[d].is = "report" => Reporter(job[reports[d].by], reports[d].exit)

\* A report of the session's own.
Made(d) == reports[d].is = "report" /\ reports[d].via = "mcp"

\* The session makes one call at a time: from the directory of a gate under way
\* onwards there is no report of the session, from that of a gate that is through
\* onwards none but its own, so that the newest one cannot be an earlier call's.
SessionInv ==
  /\ \A p, q \in Procs : InCall(p) /\ InCall(q) => p = q
  /\ \A d \in 1 .. MaxSeconds : d > now => ~ Made(d)
  /\ \A p \in Procs : InCall(p) /\ job[p].cmd = "verify" /\ job[p].pc # "mkdir" =>
       /\ job[p].dir <= now
       /\ \A d \in 1 .. MaxSeconds : d > job[p].dir => ~ Made(d)
  /\ \A p \in Procs : job[p].cmd = "call" /\ job[p].exit # 1 =>
       /\ job[p].dir \in 1 .. MaxSeconds /\ reports[job[p].dir] # NoDir
       /\ \A d \in 1 .. MaxSeconds : d >= job[p].dir /\ Made(d) => reports[d].by = p
  /\ \A p \in Procs :
       /\ answers[p].kind = "verify" /\ ~ answers[p].isError
       /\ answers[p].via = "mcp"
       => answers[p].by = p /\ answers[p].exit # 1

SinkInv == \A p \in liveSinks : job[p].cmd = "run" /\ job[p].via = "mcp"

Decodes(record) == record \notin {Torn, Garbled}

\* A run that stands above another on the same samples.
Above(record, mine) ==
  /\ Decodes(record) /\ record.run # mine.run
  /\ record.set = mine.set /\ record.mean > mine.mean

\* A run that has joined the pool, or has failed to.
Joined(j) == \/ j.cmd \in {"over", "optimized"}
             \/ j.cmd = "run" /\ j.pc = "finish"

PoolInv ==
  /\ \A p \in Procs : job[p].cmd = "run" /\ job[p].pc # "finish" =>
       /\ job[p].mine.run = p
       /\ job[p].pc = "append" /\ job[p].warns =>
            \E i \in DOMAIN pool : Above(pool[i], job[p].mine)
  /\ \A i \in DOMAIN pool : Decodes(pool[i]) => Joined(job[pool[i].run])
  /\ \A p \in warned : Joined(job[p])
  /\ \A i \in DOMAIN pool :
       Decodes(pool[i]) /\ pool[i].run \in warned =>
         \E h \in 1 .. i - 1 : Above(pool[h], pool[i])

-----------------------------------------------------------------------------
(* The steps, module by module: what becomes of the process that takes one, *)
(* and of the files it may write.                                           *)

Turns(p, cmds) ==
  /\ DOMAIN job' = Procs
  /\ \A q \in Procs \ {p} : job'[q] = job[q]
  /\ Shape(job'[p]) /\ job'[p].cmd \in cmds

LEMMA Turned ==
  ASSUME ShapeInv, NEW p \in Procs, NEW j, Becomes(p, j), Shape(j),
         NEW cmds, j.cmd \in cmds
  PROVE  Turns(p, cmds) /\ job'[p] = j
BY DEF ShapeInv, Becomes, Turns

LEMMA OverShape == Shape(Over) /\ Over.cmd = "over"
BY DEF Shape, Over

LEMMA AdoptionTurns ==
  ASSUME ShapeInv, AdoptionData, NEW p \in Procs, AdoptionStep(p)
  PROVE  /\ Turns(p, {"rollback", "over"}) /\ job[p].cmd \in {"none", "rollback"}
         /\ AdoptionData'
<1> DEFINE cmds == {"rollback", "over"}
<1> HIDE DEF cmds
<1>1. "rollback" \in cmds /\ "over" \in cmds
  BY DEF cmds
<1>2. Shape(job[p])
  BY DEF ShapeInv
<1>3. Members \subseteq Adoptable /\ Baseline \in Adoptable
  BY DEF Adoptable
<1>4. Ends(p) => Turns(p, cmds)
  BY <1>1, OverShape, Turned DEF Ends
<1>5. CASE HandleAdopt(p)
  BY <1>3, <1>4, <1>5 DEF HandleAdopt, Adopts, Begins, Idle, AdoptionData, cmds
<1>6. CASE RollbackRead(p)
  <2>1. UNCHANGED <<adopted, history, displaced>> /\ job[p].cmd = "none"
    BY <1>6 DEF RollbackRead, Begins, Idle
  <2>2. CASE Ends(p)
    BY <1>4, <2>1, <2>2 DEF AdoptionData, cmds
  <2>3. CASE ~ Ends(p)
    <3>1. PICK to \in Members \cup {Nobody} :
            Becomes(p, [cmd |-> "rollback", pc |-> "pick",
                        from |-> adopted, to |-> to])
      BY <1>6, <2>3 DEF RollbackRead
    <3>2. adopted \in Adoptable
      BY <1>6, <2>3 DEF RollbackRead, AdoptionData
    <3> DEFINE j == [cmd |-> "rollback", pc |-> "pick", from |-> adopted, to |-> to]
    <3>3. Shape(j) /\ j.cmd = "rollback"
      BY <3>2 DEF Shape, RollbackShape
    <3> HIDE DEF j
    <3>4. Turns(p, cmds)
      BY <1>1, <3>1, <3>3, Turned DEF j
    <3> QED BY <2>1, <3>4 DEF AdoptionData, cmds
  <2> QED BY <2>2, <2>3
<1>7. CASE RollbackPick(p)
  <2>1. /\ UNCHANGED <<adopted, history, displaced>>
        /\ job[p].cmd = "rollback" /\ job[p].pc = "pick"
    BY <1>7 DEF RollbackPick, At
  <2>2. CASE Ends(p)
    BY <1>4, <2>1, <2>2 DEF AdoptionData, cmds
  <2>3. CASE ~ Ends(p)
    <3> DEFINE target == IF job[p].to = Nobody
                         THEN RollbackTarget(job[p].from, history) ELSE job[p].to
               j == [cmd |-> "rollback", pc |-> "journal",
                     from |-> job[p].from, to |-> target,
                     plain |-> job[p].to = Nobody, seen |-> Len(history)]
    <3>1. Becomes(p, j)
      BY <1>7, <2>3 DEF RollbackPick
    <3>2. job[p].from \in Adoptable /\ job[p].to \in Members \cup {Nobody}
      BY <1>2, <2>1 DEF Shape, RollbackShape
    <3>3. target \in Adoptable
      BY <1>3, <3>2, TargetFacts DEF AdoptionData
    <3>4. Len(history) \in Nat /\ (job[p].to = Nobody) \in BOOLEAN
      BY DEF AdoptionData
    <3> HIDE DEF target
    <3>5. Shape(j) /\ j.cmd = "rollback"
      BY <3>2, <3>3, <3>4 DEF Shape, RollbackShape
    <3> HIDE DEF j
    <3>6. Turns(p, cmds)
      BY <1>1, <3>1, <3>5, Turned
    <3> QED BY <2>1, <3>6 DEF AdoptionData, cmds
  <2> QED BY <2>2, <2>3
<1>8. CASE RollbackJournal(p)
  <2>1. /\ UNCHANGED <<adopted, displaced>>
        /\ job[p].cmd = "rollback" /\ job[p].pc = "journal"
    BY <1>8 DEF RollbackJournal, At
  <2>2. /\ job[p].from \in Adoptable /\ job[p].to \in Adoptable
        /\ job[p].plain \in BOOLEAN /\ job[p].seen \in Nat
    BY <1>2, <2>1 DEF Shape, RollbackShape
  <2>3. history' \in Seq(Adoptable \cup {Torn, Garbled})
    <3> DEFINE S == Adoptable \cup {Torn, Garbled}
    <3>1. history \in Seq(S) /\ Torn \in S /\ Garbled \in S /\ job[p].from \in S
      BY <2>2 DEF AdoptionData
    <3> HIDE DEF S
    <3>2. history' \in {Journalled(history, job[p].from), CutIn(history)}
      BY <1>8 DEF RollbackJournal
    <3> QED BY <3>1, <3>2, JournalRange DEF S
  <2>4. Turns(p, cmds)
    <3> DEFINE j == [cmd |-> "rollback", pc |-> "save",
                     from |-> job[p].from, to |-> job[p].to,
                     plain |-> job[p].plain, seen |-> job[p].seen]
    <3>1. Becomes(p, j) \/ Ends(p)
      BY <1>8 DEF RollbackJournal
    <3>2. Shape(j) /\ j.cmd = "rollback"
      BY <2>2 DEF Shape, RollbackShape
    <3> HIDE DEF j
    <3> QED BY <1>1, <1>4, <3>1, <3>2, Turned
  <2> QED BY <2>1, <2>3, <2>4 DEF AdoptionData, cmds
<1>9. CASE RollbackSave(p)
  <2>1. /\ job[p].cmd = "rollback" /\ job[p].pc = "save"
        /\ Adopts(job[p].to) /\ Ends(p) /\ UNCHANGED history
    BY <1>9 DEF RollbackSave, At
  <2>2. job[p].to \in Adoptable
    BY <1>2, <2>1 DEF Shape, RollbackShape
  <2> QED BY <1>4, <2>1, <2>2 DEF Adopts, AdoptionData, cmds
<1> QED BY <1>5, <1>6, <1>7, <1>8, <1>9 DEF AdoptionStep


-----------------------------------------------------------------------------
(* The library. *)

LEMMA InputsRange ==
  ASSUME NEW layer
  PROVE  InputsOf(layer) = {x.input : x \in Range(layer)}
BY DEF InputsOf, Range

LEMMA LessLayer ==
  ASSUME NEW S, NEW seq \in Seq(S), NEW out
  PROVE  Less(seq, out) \in Seq(S) /\ Range(Less(seq, out)) = Range(seq) \ out
<1>1. Less(seq, out) \in Seq(S \ out) /\ Range(Less(seq, out)) = Range(seq) \ out
  BY LessFacts
<1> QED BY <1>1

\* What promote takes over, and what it leaves in staging.
LEMMA PickedFacts ==
  ASSUME NEW layer \in Seq(Entries), NEW ids
  PROVE  /\ Picked(layer, ids) \in Seq(Entries) /\ Range(Picked(layer, ids)) \subseteq Range(layer)
         /\ InputsOf(Picked(layer, ids)) \subseteq InputsOf(layer)
<1> DEFINE out == {e \in Entries : ids # {} /\ e.id \notin ids}
<1>1. Picked(layer, ids) = Less(layer, out)
  BY DEF Picked
<1> HIDE DEF out
<1>2. Picked(layer, ids) \in Seq(Entries) /\ Range(Picked(layer, ids)) = Range(layer) \ out
  BY <1>1, LessLayer
<1> QED BY <1>2, InputsRange

LEMMA WithoutFacts ==
  ASSUME NEW layer \in Seq(Entries), NEW picked
  PROVE  /\ Without(layer, picked) \in Seq(Entries)
         /\ Range(Without(layer, picked)) \subseteq Range(layer)
         /\ InputsOf(Without(layer, picked)) = InputsOf(layer) \ InputsOf(picked)
         /\ NoRepeat(layer) => NoRepeat(Without(layer, picked))
<1> DEFINE out == {e \in Entries : e.input \in InputsOf(picked)}
           left == Without(layer, picked)
<1>1. left = Less(layer, out)
  BY DEF Without
<1>2. \A x \in Range(layer) : x \in Entries
  BY DEF Range
<1>3. left \in Seq(Entries) /\ Range(left) = Range(layer) \ out
  BY <1>1, LessLayer
<1>4. NoRepeat(layer) => NoRepeat(left)
  BY <1>1, LessEntries
<1>5. InputsOf(left) = {x.input : x \in Range(layer) \ out}
  BY <1>1, LessEntries
<1>6. InputsOf(layer) = {x.input : x \in Range(layer)}
  BY InputsRange
<1> HIDE DEF left
<1>7. ASSUME NEW i
      PROVE  i \in InputsOf(left) <=> i \in InputsOf(layer) \ InputsOf(picked)
  <2>1. ASSUME i \in InputsOf(left)
        PROVE  i \in InputsOf(layer) \ InputsOf(picked)
    <3>1. PICK x \in Range(layer) \ out : i = x.input
      BY <1>5, <2>1
    <3> QED BY <1>2, <1>6, <3>1
  <2>2. ASSUME i \in InputsOf(layer) \ InputsOf(picked)
        PROVE  i \in InputsOf(left)
    <3>1. PICK x \in Range(layer) : i = x.input
      BY <1>6, <2>2
    <3>2. x \notin out
      BY <2>2, <3>1
    <3> QED BY <1>5, <3>1, <3>2
  <2> QED BY <2>1, <2>2
<1> QED BY <1>3, <1>4, <1>7 DEF left

\* What promote makes of what it has read.
LEMMA PromoteFacts ==
  ASSUME LibraryData, NEW seen \in Seq(Entries), NEW ids, Picked(seen, ids) # <<>>
  PROVE  Shape([cmd |-> "promote", pc |-> "confirm",
                next |-> confirmed \o Fresh(Picked(seen, ids), InputsOf(confirmed)),
                left |-> Without(seen, Picked(seen, ids)), read |-> <<confirmed, seen>>])
<1> DEFINE picked == Picked(seen, ids)
           fresh == Fresh(picked, InputsOf(confirmed))
           next == confirmed \o fresh
           left == Without(seen, picked)
<1>1. confirmed \in Seq(Entries)
  BY DEF LibraryData
<1>2. /\ picked \in Seq(Entries) /\ Range(picked) \subseteq Range(seen)
      /\ InputsOf(picked) \subseteq InputsOf(seen)
  BY <1>1, PickedFacts
<1>3. /\ left \in Seq(Entries) /\ Range(left) \subseteq Range(seen)
      /\ InputsOf(left) = InputsOf(seen) \ InputsOf(picked)
      /\ NoRepeat(seen) => NoRepeat(left)
  BY <1>1, WithoutFacts
<1>4. picked # <<>>
  OBVIOUS
<1> HIDE DEF picked, left
<1>5. /\ fresh \in Seq(Entries) /\ Range(fresh) \subseteq Range(picked)
      /\ NoRepeat(fresh) /\ InputsOf(fresh) = InputsOf(picked) \ InputsOf(confirmed)
  BY <1>2, FreshFacts
<1> HIDE DEF fresh
<1>6. /\ next \in Seq(Entries) /\ IsPrefix(confirmed, next)
      /\ InputsOf(next) = InputsOf(confirmed) \cup InputsOf(fresh)
      /\ Range(next) = Range(confirmed) \cup Range(fresh)
      /\ NoRepeat(confirmed) => NoRepeat(next)
  BY <1>1, <1>5, JoinedFacts
<1> HIDE DEF next
<1>7. InputsOf(seen) \ InputsOf(left) # {}
  <2>1. 1 \in DOMAIN picked
    BY <1>2, <1>4
  <2>2. picked[1].input \in InputsOf(picked)
    BY <2>1 DEF InputsOf
  <2> QED BY <1>2, <1>3, <2>2
<1> DEFINE j == [cmd |-> "promote", pc |-> "confirm", next |-> next,
                 left |-> left, read |-> <<confirmed, seen>>]
<1>8. <<confirmed, seen>> \in Layers
  BY <1>1 DEF Layers
<1>9. PromoteShape(j)
  BY <1>2, <1>3, <1>5, <1>6, <1>7, <1>8 DEF PromoteShape, PromisedShape
<1> QED BY <1>9 DEF Shape, picked, fresh, next, left

\* What add makes of it.
LEMMA AdditionFacts ==
  ASSUME NEW read \in Layers, NEW entries \in Seq(Entries)
  PROVE  LET fresh == Fresh(entries, InputsOf(read[1]) \cup InputsOf(read[2]))
         IN  /\ Range(fresh) \subseteq Range(entries)
             /\ fresh # <<>> => Addition(fresh, read)
<1> DEFINE fresh == Fresh(entries, InputsOf(read[1]) \cup InputsOf(read[2]))
<1>1. /\ fresh \in Seq(Entries) /\ NoRepeat(fresh)
      /\ Range(fresh) \subseteq Range(entries)
      /\ InputsOf(fresh) = InputsOf(entries) \ (InputsOf(read[1]) \cup InputsOf(read[2]))
  BY FreshFacts
<1> HIDE DEF fresh
<1>2. fresh # <<>> => Addition(fresh, read)
  BY <1>1 DEF Addition
<1> QED BY <1>1, <1>2 DEF fresh

LEMMA AfterShape ==
  ASSUME NEW j, j = Over \/ ReportShape(j)
  PROVE  Shape(j) /\ j.cmd \in {"over", "verify"}
<1>1. CASE j = Over
  BY <1>1, OverShape
<1>2. CASE ReportShape(j)
  BY <1>2 DEF ReportShape, VerifyShape, Shape
<1> QED BY <1>1, <1>2

\* An add, step by step: what it is given, what it has found no slot for, and the
\* layer it is to write.
LEMMA AddTurns ==
  ASSUME ShapeInv, LibraryData, NEW p \in Procs,
         AnchorAdd(p) \/ AddLoad(p) \/ AddScan(p) \/ AddReread(p) \/ AddSave(p)
           \/ AddFails(p)
  PROVE  Turns(p, {"add", "over", "verify"}) /\ job[p].cmd \in {"none", "add"}
         /\ LibraryData'
<1> DEFINE cmds == {"add", "over", "verify"}
<1>1. "add" \in cmds /\ "over" \in cmds /\ "verify" \in cmds
  OBVIOUS
<1> HIDE DEF cmds
<1>2. Shape(job[p])
  BY DEF ShapeInv
<1>3. job[p].cmd = "add" => AddShape(job[p])
  BY <1>2 DEF Shape
<1>4. Ends(p) => Turns(p, cmds)
  BY <1>1, OverShape, Turned DEF Ends
<1>5. job[p].cmd = "add" /\ Becomes(p, job[p].after) => Turns(p, cmds)
  <2>1. SUFFICES ASSUME job[p].cmd = "add", Becomes(p, job[p].after)
                 PROVE  Turns(p, cmds)
    OBVIOUS
  <2>2. Shape(job[p].after) /\ job[p].after.cmd \in {"over", "verify"}
    BY <1>3, <2>1, AfterShape DEF AddShape
  <2> QED BY <1>1, <2>1, <2>2, Turned
<1>6. CASE AnchorAdd(p)
  <2>1. job[p].cmd = "none" /\ UNCHANGED libraryVars
    BY <1>6 DEF AnchorAdd, Begins, Idle
  <2> DEFINE entry(x) == Entry(x, "manual", "none")
  <2>2. PICK ds \in Datasets, layer \in {"confirmed", "staging"} :
          Becomes(p, Adding("human", [i \in DOMAIN ds |-> entry(ds[i])], layer, Over))
    BY <1>6 DEF AnchorAdd
  <2> DEFINE entries == [i \in DOMAIN ds |-> entry(ds[i])]
             j == Adding("human", entries, layer, Over)
  <2>3. ds \in Seq(Samples)
    BY WorkspaceAssumption
  <2>4. entries \in Seq(Entries)
    <3>1. DOMAIN ds = 1 .. Len(ds) /\ Len(ds) \in Nat /\ \A i \in DOMAIN ds : ds[i] \in Samples
      BY <2>3
    <3>2. \A i \in 1 .. Len(ds) : entry(ds[i]) \in Entries
      BY <3>1, EntryFacts
    <3>3. entries = [i \in 1 .. Len(ds) |-> entry(ds[i])]
      BY <3>1
    <3> HIDE DEF entry
    <3>4. entries \in [1 .. Len(ds) -> Entries]
      BY <3>2, <3>3
    <3> QED BY <3>1, <3>4
  <2>5. \A i \in DOMAIN entries : entries[i].source = "manual"
    BY DEF Entry
  <2> HIDE DEF entries
  <2>6. /\ j.cmd = "add" /\ j.pc = "load" /\ j.by = "human" /\ j.entries = entries
        /\ j.layer = layer /\ j.after = Over
    BY DEF Adding
  <2> HIDE DEF j
  <2>7. Shape(j)
    BY <2>4, <2>5, <2>6 DEF Shape, AddShape
  <2>8. Becomes(p, j)
    BY <2>2 DEF j, entries
  <2> QED BY <1>1, <2>1, <2>6, <2>7, <2>8, Turned DEF LibraryData, libraryVars, cmds
<1>7. CASE AddLoad(p)
  <2> DEFINE j == [cmd |-> "add", pc |-> "scan", by |-> job[p].by,
                   entries |-> job[p].entries, layer |-> job[p].layer,
                   after |-> job[p].after, seen |-> confirmed]
  <2>1. job[p].cmd = "add" /\ job[p].pc = "load" /\ UNCHANGED libraryVars /\ Becomes(p, j)
    BY <1>7 DEF AddLoad, At
  <2>2. AddShape(job[p])
    BY <1>3, <2>1
  <2>3. Shape(j) /\ j.cmd = "add"
    BY <2>1, <2>2 DEF AddShape, Shape, LibraryData
  <2> HIDE DEF j
  <2>4. Turns(p, cmds)
    BY <1>1, <2>1, <2>3, Turned
  <2> QED BY <2>1, <2>4 DEF LibraryData, libraryVars, cmds
<1>8. CASE AddScan(p)
  <2> DEFINE read == <<job[p].seen, staging>>
             fresh == Fresh(job[p].entries, InputsOf(job[p].seen) \cup InputsOf(staging))
             j == [cmd |-> "add", pc |-> "reread", by |-> job[p].by,
                   entries |-> fresh, layer |-> job[p].layer,
                   after |-> job[p].after, read |-> read]
  <2>1. job[p].cmd = "add" /\ job[p].pc = "scan" /\ UNCHANGED libraryVars
    BY <1>8 DEF AddScan, At
  <2>2. (fresh = <<>> /\ Becomes(p, job[p].after)) \/ (fresh # <<>> /\ Becomes(p, j))
    BY <1>8 DEF AddScan
  <2>3. AddShape(job[p])
    BY <1>3, <2>1
  <2>4. job[p].entries \in Seq(Entries)
    BY <2>1, <2>3 DEF AddShape
  <2>5. read \in Layers
    BY <2>1, <2>3 DEF LibraryData, Layers, AddShape
  <2>6. Range(fresh) \subseteq Range(job[p].entries) /\ (fresh # <<>> => Addition(fresh, read))
    BY <2>4, <2>5, AdditionFacts
  <2> HIDE DEF fresh, read
  <2>7. fresh # <<>> => Shape(j)
    <3>1. SUFFICES ASSUME fresh # <<>> PROVE AddShape(j)
      BY DEF Shape
    <3>2. fresh \in Seq(Entries) /\ Addition(fresh, read)
      BY <2>6, <3>1 DEF Addition
    <3>3. ASSUME job[p].by = "human", NEW i \in DOMAIN fresh
          PROVE  fresh[i].source = "manual"
      <4>1. PICK k \in DOMAIN job[p].entries : fresh[i] = job[p].entries[k]
        BY <2>6 DEF Range
      <4> QED BY <2>1, <2>3, <3>3, <4>1 DEF AddShape
    <3> QED BY <2>1, <2>3, <2>5, <3>2, <3>3 DEF AddShape
  <2>8. j.cmd = "add"
    OBVIOUS
  <2> HIDE DEF j
  <2>9. Turns(p, cmds)
    BY <1>1, <1>5, <2>1, <2>2, <2>7, <2>8, Turned
  <2> QED BY <2>1, <2>9 DEF LibraryData, libraryVars, cmds
<1>9. CASE AddReread(p)
  <2> DEFINE target == IF job[p].layer = "confirmed" THEN confirmed ELSE staging
             j == [cmd |-> "add", pc |-> "save", by |-> job[p].by,
                   layer |-> job[p].layer, after |-> job[p].after,
                   read |-> job[p].read, next |-> target \o job[p].entries]
  <2>1. job[p].cmd = "add" /\ job[p].pc = "reread" /\ UNCHANGED libraryVars
    BY <1>9 DEF AddReread, At
  <2>2. Becomes(p, j)
    BY <1>9 DEF AddReread
  <2>3. AddShape(job[p])
    BY <1>3, <2>1
  <2>4. target \in Seq(Entries) /\ job[p].entries \in Seq(Entries)
    BY <2>1, <2>3 DEF AddShape, LibraryData
  <2>5. target \o job[p].entries \in Seq(Entries)
    BY <2>4
  <2> HIDE DEF target
  <2>6. Shape(j) /\ j.cmd = "add"
    BY <2>1, <2>3, <2>5 DEF AddShape, Shape
  <2> HIDE DEF j
  <2>7. Turns(p, cmds)
    BY <1>1, <2>2, <2>6, Turned
  <2> QED BY <2>1, <2>7 DEF LibraryData, libraryVars, cmds
<1>10. CASE AddSave(p)
  <2>1. /\ job[p].cmd = "add" /\ job[p].pc = "save"
        /\ confirmed' \in {confirmed, job[p].next} /\ staging' \in {staging, job[p].next}
        /\ raced' = (raced \/ library # job[p].read) /\ halved' = halved
        /\ Becomes(p, job[p].after)
    BY <1>10 DEF AddSave, At
  <2>2. job[p].next \in Seq(Entries)
    BY <1>3, <2>1 DEF AddShape
  <2>3. raced' \in BOOLEAN
    BY <2>1, Zenon DEF LibraryData
  <2>4. Turns(p, cmds)
    BY <1>5, <2>1
  <2> QED BY <2>1, <2>2, <2>3, <2>4 DEF LibraryData, cmds
<1>11. CASE AddFails(p)
  <2>1. /\ job[p].cmd = "add" /\ UNCHANGED libraryVars
        /\ Becomes(p, job[p].after) \/ Ends(p)
    BY <1>11 DEF AddFails, Ends
  <2> QED BY <1>4, <1>5, <2>1 DEF LibraryData, libraryVars, cmds
<1> QED BY <1>6, <1>7, <1>8, <1>9, <1>10, <1>11

\* A promote, step by step.
LEMMA PromoteTurns ==
  ASSUME ShapeInv, LibraryData, NEW p \in Procs,
         PromoteLoad(p) \/ PromoteRead(p) \/ PromoteConfirm(p) \/ PromoteUnstage(p) \/ PromoteFails(p)
  PROVE  Turns(p, {"promote", "over"}) /\ job[p].cmd \in {"none", "promote"}
         /\ LibraryData'
<1> DEFINE cmds == {"promote", "over"}
<1>1. "promote" \in cmds /\ "over" \in cmds
  OBVIOUS
<1> HIDE DEF cmds
<1>2. Shape(job[p])
  BY DEF ShapeInv
<1>3. job[p].cmd = "promote" => PromoteShape(job[p])
  BY <1>2 DEF Shape
<1>4. Ends(p) => Turns(p, cmds)
  BY <1>1, OverShape, Turned DEF Ends
<1>5. CASE PromoteLoad(p)
  <2>1. job[p].cmd = "none" /\ UNCHANGED libraryVars
    BY <1>5 DEF PromoteLoad, Begins, Idle
  <2>2. PICK ids \in SUBSET Ids :
          Becomes(p, [cmd |-> "promote", pc |-> "read", ids |-> ids, seen |-> staging])
    BY <1>5 DEF PromoteLoad
  <2> DEFINE j == [cmd |-> "promote", pc |-> "read", ids |-> ids, seen |-> staging]
  <2>3. Shape(j) /\ j.cmd = "promote"
    BY DEF Shape, PromoteShape, LibraryData
  <2> HIDE DEF j
  <2>4. Turns(p, cmds)
    BY <1>1, <2>2, <2>3, Turned DEF j
  <2> QED BY <2>1, <2>4 DEF LibraryData, libraryVars, cmds
<1>6. CASE PromoteRead(p)
  <2> DEFINE seen == job[p].seen
             ids == job[p].ids
             j == [cmd |-> "promote", pc |-> "confirm",
                   next |-> confirmed \o Fresh(Picked(seen, ids), InputsOf(confirmed)),
                   left |-> Without(seen, Picked(seen, ids)), read |-> <<confirmed, seen>>]
  <2>1. job[p].cmd = "promote" /\ job[p].pc = "read" /\ UNCHANGED libraryVars
    BY <1>6 DEF PromoteRead, At
  <2>2. Ends(p) \/ (Picked(seen, ids) # <<>> /\ Becomes(p, j))
    BY <1>6 DEF PromoteRead
  <2>3. seen \in Seq(Entries)
    BY <1>3, <2>1 DEF PromoteShape, PromisedShape
  <2> HIDE DEF seen, ids
  <2>4. (Picked(seen, ids) # <<>> => Shape(j)) /\ j.cmd = "promote"
    BY <2>3, PromoteFacts
  <2> HIDE DEF j
  <2>5. Turns(p, cmds)
    BY <1>1, <1>4, <2>2, <2>4, Turned
  <2> QED BY <2>1, <2>5 DEF LibraryData, libraryVars, cmds
<1>7. CASE PromoteConfirm(p)
  <2> DEFINE j == [cmd |-> "promote", pc |-> "unstage", left |-> job[p].left,
                   read |-> <<job[p].next, job[p].read[2]>>]
  <2>1. /\ job[p].cmd = "promote" /\ job[p].pc = "confirm"
        /\ confirmed' = job[p].next /\ UNCHANGED <<staging, halved>>
        /\ raced' = (raced \/ library # job[p].read)
        /\ Becomes(p, j)
    BY <1>7 DEF PromoteConfirm, At
  <2>2. PromisedShape(job[p])
    BY <1>3, <2>1 DEF PromoteShape
  <2>3. job[p].next \in Seq(Entries)
    BY <2>1, <2>2 DEF PromisedShape
  <2>4. raced' \in BOOLEAN
    BY <2>1, Zenon DEF LibraryData
  <2>5. PromoteShape(j)
    BY <2>1, <2>2 DEF PromoteShape, PromisedShape, Layers
  <2>6. Shape(j) /\ j.cmd = "promote"
    BY <2>5 DEF Shape
  <2> HIDE DEF j
  <2>7. Turns(p, cmds)
    BY <1>1, <2>1, <2>6, Turned
  <2> QED BY <2>1, <2>3, <2>4, <2>7 DEF LibraryData, cmds
<1>8. CASE PromoteUnstage(p)
  <2>1. /\ job[p].cmd = "promote" /\ job[p].pc = "unstage"
        /\ UNCHANGED <<confirmed, halved>>
        /\ staging' = job[p].left /\ Ends(p)
        /\ raced' = (raced \/ library # job[p].read)
    BY <1>8 DEF PromoteUnstage, At
  <2>2. job[p].left \in Seq(Entries)
    BY <1>3, <2>1 DEF PromoteShape, PromisedShape
  <2>3. raced' \in BOOLEAN
    BY <2>1, Zenon DEF LibraryData
  <2> QED BY <1>4, <2>1, <2>2, <2>3 DEF LibraryData, cmds
<1>9. CASE PromoteFails(p)
  <2>1. /\ job[p].cmd = "promote" /\ Ends(p)
        /\ halved' = (halved \/ job[p].pc = "unstage")
        /\ UNCHANGED <<confirmed, staging, raced>>
    BY <1>9 DEF PromoteFails
  <2>2. halved' \in BOOLEAN
    BY <2>1, Zenon DEF LibraryData
  <2> QED BY <1>4, <2>1, <2>2 DEF LibraryData, cmds
<1> QED BY <1>5, <1>6, <1>7, <1>8, <1>9

-----------------------------------------------------------------------------
(* The gate. *)

\* What the two evaluations may leave: a verdict has its evidence.
LEMMA OutcomeFacts ==
  ASSUME NEW ids \in SeqOf(Ids, MaxSet), NEW o \in Outcomes[ids]
  PROVE  /\ o.exit \in 0 .. 3 /\ o.verdicts \in [DOMAIN ids -> {"regressed", "pass"}]
         /\ o.exit \in {0, 3} => o.blanks = {}
         /\ o.exit = 3 /\ ~ o.violated =>
              \E pair \in o.lower : pair[1] = pair[2] \/ o.shared
<1> DEFINE Left(base, deliv) ==
             {Outcome(ids, base, deliv, cut, violated, i) :
                cut \in BOOLEAN, violated \in BOOLEAN,
                i \in Readings(base, deliv)}
<1>1. Outcomes[ids] = UNION {Left(base, deliv) : base \in Sides(ids), deliv \in Sides(ids)}
  BY DEF Outcomes
<1> HIDE DEF Left
<1>2. PICK base \in Sides(ids), deliv \in Sides(ids) : o \in Left(base, deliv)
  BY <1>1
<1>3. PICK cut \in BOOLEAN, violated \in BOOLEAN, i \in Readings(base, deliv) :
         o = Outcome(ids, base, deliv, cut, violated, i)
  BY <1>2 DEF Left
<1> DEFINE drop == Drops(base.row, deliv.row)
           blanks == {s \in DOMAIN ids : base.raw[s] = Unscored \/ deliv.raw[s] = Unscored}
           lower == {pair \in (DOMAIN ids \ blanks) \X (DOMAIN ids \ blanks) :
                       ids[pair[1]] = ids[pair[2]]
                       /\ base.raw[pair[1]] > deliv.raw[pair[2]]}
           shared == \E a, b \in DOMAIN ids : a # b /\ ids[a] = ids[b]
           finding == BootstrapVerdict(i[1], i[2])
           exit == VerdictExit(blanks # {} /\ cut, blanks # {}, finding, violated)
           verdicts == [s \in DOMAIN ids |-> IF drop[s] > 0 THEN "regressed" ELSE "pass"]
<1>4. /\ base.raw \in [DOMAIN ids -> 0 .. Unscored] /\ base.row \in [DOMAIN ids -> 0 .. FullMark]
      /\ deliv.raw \in [DOMAIN ids -> 0 .. Unscored] /\ deliv.row \in [DOMAIN ids -> 0 .. FullMark]
      /\ Collected(ids, base.raw, base.row) /\ Collected(ids, deliv.raw, deliv.row)
  BY DEF Sides
<1>5. /\ o.exit = exit /\ o.blanks = blanks /\ o.lower = lower /\ o.shared = shared
      /\ o.violated = violated /\ o.verdicts = verdicts
  BY <1>3 DEF Outcome
<1>6. verdicts \in [DOMAIN ids -> {"regressed", "pass"}]
  OBVIOUS
<1>7. DOMAIN drop = DOMAIN ids /\ \A s \in DOMAIN ids : drop[s] = base.row[s] - deliv.row[s]
  BY <1>4 DEF Drops
<1>8. FullMark \in Nat \ {0} /\ MaxRegression \in Nat
  BY WorkspaceAssumption
<1>9. finding = "regressed" =>
        \E s \in DOMAIN ids : base.row[s] > deliv.row[s] \/ base.raw[s] > deliv.raw[s]
  <2>1. SUFFICES ASSUME finding = "regressed"
                 PROVE  \E s \in DOMAIN ids : \/ base.row[s] > deliv.row[s]
                                            \/ base.raw[s] > deliv.raw[s]
    OBVIOUS
  <2>2. i[1] > MaxRegression
    BY <2>1 DEF BootstrapVerdict
  <2>3. CASE i \in Intervals(drop)
    <3>1. i[1] \in -FullMark .. FullMark /\ \E v \in {drop[s] : s \in DOMAIN drop} : i[1] <= v
      BY <2>3 DEF Intervals
    <3>2. PICK s \in DOMAIN ids : i[1] <= base.row[s] - deliv.row[s]
      BY <1>7, <3>1
    <3>3. base.row[s] \in 0 .. FullMark /\ deliv.row[s] \in 0 .. FullMark
      BY <1>4
    <3> QED BY <1>8, <2>2, <3>1, <3>2, <3>3
  <2>4. CASE i \in Intervals(Drops(base.raw, deliv.raw))
    <3> DEFINE raw == Drops(base.raw, deliv.raw)
    <3>1. DOMAIN raw = DOMAIN ids /\ \A s \in DOMAIN ids : raw[s] = base.raw[s] - deliv.raw[s]
      BY <1>4 DEF Drops
    <3>2. i[1] \in -FullMark .. FullMark /\ \E v \in {raw[s] : s \in DOMAIN raw} : i[1] <= v
      BY <2>4 DEF Intervals
    <3> HIDE DEF raw
    <3>3. PICK s \in DOMAIN ids : i[1] <= base.raw[s] - deliv.raw[s]
      BY <3>1, <3>2
    <3>4. base.raw[s] \in 0 .. Unscored /\ deliv.raw[s] \in 0 .. Unscored
      BY <1>4
    <3> QED BY <1>8, <2>2, <3>2, <3>3, <3>4 DEF Unscored
  <2> QED BY <2>3, <2>4 DEF Readings
<1> HIDE DEF drop, blanks, finding
<1>10. exit \in 0 .. 3 /\ (exit \in {0, 3} => blanks = {})
       /\ (exit = 3 /\ ~ violated => finding = "regressed")
  BY DEF VerdictExit
<1>11. ASSUME blanks = {}, NEW s \in DOMAIN ids, base.row[s] > deliv.row[s]
       PROVE  \E pair \in lower : pair[1] = pair[2] \/ shared
  <2>1. base.raw[s] # Unscored /\ deliv.raw[s] # Unscored
    BY <1>11 DEF blanks
  <2>2. PICK a \in DOMAIN ids : ids[a] = ids[s] /\ base.row[s] = base.raw[a]
    BY <1>4, <2>1 DEF Collected
  <2>3. PICK b \in DOMAIN ids : ids[b] = ids[s] /\ deliv.row[s] = deliv.raw[b]
    BY <1>4, <2>1 DEF Collected
  <2>4. <<a, b>> \in lower
    BY <1>11, <2>2, <2>3
  <2>5. a = b \/ shared
    BY <2>2, <2>3
  <2> HIDE DEF lower, shared
  <2> QED BY <2>4, <2>5
<1>12. ASSUME blanks = {}, NEW s \in DOMAIN ids, base.raw[s] > deliv.raw[s]
       PROVE  \E pair \in lower : pair[1] = pair[2] \/ shared
  <2>1. <<s, s>> \in lower
    BY <1>12
  <2> HIDE DEF lower, shared
  <2> QED BY <2>1
<1> HIDE DEF lower, shared, exit, verdicts
<1> QED BY <1>5, <1>6, <1>9, <1>10, <1>11, <1>12

\* The ids of a sequence of samples.
LEMMA IdsFacts ==
  ASSUME NEW samples \in Seq(Samples), Len(samples) <= MaxSet
  PROVE  LET ids == [i \in DOMAIN samples |-> samples[i].id]
         IN  ids \in SeqOf(Ids, MaxSet) /\ DOMAIN ids = DOMAIN samples
<1> DEFINE ids == [i \in DOMAIN samples |-> samples[i].id]
<1>1. /\ DOMAIN samples = 1 .. Len(samples) /\ Len(samples) \in Nat
      /\ \A i \in DOMAIN samples : samples[i] \in Samples
  OBVIOUS
<1>2. MaxSet \in Nat
  BY WorkspaceAssumption
<1>3. ids \in [1 .. Len(samples) -> Ids]
  BY <1>1 DEF Samples
<1>4. Len(samples) \in 0 .. MaxSet
  BY <1>1, <1>2
<1> HIDE DEF ids
<1>5. ids \in SeqOf(Ids, MaxSet)
  BY <1>3, <1>4 DEF SeqOf
<1> QED BY <1>1, <1>5 DEF ids

LEMMA SetFacts ==
  ASSUME NEW source \in Sources, LibraryData
  PROVE  SetOf(source) \in Seq(Samples)
<1>1. AnchorSet \in Seq(Samples) /\ HoldoutSet \in Seq(Samples)
  BY WorkspaceAssumption
<1> DEFINE given == [i \in DOMAIN confirmed |-> [id |-> confirmed[i].id, input |-> confirmed[i].input]]
<1>2. /\ confirmed \in Seq(Entries) /\ DOMAIN confirmed = 1 .. Len(confirmed)
      /\ Len(confirmed) \in Nat
  BY DEF LibraryData
<1>3. given \in [1 .. Len(confirmed) -> Samples]
  <2>1. ASSUME NEW i \in 1 .. Len(confirmed)
        PROVE  [id |-> confirmed[i].id, input |-> confirmed[i].input] \in Samples
    <3>1. confirmed[i] \in Entries
      BY <1>2
    <3>2. confirmed[i].id \in Ids /\ confirmed[i].input \in Inputs
      BY <3>1 DEF Entries
    <3> QED BY <3>2 DEF Samples
  <2> QED BY <1>2, <2>1
<1>4. given \in Seq(Samples)
  BY <1>2, <1>3
<1> QED BY <1>1, <1>4 DEF SetOf, Sources

LEMMA Returned ==
  ASSUME ShapeInv, NEW p \in Procs, NEW via \in {"cli", "mcp"}, NEW dir,
         NEW exit \in 0 .. 3, Returns(p, via, dir, exit)
  PROVE  Turns(p, {"exited", "call"}) /\ job'[p].exit = exit
<1>1. CASE via = "cli"
  <2>1. Becomes(p, Exited(exit))
    BY <1>1 DEF Returns
  <2>2. /\ Shape(Exited(exit)) /\ Exited(exit).cmd \in {"exited", "call"}
        /\ Exited(exit).exit = exit
    BY DEF Shape, Exited
  <2> QED BY <2>1, <2>2, Turned
<1>2. CASE via = "mcp"
  <2> DEFINE j == [cmd |-> "call", via |-> "mcp", dir |-> dir, exit |-> exit]
  <2>1. Becomes(p, j)
    BY <1>2 DEF Returns
  <2>2. Shape(j) /\ j.cmd \in {"exited", "call"} /\ j.exit = exit
    BY DEF Shape
  <2> HIDE DEF j
  <2> QED BY <2>1, <2>2, Turned
<1> QED BY <1>1, <1>2

LEMMA TurnsMore ==
  ASSUME NEW p, NEW few, NEW cmds, few \subseteq cmds, Turns(p, few)
  PROVE  Turns(p, cmds)
BY DEF Turns

LEMMA Beginning ==
  ASSUME NEW p, NEW wants, Begins(p, wants)
  PROVE  job[p].cmd = "none"
BY DEF Begins, Idle

LEMMA VerifyLoadTurns ==
  ASSUME ShapeInv, NEW p \in Procs, NEW via \in {"cli", "mcp"}, VerifyLoad(p, via)
  PROVE  /\ Turns(p, {"verify", "exited", "call"}) /\ job[p].cmd = "none"
         /\ UNCHANGED verifyVars /\ (job'[p].cmd = "verify" => job'[p].pc = "mkdir")
<1> DEFINE cmds == {"verify", "exited", "call"}
<1>1. PICK source \in Sources, promote \in BOOLEAN :
        /\ via = "mcp" => source = "holdout" /\ ~ promote
        /\ \/ Becomes(p, [cmd |-> "verify", pc |-> "mkdir", via |-> via,
                          source |-> source, promote |-> promote,
                          delivered |-> IF adopted = Nobody THEN Best ELSE adopted])
           \/ Returns(p, via, 0, 1)
  BY Zenon DEF VerifyLoad
<1>2. job[p].cmd = "none" /\ UNCHANGED verifyVars
  <2>1. Begins(p, IF via = "cli" THEN "verify" ELSE "verify tool")
    BY Zenon DEF VerifyLoad
  <2>2. UNCHANGED verifyVars
    BY Zenon DEF VerifyLoad
  <2> QED BY <2>1, <2>2, Beginning, Zenon
<1> DEFINE j == [cmd |-> "verify", pc |-> "mkdir", via |-> via, source |-> source,
                 promote |-> promote,
                 delivered |-> IF adopted = Nobody THEN Best ELSE adopted]
<1>3. CASE Becomes(p, j)
  <2>1. Shape(j) /\ j.cmd \in cmds /\ j.pc = "mkdir"
    BY <1>1 DEF Shape, VerifyShape
  <2> HIDE DEF j
  <2>2. Turns(p, cmds) /\ job'[p] = j
    BY <1>3, <2>1, Turned
  <2> QED BY <1>2, <2>1, <2>2
<1>4. CASE Returns(p, via, 0, 1)
  <2>1. Turns(p, {"exited", "call"})
    BY <1>4, Returned
  <2> QED BY <1>2, <2>1 DEF Turns
<1> QED BY <1>1, <1>3, <1>4

LEMMA VerifyTurns ==
  ASSUME ShapeInv, LibraryData, VerifyData, NEW p \in Procs, VerifyStep(p)
  PROVE  /\ Turns(p, {"verify", "exited", "call", "add"}) /\ job[p].cmd = "verify"
         /\ VerifyData'
<1> DEFINE cmds == {"verify", "exited", "call", "add"}
<1>1. "verify" \in cmds /\ "add" \in cmds /\ {"exited", "call"} \subseteq cmds
  OBVIOUS
<1> HIDE DEF cmds
<1>2. job[p].cmd = "verify" => VerifyShape(job[p])
  BY DEF ShapeInv, Shape
<1>3. now \in 1 .. MaxSeconds /\ reports \in [1 .. MaxSeconds -> ReportStates]
  BY DEF VerifyData
<1>4. CASE VerifyMkdir(p)
  <2> DEFINE empty == [cmd |-> "verify", pc |-> "report", via |-> job[p].via,
                       dir |-> now, exit |-> 0, blanks |-> {}, lower |-> {},
                       shared |-> FALSE, violated |-> FALSE]
             gather == [cmd |-> "verify", pc |-> "gather", via |-> job[p].via,
                        dir |-> now, source |-> job[p].source,
                        promote |-> job[p].promote]
             made == [reports EXCEPT ![now] = IF @ = NoDir THEN EmptyDir ELSE @]
  <2>1. /\ job[p].cmd = "verify" /\ job[p].pc = "mkdir" /\ now' = now
        /\ reports' = made /\ (Becomes(p, empty) \/ Becomes(p, gather))
    BY <1>4 DEF VerifyMkdir, At
  <2>2. /\ job[p].via \in {"cli", "mcp"} /\ job[p].source \in Sources
        /\ job[p].via = "mcp" => ~ job[p].promote
    BY <1>2, <2>1 DEF VerifyShape
  <2>3. Shape(empty) /\ empty.cmd = "verify"
    BY <1>3, <2>2 DEF Shape, VerifyShape, ReportShape
  <2>4. Shape(gather) /\ gather.cmd = "verify"
    BY <1>3, <2>2 DEF Shape, VerifyShape
  <2> HIDE DEF empty, gather
  <2>5. Turns(p, cmds)
    BY <1>1, <2>1, <2>3, <2>4, Turned
  <2>6. made \in [1 .. MaxSeconds -> ReportStates]
    BY <1>3 DEF ReportStates
  <2> HIDE DEF made
  <2> QED BY <1>3, <2>1, <2>5, <2>6 DEF VerifyData, cmds
<1>5. CASE VerifyGather(p)
  <2> DEFINE j == [cmd |-> "verify", pc |-> "evaluate", via |-> job[p].via,
                   dir |-> job[p].dir, promote |-> job[p].promote,
                   samples |-> SetOf(job[p].source)]
  <2>1. /\ job[p].cmd = "verify" /\ job[p].pc = "gather" /\ UNCHANGED verifyVars
        /\ Becomes(p, j) /\ Len(SetOf(job[p].source)) <= MaxSet
    BY <1>5 DEF VerifyGather, At, EnoughFor
  <2>2. /\ job[p].via \in {"cli", "mcp"} /\ job[p].source \in Sources
        /\ job[p].dir \in 1 .. MaxSeconds /\ (job[p].via = "mcp" => ~ job[p].promote)
    BY <1>2, <2>1 DEF VerifyShape
  <2>3. j.samples \in Seq(Samples) /\ Len(j.samples) <= MaxSet
    BY <2>1, <2>2, SetFacts
  <2>4. Shape(j) /\ j.cmd = "verify"
    BY <2>2, <2>3 DEF Shape, VerifyShape
  <2> HIDE DEF j
  <2>5. Turns(p, cmds)
    BY <1>1, <2>1, <2>4, Turned
  <2> QED BY <2>1, <2>5 DEF VerifyData, verifyVars, cmds
<1>6. CASE VerifyEvaluate(p)
  <2> DEFINE done(o) == [cmd |-> "verify", pc |-> "report", via |-> job[p].via,
                         dir |-> job[p].dir, exit |-> o.exit, blanks |-> o.blanks,
                         lower |-> o.lower, shared |-> o.shared, violated |-> o.violated]
             ids == [i \in DOMAIN job[p].samples |-> job[p].samples[i].id]
  <2>1. /\ job[p].cmd = "verify" /\ job[p].pc = "evaluate" /\ UNCHANGED verifyVars
    BY <1>6 DEF VerifyEvaluate, At
  <2>2. PICK o \in Outcomes[ids] :
          Becomes(p, IF job[p].promote
                     THEN Adding("verify", Labelled(job[p].samples, o.verdicts),
                                 "staging", done(o))
                     ELSE done(o))
    BY <1>6 DEF VerifyEvaluate
  <2>3. /\ job[p].via \in {"cli", "mcp"} /\ job[p].dir \in 1 .. MaxSeconds
        /\ job[p].samples \in Seq(Samples) /\ Len(job[p].samples) <= MaxSet
        /\ job[p].promote => job[p].via = "cli"
    BY <1>2, <2>1 DEF VerifyShape
  <2>4. /\ o.exit \in 0 .. 3 /\ (o.exit \in {0, 3} => o.blanks = {})
        /\ o.exit = 3 /\ ~ o.violated =>
             \E pair \in o.lower : pair[1] = pair[2] \/ o.shared
        /\ Labelled(job[p].samples, o.verdicts) \in Seq(Entries)
    <3>1. ids \in SeqOf(Ids, MaxSet) /\ DOMAIN ids = DOMAIN job[p].samples
      BY <2>3, IdsFacts
    <3> HIDE DEF ids
    <3>2. /\ o.exit \in 0 .. 3 /\ o.verdicts \in [DOMAIN ids -> {"regressed", "pass"}]
          /\ o.exit \in {0, 3} => o.blanks = {}
          /\ o.exit = 3 /\ ~ o.violated =>
               \E pair \in o.lower : pair[1] = pair[2] \/ o.shared
      BY <3>1, OutcomeFacts
    <3>3. Labelled(job[p].samples, o.verdicts) \in Seq(Entries)
      BY <2>3, <3>1, <3>2, LabelledFacts
    <3> QED BY <3>2, <3>3
  <2>5. ReportShape(done(o))
    BY <2>3, <2>4 DEF ReportShape
  <2>6. Shape(done(o)) /\ done(o).cmd = "verify"
    BY <2>5, AfterShape
  <2> DEFINE labelled == Labelled(job[p].samples, o.verdicts)
             j == Adding("verify", labelled, "staging", done(o))
  <2> HIDE DEF done
  <2>7. /\ j.cmd = "add" /\ j.pc = "load" /\ j.by = "verify"
        /\ j.entries = labelled /\ j.layer = "staging" /\ j.after = done(o)
    BY DEF Adding
  <2>8. Becomes(p, done(o)) \/ (job[p].promote /\ Becomes(p, j))
    BY <2>2
  <2> HIDE DEF j, labelled
  <2>9. job[p].promote => Shape(j)
    <3>1. SUFFICES ASSUME job[p].promote PROVE Shape(j)
      OBVIOUS
    <3>2. done(o).via = "cli"
      BY <2>3, <3>1 DEF done
    <3> QED BY <2>4, <2>5, <2>7, <3>2 DEF Shape, AddShape, labelled
  <2>10. Turns(p, cmds)
    BY <1>1, <2>6, <2>7, <2>8, <2>9, Turned
  <2> QED BY <2>1, <2>10 DEF VerifyData, verifyVars, cmds
<1>7. CASE VerifyReport(p)
  <2> DEFINE r == Report(p, job[p].via, job[p].exit)
  <2>1. /\ job[p].cmd = "verify" /\ job[p].pc = "report" /\ now' = now
        /\ reports' = [reports EXCEPT ![job[p].dir] = r]
        /\ \E exit \in {job[p].exit, 1} : Returns(p, job[p].via, job[p].dir, exit)
    BY <1>7 DEF VerifyReport, At
  <2>2. job[p].via \in {"cli", "mcp"} /\ job[p].exit \in 0 .. 3
    BY <1>2, <2>1 DEF VerifyShape, ReportShape
  <2>3. Turns(p, cmds)
    <3>1. PICK exit \in {job[p].exit, 1} : Returns(p, job[p].via, job[p].dir, exit)
      BY <2>1
    <3>2. exit \in 0 .. 3
      BY <2>2
    <3> QED BY <1>1, <2>2, <3>1, <3>2, Returned, TurnsMore
  <2>4. r \in ReportStates
    BY <2>2 DEF ReportStates
  <2> HIDE DEF r
  <2> QED BY <1>3, <2>1, <2>3, <2>4 DEF VerifyData, cmds
<1>8. CASE VerifyFails(p)
  <2>1. /\ job[p].cmd = "verify" /\ UNCHANGED verifyVars
        /\ Returns(p, job[p].via, job[p].dir, 1)
    BY <1>8 DEF VerifyFails
  <2>2. job[p].via \in {"cli", "mcp"} /\ 1 \in 0 .. 3
    BY <1>2, <2>1 DEF VerifyShape
  <2>3. Turns(p, cmds)
    BY <1>1, <2>1, <2>2, Returned, TurnsMore
  <2> QED BY <2>1, <2>3 DEF VerifyData, verifyVars, cmds
<1> QED BY <1>4, <1>5, <1>6, <1>7, <1>8 DEF VerifyStep

-----------------------------------------------------------------------------
(* Runs and the pool. *)

LEMMA RunStartTurns ==
  ASSUME ShapeInv, PoolData, NEW p \in Procs, NEW via \in {"cli", "mcp"},
         RunStart(p, via)
  PROVE  /\ Turns(p, {"run"}) /\ job[p].cmd = "none" /\ PoolData'
         /\ UNCHANGED <<pool, warned, summaries>>
         /\ liveSinks' = IF via = "mcp" THEN liveSinks \cup {p} ELSE liveSinks
         /\ job'[p].pc = "compare" /\ job'[p].via = via /\ job'[p].mine.run = p
<1>1. PICK set \in SampleSets, mean \in Means :
        Becomes(p, [cmd |-> "run", pc |-> "compare", via |-> via,
                    mine |-> [run |-> p, set |-> set, mean |-> mean]])
  BY Zenon DEF RunStart
<1>2. /\ UNCHANGED <<pool, warned, summaries>>
      /\ liveSinks' = IF via = "mcp" THEN liveSinks \cup {p} ELSE liveSinks
  BY Zenon DEF RunStart
<1>3. job[p].cmd = "none"
  <2>1. Begins(p, IF via = "cli" THEN "run" ELSE "optimize tool")
    BY Zenon DEF RunStart
  <2> QED BY <2>1, Beginning, Zenon
<1> DEFINE j == [cmd |-> "run", pc |-> "compare", via |-> via,
                 mine |-> [run |-> p, set |-> set, mean |-> mean]]
<1>4. /\ Shape(j) /\ j.cmd \in {"run"} /\ j.pc = "compare" /\ j.via = via
      /\ j.mine.run = p
  BY DEF Shape, RunShape, Records
<1> HIDE DEF j
<1>5. Turns(p, {"run"}) /\ job'[p] = j
  BY <1>1, <1>4, Turned DEF j
<1>6. PoolData'
  BY <1>2 DEF PoolData
<1> QED BY <1>2, <1>3, <1>4, <1>5, <1>6

LEMMA RunEnds ==
  ASSUME ShapeInv, NEW p \in Procs, job[p].cmd = "run", NEW exit, RunReturns(p, exit)
  PROVE  Turns(p, {"over", "optimized"}) /\ liveSinks' = liveSinks \ {p}
<1> DEFINE j == [cmd |-> "optimized", via |-> "mcp", exit |-> exit]
<1>1. liveSinks' = liveSinks \ {p} /\ (Becomes(p, Over) \/ Becomes(p, j))
  BY DEF RunReturns
<1>2. Shape(j) /\ j.cmd \in {"over", "optimized"}
  BY DEF Shape
<1>3. Shape(Over) /\ Over.cmd \in {"over", "optimized"}
  BY OverShape
<1> HIDE DEF j
<1> QED BY <1>1, <1>2, <1>3, Turned

LEMMA RunTurns ==
  ASSUME ShapeInv, PoolData, NEW p \in Procs, RunStep(p)
  PROVE  /\ Turns(p, {"run", "over", "optimized"}) /\ job[p].cmd = "run"
         /\ PoolData'
<1> DEFINE cmds == {"run", "over", "optimized"}
<1>1. "run" \in cmds /\ {"over", "optimized"} \subseteq cmds
  OBVIOUS
<1> HIDE DEF cmds
<1>2. job[p].cmd = "run" => RunShape(job[p])
  BY DEF ShapeInv, Shape
<1>3. CASE PoolCompare(p)
  <2>1. job[p].cmd = "run" /\ job[p].pc = "compare" /\ UNCHANGED poolVars
    BY <1>3 DEF PoolCompare, At
  <2>2. PICK warns \in BOOLEAN :
          Becomes(p, [cmd |-> "run", pc |-> "append", via |-> job[p].via,
                      mine |-> job[p].mine, warns |-> warns])
    BY <1>3 DEF PoolCompare
  <2> DEFINE j == [cmd |-> "run", pc |-> "append", via |-> job[p].via,
                   mine |-> job[p].mine, warns |-> warns]
  <2>3. Shape(j) /\ j.cmd = "run"
    BY <1>2, <2>1 DEF Shape, RunShape
  <2> HIDE DEF j
  <2>4. Turns(p, cmds)
    BY <1>1, <2>2, <2>3, Turned DEF j
  <2> QED BY <2>1, <2>4 DEF PoolData, poolVars, cmds
<1>4. CASE PoolAppend(p)
  <2> DEFINE j == [cmd |-> "run", pc |-> "finish", via |-> job[p].via]
             S == Records \cup {Torn, Garbled}
  <2>1. /\ job[p].cmd = "run" /\ job[p].pc = "append"
        /\ UNCHANGED <<summaries, liveSinks>> /\ Becomes(p, j)
        /\ pool' \in {pool, Journalled(pool, job[p].mine), CutIn(pool)}
        /\ warned' \in {warned, warned \cup {p}}
    BY <1>4 DEF PoolAppend, At
  <2>2. job[p].mine \in Records /\ job[p].via \in {"cli", "mcp"}
    BY <1>2, <2>1 DEF RunShape
  <2>3. pool \in Seq(S) /\ Torn \in S /\ Garbled \in S /\ job[p].mine \in S
    BY <2>2 DEF PoolData
  <2> HIDE DEF S
  <2>4. pool' \in Seq(S)
    BY <2>1, <2>3, JournalRange
  <2>5. Shape(j) /\ j.cmd = "run"
    BY <2>2 DEF Shape, RunShape
  <2> HIDE DEF j
  <2>6. Turns(p, cmds)
    BY <1>1, <2>1, <2>5, Turned
  <2> QED BY <2>1, <2>4, <2>6 DEF PoolData, cmds, S
<1>5. CASE FinishRun(p)
  <2>1. /\ job[p].cmd = "run" /\ UNCHANGED <<pool, warned>>
        /\ summaries' = summaries \cup {p} /\ \E exit : RunReturns(p, exit)
    BY <1>5 DEF FinishRun, At
  <2>2. Turns(p, cmds) /\ liveSinks' = liveSinks \ {p}
    BY <1>1, <2>1, RunEnds, TurnsMore
  <2> QED BY <2>1, <2>2 DEF PoolData, cmds
<1>6. CASE RunFails(p)
  <2>1. /\ job[p].cmd = "run" /\ UNCHANGED <<pool, warned, summaries>>
        /\ RunReturns(p, 1)
    BY <1>6 DEF RunFails
  <2>2. Turns(p, cmds) /\ liveSinks' = liveSinks \ {p}
    BY <1>1, <2>1, RunEnds, TurnsMore
  <2> QED BY <2>1, <2>2 DEF PoolData, cmds
<1> QED BY <1>3, <1>4, <1>5, <1>6 DEF RunStep

-----------------------------------------------------------------------------
(* The session. *)

LEMMA Answered ==
  ASSUME ShapeInv, NEW p \in Procs, NEW a, Answer(p, a)
  PROVE  /\ Turns(p, {"over"}) /\ answers' = [answers EXCEPT ![p] = a]
<1>1. Becomes(p, Over) /\ answers' = [answers EXCEPT ![p] = a]
  BY DEF Answer, Ends
<1> QED BY <1>1, OverShape, Turned

LEMMA SessionTurns ==
  ASSUME ShapeInv, VerifyData, PoolData, NEW p \in Procs, McpStep(p)
  PROVE  /\ Turns(p, {"verify", "exited", "call", "run", "over"})
         /\ job[p].cmd \in {"none", "verify", "call", "run", "optimized"}
         /\ VerifyData' /\ PoolData'
         /\ \E a : answers' \in {answers, [answers EXCEPT ![p] = a]}
<1> DEFINE cmds == {"verify", "exited", "call", "run", "over"}
<1>1. {"verify", "exited", "call"} \subseteq cmds /\ {"run"} \subseteq cmds
      /\ {"over"} \subseteq cmds
  OBVIOUS
<1> HIDE DEF cmds
<1>2. CASE ToolCall(p)
  <2>1. /\ \/ VerifyLoad(p, "mcp") /\ UNCHANGED poolVars
           \/ RunStart(p, "mcp") /\ UNCHANGED verifyVars
        /\ UNCHANGED answers
    BY <1>2 DEF ToolCall
  <2>2. CASE VerifyLoad(p, "mcp") /\ UNCHANGED poolVars
    <3>1. Turns(p, cmds) /\ job[p].cmd = "none" /\ UNCHANGED verifyVars
      BY <1>1, <2>2, VerifyLoadTurns, TurnsMore
    <3> QED BY <2>1, <2>2, <3>1 DEF VerifyData, verifyVars, PoolData, poolVars, cmds
  <2>3. CASE RunStart(p, "mcp") /\ UNCHANGED verifyVars
    <3>1. Turns(p, cmds) /\ job[p].cmd = "none" /\ PoolData'
      BY <1>1, <2>3, RunStartTurns, TurnsMore
    <3> QED BY <2>1, <2>3, <3>1 DEF VerifyData, verifyVars, cmds
  <2> QED BY <2>1, <2>2, <2>3
<1>3. CASE VerifyAnswer(p) \/ OptimizeAnswer(p)
  <2>1. \E a : Answer(p, a)
    BY <1>3 DEF VerifyAnswer, OptimizeAnswer
  <2>2. /\ UNCHANGED <<verifyVars, poolVars>> /\ job[p].cmd \in {"call", "optimized"}
    BY <1>3 DEF VerifyAnswer, OptimizeAnswer
  <2>3. PICK a : Turns(p, cmds) /\ answers' = [answers EXCEPT ![p] = a]
    BY <1>1, <2>1, Answered, TurnsMore
  <2> QED BY <2>2, <2>3 DEF VerifyData, verifyVars, PoolData, poolVars, cmds
<1>4. CASE Panic(p)
  <2>1. /\ Answer(p, Failure) /\ liveSinks' = {} /\ UNCHANGED verifyVars
        /\ UNCHANGED <<pool, warned, summaries>>
        /\ job[p].cmd \in {"verify", "call", "run", "optimized"}
    BY <1>4 DEF Panic, Reclaimed, InCall
  <2>2. Turns(p, cmds) /\ answers' = [answers EXCEPT ![p] = Failure]
    BY <1>1, <2>1, Answered, TurnsMore
  <2> QED BY <2>1, <2>2 DEF VerifyData, verifyVars, PoolData, cmds
<1> QED BY <1>2, <1>3, <1>4 DEF McpStep

-----------------------------------------------------------------------------
(* The settings. *)

LEMMA KeysFacts ==
  ASSUME NEW file \in FileStates \ {Corrupt}
  PROVE  KeysOf(file) \in Layer
BY WorkspaceAssumption DEF FileStates, KeysOf, Holding, NoFile, Corrupt, Blank, Layer, Unset

LEMMA OrFacts ==
  ASSUME NEW value, NEW otherwise
  PROVE  Or(value, otherwise) \in {value, otherwise}
BY DEF Or

\* A command line's values, the environment's, a file's or the defaults.
LEMMA ResolvedFacts ==
  ASSUME SettingsData, NEW flags \in Flags, NEW file \in Layer
  PROVE  Resolve(flags, file) \in Layer /\ Recorded(Resolve(flags, file)) \in Layer
<1> DEFINE conn == Resolve(flags, file)
<1>1. /\ flags \in [DOMAIN flags -> 0 .. Top] /\ Defaults \in Layer /\ Top \in Nat
      /\ Persisted \in [Keys -> [0 .. Top -> 0 .. Top]]
  BY WorkspaceAssumption
<1>2. ASSUME NEW k \in Keys
      PROVE  conn[k] \in 0 .. Top
  <2>1. conn[k] = IF Final(flags, k) THEN flags[k]
                  ELSE Or(FromEnv(k), Or(file[k], Defaults[k]))
    BY DEF Resolve
  <2>2. FromEnv(k) \in 0 .. Top
    BY <1>1 DEF SettingsData, FromEnv, Unparsable, Unset
  <2>3. file[k] \in 0 .. Top /\ Defaults[k] \in 0 .. Top
    BY <1>1 DEF Layer
  <2>4. Final(flags, k) => flags[k] \in 0 .. Top
    BY <1>1 DEF Final
  <2> HIDE DEF conn
  <2> QED BY <2>1, <2>2, <2>3, <2>4, OrFacts
<1>3. conn = [k \in Keys |-> conn[k]]
  BY DEF Resolve
<1> HIDE DEF conn
<1>4. conn \in Layer
  BY <1>2, <1>3 DEF Layer
<1>5. Recorded(conn) \in Layer
  BY <1>1, <1>4 DEF Recorded, Layer
<1> QED BY <1>4, <1>5 DEF conn

\* The two commands that read the settings.
LEMMA ReadTurns ==
  ASSUME ShapeInv, SettingsData, NEW p \in Procs, ConfiguredRun(p) \/ ConfiguredVerify(p)
  PROVE  /\ Turns(p, {"ran", "verified", "over"}) /\ job[p].cmd = "none"
         /\ SettingsData' /\ UNCHANGED <<env, files, overwrote>>
<1> DEFINE cmds == {"ran", "verified", "over"}
<1>1. "over" \in cmds /\ "ran" \in cmds /\ "verified" \in cmds
  OBVIOUS
<1> HIDE DEF cmds
<1>2. Ends(p) => Turns(p, cmds)
  BY <1>1, OverShape, Turned DEF Ends
<1>3. CASE ConfiguredRun(p)
  <2>1. UNCHANGED <<env, files, overwrote>>
    BY <1>3, Zenon DEF ConfiguredRun
  <2>2. job[p].cmd = "none"
    BY <1>3, Beginning, Zenon DEF ConfiguredRun
  <2>3. PICK flags \in Flags :
          IF Hit = Corrupt \/ ~ Complete(Resolve(flags, KeysOf(Hit)))
          THEN Ends(p) /\ UNCHANGED manifest
          ELSE /\ manifest' = Recorded(Resolve(flags, KeysOf(Hit)))
               /\ Becomes(p, [cmd |-> "ran", flags |-> flags, file |-> KeysOf(Hit),
                              conn |-> Resolve(flags, KeysOf(Hit)),
                              sources |-> [k \in Keys |-> SourceOf(flags, KeysOf(Hit), k)]])
    BY <1>3, Zenon DEF ConfiguredRun
  <2> DEFINE j == [cmd |-> "ran", flags |-> flags, file |-> KeysOf(Hit),
                   conn |-> Resolve(flags, KeysOf(Hit)),
                   sources |-> [k \in Keys |-> SourceOf(flags, KeysOf(Hit), k)]]
  <2>4. \/ Ends(p) /\ UNCHANGED manifest
        \/ /\ Hit # Corrupt /\ manifest' = Recorded(Resolve(flags, KeysOf(Hit)))
           /\ Becomes(p, j)
    BY <2>3
  <2>5. Shape(j) /\ j.cmd = "ran"
    BY DEF Shape
  <2> HIDE DEF j
  <2>6. CASE Ends(p) /\ UNCHANGED manifest
    BY <1>2, <2>1, <2>2, <2>6 DEF SettingsData, cmds
  <2>7. CASE /\ Hit # Corrupt /\ manifest' = Recorded(Resolve(flags, KeysOf(Hit)))
             /\ Becomes(p, j)
    <3>1. Turns(p, cmds)
      BY <1>1, <2>5, <2>7, Turned
    <3>2. Hit \in FileStates \ {Corrupt}
      BY <2>7 DEF Hit, SettingsData, Scopes
    <3>3. manifest' \in Layer
      BY <2>7, <3>2, KeysFacts, ResolvedFacts
    <3> QED BY <2>1, <2>2, <3>1, <3>3 DEF SettingsData, cmds
  <2> QED BY <2>4, <2>6, <2>7
<1>4. CASE ConfiguredVerify(p)
  <2>1. UNCHANGED settingsVars
    BY <1>4, Zenon DEF ConfiguredVerify
  <2>2. job[p].cmd = "none"
    BY <1>4, Beginning, Zenon DEF ConfiguredVerify
  <2>3. PICK flags \in Flags :
          IF manifest = Blank \/ Hit = Corrupt \/ ~ Complete(VerifyConn(flags, KeysOf(Hit)))
          THEN Ends(p)
          ELSE Becomes(p, [cmd |-> "verified", flags |-> flags,
                           conn |-> VerifyConn(flags, KeysOf(Hit))])
    BY <1>4, Zenon DEF ConfiguredVerify
  <2> DEFINE j == [cmd |-> "verified", flags |-> flags,
                   conn |-> VerifyConn(flags, KeysOf(Hit))]
  <2>4. Ends(p) \/ Becomes(p, j)
    BY <2>3
  <2>5. Shape(j) /\ j.cmd = "verified"
    BY DEF Shape
  <2> HIDE DEF j
  <2>6. Turns(p, cmds)
    BY <1>1, <1>2, <2>4, <2>5, Turned
  <2> QED BY <2>1, <2>2, <2>6 DEF SettingsData, settingsVars, cmds
<1> QED BY <1>3, <1>4

LEMMA WithKeyFacts ==
  ASSUME NEW keys \in Layer, NEW key \in Keys, NEW value \in 0 .. Top
  PROVE  /\ WithKey(keys, key, value) \in Layer
         /\ \A k \in Keys \ {key} : WithKey(keys, key, value)[k] = keys[k]
BY DEF WithKey, Layer

LEMMA ChosenFacts ==
  ASSUME NEW given \in Layer, NEW judge
  PROVE  Chosen(given, judge) \in Layer
BY WorkspaceAssumption DEF Chosen, Layer, Unset

LEMMA HoldingFacts ==
  ASSUME NEW layer \in Layer
  PROVE  /\ Holding(layer) \in FileStates /\ Holding(layer) \notin {NoFile, Corrupt}
         /\ KeysOf(Holding(layer)) = layer
BY DEF Holding, FileStates, NoFile, Corrupt, KeysOf

\* config set and config init: each step that ends up over, or in an edit or at
\* the wizard with what it has read.
LEMMA EditTurns ==
  ASSUME ShapeInv, SettingsData, NEW p \in Procs,
         EditLoad(p) \/ EditRead(p) \/ EditRename(p)
  PROVE  /\ Turns(p, {"edit", "over"}) /\ job[p].cmd \in {"none", "edit"}
         /\ SettingsData' /\ UNCHANGED <<env, manifest>>
<1> DEFINE cmds == {"edit", "over"}
<1>1. "edit" \in cmds /\ "over" \in cmds
  OBVIOUS
<1> HIDE DEF cmds
<1>2. Ends(p) => Turns(p, cmds)
  BY <1>1, OverShape, Turned DEF Ends
<1>3. job[p].cmd = "edit" => EditShape(job[p])
  BY DEF ShapeInv, Shape
<1>4. CASE EditLoad(p)
  <2>1. UNCHANGED settingsVars /\ job[p].cmd = "none"
    BY <1>4, Beginning, Zenon DEF EditLoad
  <2>2. PICK scope \in Scopes, key \in Keys, value \in 0 .. Top :
          Becomes(p, IF files[scope] = Corrupt
                     THEN Over
                     ELSE [cmd |-> "edit", pc |-> "read", scope |-> scope,
                           key |-> key, value |-> value])
    BY <1>4, Zenon DEF EditLoad
  <2> DEFINE j == [cmd |-> "edit", pc |-> "read", scope |-> scope,
                   key |-> key, value |-> value]
  <2>3. Ends(p) \/ Becomes(p, j)
    BY <2>2 DEF Ends
  <2>4. Shape(j) /\ j.cmd = "edit"
    BY DEF Shape, EditShape
  <2> HIDE DEF j
  <2>5. Turns(p, cmds)
    BY <1>1, <1>2, <2>3, <2>4, Turned
  <2> QED BY <2>1, <2>5 DEF SettingsData, settingsVars, cmds
<1>5. CASE EditRead(p)
  <2> DEFINE there == files[job[p].scope]
             j == [cmd |-> "edit", pc |-> "rename", scope |-> job[p].scope,
                   key |-> job[p].key, read |-> there,
                   next |-> WithKey(KeysOf(there), job[p].key, job[p].value)]
  <2>1. /\ UNCHANGED settingsVars /\ job[p].cmd = "edit" /\ job[p].pc = "read"
        /\ there = Corrupt => Ends(p)
        /\ Ends(p) \/ Becomes(p, j)
    BY <1>5 DEF EditRead, At, Ends
  <2>2. /\ job[p].scope \in Scopes /\ job[p].key \in Keys /\ job[p].value \in 0 .. Top
    BY <1>3, <2>1 DEF EditShape
  <2>3. CASE Ends(p)
    BY <1>2, <2>1, <2>3 DEF SettingsData, settingsVars, cmds
  <2>4. CASE ~ Ends(p)
    <3>1. there \in FileStates \ {Corrupt}
      BY <2>1, <2>2, <2>4 DEF SettingsData
    <3> HIDE DEF there
    <3>2. KeysOf(there) \in Layer
      BY <3>1, KeysFacts
    <3>3. EditShape(j)
      BY <2>2, <3>1, <3>2, WithKeyFacts DEF EditShape
    <3>4. Shape(j) /\ j.cmd = "edit"
      BY <3>3 DEF Shape
    <3> HIDE DEF j
    <3>5. Turns(p, cmds)
      BY <1>1, <2>1, <2>4, <3>4, Turned
    <3> QED BY <2>1, <3>5 DEF SettingsData, settingsVars, cmds
  <2> QED BY <2>3, <2>4
<1>6. CASE EditRename(p)
  <2>1. /\ job[p].cmd = "edit" /\ job[p].pc = "rename"
        /\ files' = [files EXCEPT ![job[p].scope] = Holding(job[p].next)]
        /\ overwrote' = (overwrote \/ files[job[p].scope] # job[p].read)
        /\ Ends(p) /\ UNCHANGED <<env, manifest>>
    BY <1>6 DEF EditRename, At
  <2>2. Holding(job[p].next) \in FileStates
    BY <1>3, <2>1, HoldingFacts DEF EditShape
  <2>3. files' \in [Scopes -> FileStates]
    BY <2>1, <2>2 DEF SettingsData
  <2>4. overwrote' \in BOOLEAN
    BY <2>1, Zenon DEF SettingsData
  <2> QED BY <1>2, <2>1, <2>3, <2>4 DEF SettingsData, cmds
<1> QED BY <1>4, <1>5, <1>6

LEMMA InitTurns ==
  ASSUME ShapeInv, SettingsData, NEW p \in Procs,
         InitAsk(p) \/ InitCancel(p) \/ InitWrite(p)
  PROVE  /\ Turns(p, {"init", "over"}) /\ job[p].cmd \in {"none", "init"}
         /\ SettingsData' /\ UNCHANGED <<env, manifest>>
<1> DEFINE cmds == {"init", "over"}
<1>1. "init" \in cmds /\ "over" \in cmds
  OBVIOUS
<1> HIDE DEF cmds
<1>2. Ends(p) => Turns(p, cmds)
  BY <1>1, OverShape, Turned DEF Ends
<1>3. CASE InitAsk(p)
  <2>1. UNCHANGED settingsVars /\ job[p].cmd = "none"
    BY <1>3, Beginning, Zenon DEF InitAsk
  <2>2. PICK scope \in Scopes, force \in BOOLEAN, agrees \in BOOLEAN :
       LET there == files[scope]
           hasKeys == there \notin {NoFile, Corrupt} /\ there.keys # Blank
       IN  Becomes(p, IF ~ force /\ (there = Corrupt \/ (hasKeys /\ ~ agrees))
                      THEN Over
                      ELSE [cmd |-> "init", pc |-> "wizard", scope |-> scope,
                            gives |-> IF force \/ (hasKeys /\ agrees)
                                      THEN there ELSE NoFile,
                            read |-> there])
    BY <1>3, Zenon DEF InitAsk
  <2> DEFINE there == files[scope]
             hasKeys == there \notin {NoFile, Corrupt} /\ there.keys # Blank
             gives == IF force \/ (hasKeys /\ agrees) THEN there ELSE NoFile
             j == [cmd |-> "init", pc |-> "wizard", scope |-> scope,
                   gives |-> gives, read |-> there]
  <2>3. \/ Ends(p)
        \/ force \/ (there # Corrupt /\ (hasKeys => agrees))
    BY <2>2 DEF Ends
  <2>4. Ends(p) \/ Becomes(p, j)
    BY <2>2 DEF Ends
  <2>5. CASE Ends(p)
    BY <1>2, <2>1, <2>5 DEF SettingsData, settingsVars, cmds
  <2>6. CASE ~ Ends(p)
    <3>1. there \in FileStates
      BY DEF SettingsData
    <3>2. there \in {NoFile, Holding(Blank), gives}
      <4>1. CASE force \/ (hasKeys /\ agrees)
        BY <4>1
      <4>2. CASE ~ (force \/ (hasKeys /\ agrees))
        <5>1. there # Corrupt /\ ~ hasKeys
          BY <2>3, <2>6, <4>2
        <5>2. there = NoFile \/ there.keys = Blank
          BY <5>1
        <5>3. there # NoFile => there = Holding(there.keys)
          BY <3>1, <5>1 DEF FileStates, Holding
        <5> QED BY <5>2, <5>3
      <4> QED BY <4>1, <4>2
    <3> HIDE DEF gives, there
    <3>3. Shape(j) /\ j.cmd = "init"
      BY <3>2 DEF Shape, InitShape
    <3> HIDE DEF j
    <3>4. Turns(p, cmds)
      BY <1>1, <2>4, <2>6, <3>3, Turned
    <3> QED BY <2>1, <3>4 DEF SettingsData, settingsVars, cmds
  <2> QED BY <2>5, <2>6
<1>4. CASE InitCancel(p)
  BY <1>2, <1>4 DEF InitCancel, At, SettingsData, settingsVars, cmds
<1>5. CASE InitWrite(p)
  <2>1. /\ job[p].cmd = "init" /\ Ends(p) /\ UNCHANGED <<env, manifest>>
        /\ overwrote' = (overwrote \/ files[job[p].scope] # job[p].read)
    BY <1>5 DEF InitWrite, At
  <2>2. PICK given \in Answers, judge \in BOOLEAN :
          files' = [files EXCEPT ![job[p].scope] = Holding(Chosen(given, judge))]
    BY <1>5 DEF InitWrite
  <2>3. Chosen(given, judge) \in Layer
    BY WorkspaceAssumption, ChosenFacts
  <2>4. Holding(Chosen(given, judge)) \in FileStates
    BY <2>3, HoldingFacts
  <2>5. files' \in [Scopes -> FileStates]
    BY <2>2, <2>4 DEF SettingsData
  <2>6. overwrote' \in BOOLEAN
    BY <2>1, Zenon DEF SettingsData
  <2> QED BY <1>2, <2>1, <2>5, <2>6 DEF SettingsData, cmds
<1> QED BY <1>3, <1>4, <1>5

-----------------------------------------------------------------------------
(* Types. *)

LEMMA Shaped ==
  ASSUME ShapeInv, NEW p \in Procs, NEW cmds, Turns(p, cmds)
  PROVE  ShapeInv'
<1>1. DOMAIN job' = Procs
  BY DEF Turns
<1>2. ASSUME NEW q \in Procs
      PROVE  Shape(job'[q])
  <2>1. CASE q = p
    BY <2>1 DEF Turns
  <2>2. CASE q # p
    BY <2>2 DEF Turns, ShapeInv
  <2> QED BY <2>1, <2>2
<1> QED BY <1>1, <1>2 DEF ShapeInv

LEMMA GateTurns ==
  ASSUME ShapeInv, LibraryData, VerifyData, NEW p \in Procs, Gate(p)
  PROVE  /\ Turns(p, {"verify", "exited", "call", "add"})
         /\ job[p].cmd \in {"none", "verify"} /\ VerifyData'
<1>1. CASE VerifyLoad(p, "cli")
  <2>1. /\ Turns(p, {"verify", "exited", "call"}) /\ job[p].cmd = "none"
        /\ UNCHANGED verifyVars
    BY <1>1, VerifyLoadTurns
  <2> QED BY <2>1 DEF Turns, VerifyData, verifyVars
<1>2. CASE VerifyStep(p)
  BY <1>2, VerifyTurns
<1> QED BY <1>1, <1>2 DEF Gate

LEMMA PoolTurns ==
  ASSUME ShapeInv, PoolData, NEW p \in Procs, Run(p)
  PROVE  /\ Turns(p, {"run", "over", "optimized"}) /\ job[p].cmd \in {"none", "run"}
         /\ PoolData'
<1>1. CASE RunStart(p, "cli")
  <2>1. Turns(p, {"run"}) /\ job[p].cmd = "none" /\ PoolData'
    BY <1>1, RunStartTurns
  <2> QED BY <2>1 DEF Turns
<1>2. CASE RunStep(p)
  BY <1>2, RunTurns
<1> QED BY <1>1, <1>2 DEF Run

LEMMA LibraryTurns ==
  ASSUME ShapeInv, LibraryData, NEW p \in Procs, LibraryStep(p)
  PROVE  /\ Turns(p, {"add", "promote", "over", "verify"})
         /\ job[p].cmd \in {"none", "add", "promote"} /\ LibraryData'
<1>1. CASE \/ AnchorAdd(p) \/ AddLoad(p) \/ AddScan(p) \/ AddReread(p)
           \/ AddSave(p) \/ AddFails(p)
  <2>1. Turns(p, {"add", "over", "verify"}) /\ job[p].cmd \in {"none", "add"} /\ LibraryData'
    BY <1>1, AddTurns
  <2> QED BY <2>1 DEF Turns
<1>2. CASE \/ PromoteLoad(p) \/ PromoteRead(p) \/ PromoteConfirm(p)
           \/ PromoteUnstage(p) \/ PromoteFails(p)
  <2>1. Turns(p, {"promote", "over"}) /\ job[p].cmd \in {"none", "promote"} /\ LibraryData'
    BY <1>2, PromoteTurns
  <2> QED BY <2>1 DEF Turns
<1> QED BY <1>1, <1>2 DEF LibraryStep

LEMMA SettingTurns ==
  ASSUME ShapeInv, SettingsData, NEW p \in Procs, SettingsStep(p)
  PROVE  /\ Turns(p, {"ran", "verified", "edit", "init", "over"})
         /\ job[p].cmd \in {"none", "edit", "init"} /\ SettingsData'
<1>1. CASE ConfiguredRun(p) \/ ConfiguredVerify(p)
  <2>1. Turns(p, {"ran", "verified", "over"}) /\ job[p].cmd = "none" /\ SettingsData'
    BY <1>1, ReadTurns
  <2> QED BY <2>1 DEF Turns
<1>2. CASE EditLoad(p) \/ EditRead(p) \/ EditRename(p)
  <2>1. Turns(p, {"edit", "over"}) /\ job[p].cmd \in {"none", "edit"} /\ SettingsData'
    BY <1>2, EditTurns
  <2> QED BY <2>1 DEF Turns
<1>3. CASE InitAsk(p) \/ InitCancel(p) \/ InitWrite(p)
  <2>1. Turns(p, {"init", "over"}) /\ job[p].cmd \in {"none", "init"} /\ SettingsData'
    BY <1>3, InitTurns
  <2> QED BY <2>1 DEF Turns
<1> QED BY <1>1, <1>2, <1>3 DEF SettingsStep

LEMMA DieTurns ==
  ASSUME ShapeInv, LibraryData, PoolData, NEW p \in Procs, Die(p)
  PROVE  Turns(p, {"over"}) /\ LibraryData' /\ PoolData'
<1>1. /\ Ends(p) /\ halved' = (halved \/ At(p, "promote", "unstage"))
      /\ liveSinks' = liveSinks \ {p}
      /\ UNCHANGED <<library, raced, pool, warned, summaries>>
  BY DEF Die
<1>2. Turns(p, {"over"})
  BY <1>1, OverShape, Turned DEF Ends
<1>3. halved' \in BOOLEAN
  BY <1>1, Zenon DEF LibraryData
<1> QED BY <1>1, <1>2, <1>3 DEF LibraryData, PoolData, library

LEMMA TypedStarts ==
  ASSUME Init
  PROVE  ShapeInv /\ DataInv
<1>1. PICK scene \in Scenes : Begun(scene)
  BY DEF Init
<1>2. ShapeInv
  <2>1. DOMAIN job = Procs
    BY <1>1 DEF Begun
  <2>2. ASSUME NEW p \in Procs
        PROVE  Shape(job[p])
    <3>1. job[p].cmd \in {"none", "over"}
      BY <1>1 DEF Begun, Idle, Over
    <3> QED BY <3>1 DEF Shape
  <2> QED BY <2>1, <2>2 DEF ShapeInv
<1>3. AdoptionData
  BY DEF Init, AdoptionData
<1>4. /\ scene.confirmed \in Seq(Entries) /\ scene.staging \in Seq(Entries)
      /\ scene.env \in [Keys -> 0 .. Unparsable]
      /\ {scene.project, scene.user} \subseteq FileStates
  BY WorkspaceAssumption
<1>5. LibraryData
  BY <1>1, <1>4 DEF Init, Begun, LibraryData
<1>6. VerifyData
  <2>1. MaxSeconds \in Nat \ {0}
    BY WorkspaceAssumption
  <2> QED BY <2>1 DEF Init, VerifyData, ReportStates
<1>7. PoolData
  BY DEF Init, PoolData
<1>8. SettingsData
  <2>1. Blank \in Layer
    BY WorkspaceAssumption DEF Blank, Layer, Unset
  <2>2. files \in [Scopes -> FileStates]
    BY <1>1, <1>4 DEF Begun, Scopes
  <2> QED BY <1>1, <1>4, <2>1, <2>2 DEF Init, Begun, SettingsData
<1>9. DOMAIN answers = Procs
  BY DEF Init
<1> QED BY <1>2, <1>3, <1>5, <1>6, <1>7, <1>8, <1>9 DEF DataInv

LEMMA TypedKeeps ==
  ASSUME ShapeInv, DataInv, [Next]_vars
  PROVE  ShapeInv' /\ DataInv'
<1>1. /\ AdoptionData /\ LibraryData /\ VerifyData /\ PoolData /\ SettingsData
      /\ DOMAIN answers = Procs
  BY DEF DataInv
<1>2. /\ UNCHANGED adoptionVars => AdoptionData'
      /\ UNCHANGED libraryVars => LibraryData'
      /\ UNCHANGED verifyVars => VerifyData'
      /\ UNCHANGED poolVars => PoolData'
      /\ UNCHANGED settingsVars => SettingsData'
      /\ UNCHANGED answers => (DOMAIN answers = Procs)'
  <2>1. UNCHANGED adoptionVars => AdoptionData'
    BY <1>1 DEF adoptionVars, AdoptionData
  <2>2. UNCHANGED libraryVars => LibraryData'
    BY <1>1 DEF libraryVars, LibraryData
  <2>3. UNCHANGED verifyVars => VerifyData'
    BY <1>1 DEF verifyVars, VerifyData
  <2>4. UNCHANGED poolVars => PoolData'
    BY <1>1 DEF poolVars, PoolData
  <2>5. UNCHANGED settingsVars => SettingsData'
    BY <1>1 DEF settingsVars, SettingsData
  <2> QED BY <1>1, <2>1, <2>2, <2>3, <2>4, <2>5
<1>3. ASSUME NEW p \in Procs, Adoption(p)
      PROVE  ShapeInv' /\ DataInv'
  BY <1>1, <1>2, <1>3, AdoptionTurns, Shaped DEF Adoption, DataInv
<1>4. ASSUME NEW p \in Procs, Library(p)
      PROVE  ShapeInv' /\ DataInv'
  BY <1>1, <1>2, <1>4, LibraryTurns, Shaped DEF Library, DataInv
<1>5. ASSUME NEW p \in Procs, Gate(p)
      PROVE  ShapeInv' /\ DataInv'
  <2>1. Turns(p, {"verify", "exited", "call", "add"}) /\ VerifyData'
    BY <1>1, <1>5, GateTurns
  <2> QED BY <1>1, <1>2, <1>5, <2>1, Shaped DEF Gate, DataInv
<1>6. ASSUME NEW p \in Procs, Run(p)
      PROVE  ShapeInv' /\ DataInv'
  <2>1. Turns(p, {"run", "over", "optimized"}) /\ PoolData'
    BY <1>1, <1>6, PoolTurns
  <2> QED BY <1>1, <1>2, <1>6, <2>1, Shaped DEF Run, DataInv
<1>7. ASSUME NEW p \in Procs, Session(p)
      PROVE  ShapeInv' /\ DataInv'
  <2>1. /\ Turns(p, {"verify", "exited", "call", "run", "over"})
        /\ VerifyData' /\ PoolData'
        /\ \E a : answers' \in {answers, [answers EXCEPT ![p] = a]}
    BY <1>1, <1>7, SessionTurns DEF Session
  <2>2. DOMAIN answers' = Procs
    BY <1>1, <2>1
  <2> QED BY <1>1, <1>2, <1>7, <2>1, <2>2, Shaped DEF Session, DataInv
<1>8. ASSUME NEW p \in Procs, Setting(p)
      PROVE  ShapeInv' /\ DataInv'
  <2>1. Turns(p, {"ran", "verified", "edit", "init", "over"}) /\ SettingsData'
    BY <1>1, <1>8, SettingTurns DEF Setting
  <2> QED BY <1>1, <1>2, <1>8, <2>1, Shaped DEF Setting, DataInv
<1>9. ASSUME NEW p \in Procs, Die(p)
      PROVE  ShapeInv' /\ DataInv'
  <2>1. Turns(p, {"over"}) /\ LibraryData' /\ PoolData'
    BY <1>1, <1>9, DieTurns
  <2> QED BY <1>1, <1>2, <1>9, <2>1, Shaped DEF Die, DataInv
<1>10. CASE Pass
  <2>1. job' = job
    BY <1>10 DEF Pass, Tick
  <2>2. ShapeInv'
    BY <2>1 DEF ShapeInv
  <2>3. VerifyData'
    <3>1. now < MaxSeconds /\ now' = now + 1 /\ reports' = reports
      BY <1>10 DEF Pass, Tick
    <3>2. MaxSeconds \in Nat
      BY WorkspaceAssumption
    <3> QED BY <1>1, <3>1, <3>2 DEF VerifyData
  <2> QED BY <1>1, <1>2, <1>10, <2>2, <2>3 DEF Pass, DataInv
<1>11. CASE UNCHANGED vars
  <2>1. job' = job /\ UNCHANGED <<adoptionVars, libraryVars, verifyVars, poolVars, answers,
                                   settingsVars>>
    BY <1>11 DEF vars
  <2>2. ShapeInv'
    BY <2>1 DEF ShapeInv
  <2> QED BY <1>1, <1>2, <2>1, <2>2 DEF DataInv
<1> QED BY <1>3, <1>4, <1>5, <1>6, <1>7, <1>8, <1>9, <1>10, <1>11 DEF Next, Quiet

\* Every variable keeps to its set, whatever is carried out, fails or is killed:
\* in particular a report's exit code is one of the four, and no journal holds
\* anything but its records, lines cut short and lines run together.
THEOREM TypeCorrect == Spec => []TypeOK
<1>1. Init => ShapeInv /\ DataInv
  BY TypedStarts
<1>2. ShapeInv /\ DataInv /\ [Next]_vars => ShapeInv' /\ DataInv'
  BY TypedKeeps
<1>3. ShapeInv /\ DataInv => TypeOK
  <2>1. SUFFICES ASSUME ShapeInv, DataInv PROVE TypeOK
    OBVIOUS
  <2>2. \A p \in Procs : job[p].cmd \in {"none", "over", "exited", "rollback", "add",
                        "promote", "verify", "call", "run", "optimized", "ran", "verified",
                        "edit", "init"}
    BY <2>1 DEF ShapeInv, Shape
  <2>3. \A d \in 1 .. MaxSeconds :
          reports[d] \in {NoDir, EmptyDir}
            \cup {Report(p, via, e) : p \in Procs, via \in {"cli", "mcp"}, e \in 0 .. 3}
    BY <2>1 DEF DataInv, VerifyData, ReportStates
  <2>4. /\ AdoptionData /\ LibraryData /\ VerifyData /\ PoolData /\ SettingsData
        /\ DOMAIN answers = Procs
    BY <2>1 DEF DataInv
  <2> QED BY <2>2, <2>3, <2>4 DEF TypeOK, AdoptionData, LibraryData, VerifyData,
             PoolData, SettingsData
<1> QED BY <1>1, <1>2, <1>3, PTL DEF Spec

-----------------------------------------------------------------------------
(* The journal. *)

\* One more line, or one cut short: a line is added, or the last one, cut short
\* before, is run into.
LEMMA JournalGrows ==
  ASSUME NEW S, Torn \in S, Garbled \in S, NEW k \in Seq(S), NEW line \in S,
         NEW l \in {Journalled(k, line), CutIn(k)}
  PROVE  /\ l \in Seq(S) /\ Len(l) \in {Len(k), Len(k) + 1}
         /\ \A i \in DOMAIN k : i \in DOMAIN l /\ l[i] \in {k[i], Garbled}
<1>1. l \in Seq(S)
  BY JournalRange
<1>2. CASE l = k \/ l = Append(k, line) \/ l = Append(k, Torn)
  BY <1>1, <1>2
<1>3. CASE \E f \in Seq(S) : k = Append(f, Torn) /\ l = Append(f, Garbled)
  <2>1. PICK f \in Seq(S) : k = Append(f, Torn) /\ l = Append(f, Garbled)
    BY <1>3
  <2> QED BY <1>1, <2>1
<1>4. \/ l = k \/ l = Append(k, line) \/ l = Append(k, Torn)
      \/ \E f \in Seq(S) : k = Append(f, Torn) /\ l = Append(f, Garbled)
  BY Journalling, CuttingIn
<1> QED BY <1>2, <1>3, <1>4

LEMMA LastAppended ==
  ASSUME NEW S, NEW k \in Seq(S), NEW e \in S
  PROVE  /\ Append(k, e) \in Seq(S) /\ Last(Append(k, e)) = e
         /\ Len(Append(k, e)) = Len(k) + 1 /\ Len(k) \in Nat
         /\ Len(k) + 1 \in DOMAIN Append(k, e) /\ Append(k, e)[Len(k) + 1] = e
BY DEF Last

\* What does not make the journal longer makes no difference to a target, nor
\* does a line that names the adoption to be replaced.
LEMMA TargetKept ==
  ASSUME NEW S, Torn \in S, Garbled \in S, NEW k \in Seq(S), NEW line \in S,
         NEW l \in {Journalled(k, line), CutIn(k)}, NEW from \in S,
         from \notin {Torn, Garbled}
  PROVE  /\ Len(l) = Len(k) => RollbackTarget(from, l) = RollbackTarget(from, k)
         /\ Len(l) = Len(k) + 1 /\ Last(l) = from
              => RollbackTarget(from, l) = RollbackTarget(from, k)
         /\ Len(l) = Len(k) => l = k \/ Last(l) # from
<1>1. CASE l = k
  BY <1>1
<1>2. ASSUME NEW e \in S, l = Append(k, e)
      PROVE  /\ Len(l) # Len(k)
             /\ Last(l) = from => RollbackTarget(from, l) = RollbackTarget(from, k)
  <2>1. Last(l) = e /\ Len(l) = Len(k) + 1 /\ Len(k) \in Nat
    BY <1>2, LastAppended
  <2>2. e = from => RollbackTarget(from, l) = RollbackTarget(from, k)
    BY <1>2, TargetAppend
  <2> QED BY <2>1, <2>2
<1>3. ASSUME NEW f \in Seq(S), k = Append(f, Torn), l = Append(f, Garbled)
      PROVE  RollbackTarget(from, l) = RollbackTarget(from, k) /\ Last(l) # from
  <2>1. RollbackTarget(from, k) = RollbackTarget(from, f)
    BY <1>3, TargetAppend
  <2>2. RollbackTarget(from, l) = RollbackTarget(from, f)
    BY <1>3, TargetAppend
  <2>3. Last(l) = Garbled
    BY <1>3, LastAppended
  <2> QED BY <2>1, <2>2, <2>3
<1>4. \/ l = k \/ l = Append(k, line) \/ l = Append(k, Torn)
      \/ \E f \in Seq(S) : k = Append(f, Torn) /\ l = Append(f, Garbled)
  BY Journalling, CuttingIn
<1> QED BY <1>1, <1>2, <1>3, <1>4

LEMMA OwnLine ==
  ASSUME NEW S, Garbled \in S, NEW k \in Seq(S), NEW from \in S, from # Garbled
  PROVE  LET l == Journalled(k, from)
         IN  /\ \E i \in DOMAIN l : l[i] \in {from, Garbled}
             /\ Last(l) = from => Len(l) = Len(k) + 1
<1>1. CASE Journalled(k, from) = Append(k, from)
  BY <1>1, LastAppended
<1>2. CASE Journalled(k, from) # Append(k, from)
  <2>1. PICK f \in Seq(S) : Journalled(k, from) = Append(f, Garbled)
    BY <1>2, Journalling
  <2> QED BY <2>1, LastAppended
<1> QED BY <1>1, <1>2

\* A rollback that was told of the journal before knows of it still.
LEMMA TargetsKept ==
  ASSUME NEW k \in Seq(Adoptable \cup {Torn, Garbled}), NEW line \in Adoptable,
         NEW l \in {Journalled(k, line), CutIn(k)},
         NEW j, j.from \in Adoptable, j.seen \in Nat, Targets(j, k)
  PROVE  Targets(j, l)
<1> DEFINE S == Adoptable \cup {Torn, Garbled}
<1>1. Torn \in S /\ Garbled \in S /\ k \in Seq(S) /\ line \in S /\ j.from \in S
  OBVIOUS
<1>2. j.from \notin {Torn, Garbled}
  BY WorkspaceAssumption
<1> HIDE DEF S
<1>3. /\ l \in Seq(S) /\ Len(l) \in {Len(k), Len(k) + 1}
      /\ \A i \in DOMAIN k : i \in DOMAIN l /\ l[i] \in {k[i], Garbled}
  BY <1>1, JournalGrows
<1>4. /\ Len(l) = Len(k) => RollbackTarget(j.from, l) = RollbackTarget(j.from, k)
      /\ Len(l) = Len(k) + 1 /\ Last(l) = j.from
              => RollbackTarget(j.from, l) = RollbackTarget(j.from, k)
      /\ Len(l) = Len(k) => l = k \/ Last(l) # j.from
  BY <1>1, <1>2, TargetKept
<1>5. Len(k) \in Nat /\ j.seen \in Nat
  BY <1>1
<1>6. j.seen <= Len(l)
  BY <1>3, <1>5 DEF Targets
<1>7. j.plain /\ Len(l) = j.seen => RollbackTarget(j.from, l) = j.to
  BY <1>3, <1>4, <1>5 DEF Targets
<1>8. j.pc = "save" => \E i \in DOMAIN l : l[i] \in {j.from, Garbled}
  <2>1. SUFFICES ASSUME j.pc = "save"
                 PROVE  \E i \in DOMAIN l : l[i] \in {j.from, Garbled}
    OBVIOUS
  <2>2. PICK i \in DOMAIN k : k[i] \in {j.from, Garbled}
    BY <2>1 DEF Targets
  <2> QED BY <1>3, <2>2
<1>9. j.pc = "save" /\ j.plain /\ Len(l) = j.seen + 1 /\ Last(l) = j.from =>
        RollbackTarget(j.from, l) = j.to
  <2>1. SUFFICES ASSUME j.pc = "save", j.plain, Len(l) = j.seen + 1, Last(l) = j.from
                 PROVE  RollbackTarget(j.from, l) = j.to
    OBVIOUS
  <2>2. CASE Len(l) = Len(k)
    BY <1>4, <2>1, <2>2 DEF Targets
  <2>3. CASE Len(l) = Len(k) + 1
    BY <1>4, <1>5, <2>1, <2>3 DEF Targets
  <2> QED BY <1>3, <2>2, <2>3
<1> QED BY <1>6, <1>7, <1>8, <1>9 DEF Targets

\* A rollback that has written its own line.
LEMMA TargetsWritten ==
  ASSUME NEW k \in Seq(Adoptable \cup {Torn, Garbled}),
         NEW j, j.from \in Adoptable, j.seen \in Nat, j.pc = "journal", Targets(j, k),
         NEW i, i.from = j.from, i.to = j.to, i.plain = j.plain, i.seen = j.seen
  PROVE  Targets(i, Journalled(k, j.from))
<1> DEFINE S == Adoptable \cup {Torn, Garbled}
           l == Journalled(k, j.from)
<1>1. /\ Torn \in S /\ Garbled \in S /\ k \in Seq(S) /\ j.from \in S
      /\ l \in {Journalled(k, j.from), CutIn(k)}
  OBVIOUS
<1>2. j.from \notin {Torn, Garbled}
  BY WorkspaceAssumption
<1>3. /\ \E n \in DOMAIN l : l[n] \in {j.from, Garbled}
      /\ Last(l) = j.from => Len(l) = Len(k) + 1
  BY <1>1, <1>2, OwnLine
<1> HIDE DEF S, l
<1>4. l \in Seq(S) /\ Len(l) \in {Len(k), Len(k) + 1}
  BY <1>1, JournalGrows
<1>5. /\ Len(l) = Len(k) => RollbackTarget(j.from, l) = RollbackTarget(j.from, k)
      /\ Len(l) = Len(k) + 1 /\ Last(l) = j.from
              => RollbackTarget(j.from, l) = RollbackTarget(j.from, k)
      /\ Len(l) = Len(k) => l = k \/ Last(l) # j.from
  BY <1>1, <1>2, TargetKept
<1>6. Len(k) \in Nat /\ j.seen \in Nat /\ j.seen <= Len(k)
  BY <1>1 DEF Targets
<1>7. j.plain /\ Len(k) = j.seen => RollbackTarget(j.from, k) = j.to
  BY DEF Targets
<1>8. Len(l) = j.seen => Len(k) = j.seen
  BY <1>4, <1>6
<1>9. j.plain /\ Len(l) = j.seen + 1 /\ Last(l) = j.from
         => RollbackTarget(j.from, l) = j.to
  BY <1>3, <1>4, <1>5, <1>6, <1>7
<1>10. Targets(i, l)
  BY <1>3, <1>4, <1>5, <1>6, <1>7, <1>8, <1>9 DEF Targets
<1> QED BY <1>10 DEF l

LEMMA StepKinds ==
  ASSUME [Next]_vars
  PROVE  \/ \E p \in Procs : \/ Adoption(p) \/ Library(p) \/ Gate(p) \/ Run(p)
                             \/ Session(p) \/ Setting(p) \/ Die(p)
         \/ /\ job' = job /\ reports' = reports /\ now' \in {now, now + 1}
            /\ UNCHANGED <<adoptionVars, libraryVars, poolVars, answers, settingsVars>>
<1>1. CASE Pass
  BY <1>1 DEF Pass, Tick
<1>2. CASE UNCHANGED vars
  BY <1>2 DEF vars, verifyVars
<1> QED BY <1>1, <1>2 DEF Next, Quiet

\* Who leaves the journal and the rollbacks alone.
LEMMA JournalElsewhere ==
  ASSUME JournalInv, UNCHANGED history, NEW p \in Procs, NEW cmds, Turns(p, cmds),
         "rollback" \notin cmds
  PROVE  JournalInv'
<1>1. ASSUME NEW q \in Procs, job'[q].cmd = "rollback", job'[q].pc # "pick"
      PROVE  Targets(job'[q], history')
  <2>1. q # p
    BY <1>1 DEF Turns
  <2> QED BY <1>1, <2>1 DEF Turns, JournalInv
<1> QED BY <1>1 DEF JournalInv

LEMMA JournalAdoption ==
  ASSUME ShapeInv, AdoptionData, JournalInv, NEW p \in Procs, AdoptionStep(p)
  PROVE  JournalInv'
<1>1. /\ Turns(p, {"rollback", "over"}) /\ AdoptionData'
  BY AdoptionTurns
<1>2. history \in Seq(Adoptable \cup {Torn, Garbled})
  BY DEF AdoptionData
<1>3. ASSUME NEW q \in Procs, job[q].cmd = "rollback"
      PROVE  RollbackShape(job[q])
  BY <1>3 DEF ShapeInv, Shape
<1>4. ASSUME UNCHANGED history, job'[p].cmd = "rollback" => job'[p].pc = "pick"
      PROVE  JournalInv'
  <2>1. ASSUME NEW q \in Procs, job'[q].cmd = "rollback", job'[q].pc # "pick"
        PROVE  Targets(job'[q], history')
    <3>1. q # p
      BY <1>4, <2>1
    <3> QED BY <1>1, <1>4, <2>1, <3>1 DEF Turns, JournalInv
  <2> QED BY <2>1 DEF JournalInv
<1>5. DOMAIN job = Procs
  BY DEF ShapeInv
<1>6. ASSUME Ends(p)
      PROVE  job'[p].cmd # "rollback"
  BY <1>5, <1>6 DEF Ends, Becomes, Over
<1>7. CASE HandleAdopt(p) \/ RollbackSave(p)
  BY <1>4, <1>6, <1>7 DEF HandleAdopt, RollbackSave
<1>8. CASE RollbackRead(p)
  <2>1. job'[p].cmd = "rollback" => job'[p].pc = "pick"
    BY <1>5, <1>6, <1>8 DEF RollbackRead, Becomes
  <2> QED BY <1>4, <1>8, <2>1 DEF RollbackRead
<1>9. CASE RollbackPick(p)
  <2>1. job[p].cmd = "rollback" /\ job[p].pc = "pick" /\ UNCHANGED history
    BY <1>9 DEF RollbackPick, At
  <2>2. CASE Ends(p)
    BY <1>4, <1>6, <2>1, <2>2
  <2>3. CASE ~ Ends(p)
    <3> DEFINE target == IF job[p].to = Nobody
                         THEN RollbackTarget(job[p].from, history) ELSE job[p].to
               j == [cmd |-> "rollback", pc |-> "journal",
                     from |-> job[p].from, to |-> target,
                     plain |-> job[p].to = Nobody, seen |-> Len(history)]
    <3>1. Becomes(p, j)
      BY <1>9, <2>3 DEF RollbackPick
    <3>2. job'[p] = j
      BY <1>5, <3>1 DEF Becomes
    <3>3. Len(history) \in Nat
      BY <1>2
    <3>4. Targets(j, history)
      <4>1. job[p].to = Nobody => target = RollbackTarget(job[p].from, history)
        OBVIOUS
      <4> HIDE DEF target
      <4>2. /\ j.pc = "journal" /\ j.from = job[p].from /\ j.to = target
            /\ j.seen = Len(history)
        OBVIOUS
      <4>3. j.plain => job[p].to = Nobody
        BY Zenon
      <4> HIDE DEF j
      <4>4. Len(history) <= Len(history)
        BY <3>3
      <4>5. j.plain => RollbackTarget(j.from, history) = j.to
        BY <4>1, <4>2, <4>3, Zenon
      <4> QED BY <4>2, <4>4, <4>5, Zenon DEF Targets
    <3> HIDE DEF j
    <3>5. ASSUME NEW q \in Procs, job'[q].cmd = "rollback", job'[q].pc # "pick"
          PROVE  Targets(job'[q], history')
      <4>1. CASE q = p
        BY <2>1, <3>2, <3>4, <4>1
      <4>2. CASE q # p
        BY <1>1, <2>1, <3>5, <4>2 DEF Turns, JournalInv
      <4> QED BY <4>1, <4>2
    <3> QED BY <3>5 DEF JournalInv
  <2> QED BY <2>2, <2>3
<1>10. CASE RollbackJournal(p)
  <2> DEFINE i == [cmd |-> "rollback", pc |-> "save",
                   from |-> job[p].from, to |-> job[p].to,
                   plain |-> job[p].plain, seen |-> job[p].seen]
  <2>1. /\ job[p].cmd = "rollback" /\ job[p].pc = "journal"
        /\ history' \in {Journalled(history, job[p].from), CutIn(history)}
        /\ \/ history' = Journalled(history, job[p].from) /\ Becomes(p, i)
           \/ Ends(p)
    BY <1>10 DEF RollbackJournal, At
  <2>2. job[p].from \in Adoptable /\ job[p].seen \in Nat
    BY <1>3, <2>1 DEF RollbackShape
  <2>3. ASSUME NEW q \in Procs, q # p, job'[q].cmd = "rollback", job'[q].pc # "pick"
        PROVE  Targets(job'[q], history')
    <3>1. job'[q] = job[q]
      BY <1>1, <2>3 DEF Turns
    <3>2. Targets(job[q], history)
      BY <2>3, <3>1 DEF JournalInv
    <3>3. job[q].from \in Adoptable /\ job[q].seen \in Nat
      BY <1>3, <2>3, <3>1 DEF RollbackShape
    <3>4. Targets(job[q], history')
      BY <1>2, <2>1, <2>2, <3>2, <3>3, TargetsKept
    <3> QED BY <3>1, <3>4
  <2>4. job'[p].cmd = "rollback" => Targets(job'[p], history')
    <3>1. SUFFICES ASSUME ~ Ends(p)
                   PROVE  Targets(job'[p], history')
      BY <1>6
    <3>2. history' = Journalled(history, job[p].from) /\ job'[p] = i
      BY <1>5, <2>1, <3>1 DEF Becomes
    <3>3. /\ i.from = job[p].from /\ i.to = job[p].to /\ i.plain = job[p].plain
          /\ i.seen = job[p].seen
      OBVIOUS
    <3>4. Targets(job[p], history)
      BY <2>1 DEF JournalInv
    <3> HIDE DEF i
    <3>5. Targets(i, Journalled(history, job[p].from))
      BY <1>2, <2>1, <2>2, <3>3, <3>4, TargetsWritten
    <3> QED BY <3>2, <3>5
  <2> QED BY <2>3, <2>4 DEF JournalInv
<1> QED BY <1>7, <1>8, <1>9, <1>10 DEF AdoptionStep

LEMMA JournalKeeps ==
  ASSUME ShapeInv, DataInv, JournalInv, [Next]_vars
  PROVE  JournalInv'
<1>1. AdoptionData /\ LibraryData /\ VerifyData /\ PoolData /\ SettingsData
  BY DEF DataInv
<1>2. ASSUME NEW p \in Procs, Adoption(p)
      PROVE  JournalInv'
  BY <1>1, <1>2, JournalAdoption DEF Adoption
<1>3. ASSUME NEW p \in Procs, Library(p)
      PROVE  JournalInv'
  <2>1. Turns(p, {"add", "promote", "over", "verify"})
    BY <1>1, <1>3, LibraryTurns DEF Library
  <2> QED BY <1>3, <2>1, JournalElsewhere DEF Library, adoptionVars
<1>4. ASSUME NEW p \in Procs, Gate(p)
      PROVE  JournalInv'
  <2>1. Turns(p, {"verify", "exited", "call", "add"})
    BY <1>1, <1>4, GateTurns
  <2> QED BY <1>4, <2>1, JournalElsewhere DEF Gate, adoptionVars
<1>5. ASSUME NEW p \in Procs, Run(p)
      PROVE  JournalInv'
  <2>1. Turns(p, {"run", "over", "optimized"})
    BY <1>1, <1>5, PoolTurns
  <2> QED BY <1>5, <2>1, JournalElsewhere DEF Run, adoptionVars
<1>6. ASSUME NEW p \in Procs, Session(p)
      PROVE  JournalInv'
  <2>1. Turns(p, {"verify", "exited", "call", "run", "over"})
    BY <1>1, <1>6, SessionTurns DEF Session
  <2> QED BY <1>6, <2>1, JournalElsewhere DEF Session, adoptionVars
<1>7. ASSUME NEW p \in Procs, Setting(p)
      PROVE  JournalInv'
  <2>1. Turns(p, {"ran", "verified", "edit", "init", "over"})
    BY <1>1, <1>7, SettingTurns DEF Setting
  <2> QED BY <1>7, <2>1, JournalElsewhere DEF Setting, adoptionVars
<1>8. ASSUME NEW p \in Procs, Die(p)
      PROVE  JournalInv'
  <2>1. Turns(p, {"over"})
    BY <1>1, <1>8, DieTurns
  <2> QED BY <1>8, <2>1, JournalElsewhere DEF Die, adoptionVars
<1>9. CASE job' = job /\ UNCHANGED adoptionVars
  BY <1>9 DEF JournalInv, adoptionVars
<1> QED BY <1>2, <1>3, <1>4, <1>5, <1>6, <1>7, <1>8, <1>9, StepKinds

-----------------------------------------------------------------------------
(* The library in time. *)

LEMMA PrefixFacts ==
  ASSUME NEW k \in Seq(Entries), NEW l \in Seq(Entries)
  PROVE  /\ IsPrefix(k, l) <=> Len(k) <= Len(l) /\ \A i \in DOMAIN k : l[i] = k[i]
         /\ IsPrefix(k, k)
         /\ IsPrefix(k, l) => InputsOf(k) \subseteq InputsOf(l)
         /\ IsPrefix(k, l) /\ IsPrefix(l, k) => k = l
<1> DEFINE Extends(a, b) == Len(a) <= Len(b) /\ \A i \in DOMAIN a : b[i] = a[i]
<1>1. ASSUME NEW a \in Seq(Entries), NEW b \in Seq(Entries)
      PROVE  IsPrefix(a, b) <=> Extends(a, b)
  <2> DEFINE n == Len(a)
             x == SubSeq(a, 1, n)
             y == SubSeq(b, 1, n)
  <2>1. SUFFICES ASSUME n <= Len(b)
                 PROVE  x = y <=> \A i \in 1 .. n : b[i] = a[i]
    BY SMTT(30) DEF IsPrefix
  <2>2. n \in Nat /\ Len(b) \in Nat
    OBVIOUS
  <2>3. x \in Seq(Entries) /\ y \in Seq(Entries) /\ Len(x) = n /\ Len(y) = n
    BY <2>1, <2>2, SubSeqProperties
  <2>4. \A i \in 1 .. n : x[i] = a[i] /\ y[i] = b[i]
    BY <2>1, <2>2, SubSeqProperties
  <2> HIDE DEF x, y
  <2>5. x = y <=> \A i \in 1 .. n : x[i] = y[i]
    <3>1. x \in [1 .. n -> Entries] /\ y \in [1 .. n -> Entries]
      BY <2>3
    <3>2. x = [i \in 1 .. n |-> x[i]] /\ y = [i \in 1 .. n |-> y[i]]
      BY <3>1
    <3> QED BY <3>2
  <2> QED BY <2>4, <2>5
<1>2. (IsPrefix(k, l) <=> Extends(k, l)) /\ (IsPrefix(l, k) <=> Extends(l, k))
      /\ IsPrefix(k, k)
  <2>1. IsPrefix(k, k) <=> Extends(k, k)
    BY <1>1
  <2>2. Extends(k, k)
    OBVIOUS
  <2> QED BY <1>1, <2>1, <2>2
<1>3. Extends(k, l) => InputsOf(k) \subseteq InputsOf(l)
  BY DEF InputsOf
<1>4. Extends(k, l) /\ Extends(l, k) => k = l
  OBVIOUS
<1> HIDE DEF Extends
<1>5. /\ IsPrefix(k, l) => InputsOf(k) \subseteq InputsOf(l)
      /\ IsPrefix(k, l) /\ IsPrefix(l, k) => k = l
  BY <1>2, <1>3, <1>4
<1> QED BY <1>2, <1>5 DEF Extends

LEMMA PrefixJoins ==
  ASSUME NEW k \in Seq(Entries), NEW l \in Seq(Entries), NEW m \in Seq(Entries),
         IsPrefix(k, l), IsPrefix(l, m)
  PROVE  IsPrefix(k, m)
<1>1. Len(k) <= Len(l) /\ \A i \in DOMAIN k : l[i] = k[i]
  BY PrefixFacts
<1>2. Len(l) <= Len(m) /\ \A i \in DOMAIN l : m[i] = l[i]
  BY PrefixFacts
<1>3. Len(k) <= Len(m) /\ \A i \in DOMAIN k : m[i] = k[i]
  BY <1>1, <1>2
<1> QED BY <1>3, PrefixFacts

LEMMA LaterFacts ==
  ASSUME NEW k \in Layers
  PROVE  Later(k, k)
BY PrefixFacts DEF Layers, Later

LEMMA LaterJoins ==
  ASSUME NEW k \in Layers, NEW l \in Layers, NEW m \in Layers, Later(k, l), Later(l, m)
  PROVE  Later(k, m)
<1>1. /\ k[1] \in Seq(Entries) /\ l[1] \in Seq(Entries) /\ m[1] \in Seq(Entries)
  BY DEF Layers
<1>2. IsPrefix(k[1], l[1]) /\ IsPrefix(l[1], m[1])
  BY DEF Later
<1>3. IsPrefix(k[1], m[1])
  BY <1>1, <1>2, PrefixJoins
<1>4. InputsOf(k[1]) \subseteq InputsOf(l[1])
  BY <1>1, <1>2, PrefixFacts
<1>5. InputsOf(k[1]) \cup InputsOf(k[2]) \subseteq InputsOf(m[1]) \cup InputsOf(m[2])
  BY DEF Later
<1>6. InputsOf(m[2]) \cap InputsOf(k[1]) \subseteq InputsOf(k[2])
  BY <1>4 DEF Later
<1> QED BY <1>3, <1>5, <1>6 DEF Later

\* There is no way back: a library that has changed is none that was read before.
LEMMA Overtaken ==
  ASSUME NEW k \in Layers, NEW l \in Layers, NEW m \in Layers, Later(k, l), Later(l, m),
         m[1] # l[1] \/ InputsOf(m[2]) # InputsOf(l[2])
  PROVE  m # k
<1> SUFFICES ASSUME m = k PROVE FALSE
  OBVIOUS
<1>1. Later(m, l)
  OBVIOUS
<1>2. m[1] \in Seq(Entries) /\ l[1] \in Seq(Entries)
  BY DEF Layers
<1>3. IsPrefix(m[1], l[1]) /\ IsPrefix(l[1], m[1])
  BY <1>1 DEF Later
<1>4. m[1] = l[1]
  BY <1>2, <1>3, PrefixFacts
<1>5. InputsOf(m[2]) = InputsOf(l[2])
  BY <1>1, <1>4 DEF Later
<1> QED BY <1>4, <1>5

LEMMA ReadLayers ==
  ASSUME ShapeInv, NEW p \in Procs, HasRead(job[p])
  PROVE  job[p].read \in Layers
<1>1. Shape(job[p])
  BY DEF ShapeInv
<1> QED BY <1>1 DEF Shape, HasRead, AddShape, PromoteShape, PromisedShape

LEMMA UnstagingElsewhere ==
  ASSUME NEW p \in Procs, NEW cmds, Turns(p, cmds), NEW q \in Procs, q # p
  PROVE  /\ job'[q] = job[q] /\ (q \in Unstaging' <=> q \in Unstaging)
         /\ At(q, "add", "save")' <=> At(q, "add", "save")
         /\ At(q, "add", "scan")' <=> At(q, "add", "scan")
BY DEF Turns, Unstaging, At

Moved == confirmed' # confirmed \/ InputsOf(staging') # InputsOf(staging)

\* A step that takes the library on, or leaves it as it was.
LEMMA LibraryGoesOn ==
  ASSUME ShapeInv, ShapeInv', LibraryData, LibraryData', LibraryInv,
         NEW p \in Procs, NEW cmds, Turns(p, cmds),
         raced => raced',
         ~ raced' =>
           /\ Later(library, library')
           /\ \/ Moved
              \/ /\ library' = library
                 /\ halved => halved'
                 /\ p \in Unstaging => halved' \/ p \in Unstaging'
           /\ NoRepeat(confirmed') /\ NoRepeat(staging')
           /\ HasRead(job'[p]) => Later(job'[p].read, library')
           /\ At(p, "add", "scan")' => IsPrefix(job'[p].seen, confirmed')
           /\ At(p, "add", "save")' /\ library' = job'[p].read => AddsTo(job'[p])
           /\ InputsOf(confirmed') \cap InputsOf(staging') # {}
                => halved' \/ Unstaging' # {}
           /\ p \in Unstaging' => Excused(p)'
  PROVE  LibraryInv'
<1> SUFFICES ASSUME ~ raced'
             PROVE  /\ NoRepeat(confirmed') /\ NoRepeat(staging')
                    /\ \A q \in Procs : HasRead(job'[q]) => Later(job'[q].read, library')
                    /\ \A q \in Procs :
                         At(q, "add", "scan")' => IsPrefix(job'[q].seen, confirmed')
                    /\ \A q \in Procs :
                         At(q, "add", "save")' /\ library' = job'[q].read => AddsTo(job'[q])
                    /\ InputsOf(confirmed') \cap InputsOf(staging') # {}
                         => halved' \/ Unstaging' # {}
                    /\ \A q \in Unstaging' : Excused(q)'
  BY DEF LibraryInv
<1>1. ~ raced
  OBVIOUS
<1>2. library \in Layers /\ library' \in Layers
  BY DEF LibraryData, library, Layers
<1>3. /\ library[1] = confirmed /\ library[2] = staging
      /\ library'[1] = confirmed' /\ library'[2] = staging'
  BY DEF library
<1>4. ASSUME NEW q \in Procs, HasRead(job[q])
      PROVE  /\ job[q].read \in Layers /\ Later(job[q].read, library)
             /\ Later(job[q].read, library')
             /\ Moved => library' # job[q].read
  <2>1. job[q].read \in Layers
    BY <1>4, ReadLayers
  <2>2. Later(job[q].read, library)
    BY <1>1, <1>4 DEF LibraryInv
  <2>3. Later(job[q].read, library')
    BY <1>2, <2>1, <2>2, LaterJoins
  <2>4. Moved => library' # job[q].read
    BY <1>2, <1>3, <2>1, <2>2, Overtaken DEF Moved
  <2> QED BY <2>1, <2>2, <2>3, <2>4
<1>5. ASSUME NEW q \in Procs, HasRead(job'[q])
      PROVE  Later(job'[q].read, library')
  <2>1. CASE q = p
    BY <1>5, <2>1
  <2>2. CASE q # p
    BY <1>4, <1>5, <2>2, UnstagingElsewhere
  <2> QED BY <2>1, <2>2
<1>6. ASSUME NEW q \in Procs, At(q, "add", "save")', library' = job'[q].read
      PROVE  AddsTo(job'[q])
  <2>1. CASE q = p
    BY <1>6, <2>1
  <2>2. CASE q # p
    <3>1. job'[q] = job[q] /\ At(q, "add", "save")
      BY <1>6, <2>2, UnstagingElsewhere
    <3>2. HasRead(job[q])
      BY <3>1 DEF HasRead, At
    <3>3. library = job[q].read
      BY <1>4, <1>6, <3>1, <3>2
    <3> QED BY <1>1, <3>1, <3>3 DEF LibraryInv
  <2> QED BY <2>1, <2>2
<1>7. ASSUME NEW q \in Unstaging'
      PROVE  Excused(q)'
  <2>1. q \in Procs
    BY DEF Unstaging
  <2>2. CASE q = p
    BY <1>7, <2>2
  <2>3. CASE q # p
    <3>1. job'[q] = job[q] /\ q \in Unstaging
      BY <1>7, <2>1, <2>3, UnstagingElsewhere
    <3>2. HasRead(job[q])
      BY <3>1 DEF HasRead, Unstaging, At
    <3>3. SUFFICES ASSUME library' = job'[q].read,
                          InputsOf(confirmed') \cap InputsOf(job'[q].left) # {}
                   PROVE  halved' \/ Unstaging' \ {q} # {}
      BY <3>3 DEF Excused
    <3>4. /\ library' = library /\ (halved => halved')
          /\ p \in Unstaging => halved' \/ p \in Unstaging'
      BY <1>4, <2>1, <3>1, <3>2, <3>3
    <3>5. Excused(q)
      BY <1>1, <3>1 DEF LibraryInv
    <3>6. halved \/ Unstaging \ {q} # {}
      BY <1>3, <3>1, <3>3, <3>4, <3>5 DEF Excused
    <3>7. CASE Unstaging \ {q} # {}
      <4>1. PICK r \in Unstaging : r # q
        BY <3>7
      <4>2. r \in Procs
        BY DEF Unstaging
      <4>3. CASE r = p
        BY <2>3, <3>4, <4>1, <4>3
      <4>4. CASE r # p
        BY <4>1, <4>2, <4>4, UnstagingElsewhere
      <4> QED BY <4>3, <4>4
    <3> QED BY <3>4, <3>6, <3>7
  <2> QED BY <2>2, <2>3
<1>8. ASSUME NEW q \in Procs, At(q, "add", "scan")'
      PROVE  IsPrefix(job'[q].seen, confirmed')
  <2>1. CASE q = p
    BY <1>8, <2>1
  <2>2. CASE q # p
    <3>1. job'[q] = job[q] /\ At(q, "add", "scan")
      BY <1>8, <2>2, UnstagingElsewhere
    <3>2. job[q].seen \in Seq(Entries)
      BY <3>1 DEF ShapeInv, Shape, AddShape, At
    <3>3. IsPrefix(job[q].seen, confirmed)
      BY <1>1, <3>1 DEF LibraryInv
    <3>4. IsPrefix(confirmed, confirmed')
      BY <1>3 DEF Later
    <3>5. confirmed \in Seq(Entries) /\ confirmed' \in Seq(Entries)
      BY DEF LibraryData
    <3> QED BY <3>1, <3>2, <3>3, <3>4, <3>5, PrefixJoins
  <2> QED BY <2>1, <2>2
<1> QED BY <1>5, <1>6, <1>7, <1>8

\* A step that leaves the library alone.
LEMMA LibraryStays ==
  ASSUME ShapeInv, ShapeInv', LibraryData, LibraryData', LibraryInv,
         NEW p \in Procs, NEW cmds, Turns(p, cmds),
         UNCHANGED <<library, raced>>, halved => halved',
         p \in Unstaging => halved', p \notin Unstaging',
         HasRead(job'[p]) /\ ~ raced => Later(job'[p].read, library),
         At(p, "add", "scan")' /\ ~ raced => IsPrefix(job'[p].seen, confirmed),
         At(p, "add", "save")' /\ library = job'[p].read => AddsTo(job'[p])
  PROVE  LibraryInv'
<1>1. /\ library' = library /\ raced' = raced /\ confirmed' = confirmed
      /\ staging' = staging /\ library \in Layers
  BY DEF library, LibraryData, Layers
<1>2. CASE raced
  BY <1>1, <1>2 DEF LibraryInv
<1>3. CASE ~ raced
  <2>1. Later(library, library)
    BY <1>1, LaterFacts
  <2>2. NoRepeat(confirmed) /\ NoRepeat(staging)
    BY <1>3 DEF LibraryInv
  <2>3. /\ HasRead(job'[p]) => Later(job'[p].read, library)
        /\ At(p, "add", "scan")' => IsPrefix(job'[p].seen, confirmed)
    BY <1>3
  <2>4. InputsOf(confirmed) \cap InputsOf(staging) # {} => halved' \/ Unstaging' # {}
    <3>1. SUFFICES ASSUME InputsOf(confirmed) \cap InputsOf(staging) # {}, ~ halved'
                   PROVE  Unstaging' # {}
      OBVIOUS
    <3>2. PICK q \in Unstaging : TRUE
      BY <1>3, <3>1 DEF LibraryInv
    <3>3. q \in Procs /\ q # p
      BY <3>1, <3>2 DEF Unstaging
    <3> QED BY <3>2, <3>3, UnstagingElsewhere
  <2> QED BY <1>1, <2>1, <2>2, <2>3, <2>4, LibraryGoesOn
<1> QED BY <1>2, <1>3

\* Commands that leave the library and the promotes alone.
LEMMA LibraryElsewhere ==
  ASSUME ShapeInv, ShapeInv', LibraryData, LibraryData', LibraryInv,
         NEW p \in Procs, NEW cmds, Turns(p, cmds),
         UNCHANGED <<library, raced>>, halved => halved',
         p \in Unstaging => halved',
         job'[p].cmd # "promote", job'[p].cmd = "add" => job'[p].pc = "load"
  PROVE  LibraryInv'
<1>1. /\ ~ HasRead(job'[p]) /\ p \notin Unstaging'
      /\ ~ At(p, "add", "scan")' /\ ~ At(p, "add", "save")'
  BY DEF HasRead, At, Unstaging
<1> QED BY <1>1, LibraryStays

LEMMA LibraryReads ==
  ASSUME ShapeInv, ShapeInv', LibraryData, LibraryData', LibraryInv, NEW p \in Procs,
         \/ AnchorAdd(p) \/ AddLoad(p) \/ AddScan(p) \/ AddReread(p) \/ AddFails(p)
         \/ PromoteLoad(p) \/ PromoteRead(p) \/ PromoteFails(p)
  PROVE  LibraryInv'
<1>1. DOMAIN job = Procs
  BY DEF ShapeInv
<1>2. PICK cmds : Turns(p, cmds)
  BY AddTurns, PromoteTurns
<1>3. job[p].cmd = "add" => AddShape(job[p])
  BY DEF ShapeInv, Shape
<1>4. \A j : Becomes(p, j) => job'[p] = j
  BY <1>1 DEF Becomes
<1>5. job[p].cmd = "add" => job[p].after.cmd \in {"over", "verify"}
  BY <1>3, AfterShape DEF AddShape
<1>6. UNCHANGED libraryVars => UNCHANGED <<library, raced, halved>>
  BY DEF libraryVars, library
<1>7. p \in Unstaging => job[p].cmd = "promote" /\ job[p].pc = "unstage"
  BY DEF Unstaging, At
<1>8. CASE AnchorAdd(p)
  <2>1. UNCHANGED libraryVars /\ job[p].cmd = "none"
    BY <1>8 DEF AnchorAdd, Begins, Idle
  <2>2. \E entries, layer : Becomes(p, Adding("human", entries, layer, Over))
    BY <1>8 DEF AnchorAdd
  <2>3. job'[p].cmd = "add" /\ job'[p].pc = "load"
    BY <1>4, <2>2 DEF Adding
  <2> QED BY <1>2, <1>6, <1>7, <2>1, <2>3, LibraryElsewhere
<1>9. CASE AddLoad(p)
  <2> DEFINE j == [cmd |-> "add", pc |-> "scan", by |-> job[p].by,
                   entries |-> job[p].entries, layer |-> job[p].layer,
                   after |-> job[p].after, seen |-> confirmed]
  <2>1. job[p].cmd = "add" /\ UNCHANGED libraryVars
    BY <1>9 DEF AddLoad, At
  <2>2. job'[p] = j
    BY <1>4, <1>9 DEF AddLoad
  <2>3. job'[p].cmd = "add" /\ job'[p].pc = "scan" /\ job'[p].seen = confirmed
    BY <2>2
  <2>4. /\ ~ At(p, "add", "save")' /\ p \notin Unstaging' /\ ~ HasRead(job'[p])
    BY <2>3 DEF At, Unstaging, HasRead
  <2>5. IsPrefix(job'[p].seen, confirmed)
    BY <2>3, PrefixFacts DEF LibraryData
  <2> QED BY <1>2, <1>6, <1>7, <2>1, <2>4, <2>5, LibraryStays
<1>10. CASE AddScan(p)
  <2> DEFINE fresh == Fresh(job[p].entries, InputsOf(job[p].seen) \cup InputsOf(staging))
             j == [cmd |-> "add", pc |-> "reread", by |-> job[p].by,
                   entries |-> fresh, layer |-> job[p].layer,
                   after |-> job[p].after, read |-> <<job[p].seen, staging>>]
  <2>1. job[p].cmd = "add" /\ job[p].pc = "scan" /\ UNCHANGED libraryVars
    BY <1>10 DEF AddScan, At
  <2>2. Becomes(p, job[p].after) \/ Becomes(p, j)
    BY <1>10 DEF AddScan
  <2>3. job'[p].cmd \in {"over", "verify"} \/
          (job'[p].cmd = "add" /\ job'[p].pc = "reread"
           /\ job'[p].read = <<job[p].seen, staging>>)
    <3> HIDE DEF fresh
    <3> QED BY <1>4, <1>5, <2>1, <2>2
  <2>4. /\ ~ At(p, "add", "save")' /\ ~ At(p, "add", "scan")' /\ p \notin Unstaging'
        /\ HasRead(job'[p]) => job'[p].read = <<job[p].seen, staging>>
    BY <2>3 DEF At, Unstaging, HasRead
  <2>5. ~ raced => Later(<<job[p].seen, staging>>, library)
    <3>1. SUFFICES ASSUME ~ raced PROVE Later(<<job[p].seen, staging>>, library)
      OBVIOUS
    <3>2. IsPrefix(job[p].seen, confirmed)
      BY <2>1, <3>1 DEF LibraryInv, At
    <3>3. job[p].seen \in Seq(Entries) /\ confirmed \in Seq(Entries)
      BY <1>3, <2>1 DEF AddShape, LibraryData
    <3>4. InputsOf(job[p].seen) \subseteq InputsOf(confirmed)
      BY <3>2, <3>3, PrefixFacts
    <3> QED BY <3>2, <3>4 DEF Later, library
  <2> QED BY <1>2, <1>6, <1>7, <2>1, <2>4, <2>5, LibraryStays
<1>11. CASE AddReread(p)
  <2> DEFINE target == IF job[p].layer = "confirmed" THEN confirmed ELSE staging
             j == [cmd |-> "add", pc |-> "save", by |-> job[p].by,
                   layer |-> job[p].layer, after |-> job[p].after,
                   read |-> job[p].read, next |-> target \o job[p].entries]
  <2>1. job[p].cmd = "add" /\ job[p].pc = "reread" /\ UNCHANGED libraryVars
    BY <1>11 DEF AddReread, At
  <2>2. job'[p] = j
    BY <1>4, <1>11 DEF AddReread
  <2>3. Addition(job[p].entries, job[p].read) /\ job[p].entries \in Seq(Entries)
    BY <1>3, <2>1 DEF AddShape
  <2>4. /\ job'[p].cmd = "add" /\ job'[p].read = job[p].read
        /\ job'[p].layer = job[p].layer /\ job'[p].next = target \o job[p].entries
    <3> HIDE DEF target
    <3> QED BY <2>2
  <2>5. /\ HasRead(job[p]) /\ p \notin Unstaging' /\ ~ At(p, "add", "scan")'
        /\ ~ raced => Later(job'[p].read, library)
    <3>1. HasRead(job[p])
      BY <2>1 DEF HasRead
    <3>2. job'[p].pc = "save"
      <4> HIDE DEF target
      <4> QED BY <2>2
    <3> QED BY <2>4, <3>1, <3>2 DEF LibraryInv, Unstaging, At
  <2>6. library = job[p].read => target = IF job[p].layer = "confirmed"
                                          THEN job[p].read[1] ELSE job[p].read[2]
    BY DEF library
  <2> HIDE DEF target, j
  <2>7. library = job'[p].read => AddsTo(job'[p])
    BY <2>3, <2>4, <2>6 DEF AddsTo
  <2> QED BY <1>2, <1>6, <1>7, <2>1, <2>4, <2>5, <2>7, LibraryStays
<1>12. CASE AddFails(p)
  <2>1. /\ job[p].cmd = "add" /\ UNCHANGED libraryVars
        /\ Becomes(p, job[p].after) \/ Becomes(p, Over)
    BY <1>12 DEF AddFails
  <2>2. job'[p].cmd \in {"over", "verify"}
    BY <1>4, <1>5, <2>1 DEF Over
  <2> QED BY <1>2, <1>6, <1>7, <2>1, <2>2, LibraryElsewhere
<1>13. CASE PromoteLoad(p)
  <2>1. job[p].cmd = "none" /\ UNCHANGED libraryVars
    BY <1>13 DEF PromoteLoad, Begins, Idle
  <2>2. \E ids : Becomes(p, [cmd |-> "promote", pc |-> "read", ids |-> ids, seen |-> staging])
    BY <1>13 DEF PromoteLoad
  <2>3. job'[p].cmd = "promote" /\ job'[p].pc = "read"
    BY <1>4, <2>2
  <2>4. /\ ~ At(p, "add", "save")' /\ ~ At(p, "add", "scan")' /\ p \notin Unstaging'
        /\ ~ HasRead(job'[p])
    BY <2>3 DEF At, Unstaging, HasRead
  <2> QED BY <1>2, <1>6, <1>7, <2>1, <2>4, LibraryStays
<1>14. CASE PromoteRead(p)
  <2> DEFINE j == [cmd |-> "promote", pc |-> "confirm",
                   next |-> confirmed \o Fresh(Picked(job[p].seen, job[p].ids),
                                               InputsOf(confirmed)),
                   left |-> Without(job[p].seen, Picked(job[p].seen, job[p].ids)),
                   read |-> <<confirmed, job[p].seen>>]
  <2>1. job[p].cmd = "promote" /\ job[p].pc = "read" /\ UNCHANGED libraryVars
    BY <1>14 DEF PromoteRead, At
  <2>2. Ends(p) \/ Becomes(p, j)
    BY <1>14 DEF PromoteRead
  <2>3. j.cmd = "promote" /\ j.pc = "confirm"
    OBVIOUS
  <2> HIDE DEF j
  <2>4. job'[p].cmd = "over" \/ (job'[p].cmd = "promote" /\ job'[p].pc = "confirm")
    BY <1>4, <2>2, <2>3 DEF Ends, Over
  <2>5. /\ ~ At(p, "add", "save")' /\ ~ At(p, "add", "scan")' /\ p \notin Unstaging'
        /\ ~ HasRead(job'[p])
    BY <2>4 DEF At, Unstaging, HasRead
  <2>6. p \notin Unstaging
    BY <2>1 DEF Unstaging, At
  <2> QED BY <1>2, <1>6, <2>1, <2>5, <2>6, LibraryStays
<1>15. CASE PromoteFails(p)
  <2>1. /\ UNCHANGED <<library, raced>> /\ Ends(p)
        /\ halved' = (halved \/ job[p].pc = "unstage")
    BY <1>15 DEF PromoteFails, library
  <2>2. job'[p].cmd = "over"
    BY <1>4, <2>1 DEF Ends, Over
  <2> QED BY <1>2, <1>7, <2>1, <2>2, LibraryElsewhere
<1> QED BY <1>8, <1>9, <1>10, <1>11, <1>12, <1>13, <1>14, <1>15

LEMMA AddWrites ==
  ASSUME ShapeInv, ShapeInv', LibraryData, LibraryData', LibraryInv, NEW p \in Procs,
         AddSave(p)
  PROVE  LibraryInv' /\ (~ raced' => Later(library, library'))
<1>1. PICK cmds : Turns(p, cmds)
  BY AddTurns
<1>2. /\ job[p].cmd = "add" /\ job[p].pc = "save" /\ halved' = halved
      /\ raced' = (raced \/ library # job[p].read)
      /\ IF job[p].layer = "confirmed"
         THEN confirmed' = job[p].next /\ staging' = staging
         ELSE staging' = job[p].next /\ confirmed' = confirmed
      /\ Becomes(p, job[p].after)
  BY DEF AddSave, At
<1>3. AddShape(job[p])
  BY <1>2 DEF ShapeInv, Shape
<1>4. job'[p].cmd \in {"over", "verify"}
  <2>1. job[p].after.cmd \in {"over", "verify"}
    BY <1>3, AfterShape DEF AddShape
  <2> QED BY <1>2, <2>1 DEF Becomes, ShapeInv
<1>5. /\ ~ HasRead(job'[p]) /\ p \notin Unstaging'
      /\ ~ At(p, "add", "scan")' /\ ~ At(p, "add", "save")'
  BY <1>4 DEF HasRead, At, Unstaging
<1>6. p \notin Unstaging
  BY <1>2 DEF Unstaging, At
<1>7. ASSUME ~ raced'
      PROVE  /\ Later(library, library') /\ Moved
             /\ NoRepeat(confirmed') /\ NoRepeat(staging')
             /\ InputsOf(confirmed') \cap InputsOf(staging') # {}
                  => halved' \/ Unstaging' # {}
  <2>1. ~ raced /\ library = job[p].read
    BY <1>2, <1>7
  <2>2. AddsTo(job[p])
    BY <1>2, <2>1 DEF LibraryInv, At
  <2>3. PICK e \in Seq(Entries) :
          /\ Addition(e, library)
          /\ job[p].next = (IF job[p].layer = "confirmed"
                            THEN confirmed ELSE staging) \o e
    <3>1. library[1] = confirmed /\ library[2] = staging
      BY DEF library
    <3> QED BY <2>1, <2>2, <3>1 DEF AddsTo
  <2>4. /\ e # <<>> /\ NoRepeat(e)
        /\ InputsOf(e) \cap (InputsOf(confirmed) \cup InputsOf(staging)) = {}
    BY <2>3 DEF Addition, library
  <2>5. InputsOf(e) # {}
    <3>1. 1 \in DOMAIN e
      BY <2>4
    <3>2. e[1].input \in InputsOf(e)
      BY <3>1 DEF InputsOf
    <3> QED BY <3>2
  <2>6. confirmed \in Seq(Entries) /\ staging \in Seq(Entries)
    BY DEF LibraryData
  <2>7. NoRepeat(confirmed) /\ NoRepeat(staging)
    BY <2>1 DEF LibraryInv
  <2>8. /\ library[1] = confirmed /\ library[2] = staging
        /\ library'[1] = confirmed' /\ library'[2] = staging'
    BY DEF library
  <2>9. InputsOf(confirmed) \cap InputsOf(staging) # {} => halved' \/ Unstaging' # {}
    <3>1. SUFFICES ASSUME InputsOf(confirmed) \cap InputsOf(staging) # {}, ~ halved'
                   PROVE  Unstaging' # {}
      OBVIOUS
    <3>2. PICK q \in Unstaging : TRUE
      BY <1>2, <2>1, <3>1 DEF LibraryInv
    <3>3. q \in Procs /\ q # p
      BY <1>6, <3>2 DEF Unstaging
    <3> QED BY <1>1, <3>2, <3>3, UnstagingElsewhere
  <2>10. CASE job[p].layer = "confirmed"
    <3>1. confirmed' = confirmed \o e /\ staging' = staging
      BY <1>2, <2>3, <2>10
    <3>2. /\ IsPrefix(confirmed, confirmed') /\ NoRepeat(confirmed')
          /\ InputsOf(confirmed') = InputsOf(confirmed) \cup InputsOf(e)
      BY <2>4, <2>6, <2>7, <3>1, JoinedFacts
    <3>3. Later(library, library')
      BY <2>8, <3>1, <3>2 DEF Later
    <3>4. Moved
      BY <2>4, <2>5, <3>2 DEF Moved
    <3>5. InputsOf(confirmed') \cap InputsOf(staging')
            = InputsOf(confirmed) \cap InputsOf(staging)
      BY <2>4, <3>1, <3>2
    <3> QED BY <2>7, <2>9, <3>1, <3>2, <3>3, <3>4, <3>5
  <2>11. CASE job[p].layer # "confirmed"
    <3>1. staging' = staging \o e /\ confirmed' = confirmed
      BY <1>2, <2>3, <2>11
    <3>2. /\ NoRepeat(staging')
          /\ InputsOf(staging') = InputsOf(staging) \cup InputsOf(e)
      BY <2>4, <2>6, <2>7, <3>1, JoinedFacts
    <3>3. IsPrefix(confirmed, confirmed)
      BY <2>6, PrefixFacts
    <3>4. Later(library, library')
      BY <2>4, <2>8, <3>1, <3>2, <3>3 DEF Later
    <3>5. Moved
      BY <2>4, <2>5, <3>2 DEF Moved
    <3>6. InputsOf(confirmed') \cap InputsOf(staging')
            = InputsOf(confirmed) \cap InputsOf(staging)
      BY <2>4, <3>1, <3>2
    <3> QED BY <2>7, <2>9, <3>1, <3>2, <3>4, <3>5, <3>6
  <2> QED BY <2>10, <2>11
<1>8. raced => raced'
  BY <1>2
<1>9. LibraryInv'
  BY <1>1, <1>5, <1>7, <1>8, LibraryGoesOn
<1> QED BY <1>7, <1>9

\* A gate hands its samples to an add that has read nothing yet.
LEMMA GateAdds ==
  ASSUME ShapeInv, NEW p \in Procs, Gate(p), job'[p].cmd = "add"
  PROVE  /\ job'[p].pc = "load" /\ job'[p].by = "verify" /\ job'[p].layer = "staging"
         /\ job[p].cmd = "verify" /\ job[p].pc = "evaluate"
<1>1. DOMAIN job = Procs
  BY DEF ShapeInv
<1>2. \A j : Becomes(p, j) => job'[p] = j
  BY <1>1 DEF Becomes
<1>3. ASSUME NEW via, NEW dir, NEW exit, Returns(p, via, dir, exit)
      PROVE  FALSE
  BY <1>2, <1>3 DEF Returns, Exited
<1>4. CASE VerifyLoad(p, "cli")
  <2>1. Turns(p, {"verify", "exited", "call"})
    BY <1>4, VerifyLoadTurns
  <2> QED BY <2>1 DEF Turns
<1>5. CASE VerifyMkdir(p) \/ VerifyGather(p)
  BY <1>2, <1>5 DEF VerifyMkdir, VerifyGather
<1>6. CASE VerifyReport(p) \/ VerifyFails(p)
  BY <1>3, <1>6 DEF VerifyReport, VerifyFails
<1>7. CASE VerifyEvaluate(p)
  <2> DEFINE done(o) == [cmd |-> "verify", pc |-> "report", via |-> job[p].via,
                         dir |-> job[p].dir, exit |-> o.exit, blanks |-> o.blanks,
                         lower |-> o.lower, shared |-> o.shared, violated |-> o.violated]
  <2>1. \E o : \/ Becomes(p, done(o))
               \/ Becomes(p, Adding("verify", Labelled(job[p].samples, o.verdicts),
                                    "staging", done(o)))
    BY <1>7 DEF VerifyEvaluate
  <2>2. \E entries, after : job'[p] = Adding("verify", entries, "staging", after)
    BY <1>2, <2>1
  <2> QED BY <1>7, <2>2 DEF VerifyEvaluate, Adding, At
<1> QED BY <1>4, <1>5, <1>6, <1>7 DEF Gate, VerifyStep

LEMMA PromoteConfirms ==
  ASSUME ShapeInv, ShapeInv', LibraryData, LibraryData', LibraryInv, NEW p \in Procs,
         PromoteConfirm(p)
  PROVE  LibraryInv' /\ (~ raced' => Later(library, library'))
<1> DEFINE j == [cmd |-> "promote", pc |-> "unstage", left |-> job[p].left,
                 read |-> <<job[p].next, job[p].read[2]>>]
<1>1. PICK cmds : Turns(p, cmds)
  BY PromoteTurns
<1>2. /\ job[p].cmd = "promote" /\ job[p].pc = "confirm"
      /\ confirmed' = job[p].next /\ UNCHANGED <<staging, halved>>
      /\ raced' = (raced \/ library # job[p].read) /\ Becomes(p, j)
  BY DEF PromoteConfirm, At
<1>3. PromisedShape(job[p])
  BY <1>2 DEF ShapeInv, Shape, PromoteShape
<1>4. /\ job'[p].cmd = "promote" /\ job'[p].pc = "unstage"
      /\ job'[p].left = job[p].left /\ job'[p].read = <<job[p].next, job[p].read[2]>>
  BY <1>2 DEF Becomes, ShapeInv
<1>5. /\ p \notin Unstaging /\ p \in Unstaging'
      /\ ~ At(p, "add", "scan")' /\ ~ At(p, "add", "save")'
  BY <1>2, <1>4 DEF Unstaging, At
<1>6. raced => raced'
  BY <1>2
<1>7. /\ library = <<confirmed, staging>> /\ library' = <<confirmed', staging'>>
      /\ library[1] = confirmed /\ library[2] = staging
      /\ library'[1] = confirmed' /\ library'[2] = staging'
      /\ library' \in Layers
  BY DEF library, LibraryData, Layers
<1>8. ASSUME ~ raced'
      PROVE  /\ Later(library, library')
             /\ \/ Moved
                \/ library' = library
             /\ NoRepeat(confirmed') /\ NoRepeat(staging')
             /\ Later(job'[p].read, library')
             /\ Excused(p)'
  <2>1. ~ raced /\ library = job[p].read
    BY <1>2, <1>8
  <2>2. /\ job[p].read[1] = confirmed /\ job[p].read[2] = staging
        /\ NoRepeat(confirmed) /\ NoRepeat(staging)
    BY <1>7, <2>1 DEF LibraryInv
  <2>3. /\ IsPrefix(confirmed, confirmed') /\ NoRepeat(confirmed')
        /\ InputsOf(job[p].left) \cap InputsOf(confirmed') \subseteq InputsOf(confirmed)
        /\ InputsOf(job[p].left) \subseteq InputsOf(staging)
    <3>1. Range(job[p].left) \subseteq Range(staging)
      BY <1>3, <2>2 DEF PromisedShape
    <3>2. InputsOf(job[p].left) \subseteq InputsOf(staging)
      BY <3>1, InputsRange
    <3> QED BY <1>2, <1>3, <2>2, <3>2 DEF PromisedShape
  <2>4. InputsOf(confirmed) \subseteq InputsOf(confirmed')
    BY <2>3, PrefixFacts DEF LibraryData
  <2>5. Later(library, library')
    BY <1>2, <1>7, <2>3, <2>4 DEF Later
  <2>6. Moved \/ library' = library
    BY <1>2, <1>7 DEF Moved
  <2>7. job'[p].read = library'
    BY <1>2, <1>4, <1>7, <2>2
  <2>8. Later(job'[p].read, library')
    BY <1>7, <2>7, LaterFacts
  <2>9. Excused(p)'
    <3>1. SUFFICES ASSUME InputsOf(confirmed') \cap InputsOf(job'[p].left) # {}, ~ halved'
                   PROVE  Unstaging' \ {p} # {}
      BY DEF Excused
    <3>2. InputsOf(confirmed) \cap InputsOf(staging) # {}
      BY <1>4, <2>3, <3>1
    <3>3. PICK q \in Unstaging : TRUE
      BY <1>2, <2>1, <3>1, <3>2 DEF LibraryInv
    <3>4. q \in Procs /\ q # p
      BY <1>5, <3>3 DEF Unstaging
    <3>5. q \in Unstaging'
      BY <1>1, <3>3, <3>4, UnstagingElsewhere
    <3> QED BY <3>4, <3>5
  <2> QED BY <1>2, <2>2, <2>3, <2>5, <2>6, <2>8, <2>9
<1> HIDE DEF j
<1>9. halved => halved'
  BY <1>2
<1>10. LibraryInv'
  BY <1>1, <1>5, <1>6, <1>8, <1>9, LibraryGoesOn
<1> QED BY <1>8, <1>10

LEMMA PromoteUnstages ==
  ASSUME ShapeInv, ShapeInv', LibraryData, LibraryData', LibraryInv, NEW p \in Procs,
         PromoteUnstage(p)
  PROVE  LibraryInv' /\ (~ raced' => Later(library, library'))
<1>1. PICK cmds : Turns(p, cmds)
  BY PromoteTurns
<1>2. /\ job[p].cmd = "promote" /\ job[p].pc = "unstage"
      /\ staging' = job[p].left /\ UNCHANGED <<confirmed, halved>>
      /\ raced' = (raced \/ library # job[p].read) /\ Ends(p)
  BY DEF PromoteUnstage, At
<1>3. PromisedShape(job[p])
  BY <1>2 DEF ShapeInv, Shape, PromoteShape
<1>4. job'[p].cmd = "over"
  BY <1>2 DEF Ends, Over, Becomes, ShapeInv
<1>5. /\ p \in Unstaging /\ p \notin Unstaging' /\ ~ HasRead(job'[p])
      /\ ~ At(p, "add", "scan")' /\ ~ At(p, "add", "save")'
  BY <1>2, <1>4 DEF Unstaging, At, HasRead
<1>6. raced => raced'
  BY <1>2
<1>7. /\ library[1] = confirmed /\ library[2] = staging
      /\ library'[1] = confirmed' /\ library'[2] = staging'
  BY DEF library
<1>8. ASSUME ~ raced'
      PROVE  /\ Later(library, library') /\ Moved
             /\ NoRepeat(confirmed') /\ NoRepeat(staging')
             /\ InputsOf(confirmed') \cap InputsOf(staging') # {}
                  => halved' \/ Unstaging' # {}
  <2>1. ~ raced /\ library = job[p].read
    BY <1>2, <1>8
  <2>2. /\ job[p].read[1] = confirmed /\ job[p].read[2] = staging
        /\ NoRepeat(confirmed) /\ NoRepeat(staging) /\ Excused(p)
    BY <1>5, <1>7, <2>1 DEF LibraryInv
  <2>3. /\ NoRepeat(staging') /\ InputsOf(staging) \ InputsOf(staging') # {}
        /\ InputsOf(staging) \subseteq InputsOf(staging') \cup InputsOf(confirmed)
        /\ Range(staging') \subseteq Range(staging)
    BY <1>2, <1>3, <2>2 DEF PromisedShape
  <2>4. InputsOf(staging') \subseteq InputsOf(staging)
    BY <2>3, InputsRange
  <2>5. IsPrefix(confirmed, confirmed)
    BY PrefixFacts DEF LibraryData
  <2>6. Later(library, library')
    BY <1>2, <1>7, <2>3, <2>4, <2>5 DEF Later
  <2>7. Moved
    BY <2>3 DEF Moved
  <2>8. InputsOf(confirmed') \cap InputsOf(staging') # {} => halved' \/ Unstaging' # {}
    <3>1. SUFFICES ASSUME InputsOf(confirmed') \cap InputsOf(staging') # {}, ~ halved'
                   PROVE  Unstaging' # {}
      OBVIOUS
    <3>2. Unstaging \ {p} # {}
      BY <1>2, <2>1, <2>2, <3>1 DEF Excused
    <3>3. PICK q \in Unstaging : q # p
      BY <3>2
    <3>4. q \in Procs
      BY DEF Unstaging
    <3> QED BY <1>1, <3>3, <3>4, UnstagingElsewhere
  <2> QED BY <1>2, <2>2, <2>3, <2>6, <2>7, <2>8
<1>9. LibraryInv'
  BY <1>1, <1>5, <1>6, <1>8, LibraryGoesOn
<1> QED BY <1>8, <1>9

LEMMA LibraryStepKeeps ==
  ASSUME ShapeInv, ShapeInv', LibraryData, LibraryData', LibraryInv, NEW p \in Procs,
         LibraryStep(p)
  PROVE  LibraryInv'
BY LibraryReads, AddWrites, PromoteConfirms, PromoteUnstages DEF LibraryStep

LEMMA LibraryInvKeeps ==
  ASSUME ShapeInv, DataInv, LibraryInv, [Next]_vars
  PROVE  LibraryInv'
<1>1. AdoptionData /\ LibraryData /\ VerifyData /\ PoolData /\ SettingsData
  BY DEF DataInv
<1>2. ShapeInv' /\ LibraryData'
  BY TypedKeeps DEF DataInv
<1>3. UNCHANGED libraryVars => UNCHANGED <<library, raced>> /\ halved' = halved
  BY DEF libraryVars, library
<1>4. \A p \in Procs : p \in Unstaging => job[p].cmd = "promote"
  BY DEF Unstaging, At
<1>5. ASSUME NEW p \in Procs, Adoption(p)
      PROVE  LibraryInv'
  <2>1. Turns(p, {"rollback", "over"}) /\ job[p].cmd \in {"none", "rollback"}
    BY <1>1, <1>5, AdoptionTurns DEF Adoption
  <2>2. UNCHANGED libraryVars /\ job'[p].cmd \in {"rollback", "over"}
    BY <1>5, <2>1 DEF Adoption, Turns
  <2> QED BY <1>1, <1>2, <1>3, <1>4, <2>1, <2>2, LibraryElsewhere
<1>6. ASSUME NEW p \in Procs, Library(p)
      PROVE  LibraryInv'
  BY <1>1, <1>2, <1>6, LibraryStepKeeps DEF Library
<1>7. ASSUME NEW p \in Procs, Gate(p)
      PROVE  LibraryInv'
  <2>1. Turns(p, {"verify", "exited", "call", "add"}) /\ job[p].cmd \in {"none", "verify"}
    BY <1>1, <1>7, GateTurns
  <2>2. UNCHANGED libraryVars /\ job'[p].cmd \in {"verify", "exited", "call", "add"}
    BY <1>7, <2>1 DEF Gate, Turns
  <2>3. job'[p].cmd = "add" => job'[p].pc = "load"
    BY <1>1, <1>7, GateAdds
  <2> QED BY <1>1, <1>2, <1>3, <1>4, <2>1, <2>2, <2>3, LibraryElsewhere
<1>8. ASSUME NEW p \in Procs, Run(p)
      PROVE  LibraryInv'
  <2>1. Turns(p, {"run", "over", "optimized"}) /\ job[p].cmd \in {"none", "run"}
    BY <1>1, <1>8, PoolTurns
  <2>2. UNCHANGED libraryVars /\ job'[p].cmd \in {"run", "over", "optimized"}
    BY <1>8, <2>1 DEF Run, Turns
  <2> QED BY <1>1, <1>2, <1>3, <1>4, <2>1, <2>2, LibraryElsewhere
<1>9. ASSUME NEW p \in Procs, Session(p)
      PROVE  LibraryInv'
  <2>1. /\ Turns(p, {"verify", "exited", "call", "run", "over"})
        /\ job[p].cmd \in {"none", "verify", "call", "run", "optimized"}
    BY <1>1, <1>9, SessionTurns DEF Session
  <2>2. UNCHANGED libraryVars /\ job'[p].cmd \in {"verify", "exited", "call", "run", "over"}
    BY <1>9, <2>1 DEF Session, Turns
  <2> QED BY <1>1, <1>2, <1>3, <1>4, <2>1, <2>2, LibraryElsewhere
<1>10. ASSUME NEW p \in Procs, Setting(p)
       PROVE  LibraryInv'
  <2>1. /\ Turns(p, {"ran", "verified", "edit", "init", "over"})
        /\ job[p].cmd \in {"none", "edit", "init"}
    BY <1>1, <1>10, SettingTurns DEF Setting
  <2>2. UNCHANGED libraryVars /\ job'[p].cmd \in {"ran", "verified", "edit", "init", "over"}
    BY <1>10, <2>1 DEF Setting, Turns
  <2> QED BY <1>1, <1>2, <1>3, <1>4, <2>1, <2>2, LibraryElsewhere
<1>11. ASSUME NEW p \in Procs, Die(p)
       PROVE  LibraryInv'
  <2>1. Turns(p, {"over"})
    BY <1>1, <1>11, DieTurns
  <2>2. /\ UNCHANGED <<library, raced>> /\ job'[p].cmd = "over"
        /\ halved' = (halved \/ At(p, "promote", "unstage"))
    BY <1>11, <2>1 DEF Die, Turns
  <2>3. p \in Unstaging => halved'
    BY <2>2 DEF Unstaging
  <2> QED BY <1>1, <1>2, <2>1, <2>2, <2>3, LibraryElsewhere
<1>12. CASE job' = job /\ UNCHANGED libraryVars
  BY <1>12 DEF LibraryInv, libraryVars, library, Unstaging, At, Excused
<1> QED BY <1>5, <1>6, <1>7, <1>8, <1>9, <1>10, <1>11, <1>12, StepKinds

\* No input leaves the library and no confirmed entry goes.
LEMMA LibraryOnward ==
  ASSUME ShapeInv, DataInv, LibraryInv, [Next]_vars
  PROVE  LibraryKept
<1>1. AdoptionData /\ LibraryData /\ VerifyData /\ PoolData /\ SettingsData
  BY DEF DataInv
<1>2. ShapeInv' /\ LibraryData'
  BY TypedKeeps DEF DataInv
<1>3. confirmed \in Seq(Entries)
  BY <1>1 DEF LibraryData
<1>4. CASE UNCHANGED <<confirmed, staging>>
  <2>1. IsPrefix(confirmed, confirmed)
    BY <1>3, PrefixFacts
  <2> QED BY <1>4, <2>1 DEF LibraryKept
<1>5. CASE ~ raced' => Later(library, library')
  BY <1>5 DEF LibraryKept, Later, library
<1>6. ASSUME NEW p \in Procs, Library(p)
      PROVE  UNCHANGED <<confirmed, staging>> \/ (~ raced' => Later(library, library'))
  <2>1. CASE AddSave(p) \/ PromoteConfirm(p) \/ PromoteUnstage(p)
    BY <1>1, <1>2, <2>1, AddWrites, PromoteConfirms, PromoteUnstages
  <2>2. CASE ~ (AddSave(p) \/ PromoteConfirm(p) \/ PromoteUnstage(p))
    BY <1>6, <2>2 DEF Library, LibraryStep, libraryVars, AnchorAdd, AddLoad, AddScan,
       AddReread, AddFails, PromoteLoad, PromoteRead, PromoteFails
  <2> QED BY <2>1, <2>2
<1>7. ASSUME NEW p \in Procs,
             Adoption(p) \/ Gate(p) \/ Run(p) \/ Session(p) \/ Setting(p) \/ Die(p)
      PROVE  UNCHANGED <<confirmed, staging>>
  BY <1>7 DEF Adoption, Gate, Run, Session, Setting, Die, libraryVars, library
<1>8. UNCHANGED libraryVars => UNCHANGED <<confirmed, staging>>
  BY DEF libraryVars
<1> QED BY <1>4, <1>5, <1>6, <1>7, <1>8, StepKinds

\* Once the rollback is to switch, what it replaces is in the journal.
LEMMA JournalledFirst ==
  ASSUME JournalInv
  PROVE  JournalFirst
<1> SUFFICES ASSUME NEW p \in Procs, At(p, "rollback", "save"), adopted = job[p].from
             PROVE  \E i \in DOMAIN history : history[i] \in {adopted, Garbled}
  BY DEF JournalFirst
<1>1. job[p].cmd = "rollback" /\ job[p].pc = "save"
  BY DEF At
<1>2. Targets(job[p], history)
  BY <1>1 DEF JournalInv
<1> QED BY <1>1, <1>2 DEF Targets

-----------------------------------------------------------------------------
(* The settings' files in time. *)

\* Who writes which file, and how.
LEMMA SettingWrites ==
  ASSUME ShapeInv, SettingsData, NEW p \in Procs, SettingsStep(p), files' # files
  PROVE  /\ \/ job[p].cmd = "edit" /\ job[p].pc = "rename"
            \/ job[p].cmd = "init" /\ job[p].pc = "wizard"
         /\ job[p].scope \in Scopes
         /\ \E layer \in Layer : /\ files' = [files EXCEPT ![job[p].scope] = Holding(layer)]
                                 /\ job[p].cmd = "edit" => layer = job[p].next
         /\ overwrote' = (overwrote \/ files[job[p].scope] # job[p].read)
<1>1. CASE EditRename(p)
  <2>1. /\ job[p].cmd = "edit" /\ job[p].pc = "rename"
        /\ files' = [files EXCEPT ![job[p].scope] = Holding(job[p].next)]
        /\ overwrote' = (overwrote \/ files[job[p].scope] # job[p].read)
    BY <1>1 DEF EditRename, At
  <2>2. EditShape(job[p])
    BY <2>1 DEF ShapeInv, Shape
  <2>3. job[p].scope \in Scopes /\ job[p].next \in Layer
    BY <2>1, <2>2 DEF EditShape
  <2> QED BY <2>1, <2>3
<1>2. CASE InitWrite(p)
  <2>1. /\ job[p].cmd = "init" /\ job[p].pc = "wizard"
        /\ overwrote' = (overwrote \/ files[job[p].scope] # job[p].read)
    BY <1>2 DEF InitWrite, At
  <2>2. PICK given \in Answers, judge \in BOOLEAN :
          files' = [files EXCEPT ![job[p].scope] = Holding(Chosen(given, judge))]
    BY <1>2 DEF InitWrite
  <2>3. Chosen(given, judge) \in Layer
    BY WorkspaceAssumption, ChosenFacts
  <2>4. job[p].scope \in Scopes
    BY <2>1 DEF ShapeInv, Shape, InitShape
  <2> QED BY <2>1, <2>2, <2>3, <2>4
<1>3. CASE ~ (EditRename(p) \/ InitWrite(p))
  BY <1>3, Zenon DEF SettingsStep, ConfiguredRun, ConfiguredVerify, EditLoad, EditRead, InitAsk,
     InitCancel, settingsVars
<1> QED BY <1>1, <1>2, <1>3

\* A file that decodes, or is not there, will not stop doing so.
LEMMA NeverCorrupted ==
  ASSUME ShapeInv, SettingsData, NEW p \in Procs, SettingsStep(p),
         NEW scope \in Scopes, files[scope] # Corrupt
  PROVE  files'[scope] # Corrupt
<1>1. CASE files' = files
  BY <1>1
<1>2. CASE files' # files
  <2>1. PICK layer \in Layer : files' = [files EXCEPT ![job[p].scope] = Holding(layer)]
    BY <1>2, SettingWrites
  <2>2. Holding(layer) # Corrupt
    BY HoldingFacts
  <2> QED BY <2>1, <2>2 DEF SettingsData
<1> QED BY <1>1, <1>2

LEMMA EditElsewhere ==
  ASSUME EditInv, UNCHANGED files, NEW p \in Procs, NEW cmds, Turns(p, cmds),
         "edit" \notin cmds
  PROVE  EditInv'
<1>1. ASSUME NEW q \in Procs, job'[q].cmd = "edit", job'[q].pc = "rename"
      PROVE  files'[job'[q].scope] # Corrupt
  <2>1. q # p
    BY <1>1 DEF Turns
  <2> QED BY <1>1, <2>1 DEF Turns, EditInv, At
<1> QED BY <1>1 DEF EditInv, At

LEMMA EditSettings ==
  ASSUME ShapeInv, SettingsData, EditInv, NEW p \in Procs, SettingsStep(p)
  PROVE  EditInv'
<1>1. Turns(p, {"ran", "verified", "edit", "init", "over"})
  BY SettingTurns
<1>2. ShapeInv'
  BY <1>1, Shaped
<1>3. SUFFICES ASSUME NEW q \in Procs, job'[q].cmd = "edit", job'[q].pc = "rename"
               PROVE  files'[job'[q].scope] # Corrupt
  BY DEF EditInv, At
<1>4. EditShape(job'[q])
  BY <1>2, <1>3 DEF ShapeInv, Shape
<1>5. job'[q].scope \in Scopes
  BY <1>4 DEF EditShape
<1>6. CASE q # p
  <2>1. job'[q] = job[q]
    BY <1>1, <1>6 DEF Turns
  <2>2. files[job[q].scope] # Corrupt
    BY <1>3, <2>1 DEF EditInv, At
  <2> QED BY <1>5, <2>1, <2>2, NeverCorrupted
<1>7. CASE q = p
  <2>1. \A j : Becomes(p, j) => job'[p] = j
    BY DEF Becomes, ShapeInv
  <2>2. CASE EditRead(p)
    <3> DEFINE there == files[job[p].scope]
               j == [cmd |-> "edit", pc |-> "rename", scope |-> job[p].scope,
                     key |-> job[p].key, read |-> there,
                     next |-> WithKey(KeysOf(there), job[p].key, job[p].value)]
    <3>1. /\ files' = files
          /\ there = Corrupt => Becomes(p, Over)
          /\ Becomes(p, Over) \/ Becomes(p, j)
      BY <2>2 DEF EditRead, settingsVars
    <3>2. ~ Becomes(p, Over)
      BY <1>3, <1>7, <2>1 DEF Over
    <3>3. job'[p].scope = job[p].scope
      BY <2>1, <3>1, <3>2
    <3> QED BY <1>7, <3>1, <3>2, <3>3
  <2>3. CASE ConfiguredRun(p) \/ ConfiguredVerify(p)
    <3>1. Turns(p, {"ran", "verified", "over"})
      BY <2>3, ReadTurns
    <3> QED BY <1>3, <1>7, <3>1 DEF Turns
  <2>4. CASE InitAsk(p) \/ InitCancel(p) \/ InitWrite(p)
    <3>1. Turns(p, {"init", "over"})
      BY <2>4, InitTurns
    <3> QED BY <1>3, <1>7, <3>1 DEF Turns
  <2>5. CASE EditRename(p)
    BY <1>3, <1>7, <2>1, <2>5 DEF EditRename, Ends, Over
  <2>6. CASE EditLoad(p)
    <3>1. PICK scope \in Scopes, key \in Keys, value \in 0 .. Top :
            Becomes(p, IF files[scope] = Corrupt
                       THEN Over
                       ELSE [cmd |-> "edit", pc |-> "read", scope |-> scope,
                             key |-> key, value |-> value])
      BY <2>6, Zenon DEF EditLoad
    <3> QED BY <1>3, <1>7, <2>1, <3>1 DEF Over
  <2> QED BY <2>2, <2>3, <2>4, <2>5, <2>6 DEF SettingsStep
<1> QED BY <1>6, <1>7

LEMMA EditKeeps ==
  ASSUME ShapeInv, DataInv, EditInv, [Next]_vars
  PROVE  EditInv'
<1>1. AdoptionData /\ LibraryData /\ VerifyData /\ PoolData /\ SettingsData
  BY DEF DataInv
<1>2. UNCHANGED settingsVars => files' = files
  BY DEF settingsVars
<1>3. ASSUME NEW p \in Procs, Adoption(p)
      PROVE  EditInv'
  <2>1. Turns(p, {"rollback", "over"})
    BY <1>1, <1>3, AdoptionTurns DEF Adoption
  <2> QED BY <1>2, <1>3, <2>1, EditElsewhere DEF Adoption
<1>4. ASSUME NEW p \in Procs, Library(p)
      PROVE  EditInv'
  <2>1. Turns(p, {"add", "promote", "over", "verify"})
    BY <1>1, <1>4, LibraryTurns DEF Library
  <2> QED BY <1>2, <1>4, <2>1, EditElsewhere DEF Library
<1>5. ASSUME NEW p \in Procs, Gate(p)
      PROVE  EditInv'
  <2>1. Turns(p, {"verify", "exited", "call", "add"})
    BY <1>1, <1>5, GateTurns
  <2> QED BY <1>2, <1>5, <2>1, EditElsewhere DEF Gate
<1>6. ASSUME NEW p \in Procs, Run(p)
      PROVE  EditInv'
  <2>1. Turns(p, {"run", "over", "optimized"})
    BY <1>1, <1>6, PoolTurns
  <2> QED BY <1>2, <1>6, <2>1, EditElsewhere DEF Run
<1>7. ASSUME NEW p \in Procs, Session(p)
      PROVE  EditInv'
  <2>1. Turns(p, {"verify", "exited", "call", "run", "over"})
    BY <1>1, <1>7, SessionTurns DEF Session
  <2> QED BY <1>2, <1>7, <2>1, EditElsewhere DEF Session
<1>8. ASSUME NEW p \in Procs, Setting(p)
      PROVE  EditInv'
  BY <1>1, <1>8, EditSettings DEF Setting
<1>9. ASSUME NEW p \in Procs, Die(p)
      PROVE  EditInv'
  <2>1. Turns(p, {"over"})
    BY <1>1, <1>9, DieTurns
  <2> QED BY <1>2, <1>9, <2>1, EditElsewhere DEF Die
<1>10. CASE job' = job /\ UNCHANGED settingsVars
  BY <1>2, <1>10 DEF EditInv, At
<1> QED BY <1>3, <1>4, <1>5, <1>6, <1>7, <1>8, <1>9, <1>10, StepKinds

\* An edit of a file nobody else has written meanwhile.
LEMMA SettingsOnward ==
  ASSUME ShapeInv, DataInv, EditInv, [Next]_vars
  PROVE  SettingsKept
<1>1. AdoptionData /\ LibraryData /\ VerifyData /\ PoolData /\ SettingsData
  BY DEF DataInv
<1>2. UNCHANGED settingsVars => files' = files
  BY DEF settingsVars
<1>3. SUFFICES ASSUME ~ overwrote', NEW p \in Procs, job'[p] # job[p]
               PROVE  /\ At(p, "edit", "rename") =>
                           /\ files[job[p].scope] # Corrupt
                           /\ \A k \in Keys \ {job[p].key} :
                                files'[job[p].scope] # NoFile =>
                                  KeysOf(files'[job[p].scope])[k]
                                    = KeysOf(files[job[p].scope])[k]
                      /\ At(p, "init", "wizard") /\ files' # files =>
                           files[job[p].scope] \in {NoFile, Holding(Blank), job[p].gives}
  BY DEF SettingsKept
<1>4. At(p, "edit", "rename") => files[job[p].scope] # Corrupt
  BY DEF EditInv
<1>5. CASE files' = files
  BY <1>4, <1>5
<1>6. CASE files' # files
  <2>1. PICK q \in Procs : Setting(q)
    BY <1>2, <1>6, StepKinds DEF Adoption, Library, Gate, Run, Session, Die
  <2>2. q = p
    <3>1. Turns(q, {"ran", "verified", "edit", "init", "over"})
      BY <1>1, <2>1, SettingTurns DEF Setting
    <3> QED BY <1>3, <3>1 DEF Turns
  <2>3. /\ job[p].scope \in Scopes
        /\ \E layer \in Layer : /\ files' = [files EXCEPT ![job[p].scope] = Holding(layer)]
                                /\ job[p].cmd = "edit" => layer = job[p].next
        /\ overwrote' = (overwrote \/ files[job[p].scope] # job[p].read)
    BY <1>1, <1>6, <2>1, <2>2, SettingWrites DEF Setting
  <2>4. files[job[p].scope] = job[p].read
    BY <1>3, <2>3
  <2>5. ASSUME At(p, "edit", "rename"), NEW k \in Keys \ {job[p].key}
        PROVE  KeysOf(files'[job[p].scope])[k] = KeysOf(files[job[p].scope])[k]
    <3>1. job[p].cmd = "edit" /\ job[p].pc = "rename"
      BY <2>5 DEF At
    <3>2. EditShape(job[p])
      BY <3>1 DEF ShapeInv, Shape
    <3>3. job[p].next \in Layer /\ job[p].next[k] = KeysOf(job[p].read)[k]
      BY <3>1, <3>2 DEF EditShape
    <3>4. files'[job[p].scope] = Holding(job[p].next)
      BY <1>1, <2>3, <3>1 DEF SettingsData
    <3>5. KeysOf(files'[job[p].scope]) = job[p].next
      BY <3>3, <3>4, HoldingFacts
    <3> QED BY <2>4, <3>3, <3>5
  <2>6. At(p, "init", "wizard") => job[p].read \in {NoFile, Holding(Blank), job[p].gives}
    BY DEF ShapeInv, Shape, InitShape, At
  <2> QED BY <1>4, <2>4, <2>5, <2>6
<1> QED BY <1>5, <1>6

-----------------------------------------------------------------------------

LEMMA KeptStarts ==
  ASSUME Init
  PROVE  JournalInv /\ LibraryInv /\ EditInv
<1>1. PICK scene \in Scenes : Begun(scene)
  BY DEF Init
<1>2. \A p \in Procs : job[p].cmd \in {"none", "over"}
  BY <1>1 DEF Begun, Idle, Over
<1>3. JournalInv /\ EditInv
  BY <1>2 DEF JournalInv, EditInv, At
<1>4. /\ NoRepeat(confirmed) /\ NoRepeat(staging)
      /\ InputsOf(confirmed) \cap InputsOf(staging) = {}
  <2>1. /\ NoRepeat(scene.confirmed) /\ NoRepeat(scene.staging)
        /\ InputsOf(scene.confirmed) \cap InputsOf(scene.staging) = {}
    BY WorkspaceAssumption
  <2> QED BY <1>1, <2>1 DEF Begun
<1>5. LibraryInv
  BY <1>2, <1>4 DEF LibraryInv, HasRead, Unstaging, At
<1> QED BY <1>3, <1>5

KeptInv == ShapeInv /\ DataInv /\ JournalInv /\ LibraryInv /\ EditInv

LEMMA KeptKeeps == KeptInv /\ [Next]_vars => KeptInv'
BY TypedKeeps, JournalKeeps, LibraryInvKeeps, EditKeeps DEF KeptInv

\* Given again, a rollback that was killed before its switch goes where the first
\* one was going, however many lines were cut short in the meantime; and the
\* library's layers have one slot for an input, outside of a promote.
THEOREM RecoverableHolds == Spec => []Recoverable
<1>1. Init => KeptInv
  BY TypedStarts, KeptStarts DEF KeptInv
<1>2. KeptInv /\ [Next]_vars => KeptInv'
  BY KeptKeeps
<1>3. KeptInv => Recoverable
  <2>1. SUFFICES ASSUME KeptInv PROVE Recoverable
    OBVIOUS
  <2>2. ASSUME NEW p \in Procs, At(p, "rollback", "save"), job[p].plain,
               adopted = job[p].from,
               \/ Len(history) = job[p].seen
               \/ Len(history) = job[p].seen + 1 /\ Last(history) = job[p].from
        PROVE  RollbackTarget(adopted, history) = job[p].to
    <3>1. job[p].cmd = "rollback" /\ job[p].pc = "save"
      BY <2>2 DEF At
    <3>2. Targets(job[p], history)
      BY <2>1, <3>1 DEF KeptInv, JournalInv
    <3> QED BY <2>2, <3>1, <3>2 DEF Targets
  <2>3. ~ raced =>
          /\ NoRepeat(confirmed) /\ NoRepeat(staging)
          /\ InputsOf(confirmed) \cap InputsOf(staging) # {} =>
               \/ halved
               \/ \E p \in Procs : At(p, "promote", "unstage")
    BY <2>1 DEF KeptInv, LibraryInv, Unstaging
  <2> QED BY <2>2, <2>3 DEF Recoverable
<1> QED BY <1>1, <1>2, <1>3, PTL DEF Spec

\* No step of any number of commands forgets the adoption it replaces, a sample
\* of the library or a key of a file, except where two writers overlap on it.
THEOREM NothingForgottenHolds == Spec => NothingForgotten
<1>1. Init => KeptInv
  BY TypedStarts, KeptStarts DEF KeptInv
<1>2. KeptInv /\ [Next]_vars => KeptInv'
  BY KeptKeeps
<1>3. KeptInv /\ [Next]_vars => [JournalFirst /\ LibraryKept /\ SettingsKept]_vars
  BY JournalledFirst, LibraryOnward, SettingsOnward DEF KeptInv
<1> QED BY <1>1, <1>2, <1>3, PTL DEF Spec, NothingForgotten

-----------------------------------------------------------------------------
(* What ends are backed by.  First the samples people have seen. *)

LEMMA VouchedRange ==
  ASSUME NEW layer, NEW by
  PROVE  Vouched(layer, by)
           <=> \A x \in Range(layer) : x.source = "verify-failure" => x \in by
BY DEF Vouched, Range

LEMMA EndorsedGoesOn ==
  ASSUME EndorsedInv, endorsed \subseteq endorsed', NEW p \in Procs, NEW cmds, Turns(p, cmds),
         Vouched(confirmed', endorsed'),
         At(p, "add", "save")' /\ job'[p].layer = "confirmed"
           => Vouched(job'[p].next, endorsed'),
         At(p, "promote", "confirm")'
           => Vouched(job'[p].next, endorsed' \cup Range(job'[p].read[2]))
  PROVE  EndorsedInv'
<1>1. ASSUME NEW q \in Procs, At(q, "add", "save")', job'[q].layer = "confirmed"
      PROVE  Vouched(job'[q].next, endorsed')
  <2>1. CASE q = p
    BY <1>1, <2>1
  <2>2. CASE q # p
    <3>1. job'[q] = job[q]
      BY <2>2 DEF Turns
    <3>2. Vouched(job[q].next, endorsed)
      BY <1>1, <3>1 DEF EndorsedInv, At
    <3> QED BY <3>1, <3>2 DEF Vouched
  <2> QED BY <2>1, <2>2
<1>2. ASSUME NEW q \in Procs, At(q, "promote", "confirm")'
      PROVE  Vouched(job'[q].next, endorsed' \cup Range(job'[q].read[2]))
  <2>1. CASE q = p
    BY <1>2, <2>1
  <2>2. CASE q # p
    <3>1. job'[q] = job[q]
      BY <2>2 DEF Turns
    <3>2. Vouched(job[q].next, endorsed \cup Range(job[q].read[2]))
      BY <1>2, <3>1 DEF EndorsedInv, At
    <3> QED BY <3>1, <3>2 DEF Vouched
  <2> QED BY <2>1, <2>2
<1> QED BY <1>1, <1>2 DEF EndorsedInv

LEMMA EndorsedElsewhere ==
  ASSUME EndorsedInv, UNCHANGED <<confirmed, endorsed>>, NEW p \in Procs, NEW cmds,
         Turns(p, cmds), ~ At(p, "add", "save")', ~ At(p, "promote", "confirm")'
  PROVE  EndorsedInv'
BY EndorsedGoesOn DEF EndorsedInv

LEMMA EndorsedLibrary ==
  ASSUME ShapeInv, LibraryData, EndorsedInv, NEW p \in Procs, LibraryStep(p)
  PROVE  EndorsedInv'
<1>1. DOMAIN job = Procs
  BY DEF ShapeInv
<1>2. PICK cmds : Turns(p, cmds)
  BY LibraryTurns
<1>3. job[p].cmd = "add" => AddShape(job[p])
  BY DEF ShapeInv, Shape
<1>4. \A j : Becomes(p, j) => job'[p] = j
  BY <1>1 DEF Becomes
<1>5. job[p].cmd = "add" => job[p].after.cmd \in {"over", "verify"}
  BY <1>3, AfterShape DEF AddShape
<1>6. UNCHANGED libraryVars => UNCHANGED <<confirmed, endorsed>>
  BY DEF libraryVars
<1>7. \A cmd, pc : At(p, cmd, pc)' => job'[p].cmd = cmd /\ job'[p].pc = pc
  BY DEF At
<1>8. Vouched(confirmed, endorsed)
  BY DEF EndorsedInv
<1>9. CASE AnchorAdd(p)
  <2>1. UNCHANGED libraryVars
    BY <1>9 DEF AnchorAdd
  <2>2. \E entries, layer : Becomes(p, Adding("human", entries, layer, Over))
    BY <1>9 DEF AnchorAdd
  <2>3. job'[p].cmd = "add" /\ job'[p].pc = "load"
    BY <1>4, <2>2 DEF Adding
  <2> QED BY <1>2, <1>6, <1>7, <2>1, <2>3, EndorsedElsewhere
<1>10. CASE AddLoad(p) \/ AddScan(p)
  <2> DEFINE fresh == Fresh(job[p].entries, InputsOf(job[p].seen) \cup InputsOf(staging))
             i == [cmd |-> "add", pc |-> "scan", by |-> job[p].by,
                   entries |-> job[p].entries, layer |-> job[p].layer,
                   after |-> job[p].after, seen |-> confirmed]
             j == [cmd |-> "add", pc |-> "reread", by |-> job[p].by,
                   entries |-> fresh, layer |-> job[p].layer,
                   after |-> job[p].after, read |-> <<job[p].seen, staging>>]
  <2>1. job[p].cmd = "add" /\ UNCHANGED libraryVars
    BY <1>10 DEF AddLoad, AddScan, At
  <2>2. Becomes(p, job[p].after) \/ Becomes(p, i) \/ Becomes(p, j)
    BY <1>10 DEF AddLoad, AddScan
  <2>3. /\ i.cmd = "add" /\ i.pc \in {"scan", "reread"}
        /\ j.cmd = "add" /\ j.pc \in {"scan", "reread"}
    OBVIOUS
  <2> HIDE DEF i, j
  <2>4. \/ job'[p].cmd \in {"over", "verify"}
        \/ job'[p].cmd = "add" /\ job'[p].pc \in {"scan", "reread"}
    BY <1>4, <1>5, <2>1, <2>2, <2>3
  <2> QED BY <1>2, <1>6, <1>7, <2>1, <2>4, EndorsedElsewhere
<1>11. CASE AddReread(p)
  <2> DEFINE target == IF job[p].layer = "confirmed" THEN confirmed ELSE staging
             j == [cmd |-> "add", pc |-> "save", by |-> job[p].by,
                   layer |-> job[p].layer, after |-> job[p].after,
                   read |-> job[p].read, next |-> target \o job[p].entries]
  <2>1. job[p].cmd = "add" /\ job[p].pc = "reread" /\ UNCHANGED libraryVars
    BY <1>11 DEF AddReread, At
  <2>2. job'[p] = j
    BY <1>4, <1>11 DEF AddReread
  <2>3. AddShape(job[p])
    BY <1>3, <2>1
  <2>4. job[p].layer = "confirmed" => Vouched(j.next, endorsed)
    <3>1. SUFFICES ASSUME job[p].layer = "confirmed"
                   PROVE  Vouched(confirmed \o job[p].entries, endorsed)
      OBVIOUS
    <3>2. /\ job[p].entries \in Seq(Entries)
          /\ \A i \in DOMAIN job[p].entries : job[p].entries[i].source = "manual"
      BY <2>1, <2>3, <3>1 DEF AddShape
    <3>3. Range(confirmed \o job[p].entries) = Range(confirmed) \cup Range(job[p].entries)
      BY <3>2, JoinedFacts DEF LibraryData
    <3>4. \A x \in Range(job[p].entries) : x.source = "manual"
      BY <3>2 DEF Range
    <3>5. \A x \in Range(confirmed) : x.source = "verify-failure" => x \in endorsed
      BY <1>8, VouchedRange
    <3>6. \A x \in Range(confirmed \o job[p].entries) :
            x.source = "verify-failure" => x \in endorsed
      BY <3>3, <3>4, <3>5
    <3> QED BY <3>6, VouchedRange
  <2>5. j.cmd = "add" /\ j.layer = job[p].layer
    OBVIOUS
  <2> HIDE DEF j
  <2>6. /\ ~ At(p, "promote", "confirm")'
        /\ job'[p].layer = "confirmed" => Vouched(job'[p].next, endorsed')
    BY <1>6, <1>7, <2>1, <2>2, <2>4, <2>5
  <2> QED BY <1>2, <1>6, <1>8, <2>1, <2>6, EndorsedGoesOn
<1>12. CASE AddSave(p)
  <2>1. /\ job[p].cmd = "add" /\ job[p].pc = "save" /\ endorsed' = endorsed
        /\ \/ job[p].layer = "confirmed" /\ confirmed' = job[p].next
           \/ confirmed' = confirmed
        /\ Becomes(p, job[p].after)
    BY <1>12 DEF AddSave, At
  <2>2. Vouched(confirmed', endorsed')
    BY <1>8, <2>1 DEF EndorsedInv, At
  <2>3. job'[p].cmd \in {"over", "verify"}
    BY <1>4, <1>5, <2>1
  <2>4. ~ At(p, "add", "save")' /\ ~ At(p, "promote", "confirm")'
    BY <1>7, <2>3
  <2>5. endorsed \subseteq endorsed'
    BY <2>1
  <2> QED BY <1>2, <2>2, <2>4, <2>5, EndorsedGoesOn
<1>13. CASE AddFails(p)
  <2>1. /\ job[p].cmd = "add" /\ UNCHANGED libraryVars
        /\ Becomes(p, job[p].after) \/ Becomes(p, Over)
    BY <1>13 DEF AddFails
  <2>2. job'[p].cmd \in {"over", "verify"}
    BY <1>4, <1>5, <2>1 DEF Over
  <2> QED BY <1>2, <1>6, <1>7, <2>1, <2>2, EndorsedElsewhere
<1>14. CASE PromoteLoad(p)
  <2>1. UNCHANGED libraryVars
    BY <1>14 DEF PromoteLoad
  <2>2. \E ids : Becomes(p, [cmd |-> "promote", pc |-> "read", ids |-> ids, seen |-> staging])
    BY <1>14 DEF PromoteLoad
  <2>3. job'[p].cmd = "promote" /\ job'[p].pc = "read"
    BY <1>4, <2>2
  <2> QED BY <1>2, <1>6, <1>7, <2>1, <2>3, EndorsedElsewhere
<1>15. CASE PromoteRead(p)
  <2> DEFINE j == [cmd |-> "promote", pc |-> "confirm",
                   next |-> confirmed \o Fresh(Picked(job[p].seen, job[p].ids),
                                               InputsOf(confirmed)),
                   left |-> Without(job[p].seen, Picked(job[p].seen, job[p].ids)),
                   read |-> <<confirmed, job[p].seen>>]
  <2>1. UNCHANGED libraryVars
    BY <1>15 DEF PromoteRead
  <2>2. ShapeInv'
    BY <1>2, Shaped
  <2>3. Ends(p) \/ Becomes(p, j)
    BY <1>15 DEF PromoteRead
  <2>4. j.cmd = "promote" /\ j.pc = "confirm" /\ j.read[1] = confirmed
    OBVIOUS
  <2> HIDE DEF j
  <2>5. CASE Ends(p)
    <3>1. job'[p].cmd = "over"
      BY <1>4, <2>5 DEF Ends, Over
    <3> QED BY <1>2, <1>6, <1>7, <2>1, <3>1, EndorsedElsewhere
  <2>6. CASE Becomes(p, j)
    <3>1. /\ job'[p].cmd = "promote" /\ job'[p].pc = "confirm"
          /\ job'[p].read[1] = confirmed
      BY <1>4, <2>4, <2>6
    <3>2. PromisedShape(job'[p])
      BY <2>2, <3>1 DEF ShapeInv, Shape, PromoteShape
    <3>3. Range(job'[p].next) \subseteq Range(confirmed) \cup Range(job'[p].read[2])
      BY <3>1, <3>2 DEF PromisedShape
    <3>4. \A x \in Range(confirmed) : x.source = "verify-failure" => x \in endorsed
      BY <1>8, VouchedRange
    <3>5. \A x \in Range(job'[p].next) :
            x.source = "verify-failure" => x \in endorsed \cup Range(job'[p].read[2])
      BY <3>3, <3>4
    <3>6. Vouched(job'[p].next, endorsed \cup Range(job'[p].read[2]))
      BY <3>5, VouchedRange
    <3> QED BY <1>2, <1>6, <1>7, <1>8, <2>1, <3>1, <3>6, EndorsedGoesOn
  <2> QED BY <2>3, <2>5, <2>6
<1>16. CASE PromoteConfirm(p)
  <2>1. /\ At(p, "promote", "confirm") /\ confirmed' = job[p].next
        /\ endorsed' = endorsed \cup Range(job[p].read[2])
        /\ job'[p].cmd = "promote" /\ job'[p].pc = "unstage"
    BY <1>4, <1>16 DEF PromoteConfirm
  <2>2. Vouched(confirmed', endorsed')
    BY <2>1 DEF EndorsedInv
  <2>3. ~ At(p, "add", "save")' /\ ~ At(p, "promote", "confirm")'
    BY <1>7, <2>1
  <2>4. endorsed \subseteq endorsed'
    BY <2>1
  <2> QED BY <1>2, <2>2, <2>3, <2>4, EndorsedGoesOn
<1>17. CASE PromoteUnstage(p) \/ PromoteFails(p)
  <2>1. UNCHANGED <<confirmed, endorsed>> /\ job'[p].cmd = "over"
    BY <1>4, <1>17 DEF PromoteUnstage, PromoteFails, Ends, Over
  <2> QED BY <1>2, <1>7, <2>1, EndorsedElsewhere
<1> QED BY <1>9, <1>10, <1>11, <1>12, <1>13, <1>14, <1>15, <1>16, <1>17 DEF LibraryStep

LEMMA EndorsedKeeps ==
  ASSUME ShapeInv, DataInv, EndorsedInv, [Next]_vars
  PROVE  EndorsedInv'
<1>1. AdoptionData /\ LibraryData /\ VerifyData /\ PoolData /\ SettingsData
  BY DEF DataInv
<1>2. UNCHANGED libraryVars => UNCHANGED <<confirmed, endorsed>>
  BY DEF libraryVars
<1>3. \A p \in Procs : \A cmd, pc : At(p, cmd, pc)' => job'[p].cmd = cmd /\ job'[p].pc = pc
  BY DEF At
<1>4. ASSUME NEW p \in Procs, Adoption(p)
      PROVE  EndorsedInv'
  <2>1. Turns(p, {"rollback", "over"})
    BY <1>1, <1>4, AdoptionTurns DEF Adoption
  <2>2. job'[p].cmd \in {"rollback", "over"}
    BY <2>1 DEF Turns
  <2> QED BY <1>2, <1>3, <1>4, <2>1, <2>2, EndorsedElsewhere DEF Adoption
<1>5. ASSUME NEW p \in Procs, Library(p)
      PROVE  EndorsedInv'
  BY <1>1, <1>5, EndorsedLibrary DEF Library
<1>6. ASSUME NEW p \in Procs, Gate(p)
      PROVE  EndorsedInv'
  <2>1. Turns(p, {"verify", "exited", "call", "add"})
    BY <1>1, <1>6, GateTurns
  <2>2. job'[p].cmd \in {"verify", "exited", "call", "add"}
    BY <2>1 DEF Turns
  <2>3. job'[p].cmd = "add" => job'[p].pc = "load"
    BY <1>6, GateAdds
  <2> QED BY <1>2, <1>3, <1>6, <2>1, <2>2, <2>3, EndorsedElsewhere DEF Gate
<1>7. ASSUME NEW p \in Procs, Run(p)
      PROVE  EndorsedInv'
  <2>1. Turns(p, {"run", "over", "optimized"})
    BY <1>1, <1>7, PoolTurns
  <2>2. job'[p].cmd \in {"run", "over", "optimized"}
    BY <2>1 DEF Turns
  <2> QED BY <1>2, <1>3, <1>7, <2>1, <2>2, EndorsedElsewhere DEF Run
<1>8. ASSUME NEW p \in Procs, Session(p)
      PROVE  EndorsedInv'
  <2>1. Turns(p, {"verify", "exited", "call", "run", "over"})
    BY <1>1, <1>8, SessionTurns DEF Session
  <2>2. job'[p].cmd \in {"verify", "exited", "call", "run", "over"}
    BY <2>1 DEF Turns
  <2> QED BY <1>2, <1>3, <1>8, <2>1, <2>2, EndorsedElsewhere DEF Session
<1>9. ASSUME NEW p \in Procs, Setting(p)
      PROVE  EndorsedInv'
  <2>1. Turns(p, {"ran", "verified", "edit", "init", "over"})
    BY <1>1, <1>9, SettingTurns DEF Setting
  <2>2. job'[p].cmd \in {"ran", "verified", "edit", "init", "over"}
    BY <2>1 DEF Turns
  <2> QED BY <1>2, <1>3, <1>9, <2>1, <2>2, EndorsedElsewhere DEF Setting
<1>10. ASSUME NEW p \in Procs, Die(p)
       PROVE  EndorsedInv'
  <2>1. Turns(p, {"over"})
    BY <1>1, <1>10, DieTurns
  <2>2. job'[p].cmd \in {"over"} /\ UNCHANGED <<confirmed, endorsed>>
    BY <1>10, <2>1 DEF Turns, Die, library
  <2> QED BY <1>3, <2>1, <2>2, EndorsedElsewhere
<1>11. CASE job' = job /\ UNCHANGED libraryVars
  BY <1>2, <1>11 DEF EndorsedInv, At
<1> QED BY <1>4, <1>5, <1>6, <1>7, <1>8, <1>9, <1>10, <1>11, StepKinds
-----------------------------------------------------------------------------
(* Who has ended, or has joined the pool, stays so. *)

Acts(p) ==
  \/ Adoption(p) \/ Library(p) \/ Gate(p) \/ Run(p) \/ Session(p) \/ Setting(p)
  \/ Die(p)

LEMMA RunOnward ==
  ASSUME ShapeInv, PoolData, NEW p \in Procs, Run(p)
  PROVE  /\ Joined(job[p]) => Joined(job'[p])
         /\ job[p].cmd = "run" /\ job'[p].cmd = "run" => job'[p].via = job[p].via
         /\ liveSinks' \in {liveSinks, liveSinks \ {p}}
         /\ job[p].cmd = "run" /\ job'[p].cmd # "run" => p \notin liveSinks'
<1>1. DOMAIN job = Procs
  BY DEF ShapeInv
<1>2. CASE RunStart(p, "cli")
  BY <1>2, RunStartTurns DEF Joined
<1>3. CASE PoolCompare(p) \/ PoolAppend(p)
  <2>1. /\ job[p].cmd = "run" /\ job[p].pc # "finish" /\ liveSinks' = liveSinks
        /\ job'[p].cmd = "run" /\ job'[p].via = job[p].via
    BY <1>1, <1>3 DEF PoolCompare, PoolAppend, At, Becomes, poolVars
  <2> QED BY <2>1 DEF Joined
<1>4. CASE FinishRun(p) \/ RunFails(p)
  <2>1. job[p].cmd = "run" /\ \E exit : RunReturns(p, exit)
    BY <1>4 DEF FinishRun, RunFails, At
  <2>2. Turns(p, {"over", "optimized"}) /\ liveSinks' = liveSinks \ {p}
    BY <2>1, RunEnds
  <2> QED BY <2>2 DEF Turns, Joined
<1> QED BY <1>2, <1>3, <1>4 DEF Run, RunStep

\* The server's own steps.
LEMMA SessionOnward ==
  ASSUME ShapeInv, PoolData, NEW p \in Procs, McpStep(p)
  PROVE  /\ job[p].cmd \in {"call", "optimized", "run"} => job'[p].cmd = "over"
         /\ \/ liveSinks' = liveSinks /\ job[p].cmd # "run"
            \/ liveSinks' = {}
            \/ /\ liveSinks' = liveSinks \cup {p}
               /\ job'[p].cmd = "run" /\ job'[p].via = "mcp"
<1>1. CASE VerifyLoad(p, "mcp") /\ UNCHANGED poolVars
  <2>1. job[p].cmd = "none"
    BY <1>1, VerifyLoadTurns
  <2> QED BY <1>1, <2>1 DEF poolVars
<1>2. CASE RunStart(p, "mcp")
  <2>1. /\ job[p].cmd = "none" /\ liveSinks' = liveSinks \cup {p}
        /\ Turns(p, {"run"}) /\ job'[p].via = "mcp"
    BY <1>2, RunStartTurns
  <2> QED BY <2>1 DEF Turns
<1>3. CASE VerifyAnswer(p) \/ OptimizeAnswer(p)
  <2>1. /\ job[p].cmd \in {"call", "optimized"} /\ liveSinks' = liveSinks
        /\ \E a : Answer(p, a)
    BY <1>3 DEF VerifyAnswer, OptimizeAnswer, poolVars
  <2>2. Turns(p, {"over"})
    BY <2>1, Answered
  <2> QED BY <2>1, <2>2 DEF Turns
<1>4. CASE Panic(p)
  <2>1. liveSinks' = {} /\ Answer(p, Failure)
    BY <1>4 DEF Panic, Reclaimed
  <2>2. Turns(p, {"over"})
    BY <2>1, Answered
  <2> QED BY <2>1, <2>2 DEF Turns
<1> QED BY <1>1, <1>2, <1>3, <1>4 DEF McpStep, ToolCall

LEMMA Onward ==
  ASSUME ShapeInv, DataInv, NEW p \in Procs, Acts(p)
  PROVE  /\ \E cmds : Turns(p, cmds)
         /\ job[p].cmd \notin {"exited", "over"}
         /\ job[p].cmd = "call" => job'[p].cmd = "over"
         /\ Joined(job[p]) => Joined(job'[p])
<1>1. AdoptionData /\ LibraryData /\ VerifyData /\ PoolData /\ SettingsData
  BY DEF DataInv
<1>2. CASE Adoption(p)
  <2>1. /\ Turns(p, {"rollback", "over"}) /\ job[p].cmd \in {"none", "rollback"}
    BY <1>1, <1>2, AdoptionTurns DEF Adoption
  <2> QED BY <2>1 DEF Joined
<1>3. CASE Library(p)
  <2>1. /\ Turns(p, {"add", "promote", "over", "verify"})
        /\ job[p].cmd \in {"none", "add", "promote"}
    BY <1>1, <1>3, LibraryTurns DEF Library
  <2> QED BY <2>1 DEF Joined
<1>4. CASE Gate(p)
  <2>1. /\ Turns(p, {"verify", "exited", "call", "add"})
        /\ job[p].cmd \in {"none", "verify"}
    BY <1>1, <1>4, GateTurns
  <2> QED BY <2>1 DEF Joined
<1>5. CASE Run(p)
  <2>1. Turns(p, {"run", "over", "optimized"}) /\ job[p].cmd \in {"none", "run"}
    BY <1>1, <1>5, PoolTurns
  <2>2. Joined(job[p]) => Joined(job'[p])
    BY <1>1, <1>5, RunOnward
  <2> QED BY <2>1, <2>2
<1>6. CASE Session(p)
  <2>1. McpStep(p)
    BY <1>6 DEF Session
  <2>2. /\ Turns(p, {"verify", "exited", "call", "run", "over"})
        /\ job[p].cmd \in {"none", "verify", "call", "run", "optimized"}
    BY <1>1, <2>1, SessionTurns
  <2>3. job[p].cmd \in {"call", "optimized", "run"} => job'[p].cmd = "over"
    BY <1>1, <2>1, SessionOnward
  <2> QED BY <2>2, <2>3 DEF Joined
<1>7. CASE Setting(p)
  <2>1. /\ Turns(p, {"ran", "verified", "edit", "init", "over"})
        /\ job[p].cmd \in {"none", "edit", "init"}
    BY <1>1, <1>7, SettingTurns DEF Setting
  <2> QED BY <2>1 DEF Joined
<1>8. CASE Die(p)
  <2>1. Turns(p, {"over"}) /\ job[p].cmd \notin {"exited", "over"}
    BY <1>1, <1>8, DieTurns DEF Die, Running
  <2> QED BY <2>1 DEF Turns, Joined
<1> QED BY <1>2, <1>3, <1>4, <1>5, <1>6, <1>7, <1>8 DEF Acts

-----------------------------------------------------------------------------
(* Reports and answers. *)

LEMMA ReporterStays ==
  ASSUME ShapeInv, DataInv, NEW p \in Procs, Acts(p), NEW q \in Procs, NEW exit,
         Reporter(job[q], exit)
  PROVE  Reporter(job'[q], exit)
<1>1. PICK cmds : Turns(p, cmds)
  BY Onward
<1>2. CASE q # p
  BY <1>1, <1>2 DEF Turns
<1>3. CASE q = p
  <2>1. job[p].cmd \notin {"exited", "over"} /\ (job[p].cmd = "call" => job'[p].cmd = "over")
    BY Onward
  <2> QED BY <1>3, <2>1 DEF Reporter
<1> QED BY <1>2, <1>3

\* Only the end of a gate writes a report, and no directory goes.
LEMMA ReportWrites ==
  ASSUME ShapeInv, DataInv, NEW p \in Procs, Acts(p)
  PROVE  /\ now' = now
         /\ UNCHANGED verifyVars \/ VerifyMkdir(p) \/ VerifyReport(p)
<1>1. CASE VerifyMkdir(p) \/ VerifyReport(p)
  BY <1>1 DEF VerifyMkdir, VerifyReport
<1>2. CASE VerifyGather(p) \/ VerifyEvaluate(p) \/ VerifyFails(p)
  <2>1. UNCHANGED verifyVars
    BY <1>2 DEF VerifyGather, VerifyEvaluate, VerifyFails
  <2> QED BY <2>1 DEF verifyVars
<1>3. CASE VerifyLoad(p, "cli")
  BY <1>3, VerifyLoadTurns DEF verifyVars
<1>4. CASE Session(p)
  <2>1. UNCHANGED verifyVars \/ VerifyLoad(p, "mcp")
    BY <1>4, Zenon DEF Session, McpStep, ToolCall, VerifyAnswer, OptimizeAnswer, Panic
  <2> QED BY <2>1, VerifyLoadTurns DEF verifyVars
<1>5. CASE Adoption(p) \/ Library(p) \/ Run(p) \/ Setting(p) \/ Die(p)
  BY <1>5 DEF Adoption, Library, Run, Setting, Die, verifyVars
<1> QED BY <1>1, <1>2, <1>3, <1>4, <1>5 DEF Acts, Gate, VerifyStep

LEMMA DirsStay ==
  ASSUME ShapeInv, DataInv, NEW p \in Procs, Acts(p), NEW d \in 1 .. MaxSeconds,
         reports[d] # NoDir
  PROVE  reports'[d] # NoDir
<1>1. reports \in [1 .. MaxSeconds -> ReportStates]
  BY DEF DataInv, VerifyData
<1>2. CASE UNCHANGED verifyVars
  BY <1>2 DEF verifyVars
<1>3. CASE VerifyMkdir(p)
  <2>1. reports'[d] \in {EmptyDir, reports[d]}
    BY <1>1, <1>3 DEF VerifyMkdir
  <2> QED BY <2>1 DEF EmptyDir, NoDir
<1>4. CASE VerifyReport(p)
  <2>1. reports'[d] \in {reports[d], Report(p, job[p].via, job[p].exit)}
    BY <1>1, <1>4 DEF VerifyReport
  <2> QED BY <2>1 DEF Report, NoDir
<1> QED BY <1>2, <1>3, <1>4, ReportWrites

LEMMA Reporting ==
  ASSUME ShapeInv, DataInv, NEW p \in Procs, Acts(p), NEW d \in 1 .. MaxSeconds,
         reports'[d] # reports[d], reports'[d].is = "report"
  PROVE  /\ VerifyReport(p) /\ job[p].cmd = "verify" /\ job[p].pc = "report"
         /\ d = job[p].dir
         /\ reports'[d] = Report(p, job[p].via, job[p].exit)
         /\ Reporter(job'[p], job[p].exit)
<1>1. reports \in [1 .. MaxSeconds -> ReportStates]
  BY DEF DataInv, VerifyData
<1>2. job[p].cmd = "verify" => VerifyShape(job[p])
  BY DEF ShapeInv, Shape
<1>3. CASE VerifyMkdir(p)
  <2>1. reports'[d] \in {EmptyDir, reports[d]}
    BY <1>1, <1>3 DEF VerifyMkdir
  <2> QED BY <2>1 DEF EmptyDir
<1>4. CASE VerifyReport(p)
  <2>1. /\ job[p].cmd = "verify" /\ job[p].pc = "report"
        /\ reports' = [reports EXCEPT ![job[p].dir] = Report(p, job[p].via, job[p].exit)]
    BY <1>4 DEF VerifyReport, At
  <2>2. job[p].via \in {"cli", "mcp"} /\ job[p].exit \in 0 .. 3
    BY <1>2, <2>1 DEF VerifyShape, ReportShape
  <2>3. PICK exit \in {job[p].exit, 1} : Returns(p, job[p].via, job[p].dir, exit)
    BY <1>4 DEF VerifyReport
  <2>4. exit \in 0 .. 3
    BY <2>2
  <2>5. Turns(p, {"exited", "call"}) /\ job'[p].exit = exit
    BY <2>2, <2>3, <2>4, Returned
  <2>6. d = job[p].dir /\ reports'[d] = Report(p, job[p].via, job[p].exit)
    BY <1>1, <2>1
  <2>7. Reporter(job'[p], job[p].exit)
    BY <2>5 DEF Turns, Reporter
  <2> QED BY <1>4, <2>1, <2>6, <2>7
<1>5. ~ UNCHANGED verifyVars
  BY DEF verifyVars
<1> QED BY <1>3, <1>4, <1>5, ReportWrites

LEMMA ReportKinds ==
  ASSUME VerifyData, NEW d \in 1 .. MaxSeconds
  PROVE  \/ reports[d] = NoDir \/ reports[d] = EmptyDir
         \/ reports[d].is = "report" /\ reports[d].by \in Procs /\ reports[d].exit \in 0 .. 3
<1>1. reports[d] \in ReportStates
  BY DEF VerifyData
<1> QED BY <1>1 DEF ReportStates, Report

LEMMA GateInvKeeps ==
  ASSUME ShapeInv, DataInv, GateInv, [Next]_vars
  PROVE  GateInv'
<1>1. ASSUME NEW p \in Procs, Acts(p), NEW d \in 1 .. MaxSeconds, reports'[d].is = "report"
      PROVE  Reporter(job'[reports'[d].by], reports'[d].exit)
  <2>1. CASE reports'[d] # reports[d]
    <3>1. reports'[d] = Report(p, job[p].via, job[p].exit) /\ Reporter(job'[p], job[p].exit)
      BY <1>1, <2>1, Reporting
    <3> QED BY <3>1 DEF Report
  <2>2. CASE reports'[d] = reports[d]
    <3>1. Reporter(job[reports[d].by], reports[d].exit)
      BY <1>1, <2>2 DEF GateInv
    <3>2. reports[d].by \in Procs
      BY <1>1, <2>2, ReportKinds DEF NoDir, EmptyDir, DataInv
    <3> QED BY <1>1, <2>2, <3>1, <3>2, ReporterStays
  <2> QED BY <2>1, <2>2
<1>2. CASE job' = job /\ reports' = reports
  BY <1>2 DEF GateInv
<1> QED BY <1>1, <1>2, StepKinds DEF Acts, GateInv

-----------------------------------------------------------------------------
(* Sinks. *)

LEMMA SinkKeeps ==
  ASSUME ShapeInv, DataInv, SinkInv, [Next]_vars
  PROVE  SinkInv'
<1>1. AdoptionData /\ LibraryData /\ VerifyData /\ PoolData /\ SettingsData
  BY DEF DataInv
<1>2. liveSinks \subseteq Procs
  BY <1>1 DEF PoolData
<1>3. ASSUME NEW p \in Procs, Acts(p)
      PROVE  SinkInv'
  <2>1. PICK cmds : Turns(p, cmds)
    BY <1>3, Onward
  <2>2. \A q \in liveSinks \ {p} : job'[q] = job[q] /\ job[q].cmd = "run" /\ job[q].via = "mcp"
    BY <1>2, <2>1 DEF Turns, SinkInv
  <2>3. p \in liveSinks => job[p].cmd = "run" /\ job[p].via = "mcp"
    BY DEF SinkInv
  <2>4. ASSUME liveSinks' = liveSinks, job[p].cmd # "run"
        PROVE  SinkInv'
    BY <2>2, <2>3, <2>4 DEF SinkInv
  <2>5. CASE Adoption(p) \/ Library(p) \/ Gate(p) \/ Setting(p)
    <3>1. liveSinks' = liveSinks
      BY <2>5 DEF Adoption, Library, Gate, Setting, poolVars
    <3>2. job[p].cmd \in {"none", "rollback", "add", "promote", "verify", "edit", "init"}
      <4>1. CASE Adoption(p)
        BY <1>1, <4>1, AdoptionTurns DEF Adoption
      <4>2. CASE Library(p)
        BY <1>1, <4>2, LibraryTurns DEF Library
      <4>3. CASE Gate(p)
        BY <1>1, <4>3, GateTurns
      <4>4. CASE Setting(p)
        BY <1>1, <4>4, SettingTurns DEF Setting
      <4> QED BY <2>5, <4>1, <4>2, <4>3, <4>4
    <3> QED BY <2>4, <3>1, <3>2
  <2>6. CASE Run(p)
    <3>1. /\ liveSinks' \in {liveSinks, liveSinks \ {p}}
          /\ job[p].cmd = "run" /\ job'[p].cmd # "run" => p \notin liveSinks'
          /\ job[p].cmd = "run" /\ job'[p].cmd = "run" => job'[p].via = job[p].via
      BY <1>1, <2>6, RunOnward
    <3> QED BY <2>2, <2>3, <3>1 DEF SinkInv
  <2>7. CASE Session(p)
    <3>1. \/ liveSinks' = liveSinks /\ job[p].cmd # "run"
          \/ liveSinks' = {}
          \/ /\ liveSinks' = liveSinks \cup {p}
             /\ job'[p].cmd = "run" /\ job'[p].via = "mcp"
      BY <1>1, <2>7, SessionOnward DEF Session
    <3> QED BY <2>2, <2>4, <3>1 DEF SinkInv
  <2>8. CASE Die(p)
    <3>1. liveSinks' = liveSinks \ {p}
      BY <2>8 DEF Die
    <3> QED BY <2>2, <3>1 DEF SinkInv
  <2> QED BY <1>3, <2>5, <2>6, <2>7, <2>8 DEF Acts
<1>4. CASE job' = job /\ UNCHANGED poolVars
  BY <1>4 DEF SinkInv, poolVars
<1> QED BY <1>3, <1>4, StepKinds DEF Acts
-----------------------------------------------------------------------------
(* The session's calls. *)

\* What the library hands over to is a command of its own.
LEMMA LibraryOutside ==
  ASSUME ShapeInv, LibraryData, NEW p \in Procs, LibraryStep(p)
  PROVE  job'[p].cmd \in {"add", "promote", "over"} \/ job'[p].via = "cli"
<1>1. \A j : Becomes(p, j) => job'[p] = j
  BY DEF Becomes, ShapeInv
<1>2. job[p].cmd = "add" => job[p].after.cmd = "over" \/ job[p].after.via = "cli"
  BY DEF ShapeInv, Shape, AddShape, Over
<1>3. \A by, entries, layer, after : Adding(by, entries, layer, after).cmd = "add"
  BY DEF Adding
<1>4. CASE AnchorAdd(p)
  <2>1. \E entries, layer : Becomes(p, Adding("human", entries, layer, Over))
    BY <1>4 DEF AnchorAdd
  <2> QED BY <1>1, <1>3, <2>1
<1>5. CASE AddLoad(p) \/ AddReread(p)
  BY <1>1, <1>5 DEF AddLoad, AddReread
<1>6. CASE AddScan(p)
  <2> DEFINE j(fresh) == [cmd |-> "add", pc |-> "reread", by |-> job[p].by,
                          entries |-> fresh, layer |-> job[p].layer,
                          after |-> job[p].after, read |-> <<job[p].seen, staging>>]
  <2>1. job[p].cmd = "add" /\ (Becomes(p, job[p].after) \/ \E fresh : Becomes(p, j(fresh)))
    BY <1>6 DEF AddScan, At
  <2>2. \A fresh : j(fresh).cmd = "add"
    OBVIOUS
  <2> HIDE DEF j
  <2> QED BY <1>1, <1>2, <2>1, <2>2
<1>7. CASE AddSave(p)
  <2>1. job[p].cmd = "add" /\ Becomes(p, job[p].after)
    BY <1>7 DEF AddSave, At
  <2> QED BY <1>1, <1>2, <2>1
<1>8. CASE AddFails(p)
  <2>1. job[p].cmd = "add" /\ (Becomes(p, job[p].after) \/ Becomes(p, Over))
    BY <1>8 DEF AddFails
  <2> QED BY <1>1, <1>2, <2>1 DEF Over
<1>9. CASE PromoteLoad(p) \/ PromoteRead(p) \/ PromoteConfirm(p) \/ PromoteUnstage(p)
           \/ PromoteFails(p)
  BY <1>9, PromoteTurns DEF Turns
<1> QED BY <1>4, <1>5, <1>6, <1>7, <1>8, <1>9 DEF LibraryStep

\* A gate's step keeps to where it was called from.
LEMMA GateOnward ==
  ASSUME ShapeInv, LibraryData, VerifyData, NEW p \in Procs, VerifyStep(p), InCall(p)'
  PROVE  /\ InCall(p)
         /\ job'[p].cmd = "verify" =>
              \/ VerifyMkdir(p) /\ job'[p].dir = now
              \/ job[p].pc # "mkdir" /\ job'[p].dir = job[p].dir
         /\ job'[p].cmd = "call" /\ job'[p].exit # 1 =>
              VerifyReport(p) /\ job'[p].dir = job[p].dir
<1>1. \A j : Becomes(p, j) => job'[p] = j
  BY DEF Becomes, ShapeInv
<1>2. job[p].cmd = "verify" /\ VerifyShape(job[p])
  BY VerifyTurns DEF ShapeInv, Shape
<1>3. ASSUME NEW via \in {"cli", "mcp"}, NEW dir, NEW exit, Returns(p, via, dir, exit)
      PROVE  /\ via = "mcp" /\ job'[p].cmd = "call"
             /\ job'[p].dir = dir /\ job'[p].exit = exit
  <2>1. CASE via = "cli"
    <3>1. job'[p].cmd = "exited"
      BY <1>1, <1>3, <2>1 DEF Returns, Exited
    <3> QED BY <3>1 DEF InCall
  <2>2. CASE via = "mcp"
    BY <1>1, <1>3, <2>2 DEF Returns
  <2> QED BY <2>1, <2>2
<1>4. CASE VerifyMkdir(p)
  <2> DEFINE empty == [cmd |-> "verify", pc |-> "report", via |-> job[p].via,
                       dir |-> now, exit |-> 0, blanks |-> {}, lower |-> {},
                       shared |-> FALSE, violated |-> FALSE]
             gather == [cmd |-> "verify", pc |-> "gather", via |-> job[p].via,
                        dir |-> now, source |-> job[p].source,
                        promote |-> job[p].promote]
  <2>1. job'[p] = empty \/ job'[p] = gather
    BY <1>1, <1>4 DEF VerifyMkdir
  <2>2. job'[p].cmd = "verify" /\ job'[p].via = job[p].via /\ job'[p].dir = now
    BY <2>1
  <2> QED BY <1>2, <1>4, <2>2 DEF InCall
<1>5. CASE VerifyGather(p)
  <2>1. /\ job'[p].cmd = "verify" /\ job'[p].via = job[p].via
        /\ job'[p].dir = job[p].dir /\ job[p].pc # "mkdir"
    BY <1>1, <1>5 DEF VerifyGather, At
  <2> QED BY <1>2, <2>1 DEF InCall
<1>6. CASE VerifyEvaluate(p)
  <2> DEFINE done(o) == [cmd |-> "verify", pc |-> "report", via |-> job[p].via,
                         dir |-> job[p].dir, exit |-> o.exit, blanks |-> o.blanks,
                         lower |-> o.lower, shared |-> o.shared, violated |-> o.violated]
  <2>1. PICK o : \/ job'[p] = done(o)
                 \/ job'[p] = Adding("verify", Labelled(job[p].samples, o.verdicts),
                                     "staging", done(o))
    BY <1>1, <1>6 DEF VerifyEvaluate
  <2>2. job'[p].cmd # "add"
    BY DEF InCall
  <2>3. job'[p] = done(o)
    BY <2>1, <2>2 DEF Adding
  <2>4. /\ job'[p].cmd = "verify" /\ job'[p].via = job[p].via
        /\ job'[p].dir = job[p].dir
    BY <2>3
  <2>5. job[p].pc # "mkdir"
    BY <1>6 DEF VerifyEvaluate, At
  <2> QED BY <1>2, <2>4, <2>5 DEF InCall
<1>7. CASE VerifyReport(p)
  <2>1. PICK exit : Returns(p, job[p].via, job[p].dir, exit)
    BY <1>7 DEF VerifyReport
  <2>2. job[p].via = "mcp" /\ job'[p].cmd = "call" /\ job'[p].dir = job[p].dir
    BY <1>2, <1>3, <2>1 DEF VerifyShape
  <2> QED BY <1>2, <1>7, <2>2 DEF InCall
<1>8. CASE VerifyFails(p)
  <2>1. Returns(p, job[p].via, job[p].dir, 1)
    BY <1>8 DEF VerifyFails
  <2>2. job[p].via = "mcp" /\ job'[p].cmd = "call" /\ job'[p].exit = 1
    BY <1>2, <1>3, <2>1 DEF VerifyShape
  <2> QED BY <1>2, <2>2 DEF InCall
<1> QED BY <1>4, <1>5, <1>6, <1>7, <1>8 DEF VerifyStep

\* Who is in a call was, or has been let in by the session, which was free.
LEMMA Calling ==
  ASSUME ShapeInv, DataInv, NEW p \in Procs, Acts(p), InCall(p)'
  PROVE  \/ /\ ~ Busy
            /\ job'[p].cmd = "verify" => job'[p].pc = "mkdir"
            /\ job'[p].cmd = "call" => job'[p].exit = 1
         \/ /\ InCall(p)
            /\ job'[p].cmd = "verify" =>
                 \/ VerifyMkdir(p) /\ job'[p].dir = now
                 \/ job[p].cmd = "verify" /\ job[p].pc # "mkdir" /\ job'[p].dir = job[p].dir
            /\ job'[p].cmd = "call" /\ job'[p].exit # 1 =>
                 VerifyReport(p) /\ job'[p].dir = job[p].dir
<1>1. AdoptionData /\ LibraryData /\ VerifyData /\ PoolData /\ SettingsData
  BY DEF DataInv
<1>2. job'[p].cmd \in {"verify", "call", "run", "optimized"} /\ job'[p].via = "mcp"
  BY DEF InCall
<1>3. ~ Adoption(p)
  <2>1. Adoption(p) => Turns(p, {"rollback", "over"})
    BY <1>1, AdoptionTurns DEF Adoption
  <2> QED BY <1>2, <2>1 DEF Turns
<1>4. ~ Library(p)
  BY <1>1, <1>2, LibraryOutside DEF Library
<1>5. ~ Setting(p)
  <2>1. Setting(p) => Turns(p, {"ran", "verified", "edit", "init", "over"})
    BY <1>1, SettingTurns DEF Setting
  <2> QED BY <1>2, <2>1 DEF Turns
<1>6. ~ Die(p)
  <2>1. Die(p) => Turns(p, {"over"})
    BY <1>1, DieTurns
  <2> QED BY <1>2, <2>1 DEF Turns
<1>7. CASE VerifyLoad(p, "cli")
  <2>1. PICK source, promote :
          \/ Becomes(p, [cmd |-> "verify", pc |-> "mkdir", via |-> "cli",
                         source |-> source, promote |-> promote,
                         delivered |-> IF adopted = Nobody THEN Best ELSE adopted])
          \/ Becomes(p, Exited(1))
    BY <1>7 DEF VerifyLoad, Returns
  <2>2. job'[p].cmd = "exited" \/ job'[p].via = "cli"
    BY <2>1 DEF Becomes, ShapeInv, Exited
  <2> QED BY <1>2, <2>2
<1>8. CASE VerifyStep(p)
  <2>1. job[p].cmd = "verify"
    BY <1>1, <1>8, VerifyTurns
  <2> QED BY <1>1, <1>8, <2>1, GateOnward
<1>9. CASE RunStart(p, "cli")
  BY <1>1, <1>2, <1>9, RunStartTurns
<1>10. CASE RunStep(p)
  <2>1. job[p].cmd = "run" /\ Turns(p, {"run", "over", "optimized"})
    BY <1>1, <1>10, RunTurns
  <2>2. job[p].via = "mcp"
    <3>1. CASE job'[p].cmd = "run"
      <4>1. CASE PoolCompare(p) \/ PoolAppend(p)
        BY <1>2, <4>1 DEF PoolCompare, PoolAppend, Becomes, ShapeInv
      <4>2. CASE FinishRun(p) \/ RunFails(p)
        BY <2>1, <3>1, <4>2, RunEnds DEF FinishRun, RunFails, Turns
      <4> QED BY <1>10, <4>1, <4>2 DEF RunStep
    <3>2. CASE job'[p].cmd # "run"
      <4>1. CASE PoolCompare(p) \/ PoolAppend(p)
        BY <3>2, <4>1 DEF PoolCompare, PoolAppend, Becomes, ShapeInv
      <4>2. CASE FinishRun(p) \/ RunFails(p)
        <5>1. PICK exit : RunReturns(p, exit)
          BY <4>2 DEF FinishRun, RunFails
        <5>2. job[p].via = "cli" => job'[p].cmd = "over"
          BY <5>1 DEF RunReturns, Becomes, ShapeInv, Over
        <5> QED BY <1>2, <2>1, <5>2 DEF ShapeInv, Shape, RunShape
      <4> QED BY <1>10, <4>1, <4>2 DEF RunStep
    <3> QED BY <3>1, <3>2
  <2> QED BY <1>2, <2>1, <2>2 DEF InCall, Turns
<1>11. CASE Session(p)
  <2>1. CASE ToolCall(p)
    <3>1. ~ Busy /\ (VerifyLoad(p, "mcp") \/ RunStart(p, "mcp"))
      BY <2>1 DEF ToolCall
    <3>2. CASE VerifyLoad(p, "mcp")
      <4>1. job'[p].cmd = "verify" => job'[p].pc = "mkdir"
        BY <3>2, VerifyLoadTurns
      <4>2. PICK source, promote :
              \/ Becomes(p, [cmd |-> "verify", pc |-> "mkdir", via |-> "mcp",
                             source |-> source, promote |-> promote,
                             delivered |-> IF adopted = Nobody THEN Best ELSE adopted])
              \/ Returns(p, "mcp", 0, 1)
        BY <3>2, Zenon DEF VerifyLoad
      <4>3. Returns(p, "mcp", 0, 1) =>
              Becomes(p, [cmd |-> "call", via |-> "mcp", dir |-> 0, exit |-> 1])
        BY DEF Returns
      <4>4. job'[p].cmd = "call" => job'[p].exit = 1
        BY <4>2, <4>3 DEF Becomes, ShapeInv
      <4> QED BY <3>1, <4>1, <4>4
    <3>3. CASE RunStart(p, "mcp")
      BY <1>1, <3>1, <3>3, RunStartTurns DEF Turns
    <3> QED BY <3>1, <3>2, <3>3
  <2>2. CASE VerifyAnswer(p) \/ OptimizeAnswer(p) \/ Panic(p)
    <3>1. \E a : Answer(p, a)
      BY <2>2 DEF VerifyAnswer, OptimizeAnswer, Panic
    <3>2. Turns(p, {"over"})
      BY <3>1, Answered
    <3> QED BY <1>2, <3>2 DEF Turns
  <2> QED BY <1>11, <2>1, <2>2 DEF Session, McpStep
<1> QED BY <1>3, <1>4, <1>5, <1>6, <1>7, <1>8, <1>9, <1>10, <1>11 DEF Acts, Gate, Run

\* What a step leaves of the session's reports.
LEMMA Making ==
  ASSUME ShapeInv, DataInv, NEW p \in Procs, Acts(p), NEW d \in 1 .. MaxSeconds, Made(d)'
  PROVE  \/ Made(d) /\ reports'[d] = reports[d]
         \/ /\ InCall(p) /\ job[p].cmd = "verify" /\ job[p].pc # "mkdir"
            /\ d = job[p].dir /\ reports'[d].by = p
<1>1. CASE reports'[d] = reports[d]
  BY <1>1 DEF Made
<1>2. CASE reports'[d] # reports[d]
  <2>1. /\ job[p].cmd = "verify" /\ job[p].pc = "report" /\ d = job[p].dir
        /\ reports'[d] = Report(p, job[p].via, job[p].exit)
    BY <1>2, Reporting DEF Made
  <2>2. reports'[d].by = p /\ reports'[d].via = job[p].via
    BY <2>1 DEF Report
  <2> QED BY <2>1, <2>2 DEF Made, InCall
<1> QED BY <1>1, <1>2

\* The newest directory is no older than any other.
LEMMA NewestFacts ==
  ASSUME VerifyData, Dirs # {}
  PROVE  /\ NewestDir \in 1 .. MaxSeconds /\ reports[NewestDir] # NoDir
         /\ \A d \in Dirs : d <= NewestDir
<1>1. MaxSeconds \in Nat /\ Dirs \in SUBSET (1 .. MaxSeconds)
  BY WorkspaceAssumption DEF Dirs, VerifyData
<1>2. Max(Dirs) \in Dirs /\ \A d \in Dirs : d <= Max(Dirs)
  BY <1>1, LastPosition
<1> QED BY <1>1, <1>2 DEF NewestDir, Dirs

\* What an answer says of a report is what its caller knew.
LEMMA Answering ==
  ASSUME ShapeInv, DataInv, GateInv, SessionInv, NEW p \in Procs, McpStep(p),
         NEW q \in Procs, answers'[q] # answers[q], answers'[q].kind = "verify",
         ~ answers'[q].isError, answers'[q].via = "mcp"
  PROVE  answers'[q].by = q /\ answers'[q].exit # 1
<1>1. DOMAIN answers = Procs /\ VerifyData
  BY DEF DataInv
<1>2. ~ UNCHANGED answers
  OBVIOUS
<1>3. CASE ToolCall(p)
  BY <1>2, <1>3 DEF ToolCall
<1>4. CASE Panic(p)
  <2>1. answers'[q] \in {answers[q], Failure}
    BY <1>1, <1>4 DEF Panic, Answer
  <2> QED BY <2>1 DEF Failure
<1>5. CASE OptimizeAnswer(p)
  <2>1. answers'[q] \in {answers[q], Failure,
                         Payload("optimize", p, "mcp", job[p].exit, job[p].exit = 1)}
    BY <1>1, <1>5 DEF OptimizeAnswer, Answer
  <2> QED BY <2>1 DEF Failure, Payload
<1>6. CASE VerifyAnswer(p)
  <2> DEFINE newest == reports[NewestDir]
             a == Payload("verify", newest.by, newest.via, newest.exit, job[p].exit = 1)
  <2>1. /\ job[p].cmd = "call"
        /\ \/ Answer(p, Failure)
           \/ Dirs # {} /\ newest # EmptyDir /\ Answer(p, a)
    BY <1>6 DEF VerifyAnswer
  <2>2. Failure.kind # "verify"
    BY DEF Failure
  <2>3. /\ a.by = newest.by /\ a.via = newest.via /\ a.exit = newest.exit
        /\ a.isError = (job[p].exit = 1)
    BY DEF Payload
  <2> HIDE DEF a, newest
  <2>4. /\ q = p /\ answers'[q] = a /\ Dirs # {} /\ newest # EmptyDir
    BY <1>1, <2>1, <2>2 DEF Answer
  <2>5. job[p].exit # 1 /\ newest.via = "mcp"
    BY <2>3, <2>4
  <2>6. NewestDir \in 1 .. MaxSeconds /\ newest.is = "report" /\ Made(NewestDir)
    BY <1>1, <2>4, <2>5, NewestFacts, ReportKinds DEF newest, Made
  <2>7. /\ job[p].dir \in 1 .. MaxSeconds /\ reports[job[p].dir] # NoDir
        /\ \A d \in 1 .. MaxSeconds : d >= job[p].dir /\ Made(d) => reports[d].by = p
    BY <2>1, <2>5 DEF SessionInv
  <2>8. job[p].dir \in Dirs
    BY <1>1, <2>7 DEF Dirs, VerifyData
  <2>9. NewestDir >= job[p].dir
    BY <1>1, <2>4, <2>6, <2>7, <2>8, NewestFacts
  <2>10. newest.by = p
    BY <2>6, <2>7, <2>9 DEF newest
  <2>11. Reporter(job[p], newest.exit)
    BY <2>6, <2>10 DEF GateInv, newest
  <2> QED BY <2>1, <2>3, <2>4, <2>5, <2>10, <2>11 DEF Reporter
<1> QED BY <1>3, <1>4, <1>5, <1>6 DEF McpStep

LEMMA SessionKeeps ==
  ASSUME ShapeInv, DataInv, GateInv, SessionInv, [Next]_vars
  PROVE  SessionInv'
<1>1. VerifyData /\ VerifyData' /\ DOMAIN answers = Procs /\ MaxSeconds \in Nat
  BY TypedKeeps, WorkspaceAssumption DEF DataInv
<1>2. ASSUME NEW p \in Procs, Acts(p)
      PROVE  SessionInv'
  <2>1. PICK cmds : Turns(p, cmds)
    BY <1>2, Onward
  <2>2. now' = now
    BY <1>2, ReportWrites
  <2>3. \A q \in Procs \ {p} : job'[q] = job[q] /\ (InCall(q)' <=> InCall(q))
    BY <2>1 DEF Turns, InCall
  <2>4. ASSUME NEW q \in Procs, NEW r \in Procs, InCall(q)', InCall(r)'
        PROVE  q = r
    <3>1. ~ Busy => \A s \in Procs \ {p} : ~ InCall(s)'
      BY <2>3 DEF Busy
    <3>2. InCall(p)' => ~ Busy \/ InCall(p)
      BY <1>2, Calling
    <3> QED BY <2>3, <2>4, <3>1, <3>2 DEF SessionInv
  <2>5. ASSUME NEW d \in 1 .. MaxSeconds, d > now
        PROVE  ~ Made(d)'
    <3>1. ~ Made(d)
      BY <2>5 DEF SessionInv
    <3>2. InCall(p) /\ job[p].cmd = "verify" /\ job[p].pc # "mkdir" => job[p].dir <= now
      BY DEF SessionInv
    <3>3. now \in Nat /\ d \in Nat
      BY <1>1 DEF VerifyData
    <3> QED BY <1>2, <2>5, <3>1, <3>2, <3>3, Making
  <2>6. ASSUME NEW q \in Procs, InCall(q)', job'[q].cmd = "verify", job'[q].pc # "mkdir"
        PROVE  /\ job'[q].dir <= now
               /\ \A d \in 1 .. MaxSeconds : d > job'[q].dir => ~ Made(d)'
    <3>1. CASE q # p
      <4>1. /\ job'[q] = job[q] /\ InCall(q) /\ ~ InCall(p)
        BY <2>3, <2>6, <3>1 DEF SessionInv
      <4>2. /\ job[q].dir <= now
            /\ \A d \in 1 .. MaxSeconds : d > job[q].dir => ~ Made(d)
        BY <2>6, <4>1 DEF SessionInv
      <4> QED BY <1>2, <4>1, <4>2, Making
    <3>2. CASE q = p
      <4>1. /\ InCall(p)
            /\ \/ job'[p].dir = now
               \/ job[p].cmd = "verify" /\ job[p].pc # "mkdir" /\ job'[p].dir = job[p].dir
        BY <1>2, <2>6, <3>2, Calling
      <4>2. CASE job'[p].dir = now
        <5>1. now \in Nat
          BY <1>1 DEF VerifyData
        <5> QED BY <2>5, <3>2, <4>2, <5>1
      <4>3. CASE job[p].cmd = "verify" /\ job[p].pc # "mkdir" /\ job'[p].dir = job[p].dir
        <5>1. /\ job[p].dir <= now /\ job[p].dir \in 1 .. MaxSeconds
              /\ \A d \in 1 .. MaxSeconds : d > job[p].dir => ~ Made(d)
          BY <4>1, <4>3 DEF SessionInv, ShapeInv, Shape, VerifyShape
        <5> QED BY <1>2, <3>2, <4>3, <5>1, Making
      <4> QED BY <4>1, <4>2, <4>3
    <3> QED BY <3>1, <3>2
  <2>7. ASSUME NEW q \in Procs, job'[q].cmd = "call", job'[q].exit # 1
        PROVE  /\ job'[q].dir \in 1 .. MaxSeconds /\ reports'[job'[q].dir] # NoDir
               /\ \A d \in 1 .. MaxSeconds :
                    d >= job'[q].dir /\ Made(d)' => reports'[d].by = q
    <3>1. ShapeInv'
      BY <2>1, Shaped
    <3>2. InCall(q)'
      BY <2>7, <3>1 DEF InCall, ShapeInv, Shape
    <3>3. CASE q # p
      <4>1. job'[q] = job[q] /\ InCall(q) /\ ~ InCall(p)
        BY <2>3, <3>2, <3>3 DEF SessionInv
      <4>2. /\ job[q].dir \in 1 .. MaxSeconds /\ reports[job[q].dir] # NoDir
            /\ \A d \in 1 .. MaxSeconds : d >= job[q].dir /\ Made(d) => reports[d].by = q
        BY <2>7, <4>1 DEF SessionInv
      <4>3. reports'[job[q].dir] # NoDir
        BY <1>2, <4>2, DirsStay
      <4> QED BY <1>2, <4>1, <4>2, <4>3, Making
    <3>4. CASE q = p
      <4>1. InCall(p) /\ VerifyReport(p) /\ job'[p].dir = job[p].dir
        BY <1>2, <2>7, <3>2, <3>4, Calling
      <4>2. job[p].cmd = "verify" /\ job[p].pc = "report"
        BY <4>1 DEF VerifyReport, At
      <4>3. /\ job[p].dir \in 1 .. MaxSeconds
            /\ \A d \in 1 .. MaxSeconds : d > job[p].dir => ~ Made(d)
        BY <4>1, <4>2 DEF SessionInv, ShapeInv, Shape, VerifyShape
      <4>4. reports'[job[p].dir] = Report(p, job[p].via, job[p].exit)
        BY <1>1, <4>1, <4>3 DEF VerifyReport, VerifyData
      <4>5. reports'[job[p].dir] # NoDir /\ reports'[job[p].dir].by = p
        BY <4>4 DEF Report, NoDir
      <4>6. ASSUME NEW d \in 1 .. MaxSeconds, d >= job[p].dir, Made(d)'
            PROVE  reports'[d].by = p
        BY <1>2, <4>3, <4>5, <4>6, Making
      <4> QED BY <3>4, <4>1, <4>3, <4>5, <4>6
    <3> QED BY <3>3, <3>4
  <2>8. ASSUME NEW q \in Procs, answers'[q].kind = "verify", ~ answers'[q].isError,
               answers'[q].via = "mcp"
        PROVE  answers'[q].by = q /\ answers'[q].exit # 1
    <3>1. CASE answers'[q] = answers[q]
      BY <2>8, <3>1 DEF SessionInv
    <3>2. CASE answers'[q] # answers[q]
      <4>1. McpStep(p)
        BY <1>2, <3>2 DEF Acts, Adoption, Library, Gate, Run, Session, Setting, Die
      <4> QED BY <2>8, <3>2, <4>1, Answering
    <3> QED BY <3>1, <3>2
  <2> QED BY <2>2, <2>4, <2>5, <2>6, <2>7, <2>8 DEF SessionInv
<1>3. CASE job' = job /\ reports' = reports /\ now' \in {now, now + 1} /\ UNCHANGED answers
  <2>1. now \in Nat /\ now' >= now /\ now' \in Nat
    BY <1>1, <1>3 DEF VerifyData
  <2>2. /\ \A p \in Procs : InCall(p)' <=> InCall(p)
        /\ \A d \in 1 .. MaxSeconds : Made(d)' <=> Made(d)
    BY <1>3 DEF InCall, Made
  <2>3. \A d \in 1 .. MaxSeconds : d > now' => d > now
    BY <2>1
  <2>4. \A p \in Procs : InCall(p) /\ job[p].cmd = "verify" /\ job[p].pc # "mkdir" =>
          job[p].dir <= now'
    BY <2>1 DEF SessionInv, ShapeInv, Shape, VerifyShape
  <2> QED BY <1>3, <2>2, <2>3, <2>4 DEF SessionInv
<1> QED BY <1>2, <1>3, StepKinds DEF Acts
-----------------------------------------------------------------------------
(* The pool. *)

\* Records that decode keep their places, and a new one is the line added.
LEMMA RecordsKept ==
  ASSUME NEW S, Torn \in S, Garbled \in S, NEW k \in Seq(S), NEW line \in S,
         NEW l \in {Journalled(k, line), CutIn(k)}
  PROVE  /\ \A i \in DOMAIN k : Decodes(k[i]) => i \in DOMAIN l /\ l[i] = k[i]
         /\ \A i \in DOMAIN l : Decodes(l[i]) =>
              \/ i \in DOMAIN k /\ l[i] = k[i]
              \/ i = Len(k) + 1 /\ l[i] = line
         /\ DOMAIN k = 1 .. Len(k) /\ Len(k) \in Nat
<1>1. \/ l = k \/ l = Append(k, line) \/ l = Append(k, Torn)
      \/ \E f \in Seq(S) : k = Append(f, Torn) /\ l = Append(f, Garbled)
  BY Journalling, CuttingIn
<1>2. DOMAIN k = 1 .. Len(k) /\ Len(k) \in Nat
  OBVIOUS
<1>3. CASE l = k
  BY <1>2, <1>3
<1>4. CASE l = Append(k, line)
  <2>1. /\ DOMAIN l = 1 .. Len(k) + 1 /\ l[Len(k) + 1] = line
        /\ \A i \in 1 .. Len(k) : l[i] = k[i]
    BY <1>4
  <2> QED BY <1>2, <2>1
<1>5. CASE l = Append(k, Torn)
  BY <1>5 DEF Decodes
<1>6. CASE \E f \in Seq(S) : k = Append(f, Torn) /\ l = Append(f, Garbled)
  <2>1. PICK f \in Seq(S) : k = Append(f, Torn) /\ l = Append(f, Garbled)
    BY <1>6
  <2> QED BY <2>1 DEF Decodes
<1> QED BY <1>1, <1>3, <1>4, <1>5, <1>6

\* The best of a pool that can be read is one of its records.
LEMMA BestFacts ==
  ASSUME PoolData, ~ Broken(pool), pool # <<>>
  PROVE  \E i \in DOMAIN pool : pool[i] = BestOf(pool) /\ pool[i] \in Records
<1> DEFINE n == Len(pool)
           Highest(i, m) == \A j \in 1 .. m : pool[j].mean <= pool[i].mean
           Found(m) == \E i \in 1 .. m : Highest(i, m)
           Good == {m \in Nat : m + 1 <= n => Found(m + 1)}
           best == {i \in DOMAIN pool : \A j \in DOMAIN pool : pool[j].mean <= pool[i].mean}
<1>1. n \in Nat /\ DOMAIN pool = 1 .. n /\ n >= 1
  BY DEF PoolData
<1>2. ASSUME NEW i \in 1 .. n
      PROVE  pool[i] \in Records /\ pool[i].mean \in Int
  <2>1. pool[i] \in Records \cup {Torn, Garbled}
    BY <1>1 DEF PoolData
  <2>2. pool[i] \in Records
    BY <1>1, <2>1 DEF Broken
  <2> QED BY <2>2, WorkspaceAssumption DEF Records
<1>3. 0 \in Good
  <2>1. \A j \in 1 .. (0 + 1) : j = 1
    OBVIOUS
  <2>2. Highest(1, 0 + 1)
    BY <1>1, <1>2, <2>1
  <2> QED BY <2>2
<1>4. ASSUME NEW m \in Good PROVE m + 1 \in Good
  <2> HIDE DEF Found
  <2> SUFFICES ASSUME (m + 1) + 1 <= n
               PROVE  Found((m + 1) + 1)
    OBVIOUS
  <2>1. m \in Nat /\ m + 2 \in 1 .. n /\ Found(m + 1)
    BY <1>1
  <2> USE DEF Found
  <2>2. PICK i \in 1 .. (m + 1) : Highest(i, m + 1)
    BY <2>1
  <2>3. i \in 1 .. n
    BY <1>1, <2>1
  <2>4. \A j \in 1 .. ((m + 1) + 1) : j \in 1 .. n /\ (j \in 1 .. (m + 1) \/ j = m + 2)
    BY <2>1
  <2>5. CASE pool[m + 2].mean <= pool[i].mean
    BY <2>1, <2>2, <2>4, <2>5
  <2>6. CASE pool[i].mean < pool[m + 2].mean
    <3>1. Highest(m + 2, (m + 1) + 1)
      <4>1. ASSUME NEW j \in 1 .. ((m + 1) + 1)
            PROVE  pool[j].mean <= pool[m + 2].mean
        <5>1. /\ pool[j].mean \in Int /\ pool[i].mean \in Int /\ pool[m + 2].mean \in Int
              /\ j \in 1 .. (m + 1) \/ j = m + 2
          BY <1>2, <2>1, <2>3, <2>4
        <5>2. j \in 1 .. (m + 1) => pool[j].mean <= pool[i].mean
          BY <2>2
        <5> QED BY <2>6, <5>1, <5>2
      <4> QED BY <4>1
    <3>2. m + 2 \in 1 .. ((m + 1) + 1)
      BY <2>1
    <3> QED BY <3>1, <3>2
  <2>7. pool[m + 2].mean \in Int /\ pool[i].mean \in Int
    BY <1>2, <2>1, <2>3
  <2>8. pool[m + 2].mean <= pool[i].mean \/ pool[i].mean < pool[m + 2].mean
    BY <2>7
  <2> QED BY <2>5, <2>6, <2>8
<1>5. Good \in SUBSET Nat
  OBVIOUS
<1>6. best \in SUBSET Nat
  BY <1>1
<1> HIDE DEF Good
<1>7. n - 1 \in Good
  <2>1. n - 1 \in Nat
    BY <1>1
  <2> QED BY <1>3, <1>4, <1>5, <2>1, NumberInduction
<1>8. best # {}
  <2>1. (n - 1) + 1 = n
    BY <1>1
  <2>2. PICK i \in 1 .. n : Highest(i, n)
    BY <1>7, <2>1 DEF Good
  <2> QED BY <1>1, <2>2
<1> HIDE DEF best
<1>9. \E i \in best : \A j \in best : i <= j
  BY <1>6, <1>8, LeastNumber
<1>10. Min(best) \in best
  BY <1>9 DEF Min
<1>11. BestOf(pool) = pool[Min(best)]
  BY DEF BestOf, best
<1> QED BY <1>1, <1>2, <1>10, <1>11 DEF best

\* A run that is to warn has a record above it.
Warns(j) ==
  j.pc = "append" /\ j.warns => \E i \in DOMAIN pool : Above(pool[i], j.mine)

LEMMA PoolStays ==
  ASSUME ShapeInv, DataInv, PoolInv, UNCHANGED <<pool, warned>>, NEW p \in Procs, Acts(p),
         job'[p].cmd = "run" /\ job'[p].pc # "finish"
           => job'[p].mine.run = p /\ Warns(job'[p])
  PROVE  PoolInv'
<1>1. PICK cmds : Turns(p, cmds)
  BY Onward
<1>2. \A q \in Procs : Joined(job[q]) => Joined(job'[q])
  BY <1>1, Onward DEF Turns
<1>3. ASSUME NEW q \in Procs, job'[q].cmd = "run", job'[q].pc # "finish"
      PROVE  /\ job'[q].mine.run = q
             /\ job'[q].pc = "append" /\ job'[q].warns =>
                  \E i \in DOMAIN pool' : Above(pool'[i], job'[q].mine)
  <2>1. CASE q = p
    BY <1>3, <2>1 DEF Warns
  <2>2. CASE q # p
    <3>1. job'[q] = job[q]
      BY <1>1, <2>2 DEF Turns
    <3> QED BY <1>3, <3>1 DEF PoolInv
  <2> QED BY <2>1, <2>2
<1>4. \A i \in DOMAIN pool : Decodes(pool[i]) => pool[i].run \in Procs
  BY DEF DataInv, PoolData, Records, Decodes
<1>5. warned \subseteq Procs
  BY DEF DataInv, PoolData
<1>6. \A i \in DOMAIN pool' : Decodes(pool'[i]) => Joined(job'[pool'[i].run])
  BY <1>2, <1>4 DEF PoolInv
<1>7. \A q \in warned' : Joined(job'[q])
  BY <1>2, <1>5 DEF PoolInv
<1>8. \A i \in DOMAIN pool' :
        Decodes(pool'[i]) /\ pool'[i].run \in warned' =>
          \E h \in 1 .. i - 1 : Above(pool'[h], pool'[i])
  BY DEF PoolInv
<1> QED BY <1>3, <1>6, <1>7, <1>8 DEF PoolInv

LEMMA PoolJoins ==
  ASSUME ShapeInv, DataInv, PoolInv, NEW p \in Procs, Run(p), PoolAppend(p)
  PROVE  PoolInv'
<1> DEFINE S == Records \cup {Torn, Garbled}
           mine == job[p].mine
<1>1. PoolData /\ DOMAIN job = Procs
  BY DEF DataInv, ShapeInv
<1>2. job[p].cmd = "run" /\ job[p].pc = "append"
  BY DEF PoolAppend, At
<1>3. mine \in Records /\ mine.run = p
  BY <1>2 DEF ShapeInv, Shape, RunShape, PoolInv
<1>4. job'[p].cmd = "run" /\ job'[p].pc = "finish"
  BY <1>1 DEF PoolAppend, Becomes
<1>5. Acts(p)
  BY DEF Acts
<1>6. PICK cmds : Turns(p, cmds)
  BY <1>5, Onward
<1>7. \A q \in Procs : Joined(job[q]) => Joined(job'[q])
  BY <1>5, <1>6, Onward DEF Turns
<1>8. ~ Joined(job[p]) /\ Joined(job'[p])
  BY <1>2, <1>4 DEF Joined
<1>9. /\ pool' \in {pool, Journalled(pool, mine), CutIn(pool)}
      /\ warned' \in {warned, IF job[p].warns THEN warned \cup {p} ELSE warned}
  BY DEF PoolAppend
<1>10. pool \in Seq(S) /\ Torn \in S /\ Garbled \in S /\ mine \in S
  BY <1>1, <1>3 DEF PoolData
<1>11. /\ \A i \in DOMAIN pool : Decodes(pool[i]) => i \in DOMAIN pool' /\ pool'[i] = pool[i]
       /\ \A i \in DOMAIN pool' : Decodes(pool'[i]) =>
            \/ i \in DOMAIN pool /\ pool'[i] = pool[i]
            \/ i = Len(pool) + 1 /\ pool'[i] = mine
       /\ DOMAIN pool = 1 .. Len(pool) /\ Len(pool) \in Nat
  <2> HIDE DEF S, mine
  <2>1. CASE pool' = pool
    BY <1>10, <2>1
  <2>2. CASE pool' \in {Journalled(pool, mine), CutIn(pool)}
    BY <1>10, <2>2, RecordsKept
  <2> QED BY <1>9, <2>1, <2>2
<1>12. \A i \in DOMAIN pool : Decodes(pool[i]) => pool[i].run \in Procs
  BY <1>1 DEF PoolData, Records, Decodes
<1>13. \A i \in DOMAIN pool : \A r : Above(pool[i], r) => i \in DOMAIN pool' /\ Above(pool'[i], r)
  BY <1>11 DEF Above
<1> HIDE DEF S, mine
<1>14. ASSUME NEW q \in Procs, job'[q].cmd = "run", job'[q].pc # "finish"
       PROVE  /\ job'[q].mine.run = q
              /\ job'[q].pc = "append" /\ job'[q].warns =>
                   \E i \in DOMAIN pool' : Above(pool'[i], job'[q].mine)
  <2>1. job'[q] = job[q]
    BY <1>4, <1>6, <1>14 DEF Turns
  <2>2. /\ job[q].mine.run = q
        /\ job[q].pc = "append" /\ job[q].warns =>
             \E i \in DOMAIN pool : Above(pool[i], job[q].mine)
    BY <1>14, <2>1 DEF PoolInv
  <2> QED BY <1>13, <2>1, <2>2
<1>15. ASSUME NEW i \in DOMAIN pool', Decodes(pool'[i])
       PROVE  Joined(job'[pool'[i].run])
  <2>1. CASE i \in DOMAIN pool /\ pool'[i] = pool[i]
    BY <1>7, <1>12, <1>15, <2>1 DEF PoolInv
  <2>2. CASE pool'[i] = mine
    BY <1>3, <1>8, <2>2
  <2> QED BY <1>11, <1>15, <2>1, <2>2
<1>16. warned \subseteq Procs /\ \A q \in warned : Joined(job[q])
  BY <1>1 DEF PoolData, PoolInv
<1>17. \A q \in warned' : Joined(job'[q])
  BY <1>7, <1>8, <1>9, <1>16
<1>18. ASSUME NEW i \in DOMAIN pool', Decodes(pool'[i]), pool'[i].run \in warned'
       PROVE  \E h \in 1 .. i - 1 : Above(pool'[h], pool'[i])
  <2>1. CASE i \in DOMAIN pool /\ pool'[i] = pool[i]
    <3>1. pool[i].run # p
      BY <1>8, <1>18, <2>1 DEF PoolInv
    <3>2. pool[i].run \in warned
      BY <1>9, <1>18, <2>1, <3>1
    <3>3. PICK h \in 1 .. i - 1 : Above(pool[h], pool[i])
      BY <1>18, <2>1, <3>2 DEF PoolInv
    <3>4. h \in DOMAIN pool
      BY <1>11, <2>1
    <3> QED BY <1>13, <2>1, <3>3, <3>4
  <2>2. CASE i = Len(pool) + 1 /\ pool'[i] = mine
    <3>1. p \notin warned
      BY <1>8, <1>16
    <3>2. job[p].warns
      BY <1>3, <1>9, <1>18, <2>2, <3>1
    <3>3. PICK h \in DOMAIN pool : Above(pool[h], mine)
      BY <1>2, <3>2 DEF PoolInv, mine
    <3>4. h \in 1 .. i - 1
      BY <1>11, <2>2
    <3> QED BY <1>13, <2>2, <3>3, <3>4
  <2> QED BY <1>11, <1>18, <2>1, <2>2
<1> QED BY <1>14, <1>15, <1>17, <1>18 DEF PoolInv

LEMMA PoolRuns ==
  ASSUME ShapeInv, DataInv, PoolInv, NEW p \in Procs, Run(p)
  PROVE  PoolInv'
<1>1. PoolData /\ DOMAIN job = Procs
  BY DEF DataInv, ShapeInv
<1>2. Acts(p)
  BY DEF Acts
<1>3. CASE RunStart(p, "cli")
  <2>1. /\ UNCHANGED <<pool, warned, summaries>>
        /\ job'[p].pc = "compare" /\ job'[p].mine.run = p
    BY <1>1, <1>3, RunStartTurns
  <2> QED BY <1>2, <2>1, PoolStays DEF Warns
<1>4. CASE PoolCompare(p)
  <2>1. PICK warns \in BOOLEAN :
          /\ warns => /\ ~ Broken(pool) /\ pool # <<>>
                      /\ MayWarn(job[p].mine, BestOf(pool))
          /\ Becomes(p, [cmd |-> "run", pc |-> "append", via |-> job[p].via,
                         mine |-> job[p].mine, warns |-> warns])
    BY <1>4 DEF PoolCompare
  <2>2. job[p].cmd = "run" /\ job[p].pc = "compare" /\ UNCHANGED <<pool, warned>>
    BY <1>4 DEF PoolCompare, At, poolVars
  <2>3. job[p].mine \in Records /\ job[p].mine.run = p
    BY <2>2 DEF ShapeInv, Shape, RunShape, PoolInv
  <2>4. job'[p].mine = job[p].mine /\ (job'[p].warns <=> warns)
    BY <1>1, <2>1 DEF Becomes
  <2>5. ASSUME warns
        PROVE  \E i \in DOMAIN pool : Above(pool[i], job[p].mine)
    <3>1. PICK i \in DOMAIN pool : pool[i] = BestOf(pool) /\ pool[i] \in Records
      BY <1>1, <2>1, <2>5, BestFacts
    <3>2. Decodes(pool[i])
      BY <2>1, <2>5 DEF Broken, Decodes
    <3>3. pool[i].run # p
      BY <2>2, <3>2 DEF PoolInv, Joined
    <3>4. pool[i].set = job[p].mine.set /\ pool[i].mean > job[p].mine.mean
      <4>1. pool[i].mean \in Int /\ job[p].mine.mean \in Int
        BY <2>3, <3>1, WorkspaceAssumption DEF Records
      <4> QED BY <2>1, <2>5, <3>1, <4>1 DEF MayWarn
    <3> QED BY <2>3, <3>2, <3>3, <3>4 DEF Above
  <2> QED BY <1>2, <2>2, <2>3, <2>4, <2>5, PoolStays DEF Warns
<1>5. CASE PoolAppend(p)
  BY <1>5, PoolJoins
<1>6. CASE FinishRun(p) \/ RunFails(p)
  <2>1. /\ job[p].cmd = "run" /\ UNCHANGED <<pool, warned>> /\ \E exit : RunReturns(p, exit)
    BY <1>6 DEF FinishRun, RunFails, At
  <2>2. Turns(p, {"over", "optimized"})
    BY <2>1, RunEnds
  <2> QED BY <1>2, <2>1, <2>2, PoolStays DEF Turns
<1> QED BY <1>3, <1>4, <1>5, <1>6 DEF Run, RunStep

LEMMA PoolKeeps ==
  ASSUME ShapeInv, DataInv, PoolInv, [Next]_vars
  PROVE  PoolInv'
<1>1. AdoptionData /\ LibraryData /\ VerifyData /\ PoolData /\ SettingsData
  BY DEF DataInv
<1>2. UNCHANGED poolVars => UNCHANGED <<pool, warned>>
  BY DEF poolVars
<1>3. ASSUME NEW p \in Procs, Adoption(p)
      PROVE  PoolInv'
  <2>1. Turns(p, {"rollback", "over"}) /\ Acts(p)
    BY <1>1, <1>3, AdoptionTurns DEF Adoption, Acts
  <2> QED BY <1>2, <1>3, <2>1, PoolStays DEF Adoption, Turns
<1>4. ASSUME NEW p \in Procs, Library(p)
      PROVE  PoolInv'
  <2>1. Turns(p, {"add", "promote", "over", "verify"}) /\ Acts(p)
    BY <1>1, <1>4, LibraryTurns DEF Library, Acts
  <2> QED BY <1>2, <1>4, <2>1, PoolStays DEF Library, Turns
<1>5. ASSUME NEW p \in Procs, Gate(p)
      PROVE  PoolInv'
  <2>1. Turns(p, {"verify", "exited", "call", "add"}) /\ Acts(p)
    BY <1>1, <1>5, GateTurns DEF Acts
  <2> QED BY <1>2, <1>5, <2>1, PoolStays DEF Gate, Turns
<1>6. ASSUME NEW p \in Procs, Run(p)
      PROVE  PoolInv'
  BY <1>6, PoolRuns
<1>7. ASSUME NEW p \in Procs, Session(p)
      PROVE  PoolInv'
  <2>1. McpStep(p) /\ Acts(p)
    BY <1>7 DEF Session, Acts
  <2>2. CASE RunStart(p, "mcp")
    <3>1. /\ UNCHANGED <<pool, warned, summaries>>
          /\ job'[p].pc = "compare" /\ job'[p].mine.run = p
      BY <1>1, <2>2, RunStartTurns
    <3> QED BY <2>1, <3>1, PoolStays DEF Warns
  <2>3. CASE VerifyLoad(p, "mcp") /\ UNCHANGED poolVars
    <3>1. Turns(p, {"verify", "exited", "call"})
      BY <2>3, VerifyLoadTurns
    <3> QED BY <1>2, <2>1, <2>3, <3>1, PoolStays DEF Turns
  <2>4. CASE VerifyAnswer(p) \/ OptimizeAnswer(p) \/ Panic(p)
    <3>1. UNCHANGED <<pool, warned>> /\ \E a : Answer(p, a)
      BY <2>4 DEF VerifyAnswer, OptimizeAnswer, Panic, poolVars
    <3>2. Turns(p, {"over"})
      BY <3>1, Answered
    <3> QED BY <2>1, <3>1, <3>2, PoolStays DEF Turns
  <2> QED BY <2>1, <2>2, <2>3, <2>4 DEF McpStep, ToolCall
<1>8. ASSUME NEW p \in Procs, Setting(p)
      PROVE  PoolInv'
  <2>1. Turns(p, {"ran", "verified", "edit", "init", "over"}) /\ Acts(p)
    BY <1>1, <1>8, SettingTurns DEF Setting, Acts
  <2> QED BY <1>2, <1>8, <2>1, PoolStays DEF Setting, Turns
<1>9. ASSUME NEW p \in Procs, Die(p)
      PROVE  PoolInv'
  <2>1. Turns(p, {"over"}) /\ Acts(p) /\ UNCHANGED <<pool, warned>>
    BY <1>1, <1>9, DieTurns DEF Die, Acts
  <2> QED BY <2>1, PoolStays DEF Turns
<1>10. CASE job' = job /\ UNCHANGED poolVars
  BY <1>2, <1>10 DEF PoolInv
<1> QED BY <1>3, <1>4, <1>5, <1>6, <1>7, <1>8, <1>9, <1>10, StepKinds

LEMMA EndedStarts ==
  ASSUME Init
  PROVE  EndorsedInv /\ GateInv /\ SessionInv /\ SinkInv /\ PoolInv
<1>1. PICK scene \in Scenes : Begun(scene)
  BY DEF Init
<1>2. \A p \in Procs : job[p].cmd \in {"none", "over"}
  BY <1>1 DEF Begun, Idle, Over
<1>3. Vouched(confirmed, endorsed)
  BY DEF Init, Vouched, Range
<1>4. EndorsedInv
  BY <1>2, <1>3 DEF EndorsedInv, At
<1>5. GateInv
  BY DEF Init, GateInv, NoDir
<1>6. SessionInv
  <2>1. \A d \in 1 .. MaxSeconds : ~ Made(d)
    BY DEF Init, Made, NoDir
  <2> QED BY <1>2, <2>1 DEF Init, SessionInv, InCall, Unanswered
<1>7. SinkInv
  BY DEF Init, SinkInv
<1>8. PoolInv
  BY <1>2 DEF Init, PoolInv
<1> QED BY <1>4, <1>5, <1>6, <1>7, <1>8

EndedInv ==
  /\ ShapeInv /\ DataInv /\ EndorsedInv
  /\ GateInv /\ SessionInv /\ SinkInv /\ PoolInv

\* Whatever processes do at the same time and wherever one is killed: a gate's
\* verdict has its evidence, and its report says what the command said; an answer
\* that is no error carries no failure and no other report of the session than
\* its call's, and no sink outlives its call; a run that warns has a better one
\* before it in the pool; and what gates have deposited is measured against only
\* once somebody has promoted it.
THEOREM EndsBackedHolds == Spec => []EndsBacked
<1>1. Init => EndedInv
  BY TypedStarts, EndedStarts DEF EndedInv
<1>2. EndedInv /\ [Next]_vars => EndedInv'
  BY TypedKeeps, EndorsedKeeps, GateInvKeeps, SessionKeeps, SinkKeeps, PoolKeeps DEF EndedInv
<1>3. EndedInv => EndsBacked
  <2> SUFFICES ASSUME EndedInv PROVE EndsBacked
    OBVIOUS
  <2>1. /\ ShapeInv /\ VerifyData /\ PoolData /\ EndorsedInv /\ GateInv
        /\ SessionInv /\ SinkInv /\ PoolInv
    BY DEF EndedInv, DataInv
  <2>2. ASSUME NEW p \in Procs, At(p, "verify", "report")
        PROVE  /\ job[p].exit \in {0, 3} => job[p].blanks = {}
               /\ job[p].exit = 3 /\ ~ job[p].violated =>
                    \E pair \in job[p].lower : pair[1] = pair[2] \/ job[p].shared
    BY <2>1, <2>2 DEF ShapeInv, Shape, VerifyShape, ReportShape, At
  <2>3. ASSUME NEW d \in Dirs, reports[d] # EmptyDir, job[reports[d].by].cmd = "exited"
        PROVE  job[reports[d].by].exit \in {reports[d].exit, 1}
    <3>1. d \in 1 .. MaxSeconds /\ reports[d] # NoDir
      BY <2>1 DEF Dirs, VerifyData
    <3>2. reports[d].is = "report"
      BY <2>1, <2>3, <3>1, ReportKinds
    <3> QED BY <2>1, <2>3, <3>1, <3>2 DEF GateInv, Reporter
  <2>4. GatesBacked
    BY <2>2, <2>3 DEF GatesBacked
  <2>5. ~ Busy => liveSinks = {}
    BY <2>1 DEF Busy, InCall, SinkInv, PoolData
  <2>6. AnswersBacked
    BY <2>1, <2>5 DEF AnswersBacked, SessionInv
  <2>7. WarningsBacked
    BY <2>1 DEF WarningsBacked, PoolInv, Decodes, Above
  <2>8. EndorsedByPeople
    BY <2>1 DEF EndorsedByPeople, EndorsedInv, Vouched
  <2> QED BY <2>4, <2>6, <2>7, <2>8 DEF EndsBacked
<1> QED BY <1>1, <1>2, <1>3, PTL DEF Spec

-----------------------------------------------------------------------------
(* The settings that are honoured. *)

\* A verify found a manifest, and a run is the only command that writes one, when
\* there is none: this is why what a verify read is still there.
ManifestRead == \A p \in Procs : job[p].cmd = "verified" => manifest # Blank

HonouredInv == ShapeInv /\ DataInv /\ ManifestRead /\ SettingsHonoured

\* A step of another command that leaves the environment and the manifest alone
\* does not disturb the invariant: what is honoured no longer depends on the files.
LEMMA Undisturbed ==
  ASSUME ManifestRead, SettingsHonoured, UNCHANGED <<env, manifest>>,
         NEW p \in Procs, NEW cmds, Turns(p, cmds),
         "ran" \notin cmds, "verified" \notin cmds
  PROVE  ManifestRead' /\ SettingsHonoured'
<1>1. \A q \in Procs : job'[q].cmd \in {"ran", "verified"} => job'[q] = job[q]
  BY DEF Turns
<1>2. env' = env /\ manifest' = manifest
  OBVIOUS
<1>3. \A k : FromEnv(k)' = FromEnv(k)
  BY <1>2 DEF FromEnv
<1>4. ManifestRead'
  BY <1>1, <1>2 DEF ManifestRead
<1>5. SettingsHonoured'
  <2>1. SUFFICES ASSUME NEW q \in Procs, job'[q].cmd \in {"ran", "verified"}
                 PROVE  job'[q] = job[q]
    BY <2>1, <1>2, <1>3 DEF SettingsHonoured
  <2> QED BY <1>1, <2>1
<1> QED BY <1>4, <1>5

\* A run is the first to write a manifest, so no verify has read one yet; and
\* what it notes of each key's source is what Resolve looked at.
LEMMA ConfiguredRunKeeps ==
  ASSUME HonouredInv, NEW p \in Procs, ConfiguredRun(p)
  PROVE  ManifestRead' /\ SettingsHonoured'
<1>1. /\ manifest = Blank /\ env' = env /\ DOMAIN job = Procs
      /\ ShapeInv /\ ManifestRead /\ SettingsHonoured
  BY Zenon DEF ConfiguredRun, HonouredInv, ShapeInv
<1>2. \A q \in Procs : job[q].cmd # "verified"
  BY <1>1 DEF ManifestRead
<1>3. \A k : FromEnv(k)' = FromEnv(k)
  BY <1>1 DEF FromEnv
<1>4. PICK flags \in Flags :
        \/ Ends(p) /\ UNCHANGED manifest
        \/ Becomes(p, [cmd |-> "ran", flags |-> flags, file |-> KeysOf(Hit),
                       conn |-> Resolve(flags, KeysOf(Hit)),
                       sources |-> [k \in Keys |-> SourceOf(flags, KeysOf(Hit), k)]])
  BY Zenon DEF ConfiguredRun
<1>5. CASE Ends(p) /\ UNCHANGED manifest
  <2>1. Turns(p, {"over"})
    BY <1>1, <1>5, OverShape, Turned DEF Ends
  <2> QED BY <1>1, <1>5, <2>1, Undisturbed
<1>6. CASE Becomes(p, [cmd |-> "ran", flags |-> flags, file |-> KeysOf(Hit),
                       conn |-> Resolve(flags, KeysOf(Hit)),
                       sources |-> [k \in Keys |-> SourceOf(flags, KeysOf(Hit), k)]])
  <2> DEFINE file == KeysOf(Hit)
             conn == Resolve(flags, file)
             sources == [k \in Keys |-> SourceOf(flags, file, k)]
  <2>1. /\ job'[p].cmd = "ran" /\ job'[p].flags = flags /\ job'[p].file = file
        /\ job'[p].conn = conn /\ job'[p].sources = sources
        /\ \A q \in Procs \ {p} : job'[q] = job[q]
    BY <1>1, <1>6 DEF Becomes
  <2>2. ManifestRead'
    BY <1>2, <2>1 DEF ManifestRead
  <2> HIDE DEF file, conn, sources
  <2>3. ASSUME NEW k \in Keys, k \in DOMAIN flags => Final(flags, k)
        PROVE  conn[k] = CASE sources[k] = "flag" -> flags[k]
                           [] sources[k] = "env" -> env[k]
                           [] sources[k] = "file" -> file[k]
                           [] OTHER -> Defaults[k]
    <3>1. conn[k] = IF Final(flags, k) THEN flags[k]
                    ELSE Or(FromEnv(k), Or(file[k], Defaults[k]))
      BY DEF conn, Resolve
    <3>2. sources[k] = SourceOf(flags, file, k)
      BY DEF sources
    <3> QED BY <2>3, <3>1, <3>2 DEF SourceOf, Final, Or, FromEnv, Unset
  <2>4. ASSUME NEW q \in Procs, job'[q].cmd = "ran", NEW k \in Keys,
               k \in DOMAIN job'[q].flags => Final(job'[q].flags, k)
        PROVE  job'[q].conn[k] = CASE job'[q].sources[k] = "flag" -> job'[q].flags[k]
                                   [] job'[q].sources[k] = "env" -> env'[k]
                                   [] job'[q].sources[k] = "file" -> job'[q].file[k]
                                   [] OTHER -> Defaults[k]
    <3>1. CASE q = p
      BY <1>1, <2>1, <2>3, <2>4, <3>1
    <3>2. CASE q # p
      BY <1>1, <2>1, <2>4, <3>2 DEF SettingsHonoured
    <3> QED BY <3>1, <3>2
  <2>5. \A q \in Procs : job'[q].cmd # "verified"
    BY <1>2, <2>1
  <2> QED BY <2>2, <2>4, <2>5 DEF SettingsHonoured
<1> QED BY <1>4, <1>5, <1>6

\* A verify reads the manifest of a run that is over, key by key before the file.
LEMMA ConfiguredVerifyKeeps ==
  ASSUME HonouredInv, NEW p \in Procs, ConfiguredVerify(p)
  PROVE  ManifestRead' /\ SettingsHonoured'
<1>1. /\ env' = env /\ manifest' = manifest /\ DOMAIN job = Procs
      /\ ShapeInv /\ ManifestRead /\ SettingsHonoured
  BY Zenon DEF ConfiguredVerify, settingsVars, HonouredInv, ShapeInv
<1>2. \A k : FromEnv(k)' = FromEnv(k)
  BY <1>1 DEF FromEnv
<1>3. PICK flags \in Flags :
        \/ Ends(p)
        \/ /\ manifest # Blank
           /\ Becomes(p, [cmd |-> "verified", flags |-> flags,
                          conn |-> VerifyConn(flags, KeysOf(Hit))])
  BY Zenon DEF ConfiguredVerify
<1>4. CASE Ends(p)
  <2>1. Turns(p, {"over"})
    BY <1>1, <1>4, OverShape, Turned DEF Ends
  <2> QED BY <1>1, <2>1, Undisturbed
<1>5. CASE /\ manifest # Blank
           /\ Becomes(p, [cmd |-> "verified", flags |-> flags,
                          conn |-> VerifyConn(flags, KeysOf(Hit))])
  <2> DEFINE file == KeysOf(Hit)
             conn == VerifyConn(flags, file)
  <2>1. /\ job'[p].cmd = "verified" /\ job'[p].flags = flags /\ job'[p].conn = conn
        /\ \A q \in Procs \ {p} : job'[q] = job[q]
    BY <1>1, <1>5 DEF Becomes
  <2>2. ManifestRead'
    BY <1>1, <1>5, <2>1 DEF ManifestRead, Blank
  <2> HIDE DEF file, conn
  <2>3. ASSUME NEW k \in Keys \ DOMAIN flags, FromEnv(k) = Unset,
               manifest[k] # Unset \/ k \notin Whitelist
        PROVE  conn[k] = Or(manifest[k], Defaults[k])
    <3>1. conn[k] = Reproduced(flags, file, k)
      BY DEF conn, VerifyConn
    <3> QED BY <2>3, <3>1 DEF Reproduced, Or
  <2>4. ASSUME NEW q \in Procs, job'[q].cmd = "verified",
               NEW k \in Keys \ DOMAIN job'[q].flags, FromEnv(k)' = Unset,
               manifest'[k] # Unset \/ k \notin Whitelist
        PROVE  job'[q].conn[k] = Or(manifest'[k], Defaults[k])
    <3>1. CASE q = p
      BY <1>1, <1>2, <2>1, <2>3, <2>4, <3>1
    <3>2. CASE q # p
      BY <1>1, <1>2, <2>1, <2>4, <3>2 DEF SettingsHonoured
    <3> QED BY <3>1, <3>2
  <2>5. \A q \in Procs : job'[q].cmd = "ran" => job'[q] = job[q]
    BY <2>1
  <2>6. SettingsHonoured'
    BY <1>1, <2>4, <2>5 DEF SettingsHonoured
  <2> QED BY <2>2, <2>6
<1> QED BY <1>3, <1>4, <1>5

LEMMA HonouredKeeps ==
  ASSUME HonouredInv, [Next]_vars
  PROVE  ManifestRead' /\ SettingsHonoured'
<1>1. /\ AdoptionData /\ LibraryData /\ VerifyData /\ PoolData /\ SettingsData
      /\ ShapeInv /\ ManifestRead /\ SettingsHonoured
  BY DEF HonouredInv, DataInv
<1>2. UNCHANGED settingsVars => UNCHANGED <<env, manifest>>
  BY DEF settingsVars
<1>3. ASSUME NEW p \in Procs, Adoption(p)
      PROVE  ManifestRead' /\ SettingsHonoured'
  <2>1. Turns(p, {"rollback", "over"})
    BY <1>1, <1>3, AdoptionTurns DEF Adoption
  <2> QED BY <1>1, <1>2, <1>3, <2>1, Undisturbed DEF Adoption
<1>4. ASSUME NEW p \in Procs, Library(p)
      PROVE  ManifestRead' /\ SettingsHonoured'
  <2>1. Turns(p, {"add", "promote", "over", "verify"})
    BY <1>1, <1>4, LibraryTurns DEF Library
  <2> QED BY <1>1, <1>2, <1>4, <2>1, Undisturbed DEF Library
<1>5. ASSUME NEW p \in Procs, Gate(p)
      PROVE  ManifestRead' /\ SettingsHonoured'
  <2>1. Turns(p, {"verify", "exited", "call", "add"})
    BY <1>1, <1>5, GateTurns
  <2> QED BY <1>1, <1>2, <1>5, <2>1, Undisturbed DEF Gate
<1>6. ASSUME NEW p \in Procs, Run(p)
      PROVE  ManifestRead' /\ SettingsHonoured'
  <2>1. Turns(p, {"run", "over", "optimized"})
    BY <1>1, <1>6, PoolTurns
  <2> QED BY <1>1, <1>2, <1>6, <2>1, Undisturbed DEF Run
<1>7. ASSUME NEW p \in Procs, Session(p)
      PROVE  ManifestRead' /\ SettingsHonoured'
  <2>1. Turns(p, {"verify", "exited", "call", "run", "over"})
    BY <1>1, <1>7, SessionTurns DEF Session
  <2> QED BY <1>1, <1>2, <1>7, <2>1, Undisturbed DEF Session
<1>8. ASSUME NEW p \in Procs, Setting(p)
      PROVE  ManifestRead' /\ SettingsHonoured'
  <2>1. CASE EditLoad(p) \/ EditRead(p) \/ EditRename(p)
    <3>1. Turns(p, {"edit", "over"}) /\ UNCHANGED <<env, manifest>>
      BY <1>1, <2>1, EditTurns
    <3> QED BY <1>1, <3>1, Undisturbed
  <2>2. CASE InitAsk(p) \/ InitCancel(p) \/ InitWrite(p)
    <3>1. Turns(p, {"init", "over"}) /\ UNCHANGED <<env, manifest>>
      BY <1>1, <2>2, InitTurns
    <3> QED BY <1>1, <3>1, Undisturbed
  <2> QED BY <1>8, <2>1, <2>2, ConfiguredRunKeeps, ConfiguredVerifyKeeps
          DEF Setting, SettingsStep
<1>9. ASSUME NEW p \in Procs, Die(p)
      PROVE  ManifestRead' /\ SettingsHonoured'
  <2>1. Turns(p, {"over"}) /\ UNCHANGED settingsVars
    BY <1>1, <1>9, DieTurns DEF Die
  <2> QED BY <1>1, <1>2, <2>1, Undisturbed
<1>10. CASE job' = job /\ UNCHANGED settingsVars
  <2>1. env' = env /\ manifest' = manifest /\ job' = job
    BY <1>2, <1>10
  <2>2. \A k : FromEnv(k)' = FromEnv(k)
    BY <2>1 DEF FromEnv
  <2> QED BY <1>1, <2>1, <2>2 DEF ManifestRead, SettingsHonoured
<1> QED BY <1>3, <1>4, <1>5, <1>6, <1>7, <1>8, <1>9, <1>10, StepKinds

\* verify.go:463-479, file.go:283-289: whatever is edited, run, adopted and
\* killed in between, verify uses what the run recorded before any file, and the
\* source a run names for a value is the one it came from.
THEOREM SettingsHold == Spec => []SettingsHonoured
<1>1. Init => HonouredInv
  <2> SUFFICES ASSUME Init PROVE HonouredInv
    OBVIOUS
  <2>1. PICK scene \in Scenes : Begun(scene)
    BY DEF Init
  <2>2. \A p \in Procs : job[p].cmd \in {"none", "over"}
    BY <2>1 DEF Begun, Idle, Over
  <2> QED BY <2>2, TypedStarts DEF HonouredInv, ManifestRead, SettingsHonoured
<1>2. HonouredInv /\ [Next]_vars => HonouredInv'
  BY TypedKeeps, HonouredKeeps DEF HonouredInv
<1>3. HonouredInv => SettingsHonoured
  BY DEF HonouredInv
<1> QED BY <1>1, <1>2, <1>3, PTL DEF Spec
=============================================================================
