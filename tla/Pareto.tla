------------------------------- MODULE Pareto -------------------------------
(***************************************************************************)
(* How the optimisers compare candidates (internal/engine/frontier.go and  *)
(* the margin of Loop.Admit in loop.go).                                   *)
(*                                                                         *)
(* A candidate is a record: a row gives its primary score on every cell (a *)
(* retained sample), sd the sample's standard deviation over repetitions,  *)
(* repeated whether the row carries deviations, rate the mean of the       *)
(* constraint metric.  Scores are integers: a common multiple of the       *)
(* program's fractions.  All rows have the same cells, so the order of two *)
(* means is the order of two sums.  The frontier is a set of candidates:   *)
(* nothing here depends on the order of admission, only on ids.            *)
(***************************************************************************)
EXTENDS Integers, FiniteSets, Functions

CONSTANTS Cells,        \* the retained samples
          Constrained,  \* does the task declare json_validator?
          FullRate      \* the constraint mean that reads as 1

ASSUME CellAssumption == IsFiniteSet(Cells) /\ Cells # {}
ASSUME ConstraintAssumption == Constrained \in BOOLEAN /\ FullRate \in Nat

Within(a, b, e) == \A c \in Cells : a[c] <= b[c] + e

Below(a, b) == \A c \in Cells : a[c] <= b[c]

Dominates(a, b) ==
  /\ Below(b, a)
  /\ \E c \in Cells : a[c] > b[c]

DominatesWithMargin(a, b, eps) ==
  /\ \A c \in Cells : a[c] >= b[c] + eps[c]
  /\ \E c \in Cells : a[c] > b[c] + eps[c]

\* No two scores differ by more than the widest margin of any cell.
IsEpsClone(a, b, eps) ==
  \A c \in Cells : \E d \in Cells :
    a[c] - b[c] <= eps[d] /\ b[c] - a[c] <= eps[d]

\* The margin of a pair is its larger deviation, cell by cell.
MarginOf(x, y) ==
  [c \in Cells |-> IF x.sd[c] > y.sd[c] THEN x.sd[c] ELSE y.sd[c]]

\* A pair has a margin when both rows were measured repeatedly; otherwise the
\* plain order decides.
BothRepeated(x, y) == x.repeated /\ y.repeated

Beats(x, y) ==
  IF BothRepeated(x, y) THEN DominatesWithMargin(x.row, y.row, MarginOf(x, y))
                        ELSE Dominates(x.row, y.row)

Same(x, y) ==
  IF BothRepeated(x, y) THEN IsEpsClone(x.row, y.row, MarginOf(x, y))
                        ELSE x.row = y.row

Refused(members, m) == \E cur \in members : Beats(cur, m) \/ Same(cur, m)

\* slip: the members that beat the newcomer are the ones to go
EvictedBackwards(members, m) == {cur \in members : Beats(cur, m)}

\* slip: one better cell is enough
EvictedOnAnyCell(members, m) ==
  {cur \in members : \E c \in Cells : m.row[c] > cur.row[c]}

Evicted(members, m) == {cur \in members : Beats(m, cur)}

AddedUnasked(members, m) ==                       \* slip: the refusal skipped
  (members \ Evicted(members, m)) \cup {m}

\* Frontier.AddNoiseAware; with rows measured once it is Frontier.Add.
AddNoiseAware(members, m) ==
  IF Refused(members, m) THEN members
                         ELSE (members \ Evicted(members, m)) \cup {m}

-----------------------------------------------------------------------------
(* The deliverable and the merge partner: both are the first member of a   *)
(* total order, ids last.                                                  *)

Sum(row) == SumFunction(row)

\* Is x before y when keys k (of x) and l (of y) are compared from the left,
\* larger first, and then the ids, smaller first?
Before(x, k, y, l) ==
  \/ \E i \in DOMAIN k : /\ k[i] > l[i]
                         /\ \A j \in 1 .. i - 1 : k[j] = l[j]
  \/ k = l /\ x.id < y.id

First(pool, key) ==
  CHOOSE x \in pool : \A y \in pool \ {x} : Before(x, key[x], y, key[y])

Satisfying(members) == {m \in members : m.rate >= FullRate}

\* Frontier.Best: the constraint filters when some member passes it, and
\* comes first when none does.
BestById(members) ==                              \* slip: the key is forgotten
  First(members, [m \in members |-> <<>>])

ByMean(members) == First(members, [m \in members |-> <<Sum(m.row)>>])

Best(members) ==
  IF ~ Constrained
  THEN ByMean(members)
  ELSE IF Satisfying(members) # {}
  THEN First(Satisfying(members), [m \in members |-> <<Sum(m.row), m.rate>>])
  ELSE First(members, [m \in members |-> <<m.rate, Sum(m.row)>>])

\* Is one candidate as good a deliverable as another, by constraint and then by
\* a mean that may fall short by some slack?
AtLeastAsGood(new, old, slack) ==
  IF Constrained /\ old.rate < FullRate
  THEN \/ new.rate > old.rate
       \/ new.rate = old.rate /\ Sum(old.row) <= Sum(new.row) + slack
  ELSE /\ Sum(old.row) <= Sum(new.row) + slack
       /\ Constrained => new.rate >= FullRate

\* The cells on which another member beats the parent, and the partner that
\* is best on them; the whole row when there are none.
Failing(members, parent) ==
  {c \in Cells : \E m \in members \ {parent} : m.row[c] > parent.row[c]}

Complement(members, parent) ==
  LET failing == Failing(members, parent)
      key == [m \in members |->
                IF failing = {}
                THEN <<Sum(m.row)>>
                ELSE <<SumFunctionOnSet(m.row, failing), Sum(m.row)>>]
  IN  First(members \ {parent}, key)

=============================================================================
