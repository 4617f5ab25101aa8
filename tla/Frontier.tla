------------------------------ MODULE Frontier ------------------------------
(***************************************************************************)
(* The Pareto frontier of a run: seeded with the baseline (NewLoop), then  *)
(* offered at most one fully evaluated child per round (Loop.Admit).       *)
(* Every row the samples and the repetitions can produce may be offered,   *)
(* in any order: how an optimiser arrives at a child is not restricted.    *)
(***************************************************************************)
EXTENDS Pareto

CONSTANTS Scores,       \* primary scores of a cell
          Deviations,   \* standard deviations of a cell
          Rates,        \* constraint means
          Shapes,       \* whether rows carry deviations: a set of Booleans
          MaxNoise,     \* no deviation is larger
          MaxChildren   \* bound on the children offered

ASSUME ScoreAssumption ==
  /\ Scores \subseteq Int
  /\ Deviations \subseteq 0 .. MaxNoise /\ 0 \in Deviations /\ MaxNoise \in Nat
  /\ Rates \subseteq 0 .. FullRate
  /\ Shapes \subseteq BOOLEAN
  /\ MaxChildren \in Nat

VARIABLES members,    \* Frontier.members
          count,      \* the id of the last child offered: its round
          (* history, read by the properties only *)
          offered,    \* every candidate ever offered, the baseline included
          admitted    \* those that were admitted at the time

vars == <<members, count, offered, admitted>>

\* What an evaluation can make of a candidate.
Candidate ==
  [id : 0 .. MaxChildren, row : [Cells -> Scores], sd : [Cells -> Deviations],
   repeated : Shapes, rate : Rates]

\* A row carries deviations when it was repeated and some sample of it was
\* scored; otherwise sd is nil, here a placeholder that no margin reads.
Measured(id) ==
  {m \in Candidate : m.id = id /\ (~ m.repeated => \A c \in Cells : m.sd[c] = 0)}

TypeOK ==
  /\ members \subseteq admitted
  /\ count \in 0 .. MaxChildren
  /\ offered \subseteq Candidate
  /\ admitted \subseteq offered

Init ==
  /\ count = 0
  /\ \E m \in Measured(0) : members = {m}
  /\ offered = members
  /\ admitted = members

Offer ==
  /\ count' \in count + 1 .. MaxChildren
  /\ \E m \in Measured(count') :
       /\ members' = AddNoiseAware(members, m)
       /\ offered' = offered \cup {m}
       /\ admitted' = IF Refused(members, m) THEN admitted
                                             ELSE admitted \cup {m}

Next == Offer

Spec == Init /\ [][Next]_vars

-----------------------------------------------------------------------------
(* Properties. *)

\* No member beats another beyond the noise of the two, and no two members
\* are within each other's noise: admission refuses one half of every such
\* pair and eviction removes the other, whichever came first.
PairwiseBeyondNoise ==
  \A x, y \in members : x # y => ~ Beats(x, y) /\ ~ Same(x, y)

\* Whatever was admitted once is still matched on every cell at once by a
\* single member, however many evictions, each beyond a different margin,
\* lie between them; and a candidate is turned away only for a member that is
\* as good on every cell up to the noise, below which the frontier never
\* falls back.
NoGroundLost ==
  \A a \in admitted : \E m \in members : Below(a.row, m.row)

RefusedWithinNoise ==
  \A o \in offered : \E m \in members :
    \A c \in Cells : o.row[c] <= m.row[c] + MaxNoise

GroundKept == NoGroundLost /\ RefusedWithinNoise

\* The frontier's purpose, as long as rows are measured once: it holds exactly
\* the maximal rows of everything ever offered, each of them once.
Maximal(S) == {x \in S : \A y \in S : ~ Dominates(y.row, x.row)}
Once == \A o \in offered : ~ o.repeated

FrontierIsPareto ==
  Once =>
  /\ {m.row : m \in members} = {x.row : x \in Maximal(offered)}
  /\ \A x, y \in members : x.row = y.row => x = y

\* Every member then improves on every other somewhere, so a merge partner
\* always brings something the parent lacks.
ComplementHelps ==
  \A p \in members :
    Once /\ members # {p} =>
      \E c \in Cells : Complement(members, p).row[c] > p.row[c]

ParetoWhenOnce == FrontierIsPareto /\ ComplementHelps

\* And the deliverable only gets better, by constraint and then by primary mean,
\* with the one exception the design allows: a newcomer that matches it on
\* every cell but meets the constraint less well pushes it out, because the
\* constraint stays out of dominance.
BestNeverRegresses ==
  [][\/ ~ Once'
     \/ AtLeastAsGood(Best(members'), Best(members), 0)
     \/ \E n \in members' \ members :
          /\ Constrained /\ n.rate < Best(members).rate
          /\ Below(Best(members).row, n.row)]_vars

=============================================================================
