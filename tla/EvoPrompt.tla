----------------------------- MODULE EvoPrompt ------------------------------
(***************************************************************************)
(* The evolutionary optimiser (internal/optimizers/evoprompt): a           *)
(* population is seeded from the baseline, then every generation plans two *)
(* births by tournament, breeds and evaluates them one after the other,    *)
(* and truncates.  A birth names its parents by their place in the         *)
(* population, which grows while the generation's births are carried out.  *)
(***************************************************************************)
EXTENDS Scaffold

CONSTANTS PopulationSize   \* populationSize

EvoPromptParameters == PopulationSize \in Nat \ {0}

VARIABLES variant,   \* "ga" or "de"
          pop,       \* the population, baseline first and then as appended
          tries,     \* seed variants tried
          births,    \* the births of the generation still to be carried out
          seq        \* the last candidate id

evoVars == <<variant, pop, tries, births, seq>>

ChildrenPerGeneration == 2
MaxSeq == PopulationSize - 1 + ChildrenPerGeneration * MaxRounds
Ids == 0 .. MaxSeq

EvoType ==
  /\ variant \in {"ga", "de"}
  /\ pop \in Seq(offered)
  /\ tries \in 0 .. PopulationSize - 1
  /\ Len(births) <= ChildrenPerGeneration
  /\ seq \in Ids

TypeOK ==
  /\ at \in {"seed", "seedling", "gate", "breed", "child",
             "finish", "done", "error"}
  /\ LoopType(Ids)
  /\ EvoType

Init ==
  /\ NewLoop("seed")
  /\ variant \in {"ga", "de"}
  /\ \E m \in members : pop = <<m>>
  /\ tries = 0 /\ births = <<>> /\ seq = 0

-----------------------------------------------------------------------------
(* operators.go. *)

Fitness(m) == Sum(m.row)

\* truncate: fitter first, then the smaller id.
Fitter(x, y) == Fitness(x) > Fitness(y) \/ (Fitness(x) = Fitness(y) /\ x.id < y.id)

SortedPop ==
  LET all == {pop[i] : i \in DOMAIN pop}
      rank(x) == Cardinality({y \in all : Fitter(y, x)}) + 1
  IN  [i \in 1 .. Cardinality(all) |-> CHOOSE x \in all : rank(x) = i]

Truncated ==
  SubSeq(SortedPop, 1, IF Len(pop) < PopulationSize THEN Len(pop)
                                                    ELSE PopulationSize)

\* tournament: the winner of two distinct places, or the only place there is.
Winners(exclude) ==
  LET pool == DOMAIN pop \ exclude
      wins(i, j) == \/ Fitness(pop[i]) > Fitness(pop[j])
                    \/ Fitness(pop[i]) = Fitness(pop[j]) /\ i < j
  IN  IF Cardinality(pool) = 1 THEN pool
      ELSE {i \in pool : \E j \in pool \ {i} : wins(i, j)}

\* planBirths.  A birth is the places of its parents; drawn is what stood there.
Birth(places) ==
  [places |-> places, drawn |-> [i \in DOMAIN places |-> pop[places[i]].id]]

Mutation == {Birth(<<p>>) : p \in IF Len(pop) = 1 THEN {1} ELSE Winners({})}
Crossover ==
  UNION {{Birth(<<p, q>>) : q \in Winners({p})} : p \in Winners({})}
Differential ==
  UNION {UNION {{Birth(<<p, a, b>>) : b \in Winners({a})}
                  : a \in Winners({p})} : p \in Winners({})}

Plans ==
  IF Len(pop) = 1 THEN {<<x, y>> : x \in Mutation, y \in Mutation}
  ELSE IF variant = "de" THEN {<<x, y>> : x \in Differential, y \in Differential}
  ELSE {<<x, y>> : x \in Crossover, y \in Mutation}

\* slip: the newcomer takes the front place
InFront(m) == <<m>> \o pop
Appended(m) == Append(pop, m)

-----------------------------------------------------------------------------
(* Seeding, round 0. *)

Seed ==
  /\ at = "seed"
  /\ \/ /\ tries = PopulationSize - 1
        /\ pop' = Truncated
        /\ at' = "gate"
        /\ UNCHANGED <<budget, reason, valveFired, tries, seq>>
     \/ /\ tries < PopulationSize - 1
        /\ GateStops
        /\ UNCHANGED <<budget, pop, tries, seq>>
     \/ /\ tries < PopulationSize - 1 /\ Open
        /\ \/ /\ StageRefused
              /\ Stop("budget_stopped")
              /\ valveFired' = TRUE
              /\ UNCHANGED <<tries, seq>>
           \/ /\ StageFailed
              /\ tries' = tries + 1
              /\ UNCHANGED <<at, reason, valveFired, seq>>
           \/ /\ StageDone
              /\ at' = "seedling"
              /\ seq' = seq + 1
              /\ UNCHANGED <<reason, valveFired, tries>>
        /\ UNCHANGED pop
  /\ UNCHANGED <<round, rounds, frontierVars, cancelled, variant, births>>

\* raiseChild, for a seed variant and for a generation's child.
RaiseChild ==
  \E d \in 0 .. Cardinality(Cells) :
    /\ RunUnit(Cardinality(Cells), d)
    /\ \/ /\ Complete(d)
          /\ \E m \in Candidates({seq}) : Raise(m) /\ pop' = Appended(m)
          /\ at' = IF at = "seedling" THEN "seed" ELSE "breed"
          /\ UNCHANGED <<reason, valveFired>>
       \/ /\ ~ Complete(d)
          /\ CutShort(seq)
          /\ UNCHANGED pop

Seedling ==
  /\ at = "seedling"
  /\ RaiseChild
  /\ tries' = tries + 1
  /\ UNCHANGED <<round, rounds, variant, births, seq>>

-----------------------------------------------------------------------------
(* Generations. *)

Gate ==
  /\ at = "gate"
  /\ \/ /\ RoundsOver
        /\ Stop("rounds_done")
        /\ UNCHANGED <<round, rounds, valveFired, births>>
     \/ /\ ~ RoundsOver
        /\ GateStops
        /\ UNCHANGED <<round, rounds, births>>
     \/ /\ ~ RoundsOver /\ Open
        /\ round' = round + 1 /\ rounds' = round'
        /\ births' \in Plans
        /\ at' = "breed"
        /\ UNCHANGED <<reason, valveFired>>
  /\ UNCHANGED <<frontierVars, budget, cancelled, variant, pop, tries, seq>>

\* One birth after the other; a failed one is skipped.  Then the generation
\* is closed.
Breed ==
  /\ at = "breed"
  /\ \/ /\ births # <<>>
        /\ \/ /\ StageRefused
              /\ Stop("budget_stopped")
              /\ valveFired' = TRUE
              /\ UNCHANGED <<births, seq>>
           \/ /\ StageFailed
              /\ births' = Tail(births)
              /\ UNCHANGED <<at, reason, valveFired, seq>>
           \/ /\ StageDone
              /\ at' = "child"
              /\ seq' = seq + 1
              /\ UNCHANGED <<reason, valveFired, births>>
        /\ UNCHANGED pop
     \/ /\ births = <<>>
        /\ pop' = Truncated
        /\ UNCHANGED <<budget, births, seq>>
        /\ CloseRound("gate")
  /\ UNCHANGED <<round, rounds, frontierVars, cancelled, variant, tries>>

Child ==
  /\ at = "child"
  /\ RaiseChild
  /\ births' = Tail(births)
  /\ UNCHANGED <<round, rounds, variant, tries, seq>>

Next ==
  \/ Seed
  \/ Seedling
  \/ Gate
  \/ Breed
  \/ Child
  \/ (Finish \/ Cancel \/ Fails({"seedling", "child"})) /\ UNCHANGED evoVars

Spec == Init /\ [][Next]_<<loopVars, evoVars>>

-----------------------------------------------------------------------------

\* The population and the frontier are two records of the same candidates,
\* kept by different rules.  At the head of a generation the population's first
\* is the fittest of all that was ever evaluated, however many were cut; the
\* frontier, which may have refused it, has a member as good on every cell but
\* for the measured noise, and where there is none, or nothing was repeated,
\* it is the frontier's best by mean.  Nobody is there twice, and while births
\* are carried out the places they were planned with still hold the parents
\* drawn.
PopulationSound ==
  /\ \A i, j \in DOMAIN pop : pop[i].id = pop[j].id => i = j
  /\ \A i \in DOMAIN births : \A k \in DOMAIN births[i].places :
       /\ births[i].places[k] \in DOMAIN pop
       /\ pop[births[i].places[k]].id = births[i].drawn[k]
  /\ at = "gate" =>
       /\ Len(pop) <= PopulationSize
       /\ \A o \in offered \ {pop[1]} : Fitter(pop[1], o)
       /\ \E m \in members : Within(pop[1].row, m.row, Blur)
       /\ Blur = 0 => pop[1] = ByMean(members)

=============================================================================
