------------------------------- MODULE Verify -------------------------------
(***************************************************************************)
(* The regression gate of a finished run (cmd/promptopt/verify.go): the    *)
(* adopted candidate, or the run's best, against the baseline on a set of  *)
(* samples the run never saw.  The two evaluations are those of            *)
(* EvalEngine, each with a budget of its own; here they are what they      *)
(* leave for the gate: a score of the primary metric for each sample, or   *)
(* none, and what becomes of the scores when they are collected by id.     *)
(***************************************************************************)
EXTENDS Adoption, AnchorLibrary, Integers

CONSTANTS Best,            \* the run's own pick
          AnchorSet,       \* the samples of --anchor, a sequence
          HoldoutSet,      \* the samples a synthesis makes, a sequence
          MinAnchors,      \* 3 in the code
          MaxSet,          \* bound: the samples of a set
          FullMark,        \* scores are 0 .. FullMark
          MaxRegression,   \* --max-regression
          MaxSeconds       \* bound: seconds the clock may show

VARIABLES now,       \* the wall clock, in seconds
          reports    \* verify/<second>: what each directory holds

verifyVars == <<now, reports>>

Unscored == FullMark + 1
Sources == {"anchor", "anchor-lib", "holdout"}

NoDir == [is |-> "none"]
EmptyDir == [is |-> "empty"]
Report(p, via, exit) == [is |-> "report", by |-> p, via |-> via, exit |-> exit]
Dirs == {d \in DOMAIN reports : reports[d] # NoDir}

-----------------------------------------------------------------------------
(* The gate. *)

\* The scores the evaluation gives, and the row the gate reads.  They are
\* collected by id: of the samples with the same id the last one to finish
\* counts for them all, and where nothing was scored the row says 0.
Collected(ids, raw, row) ==
  \A i \in DOMAIN ids :
    LET scored == {j \in DOMAIN ids : ids[j] = ids[i] /\ raw[j] # Unscored}
    IN  /\ scored = {} => row[i] = 0
        /\ scored # {} => \E j \in scored : row[i] = raw[j]
        /\ \A j \in DOMAIN ids : ids[j] = ids[i] => row[j] = row[i]

Sides(ids) ==
  {s \in [raw : [DOMAIN ids -> 0 .. Unscored], row : [DOMAIN ids -> 0 .. FullMark]] :
     Collected(ids, s.raw, s.row)}

Drops(base, deliv) == [i \in DOMAIN base |-> base[i] - deliv[i]]

\* The bootstrap resamples the drops of the rows: its interval lies between the
\* smallest and the largest of them.
Intervals(drop) ==
  LET values == {drop[i] : i \in DOMAIN drop}
      between == {x \in -FullMark .. FullMark :
                    /\ \E v \in values : v <= x
                    /\ \E v \in values : x <= v}
  IN  {i \in between \X between : i[1] <= i[2]}

\* Without the bootstrap the difference of the engine's own means decides, which
\* know nothing of ids: an interval of one point.
Readings(base, deliv) ==
  Intervals(Drops(base.row, deliv.row))
  \cup {i \in Intervals(Drops(base.raw, deliv.raw)) : i[1] = i[2]}

BootstrapVerdict(lo, hi) ==
  CASE lo > MaxRegression -> "regressed"
    [] lo <= MaxRegression /\ hi <= 0 -> "confident_pass"
    [] OTHER -> "inconclusive"

FindingFirst(missing, failed, finding, violated) ==   \* slip: the order
  CASE finding = "regressed" \/ violated -> 3
    [] ~ (finding = "regressed" \/ violated) /\ missing -> 2
    [] ~ (finding = "regressed" \/ violated) /\ ~ missing /\ failed -> 1
    [] OTHER -> 0

\* Evidence that is missing, then evidence that failed, then the finding.
VerdictExit(missing, failed, finding, violated) ==
  CASE missing -> 2
    [] ~ missing /\ failed -> 1
    [] ~ missing /\ ~ failed /\ (finding = "regressed" \/ violated) -> 3
    [] OTHER -> 0

\* promoteVerificationSet: every sample of the set, with its verdict.
Labelled(samples, verdicts) ==
  [i \in DOMAIN samples |-> Entry(samples[i], "verify-failure", verdicts[i])]

\* What the two evaluations may leave behind: the exit code, the samples without
\* a score on either side (they were never dispatched, or failed), the pairs of
\* one id of which the delivered candidate's score is below the baseline's (a
\* sample with itself, unless two share an id), whether a constraint is
\* violated, and a label for each sample.
Outcome(ids, base, deliv, cut, violated, interval) ==
  LET drop == Drops(base.row, deliv.row)
      blanks == {i \in DOMAIN ids : base.raw[i] = Unscored \/ deliv.raw[i] = Unscored}
      finding == BootstrapVerdict(interval[1], interval[2])
  IN  [exit |-> VerdictExit(blanks # {} /\ cut, blanks # {}, finding, violated),
       blanks |-> blanks,
       lower |-> {pair \in (DOMAIN ids \ blanks) \X (DOMAIN ids \ blanks) :
                    ids[pair[1]] = ids[pair[2]]
                    /\ base.raw[pair[1]] > deliv.raw[pair[2]]},
       shared |-> \E i, j \in DOMAIN ids : i # j /\ ids[i] = ids[j],
       violated |-> violated,
       verdicts |-> [i \in DOMAIN ids |-> IF drop[i] > 0 THEN "regressed" ELSE "pass"]]

Outcomes ==
  [ids \in SeqOf(Ids, MaxSet) |->
     UNION {{Outcome(ids, base, deliv, cut, violated, i) :
               cut \in BOOLEAN, violated \in BOOLEAN,
               i \in Readings(base, deliv)} :
            base \in Sides(ids), deliv \in Sides(ids)}]

-----------------------------------------------------------------------------

\* The command is over, or the tool has its answer to put together.
Returns(p, via, dir, exit) ==
  Becomes(p, IF via = "cli" THEN Exited(exit)
             ELSE [cmd |-> "call", via |-> "mcp", dir |-> dir, exit |-> exit])

\* loadVerifyRun and candidates.  The tool takes a run id and nothing else.
VerifyLoad(p, via) ==
  /\ Begins(p, IF via = "cli" THEN "verify" ELSE "verify tool")
  /\ \E source \in Sources, promote \in BOOLEAN :
       /\ via = "mcp" => source = "holdout" /\ ~ promote
       /\ \/ Becomes(p, [cmd |-> "verify", pc |-> "mkdir", via |-> via,
                         source |-> source, promote |-> promote,
                         delivered |-> IF adopted = Nobody THEN Best ELSE adopted])
          \/ Returns(p, via, 0, 1)
  /\ UNCHANGED verifyVars

\* The report directory is named by the second; it may be there already.
VerifyMkdir(p) ==
  /\ At(p, "verify", "mkdir")
  /\ reports' = [reports EXCEPT ![now] = IF @ = NoDir THEN EmptyDir ELSE @]
  /\ Becomes(p, IF job[p].delivered = Baseline
                THEN [cmd |-> "verify", pc |-> "report", via |-> job[p].via,
                      dir |-> now, exit |-> 0, blanks |-> {}, lower |-> {},
                      shared |-> FALSE, violated |-> FALSE]
                ELSE [cmd |-> "verify", pc |-> "gather", via |-> job[p].via,
                      dir |-> now, source |-> job[p].source,
                      promote |-> job[p].promote])
  /\ UNCHANGED now

\* verificationSet
SetOf(source) ==
  CASE source = "anchor" -> AnchorSet
    [] source = "anchor-lib" ->
         [i \in DOMAIN confirmed |-> [id |-> confirmed[i].id, input |-> confirmed[i].input]]
    [] source = "holdout" -> HoldoutSet

EnoughFor(source) ==
  /\ source \in {"anchor", "anchor-lib"} => Len(SetOf(source)) >= MinAnchors
  /\ Len(SetOf(source)) <= MaxSet

VerifyGather(p) ==
  /\ At(p, "verify", "gather")
  /\ EnoughFor(job[p].source)
  /\ Becomes(p, [cmd |-> "verify", pc |-> "evaluate", via |-> job[p].via,
                 dir |-> job[p].dir, promote |-> job[p].promote,
                 samples |-> SetOf(job[p].source)])
  /\ UNCHANGED verifyVars

\* Both sides, one after the other, the verdict, and the samples on their way
\* to staging.
VerifyEvaluate(p) ==
  /\ At(p, "verify", "evaluate")
  /\ \E o \in Outcomes[[i \in DOMAIN job[p].samples |-> job[p].samples[i].id]] :
       LET done == [cmd |-> "verify", pc |-> "report", via |-> job[p].via,
                    dir |-> job[p].dir, exit |-> o.exit, blanks |-> o.blanks,
                    lower |-> o.lower, shared |-> o.shared, violated |-> o.violated]
       IN  Becomes(p, IF job[p].promote
                      THEN Adding("verify", Labelled(job[p].samples, o.verdicts),
                                  "staging", done)
                      ELSE done)
  /\ UNCHANGED verifyVars

\* finishVerify: verify.json, then verify.md, which may fail.
VerifyReport(p) ==
  /\ At(p, "verify", "report")
  /\ reports' = [reports EXCEPT ![job[p].dir] = Report(p, job[p].via, job[p].exit)]
  /\ \E exit \in {job[p].exit, 1} : Returns(p, job[p].via, job[p].dir, exit)
  /\ UNCHANGED now

\* An error once the directory is there: the connection cannot be resolved,
\* the set is too small or cannot be synthesised, an evaluation or a write
\* fails.
VerifyFails(p) ==
  /\ job[p].cmd = "verify" /\ job[p].pc # "mkdir"
  /\ Returns(p, job[p].via, job[p].dir, 1)
  /\ UNCHANGED verifyVars

\* Seconds in which no directory is made are not told apart.
Tick ==
  /\ now < MaxSeconds /\ reports[now] # NoDir
  /\ now' = now + 1
  /\ UNCHANGED <<reports, job>>

VerifyStep(p) ==
  \/ VerifyMkdir(p) \/ VerifyGather(p) \/ VerifyEvaluate(p)
  \/ VerifyReport(p) \/ VerifyFails(p)

=============================================================================
