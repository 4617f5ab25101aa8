----------------------------- MODULE PromptPool -----------------------------
(***************************************************************************)
(* The end of a run that completed: it is compared with the best of the    *)
(* runs before it in the task's pool (internal/pool/pool.go), joins the    *)
(* pool, and writes its summary (cmd/promptopt/run.go).  The pool is one   *)
(* file of JSON lines that is only appended to.                            *)
(***************************************************************************)
EXTENDS Commands, FiniteSetsExt

CONSTANTS SampleSets,   \* ids and input hashes of a run's samples, together
          Means         \* means of the primary metric

VARIABLES pool,       \* pool.jsonl
          warned,     \* runs with a pool_warning in their manifest
          summaries,  \* runs with a summary.json
          liveSinks   \* sinks of the MCP server's process that are not closed

poolVars == <<pool, warned, summaries, liveSinks>>

Records == [run : Procs, set : SampleSets, mean : Means]

\* A record that cannot be decoded hides all of the pool, from then on.
Broken(lines) == \E i \in DOMAIN lines : lines[i] \in {Torn, Garbled}

\* Best: the highest mean, the earlier record of two that have it.
BestOf(lines) ==
  lines[Min({i \in DOMAIN lines :
               \A j \in DOMAIN lines : lines[j].mean <= lines[i].mean})]

\* Compare: only records of the same samples are paired, and the interval of
\* the drop can lie above the threshold only if the mean did drop.
MayWarn(mine, best) == mine.set = best.set /\ mine.mean < best.mean

-----------------------------------------------------------------------------

\* startSink, and the evaluation.
RunStart(p, via) ==
  /\ Begins(p, IF via = "cli" THEN "run" ELSE "optimize tool")
  /\ \E set \in SampleSets, mean \in Means :
       Becomes(p, [cmd |-> "run", pc |-> "compare", via |-> via,
                   mine |-> [run |-> p, set |-> set, mean |-> mean]])
  /\ liveSinks' = IF via = "mcp" THEN liveSinks \cup {p} ELSE liveSinks
  /\ UNCHANGED <<pool, warned, summaries>>

\* poolReflect reads before it appends.
PoolCompare(p) ==
  /\ At(p, "run", "compare")
  /\ \E warns \in BOOLEAN :
       /\ warns => /\ ~ Broken(pool) /\ pool # <<>>
                   /\ MayWarn(job[p].mine, BestOf(pool))
       /\ Becomes(p, [cmd |-> "run", pc |-> "append", via |-> job[p].via,
                      mine |-> job[p].mine, warns |-> warns])
  /\ UNCHANGED poolVars

\* Append, and patchManifestPoolWarning.  Neither can fail the run; a record
\* that cannot be appended costs the warning its place in the manifest too.
PoolAppend(p) ==
  /\ At(p, "run", "append")
  /\ \/ /\ pool' = Journalled(pool, job[p].mine)
        /\ warned' \in {warned, IF job[p].warns THEN warned \cup {p} ELSE warned}
     \/ /\ pool' \in {pool, CutIn(pool)}
        /\ UNCHANGED warned
  /\ Becomes(p, [cmd |-> "run", pc |-> "finish", via |-> job[p].via])
  /\ UNCHANGED <<summaries, liveSinks>>

\* The sink is closed, on this path and on every early return.
RunReturns(p, exit) ==
  /\ liveSinks' = liveSinks \ {p}
  /\ Becomes(p, IF job[p].via = "cli" THEN Over
                ELSE [cmd |-> "optimized", via |-> "mcp", exit |-> exit])

\* finishRun; run.json comes after summary.json, and may fail.
FinishRun(p) ==
  /\ At(p, "run", "finish")
  /\ summaries' = summaries \cup {p}
  /\ \E exit \in {0, 1} : RunReturns(p, exit)
  /\ UNCHANGED <<pool, warned>>

RunFails(p) ==
  /\ job[p].cmd = "run"
  /\ RunReturns(p, 1)
  /\ UNCHANGED <<pool, warned, summaries>>

RunStep(p) == PoolCompare(p) \/ PoolAppend(p) \/ FinishRun(p) \/ RunFails(p)

=============================================================================
