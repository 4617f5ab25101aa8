----------------------------- MODULE McpSession -----------------------------
(***************************************************************************)
(* The MCP server (internal/mcp, cmd/promptopt/mcp.go): one session that   *)
(* answers one tool call at a time by doing what the command line does,    *)
(* and then reads the answer back from the files.                          *)
(***************************************************************************)
EXTENDS Verify, PromptPool

VARIABLE answers   \* what each call of the session was told

Unanswered == [kind |-> "none"]
Failure == [kind |-> "error"]
Payload(kind, by, via, exit, isError) ==
  [kind |-> kind, by |-> by, via |-> via, exit |-> exit, isError |-> isError]

InCall(p) ==
  job[p].cmd \in {"verify", "call", "run", "optimized"} /\ job[p].via = "mcp"

Busy == \E p \in Procs : InCall(p)

Answer(p, a) ==
  /\ answers' = [answers EXCEPT ![p] = a]
  /\ Ends(p)

\* The server reads the next request once it has answered the last.
ToolCall(p) ==
  /\ ~ Busy
  /\ \/ VerifyLoad(p, "mcp") /\ UNCHANGED poolVars
     \/ RunStart(p, "mcp") /\ UNCHANGED verifyVars
  /\ UNCHANGED answers

\* verifyTool: the newest report directory is taken for this call's.
NewestDir == Max(Dirs)

VerifyAnswer(p) ==
  /\ job[p].cmd = "call"
  /\ IF Dirs = {} \/ reports[NewestDir] = EmptyDir
     THEN Answer(p, Failure)
     ELSE LET r == reports[NewestDir]
          IN  Answer(p, Payload("verify", r.by, r.via, r.exit, job[p].exit = 1))
  /\ UNCHANGED <<verifyVars, poolVars>>

\* optimizeTool: the run has the id it was given.
OptimizeAnswer(p) ==
  /\ job[p].cmd = "optimized"
  /\ Answer(p, IF p \in summaries
               THEN Payload("optimize", p, "mcp", job[p].exit, job[p].exit = 1)
               ELSE Failure)
  /\ UNCHANGED <<verifyVars, poolVars>>

\* closeOrphanedSinks
Reclaimed == {}

\* A tool that panics unwinds past the closing of its sink; the deferred
\* closeOrphanedSinks makes up for it, and the server answers with an error.
Panic(p) ==
  /\ InCall(p)
  /\ Answer(p, Failure)
  /\ liveSinks' = Reclaimed
  /\ UNCHANGED <<verifyVars, pool, warned, summaries>>

McpStep(p) == ToolCall(p) \/ VerifyAnswer(p) \/ OptimizeAnswer(p) \/ Panic(p)

=============================================================================
