------------------------------ MODULE Commands ------------------------------
(***************************************************************************)
(* The commands that share a working directory once runs have finished:    *)
(* each is a process (or a request of the dashboard, or a tool call of the *)
(* MCP server) that reads the files, decides, and writes some of them.     *)
(* Nothing locks a file between two processes, and a process may be killed *)
(* between two of its steps.                                               *)
(***************************************************************************)
EXTENDS Naturals, FiniteSets, SequencesExt

CONSTANTS Procs,          \* each carries out at most one command
          Torn, Garbled   \* what a journal may hold besides its records

VARIABLE job      \* what each process is doing, and what it has read


\* The exit code is kept where something else is compared with it.
Idle(wants) == [cmd |-> "none", wants |-> wants]
Over == [cmd |-> "over"]
Exited(exit) == [cmd |-> "exited", exit |-> exit]

Running(p) == job[p].cmd \notin {"none", "over", "exited", "ran", "verified"}
Begins(p, cmd) == job[p] = Idle(cmd)
At(p, cmd, pc) == job[p].cmd = cmd /\ job[p].pc = pc

Becomes(p, j) == job' = [job EXCEPT ![p] = j]
Ends(p) == Becomes(p, Over)

\* A line of a journal that was cut short has no end: the next line runs into
\* it, and neither can be read any more.
Journalled(lines, line) ==
  IF lines # <<>> /\ Last(lines) = Torn THEN Front(lines) \o <<Garbled>>
                                        ELSE Append(lines, line)

CutIn(lines) ==
  IF lines # <<>> /\ Last(lines) = Torn THEN lines ELSE Append(lines, Torn)

\* What is left of a sequence without the members of a set.
Less(seq, out) ==
  FoldLeft(LAMBDA kept, l : IF l \in out THEN kept ELSE Append(kept, l),
           <<>>, seq)

Readable(lines) == Less(lines, {Torn, Garbled})

=============================================================================
