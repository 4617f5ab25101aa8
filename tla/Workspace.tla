----------------------------- MODULE Workspace ------------------------------
(***************************************************************************)
(* A working directory in use: the dashboard adopts, rollback takes        *)
(* adoptions back, verify gates them against the anchor library and feeds  *)
(* it, people curate the library and edit the settings, further runs join  *)
(* the pool, and an agent does some of that through the MCP server.        *)
(***************************************************************************)
EXTENDS McpSession, Settings

CONSTANTS Scenes    \* which command each process is to carry out, with the
                    \* library, the environment and the settings to begin with

adoptionVars == <<adopted, history, displaced>>
vars == <<job, adoptionVars, libraryVars, verifyVars, poolVars, answers,
          settingsVars>>

Kinds == {"adopt", "rollback", "add", "promote", "verify", "run",
          "verify tool", "optimize tool", "configured run", "configured verify",
          "config set", "config init"}

NoRepeat(layer) ==
  \A i, j \in DOMAIN layer : layer[i].input = layer[j].input => i = j

FileStates == {NoFile, Corrupt} \cup {Holding(l) : l \in Layer}

\* A line that cannot be read is no record, a library begins as Add and Promote
\* leave it, and no two samples of one dataset have the same id.
ASSUME WorkspaceAssumption ==
  /\ Best \in Adoptable /\ Nobody \notin Adoptable
  /\ {Torn, Garbled} \cap (Adoptable \cup Records) = {}
  /\ \A scene \in Scenes :
       /\ DOMAIN scene.script \subseteq Procs
       /\ \A p \in DOMAIN scene.script : scene.script[p] \in Kinds
       /\ scene.confirmed \in Seq(Entries) /\ NoRepeat(scene.confirmed)
       /\ scene.staging \in Seq(Entries) /\ NoRepeat(scene.staging)
       /\ InputsOf(scene.confirmed) \cap InputsOf(scene.staging) = {}
       /\ scene.env \in [Keys -> 0 .. Unparsable]
       /\ {scene.project, scene.user} \subseteq FileStates
  /\ \A samples \in Datasets \cup {AnchorSet, HoldoutSet} :
       /\ samples \in Seq(Samples)
       /\ \A i, j \in DOMAIN samples : samples[i].id = samples[j].id => i = j
  /\ Means \subseteq Int
  /\ \A flags \in Flags : flags \in [DOMAIN flags -> 0 .. Top]
  /\ Defaults \in Layer /\ Answers \subseteq Layer
  /\ Persisted \in [Keys -> [0 .. Top -> 0 .. Top]]
  /\ FullMark \in Nat \ {0} /\ MaxRegression \in Nat /\ {MinAnchors, MaxSet} \subseteq Nat
  /\ MaxSeconds \in Nat \ {0} /\ Top \in Nat

TypeOK ==
  /\ \A p \in Procs : job[p].cmd \in {"none", "over", "exited", "rollback", "add",
                        "promote", "verify", "call", "run", "optimized", "ran", "verified",
                        "edit", "init"}
  /\ adopted \in Adoptable \cup {Nobody}
  /\ displaced \in Adoptable \cup {Nobody}
  /\ history \in Seq(Adoptable \cup {Torn, Garbled})
  /\ confirmed \in Seq(Entries) /\ staging \in Seq(Entries)
  /\ raced \in BOOLEAN /\ halved \in BOOLEAN
  /\ now \in 1 .. MaxSeconds
  /\ \A d \in 1 .. MaxSeconds :
       reports[d] \in {NoDir, EmptyDir} \cup {Report(p, via, e) : p \in Procs, via \in {"cli", "mcp"},
                                               e \in 0 .. 3}
  /\ pool \in Seq(Records \cup {Torn, Garbled})
  /\ warned \subseteq Procs /\ summaries \subseteq Procs
  /\ liveSinks \subseteq Procs
  /\ DOMAIN answers = Procs
  /\ \A s \in Scopes : files[s] \in FileStates
  /\ manifest \in Layer /\ overwrote \in BOOLEAN

Begun(scene) ==
  /\ job = [p \in Procs |-> IF p \in DOMAIN scene.script
                            THEN Idle(scene.script[p]) ELSE Over]
  /\ confirmed = scene.confirmed /\ staging = scene.staging
  /\ env = scene.env /\ files = [project |-> scene.project, user |-> scene.user]

Init ==
  /\ \E scene \in Scenes : Begun(scene)
  /\ adopted = Nobody /\ history = <<>> /\ displaced = Nobody
  /\ raced = FALSE /\ halved = FALSE /\ endorsed = Range(confirmed)
  /\ now = 1 /\ reports = [d \in 1 .. MaxSeconds |-> NoDir]
  /\ pool = <<>> /\ warned = {} /\ summaries = {} /\ liveSinks = {}
  /\ answers = [p \in Procs |-> Unanswered]
  /\ manifest = Blank /\ overwrote = FALSE

Adoption(p) ==
  AdoptionStep(p) /\ UNCHANGED <<libraryVars, verifyVars, poolVars, answers, settingsVars>>

Library(p) ==
  LibraryStep(p) /\ UNCHANGED <<adoptionVars, verifyVars, poolVars, answers,
                                  settingsVars>>

Gate(p) ==
  /\ VerifyLoad(p, "cli") \/ VerifyStep(p)
  /\ UNCHANGED <<adoptionVars, libraryVars, poolVars, answers, settingsVars>>

Run(p) ==
  /\ RunStart(p, "cli") \/ RunStep(p)
  /\ UNCHANGED <<adoptionVars, libraryVars, verifyVars, answers, settingsVars>>

Session(p) == McpStep(p) /\ UNCHANGED <<adoptionVars, libraryVars, settingsVars>>

Setting(p) ==
  SettingsStep(p) /\ UNCHANGED <<adoptionVars, libraryVars, verifyVars, poolVars,
                                 answers>>

\* A signal, or a machine that stops, between two steps of a command; a call of
\* the session takes the server with it.
Die(p) ==
  /\ Running(p)
  /\ halved' = (halved \/ At(p, "promote", "unstage"))
  /\ liveSinks' = liveSinks \ {p}
  /\ Ends(p)
  /\ UNCHANGED <<adoptionVars, library, raced, endorsed, verifyVars, pool, warned,
                 summaries, answers, settingsVars>>

Pass ==
  /\ Tick
  /\ UNCHANGED <<adoptionVars, libraryVars, poolVars, answers, settingsVars>>

Quiet == (\A p \in Procs : ~ Running(p) /\ job[p].cmd # "none") /\ UNCHANGED vars

Next ==
  \/ \E p \in Procs :
       \/ Adoption(p) \/ Library(p) \/ Gate(p) \/ Run(p) \/ Session(p)
       \/ Setting(p) \/ Die(p)
  \/ Pass
  \/ Quiet

Spec == Init /\ [][Next]_vars

-----------------------------------------------------------------------------
(* Properties. *)

\* rollback.go:76-79 and anchors.go:286-294: both commands write twice, so that
\* a crash in between can be made up for by giving the command again.  A
\* rollback that has journalled and not yet switched would choose the same
\* target again, unless somebody else has switched or has added a line in the
\* meantime (its own is lost when it runs into one cut short); an input has one
\* slot in the library, or one in each layer while a promote is between its
\* writes or after one ended there, as long as no two writers overlapped.
Recoverable ==
  /\ \A p \in Procs :
       /\ At(p, "rollback", "save") /\ job[p].plain
       /\ adopted = job[p].from
       /\ \/ Len(history) = job[p].seen
          \/ /\ Len(history) = job[p].seen + 1
             /\ Last(history) = job[p].from
       => RollbackTarget(adopted, history) = job[p].to
  /\ ~ raced =>
       /\ NoRepeat(confirmed) /\ NoRepeat(staging)
       /\ InputsOf(confirmed) \cap InputsOf(staging) # {} =>
            \/ halved
            \/ \E p \in Procs : At(p, "promote", "unstage")

\* verify.go:775-785: a gate that passes or fails has a score for every sample
\* on both sides, and when no constraint is to blame for the failure some sample
\* did get worse - or, where samples of the library share an id, the delivered
\* candidate's score of one is below the baseline's of another; a report's exit
\* code is the command's, unless the command failed after it was written.
GatesBacked ==
  /\ \A p \in Procs : At(p, "verify", "report") =>
       /\ job[p].exit \in {0, 3} => job[p].blanks = {}
       /\ job[p].exit = 3 /\ ~ job[p].violated =>
            \E pair \in job[p].lower : pair[1] = pair[2] \/ job[p].shared
  /\ \A d \in Dirs : reports[d] # EmptyDir =>
       LET p == reports[d].by
       IN  job[p].cmd = "exited" => job[p].exit \in {reports[d].exit, 1}

\* mcp.go:69-78 and 125-145: of the reports the session's own calls have made, an
\* answer that is not an error carries this call's, and it is no failure: never
\* an earlier call's, even of the same second.  Only a command outside the session
\* can have put its report in between.  And no sink outlives its call.
AnswersBacked ==
  /\ \A p \in Procs :
       /\ answers[p].kind = "verify" /\ ~ answers[p].isError
       /\ answers[p].via = "mcp"
       => answers[p].by = p /\ answers[p].exit # 1
  /\ ~ Busy => liveSinks = {}

\* run.go:764-808: a run that warns stands below an earlier run of the same
\* samples.
WarningsBacked ==
  \A j \in DOMAIN pool :
    /\ pool[j] \notin {Torn, Garbled} /\ pool[j].run \in warned
    => \E i \in 1 .. j - 1 : /\ pool[i].run # pool[j].run
                             /\ pool[i].set = pool[j].set
                             /\ pool[i].mean > pool[j].mean

\* verify.go:463-479: what the run recorded is what verify uses, and a key that
\* is no part of a connection's identity never comes from a file, whatever has
\* been written to the files since; only a flag or a variable of verify's own
\* environment comes first.  file.go:283-289: the layer a run names as the
\* source of a value did give it (an explicit flag of the zero value aside, when
\* zero means that the flag does not count).
SettingsHonoured ==
  \A p \in Procs :
    /\ job[p].cmd = "verified" =>
         \A k \in Keys \ DOMAIN job[p].flags :
           FromEnv(k) = Unset /\ (manifest[k] # Unset \/ k \notin Whitelist) =>
             job[p].conn[k] = Or(manifest[k], Defaults[k])
    /\ job[p].cmd = "ran" =>
         \A k \in Keys : (k \in DOMAIN job[p].flags => Final(job[p].flags, k)) =>
           job[p].conn[k] = CASE job[p].sources[k] = "flag" -> job[p].flags[k]
                              [] job[p].sources[k] = "env" -> env[k]
                              [] job[p].sources[k] = "file" -> job[p].file[k]
                              [] OTHER -> Defaults[k]

\* anchors.go:3-9, verify.go:751-753: whoever overwrites whom, what verify has
\* deposited is in the layer verify measures against only if some promote found
\* it in staging.
EndorsedByPeople ==
  \A i \in DOMAIN confirmed :
    confirmed[i].source = "verify-failure" => confirmed[i] \in endorsed

\* What a command leaves behind is backed by what it, or a person, saw.
EndsBacked == GatesBacked /\ AnswersBacked /\ WarningsBacked /\ EndorsedByPeople

\* rollback.go:76-78: the adoption a rollback found and replaces is in the
\* journal by then, unless a line was cut short before it.
JournalFirst ==
  \A p \in Procs :
    /\ At(p, "rollback", "save") /\ adopted = job[p].from
    /\ adopted' # adopted /\ job'[p] # job[p]
    => \E i \in DOMAIN history : history[i] \in {adopted, Garbled}

\* anchors.go:289-294: whatever step is the last of a command, no input leaves
\* the library and no confirmed entry goes, as long as no two writers overlapped.
LibraryKept ==
  ~ raced' =>
    /\ IsPrefix(confirmed, confirmed')
    /\ InputsOf(confirmed) \cup InputsOf(staging)
         \subseteq InputsOf(confirmed') \cup InputsOf(staging')

\* config.go:22-28: an edit keeps every other key of the file, one that does not
\* decode is never edited, and init replaces only a file that was given up, as
\* long as no two commands overlapped on it.
SettingsKept ==
  ~ overwrote' =>
    \A p \in Procs : job'[p] # job[p] =>
      /\ At(p, "edit", "rename") =>
           /\ files[job[p].scope] # Corrupt
           /\ \A k \in Keys \ {job[p].key} :
                files'[job[p].scope] # NoFile =>
                  KeysOf(files'[job[p].scope])[k] = KeysOf(files[job[p].scope])[k]
      /\ At(p, "init", "wizard") /\ files' # files =>
           files[job[p].scope] \in {NoFile, Holding(Blank), job[p].gives}

\* No step forgets: the adoption that was replaced, the samples people and
\* gates have collected, and what was configured.
NothingForgotten ==
  [][JournalFirst /\ LibraryKept /\ SettingsKept]_vars

\* README.md:232: without a target, rollback goes back to the previous different
\* adoption, and to the baseline if there is none.
PreviousRestored ==
  \A p \in Procs :
    At(p, "rollback", "journal") /\ job[p].plain /\ adopted = job[p].from
    => job[p].to = IF displaced = Nobody THEN Baseline ELSE displaced

=============================================================================
