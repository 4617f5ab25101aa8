------------------------------ MODULE Settings ------------------------------
(***************************************************************************)
(* Where a command's connection comes from: flags, the environment, the    *)
(* first configuration file there is, and the defaults                     *)
(* (internal/config); what a run leaves of it in its manifest, and what    *)
(* verify makes of that later; and the config command, which edits the     *)
(* files in the meantime (cmd/promptopt/config.go).  A key's value is a    *)
(* number, and 0 the zero value, which no layer but an explicit flag can   *)
(* express.                                                                *)
(***************************************************************************)
EXTENDS Commands

CONSTANTS Keys,          \* some of the 22 keys
          Top,           \* values are 1 .. Top
          EnvKeys,       \* keys with an environment variable
          FlagKeys,      \* keys whose explicit flag is final, zero included
          Whitelist,     \* keys verify may take from a file
          Persisted,     \* what a manifest keeps of each key's values
          Required,      \* keys no command goes without
          JudgeKeys,     \* keys the wizard asks for on request only
          Replayed,      \* flag keys of verify: its flag, or the manifest
          Defaults,      \* the value of a key nobody sets
          Flags,         \* command lines: values of the keys that are given
          Answers        \* what the wizard may be told: values of all keys

VARIABLES env,        \* the environment of every command
          files,      \* the project's file and the user's
          manifest,   \* the connection part of the run's manifest.json
          overwrote   \* history variable: an edit missed another one's change

settingsVars == <<env, files, manifest, overwrote>>

Unset == 0
Unparsable == Top + 1      \* of a variable: it is passed over
Layer == [Keys -> 0 .. Top]
NoFile == [is |-> "none"]
Corrupt == [is |-> "corrupt"]
Holding(keys) == [is |-> "file", keys |-> keys]
Blank == [k \in Keys |-> Unset]
Scopes == {"project", "user"}

Or(value, otherwise) == IF value # Unset THEN value ELSE otherwise

\* Discover: the project's file hides the user's, whatever is in it.
Hit == IF files["project"] # NoFile THEN files["project"] ELSE files["user"]
KeysOf(file) == IF file = NoFile THEN Blank ELSE file.keys

FromEnv(k) == IF k \in EnvKeys /\ env[k] # Unparsable THEN env[k] ELSE Unset

\* The resolvers of config.go, key by key.
Final(flags, k) == k \in DOMAIN flags /\ (k \in FlagKeys \/ flags[k] # Unset)

Resolve(flags, file) ==
  [k \in Keys |->
     IF Final(flags, k) THEN flags[k]
     ELSE Or(FromEnv(k), Or(file[k], Defaults[k]))]

\* DeriveSources.
SourceOf(flags, file, k) ==
  CASE k \in DOMAIN flags -> "flag"
    [] k \notin DOMAIN flags /\ FromEnv(k) # Unset -> "env"
    [] k \notin DOMAIN flags /\ FromEnv(k) = Unset /\ file[k] # Unset -> "file"
    [] OTHER -> "default"

FilledIn(flags, file, k) ==      \* slip: any key may come from a file
  Or(FromEnv(k), Or(manifest[k], Or(file[k], Defaults[k])))

\* resolveVerifyConn: the manifest stands between the environment and the file.
Reproduced(flags, file, k) ==
  LET fromFile == IF k \in Whitelist THEN file[k] ELSE Unset
  IN  Or(FromEnv(k), Or(manifest[k], Or(fromFile, Defaults[k])))

VerifyConn(flags, file) ==
  [k \in Keys |->
     IF k \in DOMAIN flags /\ (k \in Replayed \/ flags[k] # Unset)
     THEN flags[k]
     ELSE Reproduced(flags, file, k)]

\* runManifest: nothing of the keys to servers, whole seconds of a timeout.
Recorded(conn) == [k \in Keys |-> Persisted[k][conn[k]]]

Complete(conn) == \A k \in Required : conn[k] # Unset

-----------------------------------------------------------------------------
(* The commands that read.  Bound: one run is configured, the one verify is   *)
(* about.                                                                    *)

ConfiguredRun(p) ==
  /\ Begins(p, "configured run")
  /\ manifest = Blank
  /\ \E flags \in Flags :
       LET file == KeysOf(Hit)
           conn == Resolve(flags, file)
       IN  IF Hit = Corrupt \/ ~ Complete(conn)
           THEN Ends(p) /\ UNCHANGED manifest
           ELSE /\ manifest' = Recorded(conn)
                /\ Becomes(p, [cmd |-> "ran", flags |-> flags, file |-> file,
                               conn |-> conn,
                               sources |-> [k \in Keys |-> SourceOf(flags, file, k)]])
  /\ UNCHANGED <<env, files, overwrote>>

ConfiguredVerify(p) ==
  /\ Begins(p, "configured verify")
  /\ \E flags \in Flags :
       LET conn == VerifyConn(flags, KeysOf(Hit))
       IN  IF manifest = Blank \/ Hit = Corrupt \/ ~ Complete(conn)
           THEN Ends(p)
           ELSE Becomes(p, [cmd |-> "verified", flags |-> flags, conn |-> conn])
  /\ UNCHANGED settingsVars

-----------------------------------------------------------------------------
(* config set, unset and init. *)

\* The target must decode, or not be there; unset is a set to nothing.
EditLoad(p) ==
  /\ Begins(p, "config set")
  /\ \E scope \in Scopes, key \in Keys, value \in 0 .. Top :
       Becomes(p, IF files[scope] = Corrupt
                  THEN Over
                  ELSE [cmd |-> "edit", pc |-> "read", scope |-> scope,
                        key |-> key, value |-> value])
  /\ UNCHANGED settingsVars

WithKey(keys, key, value) == [keys EXCEPT ![key] = value]

\* editConfigNode reads the file once more.  Nothing to remove, nothing done.
EditRead(p) ==
  /\ At(p, "edit", "read")
  /\ LET now == files[job[p].scope]
         missing == now = NoFile \/ now.keys[job[p].key] = Unset
     IN  Becomes(p, IF now = Corrupt \/ (job[p].value = Unset /\ missing)
                    THEN Over
                    ELSE [cmd |-> "edit", pc |-> "rename", scope |-> job[p].scope,
                          key |-> job[p].key, read |-> now,
                          next |-> WithKey(KeysOf(now), job[p].key, job[p].value)])
  /\ UNCHANGED settingsVars

EditRename(p) ==
  /\ At(p, "edit", "rename")
  /\ files' = [files EXCEPT ![job[p].scope] = Holding(job[p].next)]
  /\ overwrote' = (overwrote \/ files[job[p].scope] # job[p].read)
  /\ Ends(p)
  /\ UNCHANGED <<env, manifest>>

\* Without --force a file that has keys, or does not decode, is left alone; at a
\* terminal a file with keys may be given up on request.
InitAsk(p) ==
  /\ Begins(p, "config init")
  /\ \E scope \in Scopes, force \in BOOLEAN, agrees \in BOOLEAN :
       LET there == files[scope]
           hasKeys == there \notin {NoFile, Corrupt} /\ there.keys # Blank
       IN  Becomes(p, IF ~ force /\ (there = Corrupt \/ (hasKeys /\ ~ agrees))
                      THEN Over
                      ELSE [cmd |-> "init", pc |-> "wizard", scope |-> scope,
                            gives |-> IF force \/ (hasKeys /\ agrees)
                                      THEN there ELSE NoFile,
                            read |-> there])
  /\ UNCHANGED settingsVars

\* The wizard's answers.  A required one that never comes cancels it, at a
\* terminal.
Chosen(answers, judge) ==
  [k \in Keys |-> IF k \in JudgeKeys /\ ~ judge THEN Unset ELSE answers[k]]

InitCancel(p) ==
  /\ At(p, "init", "wizard")
  /\ Ends(p)
  /\ UNCHANGED settingsVars

\* writeConfigFile: the file is made of the answers alone.
InitWrite(p) ==
  /\ At(p, "init", "wizard")
  /\ \E answers \in Answers, judge \in BOOLEAN :
       files' = [files EXCEPT ![job[p].scope] = Holding(Chosen(answers, judge))]
  /\ overwrote' = (overwrote \/ files[job[p].scope] # job[p].read)
  /\ Ends(p)
  /\ UNCHANGED <<env, manifest>>

SettingsStep(p) ==
  \/ ConfiguredRun(p) \/ ConfiguredVerify(p)
  \/ EditLoad(p) \/ EditRead(p) \/ EditRename(p) \/ InitAsk(p)
  \/ InitCancel(p) \/ InitWrite(p)

=============================================================================
