---------------------------- MODULE MCWorkspace -----------------------------
(***************************************************************************)
(* A small instance of Workspace: commands that meet at the same files.    *)
(***************************************************************************)
EXTENDS Workspace, TLC

CONSTANTS i1, i2, i3

Of(id, x) == [id |-> id, input |-> x]

MCDatasets == {<<Of("0001", i2), Of("0002", i2)>>, <<Of("0001", i1), Of("0002", i3)>>}
MCAnchorSet == <<Of("0001", i1), Of("0002", i2)>>
MCHoldoutSet == <<Of("0001", i2)>>

\* One key of each rule: base_url, provider, api_key, rps, timeout,
\* judge_max_tokens.
Only(k, v) == [j \in Keys |-> IF j = k THEN v ELSE 0]
All(v) == [k \in Keys |-> v]

MCDefaults == [k \in Keys |-> IF k \in {"provider", "api_key"} THEN 1 ELSE 0]

\* A timeout of value 1 is shorter than a second.
MCPersisted ==
  [k \in Keys |-> [v \in 0 .. Top |->
     IF k = "api_key" \/ (k = "timeout" /\ v = 1) THEN 0 ELSE v]]

MCFlags == {<<>>, "base_url" :> 2, "rps" :> 0, ("judge_max_tokens" :> 0) @@ ("rps" :> 1)}

MCAnswers == {Only("base_url", 1), All(2)}

-----------------------------------------------------------------------------
(* The scenes: commands that meet at the adoption, the library, the report  *)
(* directories, the pool or the settings.  Which process does what makes no *)
(* difference.                                                              *)

Scene(script, layers, env_, project, user) ==
  [script |-> script, confirmed |-> layers[1], staging |-> layers[2],
   env |-> env_, project |-> project, user |-> user]

Kept(id, x, from) == Entry(Of(id, x), from, "none")

NoLibrary == <<<<>>, <<>>>>
OneEach == <<<<Kept("0001", i1, "manual")>>, <<Kept("0002", i2, "verify-failure")>>>>
Sufficient == <<<<Kept("0001", i1, "manual"), Kept("0002", i2, "manual")>>, <<>>>>

\* The first samples of two datasets.
SameId == <<<<Kept("0001", i1, "manual"), Kept("0001", i2, "manual")>>, <<>>>>

Plain(script, layers) == Scene(script, layers, All(0), NoFile, NoFile)

OnFiles ==
  {Plain(script, NoLibrary) :
     script \in {<<"adopt", "adopt", "rollback", "rollback">>,
                 <<"adopt", "rollback", "rollback", "rollback">>,
                 <<"adopt", "adopt", "adopt", "rollback">>,
                 <<"verify tool", "verify tool">>,
                 <<"run", "run", "run">>, <<"run", "run", "optimize tool">>,
                 <<"verify tool", "optimize tool">>,
                 <<"optimize tool", "optimize tool">>}}

OnLibrary ==
  {Plain(script, layers) :
     script \in {<<"add", "add", "add">>, <<"add", "add", "promote">>,
                 <<"add", "promote", "promote">>},
     layers \in {NoLibrary, OneEach}}
  \cup
  {Plain(script, layers) :
     script \in {<<"add", "promote", "verify">>, <<"adopt", "verify", "verify tool">>},
     layers \in {OneEach, Sufficient, SameId}}

OnSettings ==
  {Scene(script, NoLibrary, s[1], s[2], s[3]) :
     script \in {<<"configured run", "config set", "configured verify">>,
                 <<"config set", "config set", "config init">>},
     s \in {<<Only("api_key", 2), NoFile, Holding(All(2))>>,
            <<Only("judge_max_tokens", 3), Holding(Only("base_url", 1)), Corrupt>>,
            <<All(1), Corrupt, NoFile>>}}

MCScenes == OnFiles \cup OnLibrary \cup OnSettings

=============================================================================
