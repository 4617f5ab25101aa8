\* Two to four commands in any order and overlap, each of which may fail or be
\* killed at any of its steps.
CONSTANTS
  i1 = i1
  i2 = i2
  i3 = i3
  Procs = {1, 2, 3, 4}
  Torn = Torn
  Garbled = Garbled
  Members = {a, b, base}
  Baseline = base
  Best = b
  Ids = {"0001", "0002"}
  Inputs = {i1, i2, i3}
  Datasets <- MCDatasets
  Scenes <- MCScenes
  AnchorSet <- MCAnchorSet
  HoldoutSet <- MCHoldoutSet
  MinAnchors = 2
  MaxSet = 3
  FullMark = 1
  MaxRegression = 0
  MaxSeconds = 2
  SampleSets = {s, t}
  Means = {1, 2}
  Keys = {"base_url", "provider", "api_key", "rps", "timeout",
          "judge_max_tokens"}
  Top = 2
  EnvKeys = {"base_url", "api_key", "timeout", "judge_max_tokens"}
  FlagKeys = {"provider", "rps", "judge_max_tokens"}
  Whitelist = {"base_url", "provider", "api_key", "timeout"}
  Persisted <- MCPersisted
  Required = {"base_url"}
  JudgeKeys = {"judge_max_tokens"}
  Replayed = {"rps"}
  Defaults <- MCDefaults
  Flags <- MCFlags
  Answers <- MCAnswers
SPECIFICATION Spec
INVARIANTS
  TypeOK
  Recoverable
  EndsBacked
  SettingsHonoured
PROPERTIES
  NothingForgotten
