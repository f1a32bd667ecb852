SPECIFICATION MCSpec
CONSTANTS
  Scripts <- MCScripts
  Labels <- MCLabels
  Overrides <- MCOverrides
  FileCommands <- MCFileCommands
  Ids <- MCIds
  Accounts = {"home", "work"}
  NoModel = "null"
  TaskPlaceholder = "{{task}}"
  Models = {"null", "{{task}}"}
  Paths = {"agy", "codex", "grok"}
  MaxProfiles = 64
  MaxTargets = 64
  MaxRoutes = 128
  MaxGrants = 128
  MaxPairs = 64
  Installed <- MCInstalled
  PathOf <- MCPathOf
  OddPaths = {"grok"}
  EffortsTried = {"low", "high"}
INVARIANTS
  EveryTaskDeliveredOnce
CHECK_DEADLOCK FALSE
