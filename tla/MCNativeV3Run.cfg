SPECIFICATION Spec
CONSTANTS
  Ids = {"home", "away", "target", "route", "pg", "vg"}
  Accounts = {"work"}
  NoModel = "null"
  TaskPlaceholder = "{{task}}"
  Models = {"null", "mini"}
  Paths = {"codex", "grok"}
  MaxProfiles = 2
  MaxTargets = 1
  MaxRoutes = 1
  MaxGrants = 1
  MaxPairs = 1
  PolicyFiles <- MCPolicyFiles
  Requested <- MCRequested
  MaxEdits = 1
  MaxUpdates = 1
  MaxStoreChanges = 1
  MaxRuns = 2
INVARIANTS
  RunsWhatWasReviewed
  RefusedLeavesNoTrace
  TaskIsAccounted
CHECK_DEADLOCK FALSE
