SPECIFICATION Spec
CONSTANTS
  Agents = {"codex", "grok"}
  NoModel = "null"
  Models = {"null"}
  Efforts = {"low", "medium"}
  Tiers = {"low"}
  ExitCodes <- MCExitCodes
  MaxCounter = 5
  MaxBuckets = 2
  MaxWeights = 2
  MaxEntries = 4
  Scale = 2
  MaxWeight = 3
  MaxRuns = 3
  RunsTried <- MCRunsTried
  WeightValues = {1, 2}
INVARIANTS
  RefusedOnlyAtLimit
  SavingsAreHonest
  GuidanceMatchesReport
PROPERTIES
  RetryNeverImproves
CHECK_DEADLOCK FALSE
