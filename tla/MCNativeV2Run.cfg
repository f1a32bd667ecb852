SPECIFICATION Spec
CONSTANTS
  Ids = {"home", "away", "target", "route", "grant"}
  Accounts = {"work"}
  Pairs = {"mini-low"}
  Paths = {"codex", "claude"}
  NoTier = "none"
  PolicyFiles <- MCPolicyFiles
  Requested <- MCRequested
  MaxChanges = 2
  MaxReviews = 1
  MaxRuns = 2
INVARIANTS
  RunsWhatWasReviewed
  CrossingsGranted
  ReviewIsHonoured
CHECK_DEADLOCK FALSE
