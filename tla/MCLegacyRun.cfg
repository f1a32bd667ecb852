SPECIFICATION Spec
CONSTANTS
  RouteIds = {"a", "b", "c"}
  VendorLabels = {"codex", "grok"}
  Programs = {"codex", "grok", "/x", "/y"}
  Options = {"plain", "preset", "override"}
  NoTier = "none"
  NoVendor = "none"
  Builtin = {"codex", "grok"}
  Paths = {"/x", "/y"}
  Home = "/x"
  DefaultRoutes <- MCDefaultRoutes
  VendorRoutes <- MCVendorRoutes
  PolicyFiles <- MCPolicyFiles
  Requests <- MCRequests
  MaxChanges = 1
  MaxReviews = 1
  MaxRuns = 2
INVARIANTS
  RunsWhatWasReviewed
  ReviewIsHonoured
  OneVendorPerPolicy
PROPERTIES
  RunsWherePathLeads
CHECK_DEADLOCK FALSE
