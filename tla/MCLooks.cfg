SPECIFICATION MCSpec
CONSTANTS
  f = f
  g = g
  old = old
  new = new
  None = None
  Files = {f, g}
  Facts <- MCFacts
  Marks = {old, new}
  MaxBytes = 2
  ChunkBytes = 2
  MaxLength = 3
  Disks <- MCDisks
  Edits <- MCEdits
  Paths <- MCPaths
  Commands <- MCCommands
  Name = "tool"
  Unreviewable = {"odd name"}
  MaxSteps = 8
  MaxChanges = 2
  ForeignReapers = TRUE
  MaxPolls = 2
SYMMETRY Either
INVARIANTS
  NeverCut
  ReadsWhatWasJudged
  FirstSteadyEntryWins
  FoundWasAdmissible
  LossStopsSignals
  RefusalsAreJudged
CHECK_DEADLOCK FALSE
