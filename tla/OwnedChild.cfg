SPECIFICATION FairSpec
CONSTANTS
  InputLen = 2
  MaxInterrupts = 4
  ForeignReaper = TRUE
  SignalsRefused = TRUE
INVARIANTS
  SettledBeforeExit
  StatusIsTrue
  NeverSignalsReaped
  HandlerRestored
  InterruptSurfaces
  ExactDelivery
PROPERTIES
  CleanupTerminates
CHECK_DEADLOCK FALSE
