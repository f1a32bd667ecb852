SPECIFICATION Spec
CONSTANTS
  InputLen = 1
  MaxInterrupts = 2
  ForeignReaper = FALSE
  SignalsRefused = FALSE
INVARIANTS
  InterruptedRunIsReaped
CHECK_DEADLOCK FALSE
