SPECIFICATION Spec
CONSTANTS
  Submission = {s1, s2}
  Executor = {x1, x2}
  MaxTurns = 2
  MaxAttempts = 4
  MaxUpsets = 3
  Upsets <- NoLag
  CrashPoints <- AnyPhase
  Windows <- EveryWindow
INVARIANTS ResolvedOnce OneExecutor
PROPERTIES KeepsLedger
SYMMETRY Symmetry
CHECK_DEADLOCK FALSE
