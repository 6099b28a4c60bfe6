SPECIFICATION Spec
CONSTANTS
  Submission = {s1, s2}
  Executor = {x1, x2}
  MaxTurns = 2
  MaxAttempts = 5
  MaxUpsets = 3
  Upsets <- AnyUpset
  CrashPoints <- AnyPhase
  Windows <- EveryWindow
INVARIANTS TypeOK LiveAttemptIsCurrent TurnMatchesAttempt
PROPERTIES StreamingInputLocked DormantTableStands
SYMMETRY Symmetry
CHECK_DEADLOCK FALSE
