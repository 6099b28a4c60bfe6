SPECIFICATION FairSpec
CONSTANTS
  Submission = {s1, s2}
  Executor = {x1, x2}
  MaxTurns = 2
  MaxAttempts = 7
  MaxUpsets = 2
  Upsets = {"provider", "break", "crash", "mutation", "lag"}
  CrashPoints = {"claiming", "claimed", "adjudicated", "broken", "narrated", "aborted"}
  Windows = {}
PROPERTIES
  InputAnswered
  NarrationEnds
CHECK_DEADLOCK FALSE
