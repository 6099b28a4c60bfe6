SPECIFICATION Spec
CONSTANTS
  Submission = {s1}
  Executor = {x1, x2}
  MaxTurns = 2
  MaxAttempts = 4
  MaxUpsets = 2
  Upsets = {"lag", "mutation"}
  CrashPoints = {}
  Windows = {"fail"}
INVARIANT ResolvedOnce
CHECK_DEADLOCK FALSE
