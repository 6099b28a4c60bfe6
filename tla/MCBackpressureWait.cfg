CONSTANTS
  s1 = s1
  s2 = s2
  MaxSeq = 4
  Threshold = 2
  MaxAttempts = 2
  SafeLag = 2
  Sweep = {s1, s2}
  MaxUpsets = 0
  Upsets = {"crash", "error", "lease", "unstaged", "skip", "turn"}
SPECIFICATION FairSpec

PROPERTY PausedTurnResumes
CHECK_DEADLOCK FALSE
