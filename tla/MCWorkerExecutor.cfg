SPECIFICATION FairSpec
CONSTANTS
  Worker = {w1, w2}
  MaxAttempts = 2
  Lease = 5
  Heartbeat = 2
  MaxFaults = 2
INVARIANTS TypeOK LiveWorkKept LastClaimWins AttemptsAccounted
PROPERTIES SettledForever JobSettles
CHECK_DEADLOCK FALSE
