CONSTANTS
  u1 = u1
  u2 = u2
  u3 = u3
  dm0 = dm0
  s1 = s1
  s2 = s2
  w1 = w1
  w2 = w2
  User <- Users
  Order <- TurnOrder
  Dm = dm0
  Keys <- KeyPair
  Server <- Servers
  Sweeper <- Sweepers
  MaxTurn = 3
  MaxSends = 2
  MaxUpsets = 1
SPECIFICATION FairSpec
INVARIANTS TypeOK AnswersHold
PROPERTIES TurnsEndRightly NpcTurnEnds
CHECK_DEADLOCK FALSE
