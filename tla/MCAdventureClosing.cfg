SPECIFICATION FairSpec
CONSTANTS
  ana = ana
  bo = bo
  ogre = ogre
  wolf = wolf
  x1 = x1
  x2 = x2
  Fight = {ogre}
  Pc = {ana, bo}
  Party <- SomeParty
  MaxArcs = 2
  ChosenStarts = {0}
  Sweeper = {x1, x2}
  MaxAttempts = 2
  MaxFaults = 2
PROPERTIES ClosingEnds
INVARIANTS TypeOK XpAccounted
CHECK_DEADLOCK FALSE
