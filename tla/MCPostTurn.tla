----------------------------- MODULE MCPostTurn -----------------------------
EXTENDS PostTurn, TLC

CONSTANTS s1, s2
Sym == Permutations(Sweep)
=============================================================================
