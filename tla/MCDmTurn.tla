------------------------------ MODULE MCDmTurn ------------------------------
EXTENDS DmTurn, TLC
AnyUpset == UpsetKind
AnyPhase == Phase
NoLag == UpsetKind \ {"lag", "catchup"}
EveryWindow == WriteBack
Symmetry == Permutations(Submission) \cup Permutations(Executor)
=============================================================================
