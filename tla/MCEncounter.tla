---------------------------- MODULE MCEncounter ----------------------------
EXTENDS Encounter, TLC
CONSTANTS u1, u2, u3, dm0, s1, s2, w1, w2
Users == {u1, u2, u3}
TurnOrder == <<u1, dm0>>
KeyPair == {1, 2}
Servers == {s1, s2}
Sweepers == {w1}
=============================================================================
