----------------------------- MODULE MCFunding -----------------------------
EXTENDS Funding, TLC
CONSTANTS o1, o2, s1, s2, k1
Ops == {o1, o2}
Servers == {s1, s2}
Keys == {k1}
=============================================================================
