------------------------ MODULE MCAdventureClosing ------------------------
(* One instance: one character takes part in every fight, another in the first. *)
EXTENDS AdventureClosing
CONSTANTS ana, bo, ogre, wolf, x1, x2
SomeParty == [f \in Fight |-> IF f = ogre THEN Pc ELSE {ana}]
=============================================================================
