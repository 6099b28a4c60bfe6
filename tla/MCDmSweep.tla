----------------------------- MODULE MCDmSweep -----------------------------
(* Small instances of DmSweep.                                             *)
EXTENDS DmSweep
=============================================================================
