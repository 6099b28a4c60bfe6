---------------------------- MODULE MCLockOrder ----------------------------
(* Three processes over one table's rows.                                  *)
EXTENDS LockOrder

AllKinds == DOMAIN Plan
=============================================================================
