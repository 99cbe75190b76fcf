------------------------------- MODULE MCLock -------------------------------
(* A small instance of the lock file protocol for TLC. *)
EXTENDS ProcessLock, TLC

CONSTANTS i1, i2, p1, p2, p3, p4
=============================================================================
