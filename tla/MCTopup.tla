------------------------------ MODULE MCTopup ------------------------------
(***************************************************************************)
(* Small instances of the top-up service for TLC.                          *)
(***************************************************************************)
EXTENDS TopupProperties, TLC

CONSTANTS d1, d2, d3, c1, c2

\* Neither deposits nor cycles are told apart by anything but equality.
Symmetry == Permutations(Deposits) \cup Permutations(Cycles)
=============================================================================
