------------------------------ MODULE MCUsers ------------------------------
(* Small instances of Users for TLC.                                       *)
EXTENDS Users, TLC

Symmetry == Permutations(Processes) \cup Permutations(People)
=============================================================================
