---------------------------- MODULE MCIntegration ----------------------------
(* Small instances of Integration for TLC.                                  *)
EXTENDS Integration, TLC

Symmetry == Permutations(Requests) \cup Permutations(States)
=============================================================================
