-------------------------- MODULE MCProviderStatus --------------------------
(* Small instances of ProviderStatus for TLC.                               *)
EXTENDS ProviderStatus, TLC

Symmetry == Permutations(Handlers)
=============================================================================
