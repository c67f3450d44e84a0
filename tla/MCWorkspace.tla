---------------------------- MODULE MCWorkspace ----------------------------
(* Small instances of Workspace for TLC.                                   *)
EXTENDS Workspace, TLC

Full == [whatsapp |-> TRUE, knowledge |-> TRUE,
         bots |-> 2, channels |-> 1, entries |-> 1]
Bare == [whatsapp |-> FALSE, knowledge |-> FALSE,
         bots |-> 1, channels |-> 0, entries |-> 0]
MCPlans == {Full, Bare}

Symmetry == Permutations(Processes)
=============================================================================
