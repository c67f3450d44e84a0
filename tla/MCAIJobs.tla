------------------------------ MODULE MCAIJobs ------------------------------
(* Small instances of AIJobs for TLC.                                       *)
EXTENDS AIJobs
=============================================================================
