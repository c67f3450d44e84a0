------------------------------ MODULE MCBilling ------------------------------
(* Small instances of Billing for TLC.                                      *)
EXTENDS Billing
=============================================================================
