----------------------------- MODULE MCContacts -----------------------------
\* Small instances of Contacts for TLC.
EXTENDS Contacts, TLC

TwoCustomers == ("c1" :> "n1") @@ ("c2" :> "n2")
=============================================================================
