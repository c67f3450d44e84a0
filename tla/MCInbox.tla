------------------------------- MODULE MCInbox -------------------------------
(* Small instances of Inbox for TLC.                                        *)
EXTENDS Inbox

CONSTANTS m1, m2, m3, c1

OneCustomer == [m \in Messages |-> c1]
\* The recovery process cannot read the last message.
WrongKey    == Recoverers \X {m3}
=============================================================================
