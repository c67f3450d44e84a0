--------------------------- MODULE ConversationLog ---------------------------
(***************************************************************************)
(* What the inbound transport promises, without receipts, attempts, locks  *)
(* or processes: each customer has a conversation to which messages are    *)
(* only ever appended; a message that arrived is appended once or given up *)
(* for good; nothing appended is moved, repeated or taken back.            *)
(***************************************************************************)
EXTENDS Sequences

CONSTANTS Messages, Customers, CustomerOf

VARIABLES
    fate,   \* what became of each message
    log     \* the conversation of each customer

Init ==
    /\ fate = [m \in Messages |-> "new"]
    /\ log = [c \in Customers |-> <<>>]

Arrive(m) ==
    /\ fate[m] = "new"
    /\ fate' = [fate EXCEPT ![m] = "waiting"]
    /\ UNCHANGED log

Handle(m) ==
    /\ fate[m] = "waiting"
    /\ fate' = [fate EXCEPT ![m] = "handled"]
    /\ log' = [log EXCEPT ![CustomerOf[m]] = Append(@, m)]

GiveUp(m) ==
    /\ fate[m] = "waiting"
    /\ fate' = [fate EXCEPT ![m] = "lost"]
    /\ UNCHANGED log

Next == \E m \in Messages : Arrive(m) \/ Handle(m) \/ GiveUp(m)

Spec == Init /\ [][Next]_<<fate, log>>
=============================================================================
