--------------------------- MODULE AtMostOnceSend ---------------------------
(***************************************************************************)
(* What the outbound transport promises for each message, without claims,  *)
(* tokens, retries or processes: the customer gets zero or one copy; a     *)
(* verdict, once given, is "sent" only of a message that was copied; a     *)
(* "refused" message is never copied; a "lost" one (the outcome is not     *)
(* known) may be copied even after the verdict, but is never sent again.   *)
(* After "sent" the provider may still report a failure, and take it back. *)
(***************************************************************************)
CONSTANTS Messages, Copies

VARIABLES
    verdict,    \* what the sender is told of each message
    copies      \* the copies of each message that the customer gets

Init ==
    /\ verdict = [m \in Messages |-> "none"]
    /\ copies = [m \in Messages |-> {}]

Submit(m) ==
    /\ verdict[m] = "none"
    /\ verdict' = [verdict EXCEPT ![m] = "open"]
    /\ UNCHANGED copies

\* The provider takes the message: once, and never a refused one.
Accept(m) ==
    /\ copies[m] = {} /\ verdict[m] \in {"open", "lost"}
    /\ \E c \in Copies : copies' = [copies EXCEPT ![m] = {c}]
    /\ UNCHANGED verdict

Confirm(m) ==
    /\ verdict[m] = "open" /\ copies[m] # {}
    /\ verdict' = [verdict EXCEPT ![m] = "sent"]
    /\ UNCHANGED copies

Refuse(m) ==
    /\ verdict[m] = "open" /\ copies[m] = {}
    /\ verdict' = [verdict EXCEPT ![m] = "refused"]
    /\ UNCHANGED copies

\* Several messages at a time: the expiry of claims is one UPDATE.
GiveUp ==
    \E M \in SUBSET {m \in Messages : verdict[m] = "open"} :
        /\ M # {}
        /\ verdict' = [m \in Messages |-> IF m \in M THEN "lost" ELSE verdict[m]]
        /\ UNCHANGED copies

Report(m) ==
    /\ verdict[m] \in {"sent", "undelivered"}
    /\ \E v \in {"sent", "undelivered"} :
          verdict' = [verdict EXCEPT ![m] = v]
    /\ UNCHANGED copies

Next ==
    \/ \E m \in Messages :
          Submit(m) \/ Accept(m) \/ Confirm(m) \/ Refuse(m) \/ Report(m)
    \/ GiveUp

Spec == Init /\ [][Next]_<<verdict, copies>>
=============================================================================
