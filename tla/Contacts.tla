------------------------------ MODULE Contacts ------------------------------
(***************************************************************************)
(* The contacts of one organization and the customer profiles beside them. *)
(*                                                                         *)
(* Five writers meet on a contact: an inbound message, which resolves the  *)
(* contact of its number inside the transport's transaction; the public    *)
(* registration of the website; the CRM, which locks the contact and       *)
(* checks a version; the older administration, which does neither; and the *)
(* backfill, a batch job that links conversations older than contacts.     *)
(* The unique constraint on the identity is what keeps one contact per     *)
(* number: whoever inserts second waits for the first, then fails.         *)
(***************************************************************************)
EXTENDS Integers

CONSTANTS
    Numbers,        \* identities: normalized numbers of one channel
    Managed,        \* numbers that people ask about, a bound
    Legacy,         \* may have a contact older than registration_ciphertext
    Conversations, Of,      \* Of[c]: the number of the customer
    Processes, NoProcess, NoConversation,
    MaxVersion      \* bound on customer_profile.version

ASSUME ContactsAssumption ==
    /\ Managed \subseteq Numbers /\ Legacy \subseteq Numbers
    /\ Of \in [Conversations -> Numbers]
    /\ NoProcess \notin Processes /\ NoConversation \notin Conversations
    /\ MaxVersion \in Nat \ {0}
    /\ Numbers \cap {"absent", "unlinked"} = {}

VARIABLES
    contact,        \* table contact, by identity
    profile,        \* customer_profile.version; 0: no row
    link,           \* conversation.contact_id
    rowLock,        \* who has a contact, or has inserted it, uncommitted
    call,           \* the requests and messages under way
    fill,           \* the backfill
    saves           \* history: how often a profile has been saved

tables == <<contact, profile, link, saves>>
vars   == <<tables, rowLock, call, fill>>

Notes     == {"none", "text", "evidence"}
NoContact == [status |-> "absent", notes |-> "none", registration |-> FALSE]
Contact   == [status : {"active", "archived"}, notes : Notes,
              registration : BOOLEAN]

\* seen: the contact as the session has it.  version: of the form that is sent.
Call == [op : {"inbound", "register", "enter", "edit", "amend",
               "archive", "reactivate"},
         held : BOOLEAN, on : Numbers, by : Conversations \cup {NoConversation},
         seen : Contact \cup {NoContact}, version : 0..MaxVersion]
Idle == [op |-> "none"]

\* pending: links that are set and not committed.
Fill == [todo : SUBSET Conversations,
         on : Conversations \cup {NoConversation},
         seen : Contact \cup {NoContact}, pending : SUBSET Conversations]
NoFill == [todo |-> {}, on |-> NoConversation, seen |-> NoContact,
           pending |-> {}]

TypeOK ==
    /\ contact \in [Numbers -> Contact \cup {NoContact}]
    /\ profile \in [Numbers -> 0..MaxVersion]
    /\ link \in [Conversations -> Numbers \cup {"absent", "unlinked"}]
    /\ rowLock \in [Numbers -> Processes \cup {NoProcess}]
    /\ call \in [Processes -> Call \cup {Idle}]
    /\ fill \in Fill
    /\ saves \in [Numbers -> Nat]

\* Conversations may be older than contacts; legacy evidence is in the notes.
Init ==
    /\ \E old \in SUBSET Legacy :
          contact = [n \in Numbers |->
                       IF n \in old
                       THEN [NoContact EXCEPT !.status = "active",
                                              !.notes = "evidence"]
                       ELSE NoContact]
    /\ profile = [n \in Numbers |-> 0]
    /\ link \in [Conversations -> {"absent", "unlinked"}]
    /\ rowLock = [n \in Numbers |-> NoProcess]
    /\ call = [p \in Processes |-> Idle]
    /\ fill = NoFill
    /\ saves = [n \in Numbers |-> 0]

-----------------------------------------------------------------------------
(* Contacts and requests.                                                  *)

Exists(n)  == contact[n] # NoContact
RowFree(n) == rowLock[n] = NoProcess

\* _create: what a contact is that is known from a message only.
Fresh == [status |-> "active", notes |-> "none", registration |-> FALSE]

\* preserve_registration, of the contact as the session has it.
Preserves(seen) == ~seen.registration /\ seen.notes = "evidence"

\* New notes as the UPDATE writes them: an equal value is not written.
WithNotes(row, seen, text) ==
    [row EXCEPT !.notes = IF text = "none" /\ seen.notes = "none" THEN @
                                                                  ELSE text,
                !.registration = @ \/ Preserves(seen)]

Doing(p, op) == call[p].op = op

Begin(p, op, n, c) ==
    /\ call[p] = Idle
    /\ call' = [call EXCEPT ![p] = [op |-> op, held |-> FALSE, on |-> n,
                                    by |-> c, seen |-> contact[n],
                                    version |-> profile[n]]]
    /\ UNCHANGED <<tables, rowLock, fill>>

Hold(p, row) ==
    /\ rowLock' = [rowLock EXCEPT ![call[p].on] = p]
    /\ call' = [call EXCEPT ![p].held = TRUE, ![p].seen = row]
    /\ UNCHANGED <<tables, fill>>

Finish(p) ==
    /\ call' = [call EXCEPT ![p] = Idle]
    /\ rowLock' = [n \in Numbers |-> IF rowLock[n] = p THEN NoProcess
                                                       ELSE rowLock[n]]
    /\ UNCHANGED fill

\* A commit that writes nothing but the contact.
Write(p, row) ==
    /\ contact' = [contact EXCEPT ![call[p].on] = row]
    /\ Finish(p)
    /\ UNCHANGED <<profile, link, saves>>

\* A conflict, another failure or a crash; what is uncommitted is gone.
Abandon(p) ==
    /\ call[p] # Idle
    /\ Finish(p)
    /\ UNCHANGED tables

-----------------------------------------------------------------------------
(* An inbound message, in one transaction of the transport.                *)

Receive(p, c) == Begin(p, "inbound", Of[c], c)

\* Insert, or bring back what was archived when it was read; then the lock.
\* The second to insert an identity fails with its whole transaction.
Resolve(p) ==
    LET n == call[p].on  seen == call[p].seen
    IN  /\ Doing(p, "inbound") /\ ~call[p].held
        /\ RowFree(n)
        /\ seen = NoContact => ~Exists(n)
        /\ Hold(p, CASE seen = NoContact         -> Fresh
                     [] seen.status = "archived" ->
                           [contact[n] EXCEPT !.status = "active"]
                     [] OTHER                    -> contact[n])

\* _associate_contact.
MayLink(c, n) == link[c] \in {"absent", "unlinked", n}

RecordInbound(p) ==
    LET n == call[p].on  c == call[p].by
    IN  /\ Doing(p, "inbound") /\ call[p].held
        /\ MayLink(c, n)
        /\ contact' = [contact EXCEPT ![n] = call[p].seen]
        /\ link' = [link EXCEPT ![c] = n]
        /\ Finish(p)
        /\ UNCHANGED <<profile, saves>>

-----------------------------------------------------------------------------
(* The website.                                                            *)

Visit(p, n) == ~Exists(n) /\ Begin(p, "register", n, NoConversation)

\* Who comes second is told that all is well, and changes nothing.
RegisterContact(p) ==
    LET n == call[p].on
    IN  /\ Doing(p, "register") /\ RowFree(n)
        /\ Write(p, IF Exists(n) THEN contact[n]
                                 ELSE [Fresh EXCEPT !.registration = TRUE])

-----------------------------------------------------------------------------
(* The CRM.                                                                *)

NewCustomer(p, n) == ~Exists(n) /\ Begin(p, "enter", n, NoConversation)

CreateCustomer(p, text) ==
    LET n == call[p].on
    IN  /\ Doing(p, "enter") /\ RowFree(n) /\ ~Exists(n)
        /\ contact' = [contact EXCEPT ![n] = [Fresh EXCEPT !.notes = text]]
        /\ profile' = [profile EXCEPT ![n] = 1]
        /\ saves' = [saves EXCEPT ![n] = @ + 1]
        /\ Finish(p)
        /\ UNCHANGED link

\* detail: the form with the version that update sends back.
OpenCustomer(p, n) == Exists(n) /\ Begin(p, "edit", n, NoConversation)

\* Mutant: the contact is read without a lock.
LockCustomerNot(p) ==
    LET n == call[p].on
    IN  /\ Doing(p, "edit") /\ ~call[p].held
        /\ profile[n] = call[p].version
        /\ call' = [call EXCEPT ![p].held = TRUE, ![p].seen = contact[n]]
        /\ UNCHANGED <<tables, rowLock, fill>>

LockCustomer(p) ==
    LET n == call[p].on
    IN  /\ Doing(p, "edit") /\ ~call[p].held /\ RowFree(n)
        /\ profile[n] = call[p].version
        /\ Hold(p, contact[n])

\* text: the new notes, if any.
UpdateCustomer(p, text) ==
    LET n == call[p].on  seen == call[p].seen
    IN  /\ Doing(p, "edit") /\ call[p].held /\ call[p].version < MaxVersion
        /\ contact' = [contact EXCEPT ![n] = IF text \in Notes
                                             THEN WithNotes(@, seen, text)
                                             ELSE @]
        /\ profile' = [profile EXCEPT ![n] = call[p].version + 1]
        /\ saves' = [saves EXCEPT ![n] = @ + 1]
        /\ Finish(p)
        /\ UNCHANGED link

-----------------------------------------------------------------------------
(* The administration of contacts: read, then written without a lock, and  *)
(* past the version of the CRM.                                            *)

Target(op) == IF op = "archive" THEN "archived" ELSE "active"

LoadContact(p, op, n) ==
    /\ Exists(n)
    /\ op # "amend" => contact[n].status # Target(op)
    /\ Begin(p, op, n, NoConversation)

\* Mutant: notes are replaced without a look at what they are.
UpdateContactBlindly(p, text) ==
    /\ Doing(p, "amend") /\ RowFree(call[p].on)
    /\ Write(p, [contact[call[p].on] EXCEPT !.notes = text])

UpdateContact(p, text) ==
    /\ Doing(p, "amend") /\ RowFree(call[p].on)
    /\ Write(p, WithNotes(contact[call[p].on], call[p].seen, text))

SetStatus(p) ==
    LET op == call[p].op
    IN  /\ op \in {"archive", "reactivate"} /\ RowFree(call[p].on)
        /\ Write(p, [contact[call[p].on] EXCEPT !.status = Target(op)])

-----------------------------------------------------------------------------
(* The backfill: the links of a batch are committed with the next contact  *)
(* that is created or brought back, or at the end of the batch; an         *)
(* identity conflict rolls them back.                                      *)

Linked(set) == [c \in Conversations |-> IF c \in set THEN Of[c] ELSE link[c]]

StartBatch ==
    /\ fill = NoFill
    /\ \E c \in Conversations : link[c] = "unlinked"
    /\ fill' = [NoFill EXCEPT !.todo = {c \in Conversations :
                                           link[c] = "unlinked"}]
    /\ UNCHANGED <<tables, rowLock, call>>

ReadNext ==
    /\ fill.on = NoConversation
    /\ \E c \in fill.todo :
          fill' = [fill EXCEPT !.on = c, !.seen = contact[Of[c]]]
    /\ UNCHANGED <<tables, rowLock, call>>

\* What is pending before and after this conversation is done.
Processed(pending) ==
    fill' = [todo |-> fill.todo \ {fill.on}, on |-> NoConversation,
             seen |-> NoContact, pending |-> pending \cup {fill.on}]

\* Nothing to commit: the contact is there, and active.
KeepContact ==
    /\ fill.on # NoConversation /\ fill.seen.status = "active"
    /\ Processed(fill.pending)
    /\ UNCHANGED <<tables, rowLock, call>>

\* The contact is created or brought back, and all that is pending committed.
CommitContact ==
    LET n == Of[fill.on]
    IN  /\ fill.on # NoConversation /\ RowFree(n)
        /\ \/ fill.seen = NoContact /\ ~Exists(n)
           \/ fill.seen.status = "archived"
        /\ contact' = [contact EXCEPT ![n] = IF Exists(n)
                                             THEN [@ EXCEPT !.status = "active"]
                                             ELSE Fresh]
        /\ link' = Linked(fill.pending)
        /\ Processed({})
        /\ UNCHANGED <<profile, saves, rowLock, call>>

\* Somebody else has created it meanwhile: what is pending is rolled back.
LoseBatch ==
    LET n == Of[fill.on]
    IN  /\ fill.on # NoConversation /\ RowFree(n)
        /\ fill.seen = NoContact /\ Exists(n)
        /\ contact' = [contact EXCEPT ![n].status = "active"]
        /\ Processed({})
        /\ UNCHANGED <<profile, link, saves, rowLock, call>>

EndBatch ==
    /\ fill # NoFill /\ fill.todo = {}
    /\ link' = Linked(fill.pending)
    /\ fill' = NoFill
    /\ UNCHANGED <<contact, profile, saves, rowLock, call>>

CrashBackfill ==
    /\ fill # NoFill
    /\ fill' = NoFill
    /\ UNCHANGED <<tables, rowLock, call>>

Backfill == \/ StartBatch \/ ReadNext \/ KeepContact \/ CommitContact
            \/ LoseBatch \/ EndBatch \/ CrashBackfill

-----------------------------------------------------------------------------

Inbound(p) == \/ \E c \in Conversations : Receive(p, c)
              \/ Resolve(p) \/ RecordInbound(p)

Website(p) == (\E n \in Managed : Visit(p, n)) \/ RegisterContact(p)

Crm(p) == \/ \E n \in Managed : NewCustomer(p, n) \/ OpenCustomer(p, n)
          \/ \E text \in {"none", "text"} : CreateCustomer(p, text)
          \/ LockCustomer(p)
          \/ \E text \in {"keep", "none", "text"} : UpdateCustomer(p, text)

Administration(p) ==
    \/ \E n \in Managed : \E op \in {"amend", "archive", "reactivate"} :
          LoadContact(p, op, n)
    \/ \E text \in {"none", "text"} : UpdateContact(p, text)
    \/ SetStatus(p)

Next == \/ Backfill
        \/ \E p \in Processes : \/ Inbound(p) \/ Website(p) \/ Crm(p)
                                \/ Administration(p) \/ Abandon(p)

Spec == Init /\ [][Next]_vars

-----------------------------------------------------------------------------

\* Every save of a customer's card built on the one before it, also the first
\* ones of two people who both opened a card that had no profile; a profile has
\* its contact; a linked conversation has the contact of its own number, though
\* the backfill and a message may link it at the same time.
ContactsAgree ==
    /\ TypeOK
    /\ profile = saves
    /\ \A n \in Numbers : profile[n] > 0 => Exists(n)
    /\ \A c \in Conversations :
          link[c] \in Numbers => link[c] = Of[c] /\ Exists(Of[c])

\* The evidence of a registration is never lost, whoever replaces or removes
\* the notes it may still be in and however old the copy is that they read; and
\* a conversation never loses its contact.
Evidence(row) == row.registration \/ row.notes = "evidence"

EvidenceStays ==
    [][/\ \A n \in Numbers : Evidence(contact[n]) => Evidence(contact'[n])
       /\ \A c \in Conversations : link[c] \in Numbers => link'[c] = link[c]]_vars
=============================================================================
