---------------------------- MODULE ContactsProofs ----------------------------
(* The agreement of contacts, customer profiles and links, and the keeping  *)
(* of registration evidence, for any numbers, conversations and processes.  *)
EXTENDS Contacts, TLAPS

\* The inductive invariant.  What is locked has its holder.  What a message has
\* resolved differs from the stored contact in its status alone; what the CRM
\* has locked is the stored contact, at the version of the form.  The
\* administration reads without a lock, yet evidence that stands in the notes
\* alone stood there when it read: nobody writes such notes.
Busy(p) == call[p] # Idle

LocksHeld(p) ==
    Busy(p) /\ call[p].held => /\ rowLock[call[p].on] = p
                              /\ call[p].op \in {"inbound", "edit"}

Known(p) ==
    Busy(p) =>
        /\ ~call[p].held /\ call[p].seen # NoContact => Exists(call[p].on)
        /\ call[p].op \in {"edit", "amend", "archive", "reactivate"} =>
              Exists(call[p].on)

InboundHolds(p) ==
    Doing(p, "inbound") =>
        /\ call[p].by \in Conversations /\ Of[call[p].by] = call[p].on
        /\ call[p].held =>
              /\ call[p].seen \in Contact
              /\ call[p].seen.notes = contact[call[p].on].notes
              /\ call[p].seen.registration = contact[call[p].on].registration

EditHolds(p) ==
    Doing(p, "edit") /\ call[p].held =>
        /\ call[p].seen = contact[call[p].on]
        /\ call[p].version = profile[call[p].on]

AmendSaw(p) ==
    Doing(p, "amend") =>
        (Preserves(contact[call[p].on]) => Preserves(call[p].seen))

FillKnows ==
    /\ fill.on \in Conversations /\ fill.seen # NoContact => Exists(Of[fill.on])
    /\ \A c \in fill.pending : Exists(Of[c])

CallSound(p) ==
    LocksHeld(p) /\ Known(p) /\ InboundHolds(p) /\ EditHolds(p) /\ AmendSaw(p)

Calls == \A p \in Processes : CallSound(p)

IInv == ContactsAgree /\ Calls /\ FillKnows

-----------------------------------------------------------------------------
LEMMA InitIInv == Init => IInv
<1> SUFFICES ASSUME Init PROVE IInv
  OBVIOUS
<1> USE ContactsAssumption DEF Init, Idle, NoFill, NoContact
<1>1. contact \in [Numbers -> Contact \cup {NoContact}]
  <2>1. [NoContact EXCEPT !.status = "active", !.notes = "evidence"] \in Contact
    BY DEF Contact, Notes
  <2> QED BY <2>1
<1>2. fill \in Fill
  BY DEF Fill
<1>3. TypeOK
  BY <1>1, <1>2 DEF TypeOK
<1>4. ContactsAgree
  BY <1>3 DEF ContactsAgree
<1>5. Calls /\ FillKnows
  BY DEF Calls, CallSound, LocksHeld, Known, InboundHolds, EditHolds, AmendSaw,
     FillKnows,
     Busy, Doing
<1> QED BY <1>4, <1>5 DEF IInv

-----------------------------------------------------------------------------
(* What every step does to the tables, whoever takes it.                   *)

\* Contacts stay, and so does evidence; nobody writes evidence into notes; a
\* locked contact is written by the holder of its lock alone.
Kept ==
    \A n \in Numbers :
        /\ Exists(n) => Exists(n)'
        /\ Evidence(contact[n]) => Evidence(contact'[n])
        /\ Preserves(contact'[n]) => Preserves(contact[n])

HolderWrites ==
    \A p \in Processes : call'[p] = call[p] => \A n \in Numbers :
        rowLock[n] = p => /\ rowLock'[n] = p
                          /\ contact'[n] = contact[n]
                          /\ profile'[n] = profile[n]

LEMMA CallIsCall ==
    ASSUME TypeOK, NEW p \in Processes, Busy(p) PROVE call[p] \in Call
BY DEF TypeOK, Busy

LEMMA DoingIsBusy ==
    ASSUME NEW p \in Processes, NEW op \in {"inbound", "register", "enter",
              "edit", "amend", "archive", "reactivate"}, Doing(p, op)
    PROVE  Busy(p)
BY DEF Doing, Busy, Idle

\* New notes: the evidence goes into the column, or was there.
LEMMA NewNotes ==
    ASSUME NEW row \in Contact, NEW seen \in Contact \cup {NoContact},
           NEW text \in {"none", "text"},
           Preserves(row) => Preserves(seen)
    PROVE  LET new == WithNotes(row, seen, text) IN
           /\ new \in Contact
           /\ Evidence(row) => Evidence(new)
           /\ Preserves(new) => Preserves(row)
<1> DEFINE notes == IF text = "none" /\ seen.notes = "none" THEN row.notes ELSE text
           registration == row.registration \/ Preserves(seen)
           new == [row EXCEPT !.notes = notes, !.registration = registration]
<1>1. /\ row.status \in {"active", "archived"} /\ row.notes \in Notes
      /\ row.registration \in BOOLEAN
      /\ row = [status |-> row.status, notes |-> row.notes,
                registration |-> row.registration]
  BY DEF Contact
<1>2. notes \in Notes /\ registration \in BOOLEAN
  BY <1>1 DEF Notes
<1>3. new \in Contact /\ new.notes = notes /\ new.registration = registration
  BY <1>1, <1>2 DEF Contact
<1>4. Evidence(row) => registration \/ notes = "evidence"
  BY <1>1 DEF Evidence, Preserves
<1>5. ~registration /\ notes = "evidence" => ~row.registration /\ row.notes = "evidence"
  BY <1>1
<1>6. WithNotes(row, seen, text) = new
  BY DEF WithNotes
<1> HIDE DEF new, notes, registration
<1> QED BY <1>3, <1>4, <1>5, <1>6 DEF Evidence, Preserves

LEMMA WriteKeeps ==
    ASSUME IInv, NEW p \in Processes, NEW row,
           Busy(p), Write(p, row),
           Exists(call[p].on) => row # NoContact,
           Evidence(contact[call[p].on]) => Evidence(row),
           Preserves(row) => Preserves(contact[call[p].on]),
           RowFree(call[p].on)
    PROVE  Kept /\ HolderWrites
<1>1. call[p] \in Call
  BY CallIsCall DEF IInv, ContactsAgree
<1> QED
  BY <1>1, ContactsAssumption
  DEF IInv, ContactsAgree, TypeOK, Write, Finish, Kept, HolderWrites, Exists,
      RowFree, Call, Busy

LEMMA QuietKeeps ==
    ASSUME UNCHANGED <<contact, profile>>,
           \A p \in Processes : call'[p] = call[p] => \A n \in Numbers :
              rowLock[n] = p => rowLock'[n] = p
    PROVE  Kept /\ HolderWrites
BY DEF Kept, HolderWrites, Exists

LEMMA TablesStep == ASSUME IInv, Next PROVE Kept /\ HolderWrites
<1> USE ContactsAssumption DEF IInv, ContactsAgree, TypeOK, tables
<1>1. ASSUME NEW p \in Processes, Abandon(p) PROVE Kept /\ HolderWrites
  BY <1>1, QuietKeeps DEF Abandon, Finish
<1>2. ASSUME NEW p \in Processes, NEW op, NEW n, NEW c, Begin(p, op, n, c)
      PROVE  Kept /\ HolderWrites
  BY <1>2, QuietKeeps DEF Begin
<1>3. ASSUME NEW p \in Processes, NEW row, Hold(p, row), Busy(p),
             RowFree(call[p].on)
      PROVE  Kept /\ HolderWrites
  BY <1>3, QuietKeeps, CallIsCall DEF Hold, RowFree, Call
<1>4. ASSUME NEW p \in Processes, Resolve(p) \/ LockCustomer(p)
      PROVE  Kept /\ HolderWrites
  BY <1>3, <1>4, DoingIsBusy DEF Resolve, LockCustomer
<1>5. ASSUME NEW p \in Processes, RecordInbound(p) PROVE Kept /\ HolderWrites
  <2>1. /\ call[p] \in Call /\ rowLock[call[p].on] = p
        /\ call[p].seen \in Contact
        /\ call[p].seen.notes = contact[call[p].on].notes
        /\ call[p].seen.registration = contact[call[p].on].registration
    BY <1>5, DoingIsBusy, CallIsCall
    DEF RecordInbound, Calls, CallSound, LocksHeld, InboundHolds
  <2> QED
    BY <1>5, <2>1 DEF RecordInbound, Finish, Kept, HolderWrites, Exists,
       Evidence, Preserves, Contact, NoContact, Call, Idle, Doing
<1>6. ASSUME NEW p \in Processes, RegisterContact(p) PROVE Kept /\ HolderWrites
  BY <1>6, WriteKeeps, DoingIsBusy, CallIsCall
  DEF RegisterContact, Fresh, NoContact, Exists, Evidence, Preserves, Call
<1>7. ASSUME NEW p \in Processes, NEW text \in {"none", "text"},
             CreateCustomer(p, text)
      PROVE  Kept /\ HolderWrites
  BY <1>7, DoingIsBusy, CallIsCall
  DEF CreateCustomer, Finish, Kept, HolderWrites, Exists, RowFree, Fresh,
      Evidence, Preserves, NoContact, Call, Idle, Doing
<1>8. ASSUME NEW p \in Processes, NEW text \in {"keep", "none", "text"},
             UpdateCustomer(p, text)
      PROVE  Kept /\ HolderWrites
  <2>1. /\ call[p] \in Call /\ rowLock[call[p].on] = p
        /\ call[p].seen = contact[call[p].on] /\ Exists(call[p].on)
        /\ call[p].on \in Numbers /\ contact[call[p].on] \in Contact
    BY <1>8, DoingIsBusy, CallIsCall
    DEF UpdateCustomer, Calls, CallSound, LocksHeld, EditHolds, Known, Doing,
        Exists, Call
  <2> DEFINE n == call[p].on
             row == IF text \in Notes THEN WithNotes(contact[n], call[p].seen, text)
                                      ELSE contact[n]
  <2>2. /\ row \in Contact
        /\ Evidence(contact[n]) => Evidence(row)
        /\ Preserves(row) => Preserves(contact[n])
    BY <2>1, NewNotes DEF Notes
  <2>3. /\ contact' = [contact EXCEPT ![n] = row]
        /\ profile' = [profile EXCEPT ![n] = call[p].version + 1]
        /\ call' = [call EXCEPT ![p] = Idle]
        /\ \A q \in Numbers : rowLock[q] # p => rowLock'[q] = rowLock[q]
    BY <1>8 DEF UpdateCustomer, Finish
  <2>4. call[p] # Idle /\ n \in Numbers /\ rowLock[n] = p
    BY <1>8, <2>1, DoingIsBusy DEF UpdateCustomer, Busy
  <2> HIDE DEF n, row
  <2>5. Kept
    BY <2>2, <2>3, <2>4 DEF Kept, Exists, Contact, NoContact
  <2>6. HolderWrites
    BY <2>3, <2>4 DEF HolderWrites
  <2> QED BY <2>5, <2>6
<1>9. ASSUME NEW p \in Processes, NEW text \in {"none", "text"},
             UpdateContact(p, text)
      PROVE  Kept /\ HolderWrites
  <2>1. /\ call[p] \in Call /\ Busy(p) /\ Exists(call[p].on)
        /\ Preserves(contact[call[p].on]) => Preserves(call[p].seen)
    BY <1>9, DoingIsBusy, CallIsCall
    DEF UpdateContact, Calls, CallSound, Known, AmendSaw, Doing
  <2>2. /\ contact[call[p].on] \in Contact /\ call[p].on \in Numbers
        /\ call[p].seen \in Contact \cup {NoContact}
    BY <2>1 DEF Call, Exists
  <2> DEFINE row == WithNotes(contact[call[p].on], call[p].seen, text)
  <2>3. /\ row # NoContact
        /\ Evidence(contact[call[p].on]) => Evidence(row)
        /\ Preserves(row) => Preserves(contact[call[p].on])
    <3>1. row \in Contact
      BY <2>1, <2>2, NewNotes
    <3>2. NoContact \notin Contact
      BY DEF NoContact, Contact
    <3> QED BY <2>1, <2>2, <3>1, <3>2, NewNotes
  <2> QED
    BY <1>9, <2>1, <2>3, WriteKeeps DEF UpdateContact
<1>10. ASSUME NEW p \in Processes, SetStatus(p) PROVE Kept /\ HolderWrites
  <2>1. /\ call[p] \in Call /\ Busy(p) /\ Exists(call[p].on)
    BY <1>10, CallIsCall DEF SetStatus, Calls, CallSound, Known, Busy, Idle
  <2> QED
    BY <1>10, <2>1, WriteKeeps
    DEF SetStatus, Target, Evidence, Preserves, Contact, NoContact, Call, Exists
<1>11. ASSUME Backfill PROVE Kept /\ HolderWrites
  <2>1. CASE CommitContact \/ LoseBatch
    BY <1>11, <2>1 DEF CommitContact, LoseBatch, Processed, RowFree, Kept,
       HolderWrites, Exists, Evidence, Preserves, Fresh, Contact, NoContact, Fill
  <2>2. CASE ~CommitContact /\ ~LoseBatch
    BY <1>11, <2>2, QuietKeeps DEF Backfill, StartBatch, ReadNext, KeepContact,
       EndBatch, CrashBackfill
  <2> QED BY <2>1, <2>2
<1> QED
  BY <1>1, <1>2, <1>4, <1>5, <1>6, <1>7, <1>8, <1>9, <1>10, <1>11
  DEF Next, Inbound, Website, Crm, Administration, Receive, Visit, NewCustomer,
      OpenCustomer, LoadContact

-----------------------------------------------------------------------------
LEMMA TypeStep == ASSUME IInv, Next PROVE TypeOK'
<1> USE ContactsAssumption DEF IInv, ContactsAgree, TypeOK, tables
<1>1. ASSUME NEW p \in Processes, Abandon(p) PROVE TypeOK'
  BY <1>1 DEF Abandon, Finish
<1>2. ASSUME NEW p \in Processes, NEW c \in Conversations \cup {NoConversation},
             NEW n \in Numbers,
             NEW op \in {"inbound", "register", "enter", "edit", "amend",
                         "archive", "reactivate"},
             Begin(p, op, n, c)
      PROVE  TypeOK'
  <2>1. [op |-> op, held |-> FALSE, on |-> n, by |-> c, seen |-> contact[n],
         version |-> profile[n]] \in Call
    BY DEF Call
  <2> QED BY <1>2, <2>1 DEF Begin
<1>3. ASSUME NEW p \in Processes, NEW row \in Contact \cup {NoContact},
             Busy(p), Hold(p, row)
      PROVE  TypeOK'
  <2>1. \A k \in Call : [k EXCEPT !.held = TRUE, !.seen = row] \in Call
    BY DEF Call
  <2>2. call[p] \in Call
    BY <1>3, CallIsCall
  <2>3. [call[p] EXCEPT !.held = TRUE, !.seen = row] \in Call
    BY <2>1, <2>2
  <2>4. call' = [call EXCEPT ![p] = [call[p] EXCEPT !.held = TRUE, !.seen = row]]
    BY <1>3 DEF Hold
  <2>5. call' \in [Processes -> Call \cup {Idle}]
    BY <2>3, <2>4
  <2> QED BY <1>3, <2>5 DEF Hold
<1>4. ASSUME NEW p \in Processes, NEW row \in Contact, Busy(p), Write(p, row)
      PROVE  TypeOK'
  <2>1. call[p].on \in Numbers
    BY <1>4, CallIsCall DEF Call
  <2>2. contact' \in [Numbers -> Contact \cup {NoContact}]
    BY <1>4, <2>1 DEF Write
  <2>3. /\ rowLock' \in [Numbers -> Processes \cup {NoProcess}]
        /\ call' \in [Processes -> Call \cup {Idle}]
        /\ UNCHANGED <<profile, link, saves, fill>>
    BY <1>4 DEF Write, Finish
  <2> QED BY <2>2, <2>3
<1>5. Fresh \in Contact /\ \A r \in Contact : \A st \in {"active", "archived"} :
                             [r EXCEPT !.status = st] \in Contact
  BY DEF Fresh, Contact, Notes
<1>6. ASSUME NEW p \in Processes, Resolve(p) PROVE TypeOK'
  <2>1. /\ Busy(p) /\ call[p] \in Call
        /\ call[p].seen # NoContact => contact[call[p].on] \in Contact
    BY <1>6, DoingIsBusy, CallIsCall DEF Resolve, Calls, CallSound, Known,
       Exists, Call
  <2>2. PICK row \in Contact : Hold(p, row)
    <3>1. CASE call[p].seen = NoContact
      <4>1. Hold(p, Fresh)
        BY <1>6, <3>1 DEF Resolve, NoContact
      <4> QED BY <1>5, <4>1
    <3>2. CASE call[p].seen # NoContact /\ call[p].seen.status = "archived"
      <4>1. [contact[call[p].on] EXCEPT !.status = "active"] \in Contact
        BY <1>5, <2>1, <3>2
      <4>2. Hold(p, [contact[call[p].on] EXCEPT !.status = "active"])
        BY <1>6, <3>2 DEF Resolve
      <4> QED BY <4>1, <4>2
    <3>3. CASE call[p].seen # NoContact /\ call[p].seen.status # "archived"
      BY <1>6, <2>1, <3>3 DEF Resolve
    <3> QED BY <3>1, <3>2, <3>3
  <2> QED BY <1>3, <2>1, <2>2
<1>7. ASSUME NEW p \in Processes, RecordInbound(p) PROVE TypeOK'
  <2>1. call[p] \in Call /\ call[p].seen \in Contact
    BY <1>7, DoingIsBusy, CallIsCall DEF RecordInbound, Calls, CallSound,
       InboundHolds
  <2> QED BY <1>7, <2>1 DEF RecordInbound, Finish, Call
<1>8. ASSUME NEW p \in Processes, RegisterContact(p) PROVE TypeOK'
  <2>1. Busy(p) /\ call[p] \in Call
    BY <1>8, DoingIsBusy, CallIsCall DEF RegisterContact
  <2>2. [Fresh EXCEPT !.registration = TRUE] \in Contact
    BY DEF Fresh, Contact, Notes
  <2> QED BY <1>4, <1>8, <2>1, <2>2 DEF RegisterContact, Exists, Call
<1>9. ASSUME NEW p \in Processes, NEW text \in {"none", "text"},
             CreateCustomer(p, text)
      PROVE  TypeOK'
  <2>1. [Fresh EXCEPT !.notes = text] \in Contact
    BY DEF Fresh, Contact, Notes
  <2> QED
    BY <1>9, <2>1, DoingIsBusy, CallIsCall DEF CreateCustomer, Finish, Call
<1>10. ASSUME NEW p \in Processes, LockCustomer(p) PROVE TypeOK'
  BY <1>3, <1>10, DoingIsBusy, CallIsCall DEF LockCustomer, Call
<1>11. ASSUME NEW p \in Processes, NEW text \in {"keep", "none", "text"},
              UpdateCustomer(p, text)
       PROVE  TypeOK'
  <2> DEFINE n == call[p].on
             row == IF text \in Notes THEN WithNotes(contact[n], call[p].seen, text)
                                      ELSE contact[n]
  <2>1. /\ call[p] \in Call /\ n \in Numbers
        /\ contact[n] \in Contact /\ call[p].seen = contact[n]
    BY <1>11, DoingIsBusy, CallIsCall
    DEF UpdateCustomer, Calls, CallSound, EditHolds, Known, Doing, Exists, Call
  <2>2. row \in Contact
    BY <2>1, NewNotes DEF Notes
  <2>3. call[p].version + 1 \in 0..MaxVersion
    BY <1>11, <2>1 DEF UpdateCustomer, Call
  <2>4. /\ contact' = [contact EXCEPT ![n] = row]
        /\ profile' = [profile EXCEPT ![n] = call[p].version + 1]
        /\ saves' = [saves EXCEPT ![n] = saves[n] + 1]
        /\ Finish(p) /\ UNCHANGED link
    BY <1>11 DEF UpdateCustomer
  <2> HIDE DEF n, row
  <2> QED BY <2>1, <2>2, <2>3, <2>4 DEF Finish
<1>12. ASSUME NEW p \in Processes, NEW text \in {"none", "text"},
              UpdateContact(p, text)
       PROVE  TypeOK'
  <2>1. /\ call[p] \in Call /\ Busy(p) /\ contact[call[p].on] \in Contact
        /\ Preserves(contact[call[p].on]) => Preserves(call[p].seen)
        /\ call[p].seen \in Contact \cup {NoContact}
    BY <1>12, DoingIsBusy, CallIsCall
    DEF UpdateContact, Calls, CallSound, Known, AmendSaw, Doing, Exists, Call
  <2>2. WithNotes(contact[call[p].on], call[p].seen, text) \in Contact
    BY <2>1, NewNotes
  <2> QED BY <1>4, <1>12, <2>1, <2>2 DEF UpdateContact
<1>13. ASSUME NEW p \in Processes, SetStatus(p) PROVE TypeOK'
  <2>1. Busy(p) /\ call[p] \in Call /\ contact[call[p].on] \in Contact
    BY <1>13, CallIsCall DEF SetStatus, Calls, CallSound, Known, Busy, Idle,
       Exists, Call
  <2> QED BY <1>4, <1>5, <1>13, <2>1 DEF SetStatus, Target
<1>14. ASSUME Backfill PROVE TypeOK'
  <2> USE DEF Fill, NoFill
  <2>1. ASSUME NEW set \in SUBSET Conversations
        PROVE  Linked(set) \in [Conversations -> Numbers \cup {"absent", "unlinked"}]
    BY DEF Linked
  <2>2. CASE CommitContact
    <3>1. fill' \in Fill
      BY <2>2 DEF CommitContact, Processed
    <3>2. contact' \in [Numbers -> Contact \cup {NoContact}]
      BY <1>5, <2>2 DEF CommitContact, Exists
    <3> QED BY <2>1, <2>2, <3>1, <3>2 DEF CommitContact
  <2>3. CASE LoseBatch
    BY <1>5, <2>3 DEF LoseBatch, Processed, Exists
  <2>4. CASE EndBatch
    BY <2>1, <2>4 DEF EndBatch
  <2>5. CASE KeepContact
    BY <2>5 DEF KeepContact, Processed
  <2>6. CASE StartBatch \/ CrashBackfill
    BY <2>6 DEF StartBatch, CrashBackfill
  <2>7. CASE ReadNext
    <3>1. PICK c \in fill.todo : fill' = [fill EXCEPT !.on = c, !.seen = contact[Of[c]]]
      BY <2>7 DEF ReadNext
    <3> QED BY <2>7, <3>1 DEF ReadNext
  <2> QED BY <1>14, <2>2, <2>3, <2>4, <2>5, <2>6, <2>7 DEF Backfill
<1> QED
  BY <1>1, <1>2, <1>6, <1>7, <1>8, <1>9, <1>10, <1>11, <1>12, <1>13, <1>14
  DEF Next, Inbound, Website, Crm, Administration, Receive, Visit, NewCustomer,
      OpenCustomer, LoadContact

-----------------------------------------------------------------------------
\* What a request knows stays true under the steps of others.
LEMMA OthersStep ==
    ASSUME IInv, Kept, HolderWrites, TypeOK', NEW q \in Processes, call'[q] = call[q]
    PROVE  CallSound(q)'
<1>1. CASE ~Busy(q)
  BY <1>1 DEF Busy, CallSound, LocksHeld, Known, InboundHolds, EditHolds, AmendSaw,
     Doing, Idle
<1>2. CASE Busy(q)
  <2>1. call[q] \in Call /\ call[q].on \in Numbers /\ CallSound(q)
    BY <1>2, CallIsCall DEF IInv, ContactsAgree, Calls, Call
  <2>2. LocksHeld(q)'
    BY <2>1, <1>2 DEF HolderWrites, CallSound, LocksHeld, Busy
  <2>3. Known(q)'
    BY <2>1, <1>2 DEF Kept, CallSound, Known, Busy, Exists
  <2>4. InboundHolds(q)'
    BY <2>1, <1>2 DEF HolderWrites, CallSound, LocksHeld, InboundHolds, Busy, Doing
  <2>5. EditHolds(q)'
    BY <2>1, <1>2 DEF HolderWrites, CallSound, LocksHeld, EditHolds, Busy, Doing
  <2>6. AmendSaw(q)'
    BY <2>1, <1>2 DEF Kept, CallSound, AmendSaw, Doing
  <2> QED BY <2>2, <2>3, <2>4, <2>5, <2>6 DEF CallSound
<1> QED BY <1>1, <1>2

\* One that begins, takes its lock or ends knows what it should.
LEMMA OwnStep ==
    ASSUME IInv, TypeOK', NEW p \in Processes,
           Inbound(p) \/ Website(p) \/ Crm(p) \/ Administration(p) \/ Abandon(p)
    PROVE  CallSound(p)' /\ \A q \in Processes \ {p} : call'[q] = call[q]
<1> USE ContactsAssumption
<1> DEFINE Good == CallSound(p)' /\ \A q \in Processes \ {p} : call'[q] = call[q]
<1>0. TypeOK
  BY DEF IInv, ContactsAgree
<1>1. ASSUME Finish(p) PROVE Good
  BY <1>0, <1>1 DEF TypeOK, Finish, CallSound, LocksHeld, Known, InboundHolds,
     EditHolds, AmendSaw, Busy, Doing, Idle
<1>2. ASSUME NEW n \in Numbers, NEW op, NEW c, Begin(p, op, n, c),
             op \in {"edit", "amend", "archive", "reactivate"} => Exists(n),
             op = "inbound" => c \in Conversations /\ Of[c] = n
      PROVE  Good
  <2>1. /\ call'[p] = [op |-> op, held |-> FALSE, on |-> n, by |-> c,
                       seen |-> contact[n], version |-> profile[n]]
        /\ \A q \in Processes \ {p} : call'[q] = call[q]
        /\ contact' = contact
    BY <1>0, <1>2 DEF TypeOK, Begin, tables
  <2> QED
    BY <1>2, <2>1 DEF CallSound, LocksHeld, Known, InboundHolds,
       EditHolds, AmendSaw, Busy, Doing, Exists
<1>3. ASSUME NEW row, Hold(p, row), Busy(p), ~call[p].held
      PROVE  /\ call'[p] = [call[p] EXCEPT !.held = TRUE, !.seen = row]
             /\ \A q \in Processes \ {p} : call'[q] = call[q]
             /\ call[p] \in Call /\ rowLock'[call[p].on] = p
             /\ call'[p].op = call[p].op /\ call'[p].on = call[p].on
             /\ call'[p].by = call[p].by /\ call'[p].version = call[p].version
             /\ call'[p].held = TRUE /\ call'[p].seen = row
             /\ contact' = contact /\ profile' = profile
  <2>1. call[p] \in Call
    BY <1>3, CallIsCall, <1>0
  <2>2. call'[p] = [call[p] EXCEPT !.held = TRUE, !.seen = row]
    BY <1>0, <1>3 DEF TypeOK, Hold
  <2> QED
    BY <1>0, <1>3, <2>1, <2>2 DEF TypeOK, Hold, Call, tables
<1>4. ASSUME Resolve(p) PROVE Good
  <2>0. /\ Busy(p) /\ ~call[p].held /\ call[p].op = "inbound" /\ call[p] \in Call
        /\ call[p].on \in Numbers
        /\ call[p].by \in Conversations /\ Of[call[p].by] = call[p].on
        /\ call[p].seen # NoContact => contact[call[p].on] \in Contact
    BY <1>0, <1>4, DoingIsBusy, CallIsCall
    DEF TypeOK, Resolve, IInv, Calls, CallSound, InboundHolds, Known, Doing, Call,
        Exists
  <2>1. PICK row \in Contact : /\ Hold(p, row)
                              /\ row.notes = contact[call[p].on].notes
                              /\ row.registration = contact[call[p].on].registration
    <3>1. CASE call[p].seen = NoContact
      <4>1. Hold(p, Fresh)
        BY <1>4, <3>1 DEF Resolve, NoContact
      <4>2. contact[call[p].on] = NoContact
        BY <1>4, <3>1 DEF Resolve, Exists
      <4>3. /\ Fresh \in Contact /\ Fresh.notes = NoContact.notes
            /\ Fresh.registration = NoContact.registration
        BY DEF Fresh, NoContact, Contact, Notes
      <4> QED BY <4>1, <4>2, <4>3
    <3>2. CASE call[p].seen # NoContact /\ call[p].seen.status = "archived"
      <4>1. Hold(p, [contact[call[p].on] EXCEPT !.status = "active"])
        BY <1>4, <3>2 DEF Resolve
      <4>2. \A r \in Contact :
               LET new == [r EXCEPT !.status = "active"] IN
               new \in Contact /\ new.notes = r.notes /\ new.registration = r.registration
        BY DEF Contact
      <4> QED BY <2>0, <3>2, <4>1, <4>2
    <3>3. CASE call[p].seen # NoContact /\ call[p].seen.status # "archived"
      BY <1>4, <2>0, <3>3 DEF Resolve
    <3> QED BY <3>1, <3>2, <3>3
  <2>2. /\ call'[p].op = "inbound" /\ call'[p].held = TRUE
        /\ call'[p].seen \in Contact
        /\ call'[p].seen.notes = contact'[call'[p].on].notes
        /\ call'[p].seen.registration = contact'[call'[p].on].registration
        /\ call'[p].by \in Conversations /\ Of[call'[p].by] = call'[p].on
        /\ rowLock'[call'[p].on] = p
        /\ \A q \in Processes \ {p} : call'[q] = call[q]
    BY <1>3, <2>0, <2>1
  <2> QED
    BY <2>2 DEF CallSound, LocksHeld, Known, InboundHolds, EditHolds,
       AmendSaw, Busy, Doing, Exists
<1>5. ASSUME LockCustomer(p) PROVE Good
  <2>1. /\ Busy(p) /\ ~call[p].held /\ call[p].op = "edit"
        /\ Exists(call[p].on) /\ profile[call[p].on] = call[p].version
        /\ Hold(p, contact[call[p].on])
    BY <1>0, <1>5, DoingIsBusy
    DEF LockCustomer, IInv, Calls, CallSound, Known, Doing
  <2>2. /\ call'[p].op = "edit" /\ call'[p].held = TRUE
        /\ call'[p].seen = contact'[call'[p].on]
        /\ call'[p].version = profile'[call'[p].on]
        /\ rowLock'[call'[p].on] = p /\ contact'[call'[p].on] # NoContact
        /\ \A q \in Processes \ {p} : call'[q] = call[q]
    BY <1>3, <2>1 DEF Exists
  <2> QED
    BY <2>2 DEF CallSound, LocksHeld, Known, InboundHolds, EditHolds,
       AmendSaw, Busy, Doing, Exists
<1>6. CASE Inbound(p)
  <2>1. ASSUME NEW c \in Conversations, Receive(p, c) PROVE Good
    BY <1>2, <2>1 DEF Receive
  <2> QED BY <1>1, <1>4, <1>6, <2>1 DEF Inbound, RecordInbound
<1>7. CASE Website(p)
  BY <1>1, <1>2, <1>7 DEF Website, Visit, RegisterContact, Write
<1>8. CASE Crm(p)
  BY <1>1, <1>2, <1>5, <1>8
  DEF Crm, NewCustomer, OpenCustomer, CreateCustomer, UpdateCustomer
<1>9. CASE Administration(p)
  <2>1. ASSUME NEW n \in Managed, NEW op \in {"amend", "archive", "reactivate"},
               LoadContact(p, op, n)
        PROVE  Good
    BY <1>2, <2>1 DEF LoadContact
  <2> QED BY <1>1, <1>9, <2>1 DEF Administration, UpdateContact, SetStatus, Write
<1> QED BY <1>1, <1>6, <1>7, <1>8, <1>9 DEF Abandon

LEMMA CallsStep == ASSUME IInv, Next PROVE Calls'
<1>1. Kept /\ HolderWrites /\ TypeOK'
  BY TablesStep, TypeStep
<1>2. CASE Backfill
  <2>1. call' = call
    BY <1>2 DEF Backfill, StartBatch, ReadNext, KeepContact, CommitContact,
       LoseBatch, EndBatch, CrashBackfill
  <2> QED BY <1>1, <2>1, OthersStep DEF Calls
<1>3. ASSUME NEW p \in Processes,
             Inbound(p) \/ Website(p) \/ Crm(p) \/ Administration(p) \/ Abandon(p)
      PROVE  Calls'
  BY <1>1, <1>3, OwnStep, OthersStep DEF Calls
<1> QED BY <1>2, <1>3 DEF Next

-----------------------------------------------------------------------------
(* The backfill, the versions and the links.                               *)

LEMMA FillStep == ASSUME IInv, Next PROVE FillKnows'
<1>1. Kept
  BY TablesStep
<1> USE ContactsAssumption DEF FillKnows
<1>2. TypeOK /\ FillKnows
  BY DEF IInv, ContactsAgree
<1>3. CASE UNCHANGED fill
  BY <1>1, <1>2, <1>3 DEF Kept, TypeOK, Fill, Exists
<1>4. CASE StartBatch
  BY <1>4 DEF StartBatch, NoFill
<1>5. CASE ReadNext
  <2>1. PICK c \in fill.todo : fill' = [fill EXCEPT !.on = c, !.seen = contact[Of[c]]]
    BY <1>5 DEF ReadNext
  <2>2. /\ fill'.on = c /\ fill'.seen = contact[Of[c]]
        /\ fill'.pending = fill.pending /\ contact' = contact
    BY <1>2, <1>5, <2>1 DEF TypeOK, Fill, ReadNext, tables
  <2> QED BY <1>2, <2>2 DEF Exists
<1>6. CASE KeepContact \/ CommitContact \/ LoseBatch
  <2>1. /\ fill'.on = NoConversation /\ fill.on \in Conversations
        /\ fill'.pending \subseteq fill.pending \cup {fill.on}
    BY <1>2, <1>6 DEF KeepContact, CommitContact, LoseBatch, Processed, TypeOK, Fill
  <2>2. contact'[Of[fill.on]] # NoContact
    <3>1. CASE KeepContact
      BY <1>2, <2>1, <3>1 DEF KeepContact, NoContact, Exists, tables
    <3>2. CASE CommitContact
      <4>1. /\ Of[fill.on] \in Numbers
            /\ contact'[Of[fill.on]].status = "active"
        BY <1>2, <2>1, <3>2 DEF CommitContact, TypeOK, Fresh, Exists, Contact
      <4> QED BY <4>1 DEF NoContact
    <3>3. CASE LoseBatch
      <4>1. /\ Of[fill.on] \in Numbers /\ Exists(Of[fill.on])
        BY <2>1, <3>3 DEF LoseBatch
      <4> QED BY <1>1, <4>1 DEF Kept, Exists
    <3> QED BY <1>6, <3>1, <3>2, <3>3
  <2> QED BY <1>1, <1>2, <2>1, <2>2 DEF Kept, Exists, TypeOK, Fill
<1>7. CASE EndBatch \/ CrashBackfill
  BY <1>7 DEF EndBatch, CrashBackfill, NoFill
<1>8. ASSUME NEW p \in Processes,
             Inbound(p) \/ Website(p) \/ Crm(p) \/ Administration(p) \/ Abandon(p)
      PROVE  UNCHANGED fill
  BY <1>8 DEF Inbound, Website, Crm, Administration, Abandon, Receive, Resolve,
     RecordInbound, Visit, RegisterContact, NewCustomer, CreateCustomer,
     OpenCustomer, LockCustomer, UpdateCustomer, LoadContact, UpdateContact,
     SetStatus, Begin, Hold, Write, Finish
<1> QED BY <1>3, <1>4, <1>5, <1>6, <1>7, <1>8 DEF Next, Backfill

\* Links are of the own number, and stay.
LinkGrows ==
    \A c \in Conversations :
        \/ link'[c] = link[c]
        \/ link'[c] = Of[c] /\ Exists(Of[c])'

\* A profile is raised with its history, for a contact that is there.
SavesGrow ==
    \A n \in Numbers :
        \/ profile'[n] = profile[n] /\ saves'[n] = saves[n]
        \/ profile'[n] = profile[n] + 1 /\ saves'[n] = saves[n] + 1 /\ Exists(n)'

LEMMA GrowthStep == ASSUME IInv, Next PROVE LinkGrows /\ SavesGrow
<1> USE ContactsAssumption
<1>1. Kept /\ TypeOK'
  BY TablesStep, TypeStep
<1>2. /\ TypeOK /\ FillKnows /\ Calls /\ profile = saves
      /\ \A n \in Numbers : profile[n] > 0 => Exists(n)
  BY DEF IInv, ContactsAgree
<1>3. CASE UNCHANGED <<profile, link, saves>>
  BY <1>3 DEF LinkGrows, SavesGrow
<1>4. ASSUME NEW set \in SUBSET Conversations, link' = Linked(set),
             UNCHANGED <<profile, saves>>,
             \A c \in set : Exists(Of[c])'
      PROVE  LinkGrows /\ SavesGrow
  BY <1>2, <1>4 DEF LinkGrows, SavesGrow, Linked, TypeOK
<1>5. CASE CommitContact \/ EndBatch
  <2>1. fill.pending \in SUBSET Conversations
    BY <1>2 DEF TypeOK, Fill
  <2> QED
    BY <1>1, <1>2, <1>4, <1>5, <2>1
    DEF CommitContact, EndBatch, FillKnows, Kept, TypeOK
<1>6. ASSUME NEW p \in Processes, RecordInbound(p) PROVE LinkGrows /\ SavesGrow
  <2>1. /\ call[p] \in Call /\ Of[call[p].by] = call[p].on /\ call[p].on \in Numbers
        /\ call[p].seen \in Contact /\ NoContact \notin Contact
    BY <1>2, <1>6, DoingIsBusy, CallIsCall
    DEF RecordInbound, Calls, CallSound, InboundHolds, Call, Contact, NoContact
  <2> QED
    BY <1>2, <1>6, <2>1 DEF RecordInbound, LinkGrows, SavesGrow, Exists, TypeOK
<1>7. ASSUME NEW p \in Processes, NEW text \in {"none", "text"},
             CreateCustomer(p, text)
      PROVE  LinkGrows /\ SavesGrow
  <2>1. /\ call[p].on \in Numbers /\ ~Exists(call[p].on)
        /\ profile[call[p].on] = 0
    BY <1>2, <1>7, DoingIsBusy, CallIsCall DEF CreateCustomer, Call, TypeOK
  <2>2. contact'[call[p].on] # NoContact
    <3>1. contact'[call[p].on].status = "active"
      BY <1>2, <1>7, <2>1 DEF CreateCustomer, TypeOK, Fresh
    <3> QED BY <3>1 DEF NoContact
  <2> QED
    BY <1>2, <1>7, <2>1, <2>2
    DEF CreateCustomer, LinkGrows, SavesGrow, TypeOK, Exists
<1>8. ASSUME NEW p \in Processes, NEW text \in {"keep", "none", "text"},
             UpdateCustomer(p, text)
      PROVE  LinkGrows /\ SavesGrow
  <2>1. /\ call[p].on \in Numbers /\ Exists(call[p].on)
        /\ call[p].version = profile[call[p].on]
    BY <1>2, <1>8, DoingIsBusy, CallIsCall
    DEF UpdateCustomer, Calls, CallSound, EditHolds, Known, Doing, Call
  <2>2. contact'[call[p].on] # NoContact
    BY <1>1, <2>1 DEF Kept, Exists
  <2> QED
    BY <1>2, <1>8, <2>1, <2>2
    DEF UpdateCustomer, LinkGrows, SavesGrow, TypeOK, Exists
<1>9. ASSUME Next, ~CommitContact, ~EndBatch,
             \A p \in Processes :
                /\ ~RecordInbound(p)
                /\ \A text \in {"none", "text"} : ~CreateCustomer(p, text)
                /\ \A text \in {"keep", "none", "text"} : ~UpdateCustomer(p, text)
      PROVE  UNCHANGED <<profile, link, saves>>
  BY <1>9 DEF Next, Backfill, Inbound, Website, Crm, Administration, Abandon,
     Receive, Resolve, Visit, RegisterContact, NewCustomer, OpenCustomer,
     LockCustomer, LoadContact, UpdateContact, SetStatus, Begin, Hold, Write,
     StartBatch, ReadNext, KeepContact, LoseBatch, CrashBackfill, tables
<1> QED BY <1>3, <1>5, <1>6, <1>7, <1>8, <1>9

LEMMA AgreeStep == ASSUME IInv, Next PROVE ContactsAgree'
<1>1. Kept /\ TypeOK' /\ LinkGrows /\ SavesGrow
  BY TablesStep, TypeStep, GrowthStep
<1>2. ContactsAgree /\ TypeOK
  BY DEF IInv, ContactsAgree
<1> USE ContactsAssumption
<1>3. (profile = saves)'
  BY <1>1, <1>2 DEF ContactsAgree, SavesGrow, TypeOK
<1>4. (\A n \in Numbers : profile[n] > 0 => Exists(n))'
  BY <1>1, <1>2 DEF ContactsAgree, SavesGrow, Kept, TypeOK
<1>5. (\A c \in Conversations :
          link[c] \in Numbers => link[c] = Of[c] /\ Exists(Of[c]))'
  BY <1>1, <1>2 DEF ContactsAgree, LinkGrows, Kept, TypeOK
<1> QED BY <1>1, <1>3, <1>4, <1>5 DEF ContactsAgree

THEOREM Invariance == Spec => []IInv
<1>1. IInv /\ [Next]_vars => IInv'
  <2>1. ASSUME IInv, UNCHANGED vars PROVE IInv'
    BY <2>1 DEF vars, tables, IInv, ContactsAgree, TypeOK, Calls, CallSound,
       LocksHeld, Known, InboundHolds, EditHolds, AmendSaw, FillKnows, Busy,
       Doing, Exists
  <2> QED BY <2>1, AgreeStep, CallsStep, FillStep DEF IInv
<1> QED
  BY InitIInv, <1>1, PTL DEF Spec

-----------------------------------------------------------------------------
(* The theorems.                                                           *)

\* No save of a customer's card is lost, a profile has its contact, and links
\* are right, for any numbers, conversations and processes.
THEOREM Agreement == Spec => []ContactsAgree
<1>1. IInv => ContactsAgree
  BY DEF IInv
<1> QED BY Invariance, <1>1, PTL

\* Nobody takes the evidence of a registration away, and no conversation loses
\* its contact.
THEOREM EvidenceKept == Spec => EvidenceStays
<1> DEFINE Stays == /\ \A n \in Numbers : Evidence(contact[n]) => Evidence(contact'[n])
                    /\ \A c \in Conversations : link[c] \in Numbers => link'[c] = link[c]
<1>1. IInv /\ [Next]_vars => [Stays]_vars
  <2>1. ASSUME IInv, Next PROVE Stays
    <3>1. Kept /\ LinkGrows
      BY <2>1, TablesStep, GrowthStep
    <3>2. \A c \in Conversations : link[c] \in Numbers => link[c] = Of[c]
      BY <2>1 DEF IInv, ContactsAgree
    <3> QED BY <3>1, <3>2 DEF Kept, LinkGrows
  <2> QED BY <2>1
<1> QED
  BY Invariance, <1>1, PTL DEF Spec, EvidenceStays
===============================================================================
