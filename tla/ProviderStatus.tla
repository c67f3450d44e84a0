--------------------------- MODULE ProviderStatus ---------------------------
(***************************************************************************)
(* How the delivery reports of Meta reach one outbound row and its history *)
(* row.  The row is settled by a sender (the recovery worker, a process of *)
(* its own) and updated by webhook handlers.  A handler first reads the    *)
(* row without a lock; the SELECT ... FOR UPDATE of update_provider_status *)
(* then returns the same object of the session, whose attributes it does   *)
(* not load again (other queries of the repository ask for that with       *)
(* populate_existing), so the guards are evaluated on the first read, and  *)
(* only the columns that differ from it are written.                       *)
(*                                                                         *)
(* Reports carry whole seconds, mark_sent writes a clock reading: a second *)
(* is TicksPerSecond ticks, and time runs up to MaxTime, the only bound.   *)
(***************************************************************************)
EXTENDS Integers, FiniteSets

CONSTANTS
    Handlers,       \* webhook requests being served
    Sender,         \* the process that sent the message
    TicksPerSecond,
    MaxTime,
    MayCrash        \* whether processes die

ASSUME StatusAssumption ==
    /\ Sender \notin Handlers
    /\ TicksPerSecond \in Nat \ {0} /\ MaxTime \in Nat
    /\ MayCrash \in BOOLEAN

VARIABLES
    now,        \* the time, in ticks
    known,      \* mark_sent has stored the provider's message id
    row,        \* status, provider_status_updated_at and last_error_code
    history,    \* message.delivery_status
    emitted,    \* what Meta has reported
    flight,     \* the reports it has not had acknowledged
    sentAt,     \* sent_at
    heard,      \* the reports that were handled and found the row
    stage, report, snap, seen   \* of each process: its stage, the report it
                                \* serves, its first read, and what it copies

rowVars    == <<known, row, sentAt, history>>
procVars   == <<stage, report, snap, seen>>
statusVars == <<now, rowVars, emitted, flight, heard, procVars>>

DeliveryStatuses == {"pending", "sent", "delivered", "read", "failed"}
Reported == DeliveryStatuses \ {"pending"}
Procs    == Handlers \cup {Sender}

\* _PROVIDER_STATUS_RANK
Rank(st) == CASE st = "pending"   -> 0
              [] st = "delivered" -> 2
              [] st = "read"      -> 3
              [] OTHER            -> 1

Rows     == [status : DeliveryStatuses, stamp : 0..MaxTime,
             code : {"none", "provider"}]
Reports  == [status : Reported, at : 0..MaxTime]
NoRow    == [status |-> "pending", stamp |-> 0, code |-> "none"]
NoReport == [status |-> "sent", at |-> 0]

\* _timestamp: the report's time in whole seconds.
Stamp(e) == (e.at \div TicksPerSecond) * TicksPerSecond

StatusTypeOK ==
    /\ now \in 0..MaxTime /\ known \in BOOLEAN /\ row \in Rows
    /\ sentAt \in 0..MaxTime /\ history \in DeliveryStatuses
    /\ emitted \subseteq Reports /\ flight \subseteq emitted
    /\ heard \subseteq emitted
    /\ stage \in [Procs -> {"idle", "settle", "update", "sync", "copy"}]
    /\ report \in [Procs -> Reports]
    /\ snap \in [Procs -> Rows] /\ seen \in [Procs -> DeliveryStatuses]

\* The provider has taken the message; its answer is on the way.
StatusInit ==
    /\ now = 0 /\ known = FALSE /\ row = NoRow /\ sentAt = 0 /\ history = "pending"
    /\ emitted = {} /\ flight = {} /\ heard = {}
    /\ stage = [p \in Procs |-> IF p = Sender THEN "settle" ELSE "idle"]
    /\ report = [p \in Procs |-> NoReport]
    /\ snap = [p \in Procs |-> NoRow]
    /\ seen = [p \in Procs |-> "pending"]

-----------------------------------------------------------------------------
Tick ==
    /\ now < MaxTime
    /\ now' = now + 1
    /\ UNCHANGED <<rowVars, emitted, flight, heard, procVars>>

Newest(E) == CHOOSE e \in E : \A f \in E : f.at <= e.at

\* Meta reports sent, delivered and read in this order, or a failure instead
\* of the delivery, each at an instant of its own.
Follows(st) ==
    IF emitted = {} THEN {"sent", "failed"}
    ELSE CASE st = "sent"      -> {"delivered", "failed"}
           [] st = "delivered" -> {"read"}
           [] OTHER            -> {}

Emit(st) ==
    /\ st \in Follows(IF emitted = {} THEN "pending" ELSE Newest(emitted).status)
    /\ \A e \in emitted : e.at < now
    /\ emitted' = emitted \cup {[status |-> st, at |-> now]}
    /\ flight' = flight \cup {[status |-> st, at |-> now]}
    /\ UNCHANGED <<now, rowVars, heard, procVars>>

\* mark_sent
MarkSent ==
    /\ stage[Sender] = "settle"
    /\ known' = TRUE
    /\ row' = [status |-> "sent", stamp |-> now, code |-> "none"]
    /\ sentAt' = now
    /\ stage' = [stage EXCEPT ![Sender] = "sync"]
    /\ UNCHANGED <<now, history, emitted, flight, heard, report, snap, seen>>

\* _process_status reads the row; a report of an unknown message finds none.
ReadRow(h, e) ==
    /\ stage[h] = "idle" /\ e \in flight
    /\ report' = [report EXCEPT ![h] = e]
    /\ snap' = [snap EXCEPT ![h] = row]
    /\ stage' = [stage EXCEPT ![h] = "update"]
    /\ UNCHANGED <<now, rowVars, emitted, flight, heard, seen>>

Acknowledge(h) ==
    /\ flight' = flight \ {report[h]}
    /\ stage' = [stage EXCEPT ![h] = "idle"]

\* The object that the guards see: the first read, when it found the row.
Loaded(h) == IF snap[h] = NoRow THEN row ELSE snap[h]

\* Mutants: the guard on the stamp is missing; both are.
AcceptsRank(base, e) == Rank(e.status) >= Rank(base.status)
AcceptsAll(base, e)  == e.status \in Reported

\* The two guards of update_provider_status.
Accepts(base, e) ==
    /\ Stamp(e) >= base.stamp
    /\ Rank(e.status) >= Rank(base.status)

\* Mutant: the error column gets the status.
WrittenWithStatus(base, e) ==
    [status |-> e.status, stamp |-> Stamp(e), code |-> e.status]

\* The flush writes the columns that differ from the loaded ones.
Written(base, e) ==
    LET c == IF e.status = "failed" THEN "provider" ELSE "none"
    IN  [status |-> IF e.status # base.status THEN e.status ELSE row.status,
         stamp  |-> IF Stamp(e) # base.stamp THEN Stamp(e) ELSE row.stamp,
         code   |-> IF c # base.code THEN c ELSE row.code]

\* update_provider_status and its commit.
UpdateStatus(h) ==
    LET e == report[h]
    IN  /\ stage[h] = "update"
        /\ heard' = IF known THEN heard \cup {e} ELSE heard
        /\ \/ /\ known /\ Accepts(Loaded(h), e)
              /\ row' = Written(Loaded(h), e)
              /\ \/ snap[h] # NoRow /\ stage' = [stage EXCEPT ![h] = "sync"]
                    /\ UNCHANGED flight
                 \/ snap[h] = NoRow /\ Acknowledge(h)
           \/ /\ ~(known /\ Accepts(Loaded(h), e))
              /\ Acknowledge(h)
              /\ UNCHANGED row
        /\ snap' = [snap EXCEPT ![h] = NoRow]
        /\ UNCHANGED <<now, known, sentAt, history, emitted, report, seen>>

\* _sync_outbound_attempt reads the row without a lock ...
ReadForSync(p) ==
    /\ stage[p] = "sync"
    /\ seen' = [seen EXCEPT ![p] = row.status]
    /\ stage' = [stage EXCEPT ![p] = "copy"]
    /\ UNCHANGED <<now, rowVars, emitted, flight, heard, report, snap>>

\* ... and then writes the history row.
CopyToHistory(p) ==
    /\ stage[p] = "copy"
    /\ history' = seen[p]
    /\ seen' = [seen EXCEPT ![p] = "pending"]
    /\ \/ p = Sender /\ stage' = [stage EXCEPT ![p] = "idle"] /\ UNCHANGED flight
       \/ p # Sender /\ Acknowledge(p)
    /\ UNCHANGED <<now, known, row, sentAt, emitted, heard, report, snap>>

\* A report that was not acknowledged is sent again.
ProcessDies(p) ==
    /\ MayCrash /\ stage[p] # "idle"
    /\ stage' = [stage EXCEPT ![p] = "idle"]
    /\ snap' = [snap EXCEPT ![p] = NoRow]
    /\ seen' = [seen EXCEPT ![p] = "pending"]
    /\ UNCHANGED <<now, rowVars, emitted, flight, heard, report>>

StatusNext ==
    \/ Tick \/ MarkSent
    \/ \E st \in Reported : Emit(st)
    \/ \E h \in Handlers : UpdateStatus(h) \/ \E e \in flight : ReadRow(h, e)
    \/ \E p \in Procs : ReadForSync(p) \/ CopyToHistory(p) \/ ProcessDies(p)

StatusSpec == StatusInit /\ [][StatusNext]_statusVars

-----------------------------------------------------------------------------
\* "Provider timestamps and status rank prevent regression from a newer state"
\* (PRD-008): what the customer's copy has reached is not taken back.  This
\* holds as long as one report is handled at a time.
NoRegression ==
    [][Rank(row'.status) >= Rank(row.status)]_statusVars

\* "Repeated and out-of-order events are idempotent" (PRD-008): of the reports
\* handled that are not older than the send, in whatever order and however
\* often, the row shows the newest.  Holds when no two share a second.
NewestReportShows ==
    LET H == {e \in heard : Stamp(e) >= sentAt}
    IN  H # {} => row.status = Newest(H).status
=============================================================================
