-------------------------------- MODULE Calendar --------------------------------
(***************************************************************************)
(* The business calendars of one organization, as BusinessCalendarService  *)
(* keeps them.  A request with an idempotency key first looks for the      *)
(* key's receipt, then waits for the lock of the calendar, or of the       *)
(* organization when it creates one; from the lock to the commit it is one *)
(* step.  A question about the opening hours takes no lock and reads the   *)
(* calendar and its four kinds of rules by five SELECTs.                   *)
(*                                                                         *)
(* A calendar stands for its name, a date exception for its date and a     *)
(* holiday for its date and name, which are unique.  What a rule says is   *)
(* abstracted to the calendar version that wrote it; what the rules that   *)
(* were read answer is in CalendarHours.                                   *)
(***************************************************************************)
EXTENDS CalendarHours, Sequences, FiniteSetsExt

CONSTANTS
    Calendars, Bots,
    Dates, Holidays,    \* the natural keys of exceptions and of holidays
    Overrides,          \* the ids that override rows may get
    Keys,               \* idempotency keys
    Callers,            \* requests that can be under way at once
    MaxCalendars,       \* max_business_calendars of the plan
    MaxVersion,         \* bound on the changes of a calendar
    MaxChanges,         \* bound on the changes of all of them
    NoBot, NoKey        \* NULL

ASSUME CalendarAssumption ==
    /\ NoBot \notin Bots /\ NoKey \notin Keys
    /\ MaxCalendars \in Nat /\ MaxVersion \in Nat /\ MaxChanges \in Nat

VARIABLES
    cal,        \* table business_calendar
    weekly,     \* the version that wrote the weekly intervals
    exception,  \* table business_calendar_date_exception
    holiday,    \* table business_calendar_holiday
    override,   \* table business_calendar_override
    ledger,     \* the audit events of each calendar
    receipt,    \* table business_calendar_idempotency_receipt
    call,       \* the requests that carry a key
    look        \* the question about the hours

ruleRows     == <<weekly, exception, holiday, override>>
calendarRows == <<cal, ruleRows, ledger, receipt>>
calendarVars == <<calendarRows, call, look>>

Statuses == {"absent", "draft", "active", "inactive", "archived"}
Scopes   == Bots \cup {NoBot}
Stamps   == 0..MaxVersion
Kinds    == {"calendar", "weekly", "exception", "holiday", "override"}

Absent   == [status |-> "absent", scope |-> NoBot, version |-> 0]
NoRule   == [version |-> 0, at |-> 0]
NoRow    == [on |-> FALSE]
Rows     == [status : Statuses, scope : Scopes, version : Stamps]
Rules    == [version : Stamps, at : Stamps]
OverrideRows == {NoRow} \cup [on : {TRUE}, cal : Calendars, born : Stamps,
                              version : Stamps, revoked : BOOLEAN]
Events   == [prev : Stamps, new : Stamps, kind : Kinds, key : Keys \cup {NoKey}]

\* What a request asks for: command_type and request_hash.
Commands == [op : {"create"}, cal : Calendars, ref : Scopes]
       \cup [op : {"weekly"}, cal : Calendars, expected : Stamps]
       \cup [op : {"exception"}, cal : Calendars, ref : Dates]
       \cup [op : {"holiday"}, cal : Calendars, ref : Holidays]
       \cup [op : {"override"}, cal : Calendars]
       \cup [op : {"revoke"}, cal : Calendars, ref : Overrides, expected : Stamps]

Refused   == 0      \* an answer is the version that the command made
NoReceipt == [on |-> FALSE]
Receipts  == {NoReceipt} \cup [on : {TRUE}, cmd : Commands, answer : Stamps]
NoCall    == [stage |-> "idle"]
Calls     == {NoCall}
        \cup [stage : {"admitted"}, cmd : Commands, key : Keys]
        \cup [stage : {"answered"}, cmd : Commands, key : Keys, answer : Stamps]
NoLook    == [stage |-> "idle"]
LookStages == {"weekly", "exception", "holiday", "override", "resolved"}
Looks     == {NoLook} \cup
             [stage : LookStages, cal : Calendars, version : Stamps,
              seen : [{"weekly", "exception", "holiday", "override"} -> Stamps]]

CalendarTypeOK ==
    /\ cal \in [Calendars -> Rows]
    /\ weekly \in [Calendars -> Stamps]
    /\ exception \in [Calendars -> [Dates -> Rules]]
    /\ holiday \in [Calendars -> [Holidays -> Rules]]
    /\ override \in [Overrides -> OverrideRows]
    /\ ledger \in [Calendars -> Seq(Events)]
    /\ receipt \in [Keys -> Receipts]
    /\ call \in [Callers -> Calls]
    /\ look \in Looks

CalendarInit ==
    /\ cal = [c \in Calendars |-> Absent]
    /\ weekly = [c \in Calendars |-> 0]
    /\ exception = [c \in Calendars |-> [d \in Dates |-> NoRule]]
    /\ holiday = [c \in Calendars |-> [h \in Holidays |-> NoRule]]
    /\ override = [o \in Overrides |-> NoRow]
    /\ ledger = [c \in Calendars |-> << >>]
    /\ receipt = [k \in Keys |-> NoReceipt]
    /\ call = [r \in Callers |-> NoCall]
    /\ look = NoLook

-----------------------------------------------------------------------------
(* What every change does.                                                 *)

Next1(c)   == cal[c].version + 1
Mutable(c) == cal[c].status \notin {"absent", "archived"}
Taken      == {c \in Calendars : cal[c].status \notin {"absent", "archived"}}

Room(c)    == /\ cal[c].version < MaxVersion
              /\ MapThenSumSet(LAMBDA d : cal[d].version, Calendars) < MaxChanges

\* A version of the calendar, and its audit event.
Writes(c, row, kind, k) ==
    /\ cal' = [cal EXCEPT ![c] = [row EXCEPT !.version = Next1(c)]]
    /\ ledger' = [ledger EXCEPT ![c] = Append(@,
                    [prev |-> cal[c].version, new |-> Next1(c),
                     kind |-> kind, key |-> k])]

\* Mutant: the index covers the calendars of bots only.
FitsBotsOnly(c, row) ==
    (row.status = "active" /\ row.scope # NoBot) =>
        \A d \in Calendars \ {c} :
            ~(cal[d].status = "active" /\ cal[d].scope = row.scope)

\* The partial unique indexes: one active calendar of a scope.
Fits(c, row) ==
    row.status = "active" =>
        \A d \in Calendars \ {c} :
            ~(cal[d].status = "active" /\ cal[d].scope = row.scope)

-----------------------------------------------------------------------------
(* The operations without an idempotency key: one locked transaction.      *)

\* A client that saw an older version is refused; the scope may change while
\* the calendar is active.
UpdateCalendar(c, b) ==
    LET row == [cal[c] EXCEPT !.scope = b]
    IN  /\ Mutable(c) /\ Room(c)
        /\ Fits(c, row)
        /\ Writes(c, row, "calendar", NoKey)
        /\ UNCHANGED <<ruleRows, receipt, call, look>>

NextStatuses(from) ==
    CASE from = "draft"    -> {"active", "archived"}
      [] from = "active"   -> {"inactive", "archived"}
      [] from = "inactive" -> {"active", "archived"}
      [] OTHER             -> {}

TransitionCalendar(c, to) ==
    LET row == [cal[c] EXCEPT !.status = to]
    IN  /\ to \in NextStatuses(cal[c].status) /\ Room(c)
        /\ Fits(c, row)
        /\ Writes(c, row, "calendar", NoKey)
        /\ UNCHANGED <<ruleRows, receipt, call, look>>

UpdateDateException(c, d) ==
    /\ Mutable(c) /\ Room(c)
    /\ exception[c][d].version > 0
    /\ exception' = [exception EXCEPT ![c][d] =
                        [version |-> @.version + 1, at |-> Next1(c)]]
    /\ Writes(c, cal[c], "exception", NoKey)
    /\ UNCHANGED <<weekly, holiday, override, receipt, call, look>>

\* The name may change, to one that no holiday of the date has.
UpdateHoliday(c, h, to) ==
    /\ Mutable(c) /\ Room(c)
    /\ holiday[c][h].version > 0
    /\ to = h \/ holiday[c][to].version = 0
    /\ holiday' = [holiday EXCEPT ![c] = [x \in Holidays |->
                     CASE x = to -> [version |-> @[h].version + 1, at |-> Next1(c)]
                       [] x = h /\ x # to -> NoRule
                       [] OTHER -> @[x]]]
    /\ Writes(c, cal[c], "holiday", NoKey)
    /\ UNCHANGED <<weekly, exception, override, receipt, call, look>>

-----------------------------------------------------------------------------
(* The operations that take an idempotency key.                            *)

\* The stored answer to this very command, if there is one.
Stored(k, cmd) ==
    IF receipt[k].on /\ receipt[k].cmd = cmd
    THEN receipt[k].answer ELSE Refused

Answer(cmd, k, answer) ==
    IF answer = Refused THEN NoCall
    ELSE [stage |-> "answered", cmd |-> cmd, key |-> k, answer |-> answer]

Answered(r, answer) ==
    call' = [call EXCEPT ![r] = Answer(@.cmd, @.key, answer)]

\* What a client can ask, of the rows and versions that it has seen.
Sendable(cmd) ==
    CASE cmd.op = "create" -> TRUE
      [] cmd.op = "weekly" -> cmd.expected \in 1..cal[cmd.cal].version
      [] cmd.op = "revoke" -> /\ override[cmd.ref].on
                              /\ override[cmd.ref].cal = cmd.cal
                              /\ cmd.expected \in
                                   {override[cmd.ref].born, override[cmd.ref].version}
      [] OTHER -> cal[cmd.cal].status # "absent"

\* The receipt is looked for before any lock: no row, nothing to wait for.
Arrive(r, cmd, k) ==
    /\ call[r].stage = "idle" /\ Sendable(cmd)
    /\ call' = [call EXCEPT ![r] =
         IF receipt[k].on THEN Answer(cmd, k, Stored(k, cmd))
         ELSE [stage |-> "admitted", cmd |-> cmd, key |-> k]]
    /\ UNCHANGED <<calendarRows, look>>

\* The checks before the first write: they refuse without a second look at the
\* receipt.
Passes(cmd) ==
    CASE cmd.op = "create" -> Cardinality(Taken) < MaxCalendars
      [] cmd.op = "weekly" -> /\ Mutable(cmd.cal)
                              /\ cmd.expected = cal[cmd.cal].version
      [] cmd.op = "revoke" -> /\ Mutable(cmd.cal)
                              /\ override[cmd.ref].on
                              /\ override[cmd.ref].cal = cmd.cal
                              /\ cmd.expected = override[cmd.ref].version
                              /\ ~override[cmd.ref].revoked
      [] OTHER -> Mutable(cmd.cal)

\* Mutant: the table of receipts has no unique key.
UniqueRuleOnly(cmd, k) ==
    CASE cmd.op = "create"    -> cal[cmd.cal].status = "absent"
      [] cmd.op = "exception" -> exception[cmd.cal][cmd.ref].version = 0
      [] cmd.op = "holiday"   -> holiday[cmd.cal][cmd.ref].version = 0
      [] OTHER                -> TRUE

\* The unique constraints that the insertions meet.
Unique(cmd, k) ==
    /\ CASE cmd.op = "create"    -> cal[cmd.cal].status = "absent"
         [] cmd.op = "exception" -> exception[cmd.cal][cmd.ref].version = 0
         [] cmd.op = "holiday"   -> holiday[cmd.cal][cmd.ref].version = 0
         [] OTHER                -> TRUE
    /\ k # NoKey => ~receipt[k].on

CreateCalendar(cmd, k) ==
    /\ cmd.op = "create"
    /\ Writes(cmd.cal, [Absent EXCEPT !.status = "draft", !.scope = cmd.ref],
              "calendar", k)
    /\ UNCHANGED ruleRows

ReplaceWeeklySchedule(cmd, k) ==
    /\ cmd.op = "weekly"
    /\ weekly' = [weekly EXCEPT ![cmd.cal] = Next1(cmd.cal)]
    /\ Writes(cmd.cal, cal[cmd.cal], "weekly", k)
    /\ UNCHANGED <<exception, holiday, override>>

CreateDateException(cmd, k) ==
    /\ cmd.op = "exception"
    /\ exception' = [exception EXCEPT ![cmd.cal][cmd.ref] =
                        [version |-> 1, at |-> Next1(cmd.cal)]]
    /\ Writes(cmd.cal, cal[cmd.cal], "exception", k)
    /\ UNCHANGED <<weekly, holiday, override>>

CreateHoliday(cmd, k) ==
    /\ cmd.op = "holiday"
    /\ holiday' = [holiday EXCEPT ![cmd.cal][cmd.ref] =
                      [version |-> 1, at |-> Next1(cmd.cal)]]
    /\ Writes(cmd.cal, cal[cmd.cal], "holiday", k)
    /\ UNCHANGED <<weekly, exception, override>>

\* Mutant: an override starts at version 1, as exceptions and holidays do.
CreateOverrideAtOne(cmd, k) ==
    /\ cmd.op = "override"
    /\ \E o \in Overrides :
         /\ ~override[o].on
         /\ override' = [override EXCEPT ![o] =
              [on |-> TRUE, cal |-> cmd.cal, born |-> Next1(cmd.cal),
               version |-> 1, revoked |-> FALSE]]
    /\ Writes(cmd.cal, cal[cmd.cal], "override", k)
    /\ UNCHANGED <<weekly, exception, holiday>>

\* An override has the calendar's version, not one of its own.
CreateOverride(cmd, k) ==
    /\ cmd.op = "override"
    /\ \E o \in Overrides :
         /\ ~override[o].on
         /\ override' = [override EXCEPT ![o] =
              [on |-> TRUE, cal |-> cmd.cal, born |-> Next1(cmd.cal),
               version |-> Next1(cmd.cal), revoked |-> FALSE]]
    /\ Writes(cmd.cal, cal[cmd.cal], "override", k)
    /\ UNCHANGED <<weekly, exception, holiday>>

RevokeOverride(cmd, k) ==
    /\ cmd.op = "revoke"
    /\ override' = [override EXCEPT ![cmd.ref].revoked = TRUE,
                                    ![cmd.ref].version = Next1(cmd.cal)]
    /\ Writes(cmd.cal, cal[cmd.cal], "override", k)
    /\ UNCHANGED <<weekly, exception, holiday>>

\* From the lock to the commit: the checks, and one of the changes.
Change(cmd, k) ==
    /\ Passes(cmd) /\ Unique(cmd, k)
    /\ Room(cmd.cal)
    /\ \/ CreateCalendar(cmd, k)      \/ ReplaceWeeklySchedule(cmd, k)
       \/ CreateDateException(cmd, k) \/ CreateHoliday(cmd, k)
       \/ CreateOverride(cmd, k)      \/ RevokeOverride(cmd, k)

\* A request without a key has no receipt.
ApplyUnkeyed(cmd) == Change(cmd, NoKey) /\ UNCHANGED <<receipt, call, look>>

Apply(r) ==
    LET cmd == call[r].cmd
        k   == call[r].key
    IN  /\ call[r].stage = "admitted"
        /\ Change(cmd, k)
        /\ receipt' = [receipt EXCEPT ![k] = [on |-> TRUE, cmd |-> cmd,
                                             answer |-> Next1(cmd.cal)]]
        /\ Answered(r, Next1(cmd.cal))
        /\ UNCHANGED look

\* A constraint refuses the commit, which then looks for the receipt again.
Collide(r) ==
    /\ call[r].stage = "admitted"
    /\ Passes(call[r].cmd) /\ ~Unique(call[r].cmd, call[r].key)
    /\ Answered(r, Stored(call[r].key, call[r].cmd))
    /\ UNCHANGED <<calendarRows, look>>

\* A check fails, or the database does.
Refuse(r) ==
    /\ call[r].stage = "admitted"
    /\ Answered(r, Refused)
    /\ UNCHANGED <<calendarRows, look>>

Leave(r) ==
    /\ call[r].stage = "answered"
    /\ call' = [call EXCEPT ![r] = NoCall]
    /\ UNCHANGED <<calendarRows, look>>

-----------------------------------------------------------------------------
(* resolve, resolve_applicable and resolve_default.                        *)

ActiveIn(b) == {c \in Calendars : cal[c].status = "active" /\ cal[c].scope = b}

\* The calendar of the bot, else the one of the organization.
Applicable(b) == IF ActiveIn(b) # {} THEN ActiveIn(b) ELSE ActiveIn(NoBot)

Newest(S) == IF S = {} THEN 0 ELSE CHOOSE x \in S : \A y \in S : y <= x

StartLook(b) ==
    /\ look.stage = "idle"
    /\ \E c \in Applicable(b) :
         look' = [stage |-> "weekly", cal |-> c, version |-> cal[c].version,
                  seen |-> [s \in Kinds \ {"calendar"} |-> 0]]
    /\ UNCHANGED <<calendarRows, call>>

\* The newest of the rows that the query of this kind returns.
Present(kind, c) ==
    CASE kind = "weekly"    -> weekly[c]
      [] kind = "exception" -> Newest({exception[c][d].at : d \in Dates})
      [] kind = "holiday"   -> Newest({holiday[c][h].at : h \in Holidays})
      [] kind = "override"  -> Newest({override[o].version :
                                 o \in {x \in Overrides : override[x].on /\
                                                          override[x].cal = c}})

After(stage) ==
    CASE stage = "weekly"    -> "exception"
      [] stage = "exception" -> "holiday"
      [] stage = "holiday"   -> "override"
      [] stage = "override"  -> "resolved"

ReadRules ==
    /\ look.stage \in LookStages \ {"resolved"}
    /\ look' = [look EXCEPT !.stage = After(@),
                            !.seen[look.stage] = Present(look.stage, look.cal)]
    /\ UNCHANGED <<calendarRows, call>>

EndLook ==
    /\ look.stage = "resolved"
    /\ look' = NoLook
    /\ UNCHANGED <<calendarRows, call>>

-----------------------------------------------------------------------------
Locked ==
  \/ \E cmd \in Commands : ApplyUnkeyed(cmd)
  \/ \E c \in Calendars :
    \/ \E b \in Scopes : UpdateCalendar(c, b)
    \/ \E to \in Statuses : TransitionCalendar(c, to)
    \/ \E d \in Dates : UpdateDateException(c, d)
    \/ \E h, to \in Holidays : UpdateHoliday(c, h, to)

Keyed == \E r \in Callers :
    \/ \E cmd \in Commands, k \in Keys : Arrive(r, cmd, k)
    \/ Apply(r) \/ Collide(r) \/ Refuse(r) \/ Leave(r)

Look == (\E b \in Scopes : StartLook(b)) \/ ReadRules \/ EndLook

CalendarNext == Locked \/ Keyed \/ Look

CalendarSpec == CalendarInit /\ [][CalendarNext]_calendarVars

-----------------------------------------------------------------------------
(* Properties.                                                             *)

\* A bot has at most one active calendar, and the organization one default,
\* through activations, creations and changes of scope in any order: which
\* calendar answers is never a matter of chance.
OneActive == \A b \in Scopes : \A c, d \in ActiveIn(b) : c = d

\* Every version of a calendar is made by one change, of the calendar or of a
\* rule, and has one audit event: the chain of the events has no gap and no
\* fork, whatever requests meet.
VersionsAudited ==
    \A c \in Calendars :
        /\ Len(ledger[c]) = cal[c].version
        /\ \A i \in 1..Len(ledger[c]) :
             ledger[c][i].new = i /\ ledger[c][i].prev = i - 1

\* However often a request is sent with its key, and however the copies race,
\* it is applied once, and every copy that is not refused gets the one answer.
AppliedOnce ==
    /\ \A c, d \in Calendars :
         \A i \in 1..Len(ledger[c]), j \in 1..Len(ledger[d]) :
           (ledger[c][i].key # NoKey /\ ledger[c][i].key = ledger[d][j].key)
               => c = d /\ i = j
    /\ \A r \in Callers :
         call[r].stage = "answered" =>
             receipt[call[r].key] = [on |-> TRUE, cmd |-> call[r].cmd,
                 answer |-> call[r].answer]

\* The resolver takes the override of the highest version: of those in force
\* that is the one that was made last, never two of them.
LastOverrideWins ==
    \A o, p \in Overrides :
        (/\ override[o].on /\ override[p].on /\ o # p
         /\ override[o].cal = override[p].cal
         /\ ~override[o].revoked /\ ~override[p].revoked)
            => /\ override[o].version # override[p].version
               /\ (override[o].version < override[p].version)
                      <=> (override[o].born < override[p].born)

\* The hours that are given out under a calendar version rest on rules that
\* are at least as new: every change up to that version is in them.
AnswerIsNoOlder ==
    look.stage = "resolved" =>
        \A i \in 1..look.version :
            LET kind == ledger[look.cal][i].kind
            IN  kind # "calendar" => look.seen[kind] >= i

\* The tables agree with each other after any interleaving of requests.
CalendarsAgree == CalendarTypeOK /\ OneActive /\ VersionsAudited /\ LastOverrideWins

\* What a client is told is true: of its command, and of the hours.
AnswersHold == AppliedOnce /\ AnswerIsNoOlder

\* Whatever the rules, the zone and the instant of a resolution are, its answer
\* says when the hours change next, and needs no rule that was not read.
HoursAreRight == look.stage = "resolved" => NextChangeIsFirst /\ WindowSuffices

\* An archived calendar is never changed again, and its rules neither.
ArchivedIsTerminal ==
    [][\A c \in Calendars : cal[c].status = "archived" =>
          /\ cal'[c] = cal[c] /\ weekly'[c] = weekly[c]
          /\ exception'[c] = exception[c] /\ holiday'[c] = holiday[c]
          /\ \A o \in Overrides : override[o].on /\ override[o].cal = c
                                      => override'[o] = override[o]]_calendarVars
=============================================================================
