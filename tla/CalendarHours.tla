----------------------------- MODULE CalendarHours -----------------------------
(***************************************************************************)
(* BusinessHoursResolver: whether a calendar is open at an instant, and    *)
(* when that changes next; and the window of rules that the service reads  *)
(* for it.  Pure functions, checked against their meaning over Cases.      *)
(*                                                                         *)
(* Instants and the minutes of a day are integers; a zone is an offset     *)
(* that may change once.  Day, Week and Horizon are 1440, 7 and 8 in the   *)
(* code.                                                                   *)
(***************************************************************************)
EXTENDS Integers, FiniteSets

CONSTANTS
    Day, Week,  \* minutes of a day, days of a week
    Horizon,    \* the days that are looked ahead
    Cases       \* [rules, zone, now] to check

Never == -1

-----------------------------------------------------------------------------
(* What the tables hold.  Only that an override ends after it starts is    *)
(* used; intervals may be any.                                             *)

Intervals == [start : Int, end : Int]

ExceptionRules ==
    [date : Int, intervals : SUBSET Intervals,
     mode : {"closed_all_day", "open_all_day", "replace", "add_open",
             "close_partial"}]

HolidayRules ==
    [date : Int, intervals : SUBSET Intervals, scope : {"full_day", "partial"}]

OverrideRules ==
    {o \in [start : Int, end : Int, open : BOOLEAN, version : Nat,
            revoked : BOOLEAN] : o.end = Never \/ o.start < o.end}

RuleSets ==
    [weekly : [0..(Week - 1) -> SUBSET Intervals],
     exceptions : SUBSET ExceptionRules, holidays : SUBSET HolidayRules,
     overrides : SUBSET OverrideRules]

Offsets == [before : Int, after : Int, jump : Int]

\* The clock does not go back to a date that it has left: one that goes back at
\* midnight does so before the new date begins.
DatesAdvance(z) ==
    (z.jump - 1 + z.before) \div Day <= (z.jump + z.after) \div Day

ASSUME HoursAssumption ==
    /\ Day \in Nat \ {0} /\ Week \in Nat \ {0} /\ Horizon \in Nat
    /\ \A c \in Cases :
          /\ c.rules \in RuleSets /\ c.now \in Nat
          /\ c.zone \in Offsets /\ DatesAdvance(c.zone)

-----------------------------------------------------------------------------
Least(S) == IF S = {} THEN Never ELSE CHOOSE x \in S : \A y \in S : x <= y
Most(S)  == CHOOSE x \in S : \A y \in S : y <= x

Contains(i, minute) == i.start <= minute /\ minute < i.end

-----------------------------------------------------------------------------
(* Zones.                                                                  *)

Offset(z, t) == IF t < z.jump THEN z.before ELSE z.after
Local(z, t)  == t + Offset(z, t)
DateOf(l)    == l \div Day
MinuteOf(l)  == l % Day
WeekdayOf(d) == d % Week

\* The instants that read l on a local clock: two where the clock goes back,
\* none where it goes forward.
LocalizeStrict(z, l) == {t \in {l - z.before, l - z.after} : Local(z, t) = l}

-----------------------------------------------------------------------------
(* _decision: TRUE for open.                                               *)

InForce(o, t) == ~o.revoked /\ o.start <= t /\ (o.end = Never \/ t < o.end)

\* Of the highest version a closed one decides before an open one.
OverrideOpens(S) ==
    LET top == {o \in S : o.version = Most({p.version : p \in S})}
    IN  \A o \in top : o.open

\* What the exception of a date says of a minute, or "nothing".
ExceptionSays(e, minute) ==
    LET matches == \E i \in e.intervals : Contains(i, minute)
    IN  CASE e.mode = "closed_all_day" -> "closed"
          [] e.mode = "open_all_day"   -> "open"
          [] e.mode = "replace"        -> IF matches THEN "open" ELSE "closed"
          [] e.mode = "add_open" /\ matches      -> "open"
          [] e.mode = "close_partial" /\ matches -> "closed"
          [] OTHER -> "nothing"

Closes(h, minute) ==
    h.scope = "full_day" \/ \E i \in h.intervals : Contains(i, minute)

Open(rules, z, t) ==
    LET l == Local(z, t)
        minute == MinuteOf(l)
        forced == {o \in rules.overrides : InForce(o, t)}
        said == {ExceptionSays(e, minute) :
                   e \in {x \in rules.exceptions : x.date = DateOf(l)}}
                \ {"nothing"}
    IN  CASE forced # {} -> OverrideOpens(forced)
          [] forced = {} /\ said # {} -> "open" \in said
          [] OTHER ->
               /\ ~\E h \in rules.holidays : h.date = DateOf(l) /\ Closes(h, minute)
               /\ \E i \in rules.weekly[WeekdayOf(DateOf(l))] : Contains(i, minute)

-----------------------------------------------------------------------------
(* _next_change.                                                           *)

\* Mutant: only the beginnings of the rules are candidates.
BoundariesStarts(rules, d) ==
    LET intervals == rules.weekly[WeekdayOf(d)]
           \cup (UNION {e.intervals : e \in {x \in rules.exceptions : x.date = d}})
           \cup (UNION {h.intervals : h \in {x \in rules.holidays : x.date = d}})
    IN  {0} \cup {i.start : i \in intervals}

\* The minutes of a date where a rule begins or ends; its midnight too.
Boundaries(rules, d) ==
    LET intervals == rules.weekly[WeekdayOf(d)]
           \cup (UNION {e.intervals : e \in {x \in rules.exceptions : x.date = d}})
           \cup (UNION {h.intervals : h \in {x \in rules.holidays : x.date = d}})
    IN  {0} \cup {i.start : i \in intervals} \cup {i.end : i \in intervals}

Candidates(rules, z, t) ==
    LET today == DateOf(Local(z, t))
        later == {o.start : o \in rules.overrides} \cup {o.end : o \in rules.overrides}
        local == UNION {UNION {LocalizeStrict(z, (today + n) * Day + m) :
                                 m \in Boundaries(rules, today + n)} :
                          n \in 0..Horizon}
    IN  {u \in later \cup local : t < u /\ u <= t + Horizon * Day}

NextChange(rules, z, t) ==
    Least({u \in Candidates(rules, z, t) : Open(rules, z, u) # Open(rules, z, t)})

\* The rules that the service reads to resolve an instant.
Window(rules, z, t) ==
    LET today == DateOf(Local(z, t))
        near(d) == today <= d /\ d <= today + Horizon
    IN  [rules EXCEPT
           !.exceptions = {e \in @ : near(e.date)},
           !.holidays   = {h \in @ : near(h.date)},
           !.overrides  = {o \in @ : /\ o.start <= t + Horizon * Day
                                     /\ o.end = Never \/ o.end > t}]

-----------------------------------------------------------------------------
(* What the functions promise.                                             *)

\* The first instant within the horizon at which the answer is another.
FirstChange(rules, z, t) ==
    Least({u \in (t + 1)..(t + Horizon * Day) :
              Open(rules, z, u) # Open(rules, z, t)})

ClockChanges(z, t, u) == z.before # z.after /\ t < z.jump /\ z.jump <= u

\* The last date that is looked at; the horizon ends on it, or an hour past it
\* when the clock goes forward within.
LastDate(z, t)   == DateOf(Local(z, t)) + Horizon
ClockMoves(z, t) == z.before # z.after /\ z.jump = t

\* The next change that is given out is the first there is.  All it can miss is
\* a change that the clock itself makes, when it goes forward over a boundary
\* or back before one, and one past the last date.
NextChangeIsFirst ==
    \A c \in Cases :
        LET next  == NextChange(c.rules, c.zone, c.now)
            first == FirstChange(c.rules, c.zone, c.now)
        IN  \/ next = first
            \/ /\ first # Never /\ (next = Never \/ first < next)
               /\ \/ ClockMoves(c.zone, first)
                  \/ DateOf(Local(c.zone, first)) > LastDate(c.zone, c.now)

\* Nothing that the service leaves in the tables would change the answer, as
\* long as the horizon ends on the last date that it reads.
WindowSuffices ==
    \A c \in Cases :
        LET seen == Window(c.rules, c.zone, c.now)
        IN  /\ Open(seen, c.zone, c.now) = Open(c.rules, c.zone, c.now)
            /\ DateOf(Local(c.zone, c.now + Horizon * Day))
                    <= LastDate(c.zone, c.now) =>
                 NextChange(seen, c.zone, c.now) = NextChange(c.rules, c.zone, c.now)
=============================================================================
