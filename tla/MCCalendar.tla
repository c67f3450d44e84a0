----------------------------- MODULE MCCalendar -----------------------------
(* Small instances of Calendar, and the cases of CalendarHours, for TLC.    *)
EXTENDS Calendar, TLC

Symmetry == Permutations(Calendars) \cup Permutations(Callers)
            \cup Permutations(Overrides)

\* Days of four minutes, weeks of two days, a horizon of two days; at most one
\* clock change, one exception, one holiday and two overrides.
Interval(s, e) == [start |-> s, end |-> e]
Hours == {{}, {Interval(0, 2)}, {Interval(1, 3)}, {Interval(1, 2), Interval(3, 4)}}
Partial == {{Interval(1, 3)}, {Interval(2, 4)}}

ExceptionCases ==
    [date : {1, 3, 4}, mode : {"closed_all_day", "open_all_day"}, intervals : {{}}]
      \cup [date : {1, 2}, mode : {"replace", "add_open", "close_partial"},
            intervals : {{Interval(1, 3)}}]
HolidayCases ==
    [date : {1, 2}, scope : {"full_day"}, intervals : {{}}]
      \cup [date : {3}, scope : {"partial"}, intervals : {{Interval(2, 4)}}]
OverrideCases ==
    {{}}
    \cup {{[start |-> 5, end |-> e, open |-> o, version |-> 2, revoked |-> r]} :
            e \in {7, Never}, o \in BOOLEAN, r \in BOOLEAN}
    \cup {{[start |-> 3, end |-> 8, open |-> o, version |-> 3, revoked |-> FALSE],
           [start |-> 6, end |-> Never, open |-> ~o, version |-> v,
            revoked |-> FALSE]} : o \in BOOLEAN, v \in {2, 3}}
Zones == {[before |-> 0, after |-> 0, jump |-> 0]}
         \cup [before : {1}, after : {0, 2}, jump : 7..10]

MCCases ==
    {[rules |-> [weekly |-> (0 :> a) @@ (1 :> b), exceptions |-> e,
                 holidays |-> h, overrides |-> o],
      zone |-> z, now |-> n] :
        a \in Hours, b \in {{Interval(1, 3)}}, z \in Zones, n \in {4, 6},
        e \in {{}} \cup {{x} : x \in ExceptionCases},
        h \in {{}} \cup {{x} : x \in HolidayCases}, o \in OverrideCases}
=============================================================================
