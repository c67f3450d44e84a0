\* Two calendars and a plan for both, one bot, one key, two requests at once.
SPECIFICATION CalendarSpec
CONSTANTS
    Calendars = {c1, c2}
    Bots = {b1}
    Dates = {d1}
    Holidays = {h1, h2}
    Overrides = {o1, o2}
    Keys = {k1}
    Callers = {r1, r2}
    MaxCalendars = 2
    MaxVersion = 3
    MaxChanges = 4
    Day = 4
    Week = 2
    Horizon = 2
    Cases <- MCCases
    NoBot = NoBot
    NoKey = NoKey
SYMMETRY Symmetry
INVARIANTS
    HoursAreRight
    CalendarsAgree
    AnswersHold
CHECK_DEADLOCK FALSE
