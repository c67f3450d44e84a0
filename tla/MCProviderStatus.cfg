\* One report is handled at a time; every report has a second of its own.
SPECIFICATION StatusSpec
CONSTANTS
    Handlers = {h1}
    Sender = sender
    TicksPerSecond = 1
    MaxTime = 4
    MayCrash = TRUE
CHECK_DEADLOCK FALSE
INVARIANTS
    StatusTypeOK
    NewestReportShows
PROPERTIES
    NoRegression
