\* One connection, two requests at once, of the callback, a health check and a
\* change of the credentials; two OAuth states.
SPECIFICATION ConnSpec
CONSTANTS
    Connections = {c1}
    Requests = {p1, p2}
    States = {s1, s2}
    NoConnection = NoConnection
    NoState = NoState
    MaxTokens = 3
    MaxVersion = 2
SYMMETRY Symmetry
INVARIANTS
    ConnectionsAgree
PROPERTIES
    RotationInPlace
    ArchivedSettles
CHECK_DEADLOCK FALSE
