\* Two bots, one channel with two secrets, one entry, two plans, two requests.
\* A stopped organization may have nothing left to do.
CHECK_DEADLOCK FALSE
SPECIFICATION Spec
CONSTANTS
    Bots = {1, 2}
    Channels = {channel}
    Entries = {entry}
    Secrets = {"verify", "app"}
    Plans <- MCPlans
    Processes = {p1, p2}
    NoProcess = NoProcess
SYMMETRY Symmetry
INVARIANTS
    WorkspaceAgrees
PROPERTIES
    CompletionIsSound
    PlanIsKept
