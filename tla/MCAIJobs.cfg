\* Two messages, two workers, two attempts; one crash or late worker, one change
\* from outside, and a budget that runs out.
SPECIFICATION FairSpec
CONSTANTS
    Messages = 2
    Workers = {w1, w2}
    MaxAttempts = 2
    CallLimit = 4
    MaxEvents = 1
CHECK_DEADLOCK FALSE
INVARIANTS
    TypeOK
    JobsAreExact
PROPERTIES
    EveryJobSettles
