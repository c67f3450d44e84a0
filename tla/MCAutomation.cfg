\* One automation, two messages, two workers; one fault.
SPECIFICATION FairSpec
CONSTANTS
    Automations = {d1}
    Messages = {m1, m2}
    Workers = {w1, w2}
    NoExecution = NoExecution
    MaxAttempts = 2
    MaxFaults = 1
CHECK_DEADLOCK FALSE
INVARIANTS
    RowsAreTrue
PROPERTIES
    OutcomesHold
    EveryExecutionSettles
