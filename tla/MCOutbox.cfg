\* One row, queued or a human reply, three senders that may crash for ever;
\* one retry.  Rows share nothing but their senders.
SPECIFICATION FairSpec
CONSTANTS
    Attempts = {a1}
    Senders = {s1, s2, s3}
    NoRow = NoRow
    MaxAttempts = 2
CHECK_DEADLOCK FALSE
INVARIANTS
    TypeOK
    SendsAreSafe
PROPERTIES
    FailedUnsentIsFinal
    ImplementsPromise
    EverySendSettles
