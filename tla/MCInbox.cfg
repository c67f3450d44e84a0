\* Three messages of one customer, a webhook request and a recovery loop that
\* cannot decrypt the last message; all settles.
SPECIFICATION FairSpec
CONSTANTS
    m1 = m1
    m2 = m2
    m3 = m3
    c1 = c1
    Messages = {m1, m2, m3}
    Customers = {c1}
    CustomerOf <- OneCustomer
    Unreadable <- WrongKey
    Workers = {w1, w2}
    Recoverers = {w2}
    NoMessage = NoMessage
    MaxAttempts = 2
    AIEnabled = FALSE
    MaxCrashes = 1
CHECK_DEADLOCK FALSE
INVARIANTS
    TypeOK
    HandledInTurn
PROPERTIES
    ProcessedIsFinal
    ImplementsLog
    EveryReceiptSettles
