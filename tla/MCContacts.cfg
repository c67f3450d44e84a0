\* Two customers, one of them known from before, two requests and the backfill.
SPECIFICATION Spec
CONSTANTS
    Numbers = {"n1", "n2"}
    Managed = {"n1"}
    Legacy = {"n1"}
    Conversations = {"c1", "c2"}
    Of <- TwoCustomers
    Processes = {p1, p2}
    NoProcess = NoProcess
    NoConversation = NoConversation
    MaxVersion = 2
INVARIANT ContactsAgree
PROPERTY EvidenceStays
CHECK_DEADLOCK FALSE
