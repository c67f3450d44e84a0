\* Two people, two processes, one token, two roles besides the platform's, both
\* scripts.  When all are inactive nothing can happen.
CHECK_DEADLOCK FALSE
SPECIFICATION Spec
CONSTANTS
    People = {ann, bob}
    Processes = {p1, p2}
    Nobody = Nobody
    AskedRoles = {"organization_owner", "viewer"}
    Scripts = {"reset", "promote"}
    Limits = {1, 2}
    MaxTokens = 1
    MaxVersion = 3
SYMMETRY Symmetry
INVARIANTS
    UsersAgree
PROPERTIES
    OwnerIsKept
    RoomIsKept
