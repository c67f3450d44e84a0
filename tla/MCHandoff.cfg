\* Two processes, an agent and an admin, three messages.
SPECIFICATION Spec
CONSTANTS
    Agents = {agent, admin}
    Admins = {admin}
    Nobody = Nobody
    Processes = {p1, p2}
    NoProcess = NoProcess
    MaxMessages = 3
SYMMETRY Symmetry
INVARIANTS
    TypeOK
    RecordsAgree
PROPERTIES
    HumanIsInCharge
