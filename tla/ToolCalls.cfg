SPECIFICATION FairSpec
CONSTANTS
    Sessions = {s1}
    Sockets = {k1, k2}
    Calls = {c1, c2}
    Clients = {p1, p2}
    NoSession = NoSession
    NoSocket = NoSocket
    NoClient = NoClient
    Idle = Idle
CHECK_DEADLOCK FALSE
INVARIANTS
    PendingOnlyWhileActive
    OrphansAreCancelled
    AllAuditedAtExit
PROPERTIES
    FirstAnswerWins
    EveryCallFinishes
