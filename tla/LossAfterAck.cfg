SPECIFICATION Spec
CONSTANTS
    Sessions = {l1}
    Attempts = {a1, a2}
    LinkTrust = FALSE
    MaxQueue = 2
    NoSession = NoSession
    NoAttempt = NoAttempt
CHECK_DEADLOCK FALSE
INVARIANTS
    ActiveHasSocket
