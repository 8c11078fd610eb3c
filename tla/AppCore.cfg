SPECIFICATION FairSpec
CONSTANTS
    Sessions = {l1, l2}
    Attempts = {a1, a2}
    LinkTrust = FALSE
    MaxQueue = 1
    NoSession = NoSession
    NoAttempt = NoAttempt
CHECK_DEADLOCK FALSE
INVARIANTS
    OneCompletion
    NeverWedged
    RecoverySound
PROPERTIES
    ReconnectingEnds
