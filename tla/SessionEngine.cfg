SPECIFICATION Spec
CONSTANTS
    Sessions = {s1, s2}
    Sockets = {k1, k2}
    Slugs <- MCSlugs
    AliasName <- MCAliasName
    Aliases <- MCAliases
    MaxSuffix <- MCMaxSuffix
    MaxAttempts = 2
    MaxTokens = 3
    NoSession = NoSession
    NoSocket = NoSocket
    NoAlias = NoAlias
    NoSelector = NoSelector
SYMMETRY Interchangeable
INVARIANTS
    AliasUnique
    OneSocketPerToken
    ActiveHasSocket
    EventsTellState
    HistoryOnlyForLive
PROPERTIES
    SuspendOnlyOnLoss
    LinkEndTold
    RefinesLifecycle
