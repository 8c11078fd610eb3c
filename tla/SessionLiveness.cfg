SPECIFICATION FairSpec
CONSTANTS
    Sessions = {s1}
    Sockets = {k1, k2}
    Slugs <- MCSlugs
    AliasName <- MCAliasName
    Aliases <- MCAliases
    MaxSuffix <- MCMaxSuffix
    MaxAttempts = 2
    MaxTokens = 3
    NoSession = NoSession
    NoSocket = NoSocket
    NoAlias = NoAlias
    NoSelector = NoSelector
PROPERTIES
    SuspensionEnds
    UnclaimedEnds
    SilentPeerNoticed
