SPECIFICATION FairSpec
CONSTANTS
    c1 = c1
    c2 = c2
    Daemons = {d1, d2, d3}
    Clients = {c1, c2}
    ClientVersion <- MCOneBuild
    Checks = {c1}
    Forced = {}
    MaxTakeovers = 2
    MaxKills = 1
    Veteran = d1
    Spare = {d3}
    NoDaemon = NoDaemon
    NoClient = NoClient
CHECK_DEADLOCK FALSE
INVARIANTS
    HostSound
PROPERTIES
    StartsOverLeftovers
