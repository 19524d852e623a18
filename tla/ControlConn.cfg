CONSTANTS
    Hosts = {h1, h2}
    LocalDc = {h1, h2}
    Removable = {h2}
    ContactPoints = {h1, h2, gone}
    Astra = TRUE
    Conns = {1, 2, 3}
    Clients = {k}
    None = None
    MaxChanges = 2
    MaxFaults = 1
    MaxFailures = 1
SPECIFICATION FairSpec
INVARIANTS NoLeakedConnections NoHandlerOnRemovedHost
PROPERTIES Reconnects ShutdownEnds TopologyCatchesUp
