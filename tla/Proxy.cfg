CONSTANTS
    Clients = {k1, k2, k3}
    NoClient = NoClient
    MaxClients = 2
    ListenerWorkers = 1
    MaxAttempts = 2
    EarlyLeave = FALSE
SPECIFICATION FairSpec
INVARIANTS ClientsCounted ShutdownInOrder
PROPERTIES SignalEnds TasksEnd
CHECK_DEADLOCK FALSE
