CONSTANTS
    Hosts = {h1, h2}
    LocalDc = {h1, h2}
    Removable = {h2}
    ContactPoints = {h1}
    Astra = FALSE
    Conns = {1, 2, 3, 4}
    Clients = {k}
    None = None
    MaxChanges = 1
    MaxFaults = 1
    MaxFailures = 1
SPECIFICATION Spec
INVARIANT ClientsSurviveReconnect
