\* Both ways to end, the loss of a connection and the graceful shutdown, under
\* the fairness of the goroutines and of the timers; the client or origin may
\* stop reading, and then the handler may be left hanging.
SPECIFICATION LiveSpec
CONSTANTS
    r1 = r1
    r2 = r2
    Requests <- TwoRequests
    StreamIds <- OneStream
    Decisions = {"both", "none"}
    MaxStreamIds = 1
    NumWorkers = 1
    Events = {"cancel", "shutdown"}
    Stalling = {"client", "origin"}
    None = None
CHECK_DEADLOCK FALSE
PROPERTIES RequestsComplete ShutdownCompletes
