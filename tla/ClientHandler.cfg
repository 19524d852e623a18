\* Two requests on one or two client streams over a single synthetic stream id,
\* every forward decision, protocol errors and a graceful shutdown at any time.
SPECIFICATION Spec
CONSTANTS
    r1 = r1
    r2 = r2
    Requests <- TwoRequests
    StreamIds <- TwoStreams
    Decisions = {"none", "error", "origin", "target", "both"}
    MaxStreamIds = 1
    NumWorkers = 1
    Events = {"shutdown", "protocolError"}
    Stalling = {}
    None = None
SYMMETRY Symmetry2
INVARIANTS WaitGroupExact AnswersMatch StreamIdHeld CleanShutdown
