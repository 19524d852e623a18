\* Two requests, fire and forget or of the handshake, with every answer; timers
\* fire, responses arrive and the handler is canceled at any time.
SPECIFICATION Spec
CONSTANTS
    r1 = r1
    r2 = r2
    Requests <- TwoRequests
    Kinds = {"async", "handshake"}
    NumIds = 2
    QueueSize = 1
    Answers = {"ok", "unprepared", "protocolError"}
    None = None
SYMMETRY Symmetry
INVARIANTS WaitGroupSound NeverStuck
