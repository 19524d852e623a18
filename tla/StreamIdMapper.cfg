\* Three goroutines on a pool of two ids; besides the responses of the requests
\* there are duplicated and unknown ones with any id.
SPECIFICATION Spec
CONSTANTS
    p1 = p1
    p2 = p2
    p3 = p3
    Procs <- MCProcs
    ClientStreamIds <- StreamIdsV2
    ProtocolVersion = 2
    ProxyMaxStreamIds = 2
    None = None
SYMMETRY Symmetry
INVARIANTS IdsConserved OwnStreamId
CHECK_DEADLOCK FALSE
