CONSTANTS
    None = None
    Clients = {c1, c2}
    Statements <- Mixed
    Keyspaces = {"ks1", "system"}
    PrimaryCluster = "target"
    DualReads = TRUE
    SystemQueriesToTarget = FALSE
    VirtualizationEnabled = TRUE
    ReplaceCqlFunctions = TRUE
    HashKeyspace <- NoCluster
    Failing <- NotUse
    MaxRequests = 4
    MaxRestarts = 1
SPECIFICATION Spec
SYMMETRY Permuted
INVARIANTS OwnIds AckedWritesOnBoth UnpreparedNamesExecuted RoutedAsPrepared PreparingHeals
