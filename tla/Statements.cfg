CONSTANTS
    Cases <- MCCases
    LocalRows <- MCLocalRows
    PeersRows <- MCPeersRows
    Primary = "origin"
    SystemQueries = "target"
    MaxRefreshes = 2
SPECIFICATION Spec
INVARIANTS ValuesLineUp RewrittenAsRead RowsMatchColumns PeersAreTheOthers
