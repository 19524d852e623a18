CONSTANTS
    Callers = {c1, c2, c3}
    MaxHosts = 4
    MaxInstances = 3
    MaxTokens = 2
    Ring = 16
    MaxRefreshes = 2
SPECIFICATION AssignmentSpec
INVARIANTS Balanced SharesAreEven TokensDistinct
