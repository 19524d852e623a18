CONSTANTS
    None = None
    ForwardClientCredentialsToOrigin = FALSE
    AsyncCluster <- AsyncOnOrigin
    MaxAuthRetries = 1
    MaxRequests = 3
SPECIFICATION FairSpec
INVARIANTS ReadyMeansBoth CredentialsMeant
PROPERTIES AuthErrorSticks HandshakeEnds AsyncIsolated
