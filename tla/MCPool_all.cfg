SPECIFICATION FairSpec
CONSTANTS
    c1 = c1
    c2 = c2
    c3 = c3
    s1 = s1
    s2 = s2
    Clients <- MCClients3
    Sandboxes <- MCSandboxes
    Evictor = Evictor
    Closer = Closer
    NoSandbox = NoSandbox
    OptMaxSize = 2
    OptMinSize = 1
    IdleTTLSet = TRUE
    NewMayFail = TRUE
    CtxMayCancel = TRUE
    ClientsMayClose = FALSE
INVARIANTS TypeOK SizeAccounts LiveBounded ExclusiveLease LeaseReady NothingWasted
PROPERTIES LeaseSpec CloseReturns EvictorEnds
