SPECIFICATION FairSpec
CONSTANTS
    c1 = c1
    c2 = c2
    c3 = c3
    s1 = s1
    s2 = s2
    Clients <- MCClients3
    Sandboxes <- MCSandboxes
    Evictor = Evictor
    Closer = Closer
    NoSandbox = NoSandbox
    OptMaxSize = 2
    OptMinSize = 5
    IdleTTLSet = FALSE
    NewMayFail = FALSE
    CtxMayCancel = FALSE
    ClientsMayClose = TRUE
PROPERTIES AcquireReturns
