SPECIFICATION FairSpec
CONSTANTS
    c1 = c1
    c2 = c2
    c3 = c3
    s1 = s1
    s2 = s2
    Clients <- MCClients1
    Sandboxes <- MCSandboxes
    Evictor = Evictor
    Closer = Closer
    NoSandbox = NoSandbox
    OptMaxSize = 1
    OptMinSize = 1
    IdleTTLSet = TRUE
    NewMayFail = FALSE
    CtxMayCancel = FALSE
    ClientsMayClose = FALSE
PROPERTIES AcquireReturns
