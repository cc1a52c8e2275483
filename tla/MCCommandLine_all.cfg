SPECIFICATION FairSpec
CONSTANTS
    t1 = t1
    t2 = t2
    p = p
    q = q
    a = a
    d1 = d1
    d2 = d2
    u = u
    c1 = c1
    c2 = c2
    k1 = k1
    k2 = k2
    Tasks <- MCTasks
    Main = t1
    PipPkgs <- MCPip
    PipFiles <- MCPipFiles
    Brings <- MCBrings
    Matches <- MCMatches
    AptPkgs <- MCApt
    Debs <- MCDebs
    Needs <- MCNeeds
    UserFiles <- MCUser
    NoPkg = NoPkg
    TarOrder <- MCTarOrder
    Commands <- MCCommands
    NoText = NoText
    LogCap = 2
    MaxLog = 2
    MaxJobs = 2
    MaxFiles = 0
    Callers <- MCCallers
    NoCaller = NoCaller
    MaxLines = 3
    MaxCalls = 2
INVARIANTS CommandLineTypeOK LockExclusive RecordedExtracted ManifestAgrees PartOnlyIfCut
    PromptShown OneRun LogInOrder InstallsShimmed CleanExit
PROPERTIES SavedFaithful RestoredFaithful CallsReturn LogShown PromptReturns
CHECK_DEADLOCK FALSE
