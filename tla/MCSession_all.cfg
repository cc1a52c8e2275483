SPECIFICATION Spec
CONSTANTS
    PATH = PATH
    x = x
    v1 = v1
    v2 = v2
    f = f
    img = img
    Root <- MCRoot
    Cd = Cd
    NoVal = NoVal
    NoVar = NoVar
    Unset = Unset
    Names <- MCNames
    Vals <- MCVals
    FuncNames <- MCFuncs
    Dirs <- MCPlaces
    Files <- MCNone
    Outside <- MCOutside
    Skeleton <- MCBuilt
    BaseImage <- MCNone
    WorkDir <- MCHome
    InitEnv <- MCInitEnv
    Dotted <- MCDottedNames
    Siblings <- MCSiblings
    OnHost <- MCOnHost
    UserNames <- MCUserNames
    MaxHistory = 2
    MaxScript = 2
INVARIANTS TypeOK StateMirrorsShell NamesAgree
PROPERTIES PersistentShellSpec ResetRestores
