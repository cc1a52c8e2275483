SPECIFICATION Spec
CONSTANTS
    PATH = PATH
    x = x
    v1 = v1
    v2 = v2
    f = f
    img = img
    Root <- MCRoot
    Cd = Cd
    NoVal = NoVal
    NoVar = NoVar
    Unset = Unset
    Names <- MCNames
    Vals <- MCVals
    FuncNames <- MCFuncs
    Dirs <- MCPlaces
    Files <- MCImage
    Outside <- MCOutside
    Skeleton <- MCBuilt
    BaseImage <- MCImage
    WorkDir <- MCDotted
    InitEnv <- MCInitEnv
    Dotted <- MCNone
    Siblings <- MCSiblings
    OnHost <- MCNone
    UserNames <- MCNone
    MaxHistory = 1
    MaxScript = 1
PROPERTIES ResetRestores
