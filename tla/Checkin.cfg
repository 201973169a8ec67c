SPECIFICATION Spec
CONSTANTS
    root = root
    sub = sub
    cl = cl
    lc = lc
    fg = fg
    main = main
    test = test
    macros = macros
    func = func
    None = None
    Clients = {c1, c2}
    PackageOrder <- MCPackageOrder
    Parent <- MCParent
    Objects <- MCObjects
    Kind <- MCKind
    Home <- MCHome
    Sources <- MCSources
    Remote = {func}
    Unknown = {macros}
    Capitals = {root}
SYMMETRY MCSymmetry
INVARIANTS
    GroupsComplete
    ClassesSurvive
    RerunSucceeds
CHECK_DEADLOCK FALSE
