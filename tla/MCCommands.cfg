SPECIFICATION CommandsSpec
CONSTANTS
    t1 = t1
    t2 = t2
    o1 = o1
    Transport = Transport
    Clients = {c1, c2}
    Reports = {p1, p2}
    OtherFields = {"option", "normal", "rest"}
    TaskOrder <- MCTaskOrder
    ObjectOrder <- MCObjectOrder
    Identities = {"SSLS", "SSLC"}
    Certs = {"a", "b"}
    ClassNames = {"n"}
    CheckedNames = {"a", "b"}
    Rids = {"r1", "r2"}
    System = "system"
    Subs = {"p", "q"}
    MaxNames = 2
    MaxMessages = 2
    MaxCommands = 2
    MaxRuns = 2
    MaxElements = 3
    MaxEvents = 6
SYMMETRY MCSymmetry
INVARIANTS
    TypesOK
    ParentLast
    OkMeansDone
    ActivationAsReported
    DoneIsInUse
    RunsAlone
    ExitTellsTheResult
    PasswordIsKnown
    RepositoryAsReported
    MappingIsFaithful
    TreeAsReported
    AttributesAsAsked
PROPERTIES
    RetryCompletes
    KeysSurvive
CHECK_DEADLOCK FALSE
