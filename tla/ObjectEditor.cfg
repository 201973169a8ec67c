SPECIFICATION Spec
CONSTANTS
    Clients = {c1, c2}
    None = None
INVARIANTS
    OkMeansDone
    LeakOnlyIf
    EditorsExcludeEachOther
PROPERTIES
    EveryEditEnds
CHECK_DEADLOCK FALSE
