SPECIFICATION Spec
CONSTANTS
    k = k
    u = u
    x = x
    y = y
    None = None
    Processes = {p1, p2}
    Connections <- MCConnections
    Users <- MCUsers
    Contexts <- MCContexts
    Sources <- MCSources
    InitialFiles <- MCInitialFiles
    MaxCommands = 3
INVARIANTS
    ReferencesHold
    CurrentContextExists
    NoLostUpdate
PROPERTIES
CHECK_DEADLOCK FALSE
