SPECIFICATION Spec
CONSTANTS
    c1 = c1
    c2 = c2
    Null = Null
    Clients <- MCTwo
    Commands <- MCRacingCommands
    InitialSettings <- MCRacingSettings
INVARIANTS
    NoUnwantedImport
    OnlyFlagOrOriginal
VIEW MCRacingView
CHECK_DEADLOCK FALSE
