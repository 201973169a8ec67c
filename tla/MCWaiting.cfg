SPECIFICATION WaitingSpec
CONSTANTS
    MaxRuns = 2
    MaxJobs = 4
INVARIANTS
    ZeroMeansCloned
    ImportsOnlyIfAbandoned
    ReportIsCurrent
    NoStrayDots
PROPERTIES
    EveryRunEnds
    EveryWaitEnds
CHECK_DEADLOCK FALSE
