SPECIFICATION Spec
CONSTANTS
    MaxCalls = 3
    MaxExpiries = 2
INVARIANTS
    AtMostOnce
    OutcomeIsTruthful
PROPERTIES
    ImplementsRemoteCall
    EveryCallEnds
CHECK_DEADLOCK FALSE
