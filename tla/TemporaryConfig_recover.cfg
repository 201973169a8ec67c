SPECIFICATION Spec
CONSTANTS
    c1 = c1
    c2 = c2
    Null = Null
    Clients <- MCOne
    Commands <- MCEveryCommand
    InitialSettings <- MCEverySetting
INVARIANTS
    RecoverMessagePrinted
CHECK_DEADLOCK FALSE
