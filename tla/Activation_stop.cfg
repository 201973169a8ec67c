SPECIFICATION Spec
CONSTANTS
    Objects = {o1, o2}
    MaxNames = 2
    MaxMessages = 2
INVARIANTS
    StopsOnErrors
CHECK_DEADLOCK FALSE
