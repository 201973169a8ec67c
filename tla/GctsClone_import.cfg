SPECIFICATION Spec
CONSTANTS
    MaxRuns = 1
INVARIANTS
    TaskSkipsImport
CHECK_DEADLOCK FALSE
