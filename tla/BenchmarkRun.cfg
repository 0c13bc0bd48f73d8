CONSTANT Retries = 1
SPECIFICATION RunSpec
INVARIANTS EndsProperly
PROPERTIES TerminateEndsRun
CHECK_DEADLOCK FALSE
