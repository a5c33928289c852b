CONSTANTS
    Request <- MCRequests
    Inputs <- MCWriters
SPECIFICATION Spec
INVARIANTS
    Sound
CHECK_DEADLOCK FALSE
