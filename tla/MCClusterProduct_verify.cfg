CONSTANTS
    Request <- MCRequests
    Inputs <- MCInputs
SPECIFICATION FairSpec
INVARIANTS
    SoundUnlessCrowded
    SortedAhead
    PairwiseExact
    Precise
    RejectedForCause
PROPERTIES
    Terminates
CHECK_DEADLOCK FALSE
