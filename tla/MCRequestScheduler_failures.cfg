CONSTANTS
    NumRequests = 5
    WorkersCount = 3
    Graphs <- MCDropped
    PayerSets <- MCFewPayers
    StatusCodes <- MCOkOrError
    ExecutorMayThrow = TRUE
    LaunchPolicies <- MCPolicies
SPECIFICATION Spec
INVARIANTS
    CrashNeedsDroppedEdge
    ProducersCounted
    NullMeansAllExecuted
CHECK_DEADLOCK FALSE
