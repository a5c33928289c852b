CONSTANTS
    NumRequests = 4
    WorkersCount = 3
    Graphs <- MCGraphs
    PayerSets <- MCNoPayers
    StatusCodes <- MCOk
    ExecutorMayThrow = FALSE
    LaunchPolicies <- MCPolicies
SPECIFICATION FairSpec
INVARIANTS
    TypeOK
    PredecessorsFirst
    VerdictByGraph
    OrderInv
PROPERTIES
    ExecutedOnce
    Terminates
    ImplementsOrder
CHECK_DEADLOCK FALSE
