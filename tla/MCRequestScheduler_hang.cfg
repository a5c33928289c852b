CONSTANTS
    NumRequests = 2
    WorkersCount = 2
    Graphs <- MCOrderedDags
    PayerSets <- MCAnyPayers
    StatusCodes <- MCOkOrError
    ExecutorMayThrow = FALSE
    LaunchPolicies <- MCAsync
SPECIFICATION FairSpec
PROPERTIES
    Terminates
CHECK_DEADLOCK FALSE
