CONSTANTS
    Apps <- MCApps
    Library <- MCLibrary
    Prepared <- MCPrepared
    Accounts = {"owned", "user"}
    Ways <- MCWays
    OwnerOf <- MCOwnerOf
    Bodies = {"pay"}
    Length <- MCLength
    NonceMax = 3
    SigCost = 1
    MaxCost = 7
    CostRange = 64
    Forwards = {128, 255}
    MaxDepth = 3
    MinClocks = 1
    MaxVersion = 3
    Requests <- MCTimeoutRequests
    MaxCalls = 6
    MaxDeferred = 2
    MaxFrames = 4
    MaxMessages = 3
SPECIFICATION Spec
INVARIANTS
    TimeoutContained
CHECK_DEADLOCK FALSE
