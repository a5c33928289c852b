CONSTANTS
    Request <- MCRequests
    Inputs <- MCInputs
    ProgramOf <- MCProgramOf
    Failing <- MCFailing
    Capacity = 3
    Base = 3
SPECIFICATION Spec
INVARIANTS
    Serializable
    OutdatedSizeHarmless
PROPERTIES
    AllEnd
CHECK_DEADLOCK FALSE
