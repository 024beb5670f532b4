SPECIFICATION BatchSpec
CONSTANTS
    MaxNames = 5
    Inputs <- AllInputs
    key <- lowered
    Blank = ""
    NormalizeQuery <- registrable
    MaxBatch = 4
    availabilityConcurrency = 2
    AvailabilityTimeout = 2
    Answers = {"yes", "error"}
    Errors = {"error"}
CHECK_DEADLOCK FALSE
INVARIANTS
    
    BatchBounded
PROPERTIES
    BatchReturns
