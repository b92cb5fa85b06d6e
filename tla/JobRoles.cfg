CONSTANTS
    x1 = x1
    o = o
    NoProc = NoProc
    NoResult = NoResult
    Executors = {x1}
    Operators = {o}
    MaxJobs = 2
    MaxIngests = 1
SPECIFICATION FairSpec
INVARIANTS
    OneExecutionPerJob
    VerificationHasSuccess
PROPERTIES
    InterruptsTheDead
    CompletionReachesMaster
CHECK_DEADLOCK FALSE
