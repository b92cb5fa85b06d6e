CONSTANTS
    x1 = x1
    o = o
    NoProc = NoProc
    NoResult = NoResult
    Executors = {o}
    Operators = {o}
    MaxJobs = 1
    MaxIngests = 1
SPECIFICATION Spec
PROPERTY CompletedStays
CHECK_DEADLOCK FALSE
