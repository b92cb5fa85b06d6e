CONSTANTS
    x1 = x1
    o = o
    NoProc = NoProc
    NoResult = NoResult
    Executors = {x1}
    Operators = {o}
    MaxJobs = 1
    MaxIngests = 1
SPECIFICATION Spec
PROPERTY SignalledIsNotAwaited
CHECK_DEADLOCK FALSE
