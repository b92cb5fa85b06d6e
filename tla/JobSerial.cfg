CONSTANTS
    x1 = x1
    o = o
    NoProc = NoProc
    NoResult = NoResult
    Executors = {o}
    Operators = {o}
    MaxJobs = 3
    MaxIngests = 1
SPECIFICATION Spec
INVARIANTS
    NewestIsCurrent
    ReconciledOnce
PROPERTIES
    ImplementsLifecycle
CHECK_DEADLOCK FALSE
