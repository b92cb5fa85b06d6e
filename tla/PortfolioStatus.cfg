SPECIFICATION Spec
CONSTANTS
    a = a
    b = b
    c = c
    Strategies <- MCStrategies
    Versions <- MCVersions
    Eligibilities <- MCEligibilities
    Limits <- MCLimits
    MaximumStrategies = 2
    MaxCrashes = 1
INVARIANT StatusAnswers
CHECK_DEADLOCK FALSE
