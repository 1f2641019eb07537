CONSTANTS
    Callers = {loop}
    Records = {r1}
    NoOne = NoOne
    MaxCrashes = 0
SPECIFICATION FairSpec
PROPERTY ShutdownReturns
CHECK_DEADLOCK FALSE
