CONSTANTS
    Callers = {loop, other}
    Records = {r1, r2}
    NoOne = NoOne
    MaxCrashes = 1
SPECIFICATION FairSpec
INVARIANTS LogInv FlushCoversDumped PendingDoesNotLeak LineHasTurnFile
PROPERTIES JournalSpec EveryDumpSettles ShutdownReturnsOrCallback
ACTION_CONSTRAINT FirstComesFirst
CHECK_DEADLOCK FALSE
