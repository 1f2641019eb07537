\* Two commands on two ports, one of which a local model server listens on, one
\* event around them; two processes on the CA directory, two pairs, four launches.
SPECIFICATION MCSpec
CONSTANTS
    Commands = {c1, c2}
    MaxPort = 2
    Targets = {2, 3}
    Nobody = nobody
    MaxEvents = 1
    Makers = {m1, m2}
    MaxPairs = 2
    MaxRuns = 4
\* Commands and processes end.
CHECK_DEADLOCK FALSE
INVARIANTS
    TargetsAreCovered
    FailedStartLeavesNothing
    CaInv
    LoneMakerLeavesWholeCa
    BundleIsCurrent
PROPERTIES
    TeardownSparesPreexisting
    EveryCommandSettles
