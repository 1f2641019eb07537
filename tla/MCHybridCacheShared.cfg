CONSTANTS
    plan = plan
    ask = ask
    persona = persona
    blank = blank
    mirror = mirror
    Absent = Absent
    Keys = {ask, mirror}
    Procs = {p1, p2}
    Provider <- MCProvider
    System <- MCSystem
    Similar <- MCSimilar
    Tokenless <- MCTokenless
    Ttl = 1
    Interval = 2
    BatchSize = 1
    CandidateLimit = 1
    MaxTime = 2
    MaxSteps = 0
    reader = p1
    MaxRows = 2
SPECIFICATION SharedSpec
INVARIANTS CacheInv
PROPERTIES SweepTerminates
CHECK_DEADLOCK FALSE
