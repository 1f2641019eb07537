CONSTANTS
    plan = plan
    ask = ask
    persona = persona
    blank = blank
    mirror = mirror
    Absent = Absent
    Keys = {plan}
    Procs = {p1, p2}
    Provider <- MCProvider
    System <- MCSystem
    Similar <- MCSimilar
    Tokenless <- MCTokenless
    Ttl = 1
    Interval = 1
    BatchSize = 1
    CandidateLimit = 1
    MaxTime = 2
    MaxSteps = 0
    reader = p1
    MaxRows = 2
SPECIFICATION Spec
PROPERTIES SweepSparesFresh
CHECK_DEADLOCK FALSE
