CONSTANTS
    plan = plan
    ask = ask
    persona = persona
    blank = blank
    mirror = mirror
    Absent = Absent
    Keys = {plan, ask, persona, blank, mirror}
    Procs = {p1}
    Provider <- MCProvider
    System <- MCSystem
    Similar <- MCSimilar
    Tokenless <- MCTokenless
    Ttl = 1
    Interval = 2
    BatchSize = 1
    CandidateLimit = 2
    MaxTime = 2
    MaxSteps = 1
    reader = p1
    MaxRows = 2
SPECIFICATION Spec
CONSTRAINT FewRows
INVARIANTS AnswerIsFresh AnswerFits SweepIsRateLimited
PROPERTIES SweepIsComplete
CHECK_DEADLOCK FALSE
