\* Seven messages of two texts; five events of two parallel calls in chunks of two;
\* six items of a Gemini client, with two calls in an item;
\* two sessions; three requests; a workload of two turns, evaluated twice, with one fault; four artefacts.
SPECIFICATION MCSpec
CONSTANTS
    Bodies = {"mid", "long"}
    Length <- MCLength
    MaxTurns = 4
    RecentTurns = 3
    MaxMessages = 7
    LastIndex = 1
    MaxEvents = 5
    MaxChunk = 2
    BufferLimit = 2
    Functions = {"f", "g"}
    MaxItems = 6
    MaxCalls = 2
    OwnPort = 1
    ModelPorts = {2, 3}
    MaxSessions = 2
    Epoch = 50
    MaxTime = 3
    Floor = 2
    Saved = {3}
    MaxRequests = 3
    Turns = 2
    FullTokens <- MCFullTokens
    CleanedTokens <- MCCleanedTokens
    Body <- MCBody
    FailUnder = 29
    Rounds = 2
    MaxOthers = 1
    MaxFaults = 1
    Count = 2
    Tolerance = 50
    MinDelta = 30
    Ceiling = 300
    MainDurations = {40, 100}
    Durations = {65, 100, 320}
    ForkDurations = {320}
    MaxArtifacts = 4
\* Conversations, streams and logs are bounded.
CHECK_DEADLOCK FALSE
INVARIANTS
    CallsKeepResults
    ReferencesResolve
    RecentTurnsAreKept
    CacheMarksWithinLimit
    BridgedRequestIsFaithful
    StreamIsFaithful
    KeptIsPrefix
    EndpointIsReached
    RedirectionNeedsDeclaration
    FiguresAgreeWithLog
    MeasuredByOneClock
    ScoredPassesAreComparable
    GateJudgesByMain
