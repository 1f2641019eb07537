SPECIFICATION LoopSpec
CONSTANTS
    Questions = {"ask"}
    Results = {"result"}
    Words <- MCWords
    Threshold = 85
    MaxMessages = 4
    MaxReplies = 2
CHECK_DEADLOCK FALSE
INVARIANT AnsweredCallIsNotServed
