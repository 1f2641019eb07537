CONSTANTS
    ask = ask
    image = image
    Flows = {f1, f2}
    Prompts <- MCPrompts
    Wordless = {image}
    Requests <- MixedRequests
    Dirs = {d1}
    PassiveEnv = FALSE
    Faults = {}
    MaxSwitches = 0
SPECIFICATION Spec
INVARIANT HitIsAuthentic
CHECK_DEADLOCK FALSE
