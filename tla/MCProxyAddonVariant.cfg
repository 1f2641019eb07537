CONSTANTS
    ask = ask
    image = image
    Flows = {f1}
    Prompts <- MCPrompts
    Wordless = {image}
    Requests <- CloudRequests
    Dirs = {d1, d2}
    PassiveEnv = FALSE
    Faults = {}
    MaxSwitches = 1
SPECIFICATION Spec
INVARIANT RecordBelongsToVariant
CHECK_DEADLOCK FALSE
