CONSTANTS
    ask = ask
    image = image
    Flows = {f1, f2, f3}
    Prompts <- MCPrompts
    Wordless = {image}
    Requests <- AllRequests
    Dirs = {d1}
    PassiveEnv = FALSE
    Faults = {"clean", "account", "put"}
    MaxSwitches = 1
SPECIFICATION Spec
INVARIANTS OneRecordPerFlow LogAgreesWithMetrics PinnedBaselineIsUntouched HitIsAuthentic
PROPERTY RepeatIsServed
SYMMETRY Symmetry
CHECK_DEADLOCK FALSE
