CONSTANTS
    ask = ask
    image = image
    Flows = {f1, f2}
    Prompts <- MCPrompts
    Wordless = {image}
    Requests <- LocalRequests
    Dirs = {d1, d2}
    PassiveEnv = FALSE
    Faults = {"adapt", "clean", "lookup", "account", "put", "dump"}
    MaxSwitches = 2
SPECIFICATION Spec
INVARIANTS AddonInv StreamsBypassCache
SYMMETRY Symmetry
CHECK_DEADLOCK FALSE
