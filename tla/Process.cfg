SPECIFICATION Spec
CONSTANTS
    N = 4
    None = None
    ThreadSigs = {10}
    Depth = 1
    Loads = {"group", "exec", "tree", "jobs", "mask"}
INVARIANTS
    TreeExact
    NoSleeperForgotten
    SignalsKept
CHECK_DEADLOCK FALSE
