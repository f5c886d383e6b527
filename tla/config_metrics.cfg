SPECIFICATION Spec
CONSTANTS
    NameOrder <- MCNameOrder
    Reserved = {"_x"}
    Unrooted = {"hint", "healthz", "metrics", "m/x"}
    Odd = {"//hint", "/{a}", "/{b}"}
    Unmountable = {"hint", "healthz", "metrics", "//hint"}
    Overlaps <- MCOverlaps
    NaN = NaN
    Documents <- MCDocuments
    Unset = Unset
    NoPool = NoPool
CHECK_DEADLOCK FALSE
INVARIANTS
    EveryListenerMounts
