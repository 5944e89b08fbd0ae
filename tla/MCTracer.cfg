SPECIFICATION FairSpec
CONSTANTS
    Pids = {p1, p2}
    Root = p1
    NoPid = nopid
    MaxTracees = 2
    Names = {"clone", "read", "wait4", "getpid"}
    NoName = noname
    IndexKinds = {"wait_status", "rusage"}
    PointerKinds = {"read_entry"}
    Clone = "clone"
    FollowForks = TRUE
    SummaryMode = FALSE
    Allowed = {"clone", "read", "wait4"}
    DeferredKinds <- MCDeferredKinds
    MaxCalls = 3
    MaxSignals = 1
INVARIANTS TypeOK ToggleInSync SavedStateIsOwn CountSound TotalIsExact WaitsForSomeone
PROPERTIES OnlyTrapEaten TraceKeepsPromise Terminates
