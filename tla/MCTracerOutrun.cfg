SPECIFICATION Spec
CONSTANTS
    Root = p1
    NoPid = nopid
    NoName = noname
    Clone = "clone"
    FollowForks = TRUE
    SummaryMode = FALSE
    DeferredKinds <- MCDeferredKinds
    Names = {"clone", "read"}
    Allowed = {"clone", "read"}
    IndexKinds = {}
    PointerKinds = {"read_entry"}
    Pids = {p1, p2}
    MaxTracees = 2
    MaxCalls = 2
    MaxSignals = 0
INVARIANT AllExitedIsTrue
