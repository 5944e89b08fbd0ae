SPECIFICATION CSpec
CONSTANTS
    Pids = {p1, p2}
    Root = p1
    NoPid = nopid
    MaxTracees = 2
    Names = {"clone", "read", "getpid"}
    NoName = noname
    IndexKinds = {}
    PointerKinds = {"read_entry"}
    Clone = "clone"
    FollowForks = TRUE
    SummaryMode = TRUE
    Allowed = {"clone", "read"}
    DeferredKinds <- MCDeferredKinds
    MaxCalls = 3
    MaxSignals = 0
    MaxEntries = 2
    Elapsed = {1}
INVARIANT AccountedToOwnName
PROPERTY TablePrinted
