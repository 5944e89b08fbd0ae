SPECIFICATION XSpec
CONSTANTS
    Pids = {p1, p2, p3}
    Root = p1
    NoPid = nopid
    MaxTracees = 3
    Names = {"clone", "execve"}
    NoName = noname
    IndexKinds = {}
    PointerKinds = {}
    Clone = "clone"
    Exec = "execve"
    FollowForks = TRUE
    SummaryMode = FALSE
    Allowed = {"clone", "execve"}
    DeferredKinds <- MCDeferredKinds
    MaxCalls = 3
    MaxSignals = 1
INVARIANTS ExecOnlyOvercounts ExecDisturbsOnlyItself
PROPERTIES Terminates
