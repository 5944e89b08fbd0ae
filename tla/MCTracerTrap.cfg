SPECIFICATION Spec
CONSTANTS
    Root = p1
    NoPid = nopid
    NoName = noname
    Clone = "clone"
    FollowForks = TRUE
    SummaryMode = FALSE
    DeferredKinds <- MCDeferredKinds
    Names = {"clone", "read"}
    Allowed = {"clone", "read"}
    IndexKinds = {}
    PointerKinds = {"read_entry"}
    Pids = {p1}
    MaxTracees = 1
    MaxCalls = 1
    MaxSignals = 1
PROPERTY SignalsRedelivered
