CONSTANTS
    Users = {u1, u2}
    Senders = {s1}
    Handles = {h1, h2}
    h1 = h1
    h2 = h2
    h3 = h3
    InitReg <- TwoHandles
    Blocks = {b1}
    Ops = {"write"}
    Failures = {"noexec"}
    MaxCrashes = 0
    Nil = Nil
SPECIFICATION SpecLive
INVARIANTS NoDeadlock SentBeforeEmptied
PROPERTIES TurnsRemoteWhole DeletesFetched RequestsComplete Drained
