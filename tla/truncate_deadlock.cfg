CONSTANTS
    Users = {u1}
    Senders = {s1}
    Handles = {h1, h2}
    h1 = h1
    h2 = h2
    h3 = h3
    InitReg <- TwoHandles
    Blocks = {b1}
    Ops = {"write", "ftruncate"}
    Failures = {}
    MaxCrashes = 0
    Nil = Nil
SPECIFICATION SpecStable
INVARIANTS NoSelfDeadlock
CHECK_DEADLOCK FALSE
