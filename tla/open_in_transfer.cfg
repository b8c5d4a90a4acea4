CONSTANTS
    Users = {u1}
    Senders = {s1}
    Handles = {h1, h2}
    h1 = h1
    h2 = h2
    h3 = h3
    InitReg <- OneHandle
    Blocks = {b1}
    Ops = {"getattr"}
    Failures = {}
    MaxCrashes = 0
    Nil = Nil
SPECIFICATION Spec
INVARIANTS TransfersExclusive
CHECK_DEADLOCK FALSE
