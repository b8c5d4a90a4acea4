CONSTANTS
    Users = {u1}
    Senders = {s1}
    Handles = {h1, h2, h3}
    h1 = h1
    h2 = h2
    h3 = h3
    InitReg <- TwoHandles
    Blocks = {b1}
    Ops = {"flush", "copy"}
    Failures = {"exit", "update"}
    MaxCrashes = 1
    Nil = Nil
SPECIFICATION Spec
INVARIANTS RegisteredOpen
CHECK_DEADLOCK FALSE
