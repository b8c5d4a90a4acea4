CONSTANTS
    Users = {u1}
    Senders = {s1, s2}
    Handles = {h1, h2}
    h1 = h1
    h2 = h2
    h3 = h3
    InitReg <- TwoHandles
    Blocks = {b1}
    Ops = {"write"}
    Failures = {}
    MaxCrashes = 0
    Nil = Nil
SPECIFICATION SpecStable
INVARIANTS SendsLocalFile
CHECK_DEADLOCK FALSE
