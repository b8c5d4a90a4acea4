CONSTANTS
    Users = {u1}
    Senders = {s1}
    Handles = {h1, h2}
    h1 = h1
    h2 = h2
    h3 = h3
    InitReg <- TwoHandles
    Blocks = {b1, b2}
    Ops = {"read", "write", "getattr", "flush", "ftruncate", "lstat"}
    Failures = {"noexec", "truncate"}
    MaxCrashes = 2
    Nil = Nil
SPECIFICATION SpecStable
INVARIANTS TypeOK GetattrHonest DataInv
PROPERTIES Refines
CHECK_DEADLOCK FALSE
