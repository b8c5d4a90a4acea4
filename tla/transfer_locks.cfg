CONSTANTS
    Users = {u1, u2}
    Senders = {s1, s2}
    Handles = {h1, h2, h3}
    h1 = h1
    h2 = h2
    h3 = h3
    InitReg <- TwoHandles
    Blocks = {b1}
    Ops = {"read", "ftruncate", "truncate"}
    Failures = {}
    MaxCrashes = 0
    Nil = Nil
SYMMETRY ThreadSymmetry
SPECIFICATION SpecQuiet
INVARIANTS TransfersExclusive UnlocksOwn LockInv NoLockLeaks
CHECK_DEADLOCK FALSE
