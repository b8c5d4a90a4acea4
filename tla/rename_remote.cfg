CONSTANTS
    u1 = u1
    u2 = u2
    s1 = s1
    s2 = s2
    p1 = p1
    p2 = p2
    data = data
    Empty = empty
    Nil = Nil
    GivenUp = GivenUp
    Users = {u1}
    Senders = {s1}
    Paths = {p1, p2}
    Contents = {data, empty}
    Ops = {"create", "write", "read", "rename"}
CONSTRAINT OnlyMoved
SPECIFICATION Spec
INVARIANTS RenameKeepsContent
