CONSTANTS
    u1 = u1
    u2 = u2
    s1 = s1
    s2 = s2
    p1 = p1
    p2 = p2
    data = data
    Empty = empty
    Nil = Nil
    GivenUp = GivenUp
    Users = {u1, u2}
    Senders = {s1, s2}
    Paths = {p1, p2}
    Contents = {data, empty}
    Ops = {"create", "write", "read", "rename", "unlink", "rebuild"}
SYMMETRY Alike
CONSTRAINT Focus
SPECIFICATION Spec
INVARIANTS TypeOK  FilesTracked
