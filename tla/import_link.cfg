CONSTANTS
    f1 = f1
    f2 = f2
    l1 = l1
    d1 = d1
    Files = {f1, f2}
    Links = {l1}
    Folders = {d1}
    Home <- SmallHome
    Nil = Nil
SPECIFICATION Spec
INVARIANTS SourceEmptied
