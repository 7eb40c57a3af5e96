SPECIFICATION Spec
CONSTANTS
    t1 = t1
    t2 = t2
    s1 = s1
    s2 = s2
    Windows = {w1, w2}
    Small = {w2}
    Tops = {t1, t2}
    Subs = {s1, s2}
    TopOf <- MCTopOf
    Null = Null
INVARIANTS
    MemoryIsLastClick
    NarrowIsClosed
PROPERTY LoadRestores
