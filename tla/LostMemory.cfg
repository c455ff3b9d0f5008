SPECIFICATION Spec
CONSTANTS
    c1 = c1
    c2 = c2
    p1 = p1
    s1 = s1
    k1 = k1
    None = None
    Calls = {c1, c2}
    Processes = {p1}
    Sessions = {}
    Keys = {k1}
INVARIANTS
    AnsweredMemoryIsCommitted
