SPECIFICATION FairSpec
CONSTANTS
    c1 = c1
    c2 = c2
    p1 = p1
    p2 = p2
    s1 = s1
    k1 = k1
    s2 = s2
    None = None
    Calls = {c1, c2}
    Processes = {p1, p2}
    Sessions = {s1, s2}
    Keys = {k1}
INVARIANTS
    TypeOK
    AnsweredTasksAreCommitted
    AddedTasksStay
PROPERTIES
    CallsReturn
