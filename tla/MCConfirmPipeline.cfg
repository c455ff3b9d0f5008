SPECIFICATION Spec
CONSTANTS
    s1 = s1
    s2 = s2
    j1 = j1
    j2 = j2
    None = None
    Sessions = {s1, s2}
    Jobs = {j1, j2}
    MaxProposals = 2
    Invalid = {2}
SYMMETRY SessionSymmetry
INVARIANTS
    TypeOK
    BatchIsFresh
    AppliedWasPublished
    BatchesStayInSession
    ReplyMatchesStore
    OnlyWholeLiveBatchesLeave
    WorktreesAreReleased
