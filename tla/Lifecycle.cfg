SPECIFICATION FairSpec
CONSTANTS
    s1 = s1
    s2 = s2
    j1 = j1
    None = None
    Sessions = {s1, s2}
    Jobs = {j1}
    MaxProposals = 2
    Invalid = {2}
PROPERTIES
    LifecycleRefinement
    ConfirmReturns
