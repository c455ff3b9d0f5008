SPECIFICATION Spec
CONSTANTS
    s1 = s1
    j1 = j1
    j2 = j2
    None = None
    Sessions = {s1}
    Jobs = {j1, j2}
    MaxProposals = 1
    Invalid = {}
INVARIANTS
    DryRunIsReported
