SPECIFICATION SessionSpec
CONSTANTS
    None = None
    Procs = {p1}
    SessionIds = {s1, s2}
    GoalIds = {g1}
    MaxCommands = 4
    MaxTurns = 2
    MaxLines = 4
INVARIANT GoalsPersist
CHECK_DEADLOCK FALSE
