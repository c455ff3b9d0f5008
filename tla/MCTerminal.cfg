SPECIFICATION TerminalSpec
CONSTANTS
    None = None
    HookFiles <- MCHookFiles
    Agents = {a1}
    MaxHooks = 2
    RunIds = {r1}
    Results = {"raw"}
    ServerNames = {n1}
    MaxMessages = 4
    Heartbeats = {h1, h2}
    MaxQueue = 3
INVARIANTS
    TerminalTypeOK
    GatedToolsNeedApproval
    TranscriptIsTheConversation
    StoppedHeartbeatsFallSilent
PROPERTIES
    PlanModeOnlyAnalyses
    LinesAreServed
    QueuedIsServed
CHECK_DEADLOCK FALSE
