SPECIFICATION ServicesSpec
CONSTANTS
    None = None
    Clients = {k1}
    RateWindow = 2
    RateLimit = 2
    MaxTime = 7
    Threads = {t1, t2}
    Ips = {ip1}
    Paths = {"chat", "docs"}
    Rules <- MCRules
    Within <- MCWithin
    MaxClock = 4
    MaxNetworks = 1
    Procs = {p1, p2}
    SessionIds = {s1, s2}
    GoalIds = {g1}
    MaxCommands = 4
    MaxTurns = 2
    MaxLines = 4
    Reviewers = {v1, v2}
    Items = {i1, i2}
    Users = {u1, u2}
    Teams = {"g1", "g2"}
    Organizations = {"g3"}
    Resources = {"r1"}
    GroupLevels <- MCGroupLevels
    MaxRustLines = 4
    ChunkLines = 2
    MaxSections = 4
    MaxSectionLines = 4
    Indexers = {x1, x2}
    FilesOf <- MCFilesOf
    Contents = {"x1", "x2"}
    SpansOf <- MCSpansOf
    BatchSize = 2
    Calls = {c1, c2}
    Chats = {k1, k2}
    Sessions = {s1, s2}
    MaxUpdates = 2
    MaxParts = 2
    Kept = {"config", "vault"}
    Types = {"full"}
    Names = {n1, n2}
    MaxSecond = 0
    MaxCalls = 3
    MaxWrites = 1
    PluginNames = {"p1", "p2"}
    MaxVersion = 2
    Requires <- MCRequires
    Declares <- MCDeclares
    Applies = {a1, a2}
    OpenFor = {a1}
INVARIANTS
    ServicesTypeOK
    RateIsKept
    OverrunIsBounded
    TurnsAreKept
    ItemsAreInOnePlace
    ChecksAreBacked
    
    TextIsKept
    IndexIsCurrent
    CargoAnswersAreTrue
    RepliesAreTheirTurns
    RestoresAreFaithful
    PluginsAreAsListed
    LeftoversAreBounded
CHECK_DEADLOCK FALSE
