SPECIFICATION FairSpec
CONSTANTS
    s1 = s1
    s2 = s2
    None = None
    search_codebase = search_codebase
    run_bash = run_bash
    git_diff_suggest = git_diff_suggest
    Sessions = {s1, s2}
    UserTools = {search_codebase}
    OtherDevTools = {run_bash}
    GitDiffSuggest = git_diff_suggest
    RecursionLimit = 5
INVARIANTS
    GraphTypeOK
    ParkedOnAProposal
    GateOpensByConfirm
    DevToolsNeedAChat
    NothingRunsBesideAProposal
PROPERTIES
    TurnsEnd
