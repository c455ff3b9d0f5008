----------------------------- MODULE Permission -----------------------------
(* Permission modes, agent/permission.py. Nothing ever prompts: a mode lets *)
(* a tool run or it does not.                                               *)

VARIABLE mode

Modes == {"manual", "acceptEdits", "auto", "plan"}

AlwaysAuto ==
    {"search_codebase", "search_kovanica_docs", "read_file",
     "explain_concept", "query_node_api", "glob", "grep",
     "memory_recall", "session_list"}

ApprovalRequired ==
    {"edit", "write", "bash", "run_cargo_command", "git_diff_suggest",
     "run_kovanica_cli", "task_add", "task_done", "task_remove",
     "session_kill", "memory_store", "memory_forget"}

CanRun_InPlanToo(tool) == mode = "auto" => tool \in AlwaysAuto \/ tool \notin ApprovalRequired

CanRun(tool) ==
    /\ mode # "plan"
    /\ mode = "auto" => tool \in AlwaysAuto \/ tool \notin ApprovalRequired

SetMode(m) == mode' = m
=============================================================================
