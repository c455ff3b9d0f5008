-------------------------------- MODULE Repl --------------------------------
(* The terminal conversation, agent/repl.py: one thread that reads a line,  *)
(* takes it through the permission gate and the hooks, runs it, and reads   *)
(* the next. Commands have the names users type (`task`), tools the names   *)
(* the gate knows (`task_add`): the difference is the point of the model.   *)
EXTENDS Permission, Subagents, Mcp

CONSTANT MaxMessages    \* bound of the model on the conversation

ASSUME MaxMessagesAssumption == MaxMessages \in Nat

VARIABLES
    loaded,     \* the package of the gate and the hooks could be imported
    line,       \* the line being served, [cmd, tool], or None at the prompt
    todo,       \* what it still has to do, a sequence of steps
    blocked,    \* history: a PreToolUse hook returned None for this line
    did,        \* history: the last tool that ran for this line
    conv,       \* Conversation.messages after the system message
    waiting,    \* what the thread waits for that may never come, or None
    vault       \* the transcript, once the loop has ended

replVars ==
    <<mode, hooks, runs, servers, loaded, line, todo, blocked, did, conv, waiting, vault>>

-----------------------------------------------------------------------------
(* What a line does.                                                        *)

(* Tools that take the gate themselves, and those that fire PostToolUse.    *)
Gating ==
    {"search_codebase", "search_kovanica_docs", "run_cargo_command",
     "run_kovanica_cli", "git_diff_suggest", "query_node_api", "explain_concept"}

FiresPost(tool) == tool \in Gating \ {"git_diff_suggest"}

(* Tools that may return before they fire PostToolUse: a search that the    *)
(* service answered, a cargo run of the sandbox, a refused argument.        *)
ReturnsEarly(tool) == tool \in Gating \ {"git_diff_suggest", "explain_concept"}

(* Tools that may raise what no caller catches: sqlite errors of the tasks, *)
(* a missing or slow cargo, the unbound local of `permission check`.        *)
Raises(tool) ==
    tool \in {"task_add", "task_done", "task_remove", "task_summary",
              "run_cargo_command", "permission_check"}

Commands ==
    [glob |-> {"glob"}, grep |-> {"grep"}, read |-> {"read"}, bash |-> {"bash"},
     cargo |-> {"run_cargo_command"}, kovanica |-> {"run_kovanica_cli"},
     node |-> {"query_node_api"}, diff |-> {"git_diff_suggest"},
     explain |-> {"explain_concept"}, search |-> {"search_codebase"},
     task |-> {"task_add", "task_summary", "task_done", "task_remove"},
     session |-> {"session_list", "session_kill"},
     memory |-> {"memory_recall", "memory_store", "memory_forget"},
     hooks |-> {"hooks_list", "hooks_add", "hooks_remove", "hooks_clear"},
     subagent |-> {"subagent_status", "subagent_spawn", "subagent_stop",
                   "subagent_return"},
     mcp |-> {"mcp_list", "mcp_register", "mcp_unregister", "mcp_call"},
     gh |-> {"gh_view", "gh_review"},
     permission |-> {"permission_get", "permission_set", "permission_check"},
     chat |-> {"chat"}]

(* The names of lines and of tools; a command's gate has the command's.     *)
Words == DOMAIN Commands \cup {"say"}

Tools ==
    Gating \cup DOMAIN Commands \cup (UNION {Commands[cmd] : cmd \in DOMAIN Commands})

(* No line, and no transcript, is none of them.                             *)
ASSUME ReplAssumption ==
    None \notin [cmd : Words, tool : Tools] \cup Seq({"user", "assistant"})

Step(op, tool) == [op |-> op, tool |-> tool]

Steps(tool) ==
    (IF tool \in Gating THEN <<Step("gate", tool)>> ELSE <<>>)
    \o <<Step("run", tool)>>
    \o (IF FiresPost(tool) THEN <<Step("post", tool)>> ELSE <<>>)

Searches == Steps("search_codebase") \o Steps("search_kovanica_docs")

(* One turn: search first, also the node if the text has a live hint, and   *)
(* ask the model then, with what was found.                                 *)
ChatSteps(live) ==
    Searches \o (IF live THEN Steps("query_node_api") ELSE <<>>)
    \o <<Step("llm", "chat")>>

Script(cmd, tool, live) ==
    CASE cmd = "chat" -> <<Step("gate", cmd)>> \o ChatSteps(live)
      [] cmd = "explain" -> <<Step("gate", cmd), Step("gate", tool)>> \o Searches
                            \o <<Step("run", tool), Step("post", tool)>>
      [] OTHER -> <<Step("gate", cmd)>> \o Steps(tool)

-----------------------------------------------------------------------------
ReplInit ==
    /\ mode = "manual" /\ hooks = <<>>
    /\ runs = [id \in RunIds |-> None]
    /\ servers = {}
    /\ loaded \in BOOLEAN
    /\ line = None /\ todo = <<>>
    /\ blocked = FALSE /\ did = None
    /\ conv = <<>>
    /\ waiting = None /\ vault = None

Prompting == vault = None /\ line = None
Running == vault = None /\ line # None /\ waiting = None

registries == <<mode, hooks, runs, servers>>

(* `finally`: whatever ended the loop, the transcript is written, but with  *)
(* --no-vault and where the write fails; <<>> stands for none.              *)
End ==
    /\ vault' \in {conv, <<>>}
    /\ waiting' = None /\ line' = None /\ todo' = <<>>
    /\ UNCHANGED <<registries, loaded, blocked, did, conv>>

(* A command line; with arguments it refuses it ends after the gate.        *)
Command(cmd, tool) ==
    /\ Prompting
    /\ line' = [cmd |-> cmd, tool |-> tool]
    /\ todo' \in {<<Step("gate", cmd)>>} \cup {Script(cmd, tool, live) : live \in BOOLEAN}
    /\ UNCHANGED <<registries, loaded, blocked, did, conv, waiting, vault>>

(* !clear, which is not gated. (!help, which is not either, does nothing.)  *)
Clear ==
    /\ Prompting
    /\ conv' = <<>>
    /\ UNCHANGED <<registries, loaded, line, todo, blocked, did, waiting, vault>>

Quit == Prompting /\ End

(* Anything else is a turn of the conversation. What the user said may be   *)
(* learned first, which no gate guards. Without a model nothing is searched.*)
Turn ==
    /\ Prompting
    /\ Len(conv) < MaxMessages
    /\ conv' = Append(conv, "user")
    /\ line' = [cmd |-> "say", tool |-> "chat"]
    /\ todo' \in {<<>>} \cup {ChatSteps(live) : live \in BOOLEAN}
    /\ did' \in {None, [tool |-> "memory_store", cmd |-> "say", mode |-> mode,
                        blocked |-> FALSE]}
    /\ UNCHANGED <<registries, loaded, blocked, waiting, vault>>

At(op) == Running /\ todo # <<>> /\ Head(todo).op = op
Current == Head(todo).tool

AfterRefusal_AsksAgain(tool) == todo

(* A refused command, or its tool, does nothing more; another tool within a *)
(* longer command leaves a text in place of its result.                     *)
AfterRefusal(tool) ==
    IF tool \in {line.cmd, line.tool} THEN <<>>
    ELSE SubSeq(todo, Len(Steps(tool)) + 1, Len(todo))

GateStep_OnceOnly ==
    /\ At("gate")
    /\ UNCHANGED <<registries, loaded, line, did, conv, vault>>
    /\ \/ ~loaded /\ todo' = Tail(todo) /\ UNCHANGED <<blocked, waiting>>
       \/ /\ loaded /\ Current = line.cmd /\ ~CanRun(Current)
          /\ todo' = AfterRefusal(Current) /\ UNCHANGED <<blocked, waiting>>
       \/ /\ loaded /\ (Current # line.cmd \/ CanRun(Current))
          /\ todo' = Tail(todo)
          /\ blocked' = (blocked \/ Blocked)
          /\ waiting' = IF WaitsForItself("PreToolUse", None) THEN "hooks" ELSE None

(* _dispatch_tool: the mode decides, and what the hooks say is dropped.     *)
GateStep ==
    /\ At("gate")
    /\ UNCHANGED <<registries, loaded, line, did, conv, vault>>
    /\ \/ ~loaded /\ todo' = Tail(todo) /\ UNCHANGED <<blocked, waiting>>
       \/ /\ loaded /\ ~CanRun(Current)
          /\ todo' = AfterRefusal(Current) /\ UNCHANGED <<blocked, waiting>>
       \/ /\ loaded /\ CanRun(Current)
          /\ todo' = Tail(todo)
          /\ blocked' = (blocked \/ Blocked)
          /\ waiting' = IF WaitsForItself("PreToolUse", None) THEN "hooks" ELSE None

(* !hooks add and !hooks remove take the word after `hooks` for the name.   *)
HookCommand(tool) ==
    /\ UNCHANGED <<mode, runs, servers, waiting>>
    /\ \/ /\ tool = "hooks_add" /\ Len(hooks) + 2 <= MaxHooks
          /\ \E agent \in Agents \cup {None}, file \in HookFiles : AddHook("add", agent, file)
       \/ tool = "hooks_add" /\ UNCHANGED hooks
       \/ tool = "hooks_remove" /\ \E agent \in Agents : RemoveHook("remove", agent)
       \/ tool = "hooks_clear" /\ ClearHooks
       \/ tool = "hooks_list" /\ UNCHANGED hooks

SubagentCommand(tool) ==
    /\ UNCHANGED <<mode, hooks, servers>>
    /\ \/ /\ tool = "subagent_spawn" /\ UNCHANGED waiting
          /\ \E id \in RunIds, agent \in Agents : SpawnSubagent(id, agent)
       \/ /\ tool = "subagent_stop" /\ UNCHANGED waiting
          /\ \E id \in RunIds : StopSubagent(id)
       \/ /\ tool = "subagent_return"
          /\ \E id \in RunIds, result \in Results :
               /\ ReturnSubagentResult(id, result)
               /\ waiting' = IF /\ runs[id] # None
                                /\ WaitsForItself("SubagentStop", runs[id].agent)
                             THEN "hooks" ELSE None
       \/ tool = "subagent_status" /\ UNCHANGED <<runs, waiting>>

PermissionCommand(tool) ==
    /\ UNCHANGED <<hooks, runs, servers, waiting>>
    /\ \/ tool = "permission_set" /\ \E m \in Modes : SetMode(m)
       \/ tool \in {"permission_get", "permission_check"} /\ UNCHANGED mode

McpCommand(tool) ==
    /\ UNCHANGED <<mode, hooks, runs>>
    /\ \/ /\ tool = "mcp_register" /\ UNCHANGED waiting
          /\ \E name \in ServerNames, transport \in {"http", "stdio"} :
               RegisterServer(name, transport)
       \/ /\ tool = "mcp_unregister" /\ UNCHANGED waiting
          /\ \E name \in ServerNames : UnregisterServer(name)
       \/ tool = "mcp_list" /\ ListTools /\ UNCHANGED waiting
       \/ tool = "mcp_list" /\ MayHangListing /\ waiting' = "server" /\ UNCHANGED servers
       \/ /\ tool = "mcp_call" /\ UNCHANGED servers
          /\ \E name \in ServerNames : waiting' \in {None} \cup {w \in {"server"} : MayHang(name)}

RegistryTools ==
    Commands.hooks \cup Commands.subagent \cup Commands.permission \cup Commands.mcp

(* The tool's body. Without the package the registries' commands answer     *)
(* that their module is not available.                                      *)
RunStep ==
    /\ At("run")
    /\ \/ todo' = Tail(todo)
       \/ ReturnsEarly(Current) /\ todo' = Tail(Tail(todo))
    /\ \/ /\ loaded
          /\ \/ HookCommand(Current) \/ SubagentCommand(Current)
             \/ PermissionCommand(Current) \/ McpCommand(Current)
       \/ ~loaded /\ Current \in RegistryTools /\ UNCHANGED <<registries, waiting>>
       \/ Current \notin RegistryTools /\ UNCHANGED <<registries, waiting>>
    /\ did' = [tool |-> Current, cmd |-> line.cmd, mode |-> mode, blocked |-> blocked]
    /\ UNCHANGED <<loaded, line, blocked, conv, vault>>

(* Nothing above the tool catches it; in a turn the searches are guarded.   *)
Raise == At("run") /\ Raises(Current) /\ End

PostStep ==
    /\ At("post")
    /\ todo' = Tail(todo)
    /\ waiting' = IF loaded /\ WaitsForItself("PostToolUse", None) THEN "hooks" ELSE None
    /\ UNCHANGED <<registries, loaded, line, blocked, did, conv, vault>>

(* The model's answer is lost where the hooks are loaded: chat then calls a *)
(* function they do not have, and the loop ends.                            *)
Answer ==
    /\ At("llm")
    /\ \/ loaded /\ End
       \/ todo' = Tail(todo) /\ UNCHANGED <<registries, loaded, line, blocked, did,
                                           conv, waiting, vault>>

Reply_AnswersOnly ==
    /\ Running /\ todo = <<>>
    /\ line' = None
    /\ blocked' = FALSE /\ did' = None
    /\ conv' = IF line.cmd = "say" /\ did # None THEN Append(conv, "assistant") ELSE conv
    /\ UNCHANGED <<registries, loaded, todo, waiting, vault>>

Reply ==
    /\ Running /\ todo = <<>>
    /\ line' = None
    /\ blocked' = FALSE /\ did' = None
    /\ conv' = IF line.cmd = "say" THEN Append(conv, "assistant") ELSE conv
    /\ UNCHANGED <<registries, loaded, todo, waiting, vault>>

(* Ctrl-C during a command is caught by nobody and ends the loop.           *)
Interrupt == vault = None /\ line # None /\ End

(* But for a server's program that outlives its input: the limit of five    *)
(* seconds on its end is caught, and becomes the answer of the command.     *)
InterruptServer ==
    /\ waiting = "server"
    /\ waiting' = None
    /\ UNCHANGED <<registries, loaded, line, todo, blocked, did, conv, vault>>

Serve == GateStep \/ RunStep \/ Raise \/ PostStep \/ Answer \/ Reply

ReplNext ==
    \/ \E cmd \in DOMAIN Commands : \E tool \in Commands[cmd] : Command(cmd, tool)
    \/ Clear \/ Quit \/ Turn
    \/ GateStep \/ RunStep \/ Raise \/ PostStep \/ Answer \/ Reply
    \/ Interrupt \/ InterruptServer

(* The thread goes on with a line it has; users owe nothing.                *)
ReplFairness == WF_replVars(Serve)

ReplSpec == ReplInit /\ [][ReplNext]_replVars /\ ReplFairness

-----------------------------------------------------------------------------

StepOps == {"gate", "run", "post", "llm"}

ReplTypeOK ==
    /\ mode \in Modes
    /\ hooks \in Seq(HookSpec)
    /\ runs \in [RunIds -> SubagentRun \cup {None}]
    /\ servers \subseteq MCPClient
    /\ loaded \in BOOLEAN /\ blocked \in BOOLEAN
    /\ line \in [cmd : Words, tool : Tools] \cup {None}
    /\ todo \in Seq([op : StepOps, tool : Tools])
    /\ did \in [tool : Tools, cmd : Words, mode : Modes, blocked : BOOLEAN] \cup {None}
    /\ conv \in Seq({"user", "assistant"})
    /\ waiting \in {None, "hooks", "server"}
    /\ vault = None \/ vault \in Seq({"user", "assistant"})

(* In plan mode, whatever command, turn, hook or nested call a user starts, *)
(* no registry but the mode itself changes, and no tool runs but those that *)
(* show and set the mode; only what a turn learns about the user is stored. *)
(* Whether a user may leave the mode is left open here. (permission.py 59)  *)
PlanModeOnlyAnalyses ==
    [][loaded /\ mode = "plan" =>
         /\ UNCHANGED <<hooks, runs, servers>>
         /\ \/ did' \in {None, did}
            \/ did'.tool \in Commands.permission
            \/ did'.tool = "memory_store" /\ did'.cmd = "say"]_replVars

(* In auto mode no shell, cargo, node or patch tool runs that the gate      *)
(* lists as needing approval, although the gate only sees the command name  *)
(* first and cargo, kovanica and diff pass under theirs. (repl.py 299)      *)
GatedToolsNeedApproval ==
    (loaded /\ did # None /\ did.mode = "auto" /\ did.tool \in Gating \cup {"bash"})
        => did.tool \notin ApprovalRequired

(* Every message of the conversation is answered before the next one, also  *)
(* by an error; one goes unanswered only if the loop ended in its turn; and *)
(* a transcript, if one is kept, is the whole conversation. (repl.py 1265)  *)
TranscriptIsTheConversation ==
    /\ \A i \in DOMAIN conv : conv[i] = IF i % 2 = 1 THEN "user" ELSE "assistant"
    /\ Len(conv) % 2 = 1 => vault # None \/ (line # None /\ line.cmd = "say")
    /\ vault \in {None, <<>>, conv}

(* A line is served unless a hook waits for the lock it runs under or an    *)
(* MCP program never answers: neither the gate nor a refusal holds a line   *)
(* up. (hooks.py 44, mcp.py 131)                                            *)
LinesAreServed ==
    (line # None) ~>
        \/ line = None
        \/ waiting = "server" /\ \E name \in ServerNames : MayHang(name)
        \/ waiting = "hooks" /\ \E i \in DOMAIN hooks : hooks[i].acts = "reenter"

(* What permission.py 29 says of the tools it lists. The commands task,     *)
(* session and memory are gated under names it does not list.               *)
ListedToolsNeedApproval ==
    (loaded /\ did # None /\ did.cmd # "say" /\ did.mode = "auto")
        => did.tool \notin ApprovalRequired

(* What SYSTEM_PROMPT.md 162 says of `!permission set`: the user can switch *)
(* modes with it. In plan mode the gate refuses this command too.           *)
ModesCanBeSwitched == loaded /\ At("gate") /\ Current = "permission" => CanRun(Current)

(* What SYSTEM_PROMPT.md 172 says of a hook that returns None.              *)
BlockedToolsDoNotRun == did # None => ~did.blocked
=============================================================================
