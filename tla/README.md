# Verification of kovanica-agent

TLA+ specifications of kovanica-agent, a service in which a language model works
on a code base, may propose patches, and has them turned into draft pull requests
after a human confirms. The modules are translated from the Python sources; TLC
checks them on small instances and TLAPS proves the central results for every
value of the constants.

Paths below are relative to the repository (`agent/...`); `PROJECT.json` gives for
every definition the lines it models.

## 1. The system

### 1.1 Components

| Component | Source | State it keeps | Operations that change it | What makes it correct |
|---|---|---|---|---|
| API (orchestrator) | `agent/main.py` | rate-limit deques, open websockets; everything else is in the database | `/chat`, `/ws`, `/confirm`, `/repair`, status and sync routes | what a caller is told is what happened |
| conversation graph | `agent/graph.py` | one LangGraph thread per session: messages, role, `pending_confirmation`, next node | `router`, `agent_node`, `tools_node`, `human_gate` | nothing passes the human gate unasked, dev tools run where a dev began, turns end |
| checkpointer | `agent/checkpoint.py` | SQLite tables written after each node | save, load | a thread survives crashes at node boundaries |
| patch store | `agent/patchstore.py` | SQLite table of proposals | `add_proposal`, `mark_applied`, `clear` | ids are never reused, sessions stay apart |
| apply-agent | `agent/apply_agent.py` | worktrees, temporary directories, branches, remote branches, PRs | `POST /apply` | fail-closed, all or nothing, no worktree left |
| session tools | `agent/tools_ext.py` | tasks, memory and checkpoints in SQLite; files of the repository | `task_*`, `memory_*`, `write_file`, `session_kill`, `run_bash` | what was answered is committed, no lost update |
| rate limit of the API | `_rate_ok` in `agent/main.py` | times per client | every request of `/chat` and `/confirm` | never more than the limit within a window |
| security toolkit | `agent/security.py` (used by no route) | counters per rule and address, lists of networks | `check_request`, configuration | the limit is overrun by the waiting threads at most |
| role-based permissions | `agent/permission_enhanced.py` | users, teams, organisations, levels in SQLite | create, grant, revoke, add and remove members | a check passes only on a level that is held |
| tool permission modes | `agent/permission.py` | the mode | `set_mode` | plan mode runs no tool, gated tools wait |
| hooks, subagents, MCP | `agent/hooks.py`, `agent/subagents.py`, `agent/mcp.py` | registries under locks | register, fire, spawn, stop, return, call | nothing waits for itself |
| REPL | `agent/repl.py` | the conversation, the line being served | every command, a turn | every line is served, the transcript is the conversation |
| command line tool | `agent/cli/*` | session files, queue, heartbeat threads, memory files | `/session`, `/goal`, `/queue`, `/heartbeat`, `/memory`, chat | no turn or item is lost, the queue is served |
| memory providers | `agent/memory_providers.py` | JSON-lines files | store | an item is in one place |
| sandbox runner | `sandbox/runner/server.py`, `agent/sandbox_client.py` | none but the containers | one container run per request | an answer is about this run |
| gateways, SDK | `agent/telegram_gateway.py`, `agent/messaging_gateway.py`, `agent/kovanica_sdk.py` | session of a chat or of all | updates in, replies out | a chat gets its own turn's answer, in order |
| in-process apply | `agent/apply.py` (called by its tests only) | worktrees, branches, PRs | `apply_and_open_pr` | what is left behind is bounded, whatever fails |
| indexing | `agent/indexer.py` | collections in Qdrant | one run of the command | no line lost by the cut, the present text at each point |
| marketplace | `agent/plugin_marketplace.py` | list of plugins, their directories | install, update, remove, enable | a directory holds what is listed, or nothing |
| export and import | `agent/data_export_import.py` | backups | create, restore | a restore restores, and touches nothing else |
| observability, search, cloud wrappers, authentication | see `PROJECT.json` | counters, caches | | |

### 1.2 How they interact

1. A client sends `POST /chat`. The handler invokes the graph on the thread named
   by the session id. The model answers in text, which ends the turn, or calls
   tools, which run and lead back to the model. A dev's message that calls
   `git_diff_suggest` leads to `human_gate`; the graph is compiled with
   `interrupt_before=["human_gate"]`, so the turn ends there, *parked*.
2. `git_diff_suggest`'s body inserts a row in the patch store.
3. `POST /confirm` with `approve: false` clears the session's rows and resumes the
   thread. With `approve: true` it reads the unapplied rows, posts them to the
   apply-agent, waits for the answer or its timeout, resumes the thread, marks the
   rows if the answer is `ok`, and responds.
4. The apply-agent validates the batch, checks its gate, adds a git worktree,
   applies the patches, and, unless it is a dry run, commits, pushes and opens a
   draft PR. It cleans up in a `finally` clause.
5. Cargo commands and shell commands of a turn go to the sandbox runner, which starts a
   container for each; the shell falls back to the host.
6. The terminal programs (`agent/repl.py`, `agent/cli/`) do not go through the API. The REPL asks
   `agent/permission.py` and fires `agent/hooks.py` around a tool; the command line tool keeps its
   sessions, goals and memory in files that any number of its processes share.
7. Gateways turn chat messages into `POST /chat` with the SDK and split the answer into parts.
8. The index, the plugins and the backups are written by commands of their own; the API only reads the index.

### 1.3 What is hard

* `/confirm` is an `async def` that never awaits: it blocks the event loop, so API
  handlers never interleave with each other, but every step of one interleaves with
  the apply-agent's threads, with both processes' crashes and with the command line
  tool, which opens the same database.
* The apply-agent's route is a plain `def`: FastAPI runs it on a thread pool.
  A request whose caller gave up goes on to its end, so a retry runs beside it.
* Each git or gh command can fail, and a push or PR creation can succeed on the
  remote and fail on the client.
* A crash between any two steps loses what is in memory and keeps the database, the
  worktrees and the remote.
* Files without locks: sessions, goals, pending and approved memories, the plugin list are read
  whole, emptied and written whole, by processes that overlap.
* Locks that are held too long or too short: hooks run under the lock that registering takes;
  the rate limiter reads the clock before it takes its own.
* Answers that come late: of the sandbox, of the API to a gateway, of a heartbeat thread that was told to stop.

`PROJECT.json` lists the hazards at the lines where they bite, with the
properties that cover them.

## 2. Modules

| Module | Models | Kind |
|---|---|---|
| `Deployment` | the constants the apply path shares | parameters |
| `PatchStore` | `agent/patchstore.py`, one operator per function | component |
| `ApplyAgent` | `POST /apply` of `agent/apply_agent.py`, one action per stage | component |
| `ProposalLifecycle` | the promise about one proposal | abstract specification |
| `ConfirmPipeline` | `/confirm` of `agent/main.py`; composes the three above | composition |
| `AgentGraph` | `agent/graph.py` and the three ways the API invokes it | component |
| `SessionTools` | the tasks and the memory of `agent/tools_ext.py` | component |
| `Hooks`, `Permission`, `Subagents`, `Mcp` | the registries of the same names, one operator per function | components |
| `Repl` | `agent/repl.py`; composes the four above | composition |
| `CliQueue` | the loop, queue and heartbeats of `agent/cli/` | component |
| `CliSession` | session files, `/session`, `/goal`, saving of turns | component |
| `MemoryApproval` | `/memory` and the local memory provider | component |
| `ApiRateLimit`, `RequestGuard` | `_rate_ok`; `check_request` of `agent/security.py` | components |
| `Rbac` | `agent/permission_enhanced.py` | component |
| `RustChunks`, `TextChunks` | the two chunkers of `agent/indexer.py` | algorithms |
| `SearchIndex` | runs of the indexing command | component |
| `Sandbox` | the runner, its client, `run_bash` | component |
| `ChatGateway` | Telegram and Slack gateways with the SDK's chat call | component |
| `LocalApply` | `agent/apply.py` | component |
| `Backups`, `Plugins` | backups and restores; the plugin manager | components |
| `Absent` | the value `None` of them all | parameter |
| `MCConfirmPipeline`, `MCAgentGraph`, `MCSessionTools`, `MCTerminal`, `MCServices` | instances for TLC | model checking |
| `SequenceLemmas` | lemmas about naturals and sequences | proofs |
| `ConfirmPipelineProofs`, `AgentGraphProofs`, `SessionToolsProofs` | theorems on the component of the name (the first on `ApplyAgent` too) | proofs |
| `TerminalProofs` | theorems on `Repl`, `Hooks`, `CliQueue`, and on both programs of `MCTerminal` | proofs |
| `DataProofs` | theorems on `Backups`, `Plugins`, `MemoryApproval`, `CliSession` | proofs |
| `IndexProofs` | theorems on `SearchIndex`, `TextChunks`, `RustChunks` | proofs |
| `ServiceProofs` | theorems on `ApiRateLimit`, `Rbac`, `LocalApply`, `Sandbox`, `RequestGuard`, `ChatGateway`, and on all services of `MCServices` | proofs |

The definitions whose names have a suffix after an underscore (`Mark_WhateverStatus`,
`At_OffByOne`, ...) are plausible bugs of the definition they are named for. They
are not part of any specification: substituted for it, each makes one property
fail, which shows that the property depends on the code being right.

### 2.1 PatchStore

`proposals` is the table, `lastId` its AUTOINCREMENT counter. Every function takes
the module's lock, executes one statement and commits, so each is one step. Path,
explanation, patch and time of a row are left out: what decides whether a patch
applies is `Invalid` and the choices of `ApplyAgent`.

### 2.2 ApplyAgent

A *job* is one request. Its `stage` is the step that comes next, `mode` what it read
of the environment when it started (`disabled`, `dry_run`, `live`), `todo` the
patches not yet applied. `WorktreeAdd`, `ApplyPatch`, `Commit`, `Push` and `OpenPr` each
have a failing branch, which goes to `Cleanup`, the `finally` clause. `Cleanup` finds
the worktree only if the variable was assigned; a temporary directory made before a
failed `git worktree add` stays. `RestartAgent` is compose's `restart:
unless-stopped`: running requests are gone, what they made stays, and the
environment may have changed.

Assumed of what is outside: a uuid branch name is fresh; `rmtree` removes what it is
given (an undeletable directory, whose error the code ignores, is not modelled); a
push or `gh` that reports failure may have reached the remote.

### 2.3 ConfirmPipeline

`handler` is the one `/confirm` call being served, its `pc` the blocking point it is at.
`PostArrives`/`PostFails` are `requests.post` reaching the service or not,
`ReceiveResult` the answer, `GiveUp` the timeout or a broken connection (possible at any
moment: the model has no clock), `Resume` the call of `agent_graph.invoke(None)`, which
can raise, `Mark` the `mark_applied`, `Respond` the response. `Crash` forgets the handler.
`thread` abstracts the checkpoint to `absent`, `ended`, `parked` and `stalled` (a turn
that died between two nodes); `AgentGraph` models what is behind it.

`git_diff_suggest` is modelled as callable at any time, from any process. Through the
graph it is never reached (see section 5); rows come from other callers
of the tool. The properties therefore hold however rows come in.

`Response` is the status of the response model that is built, `500` where pydantic
refuses it.

### 2.4 ProposalLifecycle

`life` (`unborn`, `staged`, `applied`, `discarded`), `owner` and `published`, per proposal.
Only a published, staged proposal becomes applied; a discarded one never
comes back; a PR carries proposals of one session. It does not promise that a
proposal is published once or never after a discard: the code does not keep
that, and section 5 shows how.

The refinement mapping: `life` from the rows and the counter (`lifeOf`), `owner` from the
history variable `stagedBy`, `published` from the batches of the jobs with a PR.

### 2.5 AgentGraph

`thread[s]` is the checkpoint with the node that comes next; `run` the invocation being
served. Of the messages only the last one's tool calls are kept. `Save` is what LangGraph
does after each node: save, then go on, or end at `END` or the interrupt. `Chat` starts at
the router with role `dev` (the route is guarded), `WsTurn` with whatever role the
checkpoint has, `Confirm` takes the saved node up. The model may call any tools, also
ones its role was not offered: `graph.py` says so in the comment of `tools_node`.

`ran`, `told` and `opened` are history variables: what `tools_node` did last, the last answer
of `/chat` to each session, and the sessions that a dev's `/chat` began. `SessionKill` deletes the checkpoint and with it
the session's place in `opened`, unless a turn of it is running, which will save its own state again. `staged` are the sessions for which a turn staged a proposal.

### 2.6 SessionTools

A *call* is one run of `task_add`, `task_done`, `task_remove`, `memory_store` or `memory_forget`: a
thread of LangGraph's tool node, or the command line in a process of its own. Its `pc` names the
statement that comes next. `global[p]` and `lock[p]` are the module globals of process `p`
(`_TASK_DB`, `_MEMORY_DB`, `_TASK_LOCK`), which the first use fills in three
statements that other threads may come between. A connection has the name
of the call that opened it.

SQLite is external: `file` is what is committed, `draft` the same with the changes of the connection
`writer`, the only one that may have any. `Raise` is any statement that fails: no permission, no
directory, a file that stays locked. `Orphaned` is Python's reference count: a connection that
neither a global nor a call refers to closes and its changes are rolled back. The two stores differ in one place, `Handle`: a task function keeps
its connection in a local, a memory function reads the global at every statement.

`task_list` and `memory_recall` only read. `committed` and `uncommitted` are history variables.

### 2.7 Repl, with Hooks, Permission, Subagents and Mcp

One thread reads a line and takes it through a *script* of steps: the gate (`_dispatch_tool`), the body, the
hooks after it; `todo` is what is left of the script. The distinction that matters is between the name of a
command (`task`) and the names of the tools under it (`task_add`): the gate is asked with the first, and some tools
ask again with the second. `loaded` says whether the package could be imported: the launcher runs `agent/repl.py` as a
script, whose package imports fail unless the repository's root is on the path, and the
program then goes on without gate and hooks. `waiting` is a wait that may not end: a hook that takes the lock it runs under
(`acts = "reenter"`), an MCP program that does not answer. `Interrupt` is Ctrl-C at any step, `Raise` an
exception nothing catches, `Quit` the end of the input or an exception before a turn; all go through the
`finally` clause, `End`, which writes the transcript, or none (`--no-vault`, a failed write).

### 2.8 CliQueue

`main` is the loop of `agent/cli/cli.py`. Of the prompts in the queue one is marked, to follow it. A heartbeat's thread is at
its check, its wait or the append; `stale` is the append to a list that `/queue clear` has replaced. A stop sets the
event and joins for two seconds: `Joined` may come before the thread's end.

### 2.9 CliSession and MemoryApproval

A file is a sequence of lines, `None` a blank one (each rewrite of the raw lines adds
some). `open(..., "w")` and the write are two steps, `EmptyFile` and `FillFile`, between which other processes read and the process may be
killed. `cli[p]` is what `SessionManager` holds: its own metadata and history, which a save writes back whatever the file
says. `put` records which turns were saved in a session and which processes ever wrote it. `MemoryApproval` has
the same form for the two files of `/memory`; `overlap` records that two commands ran at once.

### 2.10 ApiRateLimit and RequestGuard

`_rate_ok` is called before its route awaits anything, so it is one step. `check_request` runs on threads: reading the
clock, pruning and counting under the lock, and the later refusals by size and type are steps of their own; the
lists of networks are changed meanwhile. `passed` and `admitted` are the times of what was let through.

### 2.11 Rbac

Levels have two orders, `ByName`, which decides between two levels (strings are compared), and `ByMeaning`, which decides what
a level allows. `GroupLevels` are the levels of teams and organisations, which no code writes: a constant. A nested call that
opens a second connection inside a transaction gets nothing from it (creators do not become members). `LevelsHeld` and
`Meets` are what the properties take a user to hold and a level to allow, apart from how the code merges them.

### 2.12 RustChunks, TextChunks, SearchIndex

The chunkers are modelled line by line and section by section, as a step each, over every file of
bounded length; `texts` records which lines that were read are not blank. A line has a kind (blank, comment bounds, brace patterns, code) rather than a text.

`SearchIndex` models runs of the command: list or drop, create, walk, read, embed, upsert in batches, by two
processes while files change. A point is what the code's `uuid5(path:start:end)` names: a file and the lines its chunk is *said* to come from.
`SpansOf` gives those lines for each content; two chunks of one content may have the same, since the generic chunker forgets where it is after
it split a section, and then the later chunk overwrites the earlier. `period` records whether anything was left out or failed since a run last began alone.

### 2.13 Sandbox, ChatGateway

A call is posted, runs in a container that ends when it likes, and is answered, given up or left behind by
a dead runner. A gateway reads an update, calls the API (which blocks its loop, one step), and sends the answer
in parts, each of which may fail.

### 2.14 Backups, Plugins, LocalApply

`Backups`: an area of the disk is a set of file names, and so is what a backup holds of it. Backups copy area by area while the agent writes; a
restore takes an area, removes what is there (`RemoveArea`), and copies it back (`CopyBack`). `rmtree` and `copytree` may stop at any file: both
have branches that leave any part of an area, of all areas (`ReplaceFails`, where the whole directory is replaced), or of a backup that lies in it.
Two backups of one second share their name: an archive is begun anew, a directory is copied into.

`Plugins`: the manager's `task` is at download, extraction, verification, saving or forgetting. The index entry's dependencies (`Requires`, which `install` checks) and
those of the unpacked manifest (`Declares`, from which `uninstall` takes the dependents) are two constants, since nothing compares them. `dirs` may hold a part of a
version (`Partly`): an extraction under way, a kill, an `rmtree` that stopped. `undone`, `broken`, `forced` and `unsaved` are history: what came to nothing,
was cut off, was forced, or was not written.

`LocalApply` has one action per stage of `apply_and_open_pr`, and `traces` says what each call left: directory, branch, worktree, commit, pushed branch, PR.

## 3. Runs

| Run | Instance | States | Shows |
|---|---|---|---|
| `pipeline` | 2 sessions, 2 requests, 2 proposals, one invalid; symmetric | 6.1 M | type invariant and six safety invariants |
| `lifecycle` | 2 sessions, 1 request, 2 proposals, one invalid | about 0.5 M | refinement of `ProposalLifecycle`; `ConfirmReturns` |
| `graph` | 2 sessions, one tool of each kind, recursion limit 5 | 0.6 M | type invariant, four invariants; `TurnsEnd` |
| `duplicate_pr`, `late_job`, `dry_run` | 1 session, 2 requests, 1 proposal | violation | section 5 |
| `tools` | 2 calls, 2 processes, 2 sessions, 1 key | 197 k | three invariants; `CallsReturn` |
| `graph_doc` | 1 session | violation | section 5 |
| `lost_memory` | 2 calls of memory functions, 1 process | violation | section 5 |
| `terminal` | REPL with 4 kinds of hook, 1 agent, run and MCP server; 2 heartbeats, queue of 3 | 0.73 M | type invariant, three invariants, `PlanModeOnlyAnalyses`, two liveness properties |
| `services` | thirteen components, see below | 3.75 M | type invariant and thirteen invariants |
| `goals` | 1 process, 2 sessions, 1 goal | violation | section 5 |

**Components side by side.** `MCTerminal` and `MCServices` check components that share no state in one run. The variable
`part` is chosen in the initial state and says which component the behaviour is one of; the others stay as they
began. The states are the sum of the components' states, not the product, and each behaviour
is one of the component's own specification: no step of one reads a variable of another.

**Properties of `pipeline`.** `BatchIsFresh`: from `get_proposals` to `mark_applied` every row of
the batch is still there, unapplied and of the session. It holds because handlers do
not interleave. `AppliedWasPublished`: a row marked applied is in a PR of its own session.
`BatchesStayInSession`: no request mixes sessions. `ReplyMatchesStore`: `ok` means the PR
exists, carries exactly the batch and all of it is marked; `error` means
all is still staged. `OnlyWholeLiveBatchesLeave`: only whole, valid batches
of requests that started with the gate open and no dry run reach the remote.
`WorktreesAreReleased`: only a killed service leaves a worktree, and a temporary directory
stays only behind an error or a kill.

**Properties of `graph`.** `ParkedOnAProposal`: only a dev's turn that calls
`git_diff_suggest` parks. `GateOpensByConfirm`: `human_gate` runs only as the first node of a
`/confirm`. `DevToolsNeedAChat`: a tool beyond `USER_TOOLS` runs, and a thread is held for a human, only in a session that a dev's `/chat` began: the role is
read from the checkpoint, and neither `/ws` nor a resumed turn asks who is calling. `NothingRunsBesideAProposal`: what `tools_node` may execute.
`TurnsEnd`: an invocation ends even if the model calls tools for ever.

**Properties of `tools`.** `AnsweredTasksAreCommitted`: a task function that answered has committed its
statement, however the first uses of the file interleave. Two threads may end up with two connections and two
locks; what saves them is the local variable. `AddedTasksStay`: a committed task is in the file until a call of its own session
removes it. `CallsReturn`: `with lock` lets go on every path, and a call never waits for one that has ended.

**Properties of `terminal`.** `PlanModeOnlyAnalyses`: in plan mode no command, turn, hook or nested call changes hooks, runs or servers, or runs a tool but
those that show and set the mode; only what a turn learns of the user is stored. Whether the mode may be left is not said: see section 5. `GatedToolsNeedApproval`: in auto mode
no shell, cargo, node or patch tool runs that the gate lists, although the gate first sees another name.
`TranscriptIsTheConversation`: messages alternate, one goes unanswered only if the loop ended in its turn, and a
transcript, if one is written, is the whole conversation. `LinesAreServed`: a line ends unless a hook waits for its own lock or
an MCP program hangs. `StoppedHeartbeatsFallSilent`: one prompt at most after a stop. `QueuedIsServed`:
heartbeats that add for ever do not starve a queued prompt.

**Properties of `services`.** `RateIsKept`: the limit holds in every closed interval of the window's length, the boundary of `>`
and `>=` included. `OverrunIsBounded`: since the clock is read outside the lock, more than the limit may pass in a window; at most one more per
thread does. `TurnsAreKept`: in a session only one process wrote, the file has every saved turn, whatever commands rewrote it
and others read, unless the process died inside a rewrite. `ItemsAreInOnePlace`: without overlap a memory item is pending
or approved, once, or in a command's hand. `ChecksAreBacked`: a check passes only if a level that the user holds now meets what is asked for, and nothing takes away what a
read or write level allows, in whatever order rows come. `NoCutInsideBraces`, `TextIsKept`: no line is
lost or repeated by chunking, and no Rust chunk but the last ends inside braces or goes on after its own. `IndexIsCurrent`: after overlapping runs without a failure or an edit, every point of every file
is stored, with the last of the file's chunks that claim it, and a rebuilt collection has no other. `CargoAnswersAreTrue`: the tool reports an end only of a run that ended so. `RepliesAreTheirTurns`: a chat gets
parts of its own turn's answer, in order, without gaps. `RestoresAreFaithful`: a restore that returns True put back every area that was due; one with
paths, or without overwrite, touched no other; and if such a one failed, at whatever file, it left all of its areas but one as they were or as the backup has them, and that one with files of only one of the two. `PluginsAreAsListed`:
a directory holds the listed version and nothing else, or nothing at all after an install or removal of that plugin that came to nothing (a failed update leaves a listed plugin so); only where the
manager was killed at work, or a removal stopped half way, it may hold a part or another version, until that plugin is installed or removed again. The file is what memory has unless it could not be written, and what a listed plugin needs by index *and* manifest
is listed unless it was removed by force.
`LeftoversAreBounded`: how much each answer of the in-process apply may leave behind. It is more than documented: section 5.

**Bounds.** `Jobs` and `MaxProposals` bound the requests that reach the service and the rows
ever inserted. Two of each is the least at which a retry runs beside the request it
retries, a batch has more than one patch, a batch is partly invalid, and a row is staged
after a batch was read; two sessions are the least that can be mixed. `lifecycle` has one
request since liveness rules out symmetry; the refinement is proved for all
values. A recursion limit of 5 lets a turn make two tool rounds (router,
agent, tools, agent, tools) and run out, or park after one. One tool of each kind
suffices since the code distinguishes tools only by the set they are in.

Two calls of `tools` suffice for every race of two threads: what is shared is one pair of globals per process. (With three calls in one process and one session the invariants hold on 10 M states.)

In `terminal` one hook of each way to act (block, change, raise, take the lock) and a registry of two suffice: what
matters is which fires where and in which order two do. Four messages are two turns, the second of which follows a first. Two heartbeats overlap, and a queue of
three has a heartbeat's prompt before and after the marked one.

In `services`: a clock of 7 with window and limit 2 lets a window pass twice; two threads and a clock of 4 let
one wait for the lock while the other's window passes (a third thread only adds another late one); two processes and two sessions make every overlap of two
rewrites of one file and of a read and a rewrite; four commands are enough to make, branch, tag and resume a session. Rust files have up to 4 lines of any kind, so an item
may be preceded by blanks, nested, commented or unclosed; text files up to 4 sections of up to 4 lines, where a chunk has 2: sections
are merged, fit exactly, and are split twice. Two indexers and one file with two contents, one of four chunks of which two claim one point, and batches of two: the batches interleave, and the two chunks come in different ones.
For backups: an area of two files, one of one, and the rest of the directory, two names, three calls, one write of the agent; an archive and a directory of one second give
two backups, and a restore can follow both. A second type, second or write multiplies the states; the proof has any number of them. Two
chats, two messages and answers of two parts are the least that can be mixed up or cut. Two plugins of two versions that
need each other by the index or by the manifest, so that the two differ both ways, and two applies, one with its gate open.

**Deadlock** is checked in the runs of the API: crashes, chats and rejections are
always possible. The terminal programs end, and the chunkers come to the end of their file; their runs do not check it.

**Fairness.** `ConfirmPipeline` has weak fairness of `HandlerStep` only: straight-line code of
one process, in which `requests.post` ends by its `timeout` argument. The apply-agent gets none: its
subprocesses have no timeout. `AgentGraph` has weak fairness of
`TurnStep`: an invocation is a loop in one thread whose nodes return or raise (the model's
client and every tool have timeouts). `SessionTools` has weak fairness of each `CallStep`: a call is straight-line code on its own thread, and SQLite's wait for a lock ends after five seconds. No fairness is assumed of callers. `Repl` has weak fairness of `Serve`: one thread of straight-line code
that goes on with the line it has; it is disabled while something may hang. `CliQueue` has weak fairness of `Main`, the loop, which assumes a user who
answers when asked; the heartbeats get none.

## 4. Proofs

Every safety invariant and every action property that a run checks, the type invariants included, and the refinement
are theorems: TLC shows them on a small instance, TLAPS for every value of the constants. `tlapm` proves every obligation of the eight
proof modules from nothing, in about fifteen minutes. `PROJECT.json` lists the results; the lemmas they rest on stand beside them.

**Assumptions.** Nothing is assumed but the named `ASSUME`s of the modules; TLC evaluates them on every run. They say that

* `None` is none of the values it stands beside (`SessionAssumption`, `AgentAssumption`, `GraphAssumption`, `ToolsAssumption`, `CliQueueAssumption`,
  `RbacAssumption`, `ReplAssumption`, `MemoryAssumption`, `CliSessionAssumption`, `SandboxAssumption`, `NoListAssumption`,
  `SearchIndexAssumption`, `ChatGatewayAssumption`, `BackupsAssumption`);
* bounds are numbers, and where the code divides or cuts by them not 0 (`StoreAssumption`, `RateAssumption`,
  `MaxHooksAssumption`, `MaxMessagesAssumption`, `TextChunksAssumption`, `RustChunksAssumption`, `BackupsAssumption`, ...);
* constants have the form the code gives them: `Invalid` is a set of ids, `git_diff_suggest` a tool of its own,
  a hook file declares an event or nothing (`HookFilesAssumption`), what is kept beside a backup is part of a full one, a content's chunks are a list (`SearchIndexAssumption`), a version requires and declares plugins
  (`PluginsAssumption`), no team is an organisation, a rule has paths, a limit and a window that is not 0, and every address lies
  within itself (`GuardAssumption`), a gate is open for applies (`LocalApplyAssumption`);
* threads are finitely many (`GuardAssumption`): the overrun of the guard is counted in threads.

**ConfirmPipeline** (`ConfirmPipelineProofs`). None of the invariants is inductive alone. `IInv` is the conjunction of

* `TypeOK`;
* `StoreInv`: ids are unique and at most `lastId`, a row's session is the one it was staged
  under. Needed for `BatchIsFresh`: `mark_applied` goes by id;
* `JobInv`: per stage, what a job has behind it (whole batch applied before `pushing`,
  live mode, worktree only while running or killed, `ok` only with a PR);
* `HandlerInv`: the batch is fresh while the handler works on it, and
  the job it waits for carries that batch for that session;
* `BatchesStayInSession` and `AppliedWasPublished`.

`Inductive` proves `Spec => []IInv`. Each of the six invariants of `pipeline` and `TypeOK` follows
(`TypeCorrect`, `FreshBatches`, `AppliedArePublished`, `SessionsStayApart`, `RepliesAreTrue`,
`FailClosed`, `WorktreesReleased`). `Refines` proves `Spec => LifecycleRefinement`: `Init` maps to `Init`,
and under `IInv` each action maps to one abstract action or a stutter:
`git_diff_suggest` to `Stage`, `Reject` to `DiscardAll`, `Mark` to `MarkApplied`, `OpenPr` to
`Publish`, everything else to a stutter.

**AgentGraph** (`AgentGraphProofs`). The inductive invariant says of every checkpoint and of the state in memory what their next node
implies of role and calls (at `tools` and `human_gate`, exactly what `should_continue` tested), and that an
invocation that is at `human_gate` is a confirmation in its first step. `RoleInv` says where roles come from: `DevsOpened`, a dev's role in a checkpoint or in
memory belongs to a session that a dev's `/chat` began, which `SessionKill` keeps because it takes the checkpoint with it or leaves a turn running. `GraphInductive` and
five corollaries follow, `RolesComeFromChats` among them; `TurnsStageNothing` proves that no turn
ever stages a proposal.

**SessionTools** (`SessionToolsProofs`). `ToolsInv` adds to `TypeOK` what makes the two invariants inductive:
`MadeInv` (only calls that were made have changes, each in its own store), `TaskInv` (before it commits, a task call's
change is committed already, by another call on the same connection, or uncommitted on the connection the call holds, which therefore
cannot be closed) and `RowInv` (every add has its row, or its remove, in the file and in the draft). `ToolsInductive`
has `ToolsTypeCorrect`, `AnswersAreCommitted` and `TasksStay` as corollaries.

**Repl** (`TerminalProofs`). What a step may do depends on steps long before it, which are no longer in the state, so `GateInv` speaks of what is *left* of the
script: its form (`Shaped`: a gate that is not the command's own is followed by its body and its hooks, a change of mode comes last), and
that every body still to run is `Covered` by a gate that is still to come, or `Open` under the present mode
(`Guarded`). A passing gate opens what it covered; nothing in between changes the mode. `ApprovalIsNeeded` and `PlanModeStaysReadOnly` follow. `TranscriptInv`:
messages alternate, their number is odd exactly while a turn runs, what was saved is the conversation; `TranscriptStaysWhole`.

**CliQueue** (`TerminalProofs`). `HeartbeatInv`: once its event is set and it has added its one prompt, a thread is at its check or at its end
(`Silenced`), and whatever is listed as stopped or joined was told (`Told`). `HeartbeatsFallSilent` follows for any number of heartbeats.
`TerminalInv` puts both programs together: `TerminalTypesHold`, `TerminalStaysSafe`.

**ApiRateLimit** (`ServiceProofs`). `RateInv`: the deque is the end of the sequence of all admissions (`Recent`), and whatever is not in it is older than the
window. A request that is let through finds fewer than the limit in the deque, so the one `RateLimit` places earlier is not in it: `NoClientExceedsTheRate`.

**RequestGuard** (`ServiceProofs`). The bound is one of counting. `Counted`: take an admission still in the window. What was let through from it on, plus the threads that
wait for the lock with an older time (`Behind`), is at most what the counter still has from that time on (`Since`) plus the number of threads. A thread that
is counted late adds an admission that the counter prunes, and leaves `Behind` for it, since its next time is a new one. The counter has at most the limit, which gives
limit plus one per thread: `OverrunStaysBounded`.

**Rbac** (`ServiceProofs`). `GrantsAreLevels` is the type of what is granted and who is a member; the lemmas say what is left of a set of levels under the order by name.
`ChecksStayBacked`: for any users, teams, organisations and levels, a check that passes is backed by a level, and a read or write level is never outdone.

**LocalApply** (`ServiceProofs`). `LocalApplyInv` says for every stage what a call has left so far (`SoFar`, `AtTheEnd`), what an answered one
left (`Afterwards`), that a call without the gate left nothing (`Gated`), and that a PR has its branch. `LeftoversStayBounded` follows.

**Sandbox** (`ServiceProofs`). `CargoTrue`: what the runner's thread and the answer say of a call's container is how it ended, and once an answer says something, no
thread is left that could start one (`Settled`). `CargoNeverLies` follows, for any number of calls and deaths of the runner.

**ChatGateway** (`ServiceProofs`). `Replied`: what stands in the chat about a message (`About`) is the first parts of its one turn's answer, and what it still has to send
goes on where they end. Every turn is about one message, and on Telegram a message is served once those before it are over. `RepliesStayTheirs` follows.

**Backups, Plugins, MemoryApproval, CliSession** (`DataProofs`). `BackupsInv` has the types, the property itself, and `Way`, how far a restore in progress is: an area the agent did not write is as it was,
or back as the backup has it, but for the one at hand, which may have lost or got any part; what was asked for is back or still to do; and where the whole directory is replaced,
what is to come is absent. A restore that returns, at whatever step, turns `Way` into `RestoresAreFaithful`, and nothing but the agent can change its areas then. `InTime`: directories hold what is listed, or nothing if `undone`,
but for the plugin in hand and the broken ones; the file is the list, but before it is saved; what a plugin in hand requires by the index is
listed, and so is what listed ones require by both (`Closed`), since an uninstall asks the manifests. `Alone`: at most one command is in hand (`Only`), and every known item is in one file, once, or with that command (`Apart`).
`SessionKept`: if one process alone has written a session, the file it can read has every saved turn, and so does what the
process has in memory or is about to write (`Safe`); `Placed` says where it may be. `RestoresStayFaithful`,
`PluginsStayAsListed`, `ItemsStayInOnePlace` and `TurnsStayKept` follow.

**SearchIndex, TextChunks, RustChunks** (`IndexProofs`). `IndexInv`: while no run failed and no file changed, what a run has in hand is present text in its order (`HandsArePresent`, `LastIsBehind`), every
last chunk that claims a point (`Final`) of a touched collection is stored or ahead of some run (`NothingIsLost`), and no other point is (`NothingElse`). The order matters: a batch may overwrite a
last chunk by an earlier one of the same point only if the last one is still behind it in the same hand. `TextInv`: the chunks cut so far
fit and are in order, up to the last line read (`CutUpTo`), the lines that wait to be merged fit and come after them (`Merged`), and together they are exactly the lines read that are not blank (`texts`). `RustInv`: the chunks are in order, none ends inside its braces or after they closed,
which cover every line before the present item that is not blank (`Covers`), and the scan's depth is the balance of
braces since the item's first line, which no shorter beginning has closed (`Scanned`, `Balance`, `StaysOpen`). `IndexStaysCurrent`, `TextStaysKept` and `BracesStayTogether` follow for files of any length.

**All services** (`ServiceProofs`). `EachAsAlone`: a behaviour of `ServicesSpec` is one of each component's own specification. So
`ServicesTypesHold` and `ServicesStaySafe` have all fourteen invariants of the run `services`.

**Induction.** The library's induction theorems take an operator for a parameter, which no installed prover can instantiate. `SequenceLemmas` has what serves instead:
a set of naturals with a member has a least one (`LeastNatural`), so a set that holds 0 and with each number the next one holds them all (`Induction`). With it
the recursive functions of the models that only filter a sequence (`NonBlank`, `After`, `Without`) have proved lemmas.

**Only model-checked:** `ConfirmReturns`, `TurnsEnd`, `CallsReturn`, `LinesAreServed` and `QueuedIsServed` (liveness is beyond the prover), and the six
violations.

## 5. Where code and documentation part

* `duplicate_pr`: `get_proposals` is documented to return "un-applied proposals", and "applied" is
  recorded only after the POST returned and `invoke(None)` succeeded. A timeout, a
  crash or an exception of `invoke(None)` after the PR was opened leaves the rows
  staged; the next approval publishes them again.
* `late_job`: a rejection "discards the proposal without making any changes". If an earlier
  approval timed out, its request still runs and opens the PR after the rejection.
* `dry_run`: "`/confirm` returns a `dry_run` report". `ConfirmAppliedResponse.status` is
  `Literal["ok"]`; `dry_run` and the apply-agent's `error` end in a 500.
* `graph_doc`: `/chat` is documented to answer `pending_confirmation`. The interrupt ends
  `invoke` before `human_gate` has set that field, so it answers `ok`. And since the gate leads to
  `END`, `tools_node` never runs the call that parked the turn: the
  proposal is never stored. `NothingRunsBesideAProposal` and `TurnsStageNothing` are
  the two sides of that edge.
* `lost_memory`: `memory_store` answers "MEMORY stored". Two threads that use the file first, at once, open it twice; the second
  connection replaces the global between the first thread's `INSERT` and its `commit`, so the commit is one of nothing,
  and the first connection closes and rolls back.
* `goals`: goals are documented as persistent. `/goal` writes them to line 1 of the session's file, the session manager writes its
  own metadata over it with the next turn.

Met on the way, without a run: `/ws` subscripts the last message as a dictionary, so it answers
with an error after the turn was done and saved. If the first `CREATE TABLE` of the tasks
file fails, `_TASK_DB` is set and `_TASK_LOCK` is not, so every later task call of that process raises
(compose mounts `/repos`, the default place of the file, read-only).

Seven definitions state documentation that the models refute, and have no run of their own:

* `ListedToolsNeedApproval` (`Repl`): `agent/permission.py`
  lists `task_add`, `session_kill` and others as needing approval, and the gate is asked for `task`, `session`, which it does not list.
* `BlockedToolsDoNotRun` (`Repl`): `SYSTEM_PROMPT.md:167` says a PreToolUse hook can block a tool by returning `None`; what it returns is dropped.
* `ModesCanBeSwitched` (`Repl`): `SYSTEM_PROMPT.md:162` says "The user can switch modes with `!permission set <mode>`". In plan mode the gate refuses `permission` as it refuses every name,
  so the mode cannot be left but by ending the program.
* `LevelsMeetOrExceed` (`Rbac`): `agent/permission_enhanced.py:696` says a check passes if the effective level "meets or exceeds required level", with `ADMIN` the highest, and 761 and 785 "Get the highest permission
  level". Levels are compared as strings, where `admin` is the lowest of all: a grant of `admin` allows nothing, not even to read.
* `ChunksEndAtTheirBrace` (`RustChunks`): `agent/indexer.py:165` says "A chunk ends only when depth returns to 0 after having gone positive". A `;` before any brace ends it too (237): of an item without
  a body, as meant, but also in a signature that has `[u8; 32]` on a line of its own.
* `ChunksSayWhereTheyStart` (`TextChunks`): after a split the first line a
  chunk names is 0 or drifts, where `agent/indexer.py:68` says "1-indexed inclusive". The point's id is made of these lines, so two chunks of one file can have one id, and the index then has only the later
  (`SearchIndex`).
* `NothingIsLeft` (`LocalApply`): `agent/apply.py:37` says of `dry_run` "nothing was created on disk/network" and of `error` "nothing was changed". A dry run leaves its branch, since only the worktree is removed. An error leaves
  what the commands before it made: a branch, a commit on it, the pushed branch, or a PR whose creation reported a failure; and a temporary directory where adding the worktree failed.

Also met while modelling, of the other components:

* REPL: with the gate loaded every successful answer of the model ends the loop (`agent/repl.py:1181` calls a function that is not there); hooks added with `!hooks add` take the word `add` for their name and never match.
* `agent/security.py`: a rule with limit 0 raises; of several rules that match only the first counts; a request that is refused for its size has been counted.
* Command line tool: `/memory list` without a provider and `/memory approval` end in an `AttributeError`; a deleted current session is
  made again by the next turn; heartbeats are served only when the user presses Enter.
* Graph: the comment of `router` says the role is set from the authenticated caller. `/ws` sets none, so its turns have the role that an earlier `/chat` left in the checkpoint.
* Roles: `is_active`, `role` and `expires_at` are ignored; the creator of a team is no member of it.
* Sandbox: the clamped timeout of `sandbox/runner/server.py` is never used; `run_bash` sends no token and falls back to the host on any error.
* Gateways: of `agent/messaging_gateway.py` Telegram, Discord and Matrix raise at start (a missing method, a command registered twice, a client method the library lacks).
* Backups: a restore with overwrite and without paths removes the whole directory, that of the backups included; from a backup that is a directory itself nothing can be copied then. Without overwrite it returns True and restores nothing.
  A restore that fails half way leaves part of an area, with nothing that says so but `False`.
* Marketplace: an update removes the old version before it downloads the new one; if that fails, the plugin stays listed without files, and a plain `install` answers "already installed" (`agent/plugin_marketplace.py:246`).
  A kill while `installed.json` is written leaves it empty: the next process knows no plugin. What the index requires and what the manifest requires are never compared, so a plugin may lose, without force, one that it
  was installed upon. An install never installs a dependency (302), since it returned before if one was missing (260).

## 6. Not modelled

Text: prompts, patches, answers, explanations, branch names, reports. LangGraph, SQLite, Qdrant, Docker, git and the chat platforms are external;
the models use what the code uses of them.

* Inside modelled components: what files hold beside their names in `Backups`; a single line longer than a chunk, which the generic chunker emits as it is (`TextChunks.Fits` has lines of equal length); a clock that steps back (`ApiRateLimit`);
  rules of one pattern, which share a counter in `agent/security.py` (`RequestGuard` has no two), and the 403 for an address that is none. `ItemsAreInOnePlace` and `TurnsAreKept` say nothing
  of commands that overlap, or of sessions that two processes write: items and turns are lost there, since no file is locked.
  `GatedToolsNeedApproval` says nothing of tools that run under an unlisted name (section 5).
* Authentication (`agent/auth.py`): a function of the request; the graph model takes its result. The cache of keys is refreshed by a library.
* Observability: counters and traces nothing in the system acts on.
* Search, reranking, `agent/code_intelligence.py`: they only read.
* `audit()`, `AuditLogger`, `SecretScanner`, `MTLSManager`: text and certificates.
* The batch editor of `agent/tools_ext.py`: nobody calls it, and on the Python version of the image it raises
  at its first replacement.
* Gateways that cannot start, memory providers that call a database or a service, exports to other formats, loading of plugin code, wrappers of cloud services and the vault: I/O.

## 7. Plan

Done: the apply path (`PatchStore`, `ApplyAgent`, `ConfirmPipeline`, `ProposalLifecycle`), the graph, the session tools, the terminal programs, the
services of sections 2.9 to 2.14; and, of section 4, every invariant and action property that a run checks.

Left, in this order:

1. An abstract specification of `SessionTools`, a set of tasks with atomic updates, and the refinement, checked and proved.
2. An abstract specification of `ApiRateLimit` as a window with at most the limit, and the refinement.
3. Exports and imports with conflicts; the remaining commands of the command line tool.
