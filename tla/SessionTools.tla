---------------------------- MODULE SessionTools ----------------------------
(***************************************************************************)
(* agent/tools_ext.py: the tasks and the memory of the agent, two SQLite   *)
(* files.  Each process opens a file at its first use and keeps the        *)
(* connection in a module global.  LangGraph's ToolNode runs the calls of  *)
(* one message on parallel threads, and the command line is another        *)
(* process on the same files.                                              *)
(*                                                                         *)
(* SQLite is external.  As the code uses it, one connection at a time may  *)
(* have uncommitted changes in a file; another that wants to change it     *)
(* waits five seconds and then raises; closing a connection, which Python  *)
(* does when nothing refers to it any more, drops its uncommitted changes; *)
(* a commit that raises leaves them.                                       *)
(* task_list and memory_recall change nothing and are left out.            *)
(***************************************************************************)
EXTENDS Integers, FiniteSets

CONSTANTS Calls,           \* bound: tool calls ever made
          Processes,       \* processes that import the module
          Sessions, Keys,  \* session ids, memory keys
          None             \* stands where Python has None

ASSUME ToolsAssumption ==
    /\ None \notin Calls \cup Processes \cup Sessions \cup Keys
    /\ Calls \cap Keys = {}

VARIABLES global,          \* _TASK_DB and _MEMORY_DB of each process
          lock,            \* _TASK_LOCK of each process
          held,            \* lock objects that are held
          call,            \* what each call is doing
          tables,          \* stores whose table has been created
          file,            \* what the files contain
          draft,           \* the same with the uncommitted changes
          writer,          \* the connection these belong to
          uncommitted,     \* history: the calls whose changes they are
          committed        \* history: the calls whose changes are committed

vars == <<global, lock, held, call, tables, file, draft, writer, uncommitted,
          committed>>
dataVars == <<file, draft, writer, uncommitted, committed>>

Stores == {"tasks", "memory"}

(* A connection and a lock object have the name of the call that made them,*)
(* and so has a task: its uuid is fresh.                                   *)
Task == [id : Calls, session : Sessions, status : {"pending", "done"}]

Content == [tasks : SUBSET Task, memory : [Keys -> Calls \cup {None}]]

Requests ==
    [kind : {"add"}, session : Sessions, target : {None}]
    \cup [kind : {"done", "remove"}, session : Sessions, target : Calls]
    \cup [kind : {"store", "forget"}, session : {None}, target : Keys]

StoreOf(op) == IF op.kind \in {"add", "done", "remove"} THEN "tasks" ELSE "memory"

Busy == {"open", "connect", "create", "newlock", "grab", "enter", "write",
         "commit"}

Outcomes == {"none", "ok", "not_found", "error", "lost"}

Call == [pc : Busy \cup {"unused", "ended"}, proc : Processes \cup {None},
         op : Requests \cup {None}, conn : Calls \cup {None},
         lock : Calls \cup {None}, outcome : Outcomes]

NoCall == [pc |-> "unused", proc |-> None, op |-> None, conn |-> None,
           lock |-> None, outcome |-> "none"]

TypeOK ==
    /\ global \in [Processes -> [Stores -> Calls \cup {None}]]
    /\ lock \in [Processes -> Calls \cup {None}]
    /\ held \subseteq Calls
    /\ call \in [Calls -> Call]
    /\ tables \subseteq Stores
    /\ file \in Content
    /\ draft \in Content
    /\ writer \in [Stores -> Calls \cup {None}]
    /\ uncommitted \in [Stores -> SUBSET Calls]
    /\ committed \subseteq Calls

Empty == [tasks |-> {}, memory |-> [k \in Keys |-> None]]

Init ==
    /\ global = [p \in Processes |-> [st \in Stores |-> None]]
    /\ lock = [p \in Processes |-> None]
    /\ held = {}
    /\ call = [c \in Calls |-> NoCall]
    /\ tables = {}
    /\ file = Empty
    /\ draft = Empty
    /\ writer = [st \in Stores |-> None]
    /\ uncommitted = [st \in Stores |-> {}]
    /\ committed = {}

-----------------------------------------------------------------------------
At(c, pc) == call[c].pc = pc

Goto(c, pc) == call' = [call EXCEPT ![c].pc = pc]

(* The store a call works on, and its process's connection to it.          *)
Store(c) == StoreOf(call[c].op)
Shared(c) == global[call[c].proc][Store(c)]

(* Stores whose writing connection is referred to no more: the connection  *)
(* closes.                                                                 *)
Orphaned ==
    {st \in Stores :
        /\ writer[st] # None
        /\ \A p \in Processes, q \in Stores : global'[p][q] # writer[st]
        /\ \A c \in Calls : call'[c].conn # writer[st]}

(* The uncommitted changes of some stores become the files' content, those *)
(* of others are dropped.                                                  *)
Settle(kept, dropped) ==
    LET Pick(st, new, old) == IF st \in kept THEN new ELSE old
        Drop(st, old, new) == IF st \in dropped THEN old ELSE new
        settled == kept \cup dropped
    IN  /\ file' = [tasks |-> Pick("tasks", draft.tasks, file.tasks),
                    memory |-> Pick("memory", draft.memory, file.memory)]
        /\ draft' = [tasks |-> Drop("tasks", file.tasks, draft.tasks),
                     memory |-> Drop("memory", file.memory, draft.memory)]
        /\ writer' = [st \in Stores |-> IF st \in settled THEN None ELSE writer[st]]
        /\ uncommitted' = [st \in Stores |->
                              IF st \in settled THEN {} ELSE uncommitted[st]]
        /\ committed' = committed \cup UNION {uncommitted[st] : st \in kept}

RollBack(stores) == Settle({}, stores)

(* End that keeps the lock: acquire() and release() instead of `with`.     *)
End_KeepsLock(c, outcome) ==
    /\ call' = [call EXCEPT ![c].pc = "ended", ![c].conn = None,
                            ![c].lock = None, ![c].outcome = outcome]
    /\ held' = IF outcome = "error" THEN held ELSE held \ {call[c].lock}

(* The call returns or raises: its locals go, `with lock` releases.        *)
End(c, outcome) ==
    /\ call' = [call EXCEPT ![c].pc = "ended", ![c].conn = None,
                            ![c].lock = None, ![c].outcome = outcome]
    /\ held' = held \ {call[c].lock}

(* A statement raises: the file cannot be opened or written, or is locked. *)
Raise(c) ==
    /\ End(c, "error")
    /\ UNCHANGED <<global, lock, tables>>
    /\ RollBack(Orphaned)

-----------------------------------------------------------------------------
(* One call.                                                               *)

(* A tool is called: task_add, task_done, task_remove, memory_store or     *)
(* memory_forget.                                                          *)
Invoke(c) ==
    /\ At(c, "unused")
    /\ \E p \in Processes, op \in Requests :
           call' = [call EXCEPT ![c] = [NoCall EXCEPT !.pc = "open", !.proc = p,
                                                      !.op = op]]
    /\ UNCHANGED <<global, lock, held, tables, dataVars>>

(* if _TASK_DB is None; if _MEMORY_DB is not None: return                  *)
Open(c) ==
    /\ At(c, "open")
    /\ \/ Shared(c) = None /\ Goto(c, "connect")
       \/ Shared(c) # None /\ Store(c) = "tasks" /\ Goto(c, "grab")
       \/ Shared(c) # None /\ Store(c) = "memory" /\ Goto(c, "write")
    /\ UNCHANGED <<global, lock, held, tables, dataVars>>

(* sqlite3.connect(), stored in the global at once.  Another thread may    *)
(* have stored one since.                                                  *)
Connect(c) ==
    /\ At(c, "connect")
    /\ \/ /\ global' = [global EXCEPT ![call[c].proc][Store(c)] = c]
          /\ Goto(c, "create")
          /\ RollBack(Orphaned)
          /\ UNCHANGED <<lock, held, tables>>
       \/ Raise(c)

MayWrite(conn, st) == writer[st] \in {None, conn}

(* CREATE TABLE IF NOT EXISTS.                                             *)
Create(c) ==
    /\ At(c, "create")
    /\ \/ /\ Store(c) \in tables \/ MayWrite(Shared(c), Store(c))
          /\ tables' = tables \cup {Store(c)}
          /\ Goto(c, IF Store(c) = "tasks" THEN "newlock" ELSE "write")
          /\ UNCHANGED <<global, lock, held, dataVars>>
       \/ Raise(c)

(* _TASK_LOCK = threading.Lock()                                           *)
NewLock(c) ==
    /\ At(c, "newlock")
    /\ lock' = [lock EXCEPT ![call[c].proc] = c]
    /\ Goto(c, "grab")
    /\ UNCHANGED <<global, held, tables, dataVars>>

(* return _TASK_DB, _TASK_LOCK.  `with None` raises: _TASK_DB is stored    *)
(* before there is a lock.                                                 *)
Grab(c) ==
    /\ At(c, "grab")
    /\ LET p == call[c].proc
       IN  \/ /\ lock[p] # None
              /\ call' = [call EXCEPT ![c].pc = "enter", ![c].lock = lock[p],
                                      ![c].conn = global[p]["tasks"]]
              /\ UNCHANGED <<global, lock, held, tables, dataVars>>
           \/ lock[p] = None /\ Raise(c)

(* with lock:                                                              *)
Enter(c) ==
    /\ At(c, "enter")
    /\ call[c].lock \notin held
    /\ held' = held \cup {call[c].lock}
    /\ Goto(c, "write")
    /\ UNCHANGED <<global, lock, tables, dataVars>>

(* The rows of the tasks table an UPDATE or DELETE without its session_id  *)
(* condition would name.                                                   *)
Matching_AnySession(op, tasks) == {r \in tasks : r.id = op.target}

(* The rows of the tasks table the WHERE clause of a request names.        *)
Matching(op, tasks) ==
    {r \in tasks : r.id = op.target /\ r.session = op.session}

(* Execute with another word for a finished task.                          *)
Execute_WrongStatus(c, op, content) ==
    CASE op.kind = "add" ->
            [content EXCEPT !.tasks =
                @ \cup {[id |-> c, session |-> op.session, status |-> "pending"]}]
      [] op.kind = "done" ->
            [content EXCEPT !.tasks =
                (@ \ Matching(op, @)) \cup
                    {[r EXCEPT !.status = "completed"] : r \in Matching(op, @)}]
      [] OTHER -> content

(* What the statement of call c makes of the content of the files.         *)
Execute(c, op, content) ==
    CASE op.kind = "add" ->
            [content EXCEPT !.tasks =
                @ \cup {[id |-> c, session |-> op.session, status |-> "pending"]}]
      [] op.kind = "done" ->
            [content EXCEPT !.tasks =
                (@ \ Matching(op, @)) \cup
                    {[r EXCEPT !.status = "done"] : r \in Matching(op, @)}]
      [] op.kind = "remove" ->
            [content EXCEPT !.tasks = @ \ Matching(op, @)]
      [] op.kind = "store" -> [content EXCEPT !.memory[op.target] = c]
      [] op.kind = "forget" -> [content EXCEPT !.memory[op.target] = None]

(* cur.rowcount, as the answer says it.                                    *)
Answer(op, content) ==
    LET found == CASE op.kind \in {"add", "store"} -> TRUE
                   [] op.kind \in {"done", "remove"} ->
                          Matching(op, content.tasks) # {}
                   [] op.kind = "forget" -> content.memory[op.target] # None
    IN  IF found THEN "ok" ELSE "not_found"

(* Handle where the tasks use the global, too, instead of `db`.            *)
Handle_Global(c) == Shared(c)

(* The connection a statement runs on: `db`, the local of the task         *)
(* functions, but the global, read again, in the memory functions.         *)
Handle(c) == IF Store(c) = "tasks" THEN call[c].conn ELSE Shared(c)

(* db.execute(INSERT, UPDATE or DELETE).  The cursor that memory_forget()  *)
(* keeps refers to the connection, too.                                    *)
Write(c) ==
    /\ At(c, "write")
    /\ \/ /\ Store(c) \in tables
          /\ MayWrite(Handle(c), Store(c))
          /\ draft' = Execute(c, call[c].op, draft)
          /\ writer' = [writer EXCEPT ![Store(c)] = Handle(c)]
          /\ uncommitted' = [uncommitted EXCEPT ![Store(c)] = @ \cup {c}]
          /\ call' = [call EXCEPT ![c].pc = "commit",
                         ![c].outcome = Answer(call[c].op, draft),
                         ![c].conn = IF call[c].op.kind = "store" THEN None
                                                             ELSE Handle(c)]
          /\ UNCHANGED <<global, lock, held, tables, file, committed>>
       \/ Raise(c)

(* db.commit(), and the answer.  On a connection that has no changes it    *)
(* does nothing.                                                           *)
Commit(c) ==
    LET own == {st \in {Store(c)} : writer[st] = Handle(c)}
    IN  /\ At(c, "commit")
        /\ \/ /\ End(c, call[c].outcome)
              /\ UNCHANGED <<global, lock, tables>>
              /\ Settle(own, Orphaned \ own)
           \/ Raise(c)

-----------------------------------------------------------------------------
(* A process dies: its connections close, its calls are lost.              *)
Crash(p) ==
    LET dying == {c \in Calls : call[c].proc = p /\ call[c].pc \in Busy}
    IN  /\ global' = [global EXCEPT ![p] = [st \in Stores |-> None]]
        /\ lock' = [lock EXCEPT ![p] = None]
        /\ held' = held \ {call[c].lock : c \in dying}
        /\ call' = [c \in Calls |->
                       IF c \in dying
                       THEN [call[c] EXCEPT !.pc = "ended", !.conn = None,
                                            !.lock = None, !.outcome = "lost"]
                       ELSE call[c]]
        /\ RollBack(Orphaned)
        /\ UNCHANGED tables

CallStep(c) ==
    \/ Open(c) \/ Connect(c) \/ Create(c) \/ NewLock(c) \/ Grab(c) \/ Enter(c)
    \/ Write(c) \/ Commit(c)

Next ==
    \/ \E c \in Calls : Invoke(c) \/ CallStep(c)
    \/ \E p \in Processes : Crash(p)

Spec == Init /\ [][Next]_vars

(* A call is straight-line code on a thread of its own; SQLite's wait for  *)
(* a locked file ends after five seconds.                                  *)
Fairness == \A c \in Calls : WF_vars(CallStep(c))

FairSpec == Spec /\ Fairness

-----------------------------------------------------------------------------
(* A task function that answered has committed its statement, even if the  *)
(* threads of the first message opened the file several times over.        *)
AnsweredTasksAreCommitted ==
    \A c \in Calls :
        call[c].outcome \in {"ok", "not_found"} /\ At(c, "ended")
            /\ Store(c) = "tasks" => c \in committed

(* A task that was added is there until its own session removes it,        *)
(* whatever other calls, sessions and crashes do.                          *)
AddedTasksStay ==
    \A c \in committed :
        call[c].op.kind = "add" =>
            \/ \E r \in file.tasks : r.id = c /\ r.session = call[c].op.session
            \/ \E d \in committed : /\ call[d].op.kind = "remove"
                                    /\ call[d].op.target = c
                                    /\ call[d].op.session = call[c].op.session

(* Every call returns or raises: no lock is kept by a call that ended, and *)
(* no two wait for each other.                                             *)
CallsReturn == \A c \in Calls : At(c, "open") ~> At(c, "ended")

(* memory_store() answers "MEMORY stored" and memory_forget() "forgotten". *)
AnsweredMemoryIsCommitted ==
    \A c \in Calls :
        call[c].outcome \in {"ok", "not_found"} /\ At(c, "ended")
            /\ Store(c) = "memory" => c \in committed
=============================================================================
