------------------------- MODULE SessionToolsProofs -------------------------
(* Theorems about SessionTools, for any number of calls and processes.     *)
EXTENDS SessionTools, TLAPS

(* A call that was made has its arguments; what it was given does not      *)
(* change, since only calls that were made have changes.                   *)
MadeInv ==
    /\ \A c \in Calls : ~At(c, "unused") =>
           call[c].proc \in Processes /\ call[c].op \in Requests
    /\ \A c \in Calls : At(c, "enter") => call[c].lock # None
    /\ \A c \in committed : ~At(c, "unused")
    /\ \A st \in Stores : \A c \in uncommitted[st] :
           ~At(c, "unused") /\ Store(c) = st

(* A task call that has answered has committed; before it commits, its     *)
(* change is on the connection it holds.                                   *)
TaskOK(c) ==
    /\ call[c].pc \in (Busy \ {"commit"}) \cup {"unused"} =>
           call[c].outcome = "none"
    /\ call[c].pc \in {"newlock", "grab"} => Store(c) = "tasks"
    /\ call[c].pc \in {"create", "newlock", "grab"} => Shared(c) # None
    /\ call[c].pc \in {"enter", "write", "commit"} /\ Store(c) = "tasks" =>
           call[c].conn # None
    /\ At(c, "commit") /\ Store(c) = "tasks" =>
           \/ c \in committed
           \/ c \in uncommitted["tasks"] /\ writer["tasks"] = call[c].conn
    /\ call[c].outcome \in {"ok", "not_found"} /\ At(c, "ended")
           /\ Store(c) = "tasks" => c \in committed

TaskInv == \A c \in Calls : TaskOK(c)

(* Every add among some calls has its row in a tasks table, or its remove  *)
(* among them.                                                             *)
Accounted(done, tasks) ==
    \A c \in done :
        call[c].op.kind = "add" =>
            \/ \E r \in tasks : r.id = c /\ r.session = call[c].op.session
            \/ \E d \in done : /\ call[d].op.kind = "remove"
                               /\ call[d].op.target = c
                               /\ call[d].op.session = call[c].op.session

RowInv ==
    /\ Accounted(committed, file.tasks)
    /\ Accounted(committed \cup uncommitted["tasks"], draft.tasks)

ToolsInv == TypeOK /\ MadeInv /\ TaskInv /\ RowInv

-----------------------------------------------------------------------------
(* The type invariant.                                                     *)

LEMMA GotoType ==
    ASSUME TypeOK, NEW c \in Calls, NEW pc \in Busy, Goto(c, pc)
    PROVE  call' \in [Calls -> Call]
BY DEF TypeOK, Goto, Call

LEMMA EndType ==
    ASSUME TypeOK, NEW c \in Calls, NEW o \in Outcomes, End(c, o)
    PROVE  call' \in [Calls -> Call] /\ held' \subseteq Calls
<1>1. call[c] \in Call /\ call \in [Calls -> Call]
  BY DEF TypeOK
<1> DEFINE ended == [call[c] EXCEPT !.pc = "ended", !.conn = None, !.lock = None,
                                    !.outcome = o]
<1>2. ended \in Call
  BY <1>1 DEF Call
<1>3. call' = [call EXCEPT ![c] = ended]
  BY <1>1 DEF End
<1>4. call' \in [Calls -> Call]
  BY <1>1, <1>2, <1>3
<1>5. held' \subseteq Calls
  BY DEF TypeOK, End
<1> QED BY <1>4, <1>5

LEMMA SettleType ==
    ASSUME TypeOK, NEW kept \in SUBSET Stores, NEW dropped, Settle(kept, dropped)
    PROVE  /\ file' \in Content /\ draft' \in Content
           /\ writer' \in [Stores -> Calls \cup {None}]
           /\ uncommitted' \in [Stores -> SUBSET Calls]
           /\ committed' \subseteq Calls
<1>1. file' \in Content /\ draft' \in Content
  BY DEF TypeOK, Settle, Content
<1>2. /\ writer' \in [Stores -> Calls \cup {None}]
      /\ uncommitted' \in [Stores -> SUBSET Calls]
  BY DEF TypeOK, Settle
<1>3. committed' \subseteq Calls
  BY DEF TypeOK, Settle
<1> QED BY <1>1, <1>2, <1>3

LEMMA RaiseType ==
    ASSUME TypeOK, NEW c \in Calls, Raise(c)
    PROVE  TypeOK'
<1>1. call' \in [Calls -> Call] /\ held' \subseteq Calls
  BY EndType DEF Raise, Outcomes
<1>2. Settle({}, Orphaned)
  BY DEF Raise, RollBack
<1>3. /\ file' \in Content /\ draft' \in Content
      /\ writer' \in [Stores -> Calls \cup {None}]
      /\ uncommitted' \in [Stores -> SUBSET Calls]
      /\ committed' \subseteq Calls
  BY <1>2, SettleType
<1> QED BY <1>1, <1>3 DEF TypeOK, Raise

(* What a statement makes of a store is a store.                           *)
LEMMA ExecuteType ==
    ASSUME NEW c \in Calls, NEW op \in Requests, NEW content \in Content
    PROVE  Execute(c, op, content) \in Content
<1>1. CASE op.kind = "add"
  <2>1. op.session \in Sessions
    BY <1>1 DEF Requests
  <2> QED BY <1>1, <2>1 DEF Execute, Content, Task
<1>2. CASE op.kind = "done"
  <2>1. {[r EXCEPT !.status = "done"] : r \in Matching(op, content.tasks)}
            \subseteq Task
    BY DEF Matching, Content, Task
  <2> QED BY <1>2, <2>1 DEF Execute, Content
<1>3. CASE op.kind = "remove"
  BY <1>3 DEF Execute, Content
<1>4. CASE op.kind = "store"
  <2>1. op.target \in Keys
    BY <1>4 DEF Requests
  <2> QED BY <1>4, <2>1 DEF Execute, Content
<1>5. CASE op.kind = "forget"
  <2>1. op.target \in Keys
    BY <1>5 DEF Requests
  <2> QED BY <1>5, <2>1 DEF Execute, Content
<1>6. op.kind \in {"add", "done", "remove", "store", "forget"}
  BY DEF Requests
<1> QED BY <1>1, <1>2, <1>3, <1>4, <1>5, <1>6

LEMMA StoreType ==
    ASSUME MadeInv, TypeOK, NEW c \in Calls, ~At(c, "unused")
    PROVE  /\ Store(c) \in Stores /\ call[c].proc \in Processes
           /\ Shared(c) \in Calls \cup {None}
BY DEF MadeInv, TypeOK, Store, StoreOf, Stores, Shared

LEMMA StepType ==
    ASSUME TypeOK, MadeInv, NEW c \in Calls, CallStep(c)
    PROVE  TypeOK'
<1> USE DEF Busy
<1>0. ~At(c, "unused")
  BY DEF CallStep, Open, Connect, Create, NewLock, Grab, Enter, Write, Commit, At
<1>1. /\ Store(c) \in Stores /\ call[c].proc \in Processes
      /\ Shared(c) \in Calls \cup {None}
  BY <1>0, StoreType
<1>2. CASE Open(c)
  <2>1. \E pc \in Busy : Goto(c, pc)
    BY <1>2 DEF Open
  <2> QED BY <1>2, <2>1, GotoType DEF Open, TypeOK, dataVars
<1>3. CASE Raise(c)
  BY <1>3, RaiseType
<1>4. CASE Connect(c) /\ ~Raise(c)
  <2>1. call' \in [Calls -> Call]
    BY <1>4, GotoType DEF Connect
  <2>2. global' \in [Processes -> [Stores -> Calls \cup {None}]]
    BY <1>1, <1>4 DEF Connect, TypeOK
  <2>3. Settle({}, Orphaned)
    BY <1>4 DEF Connect, RollBack
  <2> QED BY <1>4, <2>1, <2>2, <2>3, SettleType DEF Connect, TypeOK
<1>5. CASE Create(c) /\ ~Raise(c)
  <2>1. \E pc \in Busy : Goto(c, pc)
    BY <1>5 DEF Create
  <2> QED BY <1>1, <1>5, <2>1, GotoType DEF Create, TypeOK, dataVars
<1>6. CASE NewLock(c)
  BY <1>1, <1>6, GotoType DEF NewLock, TypeOK, dataVars
<1>7. CASE Grab(c) /\ ~Raise(c)
  <2>1. global[call[c].proc]["tasks"] \in Calls \cup {None}
    BY <1>1 DEF TypeOK, Stores
  <2>2. lock[call[c].proc] \in Calls \cup {None}
    BY <1>1 DEF TypeOK
  <2>3. call' \in [Calls -> Call]
    BY <1>7, <2>1, <2>2 DEF Grab, TypeOK, Call
  <2> QED BY <1>7, <2>3 DEF Grab, TypeOK, dataVars
<1>8. CASE Enter(c)
  <2>1. call[c].lock \in Calls
    BY <1>8 DEF TypeOK, Call, MadeInv, Enter
  <2> QED BY <1>8, <2>1, GotoType DEF Enter, TypeOK, dataVars
<1>9. CASE Write(c) /\ ~Raise(c)
  <2>1. Handle(c) \in Calls \cup {None}
    BY <1>1 DEF Handle, TypeOK, Call
  <2>2. Answer(call[c].op, draft) \in Outcomes
    BY DEF Answer, Outcomes
  <2>3. call' \in [Calls -> Call]
    BY <1>9, <2>1, <2>2 DEF Write, TypeOK, Call
  <2>4. draft' \in Content
    BY <1>0, <1>9, ExecuteType DEF Write, TypeOK, MadeInv
  <2> QED BY <1>1, <1>9, <2>1, <2>3, <2>4 DEF Write, TypeOK
<1>10. CASE Commit(c) /\ ~Raise(c)
  <2>1. call' \in [Calls -> Call] /\ held' \subseteq Calls
    BY <1>10, EndType DEF Commit, TypeOK, Call
  <2>2. PICK kept \in SUBSET Stores : \E dropped : Settle(kept, dropped)
    BY <1>1, <1>10 DEF Commit
  <2> QED BY <1>10, <2>1, <2>2, SettleType DEF Commit, TypeOK
<1> QED
  BY <1>2, <1>3, <1>4, <1>5, <1>6, <1>7, <1>8, <1>9, <1>10 DEF CallStep

-----------------------------------------------------------------------------
(* What the calls were given, and whose changes there are.                 *)

(* Step c of a call leaves the arguments of all calls alone, and the rest  *)
(* of the other calls.                                                     *)
LEMMA StepFrame ==
    ASSUME TypeOK, NEW c \in Calls, CallStep(c), NEW b \in Calls
    PROVE  /\ call'[b].op = call[b].op /\ call'[b].proc = call[b].proc
           /\ ~At(c, "unused") /\ ~At(c, "unused")'
           /\ b # c => call'[b] = call[b]
BY DEF CallStep, Open, Connect, Create, NewLock, Grab, Enter, Write, Commit,
       Raise, End, Goto, At, TypeOK, Call

(* A step settles some stores, writes, or leaves the data alone.           *)
LEMMA StepData ==
    ASSUME TypeOK, NEW c \in Calls, CallStep(c)
    PROVE  \/ Write(c) /\ ~Raise(c)
           \/ UNCHANGED dataVars /\ ~Commit(c)
           \/ Settle({}, Orphaned) /\ call'[c].outcome = "error" /\ call'[c].pc = "ended"
           \/ Settle({}, Orphaned) /\ Connect(c) /\ ~Raise(c)
           \/ Commit(c) /\ ~Raise(c)
<1>1. Raise(c) => /\ Settle({}, Orphaned)
                  /\ call'[c].outcome = "error" /\ call'[c].pc = "ended"
  BY DEF Raise, RollBack, End, TypeOK, Call
<1>2. CASE Raise(c)
  BY <1>1, <1>2
<1>3. CASE ~Raise(c)
  <2>1. Connect(c) => Settle({}, Orphaned)
    BY <1>3 DEF Connect, RollBack
  <2>2. Open(c) \/ Create(c) \/ NewLock(c) \/ Grab(c) \/ Enter(c) =>
            UNCHANGED dataVars /\ ~Commit(c)
    BY <1>3 DEF Open, Create, NewLock, Grab, Enter, Commit, At, dataVars
  <2> QED BY <1>3, <2>1, <2>2 DEF CallStep
<1> QED BY <1>2, <1>3

LEMMA StepMade ==
    ASSUME TypeOK, MadeInv, NEW c \in Calls, CallStep(c)
    PROVE  MadeInv'
<1>0. ~At(c, "unused") /\ ~At(c, "unused")'
  BY StepFrame
<1>1. \A b \in Calls : (~At(b, "unused"))' =>
          call'[b].proc \in Processes /\ call'[b].op \in Requests
  BY <1>0, StepFrame DEF MadeInv, At
<1>2. \A b \in Calls : At(b, "enter")' => call'[b].lock # None
  <2>1. \A b \in Calls : b # c /\ At(b, "enter")' => call'[b].lock # None
    BY StepFrame DEF MadeInv, At
  <2>2. At(c, "enter")' => call'[c].lock # None
    BY DEF CallStep, Open, Connect, Create, NewLock, Grab, Enter, Write, Commit,
           Raise, End, Goto, At, TypeOK, Call
  <2> QED BY <2>1, <2>2
<1>3. \A b \in Calls : ~At(b, "unused") => ~At(b, "unused")' /\ Store(b)' = Store(b)
  BY <1>0, StepFrame DEF At, Store
<1>4. /\ \A b \in committed' : ~At(b, "unused")
      /\ \A st \in Stores : \A b \in uncommitted'[st] :
             ~At(b, "unused") /\ Store(b) = st
  <2>1. CASE \E kept \in SUBSET Stores : \E dropped : Settle(kept, dropped)
    BY <2>1 DEF Settle, MadeInv
  <2>2. CASE Write(c) /\ ~Raise(c)
    BY <1>0, <2>2 DEF Write, MadeInv, TypeOK
  <2>3. CASE UNCHANGED dataVars
    BY <2>3 DEF dataVars, MadeInv
  <2>4. CASE Commit(c) /\ ~Raise(c)
    <3>1. Store(c) \in Stores
      BY <1>0, StoreType
    <3> QED BY <2>1, <2>4, <3>1 DEF Commit
  <2> QED BY <2>1, <2>2, <2>3, <2>4, StepData DEF Stores
<1>5. committed' \subseteq Calls /\ \A st \in Stores : uncommitted'[st] \subseteq Calls
  BY StepType DEF TypeOK
<1> QED BY <1>1, <1>2, <1>3, <1>4, <1>5 DEF MadeInv

-----------------------------------------------------------------------------
(* The connection a task call holds keeps its change alive.                *)

LEMMA SettleTasks ==
    ASSUME TypeOK, NEW kept \in SUBSET Stores, NEW dropped, Settle(kept, dropped),
           dropped \subseteq Orphaned, NEW b \in Calls, call'[b].conn = call[b].conn,
           call[b].conn # None,
           \/ b \in committed
           \/ b \in uncommitted["tasks"] /\ writer["tasks"] = call[b].conn
    PROVE  \/ b \in committed'
           \/ b \in uncommitted'["tasks"] /\ writer'["tasks"] = call'[b].conn
<1>1. CASE b \in committed
  BY <1>1 DEF Settle
<1>2. CASE b \in uncommitted["tasks"] /\ writer["tasks"] = call[b].conn
  <2>1. "tasks" \notin dropped
    BY <1>2 DEF Orphaned
  <2>2. CASE "tasks" \in kept
    BY <1>2, <2>2 DEF Settle
  <2>3. CASE "tasks" \notin kept
    BY <1>2, <2>1, <2>3 DEF Settle, Stores
  <2> QED BY <2>2, <2>3
<1> QED BY <1>1, <1>2

LEMMA CommittedStay ==
    ASSUME TypeOK, NEW c \in Calls, CallStep(c)
    PROVE  committed \subseteq committed'
<1>1. \A kept, dropped : Settle(kept, dropped) => committed \subseteq committed'
  BY DEF Settle
<1>2. Commit(c) /\ ~Raise(c) => \E kept, dropped : Settle(kept, dropped)
  BY DEF Commit
<1> QED BY <1>1, <1>2, StepData DEF Write, dataVars

(* A call's step and the other calls.                                      *)
LEMMA StepOthers ==
    ASSUME TypeOK, MadeInv, TaskInv, NEW c \in Calls, CallStep(c),
           NEW b \in Calls, b # c
    PROVE  TaskOK(b)'
<1>1. call'[b] = call[b] /\ Store(b)' = Store(b) /\ ~At(c, "unused")
  BY StepFrame DEF Store
<1>2. TaskOK(b)
  BY DEF TaskInv
<1>3. call[b].pc \in {"create", "newlock", "grab"} => Shared(b)' # None
  <2> SUFFICES ASSUME call[b].pc \in {"create", "newlock", "grab"}
               PROVE  Shared(b)' # None
    OBVIOUS
  <2>1. /\ call[b].proc \in Processes /\ Store(b) \in Stores
        /\ call[c].proc \in Processes /\ Store(c) \in Stores
    BY <1>1, StoreType DEF At
  <2>2. global[call[b].proc][Store(b)] # None
    BY <1>2 DEF TaskOK, Shared
  <2>3. global'[call[b].proc][Store(b)] # None
    <3>1. CASE global' = global
      BY <2>2, <3>1
    <3>2. CASE global' = [global EXCEPT ![call[c].proc][Store(c)] = c]
      <4>1. c # None
        BY ToolsAssumption
      <4> QED BY <2>1, <2>2, <3>2, <4>1 DEF TypeOK
    <3> QED BY <3>1, <3>2 DEF CallStep, Open, Connect, Create, NewLock, Grab,
                              Enter, Write, Commit, Raise
  <2> QED BY <1>1, <2>3 DEF Shared
<1>4. At(b, "commit") /\ Store(b) = "tasks" =>
          \/ b \in committed'
          \/ b \in uncommitted'["tasks"] /\ writer'["tasks"] = call[b].conn
  <2> SUFFICES ASSUME At(b, "commit"), Store(b) = "tasks"
               PROVE  \/ b \in committed'
                      \/ /\ b \in uncommitted'["tasks"]
                         /\ writer'["tasks"] = call[b].conn
    OBVIOUS
  <2>1. /\ call[b].conn # None
        /\ \/ b \in committed
           \/ b \in uncommitted["tasks"] /\ writer["tasks"] = call[b].conn
    BY <1>2 DEF TaskOK, At
  <2>2. CASE Write(c) /\ ~Raise(c)
    <3>1. Store(c) \in Stores
      BY <1>1, StoreType
    <3>2. /\ writer' = [writer EXCEPT ![Store(c)] = Handle(c)]
          /\ uncommitted' = [uncommitted EXCEPT ![Store(c)] = @ \cup {c}]
          /\ committed' = committed
          /\ writer[Store(c)] \in {None, Handle(c)}
      BY <2>2 DEF Write, MayWrite
    <3> QED BY <2>1, <3>1, <3>2 DEF TypeOK, Stores
  <2>3. CASE UNCHANGED dataVars
    BY <2>1, <2>3 DEF dataVars
  <2>4. CASE \E kept \in SUBSET Stores, dropped \in SUBSET Orphaned :
                 Settle(kept, dropped)
    BY <1>1, <2>1, <2>4, SettleTasks
  <2>5. CASE Commit(c) /\ ~Raise(c)
    <3>1. Store(c) \in Stores
      BY <1>1, StoreType
    <3> QED BY <2>4, <2>5, <3>1 DEF Commit
  <2> QED BY <2>2, <2>3, <2>4, <2>5, StepData
<1>5. committed \subseteq committed'
  BY CommittedStay
<1> QED BY <1>1, <1>2, <1>3, <1>4, <1>5 DEF TaskOK, At

(* A call's step and that call.                                            *)
LEMMA StepItself ==
    ASSUME TypeOK, MadeInv, TaskInv, NEW c \in Calls, CallStep(c)
    PROVE  TaskOK(c)'
<1>1. call'[c].op = call[c].op /\ call'[c].proc = call[c].proc /\ ~At(c, "unused")
  BY StepFrame
<1>2. /\ Store(c) \in Stores /\ call[c].proc \in Processes /\ Store(c)' = Store(c)
  BY <1>1, StoreType DEF Store
<1>3. TaskOK(c)
  BY DEF TaskInv
<1> USE DEF Busy
<1>4. CASE Raise(c)
  BY <1>4 DEF Raise, End, TypeOK, Call, TaskOK, At
<1>5. CASE Open(c)
  <2>1. global' = global /\ call' \in [Calls -> Call] /\ call[c].outcome = "none"
        /\ call'[c].outcome = "none"
    BY <1>3, <1>5, GotoType DEF Open, TaskOK, At, TypeOK, Goto, Call
  <2>2. \/ call'[c].pc = "connect"
        \/ call'[c].pc = "grab" /\ Shared(c) # None /\ Store(c) = "tasks"
        \/ call'[c].pc = "write" /\ Store(c) = "memory"
    BY <1>5 DEF Open, Goto, TypeOK, Call
  <2>3. Shared(c)' = Shared(c)
    BY <1>1, <1>2, <2>1 DEF Shared
  <2> QED BY <1>2, <2>1, <2>2, <2>3 DEF TaskOK, At
<1>6. CASE Connect(c) /\ ~Raise(c)
  <2>1. call'[c].pc = "create" /\ call'[c].outcome = "none"
    BY <1>3, <1>6 DEF Connect, Goto, TaskOK, At, TypeOK, Call
  <2>2. Shared(c)' = c /\ c # None
    BY <1>1, <1>2, <1>6, ToolsAssumption DEF Connect, Shared, TypeOK
  <2> QED BY <2>1, <2>2 DEF TaskOK, At
<1>7. CASE Create(c) /\ ~Raise(c)
  <2>1. /\ call'[c].pc = IF Store(c) = "tasks" THEN "newlock" ELSE "write"
        /\ call'[c].outcome = "none"
    BY <1>3, <1>7 DEF Create, Goto, TaskOK, At, TypeOK, Call
  <2>2. Shared(c)' = Shared(c) /\ Shared(c) # None
    BY <1>1, <1>2, <1>3, <1>7 DEF Create, Shared, TaskOK, At
  <2> QED BY <1>2, <2>1, <2>2 DEF TaskOK, At
<1>8. CASE NewLock(c)
  <2>1. call'[c].pc = "grab" /\ call'[c].outcome = "none"
    BY <1>3, <1>8 DEF NewLock, Goto, TaskOK, At, TypeOK, Call
  <2>2. Shared(c)' = Shared(c) /\ Shared(c) # None /\ Store(c) = "tasks"
    BY <1>1, <1>2, <1>3, <1>8 DEF NewLock, Shared, TaskOK, At
  <2> QED BY <1>2, <2>1, <2>2 DEF TaskOK, At
<1>9. CASE Grab(c) /\ ~Raise(c)
  <2>1. /\ call'[c].pc = "enter" /\ call'[c].outcome = "none"
        /\ call'[c].conn = global[call[c].proc]["tasks"]
    BY <1>3, <1>9 DEF Grab, TaskOK, At, TypeOK, Call
  <2>2. global[call[c].proc]["tasks"] # None
    BY <1>3, <1>9 DEF Grab, Shared, TaskOK, At
  <2> QED BY <2>1, <2>2 DEF TaskOK, At
<1>10. CASE Enter(c)
  <2>1. /\ call'[c].pc = "write" /\ call'[c].outcome = "none"
        /\ call'[c].conn = call[c].conn
    BY <1>3, <1>10 DEF Enter, Goto, TaskOK, At, TypeOK, Call
  <2> QED BY <1>2, <1>3, <1>10, <2>1 DEF TaskOK, At, Enter
<1>11. CASE Write(c) /\ ~Raise(c)
  <2>1. call'[c].pc = "commit"
    BY <1>11 DEF Write, TypeOK, Call
  <2> SUFFICES ASSUME Store(c) = "tasks"
               PROVE  /\ call'[c].conn # None
                      /\ c \in uncommitted'["tasks"]
                      /\ writer'["tasks"] = call'[c].conn
    BY <1>2, <2>1 DEF TaskOK, At
  <2>2. call[c].op.kind # "store"
    BY DEF Store, StoreOf
  <2>3. Handle(c) = call[c].conn /\ call[c].conn # None
    BY <1>3, <1>11 DEF Handle, TaskOK, Write, At
  <2>4. call'[c].conn = Handle(c)
    BY <1>11, <2>2 DEF Write, TypeOK, Call
  <2>5. c \in uncommitted'["tasks"] /\ writer'["tasks"] = Handle(c)
    BY <1>11, <1>2 DEF Write, TypeOK
  <2> QED BY <2>3, <2>4, <2>5
<1>12. CASE Commit(c) /\ ~Raise(c)
  <2>1. call'[c].pc = "ended"
    BY <1>12 DEF Commit, End, TypeOK, Call
  <2>2. ASSUME Store(c) = "tasks" PROVE c \in committed'
    <3>1. Handle(c) = call[c].conn
      BY <2>2 DEF Handle
    <3>2. CASE c \in committed
      BY <3>2, CommittedStay
    <3>3. CASE c \in uncommitted["tasks"] /\ writer["tasks"] = call[c].conn
      <4>1. PICK kept, dropped : "tasks" \in kept /\ Settle(kept, dropped)
        BY <1>12, <2>2, <3>1, <3>3 DEF Commit
      <4> QED BY <3>3, <4>1 DEF Settle
    <3> QED BY <1>3, <1>12, <2>2, <3>2, <3>3 DEF TaskOK, Commit
  <2> QED BY <1>2, <2>1, <2>2 DEF TaskOK, At
<1> QED
  BY <1>4, <1>5, <1>6, <1>7, <1>8, <1>9, <1>10, <1>11, <1>12 DEF CallStep

-----------------------------------------------------------------------------
(* Adds and removes are accounted for in the files.                        *)

LEMMA AccountedMore ==
    ASSUME NEW done, NEW more, NEW rows, Accounted(done, rows),
           \A c \in more : call[c].op.kind # "add"
    PROVE  Accounted(done \cup more, rows)
BY DEF Accounted

LEMMA SettleRows ==
    ASSUME TypeOK, MadeInv, RowInv,
           NEW kept \in SUBSET Stores, NEW dropped, Settle(kept, dropped),
           kept \cap dropped = {},
           \A b \in Calls : ~At(b, "unused") => call'[b].op = call[b].op
    PROVE  RowInv'
<1> DEFINE all == committed \cup uncommitted["tasks"]
<1>1. \A b \in uncommitted["memory"] : call[b].op.kind # "add"
  BY DEF MadeInv, Store, StoreOf, Stores
<1>2. \A done \in SUBSET all : \A rows : Accounted(done, rows) =>
          Accounted(done \cup uncommitted["memory"], rows)
  BY <1>1, AccountedMore
<1>3. Accounted(committed, file.tasks) /\ Accounted(all, draft.tasks)
  BY DEF RowInv
<1>4. committed' \subseteq committed \cup uncommitted["tasks"] \cup uncommitted["memory"]
  BY DEF Settle, Stores
<1>5. \A b \in committed \cup uncommitted["tasks"] \cup uncommitted["memory"] :
          call'[b].op = call[b].op
  BY DEF MadeInv, TypeOK, Stores
<1>6. Accounted(committed', file'.tasks) /\
      Accounted(committed' \cup uncommitted'["tasks"], draft'.tasks)
  <2> DEFINE extra == IF "memory" \in kept THEN uncommitted["memory"] ELSE {}
  <2>0. \A done \in SUBSET all : \A rows : Accounted(done, rows) =>
            Accounted(done \cup extra, rows)
    BY <1>2
  <2>1. CASE "tasks" \in kept
    <3>1. committed' = all \cup extra
      BY <2>1 DEF Settle, Stores
    <3>2. uncommitted'["tasks"] = {}
      BY <2>1 DEF Settle, Stores
    <3>3. file'.tasks = draft.tasks
      BY <2>1 DEF Settle
    <3>4. draft'.tasks = draft.tasks
      BY <2>1 DEF Settle
    <3> QED BY <1>3, <2>0, <3>1, <3>2, <3>3, <3>4
  <2>2. CASE "tasks" \notin kept /\ "tasks" \in dropped
    <3>1. committed' = committed \cup extra
      BY <2>2 DEF Settle, Stores
    <3>2. uncommitted'["tasks"] = {}
      BY <2>2 DEF Settle, Stores
    <3>3. file'.tasks = file.tasks /\ draft'.tasks = file.tasks
      BY <2>2 DEF Settle
    <3> QED BY <1>3, <2>0, <3>1, <3>2, <3>3
  <2>3. CASE "tasks" \notin kept /\ "tasks" \notin dropped
    <3>1. committed' = committed \cup extra
      BY <2>3 DEF Settle, Stores
    <3>2. uncommitted'["tasks"] = uncommitted["tasks"]
      BY <2>3 DEF Settle, Stores
    <3>3. file'.tasks = file.tasks /\ draft'.tasks = draft.tasks
      BY <2>3 DEF Settle
    <3>4. committed' \cup uncommitted'["tasks"] = all \cup extra
      BY <3>1, <3>2
    <3> QED BY <1>3, <2>0, <3>1, <3>3, <3>4
  <2> QED BY <2>1, <2>2, <2>3
<1>7. uncommitted'["tasks"] \subseteq uncommitted["tasks"]
  BY DEF Settle, Stores
<1> QED BY <1>4, <1>5, <1>6, <1>7 DEF RowInv, Accounted

(* An added row is there, a finished one keeps its id and session, and a   *)
(* removed one is the request's own.                                       *)
LEMMA WriteRows ==
    ASSUME TypeOK, MadeInv, RowInv, NEW c \in Calls, Write(c), ~Raise(c)
    PROVE  RowInv'
<1> DEFINE all == committed \cup uncommitted["tasks"]
<1> DEFINE op == call[c].op
<1>1. \A b \in Calls : call'[b].op = call[b].op
  BY StepFrame DEF CallStep
<1>2. all \subseteq Calls
  BY DEF TypeOK, Stores
<1>3. UNCHANGED <<committed, file>> /\ draft' = Execute(c, op, draft)
  BY DEF Write
<1>4. Store(c) \in Stores /\ op \in Requests
  BY StoreType DEF MadeInv, Write, At
<1>5. CASE Store(c) # "tasks"
  <2>1. uncommitted'["tasks"] = uncommitted["tasks"]
    BY <1>5 DEF Write, TypeOK, Stores
  <2>2. op.kind \in {"store", "forget"}
    BY <1>4, <1>5 DEF Store, StoreOf, Requests
  <2>3. draft'.tasks = draft.tasks
    BY <1>3, <2>2 DEF Execute, TypeOK, Content
  <2> QED BY <1>1, <1>2, <1>3, <2>1, <2>3 DEF RowInv, Accounted
<1>6. CASE Store(c) = "tasks"
  <2>1. uncommitted'["tasks"] = uncommitted["tasks"] \cup {c}
    BY <1>4, <1>6 DEF Write, TypeOK
  <2>2. op.kind \in {"add", "done", "remove"}
    BY <1>6 DEF Store, StoreOf
  <2>3. ASSUME NEW b \in all, op.kind \in {"add", "done", "remove"},
               call[b].op.kind = "add"
        PROVE  \/ \E r \in draft'.tasks : r.id = b /\ r.session = call[b].op.session
               \/ \E d \in all \cup {c} : /\ call[d].op.kind = "remove"
                                          /\ call[d].op.target = b
                                          /\ call[d].op.session = call[b].op.session
    <3>1. CASE \E r \in draft.tasks : r.id = b /\ r.session = call[b].op.session
      <4>1. PICK r \in draft.tasks : r.id = b /\ r.session = call[b].op.session
        BY <3>1
      <4>2. CASE op.kind = "add"
        BY <1>3, <4>1, <4>2 DEF Execute, TypeOK, Content
      <4>3. CASE op.kind = "done"
        <5>1. draft'.tasks = (draft.tasks \ Matching(op, draft.tasks)) \cup
                  {[q EXCEPT !.status = "done"] : q \in Matching(op, draft.tasks)}
          BY <1>3, <4>3 DEF Execute, TypeOK, Content
        <5>2. CASE r \in Matching(op, draft.tasks)
          <6> DEFINE q == [r EXCEPT !.status = "done"]
          <6>1. q \in draft'.tasks
            BY <5>1, <5>2
          <6>2. q.id = r.id /\ q.session = r.session
            BY <4>1 DEF TypeOK, Content, Task
          <6> QED BY <4>1, <6>1, <6>2
        <5>3. CASE r \notin Matching(op, draft.tasks)
          BY <4>1, <5>1, <5>3
        <5> QED BY <5>2, <5>3
      <4>4. CASE op.kind = "remove"
        <5>1. draft'.tasks = draft.tasks \ Matching(op, draft.tasks)
          BY <1>3, <4>4 DEF Execute, TypeOK, Content
        <5>2. CASE r \in Matching(op, draft.tasks)
          BY <4>1, <4>4, <5>2 DEF Matching
        <5>3. CASE r \notin Matching(op, draft.tasks)
          BY <4>1, <5>1, <5>3
        <5> QED BY <5>2, <5>3
      <4> QED BY <2>3, <4>2, <4>3, <4>4
    <3>2. CASE \E d \in all : /\ call[d].op.kind = "remove"
                              /\ call[d].op.target = b
                              /\ call[d].op.session = call[b].op.session
      BY <3>2
    <3> QED BY <2>3, <3>1, <3>2 DEF RowInv, Accounted
  <2>4. ASSUME op.kind = "add"
        PROVE  \E r \in draft'.tasks : r.id = c /\ r.session = op.session
    <3> DEFINE row == [id |-> c, session |-> op.session, status |-> "pending"]
    <3>1. draft' = [draft EXCEPT !.tasks = draft.tasks \cup {row}]
      BY <1>3, <2>4 DEF Execute
    <3>2. draft'.tasks = draft.tasks \cup {row}
      BY <3>1 DEF TypeOK, Content
    <3> HIDE DEF row
    <3>3. row \in draft'.tasks
      BY <3>2
    <3> QED BY <3>3 DEF row
  <2>5. Accounted(all \cup {c}, draft'.tasks)
    BY <2>2, <2>3, <2>4 DEF Accounted
  <2>6. all \cup {c} \subseteq Calls
    BY <1>2
  <2>7. committed' \cup uncommitted'["tasks"] = all \cup {c}
    BY <1>3, <2>1
  <2> QED BY <1>1, <1>2, <1>3, <2>5, <2>6, <2>7 DEF RowInv, Accounted
<1> QED BY <1>5, <1>6

LEMMA StepRows ==
    ASSUME TypeOK, MadeInv, RowInv, NEW c \in Calls, CallStep(c)
    PROVE  RowInv'
<1>1. \A b \in Calls : call'[b].op = call[b].op
  BY StepFrame
<1>2. CASE Write(c) /\ ~Raise(c)
  BY <1>2, WriteRows
<1>3. CASE UNCHANGED dataVars
  BY <1>1, <1>3 DEF dataVars, RowInv, Accounted, TypeOK, Stores
<1>4. CASE Settle({}, Orphaned)
  BY <1>1, <1>4, SettleRows
<1>5. CASE Commit(c) /\ ~Raise(c)
  <2>1. Store(c) \in Stores
    BY StepFrame, StoreType
  <2>2. PICK kept \in SUBSET Stores : Settle(kept, Orphaned \ kept)
    BY <1>5, <2>1 DEF Commit
  <2> QED BY <1>1, <2>2, SettleRows
<1> QED BY <1>2, <1>3, <1>4, <1>5, StepData

-----------------------------------------------------------------------------
(* New calls and crashes.                                                  *)

LEMMA InvokeInv ==
    ASSUME ToolsInv, NEW c \in Calls, Invoke(c)
    PROVE  ToolsInv'
<1>1. PICK p \in Processes, op \in Requests :
          call' = [call EXCEPT ![c] = [NoCall EXCEPT !.pc = "open", !.proc = p,
                                                     !.op = op]]
  BY DEF Invoke
<1>2. At(c, "unused") /\ UNCHANGED <<global, lock, held, tables, file, draft,
                                     writer, uncommitted, committed>>
  BY DEF Invoke, dataVars
<1>3. call \in [Calls -> Call]
  BY DEF ToolsInv, TypeOK
<1>4. /\ call'[c].pc = "open" /\ call'[c].proc = p /\ call'[c].op = op
      /\ call'[c].outcome = "none"
      /\ \A b \in Calls : b # c => call'[b] = call[b]
  BY <1>1, <1>3 DEF NoCall
<1>5. call' \in [Calls -> Call]
  <2>1. [NoCall EXCEPT !.pc = "open", !.proc = p, !.op = op] \in Call
    BY DEF NoCall, Call, Busy, Outcomes
  <2> QED BY <1>1, <1>3, <2>1
<1>6. TypeOK'
  BY <1>2, <1>5 DEF ToolsInv, TypeOK
<1>7. c \notin committed /\ \A st \in Stores : c \notin uncommitted[st]
  BY <1>2 DEF ToolsInv, MadeInv
<1>8. /\ committed \subseteq Calls
      /\ \A st \in Stores : uncommitted[st] \subseteq Calls
  BY DEF ToolsInv, TypeOK
<1>9. MadeInv'
  <2>1. \A b \in Calls : b # c =>
            /\ (At(b, "unused"))' = At(b, "unused") /\ Store(b)' = Store(b)
            /\ (At(b, "enter"))' = At(b, "enter")
    BY <1>4 DEF At, Store
  <2> QED BY <1>2, <1>4, <1>7, <1>8, <2>1 DEF ToolsInv, MadeInv, At
<1>10. TaskInv'
  <2>1. TaskOK(c)'
    BY <1>4 DEF TaskOK, At
  <2>2. ASSUME NEW b \in Calls, b # c PROVE TaskOK(b)'
    BY <1>2, <1>4, <2>2 DEF ToolsInv, TaskInv, TaskOK, At, Store, Shared
  <2> QED BY <2>1, <2>2 DEF TaskInv
<1>11. RowInv'
  BY <1>2, <1>4, <1>7, <1>8 DEF ToolsInv, RowInv, Accounted, Stores
<1> QED BY <1>6, <1>9, <1>10, <1>11 DEF ToolsInv

LEMMA CrashInv ==
    ASSUME ToolsInv, NEW p \in Processes, Crash(p)
    PROVE  ToolsInv'
<1> DEFINE Dying(b) == call[b].proc = p /\ call[b].pc \in Busy
<1> USE DEF ToolsInv
<1>1. call \in [Calls -> Call]
  BY DEF TypeOK
<1>2. \A b \in Calls :
          call'[b] = IF Dying(b)
                     THEN [call[b] EXCEPT !.pc = "ended", !.conn = None,
                                          !.lock = None, !.outcome = "lost"]
                     ELSE call[b]
  BY DEF Crash
<1>3. \A b \in Calls : call'[b].op = call[b].op /\ call'[b].proc = call[b].proc
  BY <1>1, <1>2 DEF Call
<1>4. \A b \in Calls : Dying(b) => call'[b].pc = "ended" /\ call'[b].outcome = "lost"
  BY <1>1, <1>2 DEF Call
<1>5. call' \in [Calls -> Call]
  <2>1. \A b \in Calls : [call[b] EXCEPT !.pc = "ended", !.conn = None,
                                         !.lock = None, !.outcome = "lost"] \in Call
    BY <1>1 DEF Call, Outcomes
  <2> QED BY <1>1, <2>1 DEF Crash
<1>6. Settle({}, Orphaned) /\ tables' = tables
  BY DEF Crash, RollBack
<1>7. /\ global' = [global EXCEPT ![p] = [st \in Stores |-> None]]
      /\ lock' = [lock EXCEPT ![p] = None] /\ held' \subseteq held
  BY DEF Crash
<1>8. TypeOK'
  BY <1>5, <1>6, <1>7, SettleType DEF TypeOK
<1>9. MadeInv'
  <2>1. \A b \in Calls : At(b, "unused")' <=> At(b, "unused")
    BY <1>2, <1>4 DEF At, Busy
  <2>2. \A b \in Calls : At(b, "enter")' => At(b, "enter") /\ call'[b] = call[b]
    BY <1>2, <1>4 DEF At
  <2>3. committed' = committed /\ \A st \in Stores : uncommitted'[st] \subseteq uncommitted[st]
    BY <1>6 DEF Settle
  <2>4. /\ committed \subseteq Calls
        /\ \A st \in Stores : uncommitted[st] \subseteq Calls
    BY DEF TypeOK
  <2> QED BY <1>3, <2>1, <2>2, <2>3, <2>4 DEF MadeInv, Store
<1>10. TaskInv'
  <2> SUFFICES ASSUME NEW b \in Calls PROVE TaskOK(b)'
    BY DEF TaskInv
  <2>1. CASE Dying(b)
    BY <1>4, <2>1 DEF TaskOK, At, Busy
  <2>2. CASE ~Dying(b)
    <3>1. call'[b] = call[b] /\ Store(b)' = Store(b) /\ TaskOK(b)
      BY <1>2, <2>2 DEF Store, TaskInv
    <3>2. call[b].pc \in Busy => Shared(b)' = Shared(b)
      BY <1>7, <2>2, <3>1 DEF Shared, TypeOK
    <3>3. committed' = committed
      BY <1>6 DEF Settle
    <3>4. At(b, "commit") /\ Store(b) = "tasks" =>
              \/ b \in committed'
              \/ b \in uncommitted'["tasks"] /\ writer'["tasks"] = call'[b].conn
      BY <1>6, <3>1, SettleTasks DEF TaskOK, At
    <3> QED BY <3>1, <3>2, <3>3, <3>4 DEF TaskOK, At, Busy
  <2> QED BY <2>1, <2>2
<1>11. RowInv'
  BY <1>3, <1>6, SettleRows
<1> QED BY <1>8, <1>9, <1>10, <1>11

-----------------------------------------------------------------------------
(* The inductive invariant: adds and removes are accounted for, a task     *)
(* call's change is committed or on the connection it holds.               *)
THEOREM ToolsInductive == Spec => []ToolsInv
<1>1. Init => ToolsInv
  <2> SUFFICES ASSUME Init PROVE ToolsInv
    OBVIOUS
  <2>1. TypeOK
    <3>1. NoCall \in Call
      BY DEF NoCall, Call, Outcomes
    <3>2. Empty \in Content
      BY DEF Empty, Content
    <3> QED BY <3>1, <3>2 DEF Init, TypeOK
  <2>2. MadeInv /\ TaskInv /\ RowInv
    BY DEF Init, NoCall, MadeInv, TaskInv, TaskOK, RowInv, Accounted, At, Busy, Stores
  <2> QED BY <2>1, <2>2 DEF ToolsInv
<1>2. ToolsInv /\ [Next]_vars => ToolsInv'
  <2> SUFFICES ASSUME ToolsInv, [Next]_vars PROVE ToolsInv'
    OBVIOUS
  <2>1. ASSUME NEW c \in Calls, CallStep(c) PROVE ToolsInv'
    <3>1. TypeOK' /\ MadeInv' /\ RowInv'
      BY <2>1, StepType, StepMade, StepRows DEF ToolsInv
    <3>2. TaskInv'
      BY <2>1, StepOthers, StepItself DEF ToolsInv, TaskInv
    <3> QED BY <3>1, <3>2 DEF ToolsInv
  <2>2. CASE UNCHANGED vars
    BY <2>2 DEF vars, ToolsInv, TypeOK, MadeInv, TaskInv, TaskOK, RowInv, Accounted,
                At, Store, Shared
  <2> QED BY <2>1, <2>2, InvokeInv, CrashInv DEF Next
<1> QED BY <1>1, <1>2, PTL DEF Spec

(* Type correctness.                                                       *)
THEOREM ToolsTypeCorrect == Spec => []TypeOK
BY ToolsInductive, PTL DEF ToolsInv

(* A task function that answered has committed its statement, for any      *)
(* number of threads, processes and sessions: task_add, task_done and      *)
(* task_remove keep their connection in a local.                           *)
THEOREM AnswersAreCommitted == Spec => []AnsweredTasksAreCommitted
<1>1. ToolsInv => AnsweredTasksAreCommitted
  BY DEF ToolsInv, TaskInv, TaskOK, AnsweredTasksAreCommitted
<1> QED BY <1>1, ToolsInductive, PTL

(* A committed task stays until its own session removes it.                *)
THEOREM TasksStay == Spec => []AddedTasksStay
<1>1. ToolsInv => AddedTasksStay
  BY DEF ToolsInv, RowInv, Accounted, AddedTasksStay
<1> QED BY <1>1, ToolsInductive, PTL
=============================================================================
