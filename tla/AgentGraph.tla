----------------------------- MODULE AgentGraph -----------------------------
(***************************************************************************)
(* agent/graph.py: the LangGraph graph router -> agent -> tools -> agent   *)
(* ... -> END, with human_gate before END, and the three ways in which     *)
(* agent/main.py invokes it: POST /chat, the /ws socket and POST /confirm. *)
(*                                                                         *)
(* LangGraph is external.  As the code uses it, an invocation works on a   *)
(* state in memory and saves it, with the node that comes next, after each *)
(* node; `interrupt_before=["human_gate"]` ends an invocation that reaches *)
(* that node; an invocation with input starts over at the router, one with *)
(* None takes up the saved node; RecursionLimit nodes end an invocation.   *)
(* Invocations block the event loop, so there is one at a time.            *)
(***************************************************************************)
EXTENDS Integers, FiniteSets

CONSTANTS Sessions,        \* thread ids
          None,            \* stands where Python has None
          UserTools,       \* names in USER_TOOLS
          OtherDevTools,   \* names in DEV_TOOLS only, but for the next
          GitDiffSuggest,  \* the tool that is gated
          RecursionLimit   \* LangGraph's bound, 25 unless configured

ASSUME GraphAssumption ==
    /\ None \notin Sessions /\ None # "dev"
    /\ GitDiffSuggest \notin UserTools \cup OtherDevTools
    /\ RecursionLimit \in Nat

VARIABLES thread,          \* checkpoint of each session, None if absent
          run,             \* the invocation being served, None if none
          ran,             \* history: what tools_node did last, None if nothing
          staged,          \* sessions for which a turn staged a proposal
          told,            \* the last answer of /chat to each session
          opened           \* history: sessions a dev's /chat began

vars == <<thread, run, ran, staged, told, opened>>

DevTools == UserTools \cup OtherDevTools \cup {GitDiffSuggest}

(* AgentState and the node that comes next.  Of the messages the last one  *)
(* decides: `calls` are the tools it calls, none for a text.               *)
AgentState == [next : {"router", "agent", "tools", "human_gate", "END"},
               role : {"dev", None}, pending_confirmation : BOOLEAN,
               calls : SUBSET DevTools]

Run == [session : Sessions, via : {"chat", "ws", "confirm"},
        steps : 0 .. RecursionLimit, state : AgentState]

Batch == [role : {"dev", None}, calls : SUBSET DevTools, executed : SUBSET DevTools,
          opened : BOOLEAN]

GraphTypeOK ==
    /\ thread \in [Sessions -> AgentState \cup {None}]
    /\ run \in Run \cup {None}
    /\ ran \in Batch \cup {None}
    /\ staged \subseteq Sessions
    /\ told \in [Sessions -> {"none", "ok", "pending_confirmation"}]
    /\ opened \subseteq Sessions

Init ==
    /\ thread = [s \in Sessions |-> None]
    /\ run = None
    /\ ran = None
    /\ staged = {}
    /\ told = [s \in Sessions |-> "none"]
    /\ opened = {}

-----------------------------------------------------------------------------
(* Invocations.                                                            *)

Begin(s, via, state) ==
    /\ run = None
    /\ run' = [session |-> s, via |-> via, steps |-> 0, state |-> state]
    /\ thread' = [thread EXCEPT ![s] = state]
    /\ told' = [told EXCEPT ![s] = "none"]
    /\ opened' = opened \cup {q \in {s} : via = "chat"}
    /\ UNCHANGED <<ran, staged>>

(* POST /chat: {"messages": ..., "role": role, "pending_confirmation":     *)
(* None}; require_dev let nobody but dev come this far.                    *)
Chat(s) ==
    Begin(s, "chat", [next |-> "router", role |-> "dev",
                      pending_confirmation |-> FALSE, calls |-> {}])

(* /ws: a message only, so the other channels keep what the checkpoint has.*)
WsTurn(s) ==
    LET saved == thread[s]
    IN  Begin(s, "ws",
              [next |-> "router",
               role |-> IF saved = None THEN None ELSE saved.role,
               pending_confirmation |->
                   saved # None /\ saved.pending_confirmation,
               calls |-> {}])

(* POST /confirm: invoke(None).  It raises where there is no checkpoint    *)
(* and does nothing where the graph has ended.                             *)
Confirm(s) ==
    /\ thread[s] # None
    /\ thread[s].next # "END"
    /\ Begin(s, "confirm", thread[s])

(* invoke() returns; only /chat's answer is kept.                          *)
Answer(state) ==
    told' = IF run.via # "chat" THEN told
            ELSE [told EXCEPT ![run.session] =
                     IF state.pending_confirmation THEN "pending_confirmation"
                     ELSE "ok"]

(* Save where the graph is compiled without interrupt_before.              *)
Save_NoInterrupt(state) ==
    /\ thread' = [thread EXCEPT ![run.session] = state]
    /\ \/ /\ state.next = "END"
          /\ run' = None
          /\ Answer(state)
       \/ /\ state.next # "END"
          /\ run' = [run EXCEPT !.steps = @ + 1, !.state = state]
          /\ UNCHANGED told

(* Save that does not count the node.                                      *)
Save_Uncounted(state) ==
    /\ thread' = [thread EXCEPT ![run.session] = state]
    /\ \/ /\ state.next \in {"END", "human_gate"}
          /\ run' = None
          /\ Answer(state)
       \/ /\ state.next \notin {"END", "human_gate"}
          /\ run' = [run EXCEPT !.state = state]
          /\ UNCHANGED told

(* A node is done: the new state is saved, and the invocation goes on      *)
(* unless it reached END or the node it is interrupted before.             *)
Save(state) ==
    /\ thread' = [thread EXCEPT ![run.session] = state]
    /\ \/ /\ state.next \in {"END", "human_gate"}
          /\ run' = None
          /\ Answer(state)
       \/ /\ state.next \notin {"END", "human_gate"}
          /\ run' = [run EXCEPT !.steps = @ + 1, !.state = state]
          /\ UNCHANGED told

(* The bound tested after the node instead of before it.                   *)
At_OffByOne(node) ==
    /\ run # None
    /\ run.state.next = node
    /\ run.steps <= RecursionLimit

(* The node the invocation executes next, while it has steps left.         *)
At(node) ==
    /\ run # None
    /\ run.state.next = node
    /\ run.steps < RecursionLimit

-----------------------------------------------------------------------------
(* Nodes.                                                                  *)

Router ==
    /\ At("router")
    /\ Save([run.state EXCEPT !.next = "agent"])
    /\ UNCHANGED <<ran, staged, opened>>

(* should_continue() that looks at the role only.                          *)
ShouldContinue_AnyRole(role, calls) ==
    IF calls = {} THEN "END"
    ELSE IF GitDiffSuggest \in calls THEN "human_gate"
    ELSE "tools"

(* should_continue() that expects one call per message.                    *)
ShouldContinue_OneCall(role, calls) ==
    IF calls = {} THEN "END"
    ELSE IF role = "dev" /\ calls = {GitDiffSuggest} THEN "human_gate"
    ELSE "tools"

(* should_continue(): the edge that leaves the agent node.                 *)
ShouldContinue(role, calls) ==
    IF calls = {} THEN "END"
    ELSE IF role = "dev" /\ GitDiffSuggest \in calls THEN "human_gate"
    ELSE "tools"

(* agent_node(): the model answers in text or calls tools, any of them: it *)
(* may make up a call of a tool its role was not offered.                  *)
Agent ==
    /\ At("agent")
    /\ \E calls \in SUBSET DevTools :
           Save([run.state EXCEPT
                    !.calls = calls,
                    !.next = ShouldContinue(run.state.role, calls)])
    /\ UNCHANGED <<ran, staged, opened>>

(* The set tools_node() binds.                                             *)
ToolsFor(role) == IF role = "dev" THEN DevTools ELSE UserTools

(* tools_node(): calls of tools that are not bound get an error message;   *)
(* git_diff_suggest() inserts a row in the patch store.                    *)
ToolsNode ==
    /\ At("tools")
    /\ LET st == run.state
       IN  /\ ran' = [role |-> st.role, calls |-> st.calls,
                      executed |-> st.calls \cap ToolsFor(st.role),
                      opened |-> run.session \in opened]
           /\ staged' = staged \cup
                  {s \in {run.session} : GitDiffSuggest \in ran'.executed}
           /\ Save([st EXCEPT !.next = "agent", !.calls = {}])
    /\ UNCHANGED opened

(* human_gate(): sets pending_confirmation.  No message is added.          *)
HumanGate ==
    /\ At("human_gate")
    /\ Save([run.state EXCEPT !.next = "END", !.pending_confirmation = TRUE])
    /\ UNCHANGED <<ran, staged, opened>>

(* GraphRecursionError.  The checkpoint keeps the node that was next.      *)
OutOfSteps ==
    /\ run # None
    /\ run.steps = RecursionLimit
    /\ run' = None
    /\ UNCHANGED <<thread, ran, staged, told, opened>>

(* The model, the database or the process fails under an invocation.       *)
TurnDies ==
    /\ run # None
    /\ run' = None
    /\ UNCHANGED <<thread, ran, staged, told, opened>>

(* SessionKill that deletes by another key than the checkpoint's.          *)
SessionKill_OtherKey(s) ==
    /\ thread[s] # None
    /\ opened' = opened \ {q \in {s} : run = None \/ run.session # q}
    /\ UNCHANGED <<thread, run, ran, staged, told>>

(* tools_ext.session_kill(), from another process: the rows go, an         *)
(* invocation under way saves new ones.                                    *)
SessionKill(s) ==
    /\ thread[s] # None
    /\ thread' = [thread EXCEPT ![s] = None]
    /\ opened' = opened \ {q \in {s} : run = None \/ run.session # q}
    /\ UNCHANGED <<run, ran, staged, told>>

-----------------------------------------------------------------------------
TurnStep == Router \/ Agent \/ ToolsNode \/ HumanGate \/ OutOfSteps

Next ==
    \/ \E s \in Sessions : Chat(s) \/ WsTurn(s) \/ Confirm(s) \/ SessionKill(s)
    \/ TurnStep
    \/ TurnDies

Spec == Init /\ [][Next]_vars

(* An invocation is a loop in one thread; the model and the tools answer   *)
(* or raise, by their timeouts.                                            *)
Fairness == WF_vars(TurnStep)

FairSpec == Spec /\ Fairness

-----------------------------------------------------------------------------
Parked(s) == thread[s] # None /\ thread[s].next = "human_gate"

(* Only a dev's turn whose last message calls git_diff_suggest is ever     *)
(* held for a human, however the role came into the checkpoint.            *)
ParkedOnAProposal ==
    \A s \in Sessions :
        Parked(s) => /\ thread[s].role = "dev"
                     /\ GitDiffSuggest \in thread[s].calls

(* human_gate runs only as the first node of a /confirm, on a thread that  *)
(* is parked on a proposal: no /chat or /ws turn passes the gate, and no   *)
(* /confirm that takes up a turn that died passes it unseen.               *)
GateOpensByConfirm ==
    run # None /\ run.state.next = "human_gate" =>
        run.via = "confirm" /\ run.steps = 0

(* The role of a turn is whatever the checkpoint has, and only /chat asks  *)
(* who is calling.  Still, a tool beyond USER_TOOLS runs, and a thread is  *)
(* held for a human, only in a session that a dev's /chat began, and that  *)
(* was not killed since while nothing of it was running: turns over /ws,   *)
(* turns taken up by /confirm, dead turns and tools that the model made up *)
(* in between do not change that. (graph.py 657)                           *)
DevToolsNeedAChat ==
    /\ ran # None /\ ~(ran.executed \subseteq UserTools) => ran.opened
    /\ \A s \in Sessions : Parked(s) => s \in opened

(* Nothing runs beside a proposal: a dev's message that calls              *)
(* git_diff_suggest and other tools waits as a whole.                      *)
NothingRunsBesideAProposal ==
    ran # None /\ ran.role = "dev" => GitDiffSuggest \notin ran.calls

(* Every turn comes to an end, even if the model calls tools for ever.     *)
TurnsEnd == (run # None) ~> (run = None)

-----------------------------------------------------------------------------
(* main.py, /chat: "If the agent proposes changes, it returns a            *)
(* `pending_confirmation` status." graph.py: "git_diff_suggest stages the  *)
(* proposal into the SQLite patchstore".                                   *)
ProposalsReachTheHuman ==
    \A s \in Sessions :
        Parked(s) /\ run = None => told[s] # "ok" /\ s \in staged
=============================================================================
