-------------------------- MODULE AgentGraphProofs --------------------------
(***************************************************************************)
(* Proofs about agent/graph.py, for any sessions, tools and recursion      *)
(* limit: the gate, the tool sets, and that no turn stages a proposal.     *)
(***************************************************************************)
EXTENDS AgentGraph, TLAPS

(* What should_continue() guarantees of a state saved after it.            *)
WellRouted(st) ==
    /\ st.next = "human_gate" => /\ st.role = "dev"
                                 /\ GitDiffSuggest \in st.calls
    /\ st.next = "tools" /\ st.role = "dev" => GitDiffSuggest \notin st.calls

(* The state an invocation has in memory is routed like the saved one, and *)
(* stands before the gate only when /confirm has just taken it up.         *)
RunInv ==
    run # None => /\ WellRouted(run.state)
                  /\ run.state.next = "human_gate" =>
                         run.via = "confirm" /\ run.steps = 0

(* A dev's role, wherever it is, was given by a dev's /chat, which then    *)
(* opened the session.                                                     *)
DevsOpened ==
    /\ \A s \in Sessions :
         thread[s] # None /\ thread[s].role = "dev" => s \in opened
    /\ run # None /\ run.state.role = "dev" => run.session \in opened

(* No other turn has run more than USER_TOOLS.                             *)
RoleInv ==
    /\ DevsOpened
    /\ ran # None /\ ~(ran.executed \subseteq UserTools) => ran.opened

(* The inductive invariant: a checkpoint outlives the invocation that      *)
(* saved it, so the routing has to be an invariant of the checkpoints.     *)
GraphInv ==
    /\ GraphTypeOK
    /\ \A s \in Sessions : thread[s] # None => WellRouted(thread[s])
    /\ RunInv
    /\ RoleInv
    /\ NothingRunsBesideAProposal
    /\ staged = {}

(* No checkpoint, no invocation.                                           *)
LEMMA GraphInitOK == Init => GraphInv
  BY DEF Init, GraphInv, GraphTypeOK, RunInv, RoleInv, DevsOpened,
         NothingRunsBesideAProposal

(* Starting or taking up an invocation keeps the invariant.                *)
LEMMA BeginStep ==
    ASSUME GraphInv, NEW s \in Sessions, NEW via \in {"chat", "ws", "confirm"},
           NEW st \in AgentState, WellRouted(st), Begin(s, via, st),
           st.next = "human_gate" => via = "confirm",
           st.role = "dev" => via = "chat" \/ s \in opened
    PROVE  GraphInv'
<1>1. run' = [session |-> s, via |-> via, steps |-> 0, state |-> st]
  BY DEF Begin
<1>2. run' \in Run
  BY <1>1, GraphAssumption DEF Run
<1>3. /\ thread' = [thread EXCEPT ![s] = st]
      /\ told' = [told EXCEPT ![s] = "none"]
      /\ ran' = ran /\ staged' = staged
      /\ opened' = opened \cup {q \in {s} : via = "chat"}
  BY DEF Begin
<1>4. GraphTypeOK'
  BY <1>2, <1>3 DEF GraphInv, GraphTypeOK
<1>5. \A q \in Sessions : thread'[q] # None => WellRouted(thread'[q])
  BY <1>3 DEF GraphInv, GraphTypeOK
<1>6. RunInv'
  BY <1>1 DEF RunInv
<1>7. DevsOpened'
  BY <1>1, <1>3 DEF GraphInv, RoleInv, DevsOpened, GraphTypeOK
<1> QED
  BY <1>3, <1>4, <1>5, <1>6, <1>7
     DEF GraphInv, RoleInv, NothingRunsBesideAProposal

(* A node that saves a well routed state keeps the invariant.              *)
LEMMA SaveStep ==
    ASSUME GraphInv, run \in Run, run.steps < RecursionLimit, run # None,
           NEW st \in AgentState, WellRouted(st), Save(st),
           st.role = run.state.role, opened' = opened
    PROVE  /\ thread' \in [Sessions -> AgentState \cup {None}]
           /\ run' \in Run \cup {None}
           /\ told' \in [Sessions -> {"none", "ok", "pending_confirmation"}]
           /\ \A q \in Sessions : thread'[q] # None => WellRouted(thread'[q])
           /\ RunInv' /\ DevsOpened'
<1>1. /\ run.session \in Sessions /\ run.steps \in 0 .. RecursionLimit
      /\ thread' = [thread EXCEPT ![run.session] = st]
  BY DEF Run, Save
<1>2. CASE st.next \in {"END", "human_gate"}
  <2>1. run' = None
    BY <1>2 DEF Save
  <2>2. told' \in [Sessions -> {"none", "ok", "pending_confirmation"}]
    BY <1>1, <1>2 DEF Save, Answer, GraphInv, GraphTypeOK
  <2>3. DevsOpened'
    BY <1>1, <2>1 DEF GraphInv, GraphTypeOK, RoleInv, DevsOpened
  <2> QED
    BY <1>1, <2>1, <2>2, <2>3 DEF GraphInv, GraphTypeOK, RunInv
<1>3. CASE st.next \notin {"END", "human_gate"}
  <2>1. run' = [run EXCEPT !.steps = @ + 1, !.state = st] /\ told' = told
    BY <1>3 DEF Save
  <2>2. run.steps + 1 \in 0 .. RecursionLimit
    BY <1>1, GraphAssumption
  <2>3. run' \in Run /\ run'.state = st
    BY <2>1, <2>2 DEF Run
  <2>4. RunInv'
    BY <1>3, <2>3 DEF RunInv
  <2>5. run'.session = run.session
    BY <2>1 DEF Run
  <2>6. DevsOpened'
    BY <1>1, <2>3, <2>5 DEF GraphInv, GraphTypeOK, RoleInv, DevsOpened
  <2> QED
    BY <1>1, <2>1, <2>3, <2>4, <2>6 DEF GraphInv, GraphTypeOK
<1> QED
  BY <1>2, <1>3

(* Every step of an invocation, and its death, keeps the invariant.        *)
LEMMA GraphStep == GraphInv /\ [Next]_vars => GraphInv'
<1> SUFFICES ASSUME GraphInv, [Next]_vars
             PROVE  GraphInv'
  OBVIOUS
<1>1. ASSUME NEW s \in Sessions, Chat(s)
      PROVE  GraphInv'
  BY <1>1, BeginStep DEF Chat, AgentState, WellRouted
<1>2. ASSUME NEW s \in Sessions, WsTurn(s)
      PROVE  GraphInv'
  <2> DEFINE st == [next |-> "router",
                    role |-> IF thread[s] = None THEN None ELSE thread[s].role,
                    pending_confirmation |->
                        thread[s] # None /\ thread[s].pending_confirmation,
                    calls |-> {}]
  <2>1. st.role \in {"dev", None} /\ st.pending_confirmation \in BOOLEAN
    BY DEF GraphInv, GraphTypeOK, AgentState
  <2>2. st \in AgentState /\ WellRouted(st) /\ st.next # "human_gate"
    BY <2>1 DEF AgentState, WellRouted
  <2>3. Begin(s, "ws", st)
    BY <1>2 DEF WsTurn
  <2>4. st.role = "dev" => s \in opened
    BY GraphAssumption DEF GraphInv, RoleInv, DevsOpened
  <2> HIDE DEF st
  <2> QED
    BY <2>2, <2>3, <2>4, BeginStep
<1>3. ASSUME NEW s \in Sessions, Confirm(s)
      PROVE  GraphInv'
  <2>1. /\ thread[s] \in AgentState /\ WellRouted(thread[s])
        /\ thread[s].role = "dev" => s \in opened
    BY <1>3 DEF Confirm, GraphInv, GraphTypeOK, RoleInv, DevsOpened
  <2> QED
    BY <1>3, <2>1, BeginStep DEF Confirm
<1>4. ASSUME NEW s \in Sessions, SessionKill(s)
      PROVE  GraphInv'
  <2>1. DevsOpened'
    BY <1>4 DEF SessionKill, GraphInv, GraphTypeOK, RoleInv, DevsOpened
  <2> QED
    BY <1>4, <2>1 DEF SessionKill, GraphInv, GraphTypeOK, RunInv, RoleInv,
                      NothingRunsBesideAProposal
<1>5. CASE Router
  <2> DEFINE st == [run.state EXCEPT !.next = "agent"]
  <2>1. run \in Run /\ run.steps < RecursionLimit /\ run # None
    BY <1>5 DEF Router, At, GraphInv, GraphTypeOK
  <2>2. st \in AgentState /\ WellRouted(st) /\ st.role = run.state.role
    BY <2>1 DEF Run, AgentState, WellRouted
  <2>3. Save(st) /\ ran' = ran /\ staged' = staged /\ opened' = opened
    BY <1>5 DEF Router
  <2> HIDE DEF st
  <2> QED
    BY <2>1, <2>2, <2>3, SaveStep
       DEF GraphInv, GraphTypeOK, RoleInv, NothingRunsBesideAProposal
<1>6. CASE Agent
  <2>1. PICK calls \in SUBSET DevTools :
            Save([run.state EXCEPT
                     !.calls = calls,
                     !.next = ShouldContinue(run.state.role, calls)])
    BY <1>6 DEF Agent
  <2> DEFINE st == [run.state EXCEPT
                       !.calls = calls,
                       !.next = ShouldContinue(run.state.role, calls)]
  <2>2. run \in Run /\ run.steps < RecursionLimit /\ run # None
    BY <1>6 DEF Agent, At, GraphInv, GraphTypeOK
  <2>3. st \in AgentState /\ WellRouted(st) /\ st.role = run.state.role
    BY <2>2 DEF Run, AgentState, WellRouted, ShouldContinue
  <2>4. Save(st) /\ ran' = ran /\ staged' = staged /\ opened' = opened
    BY <1>6, <2>1 DEF Agent
  <2> HIDE DEF st
  <2> QED
    BY <2>2, <2>3, <2>4, SaveStep
       DEF GraphInv, GraphTypeOK, RoleInv, NothingRunsBesideAProposal
<1>7. CASE ToolsNode
  <2> DEFINE st == [run.state EXCEPT !.next = "agent", !.calls = {}]
  <2>1. run \in Run /\ run.steps < RecursionLimit /\ run.state.next = "tools"
        /\ run # None
    BY <1>7 DEF ToolsNode, At, GraphInv, GraphTypeOK
  <2>2. st \in AgentState /\ WellRouted(st) /\ st.role = run.state.role
    BY <2>1 DEF Run, AgentState, WellRouted
  <2>3. /\ Save(st)
        /\ ran' = [role |-> run.state.role, calls |-> run.state.calls,
                   executed |-> run.state.calls \cap ToolsFor(run.state.role),
                   opened |-> run.session \in opened]
        /\ opened' = opened
        /\ staged' = staged \cup
               {s \in {run.session} : GitDiffSuggest \in ran'.executed}
    BY <1>7 DEF ToolsNode
  <2>4. ran' \in Batch
    <3>1. (run.session \in opened) \in BOOLEAN
      OBVIOUS
    <3> QED
      BY <2>1, <2>3, <3>1 DEF Run, AgentState, Batch
  <2>5. run.state.role = "dev" => GitDiffSuggest \notin run.state.calls
    BY <2>1 DEF GraphInv, RunInv, WellRouted
  <2>6. GitDiffSuggest \notin ran'.executed
    BY <2>3, <2>5, GraphAssumption DEF ToolsFor
  <2>7. NothingRunsBesideAProposal'
    BY <2>3, <2>5 DEF NothingRunsBesideAProposal
  <2>8. ran' # None /\ ~(ran'.executed \subseteq UserTools) => ran'.opened
    BY <2>1, <2>3 DEF GraphInv, RoleInv, DevsOpened, ToolsFor
  <2> HIDE DEF st
  <2> QED
    BY <2>1, <2>2, <2>3, <2>4, <2>6, <2>7, <2>8, SaveStep DEF GraphInv, GraphTypeOK, RoleInv
<1>8. CASE HumanGate
  <2> DEFINE st == [run.state EXCEPT !.next = "END",
                                     !.pending_confirmation = TRUE]
  <2>1. run \in Run /\ run.steps < RecursionLimit /\ run # None
    BY <1>8 DEF HumanGate, At, GraphInv, GraphTypeOK
  <2>2. st \in AgentState /\ WellRouted(st) /\ st.role = run.state.role
    BY <2>1 DEF Run, AgentState, WellRouted
  <2>3. Save(st) /\ ran' = ran /\ staged' = staged /\ opened' = opened
    BY <1>8 DEF HumanGate
  <2> HIDE DEF st
  <2> QED
    BY <2>1, <2>2, <2>3, SaveStep
       DEF GraphInv, GraphTypeOK, RoleInv, NothingRunsBesideAProposal
<1>9. CASE OutOfSteps \/ TurnDies
  BY <1>9 DEF OutOfSteps, TurnDies, GraphInv, GraphTypeOK, RunInv,
              RoleInv, DevsOpened, NothingRunsBesideAProposal
<1>10. CASE UNCHANGED vars
  BY <1>10 DEF vars, GraphInv, GraphTypeOK, RunInv, RoleInv, DevsOpened,
               NothingRunsBesideAProposal
<1> QED
  BY <1>1, <1>2, <1>3, <1>4, <1>5, <1>6, <1>7, <1>8, <1>9, <1>10
     DEF Next, TurnStep

(* The routing invariant holds of every checkpoint and invocation of the   *)
(* graph.                                                                  *)
THEOREM GraphInductive == Spec => []GraphInv
  BY GraphInitOK, GraphStep, PTL DEF Spec

(* Every variable has its type; no invocation runs more nodes than         *)
(* LangGraph's limit.                                                      *)
THEOREM GraphTypeCorrect == Spec => []GraphTypeOK
<1>1. GraphInv => GraphTypeOK
  BY DEF GraphInv
<1> QED
  BY <1>1, GraphInductive, PTL

(* Only a dev's call of git_diff_suggest ever parks a thread before        *)
(* human_gate.                                                             *)
THEOREM OnlyProposalsPark == Spec => []ParkedOnAProposal
<1>1. GraphInv => ParkedOnAProposal
  BY DEF GraphInv, ParkedOnAProposal, Parked, WellRouted
<1> QED
  BY <1>1, GraphInductive, PTL

(* human_gate runs only as the first node of a /confirm.                   *)
THEOREM GateIsConfirmed == Spec => []GateOpensByConfirm
<1>1. GraphInv => GateOpensByConfirm
  BY DEF GraphInv, RunInv, GateOpensByConfirm
<1> QED
  BY <1>1, GraphInductive, PTL

(* Whatever turns came in between, only a session that a dev's /chat began *)
(* runs tools beyond USER_TOOLS, or is held for a human.                   *)
THEOREM RolesComeFromChats == Spec => []DevToolsNeedAChat
<1>1. GraphInv => DevToolsNeedAChat
  BY DEF GraphInv, RoleInv, DevsOpened, DevToolsNeedAChat, Parked, WellRouted
<1> QED
  BY <1>1, GraphInductive, PTL

(* A message of a dev that calls git_diff_suggest never reaches            *)
(* tools_node().                                                           *)
THEOREM ProposalsWaitWhole == Spec => []NothingRunsBesideAProposal
<1>1. GraphInv => NothingRunsBesideAProposal
  BY DEF GraphInv
<1> QED
  BY <1>1, GraphInductive, PTL

(* No turn of the graph ever runs git_diff_suggest(): the tool is gated,   *)
(* and human_gate leads to END, so turns leave the patch store empty.      *)
(* This is the cause of what the run graph_doc shows.                      *)
THEOREM TurnsStageNothing == Spec => [](staged = {})
<1>1. GraphInv => staged = {}
  BY DEF GraphInv
<1> QED
  BY <1>1, GraphInductive, PTL
=============================================================================
