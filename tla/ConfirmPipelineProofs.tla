------------------------ MODULE ConfirmPipelineProofs ------------------------
(***************************************************************************)
(* Proofs about the path of a proposal, for any sessions, requests,        *)
(* proposals and refused proposals: what every step of agent/apply_agent.py*)
(* preserves, the inductive invariant IInv of the whole path, the          *)
(* invariants that follow from it, and the refinement of                   *)
(* ProposalLifecycle.                                                      *)
(***************************************************************************)
EXTENDS ConfirmPipeline, TLAPS

-----------------------------------------------------------------------------
(* The service of agent/apply_agent.py by itself: what every step of a      *)
(* request, its arrival and a restart preserve.                             *)

(* What ties the stage of a request to the worktrees and to the remote: the*)
(* part about this module of the inductive invariant.                      *)
JobOK(j) ==
    /\ job[j].stage = "unused" => job[j].ids = {}
    /\ job[j].stage # "unused" => job[j].owner \in Sessions
    /\ job[j].stage \in {"unused", "received", "adding"} =>
           j \notin worktrees \cup tmpdirs \cup pushed
    /\ job[j].stage \in {"adding", "patching", "pushing", "opening"} =>
           job[j].ids # {} /\ job[j].ids \cap Invalid = {}
    /\ job[j].stage \in {"pushing", "opening"} =>
           job[j].mode = "live" /\ job[j].todo = {}
    /\ job[j].stage = "opening" => j \in pushed
    /\ job[j].stage \in {"unused", "received", "adding", "patching",
                          "pushing", "opening"} => job[j].result = "none"
    /\ job[j].result = "ok" => j \in prs
    /\ j \in prs => j \in pushed
    /\ j \in pushed => /\ job[j].mode = "live" /\ job[j].todo = {}
                       /\ job[j].ids # {} /\ job[j].ids \cap Invalid = {}
    /\ j \in worktrees => job[j].stage \in Running \cup {"killed"}
    /\ j \in tmpdirs => j \in worktrees \/ job[j].result = "error"

JobInv == \A j \in Jobs : JobOK(j)

(* The three ways a request moves on keep its record well typed.           *)
LEMMA GotoType ==
    ASSUME AgentTypeOK, NEW j \in Jobs, NEW stage \in Stages, Goto(j, stage)
    PROVE  job' \in [Jobs -> Job]
  BY DEF AgentTypeOK, Job, Goto

LEMMA LeaveType ==
    ASSUME AgentTypeOK, NEW j \in Jobs, NEW result \in Results,
           Leave(j, result)
    PROVE  job' \in [Jobs -> Job]
  BY DEF AgentTypeOK, Job, Leave, Stages, Running

LEMMA ReturnType ==
    ASSUME AgentTypeOK, NEW j \in Jobs, NEW result \in Results,
           Return(j, result)
    PROVE  job' \in [Jobs -> Job]
<1>1. "done" \in Stages
  BY DEF Stages
<1> QED
  BY <1>1 DEF AgentTypeOK, Job, Return

(* Every step of /apply keeps the types.                                   *)
LEMMA JobStepType ==
    ASSUME AgentTypeOK, NEW j \in Jobs, JobStep(j)
    PROVE  AgentTypeOK'
<1>1. job' \in [Jobs -> Job]
  <2>1. CASE Validate(j)
    BY <2>1, ReturnType, GotoType DEF Validate, Results, Stages, Running
  <2>2. CASE WorktreeAdd(j)
    BY <2>2, LeaveType, GotoType DEF WorktreeAdd, Results, Stages, Running
  <2>3. CASE ApplyPatch(j)
    <3>1. ASSUME NEW i \in Ids, job' = [job EXCEPT ![j].todo = @ \ {i}]
          PROVE  job' \in [Jobs -> Job]
      BY <3>1 DEF AgentTypeOK, Job
    <3>2. job[j].todo \subseteq Ids
      BY DEF AgentTypeOK, Job
    <3> QED
      BY <2>3, <3>1, <3>2, LeaveType DEF ApplyPatch, Results
  <2>4. CASE Commit(j)
    BY <2>4, LeaveType, GotoType DEF Commit, Results, Stages, Running
  <2>5. CASE Push(j)
    BY <2>5, LeaveType, GotoType DEF Push, Results, Stages, Running
  <2>6. CASE OpenPr(j)
    BY <2>6, LeaveType DEF OpenPr, Results
  <2>7. CASE Cleanup(j)
    BY <2>7, GotoType DEF Cleanup, Stages
  <2> QED
    BY <2>1, <2>2, <2>3, <2>4, <2>5, <2>6, <2>7 DEF JobStep
<1>2. mode' = mode
  BY DEF JobStep, Validate, WorktreeAdd, ApplyPatch, Commit, Push, OpenPr,
         Cleanup
<1>3. /\ worktrees' \subseteq Jobs
      /\ tmpdirs' \subseteq Jobs
      /\ pushed' \subseteq Jobs
      /\ prs' \subseteq Jobs
  BY DEF AgentTypeOK, JobStep, Validate, WorktreeAdd, ApplyPatch, Commit, Push,
         OpenPr, Cleanup, localVars, remoteVars
<1> QED
  BY <1>1, <1>2, <1>3 DEF AgentTypeOK

(* A step of request j keeps every batch, its session, and all of any other*)
(* request.                                                                *)
JobFrame(j) ==
    \A k \in Jobs :
        /\ job'[k].ids = job[k].ids
        /\ job'[k].owner = job[k].owner
        /\ job[k].stage # "unused" => job'[k].stage # "unused"
        /\ k # j => job'[k] = job[k]

(* Every step of /apply works on its own request only.                     *)
LEMMA JobStepFrame ==
    ASSUME AgentTypeOK, NEW j \in Jobs, JobStep(j)
    PROVE  JobFrame(j)
<1>1. job \in [Jobs -> Job]
  BY DEF AgentTypeOK
<1>2. ASSUME NEW stage, stage # "unused", Goto(j, stage)
      PROVE  JobFrame(j)
  BY <1>1, <1>2 DEF Goto, JobFrame, Job
<1>3. ASSUME NEW result, Leave(j, result)
      PROVE  JobFrame(j)
  BY <1>1, <1>3 DEF Leave, JobFrame, Job
<1>4. ASSUME NEW result, Return(j, result)
      PROVE  JobFrame(j)
  BY <1>1, <1>4 DEF Return, JobFrame, Job
<1>5. CASE ApplyPatch(j)
  <2>1. PICK i \in job[j].todo :
            job' = [job EXCEPT ![j].todo = @ \ {i}] \/ Leave(j, "error")
    BY <1>5 DEF ApplyPatch
  <2>2. CASE job' = [job EXCEPT ![j].todo = @ \ {i}]
    BY <1>1, <2>2 DEF JobFrame, Job
  <2> QED
    BY <1>3, <2>1, <2>2
<1>6. CASE Validate(j)
  BY <1>2, <1>4, <1>6 DEF Validate
<1>7. CASE WorktreeAdd(j) \/ Push(j)
  BY <1>2, <1>3, <1>7 DEF WorktreeAdd, Push
<1>8. CASE Commit(j) \/ OpenPr(j)
  BY <1>2, <1>3, <1>8 DEF Commit, OpenPr
<1>9. CASE Cleanup(j)
  BY <1>2, <1>9 DEF Cleanup
<1> QED
  BY <1>5, <1>6, <1>7, <1>8, <1>9 DEF JobStep

(* Every step of /apply adds to the remote and touches the files of its    *)
(* own request only.                                                       *)
LEMMA JobStepRemote ==
    ASSUME NEW j \in Jobs, JobStep(j)
    PROVE  /\ pushed \subseteq pushed'
           /\ prs \subseteq prs'
           /\ \A k \in Jobs \ {j} :
                  /\ (k \in pushed') = (k \in pushed)
                  /\ (k \in prs') = (k \in prs)
                  /\ (k \in worktrees') = (k \in worktrees)
                  /\ (k \in tmpdirs') = (k \in tmpdirs)
  BY DEF JobStep, Validate, WorktreeAdd, ApplyPatch, Commit, Push, OpenPr,
         Cleanup, localVars, remoteVars

(* Every step of /apply keeps the invariant of its own request.            *)
LEMMA JobStepOK ==
    ASSUME AgentTypeOK, NEW j \in Jobs, JobOK(j), JobStep(j)
    PROVE  JobOK(j)'
<1>1. job \in [Jobs -> Job]
  BY DEF AgentTypeOK
<1>2. CASE Validate(j)
  BY <1>1, <1>2 DEF Validate, Return, Goto, JobOK, Job, Running, localVars,
                    remoteVars
<1>3. CASE WorktreeAdd(j)
  BY <1>1, <1>3 DEF WorktreeAdd, Leave, Goto, JobOK, Job, Running, remoteVars
<1>4. CASE ApplyPatch(j)
  BY <1>1, <1>4 DEF ApplyPatch, Leave, JobOK, Job, Running, localVars,
                    remoteVars
<1>5. CASE Commit(j)
  BY <1>1, <1>5 DEF Commit, Leave, Goto, JobOK, Job, Running, localVars,
                    remoteVars
<1>6. CASE Push(j)
  BY <1>1, <1>6 DEF Push, Leave, Goto, JobOK, Job, Running, localVars
<1>7. CASE OpenPr(j)
  BY <1>1, <1>7 DEF OpenPr, Leave, JobOK, Job, Running, localVars
<1>8. CASE Cleanup(j)
  BY <1>1, <1>8 DEF Cleanup, Goto, JobOK, Job, Running, remoteVars
<1> QED
  BY <1>2, <1>3, <1>4, <1>5, <1>6, <1>7, <1>8 DEF JobStep

(* A restart of the service keeps the types.                               *)
LEMMA RestartType ==
    ASSUME AgentTypeOK, RestartAgent
    PROVE  AgentTypeOK'
<1>1. job' \in [Jobs -> Job]
  BY DEF AgentTypeOK, RestartAgent, Job, Stages
<1> QED
  BY <1>1 DEF AgentTypeOK, RestartAgent, localVars, remoteVars

(* What no step of the service takes from the caller of a request: its     *)
(* batch, its session and the PRs there are.                               *)
KeepsBatches ==
    /\ prs \subseteq prs'
    /\ \A k \in Jobs :
           /\ job'[k].ids = job[k].ids
           /\ job'[k].owner = job[k].owner
           /\ job[k].stage # "unused" => job'[k].stage # "unused"

(* A restart of the service kills requests, and forgets none.              *)
LEMMA RestartKeepsBatches ==
    ASSUME AgentTypeOK, RestartAgent
    PROVE  KeepsBatches
  BY DEF AgentTypeOK, RestartAgent, Job, KeepsBatches, remoteVars

(* A restart of the service keeps the invariant of every request.          *)
LEMMA RestartOK ==
    ASSUME AgentTypeOK, JobInv, RestartAgent
    PROVE  JobInv'
<1> SUFFICES ASSUME NEW j \in Jobs
             PROVE  JobOK(j)'
  BY DEF JobInv
<1>1. JobOK(j)
  BY DEF JobInv
<1>2. CASE job[j].stage \in Running
  <2>1. job'[j] = [job[j] EXCEPT !.stage = "killed"]
    BY <1>2 DEF RestartAgent
  <2> QED
    BY <1>1, <1>2, <2>1
       DEF JobOK, RestartAgent, AgentTypeOK, Job, Running, localVars,
           remoteVars
<1>3. CASE job[j].stage \notin Running
  <2>1. job'[j] = job[j]
    BY <1>3 DEF RestartAgent
  <2> QED
    BY <1>1, <2>1 DEF JobOK, RestartAgent, localVars, remoteVars
<1> QED
  BY <1>2, <1>3

(* A request that arrives is well typed.                                   *)
LEMMA AcceptType ==
    ASSUME AgentTypeOK, NEW j \in Jobs, NEW s \in Sessions \cup {None},
           NEW ids \in SUBSET Ids, Accept(j, s, ids)
    PROVE  AgentTypeOK'
<1>1. job' \in [Jobs -> Job]
  BY DEF Accept, AgentTypeOK, Job, Stages, Running, Results
<1> QED
  BY <1>1 DEF Accept, AgentTypeOK, localVars, remoteVars

(* A request that arrives satisfies its invariant, and disturbs no other's.*)
LEMMA AcceptOK ==
    ASSUME AgentTypeOK, JobInv, NEW j \in Jobs, NEW s \in Sessions,
           NEW ids \in SUBSET Ids, Accept(j, s, ids)
    PROVE  JobInv'
<1> SUFFICES ASSUME NEW k \in Jobs
             PROVE  JobOK(k)'
  BY DEF JobInv
<1>1. JobOK(k) /\ JobOK(j)
  BY DEF JobInv
<1>2. CASE k = j
  BY <1>1, <1>2 DEF JobOK, Accept, AgentTypeOK, localVars, remoteVars, Running
<1>3. CASE k # j
  BY <1>1, <1>3 DEF JobOK, Accept, AgentTypeOK, localVars, remoteVars
<1> QED
  BY <1>2, <1>3

(* Every step of /apply keeps the invariant of every request.              *)
LEMMA JobStepInv ==
    ASSUME AgentTypeOK, JobInv, NEW j \in Jobs, JobStep(j)
    PROVE  JobInv'
<1> SUFFICES ASSUME NEW k \in Jobs
             PROVE  JobOK(k)'
  BY DEF JobInv
<1>1. JobOK(k) /\ JobOK(j)
  BY DEF JobInv
<1>2. CASE k = j
  BY <1>1, <1>2, JobStepOK
<1>3. CASE k # j
  BY <1>1, <1>3, JobStepFrame, JobStepRemote DEF JobOK, JobFrame
<1> QED
  BY <1>2, <1>3

-----------------------------------------------------------------------------
(* The whole path.                                                          *)

(* The table of agent/patchstore.py: ids are unique and were handed out by *)
(* the counter, and a row stays under the session it was staged for.       *)
StoreInv ==
    /\ \A r, q \in proposals : r.id = q.id => r = q
    /\ \A r \in proposals : r.id <= lastId /\ stagedBy[r.id] = r.session_id
    /\ \A i \in Ids : i > lastId => stagedBy[i] = None

(* The request the handler posted is the one it waits for.                 *)
Matches ==
    /\ handler.job \in Jobs
    /\ job[handler.job].ids = handler.ids
    /\ job[handler.job].owner = handler.session
    /\ job[handler.job].stage # "unused"

RowIn(i, flag) ==
    [id |-> i, session_id |-> handler.session, applied |-> flag] \in proposals

(* What /confirm may rely on at each line: the batch it read is fresh, an  *)
(* ok came with a PR for that batch, and its answer is about these rows.   *)
HandlerInv ==
    /\ handler.pc # "idle" => handler.session \in Sessions
    /\ handler.pc \in {"idle", "posting", "waiting"} =>
           handler.outcome = "none"
    /\ handler.pc = "waiting" => Matches
    /\ handler.outcome = "ok" => Matches /\ handler.job \in prs
    /\ BatchIsFresh
    /\ handler.pc = "replying" =>
           /\ handler.outcome = "ok" => \A i \in handler.ids : RowIn(i, 1)
           /\ handler.outcome = "unreachable" =>
                  \A i \in handler.ids : RowIn(i, 0)

(* The inductive invariant.  BatchIsFresh needs that ids are unique, the   *)
(* mark needs that an ok belongs to the batch that was posted, and both    *)
(* need that the apply-agent never changes a request it accepted.          *)
IInv ==
    /\ TypeOK
    /\ StoreInv
    /\ JobInv
    /\ HandlerInv
    /\ BatchesStayInSession
    /\ AppliedWasPublished
-----------------------------------------------------------------------------
(* The program starts in the invariant.                                    *)
LEMMA InitOK == Init => IInv
<1> SUFFICES ASSUME Init
             PROVE  IInv
  OBVIOUS
<1> USE DEF Init, StoreInit, AgentInit, Idle
<1>1. TypeOK
  BY StoreAssumption DEF TypeOK, StoreTypeOK, AgentTypeOK, Ids, NoJob, Job,
     Stages, Running, Results, Modes, ThreadStates, Handler, Outcomes
<1>2. StoreInv
  BY DEF StoreInv
<1>3. JobInv
  BY DEF JobInv, JobOK, NoJob
<1>4. HandlerInv
  BY DEF HandlerInv, BatchIsFresh
<1>5. BatchesStayInSession /\ AppliedWasPublished
  BY DEF BatchesStayInSession, AppliedWasPublished, NoJob
<1> QED
  BY <1>1, <1>2, <1>3, <1>4, <1>5 DEF IInv

(* Every step keeps the types; ReceiveResult needs that the handler waits  *)
(* for a request.                                                          *)
LEMMA TypeStep == IInv /\ [Next]_vars => TypeOK'
<1> SUFFICES ASSUME TypeOK, HandlerInv, [Next]_vars
             PROVE  TypeOK'
  BY DEF IInv
<1> USE DEF TypeOK
<1>1. ASSUME NEW s \in Sessions, git_diff_suggest(s)
      PROVE  TypeOK'
  <2>1. lastId + 1 \in Ids /\ lastId' \in 0 .. MaxProposals
    BY <1>1, StoreAssumption DEF git_diff_suggest, AddProposal, StoreTypeOK,
                                 Ids
  <2>2. StoreTypeOK' /\ stagedBy' \in [Ids -> Sessions \cup {None}]
    BY <1>1, <2>1 DEF git_diff_suggest, AddProposal, StoreTypeOK, Row
  <2> QED
    BY <1>1, <2>2 DEF git_diff_suggest, AgentTypeOK, agentVars
<1>2. ASSUME NEW s \in Sessions, Chat(s) \/ session_kill(s)
      PROVE  TypeOK'
  BY <1>2 DEF Chat, session_kill, StoreTypeOK, storeVars, AgentTypeOK,
              agentVars, ThreadStates
<1>3. ASSUME NEW s \in Sessions, Reject(s)
      PROVE  TypeOK'
  BY <1>3 DEF Reject, Clear, StoreTypeOK, AgentTypeOK, agentVars, Idle,
              Handler, Outcomes
<1>4. ASSUME NEW s \in Sessions, ApproveNothing(s)
      PROVE  TypeOK'
  BY <1>4 DEF ApproveNothing, StoreTypeOK, storeVars, AgentTypeOK, agentVars,
              Idle, Handler, Outcomes
<1>5. ASSUME NEW s \in Sessions, Approve(s)
      PROVE  TypeOK'
  <2>1. GetProposals(s) \subseteq Ids
    BY DEF GetProposals, StoreTypeOK, Row
  <2> QED
    BY <1>5, <2>1 DEF Approve, StoreTypeOK, storeVars, AgentTypeOK, agentVars,
                      Idle, Handler, Outcomes
<1>6. CASE PostArrives
  <2>1. PICK j \in Jobs :
            /\ Accept(j, handler.session, handler.ids)
            /\ handler' = [handler EXCEPT !.pc = "waiting", !.job = j]
    BY <1>6 DEF PostArrives
  <2>2. handler' \in Handler
    BY <2>1 DEF Handler
  <2>3. AgentTypeOK'
    BY <2>1, AcceptType DEF Handler
  <2> QED
    BY <1>6, <2>2, <2>3 DEF PostArrives, StoreTypeOK, storeVars
<1>7. CASE PostFails \/ ReceiveResult \/ GiveUp \/ Respond \/ Crash
  <2>1. ASSUME ReceiveResult
        PROVE  handler' \in Handler
    <3>1. job[handler.job].result \in Results
      BY <2>1 DEF ReceiveResult, HandlerInv, Matches, AgentTypeOK, Job
    <3> QED
      BY <2>1, <3>1 DEF ReceiveResult, Handler, Outcomes
  <2>2. ASSUME PostFails \/ GiveUp
        PROVE  handler' \in Handler
    BY <2>2 DEF PostFails, GiveUp, Handler, Outcomes
  <2>3. ASSUME Respond \/ Crash
        PROVE  handler' \in Handler
    BY <2>3 DEF Respond, Crash, Handler, Outcomes, Idle
  <2> QED
    BY <1>7, <2>1, <2>2, <2>3
       DEF PostFails, ReceiveResult, GiveUp, Respond, Crash, StoreTypeOK,
           storeVars, AgentTypeOK, agentVars
<1>8. CASE Resume
  BY <1>8 DEF Resume, Handler, Idle, Outcomes, ThreadStates, StoreTypeOK,
              storeVars, AgentTypeOK, agentVars
<1>9. CASE Mark
  BY <1>9 DEF Mark, MarkApplied, Handler, StoreTypeOK, Row, storeVars,
              AgentTypeOK, agentVars
<1>10. ASSUME NEW j \in Jobs, AgentStep(j)
       PROVE  TypeOK'
  BY <1>10, JobStepType DEF AgentStep, StoreTypeOK, storeVars, pipelineVars
<1>11. CASE Restart
  BY <1>11, RestartType DEF Restart, StoreTypeOK, storeVars, pipelineVars
<1>12. CASE UNCHANGED vars
  BY <1>12 DEF vars, StoreTypeOK, storeVars, AgentTypeOK, agentVars,
               pipelineVars
<1> QED
  BY <1>1, <1>2, <1>3, <1>4, <1>5, <1>6, <1>7, <1>8, <1>9, <1>10, <1>11, <1>12
     DEF Next, HandlerStep

(* add_proposal, clear and mark_applied keep the table in order.           *)
LEMMA StoreStep == IInv /\ [Next]_vars => StoreInv'
<1> SUFFICES ASSUME TypeOK, StoreInv, [Next]_vars
             PROVE  StoreInv'
  BY DEF IInv
<1> USE DEF StoreInv
<1>1. ASSUME NEW s \in Sessions, git_diff_suggest(s)
      PROVE  StoreInv'
  <2>1. /\ lastId \in Nat /\ lastId + 1 \in Ids /\ lastId' = lastId + 1
        /\ \A i \in Ids : i \in Nat
    BY <1>1, StoreAssumption DEF git_diff_suggest, AddProposal, TypeOK,
                                 StoreTypeOK, Ids
  <2>2. stagedBy' = [stagedBy EXCEPT ![lastId + 1] = s]
    BY <1>1, <2>1 DEF git_diff_suggest
  <2>3. proposals' = proposals \cup
            {[id |-> lastId + 1, session_id |-> s, applied |-> 0]}
    BY <1>1 DEF git_diff_suggest, AddProposal
  <2>4. \A r \in proposals : r.id \in Ids /\ r.id \in Nat /\ r.id <= lastId
    BY <2>1 DEF TypeOK, StoreTypeOK, Row
  <2>5. \A r \in proposals : r.id # lastId + 1 /\ r.id <= lastId + 1
    BY <2>1, <2>4
  <2>6. \A r, q \in proposals' : r.id = q.id => r = q
    BY <2>3, <2>5
  <2>7. \A i \in Ids : i # lastId + 1 => stagedBy'[i] = stagedBy[i]
    BY <2>2 DEF TypeOK
  <2>8. stagedBy'[lastId + 1] = s
    BY <2>1, <2>2 DEF TypeOK
  <2>9. ASSUME NEW r \in proposals'
        PROVE  r.id <= lastId' /\ stagedBy'[r.id] = r.session_id
    <3>1. CASE r \in proposals
      BY <2>1, <2>4, <2>5, <2>7, <3>1
    <3>2. CASE r = [id |-> lastId + 1, session_id |-> s, applied |-> 0]
      BY <2>1, <2>8, <3>2
    <3> QED
      BY <2>3, <3>1, <3>2
  <2>10. \A i \in Ids : i > lastId' => stagedBy'[i] = None
    BY <2>1, <2>7
  <2> QED
    BY <2>6, <2>9, <2>10
<1>2. ASSUME NEW s \in Sessions, Reject(s)
      PROVE  StoreInv'
  BY <1>2 DEF Reject, Clear
<1>3. CASE Mark
  <2>1. CASE MarkApplied(handler.session, handler.ids)
    BY <1>3, <2>1 DEF Mark, MarkApplied, TypeOK, StoreTypeOK, Row
  <2> QED
    BY <1>3, <2>1 DEF Mark, storeVars
<1>4. CASE UNCHANGED <<proposals, lastId, stagedBy>>
  BY <1>4
<1>5. ASSUME NEW s \in Sessions,
             Chat(s) \/ session_kill(s) \/ ApproveNothing(s) \/ Approve(s)
      PROVE  UNCHANGED <<proposals, lastId, stagedBy>>
  BY <1>5 DEF Chat, session_kill, ApproveNothing, Approve, storeVars
<1>6. PostArrives \/ PostFails \/ ReceiveResult \/ GiveUp \/ Resume \/ Respond
      \/ Crash \/ Restart \/ (\E j \in Jobs : AgentStep(j)) \/ UNCHANGED vars
          => UNCHANGED <<proposals, lastId, stagedBy>>
  BY DEF PostArrives, PostFails, ReceiveResult, GiveUp, Resume, Respond, Crash,
         Restart, AgentStep, vars, storeVars, pipelineVars
<1> QED
  BY <1>1, <1>2, <1>3, <1>4, <1>5, <1>6 DEF Next, HandlerStep

(* Every step keeps the invariant of the requests; one that arrives        *)
(* carries a session.                                                      *)
LEMMA JobsStep == IInv /\ [Next]_vars => JobInv'
<1> SUFFICES ASSUME TypeOK, JobInv, HandlerInv, [Next]_vars
             PROVE  JobInv'
  BY DEF IInv
<1>1. CASE PostArrives
  <2>1. PICK j \in Jobs : Accept(j, handler.session, handler.ids)
    BY <1>1 DEF PostArrives
  <2>2. handler.session \in Sessions /\ handler.ids \subseteq Ids
    BY <1>1 DEF PostArrives, HandlerInv, TypeOK, Handler
  <2> QED
    BY <2>1, <2>2, AcceptOK DEF TypeOK
<1>2. ASSUME NEW j \in Jobs, AgentStep(j)
      PROVE  JobInv'
  BY <1>2, JobStepInv DEF AgentStep, TypeOK
<1>3. CASE Restart
  BY <1>3, RestartOK DEF Restart, TypeOK
<1>4. CASE UNCHANGED agentVars
  BY <1>4 DEF agentVars, JobInv, JobOK
<1>5. ASSUME NEW s \in Sessions,
             \/ git_diff_suggest(s) \/ Chat(s) \/ session_kill(s)
             \/ Reject(s) \/ ApproveNothing(s) \/ Approve(s)
      PROVE  UNCHANGED agentVars
  BY <1>5 DEF git_diff_suggest, Chat, session_kill, Reject, ApproveNothing,
              Approve
<1>6. PostFails \/ ReceiveResult \/ GiveUp \/ Resume \/ Mark \/ Respond
      \/ Crash \/ UNCHANGED vars => UNCHANGED agentVars
  BY DEF PostFails, ReceiveResult, GiveUp, Resume, Mark, Respond, Crash, vars,
         agentVars
<1> QED
  BY <1>1, <1>2, <1>3, <1>4, <1>5, <1>6 DEF Next, HandlerStep

(* No step of the apply-agent's process disturbs what the handler waits    *)
(* for.                                                                    *)
LEMMA AgentKeepsBatches ==
    ASSUME TypeOK, (\E j \in Jobs : AgentStep(j)) \/ Restart
    PROVE  KeepsBatches
<1>1. ASSUME NEW j \in Jobs, AgentStep(j)
      PROVE  KeepsBatches
  BY <1>1, JobStepFrame, JobStepRemote
     DEF AgentStep, TypeOK, JobFrame, KeepsBatches
<1>2. CASE Restart
  BY <1>2, RestartKeepsBatches
     DEF Restart, TypeOK
<1> QED
  BY <1>1, <1>2

(* Every step keeps what /confirm relies on, at whichever line it is.      *)
LEMMA HandlerInvStep == IInv /\ [Next]_vars => HandlerInv'
<1> SUFFICES ASSUME TypeOK, StoreInv, JobInv, HandlerInv, [Next]_vars
             PROVE  HandlerInv'
  BY DEF IInv
<1>1. ASSUME NEW s \in Sessions, git_diff_suggest(s)
      PROVE  HandlerInv'
  <2>1. proposals \subseteq proposals'
    BY <1>1 DEF git_diff_suggest, AddProposal
  <2> QED
    BY <1>1, <2>1 DEF git_diff_suggest, HandlerInv, BatchIsFresh, RowIn,
                      Matches, agentVars
<1>2. ASSUME NEW s \in Sessions, Chat(s) \/ session_kill(s)
      PROVE  HandlerInv'
  BY <1>2 DEF Chat, session_kill, HandlerInv, BatchIsFresh, RowIn, Matches,
              agentVars, storeVars
<1>3. ASSUME NEW s \in Sessions, Reject(s) \/ ApproveNothing(s)
      PROVE  HandlerInv'
  BY <1>3 DEF Reject, ApproveNothing, HandlerInv, BatchIsFresh, Idle
<1>4. ASSUME NEW s \in Sessions, Approve(s)
      PROVE  HandlerInv'
  <2>1. \A i \in GetProposals(s) :
            [id |-> i, session_id |-> s, applied |-> 0] \in proposals
    BY DEF GetProposals, TypeOK, StoreTypeOK, Row
  <2> QED
    BY <1>4, <2>1 DEF Approve, HandlerInv, BatchIsFresh, Idle, storeVars
<1>5. CASE PostArrives
  <2>1. PICK j \in Jobs :
            /\ Accept(j, handler.session, handler.ids)
            /\ handler' = [handler EXCEPT !.pc = "waiting", !.job = j]
    BY <1>5 DEF PostArrives
  <2>2. /\ job'[j].ids = handler.ids
        /\ job'[j].owner = handler.session
        /\ job'[j].stage = "received"
    BY <2>1 DEF Accept, TypeOK, AgentTypeOK
  <2>3. /\ handler'.pc = "waiting" /\ handler'.job = j
        /\ handler'.session = handler.session /\ handler'.ids = handler.ids
        /\ handler'.outcome = handler.outcome
    BY <2>1 DEF TypeOK, Handler
  <2>4. /\ handler.pc = "posting" /\ handler.outcome = "none"
        /\ proposals' = proposals
    BY <1>5 DEF PostArrives, HandlerInv, storeVars
  <2> QED
    BY <2>2, <2>3, <2>4 DEF HandlerInv, BatchIsFresh, Matches
<1>6. CASE PostFails \/ GiveUp
  BY <1>6 DEF PostFails, GiveUp, HandlerInv, BatchIsFresh, TypeOK, Handler,
              storeVars
<1>7. CASE ReceiveResult
  <2>1. /\ Matches
        /\ job[handler.job].result = "ok" => handler.job \in prs
    BY <1>7 DEF ReceiveResult, HandlerInv, Matches, JobInv, JobOK
  <2> QED
    BY <1>7, <2>1 DEF ReceiveResult, HandlerInv, BatchIsFresh, Matches, TypeOK,
                      Handler, storeVars, agentVars
<1>8. CASE Resume
  BY <1>8 DEF Resume, HandlerInv, BatchIsFresh, Matches, TypeOK, Handler, Idle,
              storeVars, agentVars
<1>9. CASE Mark
  <2>1. /\ handler'.pc = "replying" /\ handler'.ids = handler.ids
        /\ handler'.session = handler.session /\ handler'.job = handler.job
        /\ handler'.outcome = handler.outcome
    BY <1>9 DEF Mark, TypeOK, Handler
  <2>2. \A i \in handler.ids : RowIn(i, 0)
    BY <1>9 DEF Mark, HandlerInv, BatchIsFresh, RowIn
  <2>3. ASSUME handler.outcome = "ok", NEW i \in handler.ids
        PROVE  RowIn(i, 1)'
    <3> DEFINE r == [id |-> i, session_id |-> handler.session, applied |-> 0]
    <3>1. r \in proposals
      BY <2>2 DEF RowIn
    <3>2. [r EXCEPT !.applied = 1] \in proposals'
      BY <1>9, <2>3, <3>1 DEF Mark, MarkApplied
    <3>3. [r EXCEPT !.applied = 1] =
              [id |-> i, session_id |-> handler.session, applied |-> 1]
      OBVIOUS
    <3> QED
      BY <2>1, <3>2, <3>3 DEF RowIn
  <2>4. handler.outcome = "unreachable" => proposals' = proposals
    BY <1>9 DEF Mark, storeVars
  <2>5. Matches' = Matches /\ prs' = prs
    BY <1>9, <2>1 DEF Mark, Matches, agentVars
  <2> QED
    BY <1>9, <2>1, <2>2, <2>3, <2>4, <2>5
       DEF Mark, HandlerInv, BatchIsFresh, RowIn
<1>10. CASE Respond \/ Crash
  BY <1>10 DEF Respond, Crash, HandlerInv, BatchIsFresh, Idle
<1>11. CASE (\E j \in Jobs : AgentStep(j)) \/ Restart
  <2>1. KeepsBatches
    BY <1>11, AgentKeepsBatches
  <2>2. UNCHANGED <<storeVars, handler>>
    BY <1>11 DEF AgentStep, Restart, pipelineVars
  <2> QED
    BY <2>1, <2>2 DEF KeepsBatches, HandlerInv, BatchIsFresh, RowIn, Matches,
                      storeVars
<1>12. CASE UNCHANGED vars
  BY <1>12 DEF vars, HandlerInv, BatchIsFresh, RowIn, Matches, storeVars,
               agentVars, pipelineVars
<1> QED
  BY <1>1, <1>2, <1>3, <1>4, <1>5, <1>6, <1>7, <1>8, <1>9, <1>10, <1>11, <1>12
     DEF Next, HandlerStep

(* A batch stays one of its session: new ids are not in any batch yet.     *)
LEMMA BatchesStep == IInv /\ [Next]_vars => BatchesStayInSession'
<1> SUFFICES ASSUME IInv, [Next]_vars
             PROVE  BatchesStayInSession'
  OBVIOUS
<1> USE DEF IInv
<1>1. ASSUME NEW s \in Sessions, git_diff_suggest(s)
      PROVE  BatchesStayInSession'
  <2> SUFFICES ASSUME NEW j \in Jobs, NEW i \in job[j].ids
               PROVE  stagedBy'[i] = job[j].owner
    BY <1>1 DEF git_diff_suggest, agentVars, BatchesStayInSession
  <2>1. /\ i \in Ids /\ stagedBy[i] = job[j].owner
        /\ job[j].owner \in Sessions
    BY DEF TypeOK, AgentTypeOK, Job, BatchesStayInSession, JobInv, JobOK
  <2>2. /\ lastId \in Nat /\ lastId + 1 \in Ids /\ lastId + 1 > lastId
        /\ stagedBy' = [stagedBy EXCEPT ![lastId + 1] = s]
    BY <1>1, StoreAssumption DEF git_diff_suggest, AddProposal, TypeOK,
                                 StoreTypeOK, Ids
  <2>3. stagedBy[lastId + 1] = None
    BY <2>2 DEF StoreInv
  <2>4. i # lastId + 1
    BY <2>1, <2>3, SessionAssumption
  <2> QED
    BY <2>1, <2>2, <2>4 DEF TypeOK
<1>2. CASE PostArrives
  <2> SUFFICES ASSUME NEW j \in Jobs, NEW i \in job'[j].ids
               PROVE  stagedBy[i] = job'[j].owner
    BY <1>2 DEF PostArrives, BatchesStayInSession
  <2>1. PICK k \in Jobs : Accept(k, handler.session, handler.ids)
    BY <1>2 DEF PostArrives
  <2>2. CASE j = k
    <3>1. job'[j].ids = handler.ids /\ job'[j].owner = handler.session
      BY <2>1, <2>2 DEF Accept, TypeOK, AgentTypeOK
    <3>2. [id |-> i, session_id |-> handler.session, applied |-> 0]
              \in proposals
      BY <1>2, <3>1 DEF PostArrives, HandlerInv, BatchIsFresh
    <3> QED
      BY <3>1, <3>2 DEF StoreInv
  <2>3. CASE j # k
    <3>1. job'[j] = job[j]
      BY <2>1, <2>3 DEF Accept, TypeOK, AgentTypeOK
    <3> QED
      BY <3>1 DEF BatchesStayInSession
  <2> QED
    BY <2>2, <2>3
<1>3. CASE (\E j \in Jobs : AgentStep(j)) \/ Restart
  BY <1>3, AgentKeepsBatches
     DEF AgentStep, Restart, pipelineVars, KeepsBatches, BatchesStayInSession
<1>4. CASE UNCHANGED <<job, stagedBy>>
  BY <1>4 DEF BatchesStayInSession
<1>5. ASSUME NEW s \in Sessions,
             \/ Chat(s) \/ session_kill(s)
             \/ Reject(s) \/ ApproveNothing(s) \/ Approve(s)
      PROVE  UNCHANGED <<job, stagedBy>>
  BY <1>5 DEF Chat, session_kill, Reject, ApproveNothing, Approve, agentVars
<1>6. PostFails \/ ReceiveResult \/ GiveUp \/ Resume \/ Mark \/ Respond
      \/ Crash \/ UNCHANGED vars => UNCHANGED <<job, stagedBy>>
  BY DEF PostFails, ReceiveResult, GiveUp, Resume, Mark, Respond, Crash, vars,
         agentVars, pipelineVars
<1> QED
  BY <1>1, <1>2, <1>3, <1>4, <1>5, <1>6 DEF Next, HandlerStep

(* Rows are marked with a PR at hand, and PRs stay.                        *)
LEMMA PublishedStep == IInv /\ [Next]_vars => AppliedWasPublished'
<1> SUFFICES ASSUME IInv, [Next]_vars
             PROVE  AppliedWasPublished'
  OBVIOUS
<1> USE DEF IInv
<1>1. ASSUME NEW s \in Sessions, git_diff_suggest(s) \/ Reject(s)
      PROVE  AppliedWasPublished'
  BY <1>1 DEF git_diff_suggest, AddProposal, Reject, Clear, agentVars,
              AppliedWasPublished
<1>2. CASE PostArrives
  <2>1. PICK k \in Jobs : Accept(k, handler.session, handler.ids)
    BY <1>2 DEF PostArrives
  <2>2. k \notin prs
    BY <2>1 DEF Accept, JobInv, JobOK
  <2>3. \A j \in Jobs \ {k} : job'[j] = job[j]
    BY <2>1 DEF Accept, TypeOK, AgentTypeOK
  <2>4. proposals' = proposals /\ prs' = prs /\ prs \subseteq Jobs
    BY <1>2, <2>1 DEF PostArrives, Accept, storeVars, remoteVars, TypeOK,
                      AgentTypeOK
  <2> QED
    BY <2>2, <2>3, <2>4 DEF AppliedWasPublished
<1>3. CASE Mark
  <2>1. CASE handler.outcome = "ok"
    <3>1. /\ handler.job \in prs
          /\ job[handler.job].ids = handler.ids
          /\ job[handler.job].owner = handler.session
      BY <2>1 DEF HandlerInv, Matches
    <3>2. job' = job /\ prs' = prs
      BY <1>3 DEF Mark, agentVars
    <3>3. \A r \in proposals' :
              \/ r \in proposals
              \/ r.id \in handler.ids /\ r.session_id = handler.session
      BY <1>3, <2>1 DEF Mark, MarkApplied, TypeOK, StoreTypeOK, Row
    <3> QED
      BY <3>1, <3>2, <3>3 DEF AppliedWasPublished
  <2> QED
    BY <1>3, <2>1 DEF Mark, storeVars, agentVars, AppliedWasPublished
<1>4. CASE (\E j \in Jobs : AgentStep(j)) \/ Restart
  <2>1. KeepsBatches /\ proposals' = proposals
    BY <1>4, AgentKeepsBatches DEF AgentStep, Restart, storeVars
  <2> QED
    BY <2>1 DEF KeepsBatches, AppliedWasPublished, TypeOK, AgentTypeOK
<1>5. CASE UNCHANGED <<proposals, job, prs>>
  BY <1>5 DEF AppliedWasPublished
<1>6. ASSUME NEW s \in Sessions,
             Chat(s) \/ session_kill(s) \/ ApproveNothing(s) \/ Approve(s)
      PROVE  UNCHANGED <<proposals, job, prs>>
  BY <1>6 DEF Chat, session_kill, ApproveNothing, Approve, agentVars, storeVars
<1>7. PostFails \/ ReceiveResult \/ GiveUp \/ Resume \/ Respond
      \/ Crash \/ UNCHANGED vars => UNCHANGED <<proposals, job, prs>>
  BY DEF PostFails, ReceiveResult, GiveUp, Resume, Respond, Crash, vars,
         agentVars, storeVars
<1> QED
  BY <1>1, <1>2, <1>3, <1>4, <1>5, <1>6, <1>7 DEF Next, HandlerStep

(* The inductive invariant holds in every reachable state of /confirm, the *)
(* patch store and the apply-agent.                                        *)
THEOREM Inductive == Spec => []IInv
<1>1. IInv /\ [Next]_vars => IInv'
  BY TypeStep, StoreStep, JobsStep, HandlerInvStep, BatchesStep, PublishedStep
     DEF IInv
<1> QED
  BY <1>1, InitOK, PTL DEF Spec

(* Every variable has its type, whatever crashes or times out.             *)
THEOREM TypeCorrect == Spec => []TypeOK
<1>1. IInv => TypeOK
  BY DEF IInv
<1> QED
  BY <1>1, Inductive, PTL

(* From get_proposals to mark_applied the rows of the batch of /confirm    *)
(* are there, unapplied and of its session.                                *)
THEOREM FreshBatches == Spec => []BatchIsFresh
<1>1. IInv => BatchIsFresh
  BY DEF IInv, HandlerInv
<1> QED
  BY <1>1, Inductive, PTL

(* A row that mark_applied marked is in a draft PR of its own session.     *)
THEOREM AppliedArePublished == Spec => []AppliedWasPublished
<1>1. IInv => AppliedWasPublished
  BY DEF IInv
<1> QED
  BY <1>1, Inductive, PTL

(* A request of /confirm to the apply-agent never mixes sessions.          *)
THEOREM SessionsStayApart == Spec => []BatchesStayInSession
<1>1. IInv => BatchesStayInSession
  BY DEF IInv
<1> QED
  BY <1>1, Inductive, PTL

(* An answer "ok" or "error" of /confirm is true of the store and the      *)
(* remote.                                                                 *)
THEOREM RepliesAreTrue == Spec => []ReplyMatchesStore
<1>1. IInv => ReplyMatchesStore
  BY DEF IInv, HandlerInv, ReplyMatchesStore, RowIn, Matches, Response
<1> QED
  BY <1>1, Inductive, PTL

(* What /apply pushed or opened comes from a whole, valid batch, with the  *)
(* gate open and no dry run.                                               *)
THEOREM FailClosed == Spec => []OnlyWholeLiveBatchesLeave
<1>1. IInv => OnlyWholeLiveBatchesLeave
  BY DEF IInv, TypeOK, AgentTypeOK, JobInv, JobOK, OnlyWholeLiveBatchesLeave
<1> QED
  BY <1>1, Inductive, PTL

(* An answered /apply left no worktree behind.                             *)
THEOREM WorktreesReleased == Spec => []WorktreesAreReleased
<1>1. IInv => WorktreesAreReleased
  BY DEF IInv, TypeOK, AgentTypeOK, JobInv, JobOK, WorktreesAreReleased
<1> QED
  BY <1>1, Inductive, PTL

-----------------------------------------------------------------------------
(* The initial states of the code are initial states of the promise.       *)
LEMMA MapInit == Init => Lifecycle!Init
<1> SUFFICES ASSUME Init
             PROVE  Lifecycle!Init
  OBVIOUS
<1>1. lifeOf = [i \in Ids |-> "unborn"]
  BY DEF Init, StoreInit, lifeOf, Ids
<1>2. stagedBy = [i \in Ids |-> None]
  BY DEF Init
<1>3. published = {}
  BY DEF Init, AgentInit, published
<1> QED
  BY <1>1, <1>2, <1>3 DEF Lifecycle!Init

(* The published proposals change with the PRs only.                       *)
LEMMA PublishedFrame ==
    ASSUME IInv, prs' = prs, \A k \in prs : job'[k].ids = job[k].ids
    PROVE  published' = published
  BY DEF published

(* Every step of the code is a step of ProposalLifecycle or changes        *)
(* nothing it sees: git_diff_suggest stages, a reject discards, the mark   *)
(* applies, and gh pr create publishes.                                    *)
LEMMA MapStep ==
    IInv /\ [Next]_vars => [Lifecycle!Next]_(<<lifeOf, stagedBy, published>>)
<1> SUFFICES ASSUME IInv, [Next]_vars
             PROVE  Lifecycle!Next \/ UNCHANGED <<lifeOf, stagedBy, published>>
  BY DEF Lifecycle!lifecycleVars
<1> USE DEF IInv
<1>1. ASSUME NEW s \in Sessions, git_diff_suggest(s)
      PROVE  Lifecycle!Next
  <2> DEFINE n == lastId + 1
  <2>1. /\ lastId \in Nat /\ n \in Ids /\ lastId' = n
        /\ \A i \in Ids : i \in Nat
        /\ proposals' = proposals \cup
               {[id |-> n, session_id |-> s, applied |-> 0]}
        /\ stagedBy' = [stagedBy EXCEPT ![n] = s]
    BY <1>1, StoreAssumption DEF git_diff_suggest, AddProposal, TypeOK,
                                 StoreTypeOK, Ids
  <2>2. published' = published
    BY <1>1 DEF git_diff_suggest, agentVars, published
  <2>3. \A r \in proposals : r.id # n
    BY <2>1 DEF TypeOK, StoreTypeOK, Row, StoreInv
  <2>4. lifeOf[n] = "unborn"
    BY <2>1 DEF lifeOf
  <2>5. ASSUME NEW i \in Ids
        PROVE  lifeOf'[i] = IF i = n THEN "staged" ELSE lifeOf[i]
    <3>1. CASE i = n
      <4> DEFINE new == [id |-> n, session_id |-> s, applied |-> 0]
      <4>0. new \in proposals' /\ new.id = n
        BY <2>1
      <4>1. \E r \in proposals' : r.id = n
        BY <4>0
      <4>2. ~ \E r \in proposals' : r.id = n /\ r.applied = 1
        BY <2>1, <2>3
      <4>3. ~(n > lastId')
        BY <2>1
      <4> QED
        BY <3>1, <4>1, <4>2, <4>3 DEF lifeOf
    <3>2. CASE i # n
      <4>1. /\ (\E r \in proposals' : r.id = i) <=>
                   \E r \in proposals : r.id = i
            /\ (\E r \in proposals' : r.id = i /\ r.applied = 1) <=>
                   \E r \in proposals : r.id = i /\ r.applied = 1
        BY <2>1, <3>2
      <4>2. i > lastId' <=> i > lastId
        BY <2>1, <3>2
      <4> QED
        BY <3>2, <4>1, <4>2 DEF lifeOf
    <3> QED
      BY <3>1, <3>2
  <2>6. lifeOf' = [lifeOf EXCEPT ![n] = "staged"]
    BY <2>5 DEF lifeOf
  <2>7. Lifecycle!Stage(n, s)
    BY <2>1, <2>2, <2>4, <2>6 DEF Lifecycle!Stage
  <2> QED
    BY <2>1, <2>7 DEF Lifecycle!Next
<1>2. ASSUME NEW s \in Sessions, Reject(s)
      PROVE  Lifecycle!Next
  <2>1. /\ proposals' = {r \in proposals : r.session_id # s}
        /\ lastId' = lastId /\ stagedBy' = stagedBy
        /\ published' = published
    BY <1>2 DEF Reject, Clear, agentVars, published
  <2>2. ASSUME NEW i \in Ids
        PROVE  lifeOf'[i] = IF stagedBy[i] = s THEN "discarded" ELSE lifeOf[i]
    <3>1. \A r \in proposals : r.id = i => r.session_id = stagedBy[i]
      BY DEF StoreInv
    <3>2. stagedBy[i] = s => ~(i > lastId)
      BY SessionAssumption DEF StoreInv
    <3> QED
      BY <2>1, <3>1, <3>2 DEF lifeOf
  <2>3. lifeOf' = [i \in Ids |->
                      IF stagedBy[i] = s THEN "discarded" ELSE lifeOf[i]]
    BY <2>2 DEF lifeOf
  <2>4. Lifecycle!DiscardAll(s)
    BY <2>1, <2>3 DEF Lifecycle!DiscardAll
  <2> QED
    BY <2>4 DEF Lifecycle!Next
<1>3. CASE Mark
  <2>1. published' = published /\ stagedBy' = stagedBy /\ lastId' = lastId
    BY <1>3 DEF Mark, MarkApplied, storeVars, agentVars, published
  <2>2. CASE handler.outcome # "ok"
    BY <1>3, <2>1, <2>2 DEF Mark, storeVars, lifeOf
  <2>3. CASE handler.outcome = "ok"
    <3> DEFINE batch == handler.ids
               s == handler.session
    <3>1. /\ proposals' = {IF r.session_id = s /\ r.id \in batch
                              THEN [r EXCEPT !.applied = 1] ELSE r :
                           r \in proposals}
          /\ \A i \in batch :
                 [id |-> i, session_id |-> s, applied |-> 0] \in proposals
          /\ s \in Sessions /\ batch \subseteq Ids
      BY <1>3, <2>3 DEF Mark, MarkApplied, HandlerInv, BatchIsFresh, TypeOK,
                        Handler
    <3>2. batch \subseteq published
      BY <2>3 DEF HandlerInv, Matches, published
    <3>3. \A i \in batch : lifeOf[i] = "staged" /\ stagedBy[i] = s
      <4> SUFFICES ASSUME NEW i \in batch
                   PROVE  lifeOf[i] = "staged" /\ stagedBy[i] = s
        OBVIOUS
      <4> DEFINE r == [id |-> i, session_id |-> s, applied |-> 0]
      <4>1. r \in proposals /\ i \in Ids
        BY <3>1
      <4>2. /\ stagedBy[i] = s /\ i <= lastId
            /\ \A q \in proposals : q.id = i => q = r
        BY <4>1 DEF StoreInv
      <4>3. ~(i > lastId)
        BY <4>1, <4>2, StoreAssumption DEF TypeOK, StoreTypeOK, Ids
      <4>4. ~ \E q \in proposals : q.id = i /\ q.applied = 1
        BY <4>2
      <4> QED
        BY <4>1, <4>2, <4>3, <4>4 DEF lifeOf
    <3>4. ASSUME NEW i \in Ids
          PROVE  lifeOf'[i] = IF i \in batch THEN "applied" ELSE lifeOf[i]
      <4>1. CASE i \in batch
        <5> DEFINE r == [id |-> i, session_id |-> s, applied |-> 0]
        <5>1. r \in proposals
          BY <3>1, <4>1
        <5>2. [r EXCEPT !.applied = 1] \in proposals'
          BY <3>1, <4>1, <5>1
        <5>3. [r EXCEPT !.applied = 1].id = i
              /\ [r EXCEPT !.applied = 1].applied = 1
          OBVIOUS
        <5>4. ~(i > lastId')
          BY <2>1, <3>3, <4>1 DEF lifeOf
        <5> QED
          BY <4>1, <5>2, <5>3, <5>4 DEF lifeOf
      <4>2. CASE i \notin batch
        <5>1. \A r \in proposals : r.id = i => r \in proposals'
          BY <3>1, <4>2
        <5>2. \A r \in proposals' : r.id = i => r \in proposals
          BY <3>1, <4>2 DEF TypeOK, StoreTypeOK, Row
        <5> QED
          BY <2>1, <4>2, <5>1, <5>2 DEF lifeOf
      <4> QED
        BY <4>1, <4>2
    <3>5. lifeOf' = [i \in Ids |->
                        IF i \in batch THEN "applied" ELSE lifeOf[i]]
      BY <3>4 DEF lifeOf
    <3>6. Lifecycle!MarkApplied(batch, s)
      BY <2>1, <3>2, <3>3, <3>5 DEF Lifecycle!MarkApplied
    <3> QED
      BY <3>1, <3>6 DEF Lifecycle!Next
  <2> QED
    BY <2>2, <2>3
<1>4. CASE PostArrives
  <2>1. PICK k \in Jobs : Accept(k, handler.session, handler.ids)
    BY <1>4 DEF PostArrives
  <2>2. k \notin prs
    BY <2>1 DEF Accept, JobInv, JobOK
  <2>3. prs' = prs /\ \A j \in prs : job'[j].ids = job[j].ids
    BY <2>1, <2>2 DEF Accept, remoteVars, TypeOK, AgentTypeOK
  <2>4. published' = published
    BY <2>3, PublishedFrame
  <2>5. lifeOf' = lifeOf /\ stagedBy' = stagedBy
    BY <1>4 DEF PostArrives, storeVars, lifeOf
  <2> QED
    BY <2>4, <2>5
<1>5. CASE (\E j \in Jobs : AgentStep(j)) \/ Restart
  <2>1. KeepsBatches
    BY <1>5, AgentKeepsBatches
  <2>2. lifeOf' = lifeOf /\ stagedBy' = stagedBy
    BY <1>5 DEF AgentStep, Restart, storeVars, pipelineVars, lifeOf
  <2>3. CASE prs' = prs
    <3>1. published' = published
      BY <2>1, <2>3, PublishedFrame DEF KeepsBatches, TypeOK, AgentTypeOK
    <3> QED
      BY <2>2, <3>1
  <2>4. \/ prs' = prs
        \/ \E j \in Jobs : job[j].stage = "opening" /\ prs' = prs \cup {j}
    BY <1>5 DEF AgentStep, JobStep, Validate, WorktreeAdd, ApplyPatch, Commit,
                Push, OpenPr, Cleanup, Restart, RestartAgent, remoteVars
  <2>5. ASSUME NEW j \in Jobs, job[j].stage = "opening", prs' = prs \cup {j}
        PROVE  Lifecycle!Next
    <3>1. published' = published \cup job[j].ids
      BY <2>1, <2>5 DEF KeepsBatches, TypeOK, AgentTypeOK, published
    <3>2. \A i \in job[j].ids : stagedBy[i] = job[j].owner
      BY DEF BatchesStayInSession
    <3>3. Lifecycle!Publish(job[j].ids, job[j].owner)
      BY <2>2, <3>1, <3>2 DEF Lifecycle!Publish
    <3>4. job[j].owner \in Sessions /\ job[j].ids \subseteq Ids
      BY <2>5 DEF JobInv, JobOK, TypeOK, AgentTypeOK, Job
    <3> QED
      BY <3>3, <3>4 DEF Lifecycle!Next
  <2> QED
    BY <2>3, <2>4, <2>5
<1>6. CASE UNCHANGED <<proposals, lastId, job, prs, stagedBy>>
  BY <1>6 DEF lifeOf, published
<1>7. ASSUME NEW s \in Sessions,
             Chat(s) \/ session_kill(s) \/ ApproveNothing(s) \/ Approve(s)
      PROVE  UNCHANGED <<proposals, lastId, job, prs, stagedBy>>
  BY <1>7 DEF Chat, session_kill, ApproveNothing, Approve, agentVars, storeVars
<1>8. PostFails \/ ReceiveResult \/ GiveUp \/ Resume \/ Respond
      \/ Crash \/ UNCHANGED vars
          => UNCHANGED <<proposals, lastId, job, prs, stagedBy>>
  BY DEF PostFails, ReceiveResult, GiveUp, Resume, Respond, Crash, vars,
         agentVars, storeVars, pipelineVars
<1> QED
  BY <1>1, <1>2, <1>3, <1>4, <1>5, <1>6, <1>7, <1>8 DEF Next, HandlerStep

(* The store, /confirm and the apply-agent together implement              *)
(* ProposalLifecycle.                                                      *)
THEOREM Refines == Spec => LifecycleRefinement
<1>1. Init => Lifecycle!Init
  BY MapInit
<1>2. IInv /\ [Next]_vars =>
          [Lifecycle!Next]_(<<lifeOf, stagedBy, published>>)
  BY MapStep
<1> QED
  BY <1>1, <1>2, Inductive, PTL
     DEF Spec, LifecycleRefinement, Lifecycle!Spec, Lifecycle!lifecycleVars
=============================================================================
