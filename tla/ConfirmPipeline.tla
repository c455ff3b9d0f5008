--------------------------- MODULE ConfirmPipeline ---------------------------
(***************************************************************************)
(* The path of a proposal from the patch store to a draft PR: POST         *)
(* /confirm of agent/main.py, which composes the store, the apply-agent    *)
(* service and the LangGraph checkpoint of the session.                    *)
(*                                                                         *)
(* /confirm is an `async def` that never awaits and the orchestrator is    *)
(* one uvicorn process: while a handler runs, even while it blocks on the  *)
(* POST to the apply-agent, no other handler does.  Interleaved with its   *)
(* steps are the apply-agent's threads, crashes and restarts of either     *)
(* process, and the command line tool, another process on the same         *)
(* database file.  Requests refused by _rate_ok or verify_token change     *)
(* nothing and are left out.                                               *)
(***************************************************************************)
EXTENDS PatchStore, ApplyAgent

VARIABLES thread,          \* the session's checkpoint
          handler,         \* the /confirm call being served
          stagedBy         \* history: the session each proposal came from

pipelineVars == <<thread, handler, stagedBy>>
vars == <<storeVars, agentVars, pipelineVars>>

(* "absent": no checkpoint.  "ended": the graph reached END.  "parked":    *)
(* interrupted before human_gate.  "stalled": a turn died between two      *)
(* nodes.  AgentGraph models the turns themselves.                         *)
ThreadStates == {"absent", "ended", "parked", "stalled"}

Outcomes == {"none", "rejected", "approved", "unreachable"} \cup Results

Handler == [pc : {"idle", "posting", "waiting", "resuming", "marking",
                  "replying"},
            session : Sessions \cup {None}, ids : SUBSET Ids,
            job : Jobs \cup {None}, outcome : Outcomes]

Idle == [pc |-> "idle", session |-> None, ids |-> {}, job |-> None,
         outcome |-> "none"]

(* The status of the response a finished call builds.  The responses of an *)
(* apply are ConfirmErrorResponse and ConfirmAppliedResponse, whose status *)
(* is Literal["ok"]: building it from any other result raises, a 500.      *)
Response(outcome) ==
    CASE outcome \in {"rejected", "approved", "ok"} -> outcome
      [] outcome = "unreachable" -> "error"
      [] OTHER -> "500"

TypeOK ==
    /\ StoreTypeOK
    /\ AgentTypeOK
    /\ thread \in [Sessions -> ThreadStates]
    /\ handler \in Handler
    /\ stagedBy \in [Ids -> Sessions \cup {None}]

Init ==
    /\ StoreInit
    /\ AgentInit
    /\ thread = [s \in Sessions |-> "absent"]
    /\ handler = Idle
    /\ stagedBy = [i \in Ids |-> None]

-----------------------------------------------------------------------------
(* Outside /confirm.                                                       *)

(* git_diff_suggest(): the body of the tool, which stages one proposal     *)
(* under the thread id of the run.                                         *)
git_diff_suggest(s) ==
    /\ AddProposal(s)
    /\ stagedBy' = [stagedBy EXCEPT ![lastId'] = s]
    /\ UNCHANGED <<agentVars, thread, handler>>

(* POST /chat or /ws: a turn of the graph ends, parks, or dies midway.     *)
Chat(s) ==
    /\ handler.pc = "idle"
    /\ \E t \in {"ended", "parked", "stalled"} :
           thread' = [thread EXCEPT ![s] = t]
    /\ UNCHANGED <<storeVars, agentVars, handler, stagedBy>>

(* session_kill() deletes the checkpoint of the session, and nothing else. *)
session_kill(s) ==
    /\ thread' = [thread EXCEPT ![s] = "absent"]
    /\ UNCHANGED <<storeVars, agentVars, handler, stagedBy>>

-----------------------------------------------------------------------------
(* /confirm, approve = false.                                              *)

Reject(s) ==
    /\ handler.pc = "idle"
    /\ Clear(s)
    /\ handler' = [Idle EXCEPT !.pc = "resuming", !.session = s,
                               !.outcome = "rejected"]
    /\ UNCHANGED <<agentVars, thread, stagedBy>>

(* /confirm, approve = true, nothing staged.                               *)
ApproveNothing(s) ==
    /\ handler.pc = "idle"
    /\ GetProposals(s) = {}
    /\ handler' = [Idle EXCEPT !.pc = "resuming", !.session = s,
                               !.outcome = "approved"]
    /\ UNCHANGED <<storeVars, agentVars, thread, stagedBy>>

(* /confirm, approve = true: the unapplied rows become the batch.          *)
Approve(s) ==
    /\ handler.pc = "idle"
    /\ GetProposals(s) # {}
    /\ handler' = [Idle EXCEPT !.pc = "posting", !.session = s,
                               !.ids = GetProposals(s)]
    /\ UNCHANGED <<storeVars, agentVars, thread, stagedBy>>

(* requests.post() reaches the service ...                                 *)
PostArrives ==
    /\ handler.pc = "posting"
    /\ \E j \in Jobs :
           /\ Accept(j, handler.session, handler.ids)
           /\ handler' = [handler EXCEPT !.pc = "waiting", !.job = j]
    /\ UNCHANGED <<storeVars, thread, stagedBy>>

(* ... or does not: connection refused, or an HTTP error before any work.  *)
PostFails ==
    /\ handler.pc = "posting"
    /\ handler' = [handler EXCEPT !.pc = "resuming", !.outcome = "unreachable"]
    /\ UNCHANGED <<storeVars, agentVars, thread, stagedBy>>

(* The service's answer arrives.                                           *)
ReceiveResult ==
    /\ handler.pc = "waiting"
    /\ job[handler.job].stage = "done"
    /\ handler' = [handler EXCEPT !.pc = "resuming",
                                  !.outcome = job[handler.job].result]
    /\ UNCHANGED <<storeVars, agentVars, thread, stagedBy>>

(* The call without its timeout argument: only the death of the service    *)
(* ends the wait.                                                          *)
GiveUp_NoTimeout ==
    /\ handler.pc = "waiting"
    /\ job[handler.job].stage = "killed"
    /\ handler' = [handler EXCEPT !.pc = "resuming", !.outcome = "unreachable"]
    /\ UNCHANGED <<storeVars, agentVars, thread, stagedBy>>

(* Timeout or ConnectionError: APPLY_AGENT_TIMEOUT_S went by, or the       *)
(* connection broke.  Neither stops the job.                               *)
GiveUp ==
    /\ handler.pc = "waiting"
    /\ handler' = [handler EXCEPT !.pc = "resuming", !.outcome = "unreachable"]
    /\ UNCHANGED <<storeVars, agentVars, thread, stagedBy>>

(* agent_graph.invoke(None).  A parked thread runs human_gate and ends; an *)
(* ended one is left as it is; a stalled one takes its turn up again; no   *)
(* checkpoint, or a turn that dies, raises out of the handler.             *)
Resume ==
    /\ handler.pc = "resuming"
    /\ LET s == handler.session
           Go(t) == /\ thread' = [thread EXCEPT ![s] = t]
                    /\ handler' = [handler EXCEPT !.pc = "marking"]
       IN  \/ thread[s] \in {"parked", "ended"} /\ Go("ended")
           \/ thread[s] = "stalled" /\ (Go("ended") \/ Go("parked"))
           \/ /\ thread[s] \in {"absent", "stalled"}
              /\ handler' = Idle
              /\ UNCHANGED thread
    /\ UNCHANGED <<storeVars, agentVars, stagedBy>>

(* Mark whatever the apply-agent answered.                                 *)
Mark_WhateverStatus ==
    /\ handler.pc = "marking"
    /\ MarkApplied(handler.session, handler.ids)
    /\ handler' = [handler EXCEPT !.pc = "replying"]
    /\ UNCHANGED <<agentVars, thread, stagedBy>>

(* if status == "ok": mark_applied(session, ids).                          *)
Mark ==
    /\ handler.pc = "marking"
    /\ \/ handler.outcome = "ok" /\ MarkApplied(handler.session, handler.ids)
       \/ handler.outcome # "ok" /\ UNCHANGED storeVars
    /\ handler' = [handler EXCEPT !.pc = "replying"]
    /\ UNCHANGED <<agentVars, thread, stagedBy>>

(* return Response(outcome), a 500 included.                               *)
Respond ==
    /\ handler.pc = "replying"
    /\ handler' = Idle
    /\ UNCHANGED <<storeVars, agentVars, thread, stagedBy>>

(* The orchestrator dies and restarts: the database survives, the call and *)
(* its answer are lost.                                                    *)
Crash ==
    /\ handler.pc # "idle"
    /\ handler' = Idle
    /\ UNCHANGED <<storeVars, agentVars, thread, stagedBy>>

-----------------------------------------------------------------------------
HandlerStep ==
    \/ PostArrives \/ PostFails \/ ReceiveResult \/ GiveUp
    \/ Resume \/ Mark \/ Respond

AgentStep(j) ==
    /\ JobStep(j)
    /\ UNCHANGED <<storeVars, pipelineVars>>

Restart ==
    /\ RestartAgent
    /\ UNCHANGED <<storeVars, pipelineVars>>

Next ==
    \/ \E s \in Sessions :
           \/ git_diff_suggest(s) \/ Chat(s) \/ session_kill(s)
           \/ Reject(s) \/ ApproveNothing(s) \/ Approve(s)
    \/ HandlerStep
    \/ \E j \in Jobs : AgentStep(j)
    \/ Restart
    \/ Crash

Spec == Init /\ [][Next]_vars

(* The handler's own steps are straight-line code that the process takes   *)
(* as long as it lives; the wait ends by an answer or by requests' timeout. *)
(* Nothing is assumed of the apply-agent: its subprocesses have no timeout. *)
Fairness == WF_vars(HandlerStep)

FairSpec == Spec /\ Fairness

-----------------------------------------------------------------------------
(* The promise per proposal, and how the state of the code maps to it.     *)

lifeOf == [i \in Ids |->
    IF i > lastId THEN "unborn"
    ELSE IF \E r \in proposals : r.id = i /\ r.applied = 1 THEN "applied"
    ELSE IF \E r \in proposals : r.id = i THEN "staged"
    ELSE "discarded"]

published == UNION {job[j].ids : j \in prs}

Lifecycle == INSTANCE ProposalLifecycle
                 WITH Proposals <- Ids, Owners <- Sessions, NoOwner <- None,
                      life <- lifeOf, owner <- stagedBy,
                      published <- published

(* Store, handler and apply-agent together, through crashes, timeouts and  *)
(* retries, do only what ProposalLifecycle allows: an id is never reused   *)
(* after a reject, a PR never mixes sessions, and mark_applied touches     *)
(* published proposals only.                                               *)
LifecycleRefinement == Lifecycle!Spec

-----------------------------------------------------------------------------
(* Invariants.                                                             *)

(* From get_proposals to mark_applied the handler works on a batch it read *)
(* once: while it does, each row of the batch is still there, unapplied,   *)
(* and of the session being confirmed.                                     *)
BatchIsFresh ==
    handler.pc \in {"posting", "waiting", "resuming", "marking"} =>
        \A i \in handler.ids :
            [id |-> i, session_id |-> handler.session, applied |-> 0]
                \in proposals

(* A row marked applied is in a draft PR opened for its own session, so a  *)
(* failure or a dry run never makes a proposal look delivered.             *)
AppliedWasPublished ==
    \A r \in proposals :
        r.applied = 1 => \E j \in prs : /\ r.id \in job[j].ids
                                        /\ job[j].owner = r.session_id

(* A request to the apply-agent carries proposals of one session only: the *)
(* one in its branch name.                                                 *)
BatchesStayInSession ==
    \A j \in Jobs : \A i \in job[j].ids : stagedBy[i] = job[j].owner

(* What the caller is told is what happened.  "ok": the PR exists, carries *)
(* exactly the confirmed batch, and all of it is marked.  "error": the     *)
(* batch is still staged, so approving again retries it.                   *)
ReplyMatchesStore ==
    LET row(i, flag) == [id |-> i, session_id |-> handler.session,
                         applied |-> flag]
        answered(status) == /\ handler.pc = "replying"
                            /\ Response(handler.outcome) = status
    IN  /\ answered("ok") =>
               /\ handler.job \in prs
               /\ job[handler.job].ids = handler.ids
               /\ \A i \in handler.ids : row(i, 1) \in proposals
        /\ answered("error") => \A i \in handler.ids : row(i, 0) \in proposals

(* Fail-closed and all or nothing: whatever reaches the remote comes from  *)
(* a request that started with the gate open and no dry run, after every   *)
(* patch of its batch applied; no PR without its branch.                   *)
OnlyWholeLiveBatchesLeave ==
    /\ prs \subseteq pushed
    /\ \A j \in pushed : /\ job[j].mode = "live" /\ job[j].todo = {}
                         /\ job[j].ids # {} /\ job[j].ids \cap Invalid = {}

(* Whatever step of /apply fails, an answered request leaves no worktree   *)
(* behind, and a temporary directory only if its answer is an error; apart *)
(* from that only a killed service leaves files.                           *)
WorktreesAreReleased ==
    /\ \A j \in worktrees : job[j].stage \in Running \cup {"killed"}
    /\ \A j \in tmpdirs : \/ job[j].stage \in Running \cup {"killed"}
                          \/ job[j].result = "error"

(* Every /confirm call is answered or lost in a crash, even if git or gh   *)
(* in the apply-agent never returns.                                       *)
ConfirmReturns == (handler.pc # "idle") ~> (handler.pc = "idle")

-----------------------------------------------------------------------------
(* What docs and comments say of the path, and the code does not do.       *)

(* patchstore.py, get_proposals: "Return un-applied proposals".            *)
BatchIsUnapplied == handler.pc = "posting" => handler.ids \cap published = {}

(* main.py, /confirm: "Reject: Discards the proposal without making any    *)
(* changes", and its answer "Proposal discarded (not applied)."            *)
DiscardedStaysUnpublished ==
    [][Discarded \cap published' \subseteq published]_vars

(* README: until the gate is open "/confirm returns a dry_run report".     *)
DryRunIsReported ==
    handler.pc = "replying" /\ handler.outcome = "dry_run" =>
        Response(handler.outcome) = "dry_run"
=============================================================================
