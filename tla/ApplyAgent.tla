----------------------------- MODULE ApplyAgent -----------------------------
(***************************************************************************)
(* agent/apply_agent.py: POST /apply.  The route is a plain `def`, so      *)
(* FastAPI runs it on a thread pool: requests are served concurrently, and *)
(* one that its caller gave up on runs to its end.  A job is one accepted  *)
(* request; its uuid makes its branch name fresh, so the job stands for    *)
(* the branch too.  Every git or gh subprocess is a step that may fail.    *)
(***************************************************************************)
EXTENDS Deployment

CONSTANTS Jobs,            \* bound: requests that ever reach the apply-agent
          Invalid          \* proposals _safe_path or the patch test refuses

ASSUME AgentAssumption == Invalid \subseteq Ids /\ None \notin Jobs

VARIABLES mode,            \* AGENT_GIT_APPLY_ENABLED and AGENT_GIT_DRY_RUN
          job,             \* what each request is doing
          worktrees,       \* jobs whose worktree exists
          tmpdirs,         \* jobs whose mkdtemp directory exists
          pushed,          \* jobs whose branch exists on the remote
          prs              \* jobs whose draft PR exists

agentVars == <<mode, job, worktrees, tmpdirs, pushed, prs>>
localVars == <<worktrees, tmpdirs>>
remoteVars == <<pushed, prs>>

(* "disabled": ENABLED is not 1.  "dry_run": enabled, DRY_RUN = 1.         *)
Modes == {"disabled", "dry_run", "live"}

Running == {"received", "adding", "patching", "pushing", "opening", "closing"}
Stages == Running \cup {"unused", "done", "killed"}

Results == {"none", "ok", "dry_run", "error"}

Job == [stage : Stages, owner : Sessions \cup {None}, ids : SUBSET Ids,
        todo : SUBSET Ids, mode : Modes, result : Results]

NoJob == [stage |-> "unused", owner |-> None, ids |-> {}, todo |-> {},
          mode |-> "disabled", result |-> "none"]

AgentTypeOK ==
    /\ mode \in Modes
    /\ job \in [Jobs -> Job]
    /\ worktrees \subseteq Jobs
    /\ tmpdirs \subseteq Jobs
    /\ pushed \subseteq Jobs
    /\ prs \subseteq Jobs

AgentInit ==
    /\ mode \in Modes
    /\ job = [j \in Jobs |-> NoJob]
    /\ worktrees = {} /\ tmpdirs = {}
    /\ pushed = {} /\ prs = {}

Goto(j, stage) == job' = [job EXCEPT ![j].stage = stage]

(* A `return` or an exception inside the try block: the finally clause     *)
(* runs next.                                                              *)
Leave(j, result) ==
    job' = [job EXCEPT ![j].stage = "closing", ![j].result = result]

(* A `return` before the try block.                                        *)
Return(j, result) ==
    job' = [job EXCEPT ![j].stage = "done", ![j].result = result]

(* A request reaches the service.  The environment is read as it starts.   *)
Accept(j, s, ids) ==
    /\ job[j].stage = "unused"
    /\ job' = [job EXCEPT ![j] =
           [stage |-> "received", owner |-> s, ids |-> ids, todo |-> ids,
            mode |-> mode, result |-> "none"]]
    /\ UNCHANGED <<mode, localVars, remoteVars>>

(* Up-front validation of the whole batch, then the fail-closed gate, then *)
(* the test that the repository is a checkout.                             *)
Validate(j) ==
    /\ job[j].stage = "received"
    /\ \/ /\ job[j].ids = {} \/ job[j].ids \cap Invalid # {}
          /\ Return(j, "error")
       \/ /\ job[j].ids # {} /\ job[j].ids \cap Invalid = {}
          /\ \/ job[j].mode = "disabled" /\ Return(j, "dry_run")
             \/ job[j].mode # "disabled" /\ Return(j, "error")  \* no checkout
             \/ job[j].mode # "disabled" /\ Goto(j, "adding")
    /\ UNCHANGED <<mode, localVars, remoteVars>>

(* `git fetch`, then _worktree_add(): mkdtemp and `git worktree add -b`.   *)
(* When the latter fails, `worktree` is still None: finally will not find  *)
(* the directory mkdtemp made.                                             *)
WorktreeAdd(j) ==
    /\ job[j].stage = "adding"
    /\ \/ /\ Goto(j, "patching")
          /\ worktrees' = worktrees \cup {j}
          /\ tmpdirs' = tmpdirs \cup {j}
       \/ /\ Leave(j, "error")
          /\ tmpdirs' \in {tmpdirs, tmpdirs \cup {j}}
          /\ UNCHANGED worktrees
    /\ UNCHANGED <<mode, remoteVars>>

(* The loop over the proposals, in id order: containment test, `git apply  *)
(* --check`, `git apply`.  Failing any of them, or the rev-parse before    *)
(* the loop, abandons the batch.                                           *)
ApplyPatch(j) ==
    /\ job[j].stage = "patching"
    /\ \E i \in job[j].todo :
           /\ \A k \in job[j].todo : i <= k
           /\ \/ job' = [job EXCEPT ![j].todo = @ \ {i}]
              \/ Leave(j, "error")
    /\ UNCHANGED <<mode, localVars, remoteVars>>

(* The code after the loop, testing only AGENT_GIT_APPLY_ENABLED again.    *)
Commit_IgnoresDryRun(j) ==
    /\ job[j].stage = "patching"
    /\ job[j].todo = {}
    /\ Goto(j, "pushing") \/ Leave(j, "error")
    /\ UNCHANGED <<mode, localVars, remoteVars>>

(* After the loop: a dry run stops here, a live one commits.               *)
Commit(j) ==
    /\ job[j].stage = "patching"
    /\ job[j].todo = {}
    /\ \/ job[j].mode = "dry_run" /\ Leave(j, "dry_run")
       \/ job[j].mode = "live" /\ (Goto(j, "pushing") \/ Leave(j, "error"))
    /\ UNCHANGED <<mode, localVars, remoteVars>>

(* `git push`.  A push the client reports as failed may have reached the   *)
(* remote.                                                                 *)
Push(j) ==
    /\ job[j].stage = "pushing"
    /\ \/ Goto(j, "opening") /\ pushed' = pushed \cup {j}
       \/ Leave(j, "error") /\ pushed' \in {pushed, pushed \cup {j}}
    /\ UNCHANGED <<mode, localVars, prs>>

(* OpenPr that reports success whatever gh's exit code was.                *)
OpenPr_IgnoresExitCode(j) ==
    /\ job[j].stage = "opening"
    /\ Leave(j, "ok")
    /\ prs' \in {prs, prs \cup {j}}
    /\ UNCHANGED <<mode, localVars, pushed>>

(* `gh pr create --draft`; as for the push, a failure says nothing of what *)
(* the server did.                                                         *)
OpenPr(j) ==
    /\ job[j].stage = "opening"
    /\ \/ Leave(j, "ok") /\ prs' = prs \cup {j}
       \/ Leave(j, "error") /\ prs' \in {prs, prs \cup {j}}
    /\ UNCHANGED <<mode, localVars, pushed>>

(* _worktree_remove() only where the result is ok.                         *)
Cleanup_OnSuccessOnly(j) ==
    /\ job[j].stage = "closing"
    /\ Goto(j, "done")
    /\ \/ /\ job[j].result = "ok"
          /\ worktrees' = worktrees \ {j} /\ tmpdirs' = tmpdirs \ {j}
       \/ job[j].result # "ok" /\ UNCHANGED <<worktrees, tmpdirs>>
    /\ UNCHANGED <<mode, remoteVars>>

(* finally: _worktree_remove(repo, worktree).  It returns at once when     *)
(* worktree is None.  The branch stays and nothing reads it again, so the  *)
(* model keeps no track of it.  rmtree takes the directory even where      *)
(* `git worktree remove` fails; a directory that cannot be deleted, an     *)
(* error it ignores, is outside the model.                                 *)
Cleanup(j) ==
    /\ job[j].stage = "closing"
    /\ Goto(j, "done")
    /\ \/ /\ j \in worktrees
          /\ worktrees' = worktrees \ {j} /\ tmpdirs' = tmpdirs \ {j}
       \/ j \notin worktrees /\ UNCHANGED <<worktrees, tmpdirs>>
    /\ UNCHANGED <<mode, remoteVars>>

JobStep(j) ==
    \/ Validate(j) \/ WorktreeAdd(j) \/ ApplyPatch(j) \/ Commit(j)
    \/ Push(j) \/ OpenPr(j) \/ Cleanup(j)

(* The service dies and compose restarts it, perhaps with a new            *)
(* environment: no finally clause runs, the files stay.                    *)
RestartAgent ==
    /\ mode' \in Modes
    /\ job' = [j \in Jobs |-> IF job[j].stage \in Running
                                THEN [job[j] EXCEPT !.stage = "killed"]
                                ELSE job[j]]
    /\ UNCHANGED <<localVars, remoteVars>>
=============================================================================
