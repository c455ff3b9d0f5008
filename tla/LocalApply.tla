----------------------------- MODULE LocalApply -----------------------------
(* apply_and_open_pr of agent/apply.py, the apply that runs in the caller's *)
(* own process on the repository AGENT_GIT_REPO: every call in a worktree   *)
(* and on a branch of its own, with git and gh as commands that may fail.   *)
EXTENDS Naturals, Absent

CONSTANTS
    Applies,            \* calls
    OpenFor             \* those of processes with AGENT_GIT_APPLY_ENABLED=1

ASSUME LocalApplyAssumption == OpenFor \subseteq Applies

VARIABLES
    applies,        \* per call, how far it is and what it answers
    traces          \* per call, what there is of it in the repository and the remote

localApplyVars == <<applies, traces>>

LocalApplyInit ==
    /\ applies = [a \in Applies |-> [at |-> "new", dryRun |-> FALSE, end |-> None]]
    /\ traces = [a \in Applies |-> {}]

GoOn(a, from, to) == applies[a].at = from /\ applies' = [applies EXCEPT ![a].at = to]

(* The finally clause comes next, whatever the end is.                      *)
EndsAs(a, end) == applies' = [applies EXCEPT ![a].at = "cleanup", ![a].end = end]

Leaves(a, kinds) == traces' = [traces EXCEPT ![a] = @ \cup kinds]

-----------------------------------------------------------------------------
(* All proposals are validated before anything, and nothing else is done    *)
(* when the apply is not enabled. Without a repository it is an error.      *)
BeginApply(a, valid, repository, dryRun) ==
    /\ applies[a].at = "new"
    /\ applies' = [applies EXCEPT ![a] =
         IF ~valid THEN [at |-> "over", dryRun |-> dryRun, end |-> "error"]
         ELSE IF a \notin OpenFor THEN [at |-> "over", dryRun |-> dryRun, end |-> "dry_run"]
         ELSE IF ~repository THEN [at |-> "over", dryRun |-> dryRun, end |-> "error"]
         ELSE [at |-> "fetch", dryRun |-> dryRun, end |-> None]]
    /\ UNCHANGED traces

FetchBase(a) == GoOn(a, "fetch", "add") /\ UNCHANGED traces

(* The temporary directory is made before git is asked.                     *)
AddWorktree(a) ==
    /\ GoOn(a, "add", "patch") /\ Leaves(a, {"directory", "branch", "worktree"})

AddFails(a) ==
    /\ applies[a].at = "add" /\ EndsAs(a, "error")
    /\ \E left \in SUBSET {"branch"} : Leaves(a, {"directory"} \cup left)

PatchWorktree(a) ==
    /\ applies[a].at = "patch"
    /\ IF applies[a].dryRun THEN EndsAs(a, "dry_run") ELSE GoOn(a, "patch", "commit")
    /\ UNCHANGED traces

CommitPatches(a) == GoOn(a, "commit", "push") /\ Leaves(a, {"commit"})

PushBranch(a) == GoOn(a, "push", "pr") /\ Leaves(a, {"pushed"})

OpenDraftPR(a) == applies[a].at = "pr" /\ EndsAs(a, "ok") /\ Leaves(a, {"pr"})

(* Any of these commands fails; push and gh may have done their work then.  *)
CommandFails(a) ==
    /\ applies[a].at \in {"fetch", "patch", "commit", "push", "pr"}
    /\ EndsAs(a, "error")
    /\ \/ UNCHANGED traces
       \/ applies[a].at = "push" /\ Leaves(a, {"pushed"})
       \/ applies[a].at = "pr" /\ Leaves(a, {"pr"})

CleanUp_OnError(a) ==
    /\ GoOn(a, "cleanup", "over")
    /\ traces' = [traces EXCEPT ![a] =
         IF "worktree" \in @ /\ applies[a].end # "ok" THEN @ \ {"directory", "worktree"} ELSE @]

(* _worktree_remove, if there is one. The branch stays.                     *)
CleanUp(a) ==
    /\ GoOn(a, "cleanup", "over")
    /\ traces' = [traces EXCEPT ![a] =
         IF "worktree" \in @ THEN @ \ {"directory", "worktree"} ELSE @]

ApplyKilled(a) ==
    /\ applies[a].at \notin {"new", "over"}
    /\ applies' = [applies EXCEPT ![a].at = "over", ![a].end = "killed"]
    /\ UNCHANGED traces

LocalApplyNext ==
    \E a \in Applies :
        \/ \E v, r, d \in BOOLEAN : BeginApply(a, v, r, d)
        \/ FetchBase(a) \/ AddWorktree(a) \/ AddFails(a) \/ PatchWorktree(a)
        \/ CommitPatches(a) \/ PushBranch(a) \/ OpenDraftPR(a)
        \/ CommandFails(a) \/ CleanUp(a) \/ ApplyKilled(a)

LocalApplySpec == LocalApplyInit /\ [][LocalApplyNext]_localApplyVars

-----------------------------------------------------------------------------

Places == {"new", "fetch", "add", "patch", "commit", "push", "pr", "cleanup", "over"}

LocalApplyTypeOK ==
    /\ applies \in [Applies -> [at : Places, dryRun : BOOLEAN,
                                end : {None, "ok", "dry_run", "error", "killed"}]]
    /\ traces \in [Applies -> SUBSET {"directory", "branch", "worktree", "commit", "pushed", "pr"}]

(* How much a call has left when it is over, wherever it failed: ok is a    *)
(* pushed commit with a draft PR; a dry run has committed and published     *)
(* nothing, a call with the gate closed has left nothing at all; no answer  *)
(* leaves a worktree, nor a directory unless adding the worktree failed;    *)
(* and there is never a PR without its branch. It is more than the answers  *)
(* are documented to leave: see NothingIsLeft. (apply.py 134)               *)
LeftoversAreBounded ==
    \A a \in Applies :
        /\ "pr" \in traces[a] => {"commit", "pushed"} \subseteq traces[a]
        /\ applies[a].at = "over" =>
             /\ applies[a].end = "ok" => traces[a] = {"branch", "commit", "pushed", "pr"}
             /\ applies[a].end = "dry_run" => traces[a] \cap {"commit", "pushed", "pr"} = {}
             /\ a \notin OpenFor => traces[a] = {}
             /\ applies[a].end # "killed" =>
                  /\ "worktree" \notin traces[a]
                  /\ "directory" \in traces[a] => applies[a].end = "error" /\ "commit" \notin traces[a]

(* What apply.py 37 says of "dry_run", that nothing was created, and of     *)
(* "error", that nothing was changed. A dry run leaves its branch, an error *)
(* what the commands before it made: a branch, a commit, a pushed branch, or*)
(* a PR whose creation was reported as a failure.                           *)
NothingIsLeft ==
    \A a \in Applies :
        applies[a].at = "over" /\ applies[a].end \in {"dry_run", "error"} => traces[a] = {}
=============================================================================
