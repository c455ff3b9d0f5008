------------------------------- MODULE Sandbox -------------------------------
(* Commands that the agent runs: run_cargo_command through the client of    *)
(* agent/sandbox_client.py, and run_bash of agent/tools_ext.py, which tries *)
(* the same sidecar when one is configured and else runs the command        *)
(* itself. sandbox/runner/server.py serves every request on a thread of its *)
(* own and starts a container for it. Nothing bounds the container's time.  *)
EXTENDS Naturals, Absent

CONSTANT
    Calls               \* calls of the two tools

(* No answer is none of the answers about a command that was to run.        *)
ASSUME SandboxAssumption == None \notin {"ok", "failed", "rejected"}

VARIABLES
    calls,      \* per call, its request and how far it is
    runnerUp,   \* the sidecar runs
    settings    \* KOVI_SANDBOX_URL and SANDBOX_RUNNER_TOKEN are set

sandboxVars == <<calls, runnerUp, settings>>

(* What decides over a request: its tool, whether the command is one of     *)
(* check, test, clippy and build, whether arguments and path are accepted,  *)
(* and whether run_bash has it on its own list.                             *)
Requests ==
    [tool : {"run_cargo_command"}, listed : BOOLEAN, clean : BOOLEAN, allowed : {FALSE}]
        \cup [tool : {"run_bash"}, listed : BOOLEAN, clean : {TRUE}, allowed : BOOLEAN]

Uncalled == [at |-> "idle", req |-> None, thread |-> "none", box |-> "none",
             direct |-> FALSE, answer |-> None]

Set(c, r) == calls' = [calls EXCEPT ![c] = r]

SandboxInit ==
    /\ calls = [c \in Calls |-> Uncalled]
    /\ runnerUp = TRUE
    /\ settings \in [url : BOOLEAN, token : BOOLEAN]

-----------------------------------------------------------------------------
(* The tools' own list comes first, for run_bash only without the sidecar.  *)
CallTool(c, req) ==
    /\ calls[c].at = "idle"
    /\ LET new == [calls[c] EXCEPT !.req = req] IN
       Set(c, IF req.tool = "run_bash"
              THEN [new EXCEPT !.at = IF settings.url THEN "posted" ELSE "direct"]
              ELSE IF req.listed THEN [new EXCEPT !.at = "posted"]
              ELSE [new EXCEPT !.at = "answered", !.answer = "rejected"])
    /\ UNCHANGED <<runnerUp, settings>>

Authorized(req) == req.tool = "run_cargo_command" \/ ~settings.token

Accepted(req) == req.listed /\ req.clean

Connect(c) ==
    /\ runnerUp /\ calls[c].at = "posted" /\ calls[c].thread = "none"
    /\ Set(c, [calls[c] EXCEPT !.thread = "waits"])
    /\ UNCHANGED <<runnerUp, settings>>

(* do_POST and the first part of run_cargo: docker may not start it at all. *)
StartContainer(c) ==
    LET call == calls[c] IN
    /\ runnerUp /\ call.at # "idle" /\ call.thread = "waits"
    /\ \/ ~Authorized(call.req) /\ Set(c, [call EXCEPT !.thread = "error"])
       \/ /\ Authorized(call.req) /\ ~Accepted(call.req)
          /\ Set(c, [call EXCEPT !.thread = "rejected"])
       \/ /\ Authorized(call.req) /\ Accepted(call.req)
          /\ \/ Set(c, [call EXCEPT !.thread = "runs", !.box = "running"])
             \/ Set(c, [call EXCEPT !.thread = "error"])
    /\ UNCHANGED <<runnerUp, settings>>

ContainerEnds(c) ==
    /\ calls[c].box = "running"
    /\ \E end \in {"exit0", "exit1"} : Set(c, [calls[c] EXCEPT !.box = end])
    /\ UNCHANGED <<runnerUp, settings>>

Collect_Failed(c) ==
    LET call == calls[c] IN
    /\ call.thread = "runs"
    /\ Set(c, [call EXCEPT !.thread = IF call.box = "exit0" THEN "ok" ELSE "failed"])
    /\ UNCHANGED <<runnerUp, settings>>

(* containers.run returns, raises ContainerError, or loses the daemon.      *)
Collect(c) ==
    LET call == calls[c] IN
    /\ call.thread = "runs"
    /\ \/ call.box = "exit0" /\ Set(c, [call EXCEPT !.thread = "ok"])
       \/ call.box = "exit1" /\ Set(c, [call EXCEPT !.thread = "failed"])
       \/ Set(c, [call EXCEPT !.thread = "error"])
    /\ UNCHANGED <<runnerUp, settings>>

(* An answer other than ok is an error to run_bash, which then runs the     *)
(* command itself.                                                          *)
Received(c, status) ==
    LET call == calls[c] IN
    Set(c, IF call.req.tool = "run_bash" /\ status # "ok"
           THEN [call EXCEPT !.at = "direct", !.thread = "over"]
           ELSE [call EXCEPT !.at = "answered", !.thread = "over", !.answer = status])

Respond(c) ==
    LET call == calls[c] IN
    /\ call.thread \in {"ok", "failed", "rejected", "error"}
    /\ IF call.at = "posted" THEN Received(c, call.thread)
       ELSE Set(c, [call EXCEPT !.thread = "over"])
    /\ UNCHANGED <<runnerUp, settings>>

(* The client's timeout, or the connection is refused or lost. The thread   *)
(* and the container go on.                                                 *)
GiveUp(c) ==
    LET call == calls[c] IN
    /\ call.at = "posted"
    /\ Set(c, [call EXCEPT !.at = IF call.req.tool = "run_bash" THEN "direct" ELSE "answered",
                           !.answer = IF call.req.tool = "run_bash" THEN None ELSE "error",
                           !.thread = IF @ = "none" THEN "over" ELSE @])
    /\ UNCHANGED <<runnerUp, settings>>

(* run_bash itself: outside of any sandbox, for KOVI_BASH_TIMEOUT at most.  *)
RunDirectly(c) ==
    LET call == calls[c] IN
    /\ call.at = "direct"
    /\ IF call.req.allowed
       THEN \E a \in {"ok", "failed", "timeout", "error"} :
                Set(c, [call EXCEPT !.at = "answered", !.direct = TRUE, !.answer = a])
       ELSE Set(c, [call EXCEPT !.at = "answered", !.answer = "rejected"])
    /\ UNCHANGED <<runnerUp, settings>>

(* Threads die with the runner, containers do not.                          *)
RunnerDies ==
    /\ runnerUp /\ runnerUp' = FALSE
    /\ calls' = [c \in Calls |-> [calls[c] EXCEPT !.thread = IF @ = "none" THEN @ ELSE "over"]]
    /\ UNCHANGED settings

RunnerStarts == ~runnerUp /\ runnerUp' = TRUE /\ UNCHANGED <<calls, settings>>

SandboxNext ==
    \/ \E c \in Calls :
         \/ \E req \in Requests : CallTool(c, req)
         \/ Connect(c) \/ StartContainer(c) \/ ContainerEnds(c) \/ Collect(c)
         \/ Respond(c) \/ GiveUp(c) \/ RunDirectly(c)
    \/ RunnerDies \/ RunnerStarts

SandboxSpec == SandboxInit /\ [][SandboxNext]_sandboxVars

-----------------------------------------------------------------------------

SandboxTypeOK ==
    /\ runnerUp \in BOOLEAN /\ settings \in [url : BOOLEAN, token : BOOLEAN]
    /\ \A c \in Calls :
         /\ calls[c].at \in {"idle", "posted", "direct", "answered"}
         /\ calls[c].req \in Requests \cup {None}
         /\ calls[c].box \in {"none", "running", "exit0", "exit1"}
         /\ calls[c].answer \in {None, "ok", "failed", "rejected", "timeout", "error"}

(* Whatever dies, times out or answers late, what run_cargo_command says is *)
(* so: the command succeeded or failed in this call's container, or was     *)
(* refused and never ran; and it never runs outside of one.                 *)
(* (sandbox_client.py 40, server.py 60)                                     *)
CargoAnswersAreTrue ==
    \A c \in Calls :
        calls[c].req # None /\ calls[c].req.tool = "run_cargo_command" =>
            /\ ~calls[c].direct
            /\ calls[c].answer = "ok" => calls[c].box = "exit0"
            /\ calls[c].answer = "failed" => calls[c].box = "exit1"
            /\ calls[c].answer = "rejected" => calls[c].box = "none"
=============================================================================
