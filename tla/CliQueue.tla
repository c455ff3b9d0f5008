------------------------------ MODULE CliQueue ------------------------------
(* The loop of the command line tool, _run_repl of agent/cli/cli.py, its    *)
(* queue of prompts and its heartbeats: threads that add a prompt to the    *)
(* queue at intervals (agent/cli/session.py, /queue, /heartbeat). The loop  *)
(* serves the queue before it asks the user.                                *)
EXTENDS Absent, Naturals, Sequences

CONSTANTS
    Heartbeats,     \* identifiers of heartbeats; each is set once
    MaxQueue        \* bound of the model on the queue

Heartbeat ==
    [listed : {"active", "stopped"}, stop : BOOLEAN, stale : BOOLEAN,
     thread : {"check", "wait", "add", "ended"}]

ASSUME CliQueueAssumption == MaxQueue \in Nat /\ None \notin Heartbeat

VARIABLES
    queue,      \* prompts: "beat", or "mark", of which there is one at most
    beats,      \* per heartbeat a Heartbeat, or None
    main,       \* what the loop does: "next", "serve", "join", "ended"
    joining,    \* the heartbeats whose end the loop waits for
    late        \* history: prompts a heartbeat added since it was stopped

queueVars == <<queue, beats, main, joining, late>>

-----------------------------------------------------------------------------
QueueInit ==
    /\ queue = <<>>
    /\ beats = [h \in Heartbeats |-> None]
    /\ main = "next" /\ joining = {}
    /\ late = [h \in Heartbeats |-> 0]

Live(h) == beats[h] # None /\ beats[h].thread # "ended"

NextPrompt_Last ==
    /\ main = "next" /\ main' = "serve"
    /\ queue' = IF queue = <<>> THEN queue ELSE SubSeq(queue, 1, Len(queue) - 1)
    /\ UNCHANGED <<beats, joining, late>>

(* The next prompt is the first of the queue or what the user types: a      *)
(* prompt of either kind may be anything.                                   *)
NextPrompt ==
    /\ main = "next" /\ main' = "serve"
    /\ queue' = IF queue = <<>> THEN queue ELSE Tail(queue)
    /\ UNCHANGED <<beats, joining, late>>

(* A chat, a shell command, an empty line, a command of no matter here; and *)
(* also Ctrl-C while one is served, which gives it up.                      *)
ServeOther ==
    /\ main = "serve" /\ main' = "next"
    /\ UNCHANGED <<queue, beats, joining, late>>

(* /queue add.                                                              *)
AddPrompt ==
    /\ main = "serve" /\ main' = "next"
    /\ Len(queue) < MaxQueue
    /\ \E prompt \in {"beat", "mark"} :
         /\ prompt = "mark" => \A i \in DOMAIN queue : queue[i] # "mark"
         /\ queue' = Append(queue, prompt)
    /\ UNCHANGED <<beats, joining, late>>

(* /queue clear puts an empty list in the place of the list: a thread that  *)
(* is about to add to the old one adds to nothing.                          *)
ClearQueue ==
    /\ main = "serve" /\ main' = "next"
    /\ queue' = <<>>
    /\ beats' = [h \in Heartbeats |->
                   IF Live(h) THEN [beats[h] EXCEPT !.stale = (beats[h].thread = "add")] ELSE beats[h]]
    /\ UNCHANGED <<joining, late>>

(* A heartbeat whose thread begins, with an event of its own.               *)
Started == [listed |-> "active", thread |-> "check", stop |-> FALSE, stale |-> FALSE]

SetHeartbeat(h) ==
    /\ main = "serve" /\ main' = "next"
    /\ beats[h] = None
    /\ beats' = [beats EXCEPT ![h] = Started]
    /\ UNCHANGED <<queue, joining, late>>

Stop_ListedOnly(hs) == beats

Stop(hs) == [h \in Heartbeats |-> IF h \in hs THEN [beats[h] EXCEPT !.stop = TRUE] ELSE beats[h]]

(* /heartbeat stop: the event is set, then the thread is waited for, two    *)
(* seconds at most. (Stopping all stops one after the other: a sequence of  *)
(* these.)                                                                  *)
StopHeartbeat(h) ==
    /\ main = "serve" /\ main' = "join"
    /\ beats[h] # None
    /\ beats' = Stop({h})
    /\ joining' = {h}
    /\ UNCHANGED <<queue, late>>

(* The thread ended or the time is over.                                    *)
Joined ==
    /\ main = "join" /\ main' = "next"
    /\ beats' = [h \in Heartbeats |->
                   IF h \in joining THEN [beats[h] EXCEPT !.listed = "stopped"] ELSE beats[h]]
    /\ joining' = {}
    /\ UNCHANGED <<queue, late>>

(* Ctrl-C while it waits: the heartbeat stays listed as active.             *)
InterruptJoin ==
    /\ main = "join" /\ main' = "next" /\ joining' = {}
    /\ UNCHANGED <<queue, beats, late>>

(* /quit, the end of the input, or an argument argparse does not take, whose*)
(* exit nobody catches: all events are set, the threads are waited for, and *)
(* what is left of them ends with the process.                              *)
Leave ==
    /\ main \in {"next", "serve"} /\ main' = "leave"
    /\ main = "next" => queue = <<>>
    /\ beats' = Stop({h \in Heartbeats : beats[h] # None})
    /\ joining' = {h \in Heartbeats : beats[h] # None}
    /\ UNCHANGED <<queue, late>>

LeaveJoined ==
    /\ main = "leave" /\ main' = "ended"
    /\ beats' = [h \in Heartbeats |->
                   IF beats[h] = None THEN None ELSE [beats[h] EXCEPT !.thread = "ended"]]
    /\ joining' = {}
    /\ UNCHANGED <<queue, late>>

-----------------------------------------------------------------------------
(* The thread of a heartbeat.                                               *)

BeatTo(h, from, to) ==
    /\ beats[h] # None /\ beats[h].thread = from
    /\ beats' = [beats EXCEPT ![h].thread = to]
    /\ UNCHANGED <<queue, main, joining, late>>

(* The loop's condition, and the wait that is over once the event is set.   *)
Check(h) == beats[h] # None /\ BeatTo(h, "check", IF beats[h].stop THEN "ended" ELSE "wait")

Woken(h) == beats[h] # None /\ beats[h].stop /\ BeatTo(h, "wait", "ended")

(* The interval is over; the list to add to has been looked up.             *)
Elapsed(h) == beats[h] # None /\ ~beats[h].stop /\ BeatTo(h, "wait", "add")

Beat(h) ==
    /\ beats[h] # None /\ beats[h].thread = "add"
    /\ Len(queue) < MaxQueue
    /\ queue' = IF beats[h].stale THEN queue ELSE Append(queue, "beat")
    /\ beats' = [beats EXCEPT ![h].thread = "check", ![h].stale = FALSE]
    /\ late' = [late EXCEPT ![h] = IF beats[h].stop THEN @ + 1 ELSE @]
    /\ UNCHANGED <<main, joining>>

Main ==
    \/ NextPrompt \/ ServeOther \/ AddPrompt \/ ClearQueue
    \/ \E h \in Heartbeats : SetHeartbeat(h) \/ StopHeartbeat(h)
    \/ Joined \/ InterruptJoin \/ Leave \/ LeaveJoined

Thread(h) == Check(h) \/ Woken(h) \/ Elapsed(h) \/ Beat(h)

QueueNext == Main \/ \E h \in Heartbeats : Thread(h)

(* The loop goes on, which takes a user who answers when asked.             *)
QueueFairness == WF_queueVars(Main)

QueueSpec == QueueInit /\ [][QueueNext]_queueVars /\ QueueFairness

-----------------------------------------------------------------------------

QueueTypeOK ==
    /\ queue \in Seq({"beat", "mark"})
    /\ beats \in [Heartbeats -> Heartbeat \cup {None}]
    /\ main \in {"next", "serve", "join", "leave", "ended"}
    /\ joining \subseteq Heartbeats
    /\ late \in [Heartbeats -> Nat]

(* A heartbeat adds one prompt at most after it was told to stop, however   *)
(* often and by whatever it is told, and once listed as stopped it was.     *)
(* (cli/session.py 290)                                                     *)
StoppedHeartbeatsFallSilent ==
    \A h \in Heartbeats :
        /\ late[h] <= 1
        /\ (beats[h] # None /\ beats[h].listed = "stopped") => beats[h].stop

(* A queued prompt is served in the end, or cleared, or the tool is left:   *)
(* heartbeats that add prompts for ever do not keep it waiting. (cli.py 327)*)
QueuedIsServed ==
    (\E i \in DOMAIN queue : queue[i] = "mark")
        ~> (main = "ended" \/ \A i \in DOMAIN queue : queue[i] # "mark")
=============================================================================
