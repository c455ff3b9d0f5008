----------------------------- MODULE MCTerminal -----------------------------
(* The terminal conversation and the loop of the command line tool, checked *)
(* beside each other: they are two programs that share nothing, and a       *)
(* behaviour is one of either. The other one stays as it began.             *)
EXTENDS Repl, CliQueue

VARIABLE part

parts == {"repl", "queue"}

(* One hook per event and way to end: what fires where is the question, not *)
(* which of several files did it.                                           *)
MCHookFiles ==
    {[declares |-> "PreToolUse", acts |-> "block"],
     [declares |-> "PostToolUse", acts |-> "reenter"],
     [declares |-> "SubagentStop", acts |-> "change"],
     [declares |-> None, acts |-> "raise"]}

TerminalInit ==
    /\ part \in parts
    /\ ReplInit /\ QueueInit
    /\ part = "queue" => ~loaded

TerminalNext ==
    /\ UNCHANGED part
    /\ \/ part = "repl" /\ ReplNext /\ UNCHANGED queueVars
       \/ part = "queue" /\ QueueNext /\ UNCHANGED replVars

TerminalFairness ==
    /\ WF_replVars(part = "repl" /\ Serve)
    /\ WF_queueVars(part = "queue" /\ Main)

TerminalSpec ==
    TerminalInit /\ [][TerminalNext]_<<part, replVars, queueVars>> /\ TerminalFairness

(* The types of both: what is registered, runs, is said, queued and beats.  *)
(* (repl.py 1265, cli.py 327)                                               *)
TerminalTypeOK == ReplTypeOK /\ QueueTypeOK
=============================================================================
