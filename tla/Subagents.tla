----------------------------- MODULE Subagents -----------------------------
(* The registry of subagent runs, agent/subagents.py. Nothing executes a    *)
(* run: it is spawned, stopped and returned by commands, and stays in the   *)
(* table for the life of the process.                                       *)
EXTENDS Hooks

CONSTANTS
    RunIds,     \* identifiers of runs
    Results     \* what a run may return

VARIABLE runs

Run(agent) == [agent |-> agent, status |-> "pending", result |-> None]

SubagentRun ==
    [agent : Agents, status : {"pending", "stopped", "returned"},
     result : Results \cup {None}]

(* An identifier is the second and two random bytes: it may be in use, and  *)
(* then the new run takes the place of the old one.                         *)
SpawnSubagent(id, agent) == runs' = [runs EXCEPT ![id] = Run(agent)]

(* Neither of these two looks at the status a run has.                      *)
StopSubagent(id) ==
    runs' = IF runs[id] = None THEN runs
            ELSE [runs EXCEPT ![id].status = "stopped"]

ReturnSubagentResult_Gated(id, result) ==
    runs' = IF runs[id] = None THEN runs
            ELSE [runs EXCEPT ![id].status = "returned",
                              ![id].result = Gate(runs[id].agent, result)]

(* The result is stored as it was submitted; the hooks see it afterwards,   *)
(* with the table unlocked, and what they make of it goes to the caller.    *)
ReturnSubagentResult(id, result) ==
    runs' = IF runs[id] = None THEN runs
            ELSE [runs EXCEPT ![id].status = "returned", ![id].result = result]
=============================================================================
