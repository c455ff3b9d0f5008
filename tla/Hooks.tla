------------------------------- MODULE Hooks -------------------------------
(* The registry of lifecycle hooks, agent/hooks.py: a list under a lock     *)
(* that is not reentrant and that is held while hooks run. A hook that      *)
(* calls back into the registry, or into anything that fires hooks,         *)
(* therefore waits for itself.                                              *)
EXTENDS Absent, Naturals, Sequences

CONSTANTS
    HookFiles,  \* files a hook may be loaded from: [declares, acts]
    Agents,     \* names of the subagent catalogue
    MaxHooks    \* bound of the model on the registry

ASSUME MaxHooksAssumption == MaxHooks \in Nat

VARIABLE hooks

Events == {"PreToolUse", "PostToolUse", "Stop", "SubagentStop"}

(* What the callable of a file does: nothing, return None where that blocks,*)
(* raise, return another value, or call something that needs the lock.      *)
Acts == {"pass", "block", "raise", "change", "reenter"}

(* `declares` is the event the code of the file registers itself for when   *)
(* it is loaded, or None.                                                   *)
ASSUME HookFilesAssumption ==
    HookFiles \subseteq [declares : Events \cup {None}, acts : Acts]

(* add_hook takes any string for a name: one that is no event stands for all*)
(* of those, the word that !hooks add takes for it.                         *)
HookSpec == [name : Events \cup {"add"}, agent : Agents \cup {None}, acts : Acts]

Hook(name, agent, acts) == [name |-> name, agent |-> agent, acts |-> acts]

(* Hooks of tools that are scoped to a subagent never fire.                 *)
Applies(h, event, agent) ==
    /\ h.name = event
    /\ h.agent = None \/ (event = "SubagentStop" /\ h.agent = agent)

(* The i-th hook is run for the event: a PreToolUse hook that returned None *)
(* ends the loop, and one that waits for the lock is never left.            *)
Reached(i, event, agent) ==
    /\ Applies(hooks[i], event, agent)
    /\ \A j \in 1..(i - 1) : Applies(hooks[j], event, agent) =>
         /\ hooks[j].acts # "reenter"
         /\ event = "PreToolUse" => hooks[j].acts # "block"

Fired(event, agent) ==
    {hooks[i].acts : i \in {j \in DOMAIN hooks : Reached(j, event, agent)}}

WaitsForItself(event, agent) == "reenter" \in Fired(event, agent)

(* _fire_pre_tool_use returns None.                                         *)
Blocked == "block" \in Fired("PreToolUse", None)

(* _fire_subagent_stop: the result, or what a hook put in its place.        *)
Gate(agent, result) ==
    IF "change" \in Fired("SubagentStop", agent) THEN "gated" ELSE result

-----------------------------------------------------------------------------

(* Loading executes the file, outside the lock; then it is registered.      *)
AddHook(name, agent, file) ==
    LET declared == IF file.declares = None THEN <<>>
                    ELSE <<Hook(file.declares, None, file.acts)>>
    IN  hooks' = hooks \o declared \o <<Hook(name, agent, file.acts)>>

(* What is left without the hooks of a name, of any agent or of one.        *)
Without(list, name, agent) ==
    LET kept[n \in 0..Len(list)] ==
          IF n = 0 THEN <<>>
          ELSE IF list[n].name = name /\ agent \in {None, list[n].agent} THEN kept[n - 1]
          ELSE Append(kept[n - 1], list[n])
    IN  kept[Len(list)]

RemoveHook(name, agent) == hooks' = Without(hooks, name, agent)

ClearHooks == hooks' = <<>>
=============================================================================
