------------------------------- MODULE Plugins -------------------------------
(* PluginManager of agent/plugin_marketplace.py: one process installs,      *)
(* updates and removes plugins from the index of the registry. It keeps the *)
(* list of what is installed in memory and writes all of it to              *)
(* installed.json after each change. The index says what a version requires,*)
(* and so does the manifest in its archive; nothing compares the two.       *)
EXTENDS Naturals, FiniteSets, Absent

CONSTANTS
    PluginNames,
    MaxVersion,     \* bound of the model on versions, 1 the oldest
    Requires,       \* per plugin and version, its dependencies by the index
    Declares        \* and by the manifest that was unpacked with it

ASSUME PluginsAssumption ==
    /\ MaxVersion \in Nat
    /\ Requires \in [PluginNames -> [1..MaxVersion -> SUBSET PluginNames]]
    /\ Declares \in [PluginNames -> [1..MaxVersion -> SUBSET PluginNames]]

VARIABLES
    index,          \* per plugin, the versions the registry had when last asked
    installed,      \* in memory: per plugin, the version listed, 0 if it is not
    installedFile,  \* installed.json; None while it is empty
    dirs,           \* per plugin, the version its directory holds, 0 without one
    task,           \* what the manager is doing
    undone,         \* history: plugins whose files were removed, and it came to nothing
    broken,         \* history: plugins at which it was killed, or rmtree stopped
    forced,         \* history: plugins removed by force
    unsaved         \* history: the list could not be written

pluginVars == <<index, installed, installedFile, dirs, task, undone, broken, forced, unsaved>>

Listing == [PluginNames -> 0..MaxVersion]

(* A file with a list is none without.                                      *)
ASSUME NoListAssumption == None \notin Listing

Partly == MaxVersion + 1        \* a directory of which there is a part
Ready == [at |-> "ready", name |-> None, version |-> 0]

PluginsInit ==
    /\ index \in [PluginNames -> SUBSET (1..MaxVersion)]
    /\ installed = [n \in PluginNames |-> 0] /\ installedFile = installed
    /\ dirs = [n \in PluginNames |-> 0] /\ task = Ready
    /\ undone = {} /\ broken = {} /\ forced = {} /\ unsaved = FALSE

Listed(n) == installed[n] # 0
At(at) == task.at = at
Step(at) == task' = [task EXCEPT !.at = at]

-----------------------------------------------------------------------------
RefreshIndex ==
    /\ At("ready")
    /\ index' \in [PluginNames -> SUBSET (1..MaxVersion)] /\ index' # index
    /\ UNCHANGED <<installed, installedFile, dirs, task, undone, broken, forced, unsaved>>

(* rmtree of a plugin's directory, if there is one; or it stops half way,   *)
(* and the error is raised to the caller.                                   *)
Remove(n) == dirs' = [dirs EXCEPT ![n] = 0]

RemoveHalf(n) ==
    /\ dirs[n] # 0 /\ dirs' = [dirs EXCEPT ![n] = Partly]
    /\ broken' = broken \cup {n} /\ task' = Ready

(* Without a version the latest one. All that the index requires must be    *)
(* listed before, so installing it from here never happens.                 *)
Chosen(n, version) ==
    {v \in index[n] : IF version = None THEN \A w \in index[n] : w <= v ELSE v = version}

(* update calls install with force, for another version than the listed.    *)
Wanted(n, version, v, force) ==
    \/ ~Listed(n)
    \/ version # None /\ v # installed[n]
    \/ force

Install(n, version, force) ==
    /\ At("ready")
    /\ \E v \in Chosen(n, version) :
         /\ Wanted(n, version, v, force)
         /\ \A d \in Requires[n][v] : Listed(d)
         /\ \/ /\ Remove(n) /\ task' = [at |-> "download", name |-> n, version |-> v]
               /\ undone' = undone \cup {n} /\ broken' = broken \ {n}
            \/ RemoveHalf(n) /\ UNCHANGED undone
    /\ UNCHANGED <<index, installed, installedFile, forced, unsaved>>

(* Of the right checksum only.                                              *)
Extract ==
    /\ At("download") /\ Step("extract")
    /\ dirs' = [dirs EXCEPT ![task.name] = Partly]
    /\ UNCHANGED <<index, installed, installedFile, undone, broken, forced, unsaved>>

Extracted ==
    /\ At("extract") /\ Step("verify")
    /\ dirs' = [dirs EXCEPT ![task.name] = task.version]
    /\ UNCHANGED <<index, installed, installedFile, undone, broken, forced, unsaved>>

InstallFails_KeepsFiles ==
    /\ task.at \in {"download", "extract", "verify"}
    /\ task' = Ready /\ UNCHANGED <<dirs, broken>>
    /\ UNCHANGED <<index, installed, installedFile, undone, forced, unsaved>>

(* No download, a wrong checksum, a manifest that is missing or of another  *)
(* name: the directory is removed, and what was there before is gone        *)
(* although it stays listed.                                                *)
InstallFails ==
    /\ task.at \in {"download", "extract", "verify"}
    /\ \/ Remove(task.name) /\ task' = Ready /\ UNCHANGED broken
       \/ RemoveHalf(task.name)
    /\ UNCHANGED <<index, installed, installedFile, undone, forced, unsaved>>

Register ==
    /\ At("verify") /\ Step("save")
    /\ installed' = [installed EXCEPT ![task.name] = task.version]
    /\ installedFile' = None
    /\ undone' = undone \ {task.name} /\ forced' = forced \ {task.name}
    /\ UNCHANGED <<index, dirs, broken, unsaved>>

(* Who depends on a plugin is read from the manifests of the listed ones.   *)
Dependents(n) == {m \in PluginNames : Listed(m) /\ n \in Declares[m][installed[m]]}

Uninstall(n, force) ==
    /\ At("ready") /\ Listed(n)
    /\ force \/ Dependents(n) = {}
    /\ \/ /\ Remove(n) /\ task' = [at |-> "forget", name |-> n, version |-> 0]
          /\ undone' = undone \cup {n} /\ broken' = broken \ {n}
          /\ forced' = IF force THEN forced \cup {n} ELSE forced
       \/ RemoveHalf(n) /\ UNCHANGED <<undone, forced>>
    /\ UNCHANGED <<index, installed, installedFile, unsaved>>

Forget ==
    /\ At("forget") /\ Step("save")
    /\ installed' = [installed EXCEPT ![task.name] = 0]
    /\ installedFile' = None
    /\ undone' = undone \ {task.name}
    /\ UNCHANGED <<index, dirs, broken, forced, unsaved>>

(* enable and disable write the list as well.                               *)
SetEnabled(n) ==
    /\ At("ready") /\ Listed(n)
    /\ installedFile' = None
    /\ task' = [at |-> "save", name |-> n, version |-> 0]
    /\ UNCHANGED <<index, installed, dirs, undone, broken, forced, unsaved>>

Saved ==
    /\ At("save") /\ task' = Ready
    /\ installedFile' = installed /\ unsaved' = FALSE
    /\ UNCHANGED <<index, installed, dirs, undone, broken, forced>>

(* Within install the failure removes the directory of the new plugin, which*)
(* stays listed in memory.                                                  *)
SaveFails ==
    /\ At("save") /\ unsaved' = TRUE
    /\ IF task.version = 0 THEN task' = Ready /\ UNCHANGED <<dirs, undone, broken>>
       ELSE \/ /\ Remove(task.name) /\ task' = Ready /\ UNCHANGED broken
               /\ undone' = undone \cup {task.name}
            \/ RemoveHalf(task.name) /\ UNCHANGED undone
    /\ UNCHANGED <<index, installed, installedFile, forced>>

(* The process ends, and the next one reads the list; an empty one is as    *)
(* good as none, and nothing that was installed is known any more.          *)
ManagerRestarts ==
    /\ installed' = IF installedFile = None THEN [n \in PluginNames |-> 0] ELSE installedFile
    /\ task' = Ready
    /\ broken' = IF installedFile = None THEN PluginNames
                 ELSE IF task.at \in {"extract", "verify"} THEN broken \cup {task.name} ELSE broken
    /\ unsaved' = (installedFile = None)
    /\ UNCHANGED <<index, installedFile, dirs, undone, forced>>

PluginsNext ==
    \/ \E n \in PluginNames, version \in 1..MaxVersion \cup {None}, force \in BOOLEAN : Install(n, version, force)
    \/ \E n \in PluginNames : SetEnabled(n) \/ \E force \in BOOLEAN : Uninstall(n, force)
    \/ RefreshIndex \/ Extract \/ Extracted \/ InstallFails \/ Register
    \/ Forget \/ Saved \/ SaveFails \/ ManagerRestarts

PluginsSpec == PluginsInit /\ [][PluginsNext]_pluginVars

-----------------------------------------------------------------------------

PluginsTypeOK ==
    /\ index \in [PluginNames -> SUBSET (1..MaxVersion)]
    /\ installed \in Listing /\ (installedFile # None => installedFile \in Listing)
    /\ dirs \in [PluginNames -> 0..Partly]
    /\ task.at \in {"ready", "download", "extract", "verify", "forget", "save"}

(* However installs, updates, failures, kills and removals follow each      *)
(* other: a plugin's directory holds exactly the version that is listed, and*)
(* nothing if none is, unless the manager was killed at that very plugin or *)
(* while it wrote the list, or rmtree stopped at it, and no install or      *)
(* removal of it went well since. After any other failure it is gone as a   *)
(* whole. The file says what memory says when it was written, and no plugin *)
(* is without another that both the index and its manifest name, unless that*)
(* was removed by force. (plugin_marketplace.py 222)                        *)
PluginsAreAsListed ==
    At("ready") =>
        /\ unsaved \/ installedFile = installed
        /\ \A n \in PluginNames \ broken : dirs[n] = IF n \in undone THEN 0 ELSE installed[n]
        /\ \A n \in PluginNames : Listed(n) =>
             \A d \in Requires[n][installed[n]] \cap Declares[n][installed[n]] : Listed(d) \/ d \in forced
=============================================================================
