------------------------------- MODULE Backups -------------------------------
(* create_backup and restore_backup of agent/data_export_import.py, while   *)
(* the agent goes on writing below the same directory. A backup of a type   *)
(* copies the areas of that type one after the other. Backups are named by  *)
(* the second and lie below the directory themselves. Of an area it counts  *)
(* which files it has, and not what is in them.                             *)
EXTENDS Naturals, Absent

CONSTANTS
    Kept,           \* the areas this installation has
    Types,          \* the types of backup that are made
    Names,          \* what an area holds: names of files
    MaxSecond, MaxCalls, MaxWrites
                    \* bounds of the model on the clock, on calls and on the agent's writes

(* _get_paths_for_backup_type, the three databases taken together.          *)
AreasOf ==
    [full |-> {"databases", "logs", "config", "plugins", "skills", "vault"},
     incremental |-> {"databases", "logs"}, config_only |-> {"config", "plugins", "skills"},
     data_only |-> {"databases"}]

Areas == Kept \cup {"rest"}     \* and all else in the directory above

ASSUME BackupsAssumption ==
    /\ Kept \subseteq AreasOf["full"] /\ Types \subseteq DOMAIN AreasOf
    /\ None \notin BOOLEAN /\ None \notin Areas
    /\ MaxSecond \in Nat /\ MaxCalls \in Nat /\ MaxWrites \in Nat

VARIABLES
    disk,       \* per area what it holds, None if it does not exist
    backups,    \* per backup that exists, what it holds of each area
    job,        \* the call of the manager that runs, or the last one
    second,     \* the second of the last backup
    written,    \* history: areas the agent wrote during the last restore
    callsMade, agentWrites   \* how often the manager was called, and the agent wrote

backupVars == <<disk, backups, job, second, written, callsMade, agentWrites>>

Holding == (SUBSET Names) \cup {None}

NoCall == [at |-> "none", name |-> None, todo |-> {}, area |-> None, from |-> None, all |-> FALSE,
           asked |-> {}, overwrite |-> FALSE, before |-> None, result |-> None]

Returned(j, result) == [j EXCEPT !.at = "returned", !.result = result, !.todo = {}, !.area = None]

BackupsInit ==
    /\ disk \in [Areas -> Holding]
    /\ backups = [b \in {} |-> None]
    /\ job = NoCall /\ second = 0 /\ written = {} /\ callsMade = 0 /\ agentWrites = 0

Free == job.at \in {"none", "returned"}

Called == Free /\ callsMade < MaxCalls /\ callsMade' = callsMade + 1

-----------------------------------------------------------------------------
Put(b, held) == backups' = [x \in DOMAIN backups \cup {b} |-> IF x = b THEN held ELSE backups[x]]

(* It takes its name from the clock. An archive of the same second is begun *)
(* anew, a directory is added to. An archive that was not closed cannot be  *)
(* read.                                                                    *)
CreateBackup(type, compress, now) ==
    LET b == [type |-> type, compress |-> compress, second |-> now] IN
    /\ Called /\ second <= now /\ second' = now
    /\ Put(b, IF b \in DOMAIN backups /\ ~compress THEN backups[b]
              ELSE [closed |-> ~compress, held |-> [a \in Areas |-> None]])
    /\ job' = [NoCall EXCEPT !.at = "copy", !.name = b,
                             !.todo = Kept \cap AreasOf[type]]
    /\ UNCHANGED <<disk, agentWrites>> /\ written' = {}

(* Files are copied beside those that are there.                            *)
Over(old, new) == (IF old = None THEN {} ELSE old) \cup new

CopyArea(a) ==
    LET b == job.name IN
    /\ job.at = "copy" /\ a \in job.todo
    /\ IF disk[a] = None THEN UNCHANGED backups
       ELSE Put(b, [backups[b] EXCEPT !.held[a] = Over(@, disk[a])])
    /\ job' = [job EXCEPT !.todo = @ \ {a}]
    /\ UNCHANGED <<disk, second, written, callsMade, agentWrites>>

CloseBackup ==
    /\ job.at = "copy" /\ job.todo = {}
    /\ Put(job.name, [backups[job.name] EXCEPT !.closed = TRUE])
    /\ job' = Returned(job, TRUE)
    /\ UNCHANGED <<disk, second, written, callsMade, agentWrites>>

(* An error while copying, or the end of the process: what was copied by    *)
(* then stays, and an archive can be read if it was an error.               *)
CreateFails ==
    LET b == job.name IN
    /\ job.at = "copy"
    /\ \E closed \in {backups[b].closed, TRUE} :
         \/ Put(b, [backups[b] EXCEPT !.closed = closed])
         \/ \E a \in job.todo : /\ disk[a] # None
                               /\ \E some \in SUBSET disk[a] :
                                    Put(b, [closed |-> closed, held |-> [backups[b].held EXCEPT ![a] = Over(@, some)]])
    /\ job' = Returned(job, FALSE)
    /\ UNCHANGED <<disk, second, written, callsMade, agentWrites>>

-----------------------------------------------------------------------------
Held(b) == {a \in Areas : backups[b].held[a] # None}

(* Without paths the one thing to restore is the directory above itself,    *)
(* which exists. An archive is unpacked elsewhere first.                    *)
RestoreBackup(b, paths, overwrite) ==
    LET call == [NoCall EXCEPT !.name = b, !.from = backups[b].held, !.all = paths = None,
                               !.overwrite = overwrite, !.before = disk]
    IN
    /\ Called
    /\ job' = IF ~backups[b].closed THEN Returned(call, FALSE)
              ELSE IF paths # None
              THEN [call EXCEPT !.at = "restore", !.todo = paths \cap Held(b), !.asked = @ \cup paths]
              ELSE IF overwrite THEN [call EXCEPT !.at = "replace"]
              ELSE Returned(call, TRUE)
    /\ written' = {}
    /\ UNCHANGED <<disk, backups, second, agentWrites>>

(* rmtree of the directory above takes all backups with it, and one that is *)
(* not an archive is gone before it is copied. It stops at what it cannot   *)
(* remove, in the middle of an area or of a backup.                         *)
ReplaceAll ==
    /\ job.at = "replace"
    /\ disk' = [a \in Areas |-> None]
    /\ backups' = [b \in {} |-> None]
    /\ job' = IF job.name.compress
              THEN [job EXCEPT !.at = "restore", !.todo = {a \in Areas : job.from[a] # None}]
              ELSE Returned(job, FALSE)
    /\ UNCHANGED <<second, written, callsMade, agentWrites>>

ReplaceFails ==
    /\ job.at = "replace"
    /\ \E left \in SUBSET Areas, kept \in SUBSET DOMAIN backups :
         LET areas == [a \in Areas |-> IF a \in left THEN disk[a] ELSE None] IN
         \/ /\ backups' = [b \in kept |-> backups[b]]
            /\ \/ disk' = areas
               \/ \E a \in left : /\ areas[a] # None
                                  /\ \E some \in SUBSET areas[a] : disk' = [areas EXCEPT ![a] = some]
         \/ /\ disk' = areas
            /\ \E b \in kept, a \in Areas :
                 /\ ~b.compress /\ backups[b].held[a] # None
                 /\ \E some \in (SUBSET backups[b].held[a]) \cup {None} :
                      backups' = [x \in kept |-> IF x = b THEN [backups[b] EXCEPT !.held[a] = some]
                                                 ELSE backups[x]]
    /\ job' = Returned(job, FALSE)
    /\ UNCHANGED <<second, written, callsMade, agentWrites>>

(* The next area. With the directory above replaced there is nothing to be  *)
(* removed any more.                                                        *)
TakeArea(a) ==
    /\ job.at = "restore" /\ a \in job.todo
    /\ job' = IF disk[a] # None /\ ~job.overwrite THEN [job EXCEPT !.todo = @ \ {a}]
              ELSE [job EXCEPT !.todo = @ \ {a}, !.area = a,
                               !.at = IF disk[a] # None /\ ~job.all THEN "remove" ELSE "put"]
    /\ UNCHANGED <<disk, backups, second, written, callsMade, agentWrites>>

RemoveArea_Keep ==
    LET a == job.area IN
    /\ job.at = "remove"
    /\ \/ disk[a] # None /\ UNCHANGED disk /\ job' = [job EXCEPT !.at = "put"]
       \/ /\ \E some \in IF disk[a] = None THEN {None} ELSE SUBSET disk[a] : disk' = [disk EXCEPT ![a] = some]
          /\ job' = Returned(job, FALSE)
    /\ UNCHANGED <<backups, second, written, callsMade, agentWrites>>

(* rmtree of an area, and where it stops at a file.                         *)
RemoveArea ==
    LET a == job.area IN
    /\ job.at = "remove"
    /\ \/ disk[a] # None /\ disk' = [disk EXCEPT ![a] = None] /\ job' = [job EXCEPT !.at = "put"]
       \/ /\ \E some \in IF disk[a] = None THEN {None} ELSE SUBSET disk[a] : disk' = [disk EXCEPT ![a] = some]
          /\ job' = Returned(job, FALSE)
    /\ UNCHANGED <<backups, second, written, callsMade, agentWrites>>

CopyBack ==
    LET a == job.area IN
    /\ job.at = "put"
    /\ disk' = [disk EXCEPT ![a] = Over(@, job.from[a])]
    /\ job' = [job EXCEPT !.at = "restore", !.area = None]
    /\ UNCHANGED <<backups, second, written, callsMade, agentWrites>>

(* copytree goes on past a file it cannot copy, over all areas if it is the *)
(* directory above that it copies, and raises in the end.                   *)
CopyFails ==
    LET a == job.area IN
    /\ job.at = "put"
    /\ \/ UNCHANGED disk
       \/ \E some \in SUBSET job.from[a] : disk' = [disk EXCEPT ![a] = Over(@, some)]
    /\ \/ job' = Returned(job, FALSE)
       \/ job.all /\ job' = [job EXCEPT !.at = "restore", !.area = None, !.result = FALSE]
    /\ UNCHANGED <<backups, second, written, callsMade, agentWrites>>

Restored ==
    /\ job.at = "restore" /\ job.todo = {}
    /\ job' = Returned(job, job.result = None)
    /\ UNCHANGED <<disk, backups, second, written, callsMade, agentWrites>>

(* An error between two areas, or while an archive is unpacked;             *)
(* restore_backup turns it into False.                                      *)
RestoreFails ==
    /\ job.at \in {"restore", "replace"}
    /\ job' = Returned(job, FALSE)
    /\ UNCHANGED <<disk, backups, second, written, callsMade, agentWrites>>

(* It makes or removes a file, or the area.                                 *)
AgentWrites(a, x) ==
    /\ agentWrites < MaxWrites
    /\ disk[a] # x /\ (disk[a] \in {None, {}} \/ x # None)
    /\ \E n \in Names : Over(disk[a], {n}) = Over(x, {n})
    /\ disk' = [disk EXCEPT ![a] = x]
    /\ written' = written \cup {a} /\ agentWrites' = agentWrites + 1
    /\ UNCHANGED <<backups, job, second, callsMade>>

BackupsNext ==
    \/ \E type \in Types, compress \in BOOLEAN, now \in 0..MaxSecond : CreateBackup(type, compress, now)
    \/ \E b \in DOMAIN backups, paths \in (SUBSET Kept) \cup {None}, o \in BOOLEAN : RestoreBackup(b, paths, o)
    \/ \E a \in Areas : CopyArea(a) \/ TakeArea(a)
    \/ \E a \in Kept, x \in Holding : AgentWrites(a, x)
    \/ CloseBackup \/ CreateFails
    \/ ReplaceAll \/ ReplaceFails \/ RemoveArea \/ CopyBack \/ CopyFails \/ Restored \/ RestoreFails

BackupsSpec == BackupsInit /\ [][BackupsNext]_backupVars

-----------------------------------------------------------------------------

BackupsTypeOK ==
    /\ disk \in [Areas -> Holding]
    /\ \A b \in DOMAIN backups : backups[b].held \in [Areas -> Holding]
    /\ job.at \in {"none", "copy", "restore", "replace", "remove", "put", "returned"} /\ job.todo \subseteq Areas

(* What only the restore has changed since it began; whether it replaces the*)
(* directory above; and the areas that it is to bring back.                 *)
Others == Areas \ written

ReplacesAll == job.all /\ job.overwrite

DueBack ==
    {a \in (IF job.all THEN Areas ELSE job.asked) :
        job.from[a] # None /\ (job.overwrite \/ (job.before[a] = None /\ ~job.all))}

(* What the agent writes meanwhile aside: a restore that returns True has   *)
(* put back every area that was asked for and may be replaced, exactly as   *)
(* the backup has it. One that was given paths, or may not overwrite, leaves*)
(* the other areas as they were, however it ends; and if it fails, all but  *)
(* one of its own are as they were or as the backup has them, and that one  *)
(* has only files of the one or only of the other.                          *)
(* (data_export_import.py 170)                                              *)
RestoresAreFaithful ==
    job.at = "returned" /\ job.before # None =>
        /\ job.result => \A a \in Others \cap DueBack : disk[a] = job.from[a]
        /\ ~ReplacesAll => \A a \in Others \ DueBack : disk[a] = job.before[a]
        /\ ~ReplacesAll => \E one \in Areas :
             /\ \A a \in Others \ {one} : disk[a] \in {job.before[a], job.from[a]}
             /\ one \in Others /\ disk[one] # None =>
                  disk[one] \subseteq Over(job.before[one], {}) \/ disk[one] \subseteq Over(job.from[one], {})
=============================================================================
