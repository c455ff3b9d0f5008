------------------------------ MODULE DataProofs -----------------------------
(* What is kept in files: backups and their restores, plugins, what the     *)
(* assistant remembers, and sessions.                                       *)
EXTENDS Backups, Plugins, MemoryApproval, CliSession, SequenceLemmas

-----------------------------------------------------------------------------
(* Backups.                                                                 *)

Content == [Areas -> Holding]

BackupName == [type : DOMAIN AreasOf, compress : BOOLEAN, second : Nat]

Backup == [closed : BOOLEAN, held : Content]

BackupJob ==
    [at : {"none", "copy", "restore", "replace", "remove", "put", "returned"},
     name : BackupName \cup {None}, todo : SUBSET Areas, area : Areas \cup {None},
     from : Content \cup {None}, all : BOOLEAN, asked : SUBSET Kept,
     overwrite : BOOLEAN, before : Content \cup {None}, result : BOOLEAN \cup {None}]

Restoring == job.at \in {"restore", "remove", "put"}

BackupTypes ==
    /\ disk \in Content /\ second \in Nat
    /\ DOMAIN backups \subseteq BackupName
    /\ backups \in [DOMAIN backups -> Backup]
    /\ job \in BackupJob
    /\ job.at = "copy" => job.name \in DOMAIN backups /\ job.before = None
    /\ job.at = "replace" => job.name \in BackupName /\ job.area = None /\ ReplacesAll
    /\ Restoring \/ job.at = "replace" => job.from \in Content

(* While a restore is under way: each area is as it was, or back, but for   *)
(* the one at hand, which is as it was until it is gone.                    *)
Way ==
    /\ job.all => job.overwrite
    /\ \A a \in job.todo : job.from[a] # None /\ (~job.all => a \in job.asked)
    /\ job.at \in {"remove", "put"} =>
         /\ job.area \in Areas \ job.todo /\ job.from[job.area] # None
         /\ job.area \in Others => job.area \in DueBack
    /\ job.at = "restore" => job.area = None
    /\ job.at = "remove" => ~job.all
    /\ job.result = None =>
         \A a \in Others \cap DueBack : a \in job.todo \/ a = job.area \/ disk[a] = job.from[a]
    /\ ~ReplacesAll =>
         /\ \A a \in Others : a \notin DueBack \/ a \in job.todo => disk[a] = job.before[a]
         /\ \A a \in Others \cap DueBack : a \in job.todo \/ a = job.area \/ disk[a] = job.from[a]
         /\ job.area \in Others => disk[job.area] = IF job.at = "remove" THEN job.before[job.area] ELSE None
    /\ ReplacesAll => \A a \in Others : a \in job.todo \/ a = job.area => disk[a] = None

BackupsInv == BackupTypes /\ (Restoring => Way) /\ RestoresAreFaithful

-----------------------------------------------------------------------------
(* At the beginning no call was made.                                       *)
LEMMA BackupsStart == BackupsInit => BackupsInv
<1> SUFFICES ASSUME BackupsInit PROVE BackupsInv
  OBVIOUS
<1>1. job \in BackupJob /\ job.at = "none"
  BY DEF BackupsInit, NoCall, BackupJob
<1>2. /\ DOMAIN backups = {} /\ backups \in [DOMAIN backups -> Backup]
  BY DEF BackupsInit
<1> QED
  BY <1>1, <1>2 DEF BackupsInit, BackupsInv, BackupTypes, Restoring, RestoresAreFaithful, Content

(* Putting a backup where it is to be.                                      *)
LEMMA PutTypes ==
    ASSUME BackupTypes, NEW b \in BackupName, NEW held \in Backup, Put(b, held)
    PROVE  /\ DOMAIN backups' = DOMAIN backups \cup {b} /\ DOMAIN backups' \subseteq BackupName
           /\ backups' \in [DOMAIN backups' -> Backup]
<1>1. DOMAIN backups' = DOMAIN backups \cup {b}
  BY DEF Put
<1>2. ASSUME NEW x \in DOMAIN backups'
      PROVE  backups'[x] \in Backup
  BY <1>1, <1>2 DEF Put, BackupTypes
<1>3. backups' = [x \in DOMAIN backups' |-> backups'[x]]
  BY <1>1 DEF Put
<1> HIDE DEF Put
<1> QED
  BY <1>1, <1>2, <1>3 DEF BackupTypes

(* Copying over what an area has.                                           *)
LEMMA OverTypes ==
    ASSUME NEW old \in Holding, NEW new \in SUBSET Names
    PROVE  Over(old, new) \in Holding /\ Over(old, new) \in SUBSET Names
  BY DEF Over, Holding

(* A backup with another area.                                              *)
LEMMA BackupWith ==
    ASSUME NEW backup \in Backup, NEW a \in Areas, NEW area \in Holding, NEW closed \in BOOLEAN
    PROVE  /\ [backup EXCEPT !.held[a] = area] \in Backup
           /\ [backup EXCEPT !.closed = closed] \in Backup
           /\ [closed |-> closed, held |-> [backup.held EXCEPT ![a] = area]] \in Backup
<1>1. backup.held \in Content
  BY DEF Backup
<1>2. [backup.held EXCEPT ![a] = area] \in Content
  BY <1>1 DEF Content
<1>3. [backup EXCEPT !.held[a] = area] = [backup EXCEPT !.held = [backup.held EXCEPT ![a] = area]]
  BY DEF Backup
<1> QED
  BY <1>2, <1>3 DEF Backup

(* A call that makes a backup, or one that ends, is not judged.             *)
LEMMA NotJudged ==
    ASSUME BackupTypes', ~Restoring', job'.at = "returned" => job'.before = None
    PROVE  BackupsInv'
  BY DEF BackupsInv, RestoresAreFaithful

(* Making a backup.                                                         *)
LEMMA CreateSteps ==
    ASSUME BackupsInv,
           \/ \E type \in Types, compress \in BOOLEAN, now \in 0..MaxSecond : CreateBackup(type, compress, now)
           \/ \E a \in Areas : CopyArea(a)
           \/ CloseBackup \/ CreateFails
    PROVE  BackupsInv'
<1> USE BackupsAssumption DEF BackupsInv
<1>1. ASSUME NEW type \in Types, NEW compress \in BOOLEAN, NEW now \in 0..MaxSecond,
             CreateBackup(type, compress, now)
      PROVE  BackupsInv'
  <2> DEFINE b == [type |-> type, compress |-> compress, second |-> now]
             held == IF b \in DOMAIN backups /\ ~compress THEN backups[b]
                     ELSE [closed |-> ~compress, held |-> [a \in Areas |-> None]]
  <2>1. b \in BackupName
    BY DEF BackupName
  <2>2. held \in Backup
    <3>1. [a \in Areas |-> None] \in Content
      BY DEF Content, Holding
    <3>2. b \in DOMAIN backups => backups[b] \in Backup
      BY DEF BackupTypes
    <3>3. [closed |-> ~compress, held |-> [a \in Areas |-> None]] \in Backup
      BY <3>1 DEF Backup
    <3> QED
      BY <3>2, <3>3
  <2>3. Put(b, held)
    BY <1>1 DEF CreateBackup
  <2>4. job' = [NoCall EXCEPT !.at = "copy", !.name = b, !.todo = Kept \cap AreasOf[type]]
    BY <1>1 DEF CreateBackup
  <2>5. /\ DOMAIN backups' = DOMAIN backups \cup {b} /\ DOMAIN backups' \subseteq BackupName
        /\ backups' \in [DOMAIN backups' -> Backup]
    BY <2>1, <2>2, <2>3, PutTypes
  <2> HIDE DEF b, held
  <2>6. job' \in BackupJob /\ job'.at = "copy" /\ job'.name = b /\ job'.before = None
    BY <2>1, <2>4 DEF NoCall, BackupJob, Areas
  <2>7. disk' = disk /\ second' \in Nat
    <3>1. disk' = disk /\ second' = now
      BY <1>1 DEF CreateBackup
    <3>2. now \in Nat
      BY <1>1
    <3> QED
      BY <3>1, <3>2
  <2>8. BackupTypes'
    BY <2>5, <2>6, <2>7 DEF BackupTypes, Restoring
  <2> QED
    BY <2>6, <2>8, NotJudged DEF Restoring
<1>2. ASSUME NEW a \in Areas, CopyArea(a)
      PROVE  BackupsInv'
  <2>1. /\ job.at = "copy" /\ job.name \in DOMAIN backups /\ job.before = None /\ job \in BackupJob
        /\ UNCHANGED <<disk, second>> /\ job' = [job EXCEPT !.todo = @ \ {a}]
    BY <1>2 DEF CopyArea, BackupTypes
  <2>2. /\ job' \in BackupJob /\ job'.at = "copy" /\ job'.name = job.name /\ job'.before = None
    BY <2>1 DEF BackupJob
  <2>3. /\ job.name \in DOMAIN backups' /\ DOMAIN backups' \subseteq BackupName
        /\ backups' \in [DOMAIN backups' -> Backup]
    <3>1. CASE disk[a] = None
      BY <1>2, <2>1, <3>1 DEF CopyArea, BackupTypes
    <3>2. CASE disk[a] # None
      <4> DEFINE b == job.name
                 area == Over(backups[b].held[a], disk[a])
                 held == [backups[b] EXCEPT !.held[a] = area]
      <4>1. backups[b] \in Backup /\ b \in BackupName /\ disk[a] \in SUBSET Names
        BY <2>1, <3>2 DEF BackupTypes, Content, Holding
      <4>2. backups[b].held[a] \in Holding
        BY <4>1 DEF Backup, Content
      <4>3. area \in Holding
        BY <4>1, <4>2, OverTypes
      <4>4. Put(b, held)
        BY <1>2, <3>2 DEF CopyArea
      <4> HIDE DEF area, b
      <4>5. held \in Backup
        BY <4>1, <4>3, BackupWith
      <4> HIDE DEF held
      <4>6. /\ DOMAIN backups' = DOMAIN backups \cup {b} /\ DOMAIN backups' \subseteq BackupName
            /\ backups' \in [DOMAIN backups' -> Backup]
        BY <4>1, <4>4, <4>5, PutTypes
      <4> QED
        BY <4>6 DEF b
    <3> QED
      BY <3>1, <3>2
  <2>4. BackupTypes'
    BY <2>1, <2>2, <2>3 DEF BackupTypes, Restoring
  <2> QED
    BY <2>2, <2>4, NotJudged DEF Restoring
<1>3. ASSUME job.at = "copy", NEW held \in Backup, Put(job.name, held), UNCHANGED <<disk, second>>,
             NEW result \in BOOLEAN, job' = Returned(job, result)
      PROVE  BackupsInv'
  <2>1. job.name \in BackupName /\ job.before = None /\ job \in BackupJob
    BY <1>3 DEF BackupTypes
  <2>2. job' \in BackupJob /\ job'.at = "returned" /\ job'.before = None
    BY <1>3, <2>1 DEF BackupJob, Returned
  <2>3. DOMAIN backups' \subseteq BackupName /\ backups' \in [DOMAIN backups' -> Backup]
    BY <1>3, <2>1, PutTypes
  <2>4. BackupTypes'
    BY <1>3, <2>2, <2>3 DEF BackupTypes, Restoring
  <2> QED
    BY <2>2, <2>4, NotJudged DEF Restoring
<1>4. CASE CloseBackup
  <2> DEFINE held == [backups[job.name] EXCEPT !.closed = TRUE]
  <2>1. /\ job.at = "copy" /\ backups[job.name] \in Backup /\ Put(job.name, held)
        /\ UNCHANGED <<disk, second>> /\ job' = Returned(job, TRUE)
    BY <1>4 DEF CloseBackup, BackupTypes
  <2>2. held \in Backup
    BY <2>1 DEF Backup
  <2> HIDE DEF held
  <2> QED
    BY <1>3, <2>1, <2>2
<1>5. CASE CreateFails
  <2> DEFINE b == job.name
  <2>1. /\ job.at = "copy" /\ backups[b] \in Backup /\ disk \in Content
        /\ UNCHANGED <<disk, second>> /\ job' = Returned(job, FALSE) /\ job \in BackupJob
    BY <1>5 DEF CreateFails, BackupTypes
  <2>2. PICK closed \in {backups[b].closed, TRUE} :
           \/ Put(b, [backups[b] EXCEPT !.closed = closed])
           \/ \E a \in job.todo : /\ disk[a] # None
                 /\ \E some \in SUBSET disk[a] :
                      Put(b, [closed |-> closed, held |-> [backups[b].held EXCEPT ![a] = Over(@, some)]])
    BY <1>5 DEF CreateFails
  <2>3. closed \in BOOLEAN
    BY <2>1 DEF Backup
  <2>4. CASE Put(b, [backups[b] EXCEPT !.closed = closed])
    <3>1. [backups[b] EXCEPT !.closed = closed] \in Backup
      BY <2>1, <2>3 DEF Backup
    <3> QED
      BY <1>3, <2>1, <2>4, <3>1
  <2>5. CASE \E a \in job.todo : /\ disk[a] # None
               /\ \E some \in SUBSET disk[a] :
                    Put(b, [closed |-> closed, held |-> [backups[b].held EXCEPT ![a] = Over(@, some)]])
    <3>1. PICK a \in job.todo, some \in SUBSET Names : /\ disk[a] # None /\ some \in SUBSET disk[a]
              /\ Put(b, [closed |-> closed, held |-> [backups[b].held EXCEPT ![a] = Over(@, some)]])
      BY <2>1, <2>5 DEF BackupJob, Content, Holding
    <3>2. a \in Areas /\ some \in SUBSET Names /\ backups[b].held[a] \in Holding
      BY <2>1, <3>1 DEF BackupJob, Content, Holding, Backup
    <3>3. PICK area : area = Over(backups[b].held[a], some)
      OBVIOUS
    <3>4. area \in Holding
      BY <3>2, <3>3, OverTypes
    <3> DEFINE held == [closed |-> closed, held |-> [backups[b].held EXCEPT ![a] = area]]
    <3>5. Put(b, held)
      BY <3>1, <3>3
    <3>6. held \in Backup
      BY <2>1, <2>3, <3>2, <3>4, BackupWith
    <3> HIDE DEF held
    <3> QED
      BY <1>3, <2>1, <3>5, <3>6
  <2> QED
    BY <2>2, <2>4, <2>5
<1> QED
  BY <1>1, <1>2, <1>4, <1>5

(* A restore begins with everything as it was and all of it to come.        *)
LEMMA RestoreBegins ==
    ASSUME BackupsInv, NEW b \in DOMAIN backups, NEW paths \in (SUBSET Kept) \cup {None},
           NEW overwrite \in BOOLEAN, RestoreBackup(b, paths, overwrite)
    PROVE  BackupsInv'
<1> USE BackupsAssumption DEF BackupsInv
<1> DEFINE from == backups[b].held
           call == [NoCall EXCEPT !.name = b, !.from = from, !.all = paths = None,
                                  !.overwrite = overwrite, !.before = disk]
<1>1. /\ b \in BackupName /\ from \in Content /\ disk \in Content /\ DOMAIN backups \subseteq BackupName
      /\ backups \in [DOMAIN backups -> Backup] /\ second \in Nat
      /\ UNCHANGED <<disk, backups, second>> /\ written' = {}
  BY DEF BackupTypes, RestoreBackup, Backup
<1>2. /\ call \in BackupJob /\ call.from = from /\ call.before = disk /\ call.name = b /\ call.area = None
      /\ call.all = (paths = None) /\ call.overwrite = overwrite /\ call.asked = {} /\ call.todo = {}
  <2> HIDE DEF from
  <2> QED
    BY <1>1 DEF NoCall, BackupJob
<1> HIDE DEF call
<1>4. ASSUME NEW result \in BOOLEAN, job' = Returned(call, result), result => ~overwrite /\ paths = None
      PROVE  BackupsInv'
  <2>2. /\ job' \in BackupJob /\ job'.at = "returned" /\ job'.before = disk /\ job'.result = result
        /\ job'.asked = {} /\ job'.overwrite = overwrite /\ job'.all = (paths = None) /\ job'.from = from
    BY <1>2, <1>4 DEF Returned, BackupJob
  <2>3. BackupTypes'
    BY <1>1, <2>2 DEF BackupTypes, Restoring
  <2>4. ~ReplacesAll' => DueBack' = {}
    BY <2>2 DEF ReplacesAll, DueBack
  <2>5. result => ~ReplacesAll'
    BY <1>4, <2>2 DEF ReplacesAll
  <2>6. \A a \in Areas : disk'[a] = job'.before[a]
    BY <1>1, <2>2
  <2>7. "rest" \in Areas /\ (disk'["rest"] # None => disk'["rest"] \subseteq Over(job'.before["rest"], {}))
    BY <2>6 DEF Areas, Over
  <2>8. RestoresAreFaithful'
    BY <2>2, <2>4, <2>5, <2>6, <2>7 DEF RestoresAreFaithful, Others
  <2> QED
    BY <2>2, <2>3, <2>8 DEF Restoring
<1>5. CASE /\ paths # None
           /\ job' = [call EXCEPT !.at = "restore", !.todo = paths \cap Held(b), !.asked = @ \cup paths]
  <2>1. paths \subseteq Kept /\ paths \cap Held(b) \subseteq Areas
    BY <1>5 DEF Areas
  <2>2. /\ job' \in BackupJob /\ job'.at = "restore" /\ job'.from = from /\ job'.before = disk
        /\ job'.todo = paths \cap Held(b) /\ job'.asked = paths /\ job'.all = FALSE /\ job'.area = None
    BY <1>2, <1>5, <2>1 DEF BackupJob
  <2>3. BackupTypes'
    BY <1>1, <2>2 DEF BackupTypes, Restoring
  <2>4. \A a \in job'.todo : job'.from[a] # None /\ a \in job'.asked
    BY <2>2 DEF Held
  <2>5. \A a \in DueBack' : a \in job'.todo
    BY <2>1, <2>2 DEF DueBack, Held, Areas
  <2>6. \A a \in Areas : disk'[a] = job'.before[a]
    BY <1>1, <2>2
  <2>9. job'.area \in Others' => disk'[job'.area] = None
    BY <2>2, BackupsAssumption DEF Others
  <2>7. Way'
    BY <2>2, <2>4, <2>5, <2>6, <2>9 DEF Way, ReplacesAll, Others
  <2> QED
    BY <2>2, <2>3, <2>7 DEF RestoresAreFaithful
<1>6. CASE paths = None /\ overwrite /\ job' = [call EXCEPT !.at = "replace"]
  <2>1. /\ job' \in BackupJob /\ job'.at = "replace" /\ job'.from = from /\ job'.name = b
        /\ job'.all /\ job'.overwrite /\ job'.area = None
    BY <1>2, <1>6 DEF BackupJob
  <2>2. BackupTypes'
    BY <1>1, <2>1 DEF BackupTypes, Restoring, ReplacesAll
  <2> QED
    BY <2>1, <2>2, NotJudged DEF Restoring
<1>7. \/ job' = Returned(call, FALSE)
      \/ /\ paths # None
         /\ job' = [call EXCEPT !.at = "restore", !.todo = paths \cap Held(b), !.asked = @ \cup paths]
      \/ paths = None /\ overwrite /\ job' = [call EXCEPT !.at = "replace"]
      \/ paths = None /\ ~overwrite /\ job' = Returned(call, TRUE)
  BY DEF RestoreBackup, call
<1> QED
  BY <1>4, <1>5, <1>6, <1>7

(* A step of the restore keeps the call; what it was given is not changed.  *)
LEMMA SameCall ==
    ASSUME job \in BackupJob, NEW new, new = job', job' \in BackupJob,
           new.from = job.from, new.all = job.all, new.asked = job.asked,
           new.overwrite = job.overwrite, new.before = job.before
    PROVE  DueBack' = DueBack /\ (ReplacesAll' <=> ReplacesAll)
  BY DEF DueBack, ReplacesAll

(* A restore ends with at most one area half way.                           *)
LEMMA RestoreEnds ==
    ASSUME BackupTypes, BackupTypes', Restoring, Way, NEW result \in BOOLEAN, job' = Returned(job, result),
           result => job.result = None /\ job.todo = {} /\ job.area = None /\ disk' = disk,
           written' = written, NEW one \in Areas,
           \A a \in Areas \ {one} : disk'[a] = disk[a],
           (disk' = disk /\ job.area = None) \/ one = job.area,
           ~ReplacesAll /\ one = job.area /\ one \in Others /\ disk'[one] # None =>
               disk'[one] \subseteq Over(job.before[one], {}) \/ disk'[one] \subseteq Over(job.from[one], {})
    PROVE  BackupsInv'
<1>1. /\ job' \in BackupJob /\ job'.at = "returned" /\ job'.result = result
      /\ job'.from = job.from /\ job'.before = job.before /\ job'.all = job.all
      /\ job'.asked = job.asked /\ job'.overwrite = job.overwrite /\ job \in BackupJob
  BY DEF BackupTypes, BackupJob, Returned
<1>2. DueBack' = DueBack /\ (ReplacesAll' <=> ReplacesAll) /\ Others' = Others
  BY <1>1, SameCall DEF Others
<1>3. None \notin Areas
  BY BackupsAssumption
<1>4. result => \A a \in Others \cap DueBack : disk'[a] = job.from[a]
  BY <1>3 DEF Way, Others
<1>5. ASSUME ~ReplacesAll
      PROVE  /\ \A a \in Others \ DueBack : disk'[a] = job.before[a]
             /\ \A a \in Others \ {one} : disk'[a] \in {job.before[a], job.from[a]}
             /\ one \in Others /\ disk'[one] # None =>
                  disk'[one] \subseteq Over(job.before[one], {}) \/ disk'[one] \subseteq Over(job.from[one], {})
  <2>1. /\ \A a \in Others : a \notin DueBack \/ a \in job.todo => disk[a] = job.before[a]
        /\ \A a \in Others \cap DueBack : a \in job.todo \/ a = job.area \/ disk[a] = job.from[a]
    BY <1>5 DEF Way
  <2>2. CASE disk' = disk /\ job.area = None
    <3>1. \A a \in Others : disk'[a] \in {job.before[a], job.from[a]}
      BY <1>3, <2>1, <2>2 DEF Others
    <3>2. \A a \in Others : disk'[a] # None =>
             disk'[a] \subseteq Over(job.before[a], {}) \/ disk'[a] \subseteq Over(job.from[a], {})
      BY <3>1 DEF Over
    <3> QED
      BY <2>1, <2>2, <3>1, <3>2
  <2>3. CASE one = job.area
    <3>1. one \in Others => one \in DueBack
      BY <1>3, <2>3 DEF Way, Restoring
    <3>2. \A a \in Others \ {one} : disk'[a] = disk[a] /\ disk[a] \in {job.before[a], job.from[a]}
      BY <2>1, <2>3 DEF Others
    <3>3. \A a \in Others \ DueBack : disk'[a] = job.before[a]
      BY <2>1, <3>1, <3>2
    <3> QED
      BY <1>5, <2>3, <3>2, <3>3
  <2> QED
    BY <2>2, <2>3
<1>6. RestoresAreFaithful'
  BY <1>1, <1>2, <1>4, <1>5 DEF RestoresAreFaithful
<1> QED
  BY <1>1, <1>6 DEF BackupsInv, Restoring

(* The directory above is replaced, or rmtree stops half way.               *)
LEMMA ReplaceSteps ==
    ASSUME BackupsInv, ReplaceAll \/ ReplaceFails
    PROVE  BackupsInv'
<1> USE BackupsAssumption DEF BackupsInv
<1>1. /\ job \in BackupJob /\ job.at = "replace" /\ job.from \in Content /\ job.all /\ job.overwrite /\ job.area = None
      /\ disk \in Content /\ second' = second /\ second \in Nat /\ written' = written
      /\ DOMAIN backups \subseteq BackupName /\ backups \in [DOMAIN backups -> Backup]
  BY DEF ReplaceAll, ReplaceFails, BackupTypes, ReplacesAll
<1>2. ASSUME job' = Returned(job, FALSE), disk' \in Content, DOMAIN backups' \subseteq BackupName,
             backups' \in [DOMAIN backups' -> Backup]
      PROVE  BackupsInv'
  <2>1. /\ job' \in BackupJob /\ job'.at = "returned" /\ job'.result = FALSE /\ job'.all /\ job'.overwrite
    BY <1>1, <1>2 DEF BackupJob, Returned
  <2>2. BackupTypes'
    BY <1>1, <1>2, <2>1 DEF BackupTypes, Restoring
  <2> QED
    BY <2>1, <2>2 DEF RestoresAreFaithful, ReplacesAll, Restoring
<1>3. CASE ReplaceAll
  <2>1. disk' = [a \in Areas |-> None] /\ backups' = [b \in {} |-> None]
    BY <1>3 DEF ReplaceAll
  <2>2. disk' \in Content /\ DOMAIN backups' = {} /\ backups' \in [DOMAIN backups' -> Backup]
    BY <2>1 DEF Content, Holding
  <2>3. CASE job' = [job EXCEPT !.at = "restore", !.todo = {a \in Areas : job.from[a] # None}]
             /\ job.area = None
    <3>1. /\ job' \in BackupJob /\ job'.at = "restore" /\ job'.from = job.from /\ job'.area = None
          /\ job'.todo = {a \in Areas : job.from[a] # None} /\ job'.all /\ job'.overwrite
      BY <1>1, <2>3 DEF BackupJob
    <3>2. BackupTypes'
      BY <1>1, <2>2, <3>1 DEF BackupTypes, Restoring
    <3>3. \A a \in DueBack' : a \in job'.todo
      BY <3>1 DEF DueBack
    <3>4. \A a \in Others' : disk'[a] = None
      BY <2>1 DEF Others
    <3>5. Way'
      BY <3>1, <3>3, <3>4 DEF Way, ReplacesAll
    <3> QED
      BY <3>1, <3>2, <3>5 DEF RestoresAreFaithful, Restoring
  <2> QED
    BY <1>1, <1>2, <1>3, <2>2, <2>3 DEF ReplaceAll
<1>4. CASE ReplaceFails
  <2>1. job' = Returned(job, FALSE)
    BY <1>4 DEF ReplaceFails
  <2>2. PICK left \in SUBSET Areas, kept \in SUBSET DOMAIN backups :
           LET areas == [a \in Areas |-> IF a \in left THEN disk[a] ELSE None] IN
           \/ /\ backups' = [b \in kept |-> backups[b]]
              /\ \/ disk' = areas
                 \/ \E a \in left : /\ areas[a] # None
                                    /\ \E some \in SUBSET areas[a] : disk' = [areas EXCEPT ![a] = some]
           \/ /\ disk' = areas
              /\ \E b \in kept, a \in Areas :
                   /\ ~b.compress /\ backups[b].held[a] # None
                   /\ \E some \in (SUBSET backups[b].held[a]) \cup {None} :
                        backups' = [x \in kept |-> IF x = b THEN [backups[b] EXCEPT !.held[a] = some]
                                                   ELSE backups[x]]
    BY <1>4 DEF ReplaceFails
  <2> DEFINE areas == [a \in Areas |-> IF a \in left THEN disk[a] ELSE None]
             whole == [b \in kept |-> backups[b]]
  <2>3. areas \in Content /\ None \in Holding
    BY <1>1 DEF Content, Holding
  <2>4. whole \in [kept -> Backup]
    BY <1>1
  <2>5. \A a \in Areas : \A some \in SUBSET areas[a] : areas[a] # None => [areas EXCEPT ![a] = some] \in Content
    <3> HIDE DEF areas
    <3> QED
      BY <2>3 DEF Content, Holding
  <2>6. disk' \in Content
    BY <2>2, <2>3, <2>5
  <2>7. CASE backups' = whole
    <3>1. DOMAIN backups' = kept
      BY <2>7
    <3> HIDE DEF whole
    <3> QED
      BY <1>1, <1>2, <2>1, <2>4, <2>6, <2>7, <3>1
  <2>8. CASE \E b \in kept, a \in Areas :
               /\ ~b.compress /\ backups[b].held[a] # None
               /\ \E some \in (SUBSET backups[b].held[a]) \cup {None} :
                    backups' = [x \in kept |-> IF x = b THEN [backups[b] EXCEPT !.held[a] = some]
                                               ELSE backups[x]]
    <3>0. PICK b \in kept, a \in Areas : /\ backups[b].held[a] # None
             /\ \E some \in (SUBSET backups[b].held[a]) \cup {None} :
                  backups' = [x \in kept |-> IF x = b THEN [backups[b] EXCEPT !.held[a] = some]
                                             ELSE backups[x]]
      BY <2>8
    <3>1. PICK some \in (SUBSET backups[b].held[a]) \cup {None} :
             /\ backups[b].held[a] # None
             /\ backups' = [x \in kept |-> IF x = b THEN [backups[b] EXCEPT !.held[a] = some] ELSE backups[x]]
      BY <3>0
    <3>2. backups[b] \in Backup
      BY <1>1
    <3>3. some \in Holding
      BY <3>1, <3>2 DEF Backup, Content, Holding
    <3>4. PICK less : less = [backups[b] EXCEPT !.held[a] = some]
      OBVIOUS
    <3>5. less \in Backup
      BY <3>2, <3>3, <3>4, BackupWith
    <3>6. backups' = [x \in kept |-> IF x = b THEN less ELSE backups[x]]
      BY <3>1, <3>4
    <3>7. DOMAIN backups' = kept /\ backups' \in [kept -> Backup]
      BY <1>1, <3>5, <3>6
    <3> QED
      BY <1>1, <1>2, <2>1, <2>6, <3>7
  <2> QED
    BY <2>2, <2>7, <2>8
<1> QED
  BY <1>3, <1>4

(* A step of the restore takes, removes or brings back an area, or fails.   *)
LEMMA RestoreSteps ==
    ASSUME BackupsInv,
           \/ \E a \in Areas : TakeArea(a)
           \/ RemoveArea \/ CopyBack \/ CopyFails \/ Restored \/ RestoreFails
    PROVE  BackupsInv'
<1> USE BackupsAssumption
<1> DEFINE from == job.from  before == job.before
<1>1. BackupTypes /\ (Restoring => Way)
  BY DEF BackupsInv
<1>2. /\ job \in BackupJob /\ disk \in Content /\ UNCHANGED <<backups, second, written>>
      /\ Others' = Others /\ None \notin Areas
  BY <1>1 DEF TakeArea, RemoveArea, CopyBack, CopyFails, Restored, RestoreFails, BackupTypes, Others
<1>3. ASSUME job' = Returned(job, FALSE), disk' \in Content
      PROVE  BackupTypes'
  <2>1. job' \in BackupJob /\ job'.at = "returned"
    BY <1>2, <1>3 DEF BackupJob, Returned
  <2> QED
    BY <1>1, <1>2, <1>3, <2>1 DEF BackupTypes, Restoring
<1>4. ASSUME NEW a \in Areas, TakeArea(a)
      PROVE  BackupsInv'
  <2>1. job.at = "restore" /\ a \in job.todo /\ disk' = disk /\ Way /\ Restoring /\ job.from \in Content
    BY <1>1, <1>4 DEF TakeArea, Restoring, BackupTypes
  <2> DEFINE next == IF disk[a] # None /\ ~job.all THEN "remove" ELSE "put"
  <2>2. CASE disk[a] # None /\ ~job.overwrite /\ job' = [job EXCEPT !.todo = @ \ {a}]
    <3>1. /\ job' \in BackupJob /\ job'.at = "restore" /\ job'.todo = job.todo \ {a} /\ job'.area = job.area
          /\ job'.from = job.from /\ job'.before = job.before /\ job'.all = job.all
          /\ job'.asked = job.asked /\ job'.overwrite = job.overwrite /\ job'.result = job.result
      BY <1>2, <2>1, <2>2 DEF BackupJob
    <3>2. DueBack' = DueBack /\ (ReplacesAll' <=> ReplacesAll)
      BY <1>2, <3>1, SameCall
    <3>3. BackupTypes'
      BY <1>1, <1>2, <2>1, <3>1 DEF BackupTypes, Restoring
    <3>4. a \in Others => a \notin DueBack
      BY <2>1, <2>2 DEF Way, ReplacesAll, DueBack
    <3>5. Way'
      BY <1>2, <2>1, <3>1, <3>2, <3>4 DEF Way
    <3> QED
      BY <3>1, <3>3, <3>5 DEF BackupsInv, RestoresAreFaithful
  <2>3. CASE /\ disk[a] = None \/ job.overwrite
             /\ job' = [job EXCEPT !.todo = @ \ {a}, !.area = a, !.at = next]
    <3>1. next \in {"remove", "put"} /\ (~job.all => (next = "remove" <=> disk[a] # None))
          /\ (job.all => next = "put")
      OBVIOUS
    <3> HIDE DEF next
    <3>2. /\ job' \in BackupJob /\ job'.at = next /\ job'.todo = job.todo \ {a} /\ job'.area = a
          /\ job'.from = job.from /\ job'.before = job.before /\ job'.all = job.all
          /\ job'.asked = job.asked /\ job'.overwrite = job.overwrite /\ job'.result = job.result
      BY <1>2, <2>1, <2>3, <3>1 DEF BackupJob
    <3>3. DueBack' = DueBack /\ (ReplacesAll' <=> ReplacesAll)
      BY <1>2, <3>2, SameCall
    <3>4. BackupTypes'
      BY <1>1, <1>2, <2>1, <3>1, <3>2 DEF BackupTypes, Restoring
    <3>5. ~ReplacesAll => ~job.all
      BY <2>1 DEF Way, ReplacesAll
    <3>6. ~ReplacesAll /\ a \in Others => disk[a] = job.before[a]
      BY <2>1 DEF Way
    <3>7. job.from[a] # None /\ (~job.all => a \in job.asked)
      BY <2>1 DEF Way
    <3>8. a \in Others => a \in DueBack
      <4>1. CASE ReplacesAll
        BY <3>7, <4>1 DEF DueBack, ReplacesAll
      <4>2. CASE ~ReplacesAll
        BY <2>3, <3>5, <3>6, <3>7, <4>2 DEF DueBack
      <4> QED
        BY <4>1, <4>2
    <3>9. ~ReplacesAll /\ a \in Others => disk'[a] = IF job'.at = "remove" THEN job'.before[a] ELSE None
      BY <2>1, <3>1, <3>2, <3>5, <3>6
    <3>10. job.area = None
      BY <2>1 DEF Way
    <3>11. Way'
      BY <1>2, <2>1, <3>1, <3>2, <3>3, <3>7, <3>8, <3>9, <3>10 DEF Way, Others
    <3> QED
      BY <3>1, <3>2, <3>4, <3>11 DEF BackupsInv, RestoresAreFaithful
  <2> QED
    BY <1>4, <2>2, <2>3 DEF TakeArea
<1>5. CASE RemoveArea
  <2>1. job.at = "remove" /\ Way /\ Restoring /\ job.from \in Content
    BY <1>1, <1>5 DEF RemoveArea, Restoring, BackupTypes
  <2>2. /\ job.area \in Areas /\ job.from[job.area] # None /\ (job.area \in Others => job.area \in DueBack)
        /\ job.area \notin job.todo
        /\ ~ReplacesAll /\ job.area \in Others => disk[job.area] = job.before[job.area]
    BY <2>1 DEF Way
  <2>3. CASE disk' = [disk EXCEPT ![job.area] = None] /\ job' = [job EXCEPT !.at = "put"]
    <3>1. /\ job' \in BackupJob /\ job'.at = "put" /\ job'.todo = job.todo /\ job'.area = job.area
          /\ job'.from = job.from /\ job'.before = job.before /\ job'.all = job.all
          /\ job'.asked = job.asked /\ job'.overwrite = job.overwrite /\ job'.result = job.result
      BY <1>2, <2>1, <2>3 DEF BackupJob
    <3>2. DueBack' = DueBack /\ (ReplacesAll' <=> ReplacesAll)
      BY <1>2, <3>1, SameCall
    <3>3. /\ disk' \in Content /\ disk'[job.area] = None
          /\ \A a \in Areas \ {job.area} : disk'[a] = disk[a]
      BY <1>2, <2>2, <2>3 DEF Content, Holding
    <3>4. BackupTypes'
      BY <1>1, <1>2, <2>1, <3>1, <3>3 DEF BackupTypes, Restoring
    <3>5. Way'
      BY <1>2, <2>1, <2>2, <3>1, <3>2, <3>3 DEF Way, Others
    <3> QED
      BY <3>1, <3>4, <3>5 DEF BackupsInv, RestoresAreFaithful
  <2>4. CASE /\ \E some \in IF disk[job.area] = None THEN {None} ELSE SUBSET disk[job.area] :
                  disk' = [disk EXCEPT ![job.area] = some]
             /\ job' = Returned(job, FALSE)
    <3>1. PICK some \in IF disk[job.area] = None THEN {None} ELSE SUBSET disk[job.area] :
              disk' = [disk EXCEPT ![job.area] = some]
      BY <2>4
    <3>2. some \in Holding /\ (some # None => some \subseteq Over(disk[job.area], {}))
      <4>1. disk[job.area] \in Holding
        BY <1>2, <2>2 DEF Content
      <4> QED
        BY <3>1, <4>1 DEF Holding, Over
    <3>3. /\ disk' \in Content /\ disk'[job.area] = some
          /\ \A a \in Areas \ {job.area} : disk'[a] = disk[a]
      BY <1>2, <2>2, <3>1, <3>2 DEF Content
    <3>4. BackupTypes'
      BY <1>3, <2>4, <3>3
    <3>5. ~ReplacesAll /\ job.area \in Others /\ disk'[job.area] # None =>
             disk'[job.area] \subseteq Over(job.before[job.area], {})
      BY <2>2, <3>2, <3>3
    <3> QED
      BY <1>1, <1>2, <2>1, <2>2, <2>4, <3>3, <3>4, <3>5, RestoreEnds
  <2> QED
    BY <1>5, <2>3, <2>4 DEF RemoveArea
<1>6. ASSUME job.at = "put", NEW some \in SUBSET job.from[job.area]
      PROVE  /\ Over(disk[job.area], some) \in Holding
             /\ job.area \in Areas /\ [disk EXCEPT ![job.area] = Over(@, some)] \in Content
             /\ disk[job.area] = None => Over(disk[job.area], some) = some
             /\ some \subseteq Over(job.from[job.area], {})
  <2>1. job.area \in Areas /\ job.from[job.area] # None /\ job.from \in Content
    BY <1>1, <1>6 DEF Way, Restoring, BackupTypes
  <2>2. disk[job.area] \in Holding /\ some \in SUBSET Names
    BY <1>2, <2>1 DEF Content, Holding
  <2>3. Over(disk[job.area], some) \in Holding
    BY <2>2, OverTypes
  <2>4. [disk EXCEPT ![job.area] = Over(@, some)] \in Content
    BY <1>2, <2>1, <2>3 DEF Content
  <2> QED
    BY <2>1, <2>3, <2>4 DEF Over
<1>7. CASE CopyBack
  <2>1. job.at = "put" /\ Way /\ Restoring /\ job.from \in Content
        /\ disk' = [disk EXCEPT ![job.area] = Over(@, job.from[job.area])]
        /\ job' = [job EXCEPT !.at = "restore", !.area = None]
    BY <1>1, <1>7 DEF CopyBack, Restoring, BackupTypes
  <2>2. /\ job.area \in Areas /\ job.from[job.area] # None /\ (job.area \in Others => job.area \in DueBack)
        /\ job.area \notin job.todo
        /\ ~ReplacesAll /\ job.area \in Others => disk[job.area] = None
    BY <2>1 DEF Way
  <2>3. /\ job' \in BackupJob /\ job'.at = "restore" /\ job'.todo = job.todo /\ job'.area = None
        /\ job'.from = job.from /\ job'.before = job.before /\ job'.all = job.all
        /\ job'.asked = job.asked /\ job'.overwrite = job.overwrite /\ job'.result = job.result
    BY <1>2, <2>1 DEF BackupJob
  <2>4. DueBack' = DueBack /\ (ReplacesAll' <=> ReplacesAll)
    BY <1>2, <2>3, SameCall
  <2>5. /\ disk' \in Content /\ disk'[job.area] = Over(disk[job.area], job.from[job.area])
        /\ \A a \in Areas \ {job.area} : disk'[a] = disk[a]
        /\ disk[job.area] = None => disk'[job.area] = job.from[job.area]
    BY <1>2, <1>6, <2>1, <2>2 DEF Content
  <2>6. BackupTypes'
    BY <1>1, <1>2, <2>1, <2>3, <2>5 DEF BackupTypes, Restoring
  <2>7. job.area \in Others => disk[job.area] = None
    BY <2>1, <2>2 DEF Way
  <2>8. Way'
    BY <1>2, <2>1, <2>2, <2>3, <2>4, <2>5, <2>7 DEF Way, Others
  <2> QED
    BY <2>3, <2>6, <2>8 DEF BackupsInv, RestoresAreFaithful
<1>8. CASE CopyFails
  <2>1. /\ job.at = "put" /\ Way /\ Restoring /\ job.from \in Content
        /\ \/ job' = Returned(job, FALSE)
           \/ job.all /\ job' = [job EXCEPT !.at = "restore", !.area = None, !.result = FALSE]
    BY <1>1, <1>8 DEF CopyFails, Restoring, BackupTypes
  <2>2. /\ job.area \in Areas /\ job.from[job.area] # None /\ (job.area \in Others => job.area \in DueBack)
        /\ job.area \notin job.todo /\ (job.area \in Others => disk[job.area] = None)
    BY <2>1 DEF Way
  <2>3. /\ disk' \in Content /\ \A a \in Areas \ {job.area} : disk'[a] = disk[a]
        /\ disk[job.area] = None /\ disk'[job.area] # None => disk'[job.area] \subseteq Over(job.from[job.area], {})
    <3>1. CASE disk' = disk
      BY <1>2, <3>1
    <3>2. CASE \E some \in SUBSET job.from[job.area] : disk' = [disk EXCEPT ![job.area] = Over(@, some)]
      <4>1. PICK some \in SUBSET job.from[job.area] : disk' = [disk EXCEPT ![job.area] = Over(@, some)]
        BY <3>2
      <4>2. /\ [disk EXCEPT ![job.area] = Over(@, some)] \in Content
            /\ disk[job.area] = None => Over(disk[job.area], some) = some
            /\ some \subseteq Over(job.from[job.area], {})
        BY <1>6, <2>1
      <4>3. PICK full : full = Over(disk[job.area], some)
        OBVIOUS
      <4>4. disk' = [disk EXCEPT ![job.area] = full]
        BY <4>1, <4>3
      <4>5. disk'[job.area] = full /\ \A a \in Areas \ {job.area} : disk'[a] = disk[a]
        BY <1>2, <2>2, <4>4 DEF Content
      <4> QED
        BY <4>1, <4>2, <4>3, <4>5
    <3> QED
      BY <1>8, <3>1, <3>2 DEF CopyFails
  <2>4. CASE job' = Returned(job, FALSE)
    <3>1. BackupTypes'
      BY <1>3, <2>3, <2>4
    <3> QED
      BY <1>1, <1>2, <2>1, <2>2, <2>3, <2>4, <3>1, RestoreEnds
  <2>5. CASE job.all /\ job' = [job EXCEPT !.at = "restore", !.area = None, !.result = FALSE]
    <3>1. /\ job' \in BackupJob /\ job'.at = "restore" /\ job'.todo = job.todo /\ job'.area = None
          /\ job'.from = job.from /\ job'.before = job.before /\ job'.all = job.all
          /\ job'.asked = job.asked /\ job'.overwrite = job.overwrite /\ job'.result = FALSE
      BY <1>2, <2>5 DEF BackupJob
    <3>2. DueBack' = DueBack /\ (ReplacesAll' <=> ReplacesAll)
      BY <1>2, <3>1, SameCall
    <3>3. BackupTypes'
      BY <1>1, <1>2, <2>1, <2>3, <3>1 DEF BackupTypes, Restoring
    <3>4. ReplacesAll /\ job'.result # None
      BY <2>1, <2>5, <3>1, BackupsAssumption DEF Way, ReplacesAll
    <3>5. Way'
      BY <1>2, <2>1, <2>2, <2>3, <3>1, <3>2, <3>4 DEF Way, Others
    <3> QED
      BY <3>1, <3>3, <3>5 DEF BackupsInv, RestoresAreFaithful
  <2> QED
    BY <2>1, <2>4, <2>5
<1>9. ASSUME job.at = "restore", NEW result \in BOOLEAN, job' = Returned(job, result), disk' = disk,
             result => job.result = None /\ job.todo = {}
      PROVE  BackupsInv'
  <2>1. Way /\ Restoring /\ BackupTypes /\ job.area = None
    BY <1>1, <1>9 DEF Restoring, Way
  <2>2. job' \in BackupJob /\ job'.at = "returned"
    BY <1>2, <1>9 DEF BackupJob, Returned
  <2>3. BackupTypes'
    BY <1>1, <1>2, <1>9, <2>2 DEF BackupTypes, Restoring
  <2>4. "rest" \in Areas
    BY DEF Areas
  <2> QED
    BY <1>2, <1>9, <2>1, <2>3, <2>4, RestoreEnds
<1>10. CASE Restored
  <2>1. /\ job.at = "restore" /\ job.todo = {} /\ job' = Returned(job, job.result = None) /\ disk' = disk
    BY <1>10 DEF Restored
  <2>2. (job.result = None) \in BOOLEAN
    OBVIOUS
  <2> QED
    BY <1>9, <2>1, <2>2
<1>11. CASE RestoreFails
  <2>1. job.at \in {"restore", "replace"} /\ job' = Returned(job, FALSE) /\ disk' = disk
    BY <1>11 DEF RestoreFails
  <2>2. CASE job.at = "restore"
    BY <1>9, <2>1, <2>2
  <2>3. CASE job.at = "replace"
    <3>1. BackupTypes'
      BY <1>2, <1>3, <2>1
    <3>2. job'.at = "returned" /\ job'.result = FALSE /\ ReplacesAll'
      BY <1>1, <1>2, <2>1, <2>3 DEF BackupTypes, BackupJob, Returned, ReplacesAll
    <3> QED
      BY <3>1, <3>2 DEF BackupsInv, RestoresAreFaithful, Restoring
  <2> QED
    BY <2>1, <2>2, <2>3
<1> QED
  BY <1>4, <1>5, <1>7, <1>8, <1>10, <1>11

(* What the agent writes makes an area one that is not judged.              *)
LEMMA AgentSteps ==
    ASSUME BackupsInv, NEW area \in Kept, NEW x \in Holding, AgentWrites(area, x)
    PROVE  BackupsInv'
<1>1. /\ disk' = [disk EXCEPT ![area] = x] /\ written' = written \cup {area} /\ UNCHANGED <<backups, job, second>>
  BY DEF AgentWrites
<1>2. BackupTypes /\ disk \in Content /\ (Restoring => Way) /\ RestoresAreFaithful /\ area \in Areas
  BY DEF BackupsInv, BackupTypes, Areas
<1>3. /\ disk' \in Content /\ \A a \in Others' : a \in Others /\ disk'[a] = disk[a]
  BY <1>1, <1>2 DEF Others, Content
<1>4. /\ DueBack' = DueBack /\ (ReplacesAll' <=> ReplacesAll) /\ (Restoring' <=> Restoring)
  BY <1>1 DEF DueBack, ReplacesAll, Restoring
<1>5. BackupTypes'
  BY <1>1, <1>2, <1>3 DEF BackupTypes, Restoring, ReplacesAll
<1>6. Restoring => Way'
  BY <1>1, <1>2, <1>3, <1>4 DEF Way
<1>7. RestoresAreFaithful'
  <2> SUFFICES ASSUME job.at = "returned", job.before # None PROVE RestoresAreFaithful'
    BY <1>1 DEF RestoresAreFaithful
  <2>1. job.result => \A a \in Others' \cap DueBack : disk'[a] = job.from[a]
    BY <1>2, <1>3 DEF RestoresAreFaithful
  <2>2. ~ReplacesAll => \A a \in Others' \ DueBack : disk'[a] = job.before[a]
    BY <1>2, <1>3 DEF RestoresAreFaithful
  <2>3. CASE ReplacesAll
    BY <1>1, <1>4, <2>1, <2>3 DEF RestoresAreFaithful
  <2>4. CASE ~ReplacesAll
    <3>1. PICK one \in Areas :
             /\ \A a \in Others \ {one} : disk[a] \in {job.before[a], job.from[a]}
             /\ one \in Others /\ disk[one] # None =>
                  disk[one] \subseteq Over(job.before[one], {}) \/ disk[one] \subseteq Over(job.from[one], {})
      BY <1>2, <2>4 DEF RestoresAreFaithful
    <3>2. /\ \A a \in Others' \ {one} : disk'[a] \in {job.before[a], job.from[a]}
          /\ one \in Others' /\ disk'[one] # None =>
                disk'[one] \subseteq Over(job.before[one], {}) \/ disk'[one] \subseteq Over(job.from[one], {})
      BY <1>3, <3>1
    <3> QED
      BY <1>1, <1>4, <2>1, <2>2, <3>2 DEF RestoresAreFaithful
  <2> QED
    BY <2>3, <2>4
<1> QED
  BY <1>4, <1>5, <1>6, <1>7 DEF BackupsInv

(* The invariant holds of every behaviour of the backups.                   *)
THEOREM BackupsInductive == BackupsSpec => []BackupsInv
<1>1. BackupsInv /\ UNCHANGED backupVars => BackupsInv'
  BY DEF BackupsInv, backupVars, BackupTypes, Restoring, Way, RestoresAreFaithful, Others, DueBack, ReplacesAll
<1>2. BackupsInv /\ [BackupsNext]_backupVars => BackupsInv'
  BY <1>1, CreateSteps, RestoreBegins, ReplaceSteps, RestoreSteps, AgentSteps DEF BackupsNext
<1> QED
  BY BackupsStart, <1>2, PTL DEF BackupsSpec

(* A restore has put back what it says and left the rest alone, for any     *)
(* areas and contents, wherever in an area it failed and whatever the agent *)
(* wrote to other areas meanwhile.                                          *)
THEOREM RestoresStayFaithful == BackupsSpec => []RestoresAreFaithful
<1>1. BackupsInv => RestoresAreFaithful
  BY DEF BackupsInv
<1> QED
  BY BackupsInductive, <1>1, PTL

-----------------------------------------------------------------------------
(* The plugin manager.                                                      *)

Installing == task.at \in {"download", "extract", "verify"}

PluginTypes ==
    /\ index \in [PluginNames -> SUBSET (1..MaxVersion)]
    /\ installed \in Listing /\ installedFile \in Listing \cup {None}
    /\ dirs \in [PluginNames -> 0..Partly]
    /\ undone \subseteq PluginNames /\ broken \subseteq PluginNames /\ forced \subseteq PluginNames
    /\ unsaved \in BOOLEAN
    /\ task \in [at : {"ready", "download", "extract", "verify", "forget", "save"},
                name : PluginNames \cup {None}, version : 0..MaxVersion]
    /\ Installing => task.name \in PluginNames /\ task.version \in 1..MaxVersion
    /\ task.at \in {"forget", "save"} => task.name \in PluginNames

(* What is in the directory of a plugin at which nothing is at work.        *)
InPlace(n) == dirs[n] = IF n \in undone THEN 0 ELSE installed[n]

(* What a plugin needs by both its entries is listed.                       *)
Closed ==
    \A n \in PluginNames : Listed(n) =>
        \A d \in Requires[n][installed[n]] \cap Declares[n][installed[n]] : Listed(d) \/ d \in forced

(* What is being installed can be listed, for what it requires is, and what *)
(* is being removed may be, for nothing declares it.                        *)
InTime ==
    /\ installedFile = installed \/ (installedFile = None /\ (unsaved \/ At("save")))
    /\ \A n \in PluginNames \ broken :
         InPlace(n) \/ (task.at \in {"extract", "verify"} /\ n = task.name)
    /\ At("verify") /\ task.name \notin broken => dirs[task.name] = task.version
    /\ Installing => /\ task.name \in undone
                     /\ \A d \in Requires[task.name][task.version] : Listed(d)
    /\ At("forget") => /\ task.name \in broken \/ dirs[task.name] = 0
                       /\ task.name \in forced \/ Dependents(task.name) = {}
    /\ Closed

PluginsInv == PluginTypes /\ InTime

-----------------------------------------------------------------------------
(* At the beginning nothing is installed.                                   *)
LEMMA PluginsStart == PluginsInit => PluginsInv
<1> SUFFICES ASSUME PluginsInit PROVE PluginsInv
  OBVIOUS
<1>1. PluginTypes
  <2>1. installed \in Listing /\ installedFile \in Listing
    BY PluginsAssumption DEF PluginsInit, Listing
  <2>2. dirs \in [PluginNames -> 0..Partly]
    BY PluginsAssumption DEF PluginsInit, Partly
  <2>3. /\ task \in [at : {"ready", "download", "extract", "verify", "forget", "save"},
                     name : PluginNames \cup {None}, version : 0..MaxVersion]
        /\ task.at = "ready"
    BY PluginsAssumption DEF PluginsInit, Ready
  <2> QED
    BY <2>1, <2>2, <2>3 DEF PluginsInit, PluginTypes, Installing, At
<1>2. InTime
  BY DEF PluginsInit, InTime, Closed, InPlace, Installing, Ready, At, Listed
<1> QED
  BY <1>1, <1>2 DEF PluginsInv

(* A step keeps the types.                                                  *)
LEMMA PluginsStepTypes == PluginTypes /\ [PluginsNext]_pluginVars => PluginTypes'
<1> SUFFICES ASSUME PluginTypes, [PluginsNext]_pluginVars PROVE PluginTypes'
  OBVIOUS
<1> USE PluginsAssumption DEF PluginTypes, Installing, At, Step, Ready, Listing, Partly
<1>1. ASSUME NEW n \in PluginNames, RemoveHalf(n)
      PROVE  /\ dirs' \in [PluginNames -> 0..Partly] /\ broken' \subseteq PluginNames /\ task' = Ready
             /\ task' \in [at : {"ready", "download", "extract", "verify", "forget", "save"},
                           name : PluginNames \cup {None}, version : 0..MaxVersion]
  <2>1. Partly \in 0..Partly
    OBVIOUS
  <2> QED
    BY <1>1, <2>1 DEF RemoveHalf
<1>2. ASSUME NEW n \in PluginNames, NEW version \in 1..MaxVersion \cup {None},
             NEW force \in BOOLEAN, Install(n, version, force)
      PROVE  PluginTypes'
  <2>1. PICK v \in Chosen(n, version) :
          \/ /\ Remove(n) /\ task' = [at |-> "download", name |-> n, version |-> v]
             /\ undone' = undone \cup {n} /\ broken' = broken \ {n}
          \/ RemoveHalf(n) /\ UNCHANGED undone
    BY <1>2 DEF Install
  <2>2. v \in 1..MaxVersion
    BY DEF Chosen
  <2>3. UNCHANGED <<index, installed, installedFile, forced, unsaved>>
    BY <1>2 DEF Install
  <2>4. CASE RemoveHalf(n) /\ UNCHANGED undone
    BY <1>1, <2>3, <2>4
  <2>5. CASE /\ Remove(n) /\ task' = [at |-> "download", name |-> n, version |-> v]
             /\ undone' = undone \cup {n} /\ broken' = broken \ {n}
    BY <2>2, <2>3, <2>5 DEF Remove
  <2> QED
    BY <2>1, <2>4, <2>5
<1>3. CASE Extract
  <2>1. Partly \in 0..Partly
    OBVIOUS
  <2>2. dirs' \in [PluginNames -> 0..Partly]
    BY <1>3, <2>1 DEF Extract
  <2> QED
    BY <1>3, <2>2 DEF Extract
<1>4. CASE Extracted
  <2>1. task.version \in 0..Partly
    OBVIOUS
  <2>2. dirs' \in [PluginNames -> 0..Partly]
    BY <1>4, <2>1 DEF Extracted
  <2> QED
    BY <1>4, <2>2 DEF Extracted
<1>5. CASE InstallFails
  BY <1>1, <1>5 DEF InstallFails, Remove
<1>6. CASE Register
  BY <1>6 DEF Register
<1>7. ASSUME NEW n \in PluginNames, NEW force \in BOOLEAN, Uninstall(n, force)
      PROVE  PluginTypes'
  <2>1. CASE RemoveHalf(n) /\ UNCHANGED <<undone, forced>>
    BY <1>1, <1>7, <2>1 DEF Uninstall
  <2>2. CASE /\ Remove(n) /\ task' = [at |-> "forget", name |-> n, version |-> 0]
             /\ undone' = undone \cup {n} /\ broken' = broken \ {n}
             /\ forced' = IF force THEN forced \cup {n} ELSE forced
    BY <1>7, <2>2 DEF Uninstall, Remove
  <2> QED
    BY <1>7, <2>1, <2>2 DEF Uninstall
<1>8. CASE Forget
  <2>1. 0 \in 0..MaxVersion /\ task.name \in PluginNames
    BY <1>8 DEF Forget
  <2>2. installed' \in [PluginNames -> 0..MaxVersion]
    BY <1>8, <2>1 DEF Forget
  <2>3. /\ installedFile' = None /\ undone' \subseteq PluginNames /\ task' = [task EXCEPT !.at = "save"]
        /\ UNCHANGED <<index, dirs, broken, forced, unsaved>>
    BY <1>8 DEF Forget
  <2> QED
    BY <2>1, <2>2, <2>3
<1>9. ASSUME NEW n \in PluginNames, SetEnabled(n) PROVE PluginTypes'
  BY <1>9 DEF SetEnabled
<1>10. CASE Saved
  <2>1. /\ installedFile' = installed /\ unsaved' = FALSE /\ task' = Ready
        /\ UNCHANGED <<index, installed, dirs, undone, broken, forced>>
    BY <1>10 DEF Saved
  <2>2. 0 \in 0..MaxVersion
    OBVIOUS
  <2> QED
    BY <2>1, <2>2
<1>11. CASE SaveFails
  BY <1>1, <1>11 DEF SaveFails, Remove
<1>12. CASE ManagerRestarts
  BY <1>12 DEF ManagerRestarts
<1>13. CASE RefreshIndex \/ UNCHANGED pluginVars
  BY <1>13 DEF RefreshIndex, pluginVars
<1> QED
  BY <1>2, <1>3, <1>4, <1>5, <1>6, <1>7, <1>8, <1>9, <1>10, <1>11, <1>12, <1>13 DEF PluginsNext

(* A step leaves things in time.                                            *)
LEMMA PluginsStepInTime == PluginTypes /\ InTime /\ [PluginsNext]_pluginVars => InTime'
<1> SUFFICES ASSUME PluginTypes, InTime, [PluginsNext]_pluginVars PROVE InTime'
  OBVIOUS
<1> USE PluginsAssumption DEF PluginTypes, Installing, At, Step, Ready, Listing, Listed, InPlace, InTime, Closed
<1>1. ASSUME NEW n \in PluginNames, RemoveHalf(n), UNCHANGED <<installed, installedFile, forced>>,
             At("ready") \/ n = task.name, undone' = undone \/ undone' = undone \cup {n},
             unsaved' = TRUE \/ (unsaved' = unsaved /\ ~At("save"))
      PROVE  InTime'
  <2>1. /\ dirs' = [dirs EXCEPT ![n] = Partly] /\ broken' = broken \cup {n} /\ task' = Ready
        /\ UNCHANGED <<installed, installedFile, forced>>
    BY <1>1 DEF RemoveHalf
  <2>2. ASSUME NEW m \in PluginNames \ broken'
        PROVE  dirs'[m] = IF m \in undone' THEN 0 ELSE installed'[m]
    <3>1. m # n /\ m \notin broken /\ dirs'[m] = dirs[m] /\ (m \in undone' <=> m \in undone)
      BY <1>1, <2>1, <2>2
    <3>2. dirs[m] = IF m \in undone THEN 0 ELSE installed[m]
      BY <1>1, <3>1
    <3> QED
      BY <2>1, <3>1, <3>2
  <2>3. installedFile' = installed' \/ (installedFile' = None /\ unsaved')
    BY <1>1, <2>1
  <2>4. Closed'
    BY <2>1
  <2> QED
    BY <2>1, <2>2, <2>3, <2>4
<1>2. ASSUME NEW n \in PluginNames, NEW version \in 1..MaxVersion \cup {None},
             NEW force \in BOOLEAN, Install(n, version, force)
      PROVE  InTime'
  <2>1. PICK v \in Chosen(n, version) :
          /\ \A d \in Requires[n][v] : Listed(d)
          /\ \/ /\ Remove(n) /\ task' = [at |-> "download", name |-> n, version |-> v]
                /\ undone' = undone \cup {n} /\ broken' = broken \ {n}
             \/ RemoveHalf(n) /\ UNCHANGED undone
    BY <1>2 DEF Install
  <2>2. v \in 1..MaxVersion
    BY DEF Chosen
  <2>3. UNCHANGED <<installed, installedFile, forced, unsaved>> /\ At("ready")
    BY <1>2 DEF Install
  <2>4. CASE RemoveHalf(n) /\ UNCHANGED undone
    BY <1>1, <2>3, <2>4
  <2>5. CASE /\ Remove(n) /\ task' = [at |-> "download", name |-> n, version |-> v]
             /\ undone' = undone \cup {n} /\ broken' = broken \ {n}
    BY <2>1, <2>2, <2>3, <2>5 DEF Remove
  <2> QED
    BY <2>1, <2>4, <2>5
<1>3. CASE Extract
  BY <1>3 DEF Extract
<1>4. CASE Extracted
  BY <1>4 DEF Extracted, Partly
<1>5. CASE InstallFails
  <2>1. CASE RemoveHalf(task.name)
    BY <1>1, <1>5, <2>1 DEF InstallFails
  <2>2. CASE Remove(task.name) /\ task' = Ready /\ UNCHANGED broken
    BY <1>5, <2>2 DEF InstallFails, Remove
  <2> QED
    BY <1>5, <2>1, <2>2 DEF InstallFails
<1>6. CASE Register
  BY <1>6 DEF Register
<1>7. ASSUME NEW n \in PluginNames, NEW force \in BOOLEAN, Uninstall(n, force)
      PROVE  InTime'
  <2>1. CASE RemoveHalf(n) /\ UNCHANGED <<undone, forced>>
    BY <1>1, <1>7, <2>1 DEF Uninstall
  <2>2. CASE /\ Remove(n) /\ task' = [at |-> "forget", name |-> n, version |-> 0]
             /\ undone' = undone \cup {n} /\ broken' = broken \ {n}
             /\ forced' = IF force THEN forced \cup {n} ELSE forced
    BY <1>7, <2>2 DEF Uninstall, Remove, Dependents
  <2> QED
    BY <1>7, <2>1, <2>2 DEF Uninstall
<1>8. CASE Forget
  BY <1>8 DEF Forget, Dependents
<1>9. ASSUME NEW n \in PluginNames, SetEnabled(n) PROVE InTime'
  BY <1>9 DEF SetEnabled
<1>10. CASE Saved
  BY <1>10 DEF Saved
<1>11. CASE SaveFails
  <2>1. CASE task.version = 0
    BY <1>11, <2>1 DEF SaveFails
  <2>2. CASE task.version # 0 /\ RemoveHalf(task.name) /\ UNCHANGED undone
    BY <1>1, <1>11, <2>2 DEF SaveFails
  <2>3. CASE /\ task.version # 0 /\ Remove(task.name) /\ task' = Ready /\ UNCHANGED broken
             /\ undone' = undone \cup {task.name}
    BY <1>11, <2>3 DEF SaveFails, Remove
  <2> QED
    BY <1>11, <2>1, <2>2, <2>3 DEF SaveFails
<1>12. CASE ManagerRestarts
  BY <1>12, NoListAssumption DEF ManagerRestarts
<1>13. CASE RefreshIndex \/ UNCHANGED pluginVars
  BY <1>13 DEF RefreshIndex, pluginVars, Dependents
<1> QED
  BY <1>2, <1>3, <1>4, <1>5, <1>6, <1>7, <1>8, <1>9, <1>10, <1>11, <1>12, <1>13 DEF PluginsNext

(* However installs, updates, failures, kills and removals follow each      *)
(* other, for any plugins, versions, and entries of the index and of the    *)
(* manifests: what lies in the directories is what is listed, but at plugins*)
(* where something broke off, and what is listed has all that both its      *)
(* entries name.                                                            *)
THEOREM PluginsStayAsListed == PluginsSpec => []PluginsAreAsListed
<1>1. PluginsInv /\ [PluginsNext]_pluginVars => PluginsInv'
  BY PluginsStepTypes, PluginsStepInTime DEF PluginsInv
<1>2. PluginsInv => PluginsAreAsListed
  BY DEF PluginsInv, PluginTypes, InTime, Closed, InPlace, At, PluginsAreAsListed
<1> QED
  BY PluginsStart, <1>1, <1>2, PTL DEF PluginsSpec

-----------------------------------------------------------------------------
(* Approval of memories.                                                    *)

Distinct(s) == \A m, n \in DOMAIN s : s[m] = s[n] => m = n

(* What the command in hand knows of the two files, at each of its stages.  *)
AtWork(w, pend, appr) ==
    /\ w.pc = "emptyPending" =>
         /\ w.does # "store" /\ Distinct(w.lines) /\ Holds(pend, w.item)
         /\ \A i \in Items : Holds(w.lines, i) <=> Holds(pend, i) /\ i # w.item
    /\ w.pc = "fillPending" =>
         /\ w.does # "store" /\ Distinct(w.lines) /\ pend = <<>> /\ ~Holds(w.lines, w.item)
         /\ \A i \in Items : ~(Holds(w.lines, i) /\ Holds(appr, i))
    /\ w.pc = "readApproved" => \A i \in Items : Holds(w.lines, i) => Holds(pend, i)
    /\ w.pc = "emptyApproved" =>
         \A i \in Items : Holds(w.lines, i) <=> Holds(appr, i) \/ i = w.item
    /\ w.pc = "fillApproved" => appr = <<>>
    /\ w.pc \in {"emptyApproved", "fillApproved"} =>
         /\ Distinct(w.lines) /\ Holds(w.lines, w.item)
         /\ \A i \in Items : ~(Holds(w.lines, i) /\ Holds(pend, i))
    /\ w.pc # "emptyPending" => ~Holds(pend, w.item) /\ ~Holds(appr, w.item)

(* No item is twice in the files, and those that are known are in them or   *)
(* with the command in hand.                                                *)
Apart(pend, appr, w, fates) ==
    /\ Distinct(pend) /\ Distinct(appr)
    /\ \A i \in Items :
         /\ ~(Holds(pend, i) /\ Holds(appr, i))
         /\ fates[i] = "known" <=>
              \/ Holds(pend, i) \/ Holds(appr, i)
              \/ w # None /\ (w.item = i \/ Holds(w.lines, i))
    /\ w # None => AtWork(w, pend, appr)

(* No command is in hand but w, if that is one.                             *)
Only(w) ==
    IF w = None THEN \A p \in Reviewers : work[p] = None
    ELSE \E p \in Reviewers : work[p] = w /\ \A q \in Reviewers \ {p} : work[q] = None

Alone == \E w \in Commands \cup {None} : Only(w) /\ Apart(pending, approved, w, fate)

ApprovalInv == MemoryTypeOK /\ (~overlap => Alone)

-----------------------------------------------------------------------------
(* An empty file.                                                           *)
LEMMA NothingKept == <<>> \in Seq(Items) /\ Distinct(<<>>) /\ \A x : ~Holds(<<>>, x)
  BY DEF Distinct, Holds

(* A file with an item more.                                                *)
LEMMA AppendedItem ==
    ASSUME NEW file \in Seq(Items), NEW i \in Items
    PROVE  /\ Append(file, i) \in Seq(Items)
           /\ \A x : Holds(Append(file, i), x) <=> Holds(file, x) \/ x = i
           /\ Distinct(file) /\ ~Holds(file, i) => Distinct(Append(file, i))
<1> DEFINE new == Append(file, i)
<1>1. /\ new \in Seq(Items) /\ Len(new) = Len(file) + 1 /\ Len(file) \in Nat
      /\ DOMAIN file = 1..Len(file) /\ DOMAIN new = 1..(Len(file) + 1)
      /\ new[Len(file) + 1] = i
      /\ \A k \in 1..Len(file) : new[k] = file[k]
  BY AppendProperties, LenProperties
<1> HIDE DEF new
<1>2. ASSUME NEW x
      PROVE  Holds(new, x) <=> Holds(file, x) \/ x = i
  <2>1. ASSUME Holds(new, x) PROVE Holds(file, x) \/ x = i
    <3>1. PICK k \in DOMAIN new : new[k] = x
      BY <2>1 DEF Holds
    <3>2. k = Len(file) + 1 \/ k \in 1..Len(file)
      BY <1>1
    <3> QED
      BY <1>1, <3>1, <3>2 DEF Holds
  <2>2. ASSUME Holds(file, x) PROVE Holds(new, x)
    <3>1. PICK k \in DOMAIN file : file[k] = x
      BY <2>2 DEF Holds
    <3>2. k \in DOMAIN new
      BY <1>1
    <3> QED
      BY <1>1, <3>1, <3>2 DEF Holds
  <2>3. Holds(new, i)
    <3>1. Len(file) + 1 \in DOMAIN new
      BY <1>1
    <3> QED
      BY <1>1, <3>1 DEF Holds
  <2> QED
    BY <2>1, <2>2, <2>3
<1>3. ASSUME Distinct(file), ~Holds(file, i)
      PROVE  Distinct(new)
  <2> SUFFICES ASSUME NEW m \in DOMAIN new, NEW n \in DOMAIN new, new[m] = new[n]
               PROVE  m = n
    BY DEF Distinct
  <2>1. (m = Len(file) + 1 \/ m \in DOMAIN file) /\ (n = Len(file) + 1 \/ n \in DOMAIN file)
    BY <1>1
  <2>2. \A k \in DOMAIN file : file[k] # i
    BY <1>3 DEF Holds
  <2> QED
    BY <1>1, <1>3, <2>1, <2>2 DEF Distinct
<1> QED
  BY <1>1, <1>2, <1>3 DEF new

(* A file without one of its items.                                         *)
LEMMA WithoutItem ==
    ASSUME NEW file \in Seq(Items), NEW i \in Items, Holds(file, i)
    PROVE  /\ Without(file, i) \in Seq(Items)
           /\ Distinct(file) =>
                /\ Distinct(Without(file, i))
                /\ \A x : Holds(Without(file, i), x) <=> Holds(file, x) /\ x # i
<1> DEFINE First(n) == file[n] = i /\ \A m \in 1..(n - 1) : file[m] # i
           first == CHOOSE n \in DOMAIN file : First(n)
           before == SubSeq(file, 1, first - 1)
           after == SubSeq(file, first + 1, Len(file))
           new == before \o after
           size == Len(file)
<1>1. size \in Nat /\ DOMAIN file = 1..size
  BY LenProperties
<1>2. first \in 1..size /\ file[first] = i
  <2> DEFINE places == {n \in 1..size : file[n] = i}
  <2> HIDE DEF size
  <2>1. places \in SUBSET Nat /\ places # {}
    BY <1>1 DEF Holds
  <2>2. PICK n \in places : \A k \in places : n <= k
    <3> HIDE DEF places
    <3> QED
      BY <2>1, LeastNatural
  <2>3. \A m \in 1..(n - 1) : file[m] # i
    BY <1>1, <2>2
  <2>4. \E n_1 \in DOMAIN file : First(n_1)
    BY <1>1, <2>2, <2>3
  <2> HIDE DEF First
  <2>5. first \in DOMAIN file /\ First(first)
    BY <2>4
  <2> QED
    BY <1>1, <2>5 DEF First
<1>3. new = Without(file, i)
  BY DEF Without
<1> HIDE DEF first
<1>4. first - 1 \in 0..size /\ first \in 0..size
  <2> HIDE DEF size
  <2> QED
    BY <1>1, <1>2
<1>5. /\ before \in Seq(Items) /\ Len(before) = first - 1
      /\ \A k \in 1..(first - 1) : before[k] = file[k]
  BY <1>4, CutSequence
<1>6. /\ after \in Seq(Items) /\ Len(after) = size - first
      /\ \A k \in 1..(size - first) : after[k] = file[first + k]
  BY <1>4, CutSequence
<1> HIDE DEF before, after
<1>7. /\ new \in Seq(Items) /\ Len(new) = Len(before) + Len(after) /\ DOMAIN new = 1..Len(new)
      /\ \A k \in 1..(Len(before) + Len(after)) :
            new[k] = IF k <= Len(before) THEN before[k] ELSE after[k - Len(before)]
  <2>1. new \in Seq(Items) /\ Len(new) = Len(before) + Len(after)
        /\ \A k \in 1..(Len(before) + Len(after)) :
              new[k] = IF k <= Len(before) THEN before[k] ELSE after[k - Len(before)]
    BY <1>5, <1>6, ConcatProperties
  <2> HIDE DEF new
  <2> QED
    BY <2>1, LenProperties
<1> HIDE DEF new, size
<1>8. DOMAIN new = 1..(size - 1)
  BY <1>1, <1>2, <1>5, <1>6, <1>7
<1>9. \A k \in 1..(first - 1) : k \in DOMAIN new /\ new[k] = file[k]
  BY <1>1, <1>2, <1>5, <1>6, <1>7, <1>8
<1>10. \A k \in first..(size - 1) : k \in DOMAIN new /\ new[k] = file[k + 1]
  <2> SUFFICES ASSUME NEW k \in first..(size - 1)
               PROVE  k \in DOMAIN new /\ new[k] = file[k + 1]
    OBVIOUS
  <2>1. k \in 1..(Len(before) + Len(after)) /\ ~(k <= Len(before)) /\ k - Len(before) = k - first + 1
        /\ k - first + 1 \in 1..(size - first) /\ first + (k - first + 1) = k + 1 /\ k \in 1..(size - 1)
    BY <1>1, <1>2, <1>5, <1>6
  <2>2. new[k] = after[k - first + 1]
    BY <1>7, <2>1
  <2> QED
    BY <1>6, <1>8, <2>1, <2>2
<1>11. ASSUME Distinct(file)
       PROVE  Distinct(new)
  <2> DEFINE FromOld(k) == IF k < first THEN k ELSE k + 1
  <2>1. \A k \in DOMAIN new : FromOld(k) \in DOMAIN file /\ new[k] = file[FromOld(k)]
    <3> SUFFICES ASSUME NEW k \in DOMAIN new
                 PROVE  FromOld(k) \in DOMAIN file /\ new[k] = file[FromOld(k)]
      OBVIOUS
    <3>1. CASE k < first
      BY <1>1, <1>2, <1>8, <1>9, <3>1
    <3>2. CASE ~(k < first)
      BY <1>1, <1>2, <1>8, <1>10, <3>2
    <3> QED
      BY <3>1, <3>2
  <2>2. \A m, n \in DOMAIN new : FromOld(m) = FromOld(n) => m = n
    BY <1>2, <1>8
  <2> HIDE DEF FromOld
  <2> QED
    BY <1>11, <2>1, <2>2 DEF Distinct
<1>12. ASSUME Distinct(file), NEW x, Holds(new, x)
       PROVE  Holds(file, x) /\ x # i
  <2>1. PICK k \in DOMAIN new : new[k] = x
    BY <1>12 DEF Holds
  <2>2. CASE k < first
    <3>1. k \in DOMAIN file /\ k # first /\ file[k] = x
      BY <1>1, <1>2, <1>8, <1>9, <2>1, <2>2
    <3> QED
      BY <1>1, <1>2, <1>12, <3>1 DEF Distinct, Holds
  <2>3. CASE ~(k < first)
    <3>1. k + 1 \in DOMAIN file /\ k + 1 # first /\ file[k + 1] = x
      BY <1>1, <1>2, <1>8, <1>10, <2>1, <2>3
    <3> QED
      BY <1>1, <1>2, <1>12, <3>1 DEF Distinct, Holds
  <2> QED
    BY <2>2, <2>3
<1>13. ASSUME NEW x, Holds(file, x), x # i
       PROVE  Holds(new, x)
  <2>1. PICK k \in 1..size : file[k] = x
    BY <1>1, <1>13 DEF Holds
  <2>2. k # first
    BY <1>2, <1>13, <2>1
  <2>3. CASE k < first
    <3>1. k \in 1..(first - 1)
      BY <1>1, <1>2, <2>3
    <3> QED
      BY <1>9, <2>1, <3>1 DEF Holds
  <2>4. CASE k > first
    <3>1. k - 1 \in first..(size - 1) /\ (k - 1) + 1 = k
      BY <1>1, <1>2, <2>4
    <3>2. k - 1 \in DOMAIN new /\ new[k - 1] = file[k]
      BY <1>10, <3>1
    <3> QED
      BY <2>1, <3>2 DEF Holds
  <2> QED
    BY <1>2, <2>2, <2>3, <2>4
<1> QED
  BY <1>3, <1>7, <1>11, <1>12, <1>13

(* A command that goes on or ends.                                          *)
LEMMA OneAtWork ==
    ASSUME MemoryTypeOK, Alone, NEW p \in Reviewers, work[p] # None,
           NEW new \in Commands \cup {None}, work' = [work EXCEPT ![p] = new]
    PROVE  /\ Apart(pending, approved, work[p], fate)
           /\ Only(new)'
<1>1. PICK w \in Commands \cup {None} : Only(w) /\ Apart(pending, approved, w, fate)
  BY DEF Alone
<1>2. w = work[p] /\ \A q \in Reviewers \ {p} : work[q] = None
  BY <1>1 DEF Only
<1>3. work'[p] = new /\ \A q \in Reviewers \ {p} : work'[q] = None
  BY <1>2 DEF MemoryTypeOK
<1> QED
  BY <1>1, <1>2, <1>3 DEF Only

(* A command that begins alone.                                             *)
LEMMA FirstAtWork ==
    ASSUME MemoryTypeOK, Alone, \A p \in Reviewers : work[p] = None
    PROVE  /\ Apart(pending, approved, None, fate)
           /\ \A p \in Reviewers : \A new \in Commands :
                work' = [work EXCEPT ![p] = new] => Only(new)'
<1>1. PICK w \in Commands \cup {None} : Only(w) /\ Apart(pending, approved, w, fate)
  BY DEF Alone
<1>2. w = None
  BY <1>1 DEF Only
<1>3. ASSUME NEW p \in Reviewers, NEW new \in Commands, work' = [work EXCEPT ![p] = new]
      PROVE  Only(new)'
  <2>1. new # None
    BY MemoryAssumption
  <2>2. work'[p] = new /\ \A q \in Reviewers \ {p} : work'[q] = None
    BY <1>3 DEF MemoryTypeOK
  <2> QED
    BY <2>1, <2>2 DEF Only
<1> QED
  BY <1>1, <1>2, <1>3

-----------------------------------------------------------------------------
(* The types, whatever overlaps.                                            *)
LEMMA MemoryStepTypes == MemoryTypeOK /\ [MemoryNext]_memoryVars => MemoryTypeOK'
<1> SUFFICES ASSUME MemoryTypeOK, [MemoryNext]_memoryVars
             PROVE  MemoryTypeOK'
  OBVIOUS
<1>1. \A p \in Reviewers : work[p] # None => work[p] \in Commands
  BY DEF MemoryTypeOK
<1>2. CASE UNCHANGED memoryVars
  BY <1>2 DEF MemoryTypeOK, memoryVars
<1>3. ASSUME NEW i \in Items, Propose(i)
      PROVE  MemoryTypeOK'
  <2>1. Append(pending, i) \in Seq(Items)
    BY AppendedItem DEF MemoryTypeOK
  <2> QED
    BY <1>3, <2>1 DEF MemoryTypeOK, Propose
<1>4. ASSUME NEW p \in Reviewers, NEW i \in Items, NEW does \in {"approve", "reject"}, Review(p, i, does)
      PROVE  MemoryTypeOK'
  <2>1. Without(pending, i) \in Seq(Items)
    BY <1>4, WithoutItem DEF MemoryTypeOK, Review
  <2>2. [pc |-> "emptyPending", does |-> does, item |-> i, lines |-> Without(pending, i)] \in Commands
    BY <2>1 DEF Commands
  <2> QED
    BY <1>4, <2>2 DEF MemoryTypeOK, Review, Begin
<1>5. ASSUME NEW p \in Reviewers, NEW i \in Items, Store(p, i)
      PROVE  MemoryTypeOK'
  <2>1. Append(approved, i) \in Seq(Items)
    BY AppendedItem DEF MemoryTypeOK
  <2>2. [pc |-> "emptyApproved", does |-> "store", item |-> i, lines |-> Append(approved, i)] \in Commands
    BY <2>1 DEF Commands
  <2> QED
    BY <1>5, <2>2 DEF MemoryTypeOK, Store, Begin
<1>6. ASSUME NEW p \in Reviewers, EmptyPending(p)
      PROVE  MemoryTypeOK'
  <2>1. [work[p] EXCEPT !.pc = "fillPending"] \in Commands
    BY <1>1, <1>6 DEF Commands, EmptyPending, Working
  <2> QED
    BY <1>6, <2>1, NothingKept DEF MemoryTypeOK, EmptyPending
<1>7. ASSUME NEW p \in Reviewers, FillPending(p)
      PROVE  MemoryTypeOK'
  <2>1. work[p] \in Commands /\ [work[p] EXCEPT !.pc = "readApproved"] \in Commands
    BY <1>1, <1>7 DEF Commands, FillPending, Working
  <2>2. work[p].lines \in Seq(Items) /\ work[p].item \in Items
    BY <2>1 DEF Commands
  <2>3. fate' \in [Items -> {"new", "known", "rejected", "lost"}]
    BY <1>7, <2>2 DEF MemoryTypeOK, FillPending
  <2>4. work' \in [Reviewers -> Commands \cup {None}]
    BY <1>7, <2>1 DEF MemoryTypeOK, FillPending
  <2> QED
    BY <1>7, <2>2, <2>3, <2>4 DEF MemoryTypeOK, FillPending
<1>8. ASSUME NEW p \in Reviewers, ReadApproved(p)
      PROVE  MemoryTypeOK'
  <2>1. work[p] \in Commands
    BY <1>1, <1>8 DEF ReadApproved, Working
  <2>2. Append(approved, work[p].item) \in Seq(Items)
    BY <2>1, AppendedItem DEF MemoryTypeOK, Commands
  <2>3. [work[p] EXCEPT !.pc = "emptyApproved", !.lines = Append(approved, work[p].item)] \in Commands
    BY <2>1, <2>2 DEF Commands
  <2> QED
    BY <1>8, <2>3 DEF MemoryTypeOK, ReadApproved
<1>9. ASSUME NEW p \in Reviewers, EmptyApproved(p)
      PROVE  MemoryTypeOK'
  <2>1. [work[p] EXCEPT !.pc = "fillApproved"] \in Commands
    BY <1>1, <1>9 DEF Commands, EmptyApproved, Working
  <2> QED
    BY <1>9, <2>1, NothingKept DEF MemoryTypeOK, EmptyApproved
<1>10. ASSUME NEW p \in Reviewers, FillApproved(p)
       PROVE  MemoryTypeOK'
  <2>1. work[p].lines \in Seq(Items)
    BY <1>1, <1>10 DEF Commands, FillApproved, Working
  <2> QED
    BY <1>10, <2>1 DEF MemoryTypeOK, FillApproved
<1>11. ASSUME NEW p \in Reviewers, Killed(p)
       PROVE  MemoryTypeOK'
  BY <1>11 DEF MemoryTypeOK, Killed
<1> QED
  BY <1>2, <1>3, <1>4, <1>5, <1>6, <1>7, <1>8, <1>9, <1>10, <1>11 DEF MemoryNext

(* A command that begins, and an item that comes up.                        *)
LEMMA AloneBegins ==
    ASSUME ApprovalInv, ~overlap', [MemoryNext]_memoryVars,
           \/ \E i \in Items : Propose(i)
           \/ \E p \in Reviewers, i \in Items :
                Store(p, i) \/ \E does \in {"approve", "reject"} : Review(p, i, does)
    PROVE  Alone'
<1>1. MemoryTypeOK /\ ~overlap /\ \A p \in Reviewers : work[p] = None
  BY DEF ApprovalInv, MemoryTypeOK, Propose, Store, Review, Begin
<1>2. Alone
  BY <1>1 DEF ApprovalInv
<1>3. /\ Apart(pending, approved, None, fate)
      /\ \A p \in Reviewers : \A new \in Commands :
           work' = [work EXCEPT ![p] = new] => Only(new)'
  BY <1>1, <1>2, FirstAtWork
<1>4. pending \in Seq(Items) /\ approved \in Seq(Items) /\ fate \in [Items -> {"new", "known", "rejected", "lost"}]
  BY <1>1 DEF MemoryTypeOK
<1>5. ASSUME NEW i \in Items, Propose(i)
      PROVE  Alone'
  <2>1. fate[i] # "known" /\ fate' = [fate EXCEPT ![i] = "known"] /\ approved' = approved
        /\ pending' = Append(pending, i) /\ work' = work
    BY <1>5 DEF Propose
  <2>2. ~Holds(pending, i) /\ ~Holds(approved, i)
    BY <1>3, <2>1 DEF Apart
  <2>3. Distinct(pending') /\ \A x : Holds(pending', x) <=> Holds(pending, x) \/ x = i
    BY <1>3, <1>4, <2>1, <2>2, AppendedItem DEF Apart
  <2>4. Apart(pending', approved', None, fate')
    BY <1>3, <1>4, <2>1, <2>2, <2>3 DEF Apart
  <2>5. Only(None)'
    BY <1>1, <2>1 DEF Only
  <2> QED
    BY <2>4, <2>5 DEF Alone
<1>6. ASSUME NEW p \in Reviewers, NEW i \in Items, Store(p, i)
      PROVE  Alone'
  <2>1. PICK new : new = [pc |-> "emptyApproved", does |-> "store", item |-> i, lines |-> Append(approved, i)]
    OBVIOUS
  <2>2. fate[i] # "known" /\ fate' = [fate EXCEPT ![i] = "known"] /\ approved' = approved
        /\ pending' = pending /\ work' = [work EXCEPT ![p] = new]
    BY <1>6, <2>1 DEF Store, Begin
  <2>3. ~Holds(pending, i) /\ ~Holds(approved, i)
    BY <1>3, <2>2 DEF Apart
  <2> DEFINE lines == Append(approved, i)
  <2>4. lines \in Seq(Items) /\ Distinct(lines) /\ \A x : Holds(lines, x) <=> Holds(approved, x) \/ x = i
    BY <1>3, <1>4, <2>3, AppendedItem DEF Apart
  <2>5. new \in Commands /\ new.pc = "emptyApproved" /\ new.does = "store" /\ new.item = i /\ new.lines = lines
    BY <2>1, <2>4 DEF Commands
  <2> HIDE DEF lines
  <2>6. AtWork(new, pending, approved)
    BY <1>3, <2>3, <2>4, <2>5 DEF AtWork, Apart
  <2>7. new # None
    BY <2>5, MemoryAssumption
  <2>8. Apart(pending', approved', new, fate')
    BY <1>3, <1>4, <2>2, <2>3, <2>4, <2>5, <2>6, <2>7 DEF Apart
  <2> QED
    BY <1>3, <2>2, <2>5, <2>8 DEF Alone
<1>7. ASSUME NEW p \in Reviewers, NEW i \in Items, NEW does \in {"approve", "reject"}, Review(p, i, does)
      PROVE  Alone'
  <2>1. PICK new : new = [pc |-> "emptyPending", does |-> does, item |-> i, lines |-> Without(pending, i)]
    OBVIOUS
  <2>2. Holds(pending, i) /\ fate' = fate /\ approved' = approved
        /\ pending' = pending /\ work' = [work EXCEPT ![p] = new]
    BY <1>7, <2>1 DEF Review, Begin
  <2> DEFINE lines == Without(pending, i)
  <2>3. lines \in Seq(Items) /\ Distinct(lines) /\ \A x : Holds(lines, x) <=> Holds(pending, x) /\ x # i
    BY <1>3, <1>4, <2>2, WithoutItem DEF Apart
  <2>4. new \in Commands /\ new.pc = "emptyPending" /\ new.does = does /\ new.item = i /\ new.lines = lines
    BY <2>1, <2>3 DEF Commands
  <2> HIDE DEF lines
  <2>5. AtWork(new, pending, approved)
    BY <1>3, <2>2, <2>3, <2>4 DEF AtWork, Apart
  <2>6. new # None
    BY <2>4, MemoryAssumption
  <2>7. Apart(pending', approved', new, fate')
    BY <1>3, <1>4, <2>2, <2>3, <2>4, <2>5, <2>6 DEF Apart
  <2> QED
    BY <1>3, <2>2, <2>4, <2>7 DEF Alone
<1> QED
  BY <1>5, <1>6, <1>7

(* A command that goes on or ends.                                          *)
LEMMA AloneGoesOn ==
    ASSUME ApprovalInv, ~overlap', NEW p \in Reviewers,
           \/ EmptyPending(p) \/ FillPending(p) \/ ReadApproved(p)
           \/ EmptyApproved(p) \/ FillApproved(p) \/ Killed(p)
    PROVE  Alone'
<1>1. MemoryTypeOK /\ Alone /\ work[p] # None
  BY DEF ApprovalInv, EmptyPending, FillPending, ReadApproved, EmptyApproved, FillApproved, Killed, Working
<1>2. PICK w \in Commands : w = work[p]
  BY <1>1 DEF MemoryTypeOK
<1>3. ASSUME NEW new \in Commands \cup {None}, work' = [work EXCEPT ![p] = new],
             Apart(pending', approved', new, fate')
      PROVE  Alone'
  <2>1. Only(new)'
    BY <1>1, <1>3, OneAtWork
  <2> QED
    BY <1>3, <2>1 DEF Alone
<1>4. /\ Apart(pending, approved, w, fate) /\ AtWork(w, pending, approved)
      /\ w # None /\ w.item \in Items /\ w.lines \in Seq(Items)
  <2>1. PICK v \in Commands \cup {None} : Only(v) /\ Apart(pending, approved, v, fate)
    BY <1>1 DEF Alone
  <2>2. v = w
    BY <1>1, <1>2, <2>1 DEF Only
  <2> QED
    BY <1>1, <1>2, <2>1, <2>2 DEF Apart, Commands
<1>5. fate \in [Items -> {"new", "known", "rejected", "lost"}] /\ approved \in Seq(Items)
  BY <1>1 DEF MemoryTypeOK
<1>6. CASE EmptyPending(p)
  <2>1. PICK new : new = [w EXCEPT !.pc = "fillPending"]
    OBVIOUS
  <2>2. /\ w.pc = "emptyPending" /\ pending' = <<>> /\ work' = [work EXCEPT ![p] = new]
        /\ approved' = approved /\ fate' = fate
    BY <1>2, <1>6, <2>1 DEF EmptyPending, Working
  <2>3. /\ new \in Commands /\ new.pc = "fillPending" /\ new.does = w.does
        /\ new.item = w.item /\ new.lines = w.lines
    BY <2>1 DEF Commands
  <2>4. new # None
    BY <2>3, MemoryAssumption
  <2>5. AtWork(new, pending', approved')
    BY <1>4, <2>2, <2>3, NothingKept DEF AtWork, Apart
  <2>6. Apart(pending', approved', new, fate')
    BY <1>4, <2>2, <2>3, <2>4, <2>5, NothingKept DEF AtWork, Apart
  <2> QED
    BY <1>3, <2>2, <2>3, <2>6
<1>7. CASE FillPending(p) /\ w.does = "approve"
  <2>1. PICK new : new = [w EXCEPT !.pc = "readApproved"]
    OBVIOUS
  <2>2. /\ w.pc = "fillPending" /\ pending' = w.lines /\ work' = [work EXCEPT ![p] = new]
        /\ approved' = approved /\ fate' = fate
    BY <1>2, <1>7, <2>1 DEF FillPending, Working
  <2>3. /\ new \in Commands /\ new.pc = "readApproved" /\ new.does = w.does
        /\ new.item = w.item /\ new.lines = w.lines
    BY <2>1 DEF Commands
  <2>4. new # None
    BY <2>3, MemoryAssumption
  <2>5. AtWork(new, pending', approved')
    BY <1>4, <2>2, <2>3 DEF AtWork
  <2>6. Apart(pending', approved', new, fate')
    BY <1>4, <2>2, <2>3, <2>4, <2>5, NothingKept DEF AtWork, Apart
  <2> QED
    BY <1>3, <2>2, <2>3, <2>6
<1>8. CASE FillPending(p) /\ w.does # "approve"
  <2>1. /\ w.pc = "fillPending" /\ pending' = w.lines /\ work' = [work EXCEPT ![p] = None]
        /\ approved' = approved /\ fate' = [fate EXCEPT ![w.item] = "rejected"]
    BY <1>2, <1>8 DEF FillPending, Working
  <2>2. Apart(pending', approved', None, fate')
    BY <1>4, <1>5, <2>1, NothingKept DEF AtWork, Apart
  <2> QED
    BY <1>3, <2>1, <2>2
<1>9. CASE ReadApproved(p)
  <2> DEFINE lines == Append(approved, w.item)
  <2>1. PICK new : new = [w EXCEPT !.pc = "emptyApproved", !.lines = lines]
    OBVIOUS
  <2>2. /\ w.pc = "readApproved" /\ pending' = pending /\ work' = [work EXCEPT ![p] = new]
        /\ approved' = approved /\ fate' = fate
    BY <1>2, <1>9, <2>1 DEF ReadApproved, Working
  <2>3. ~Holds(pending, w.item) /\ ~Holds(approved, w.item)
    BY <1>4, <2>2 DEF AtWork
  <2>4. lines \in Seq(Items) /\ Distinct(lines) /\ \A x : Holds(lines, x) <=> Holds(approved, x) \/ x = w.item
    BY <1>4, <1>5, <2>3, AppendedItem DEF Apart
  <2>5. /\ new \in Commands /\ new.pc = "emptyApproved" /\ new.does = w.does
        /\ new.item = w.item /\ new.lines = lines
    BY <2>1, <2>4 DEF Commands
  <2> HIDE DEF lines
  <2>6. new # None
    BY <2>5, MemoryAssumption
  <2>7. AtWork(new, pending', approved')
    BY <1>4, <2>2, <2>3, <2>4, <2>5 DEF AtWork, Apart
  <2>8. Apart(pending', approved', new, fate')
    BY <1>4, <2>2, <2>3, <2>4, <2>5, <2>6, <2>7 DEF AtWork, Apart
  <2> QED
    BY <1>3, <2>2, <2>5, <2>8
<1>10. CASE EmptyApproved(p)
  <2>1. PICK new : new = [w EXCEPT !.pc = "fillApproved"]
    OBVIOUS
  <2>2. /\ w.pc = "emptyApproved" /\ approved' = <<>> /\ work' = [work EXCEPT ![p] = new]
        /\ pending' = pending /\ fate' = fate
    BY <1>2, <1>10, <2>1 DEF EmptyApproved, Working
  <2>3. /\ new \in Commands /\ new.pc = "fillApproved" /\ new.does = w.does
        /\ new.item = w.item /\ new.lines = w.lines
    BY <2>1 DEF Commands
  <2>4. new # None
    BY <2>3, MemoryAssumption
  <2>5. AtWork(new, pending', approved')
    BY <1>4, <2>2, <2>3, NothingKept DEF AtWork, Apart
  <2>6. Apart(pending', approved', new, fate')
    BY <1>4, <2>2, <2>3, <2>4, <2>5, NothingKept DEF AtWork, Apart
  <2> QED
    BY <1>3, <2>2, <2>3, <2>6
<1>11. CASE FillApproved(p)
  <2>1. /\ w.pc = "fillApproved" /\ approved' = w.lines /\ work' = [work EXCEPT ![p] = None]
        /\ pending' = pending /\ fate' = fate
    BY <1>2, <1>11 DEF FillApproved, Working
  <2>2. Apart(pending', approved', None, fate')
    BY <1>4, <1>5, <2>1, NothingKept DEF AtWork, Apart
  <2> QED
    BY <1>3, <2>1, <2>2
<1>12. CASE Killed(p)
  <2>1. /\ work' = [work EXCEPT ![p] = None] /\ pending' = pending /\ approved' = approved
        /\ fate' = [i \in Items |->
                      IF fate[i] = "known" /\ ~Holds(pending, i) /\ ~Holds(approved, i)
                         /\ (Holds(w.lines, i) \/ w.item = i)
                      THEN "lost" ELSE fate[i]]
    BY <1>2, <1>12 DEF Killed
  <2>2. \A i \in Items : fate'[i] = "known" <=> Holds(pending, i) \/ Holds(approved, i)
    BY <1>4, <1>5, <2>1 DEF Apart
  <2>3. Apart(pending', approved', None, fate')
    BY <1>4, <2>1, <2>2 DEF Apart
  <2> QED
    BY <1>3, <2>1, <2>3
<1> QED
  BY <1>6, <1>7, <1>8, <1>9, <1>10, <1>11, <1>12

(* The invariant of the approval.                                           *)
THEOREM ApprovalInductive == MemorySpec => []ApprovalInv
<1>1. MemoryInit => ApprovalInv
  <2> SUFFICES ASSUME MemoryInit PROVE ApprovalInv
    OBVIOUS
  <2>1. MemoryTypeOK
    BY NothingKept DEF MemoryInit, MemoryTypeOK
  <2>2. Only(None) /\ Apart(pending, approved, None, fate)
    BY NothingKept DEF MemoryInit, Only, Apart
  <2> QED
    BY <2>1, <2>2 DEF ApprovalInv, Alone
<1>2. ASSUME ApprovalInv, [MemoryNext]_memoryVars
      PROVE  ApprovalInv'
  <2>1. MemoryTypeOK'
    BY <1>2, MemoryStepTypes DEF ApprovalInv
  <2>2. ASSUME ~overlap', UNCHANGED memoryVars
        PROVE  Alone'
    BY <1>2, <2>2 DEF memoryVars, ApprovalInv, Alone, Only
  <2>3. ASSUME ~overlap', MemoryNext
        PROVE  Alone'
    BY <1>2, <2>3, AloneBegins, AloneGoesOn DEF MemoryNext
  <2> QED
    BY <1>2, <2>1, <2>2, <2>3 DEF ApprovalInv
<1> QED
  BY <1>1, <1>2, PTL DEF MemorySpec

(* If commands never overlapped, an item is in one of the files, once, or a *)
(* command has it in hand, until it is rejected or a process that has it is *)
(* killed. (memory.py 196)                                                  *)
THEOREM ItemsStayInOnePlace == MemorySpec => []ItemsAreInOnePlace
<1>1. ASSUME ApprovalInv
      PROVE  ItemsAreInOnePlace
  <2> SUFFICES ASSUME ~overlap, NEW i \in Items
               PROVE  LET places == {<<"pending", n>> : n \in {m \in DOMAIN pending : pending[m] = i}}
                            \cup {<<"approved", n>> : n \in {m \in DOMAIN approved : approved[m] = i}}
                          inHand == \E p \in Reviewers :
                            work[p] # None /\ (work[p].item = i \/ Holds(work[p].lines, i))
                      IN  /\ \A x, y \in places : x = y
                          /\ (fate[i] = "known" /\ ~inHand) => places # {}
                          /\ fate[i] \in {"new", "rejected", "lost"} => places = {}
    BY DEF ItemsAreInOnePlace
  <2>1. PICK w \in Commands \cup {None} : Only(w) /\ Apart(pending, approved, w, fate)
    BY <1>1 DEF ApprovalInv, Alone
  <2> DEFINE inPending == {m \in DOMAIN pending : pending[m] = i}
             inApproved == {m \in DOMAIN approved : approved[m] = i}
             places == {<<"pending", n>> : n \in inPending} \cup {<<"approved", n>> : n \in inApproved}
             inHand == \E p \in Reviewers :
                         work[p] # None /\ (work[p].item = i \/ Holds(work[p].lines, i))
  <2>2. /\ \A m, n \in inPending : m = n
        /\ \A m, n \in inApproved : m = n
        /\ inPending = {} \/ inApproved = {}
        /\ Holds(pending, i) <=> inPending # {}
        /\ Holds(approved, i) <=> inApproved # {}
    BY <2>1 DEF Apart, Distinct, Holds
  <2>3. fate[i] = "known" <=> inPending # {} \/ inApproved # {} \/ inHand
    BY <2>1, <2>2 DEF Apart, Only
  <2> HIDE DEF inPending, inApproved, inHand
  <2>4. \A x, y \in places : x = y
    BY <2>2
  <2>5. places = {} <=> inPending = {} /\ inApproved = {}
    OBVIOUS
  <2> QED
    BY <2>3, <2>4, <2>5 DEF inPending, inApproved, inHand
<1> QED
  BY <1>1, ApprovalInductive, PTL

-----------------------------------------------------------------------------
(* The session files.                                                       *)

(* What the file of a session is written by, but for its fate.              *)
Sole(s, p) == put[s] # None /\ put[s].by = {p} /\ ~put[s].deleted

(* A process has written the session it is in, and the one it writes.       *)
Placed(state, p) ==
    /\ put[state.cur] # None /\ p \in put[state.cur].by
    /\ state.job # None =>
         /\ put[state.job.target] # None /\ p \in put[state.job.target].by
         /\ state.job.op = "load" => state.job.after = "load"
         /\ state.job.after = "load" => state.job.target # state.cur
         /\ state.job.after = "stay" => state.job.lines # <<>>

(* It has in hand what was saved in a session, as the file has when nothing *)
(* is about to be written there.                                            *)
Safe(state, s, saved, readable) ==
    /\ state.cur = s =>
         /\ saved \subseteq Texts(<<state.meta>> \o state.history)
         /\ state.job = None \/ state.job.target # s => readable
    /\ state.job # None /\ state.job.target = s /\ state.job.op # "load" =>
         saved \subseteq Texts(state.job.lines)

SessionKept(s, p) ==
    Sole(s, p) =>
        /\ Readable(s) => put[s].turns \subseteq Texts(files[s])
        /\ cli[p] # None => Safe(cli[p], s, put[s].turns, Readable(s))

SessionInv ==
    /\ SessionTypeOK
    /\ \A s \in SessionIds : IF put[s] = None THEN files[s] = None ELSE put[s].by # {} /\ IsFiniteSet(put[s].by)
    /\ \A p \in Procs : cli[p] # None => Placed(cli[p], p)
    /\ \A s \in SessionIds, p \in Procs : SessionKept(s, p)

-----------------------------------------------------------------------------
(* What the texts of lines are.                                             *)
LEMMA TextsOf ==
    ASSUME NEW lines, NEW x
    PROVE  x \in Texts(lines) <=> x # 0 /\ \E i \in DOMAIN lines : lines[i] # None /\ lines[i].text = x
  BY DEF Texts, Parses

(* An object is no blank line.                                              *)
LEMMA ObjectsParse == \A o \in Objects : o # None /\ Parses(o) /\ o.text \in 0..MaxTurns
  BY CliSessionAssumption DEF Objects, Parses

(* A line more.                                                             *)
LEMMA TextsAppended ==
    ASSUME NEW lines \in Seq(Objects \cup {None}), NEW o \in Objects
    PROVE  /\ Append(lines, o) \in Seq(Objects \cup {None})
           /\ Texts(Append(lines, o)) = Texts(lines) \cup ({o.text} \ {0})
           /\ lines \in FileLines => Append(lines, o) \in FileLines
           /\ Append(lines, o) # <<>>
<1> DEFINE new == Append(lines, o)
<1>1. /\ new \in Seq(Objects \cup {None}) /\ Len(new) = Len(lines) + 1 /\ Len(lines) \in Nat
      /\ DOMAIN lines = 1..Len(lines) /\ DOMAIN new = 1..(Len(lines) + 1)
      /\ new[Len(lines) + 1] = o
      /\ \A k \in 1..Len(lines) : new[k] = lines[k]
  BY AppendProperties, LenProperties
<1> HIDE DEF new
<1>2. ASSUME NEW x, x \in Texts(new)
      PROVE  x \in Texts(lines) \cup ({o.text} \ {0})
  <2>1. PICK i \in DOMAIN new : x # 0 /\ new[i] # None /\ new[i].text = x
    BY <1>2, TextsOf
  <2>2. CASE i = Len(lines) + 1
    BY <1>1, <2>1, <2>2
  <2>3. CASE i # Len(lines) + 1
    <3>1. i \in DOMAIN lines /\ new[i] = lines[i]
      BY <1>1, <2>3
    <3> QED
      BY <2>1, <3>1, TextsOf
  <2> QED
    BY <2>2, <2>3
<1>3. ASSUME NEW x, x \in Texts(lines)
      PROVE  x \in Texts(new)
  <2>1. PICK i \in DOMAIN lines : x # 0 /\ lines[i] # None /\ lines[i].text = x
    BY <1>3, TextsOf
  <2>2. i \in DOMAIN new /\ new[i] = lines[i]
    BY <1>1
  <2> QED
    BY <2>1, <2>2, TextsOf
<1>4. o.text # 0 => o.text \in Texts(new)
  <2>1. Len(lines) + 1 \in DOMAIN new /\ new[Len(lines) + 1] # None
    BY <1>1, ObjectsParse
  <2> QED
    BY <1>1, <2>1, TextsOf
<1>5. Texts(new) = Texts(lines) \cup ({o.text} \ {0})
  BY <1>2, <1>3, <1>4
<1>6. new # <<>>
  BY <1>1
<1>7. ASSUME lines \in FileLines
      PROVE  new \in FileLines
  <2>1. CASE lines = <<>>
    <3>1. new[1] = o
      BY <1>1, <2>1
    <3> QED
      BY <1>1, <3>1, ObjectsParse DEF FileLines
  <2>2. CASE lines # <<>>
    <3>1. new[1] = lines[1] /\ lines[1] # None
      BY <1>1, <1>7, <2>2, EmptySeq DEF FileLines
    <3> QED
      BY <1>1, <3>1 DEF FileLines
  <2> QED
    BY <2>1, <2>2
<1> QED
  BY <1>1, <1>5, <1>6, <1>7 DEF new

(* Metadata before lines.                                                   *)
LEMMA TextsAfter ==
    ASSUME NEW o \in Objects, NEW lines \in Seq(Objects \cup {None})
    PROVE  /\ <<o>> \o lines \in FileLines /\ <<o>> \o lines # <<>>
           /\ Texts(<<o>> \o lines) = Texts(lines) \cup ({o.text} \ {0})
<1> DEFINE s == <<o>>
           new == s \o lines
<1>1. s \in Seq(Objects \cup {None}) /\ Len(s) = 1 /\ s[1] = o
  OBVIOUS
<1> HIDE DEF s
<1>2. /\ new \in Seq(Objects \cup {None}) /\ Len(new) = 1 + Len(lines) /\ Len(lines) \in Nat
      /\ DOMAIN lines = 1..Len(lines) /\ DOMAIN new = 1..(1 + Len(lines))
      /\ \A k \in 1..(1 + Len(lines)) : new[k] = IF k <= 1 THEN s[k] ELSE lines[k - 1]
  <2>1. /\ new \in Seq(Objects \cup {None}) /\ Len(new) = Len(s) + Len(lines)
        /\ \A k \in 1..(Len(s) + Len(lines)) : new[k] = IF k <= Len(s) THEN s[k] ELSE lines[k - Len(s)]
    BY <1>1, ConcatProperties
  <2> HIDE DEF new
  <2> QED
    BY <1>1, <2>1, LenProperties
<1> HIDE DEF new
<1>3. new[1] = o
  BY <1>1, <1>2
<1>4. ASSUME NEW x, x \in Texts(new)
      PROVE  x \in Texts(lines) \cup ({o.text} \ {0})
  <2>1. PICK i \in DOMAIN new : x # 0 /\ new[i] # None /\ new[i].text = x
    BY <1>4, TextsOf
  <2>2. CASE i = 1
    BY <1>3, <2>1, <2>2
  <2>3. CASE i # 1
    <3>1. i - 1 \in DOMAIN lines /\ new[i] = lines[i - 1]
      BY <1>2, <2>3
    <3> QED
      BY <2>1, <3>1, TextsOf
  <2> QED
    BY <2>2, <2>3
<1>5. ASSUME NEW x, x \in Texts(lines)
      PROVE  x \in Texts(new)
  <2>1. PICK i \in DOMAIN lines : x # 0 /\ lines[i] # None /\ lines[i].text = x
    BY <1>5, TextsOf
  <2>2. i + 1 \in DOMAIN new /\ new[i + 1] = lines[i]
    BY <1>2
  <2> QED
    BY <2>1, <2>2, TextsOf
<1>6. o.text # 0 => o.text \in Texts(new)
  <2>1. 1 \in DOMAIN new /\ new[1] # None
    BY <1>2, <1>3, ObjectsParse
  <2> QED
    BY <1>3, <2>1, TextsOf
<1>7. Texts(new) = Texts(lines) \cup ({o.text} \ {0})
  BY <1>4, <1>5, <1>6
<1>8. new \in FileLines /\ new # <<>>
  BY <1>2, <1>3, ObjectsParse DEF FileLines
<1> QED
  BY <1>7, <1>8 DEF new, s

(* A file is its metadata and the lines after it.                           *)
LEMMA TextsOfFile ==
    ASSUME NEW lines \in FileLines, lines # <<>>
    PROVE  /\ Head(lines) \in Objects /\ Head(lines) = lines[1]
           /\ Tail(lines) \in Seq(Objects \cup {None})
           /\ Texts(lines) = Texts(Tail(lines)) \cup ({Head(lines).text} \ {0})
<1> DEFINE rest == Tail(lines)
<1>1. lines \in Seq(Objects \cup {None}) /\ lines[1] # None
  BY DEF FileLines
<1>2. /\ rest \in Seq(Objects \cup {None}) /\ Len(rest) = Len(lines) - 1 /\ Len(lines) \in Nat \ {0}
      /\ DOMAIN lines = 1..Len(lines) /\ DOMAIN rest = 1..(Len(lines) - 1)
      /\ \A i \in 1..Len(rest) : rest[i] = lines[i + 1]
  <2>1. /\ rest \in Seq(Objects \cup {None}) /\ Len(rest) = Len(lines) - 1
        /\ \A i \in 1..Len(rest) : rest[i] = lines[i + 1]
    BY <1>1, HeadTailProperties
  <2>2. Len(lines) \in Nat \ {0}
    BY <1>1, EmptySeq
  <2> HIDE DEF rest
  <2> QED
    BY <1>1, <2>1, <2>2, LenProperties
<1> HIDE DEF rest
<1>3. Head(lines) = lines[1] /\ lines[1] \in Objects
  BY <1>1, <1>2
<1>4. ASSUME NEW x
      PROVE  x \in Texts(lines) <=> x \in Texts(rest) \/ (x = lines[1].text /\ x # 0)
  <2>1. ASSUME x \in Texts(lines) PROVE x \in Texts(rest) \/ (x = lines[1].text /\ x # 0)
    <3>1. PICK i \in DOMAIN lines : x # 0 /\ lines[i] # None /\ lines[i].text = x
      BY <2>1, TextsOf
    <3>2. CASE i = 1
      BY <3>1, <3>2
    <3>3. CASE i # 1
      <4>1. i - 1 \in 1..Len(rest) /\ (i - 1) + 1 = i /\ i - 1 \in DOMAIN rest
        BY <1>2, <3>3
      <4>2. rest[i - 1] = lines[i]
        BY <1>2, <4>1
      <4> QED
        BY <3>1, <4>1, <4>2, TextsOf
    <3> QED
      BY <3>2, <3>3
  <2>2. ASSUME x \in Texts(rest) PROVE x \in Texts(lines)
    <3>1. PICK i \in DOMAIN rest : x # 0 /\ rest[i] # None /\ rest[i].text = x
      BY <2>2, TextsOf
    <3>2. i + 1 \in DOMAIN lines /\ rest[i] = lines[i + 1]
      BY <1>2
    <3> QED
      BY <3>1, <3>2, TextsOf
  <2>3. 1 \in DOMAIN lines
    BY <1>2
  <2> QED
    BY <1>1, <2>1, <2>2, <2>3, TextsOf
<1> QED
  BY <1>2, <1>3, <1>4 DEF rest

(* Rewriting a file for other metadata of the same text.                    *)
LEMMA TextsRewritten ==
    ASSUME NEW lines \in FileLines, lines # <<>>, NEW o \in Objects, o.text = Head(lines).text
    PROVE  /\ Rewritten(o, lines) \in FileLines /\ Rewritten(o, lines) # <<>>
           /\ Texts(lines) \subseteq Texts(Rewritten(o, lines))
<1> DEFINE new == Rewritten(o, lines)
           size == 2 * Len(lines) - 1
<1>1. lines \in Seq(Objects \cup {None}) /\ Len(lines) \in Nat \ {0} /\ DOMAIN lines = 1..Len(lines)
  BY EmptySeq, LenProperties DEF FileLines
<1>2. size \in Nat \ {0}
  BY <1>1
<1>3. \A i \in 1..size : i # 1 /\ i % 2 = 0 => (i \div 2) + 1 \in 1..Len(lines)
  BY <1>1
<1>4. new = [i \in 1..size |->
               IF i = 1 THEN o ELSE IF i % 2 = 0 THEN lines[(i \div 2) + 1] ELSE None]
  BY DEF Rewritten
<1> HIDE DEF size, new
<1>5. new \in [1..size -> Objects \cup {None}]
  BY <1>1, <1>3, <1>4
<1>6. new \in Seq(Objects \cup {None}) /\ new[1] = o /\ DOMAIN new = 1..size /\ 1 \in 1..size
  BY <1>2, <1>4, <1>5
<1>7. new \in FileLines /\ new # <<>>
  <2>1. new[1] # None
    BY <1>6, ObjectsParse
  <2>2. new # <<>>
    <3>1. \A i : i \notin DOMAIN <<>>
      OBVIOUS
    <3> QED
      BY <1>6, <3>1
  <2> QED
    BY <1>6, <2>1, <2>2 DEF FileLines
<1>8. ASSUME NEW x, x \in Texts(lines)
      PROVE  x \in Texts(new)
  <2>1. PICK i \in 1..Len(lines) : x # 0 /\ lines[i] # None /\ lines[i].text = x
    BY <1>1, <1>8, TextsOf
  <2>2. CASE i = 1
    <3>1. o.text = x
      BY <2>1, <2>2, TextsOfFile
    <3> QED
      BY <1>6, <2>1, <3>1, TextsOf, ObjectsParse
  <2>3. CASE i # 1
    <3>1. 2 * (i - 1) \in 1..size /\ 2 * (i - 1) # 1
      BY <1>1, <2>3 DEF size
    <3>2. (2 * (i - 1)) % 2 = 0 /\ ((2 * (i - 1)) \div 2) + 1 = i
      BY <2>3
    <3>3. new[2 * (i - 1)] = lines[i]
      BY <1>4, <3>1, <3>2
    <3> QED
      BY <1>6, <2>1, <3>1, <3>3, TextsOf
  <2> QED
    BY <2>2, <2>3
<1> QED
  BY <1>7, <1>8 DEF new

(* The lines that parse are those of the file that are not blank.           *)
LEMMA TextsNonBlank ==
    ASSUME NEW lines \in Seq(Objects \cup {None})
    PROVE  NonBlank(lines) \in Seq(Objects) /\ Texts(NonBlank(lines)) = Texts(lines)
<1> DEFINE size == Len(lines)
           Read(f, n) == IF n = 0 THEN <<>>
                         ELSE IF Parses(lines[n]) THEN Append(f[n - 1], lines[n]) ELSE f[n - 1]
           Reads(f, m) == f = [n \in 0..m |-> Read(f, n)]
           Before(n) == {lines[i].text : i \in {j \in 1..n : Parses(lines[j])}} \ {0}
<1>1. size \in Nat /\ DOMAIN lines = 1..size
  BY LenProperties
<1>2. \A n \in 1..size : Parses(lines[n]) => lines[n] \in Objects
  BY <1>1 DEF Parses
<1> HIDE DEF size
<1>3. \E f : Reads(f, size)
  <2> DEFINE these == {m \in Nat : \E f : Reads(f, m)}
  <2>1. 0 \in these
    <3>1. Reads([n \in 0..0 |-> <<>>], 0)
      OBVIOUS
    <3> QED
      BY <3>1
  <2>2. ASSUME NEW m \in these PROVE m + 1 \in these
    <3>1. PICK f : Reads(f, m)
      OBVIOUS
    <3> DEFINE g == [n \in 0..(m + 1) |-> IF n = m + 1 THEN Read(f, m + 1) ELSE f[n]]
    <3>2. \A n \in 0..(m + 1) : n # 0 => n - 1 \in 0..m /\ g[n - 1] = f[n - 1]
      OBVIOUS
    <3>3. \A n \in 0..m : f[n] = Read(f, n)
      BY <3>1
    <3>4. \A n \in 0..(m + 1) : g[n] = Read(f, n) /\ Read(f, n) = Read(g, n)
      BY <3>2, <3>3
    <3>5. Reads(g, m + 1)
      BY <3>4
    <3> HIDE DEF g, Reads
    <3> QED
      BY <3>5
  <2>3. these = Nat
    <3> HIDE DEF these
    <3> QED
      BY <2>1, <2>2, Induction DEF these
  <2> QED
    BY <1>1, <2>3
<1> DEFINE read == CHOOSE f : Reads(f, size)
<1>4. Reads(read, size)
  <2> HIDE DEF Reads
  <2> QED
    BY <1>3
<1>5. NonBlank(lines) = read[size]
  BY DEF NonBlank, size
<1> HIDE DEF read
<1>6. read[0] = <<>> /\ \A n \in 1..size : read[n] = IF Parses(lines[n]) THEN Append(read[n - 1], lines[n]) ELSE read[n - 1]
  <2>1. \A n \in 0..size : read[n] = Read(read, n)
    BY <1>4
  <2>2. 0 \in 0..size /\ \A n \in 1..size : n \in 0..size /\ n # 0
    BY <1>1
  <2> HIDE DEF Reads
  <2> QED
    BY <2>1, <2>2
<1> HIDE DEF Reads, Read
<1> DEFINE Right(n) == read[n] \in Seq(Objects) /\ Texts(read[n]) = Before(n)
           right == {n \in Nat : n <= size => Right(n)}
<1>7. 0 \in right
  <2>1. Before(0) = {} /\ Texts(<<>>) = {} /\ <<>> \in Seq(Objects)
    BY TextsOf
  <2> QED
    BY <1>6, <2>1
<1>8. ASSUME NEW n \in right PROVE n + 1 \in right
  <2> SUFFICES ASSUME n + 1 <= size PROVE Right(n + 1)
    OBVIOUS
  <2>1. n \in Nat /\ n + 1 \in 1..size /\ (n + 1) - 1 = n /\ Right(n)
    BY <1>1
  <2>2. read[n] \in Seq(Objects) /\ read[n] \in Seq(Objects \cup {None}) /\ Texts(read[n]) = Before(n)
    BY <2>1
  <2>3. read[n + 1] = IF Parses(lines[n + 1]) THEN Append(read[n], lines[n + 1]) ELSE read[n]
    BY <1>6, <2>1
  <2>4. \A i : i \in 1..(n + 1) <=> i \in 1..n \/ i = n + 1
    BY <2>1
  <2>5. CASE Parses(lines[n + 1])
    <3>1. Before(n + 1) = Before(n) \cup ({lines[n + 1].text} \ {0})
      BY <2>4, <2>5
    <3>2. Append(read[n], lines[n + 1]) \in Seq(Objects)
      BY <1>2, <2>1, <2>2, <2>5
    <3>3. Texts(Append(read[n], lines[n + 1])) = Texts(read[n]) \cup ({lines[n + 1].text} \ {0})
      BY <1>2, <2>1, <2>2, <2>5, TextsAppended
    <3> HIDE DEF Before
    <3> QED
      BY <2>2, <2>3, <2>5, <3>1, <3>2, <3>3
  <2>6. CASE ~Parses(lines[n + 1])
    <3>1. Before(n + 1) = Before(n)
      BY <2>4, <2>6
    <3> HIDE DEF Before
    <3> QED
      BY <2>2, <2>3, <2>6, <3>1
  <2> QED
    BY <2>5, <2>6
<1>9. right = Nat
  <2> HIDE DEF right
  <2> QED
    BY <1>7, <1>8, Induction DEF right
<1>10. Right(size)
  <2>1. size \in right
    BY <1>1, <1>9
  <2> HIDE DEF Right
  <2> QED
    BY <1>1, <2>1
<1>11. Before(size) = Texts(lines)
  BY <1>1 DEF Texts
<1> QED
  BY <1>5, <1>10, <1>11

-----------------------------------------------------------------------------
(* A step of one process, that writes one session at most: the invariant    *)
(* holds after it if it does for what that process has and writes.          *)
LEMMA SessionStep ==
    ASSUME SessionInv, SessionTypeOK', NEW p \in Procs, NEW new \in Processes \cup {None},
           cli' = [cli EXCEPT ![p] = new], NEW t \in SessionIds,
           \A s \in SessionIds \ {t} : put'[s] = put[s] /\ files'[s] = files[s],
           put'[t] # None, put'[t].by # {}, IsFiniteSet(put'[t].by), p \in put'[t].by \/ put'[t].deleted,
           put[t] # None => put[t].by \subseteq put'[t].by,
           new # None => Placed(new, p)',
           \A s \in SessionIds : Sole(s, p)' =>
               /\ Readable(s)' => put'[s].turns \subseteq Texts(files'[s])
               /\ new # None => Safe(new, s, put'[s].turns, Readable(s)')
    PROVE  SessionInv'
<1>1. cli'[p] = new /\ \A q \in Procs \ {p} : cli'[q] = cli[q]
  BY DEF SessionInv, SessionTypeOK
<1>2. \A s \in SessionIds :
        IF put'[s] = None THEN files'[s] = None ELSE put'[s].by # {} /\ IsFiniteSet(put'[s].by)
  BY DEF SessionInv
<1>3. \A s \in SessionIds : put[s] # None => put'[s] # None /\ put[s].by \subseteq put'[s].by
  OBVIOUS
<1>4. ASSUME NEW q \in Procs, cli'[q] # None
      PROVE  Placed(cli[q], q)'
  <2>1. CASE q = p
    BY <1>1, <1>4, <2>1 DEF Placed
  <2>2. CASE q # p
    <3>1. PICK state \in Processes : state = cli[q]
      BY <1>1, <1>4, <2>2 DEF SessionInv, SessionTypeOK
    <3>2. Placed(state, q) /\ cli'[q] = state
      BY <1>1, <1>4, <2>2, <3>1 DEF SessionInv
    <3>3. state.cur \in SessionIds /\ (state.job # None => state.job.target \in SessionIds)
      BY DEF Processes, Jobs
    <3>4. Placed(state, q)'
      BY <1>3, <3>2, <3>3 DEF Placed
    <3> QED
      BY <3>2, <3>4 DEF Placed
  <2> QED
    BY <2>1, <2>2
<1>5. ASSUME NEW s \in SessionIds, NEW q \in Procs
      PROVE  SessionKept(s, q)'
  <2> SUFFICES ASSUME Sole(s, q)'
               PROVE  /\ Readable(s)' => put'[s].turns \subseteq Texts(files'[s])
                      /\ cli'[q] # None => Safe(cli'[q], s, put'[s].turns, Readable(s)')
    BY DEF SessionKept, Texts, Safe
  <2>1. CASE q = p
    BY <1>1, <2>1
  <2>2. CASE q # p
    <3>1. s # t
      BY <2>2 DEF Sole
    <3>2. Sole(s, q)
      BY <3>1 DEF Sole
    <3> QED
      BY <1>1, <2>2, <3>1, <3>2 DEF SessionInv, SessionKept, Readable
  <2> QED
    BY <2>1, <2>2
<1> QED
  BY <1>2, <1>4, <1>5 DEF SessionInv

(* What a session is written by, and that it is not fresh.                  *)
LEMMA WrittenBy ==
    ASSUME SessionTypeOK, NEW p \in Procs, NEW s \in SessionIds
    PROVE  /\ Written(p, s) \in Puts /\ Written(p, s) # None
           /\ p \in Written(p, s).by
           /\ put[s] # None =>
                /\ Written(p, s).by = put[s].by \cup {p} /\ Written(p, s).turns = put[s].turns
                /\ Written(p, s).deleted = put[s].deleted
           /\ put[s] = None =>
                Written(p, s).by = {p} /\ Written(p, s).turns = {} /\ ~Written(p, s).deleted
<1>1. CASE put[s] = None
  <2>1. Written(p, s) = [turns |-> {}, by |-> {p}, deleted |-> FALSE]
    BY <1>1 DEF Written
  <2>2. Written(p, s) \in Puts
    BY <2>1 DEF Puts
  <2>3. /\ Written(p, s).by = {p} /\ Written(p, s).turns = {}
        /\ Written(p, s).deleted = FALSE
    BY <2>1
  <2>4. Written(p, s) # None
    BY <2>2, CliSessionAssumption
  <2> QED
    BY <1>1, <2>2, <2>3, <2>4
<1>2. CASE put[s] # None
  <2>1. put[s] \in Puts
    BY <1>2 DEF SessionTypeOK
  <2>2. Written(p, s) = [put[s] EXCEPT !.by = @ \cup {p}]
    BY <1>2 DEF Written
  <2>3. /\ Written(p, s) \in Puts /\ Written(p, s).by = put[s].by \cup {p}
        /\ Written(p, s).turns = put[s].turns /\ Written(p, s).deleted = put[s].deleted
    BY <2>1, <2>2 DEF Puts
  <2> QED
    BY <1>2, <2>3, CliSessionAssumption
<1> QED
  BY <1>1, <1>2

(* A process that writes a session, and puts nothing in it nor in its file: *)
(* what it has in hand is to be safe, given the invariant.                  *)
LEMMA WritingStep ==
    ASSUME SessionInv, NEW p \in Procs, NEW t \in SessionIds, NEW new \in Processes,
           cli' = [cli EXCEPT ![p] = new], put' = [put EXCEPT ![t] = Written(p, t)],
           files' = files, copy' = copy, turns' = turns, commands' \in 0..MaxCommands,
           \/ new.cur = t
           \/ put[new.cur] # None /\ p \in put[new.cur].by,
           new.job # None =>
             /\ \/ new.job.target = t
                \/ put[new.job.target] # None /\ p \in put[new.job.target].by
             /\ new.job.op = "load" => new.job.after = "load"
             /\ new.job.after = "load" => new.job.target # new.cur
             /\ new.job.after = "stay" => new.job.lines # <<>>,
           \A s \in SessionIds : Sole(s, p) => Safe(new, s, put[s].turns, Readable(s)),
           put[t] = None /\ new.cur = t => new.job # None /\ new.job.target = t
    PROVE  SessionInv'
<1>1. SessionTypeOK
  BY DEF SessionInv
<1>2. /\ put'[t] = Written(p, t) /\ \A s \in SessionIds \ {t} : put'[s] = put[s]
      /\ put' \in [SessionIds -> Puts \cup {None}]
  BY <1>1, WrittenBy DEF SessionTypeOK
<1>3. SessionTypeOK'
  BY <1>1, <1>2 DEF SessionTypeOK
<1>4. put'[t] # None /\ put'[t].by # {} /\ p \in put'[t].by /\ (put[t] # None => put[t].by \subseteq put'[t].by)
  BY <1>1, <1>2, WrittenBy
<1>8. IsFiniteSet(put'[t].by)
  <2>1. CASE put[t] = None
    <3>1. put'[t].by = {p}
      BY <1>1, <1>2, <2>1, WrittenBy
    <3> QED
      BY <3>1, FS_Singleton
  <2>2. CASE put[t] # None
    <3>1. IsFiniteSet(put[t].by) /\ put'[t].by = put[t].by \cup {p}
      BY <1>1, <1>2, <2>2, WrittenBy DEF SessionInv
    <3> QED
      BY <3>1, FS_AddElement
  <2> QED
    BY <2>1, <2>2
<1>5. new.cur \in SessionIds /\ (new.job # None => new.job.target \in SessionIds)
  BY DEF Processes, Jobs
<1>6. Placed(new, p)'
  BY <1>2, <1>4, <1>5 DEF Placed
<1>7. ASSUME NEW s \in SessionIds, Sole(s, p)'
      PROVE  /\ Readable(s)' => put'[s].turns \subseteq Texts(files'[s])
             /\ Safe(new, s, put'[s].turns, Readable(s)')
  <2>1. CASE put[s] # None
    <3>1. put'[s].turns = put[s].turns /\ put'[s].deleted = put[s].deleted /\ put[s].by \subseteq put'[s].by
      BY <1>1, <1>2, <2>1, WrittenBy
    <3>2. put[s].by # {}
      BY <2>1 DEF SessionInv
    <3>3. Sole(s, p)
      BY <1>7, <2>1, <3>1, <3>2 DEF Sole
    <3> QED
      BY <3>1, <3>3 DEF SessionInv, SessionKept, Readable
  <2>2. CASE put[s] = None
    <3>1. s = t
      BY <1>2, <1>7, <2>2 DEF Sole
    <3>2. put'[s].turns = {}
      BY <1>1, <1>2, <2>2, <3>1, WrittenBy
    <3> QED
      BY <2>2, <3>1, <3>2 DEF Safe
  <2> QED
    BY <2>1, <2>2
<1> QED
  BY <1>2, <1>3, <1>4, <1>6, <1>7, <1>8, SessionStep

(* A process that goes on without writing.                                  *)
LEMMA QuietStep ==
    ASSUME SessionInv, NEW p \in Procs, cli[p] # None, NEW new \in Processes \cup {None},
           cli' = [cli EXCEPT ![p] = new], put' = put, files' = files, turns' = turns,
           copy' \in FileLines \cup {None}, commands' \in 0..MaxCommands,
           new # None => Placed(new, p),
           new # None =>
             \A s \in SessionIds : Sole(s, p) => Safe(new, s, put[s].turns, Readable(s))
    PROVE  SessionInv'
<1>1. SessionTypeOK /\ cli[p] \in Processes /\ Placed(cli[p], p)
  BY DEF SessionInv, SessionTypeOK
<1>2. SessionTypeOK'
  BY <1>1 DEF SessionTypeOK
<1>3. PICK t \in SessionIds : t = cli[p].cur
  BY <1>1 DEF Processes
<1>4. put[t] # None /\ p \in put[t].by /\ IsFiniteSet(put[t].by)
  BY <1>1, <1>3 DEF Placed, SessionInv
<1>5. new # None => Placed(new, p)'
  BY DEF Placed
<1>6. \A s \in SessionIds : Sole(s, p)' =>
               /\ Readable(s)' => put'[s].turns \subseteq Texts(files'[s])
               /\ new # None => Safe(new, s, put'[s].turns, Readable(s)')
  BY DEF Sole, Readable, SessionInv, SessionKept
<1> QED
  BY <1>2, <1>3, <1>4, <1>5, <1>6, SessionStep

-----------------------------------------------------------------------------
(* Commands.                                                                *)

(* The metadata of a new session is an object, and a file.                  *)
LEMMA FreshMeta == NewMeta \in Objects /\ <<NewMeta>> \in FileLines
<1>1. NewMeta \in Objects
  BY CliSessionAssumption DEF NewMeta, Turn, NoGoals, Objects
<1>2. <<NewMeta>> \in Seq(Objects \cup {None}) /\ <<NewMeta>>[1] = NewMeta
  BY <1>1
<1> QED
  BY <1>1, <1>2, ObjectsParse DEF FileLines

(* A process at its prompt.                                                 *)
LEMMA Prompted ==
    ASSUME SessionInv, NEW p \in Procs, AtPrompt(p)
    PROVE  /\ SessionTypeOK /\ cli[p] \in Processes /\ cli[p] # None /\ cli[p].job = None
           /\ cli[p].cur \in SessionIds /\ put[cli[p].cur] # None /\ p \in put[cli[p].cur].by
           /\ Placed(cli[p], p)
  BY DEF SessionInv, SessionTypeOK, AtPrompt, Placed, Processes

(* A file that can be read.                                                 *)
LEMMA ReadableFile ==
    ASSUME SessionInv, NEW s \in SessionIds, Readable(s)
    PROVE  /\ files[s] \in FileLines /\ files[s] # <<>> /\ put[s] # None
           /\ Head(files[s]) \in Objects
  BY TextsOfFile DEF SessionInv, SessionTypeOK, Readable

(* What is loaded has the texts of the file.                                *)
LEMMA LoadedFile ==
    ASSUME SessionInv, NEW s \in SessionIds, Readable(s), NEW state \in Processes
    PROVE  /\ Loaded(state, s) \in Processes /\ Loaded(state, s).cur = s
           /\ Loaded(state, s).job = state.job
           /\ Texts(<<Loaded(state, s).meta>> \o Loaded(state, s).history) = Texts(files[s])
<1> DEFINE file == files[s]
           history == NonBlank(Tail(file))
           new == Loaded(state, s)
<1>1. file \in FileLines /\ file # <<>>
  BY ReadableFile
<1>2. new = [state EXCEPT !.cur = s, !.meta = Head(file), !.history = history]
  BY DEF Loaded
<1> HIDE DEF file
<1>3. /\ Head(file) \in Objects /\ Tail(file) \in Seq(Objects \cup {None})
      /\ Texts(file) = Texts(Tail(file)) \cup ({Head(file).text} \ {0})
  BY <1>1, TextsOfFile
<1>4. history \in Seq(Objects) /\ Texts(history) = Texts(Tail(file))
  BY <1>3, TextsNonBlank
<1> HIDE DEF history, new
<1>5. new \in Processes /\ new.cur = s /\ new.job = state.job /\ new.meta = Head(file) /\ new.history = history
  BY <1>2, <1>3, <1>4 DEF Processes
<1>6. history \in Seq(Objects \cup {None})
  BY <1>4
<1>7. Texts(<<Head(file)>> \o history) = Texts(file)
  BY <1>3, <1>4, <1>6, TextsAfter
<1> QED
  BY <1>5, <1>7 DEF file, new

(* A process starts in a session of its own.                                *)
LEMMA StartSession ==
    ASSUME SessionInv, NEW p \in Procs, Start(p)
    PROVE  SessionInv'
<1>1. PICK s \in Fresh :
         /\ cli' = [cli EXCEPT ![p] =
                      [cur |-> s, meta |-> NewMeta, history |-> <<>>, goal |-> None,
                       auto |-> None, todo |-> 0, job |-> Job("empty", s, <<NewMeta>>, "stay")]]
         /\ put' = [put EXCEPT ![s] = Written(p, s)]
  BY DEF Start
<1> DEFINE j == Job("empty", s, <<NewMeta>>, "stay")
           new == [cur |-> s, meta |-> NewMeta, history |-> <<>>, goal |-> None,
                   auto |-> None, todo |-> 0, job |-> j]
<1>2. s \in SessionIds /\ put[s] = None
  BY DEF Fresh
<1>3. /\ j \in Jobs /\ j.op = "empty" /\ j.target = s /\ j.after = "stay" /\ j.lines # <<>>
  BY <1>2, FreshMeta DEF Job, Jobs
<1>4. j # None
  BY <1>3, CliSessionAssumption
<1> HIDE DEF j
<1>5. new \in Processes /\ new.cur = s /\ new.job = j
  BY <1>2, <1>3, FreshMeta DEF Processes
<1> HIDE DEF new
<1>6. cli' = [cli EXCEPT ![p] = new] /\ files' = files /\ copy' = copy /\ turns' = turns /\ commands' = commands
  BY <1>1 DEF Start, new, j
<1>7. commands \in 0..MaxCommands
  BY DEF SessionInv, SessionTypeOK
<1>8. \A r \in SessionIds : Sole(r, p) => Safe(new, r, put[r].turns, Readable(r))
  BY <1>2, <1>3, <1>5 DEF Sole, Safe
<1> QED
  BY <1>1, <1>2, <1>3, <1>4, <1>5, <1>6, <1>7, <1>8, WritingStep

(* A command is counted, and given at the prompt.                           *)
LEMMA CommandCounted ==
    ASSUME SessionInv, NEW p \in Procs, Command(p)
    PROVE  commands' \in 0..MaxCommands /\ AtPrompt(p)
  BY CliSessionAssumption DEF SessionInv, SessionTypeOK, Command

(* A session is resumed: what is in hand is what its file has.              *)
LEMMA ResumeStep ==
    ASSUME SessionInv, NEW p \in Procs, NEW s \in SessionIds, Resume(p, s)
    PROVE  SessionInv'
<1> DEFINE new == Loaded(cli[p], s)
<1>1. /\ Readable(s) /\ cli' = [cli EXCEPT ![p] = new] /\ put' = [put EXCEPT ![s] = Written(p, s)]
      /\ files' = files /\ copy' = copy /\ turns' = turns
  BY DEF Resume
<1>2. commands' \in 0..MaxCommands /\ AtPrompt(p)
  BY CommandCounted DEF Resume
<1>3. cli[p] \in Processes /\ cli[p].job = None
  BY <1>2, Prompted
<1>4. /\ new \in Processes /\ new.cur = s /\ new.job = None
      /\ Texts(<<new.meta>> \o new.history) = Texts(files[s])
  BY <1>1, <1>3, LoadedFile
<1> HIDE DEF new
<1>5. put[s] # None
  BY <1>1, ReadableFile
<1>6. \A r \in SessionIds : Sole(r, p) => Safe(new, r, put[r].turns, Readable(r))
  BY <1>1, <1>4 DEF SessionInv, SessionKept, Safe
<1> QED
  BY <1>1, <1>2, <1>4, <1>5, <1>6, WritingStep

(* A session that is made is fresh: nothing was saved in it.                *)
LEMMA CreatesStep ==
    ASSUME SessionInv, NEW p \in Procs, NEW lines \in FileLines, Creates(p, lines)
    PROVE  SessionInv'
<1>1. PICK s \in Fresh :
         /\ cli' = [cli EXCEPT ![p].job = Job("empty", s, lines, "load")]
         /\ put' = [put EXCEPT ![s] = Written(p, s)]
  BY DEF Creates
<1> DEFINE j == Job("empty", s, lines, "load")
           new == [cli[p] EXCEPT !.job = j]
<1>2. s \in SessionIds /\ put[s] = None
  BY DEF Fresh
<1>3. commands' \in 0..MaxCommands /\ AtPrompt(p)
  BY CommandCounted DEF Creates
<1>4. /\ cli[p] \in Processes /\ cli[p] # None /\ cli[p].job = None
      /\ put[cli[p].cur] # None /\ p \in put[cli[p].cur].by
  BY <1>3, Prompted
<1>5. /\ j \in Jobs /\ j.op = "empty" /\ j.target = s /\ j.after = "load"
  BY <1>2 DEF Job, Jobs
<1> HIDE DEF j
<1>6. /\ new \in Processes /\ new.cur = cli[p].cur /\ new.job = j
      /\ new.meta = cli[p].meta /\ new.history = cli[p].history
  BY <1>4, <1>5 DEF Processes
<1> HIDE DEF new
<1>7. cli' = [cli EXCEPT ![p] = new] /\ files' = files /\ copy' = copy /\ turns' = turns
  BY <1>1 DEF Creates, new, j
<1>8. \A r \in SessionIds : Sole(r, p) => Safe(new, r, put[r].turns, Readable(r))
  BY <1>2, <1>4, <1>5, <1>6 DEF Sole, SessionInv, SessionKept, Safe
<1>9. new.cur # s
  BY <1>2, <1>4, <1>6
<1> QED
  BY <1>1, <1>2, <1>3, <1>4, <1>5, <1>6, <1>7, <1>8, <1>9, WritingStep

(* What is about to be written to a file that is there has its texts.       *)
LEMMA RewriteStep ==
    ASSUME SessionInv, NEW p \in Procs, AtPrompt(p), NEW t \in SessionIds, Readable(t),
           NEW o \in Objects, o.text = Head(files[t]).text,
           NEW new \in Processes, new.cur = cli[p].cur, new.meta = cli[p].meta,
           new.history = cli[p].history, new.job = Job("empty", t, Rewritten(o, files[t]), "stay"),
           cli' = [cli EXCEPT ![p] = new], put' = [put EXCEPT ![t] = Written(p, t)],
           files' = files, copy' = copy, turns' = turns, commands' \in 0..MaxCommands
    PROVE  SessionInv'
<1> DEFINE lines == Rewritten(o, files[t])
           j == new.job
<1>1. /\ cli[p] \in Processes /\ cli[p] # None /\ cli[p].job = None
      /\ put[cli[p].cur] # None /\ p \in put[cli[p].cur].by
  BY Prompted
<1>2. put[t] # None /\ files[t] \in FileLines /\ files[t] # <<>>
  BY ReadableFile
<1>3. lines \in FileLines /\ lines # <<>> /\ Texts(files[t]) \subseteq Texts(lines)
  BY <1>2, TextsRewritten
<1> HIDE DEF lines
<1>4. j \in Jobs /\ j.op = "empty" /\ j.target = t /\ j.after = "stay" /\ j.lines = lines
  BY <1>3 DEF Job, Jobs, lines
<1>5. \A r \in SessionIds : Sole(r, p) => Safe(new, r, put[r].turns, Readable(r))
  BY <1>1, <1>3, <1>4 DEF SessionInv, SessionKept, Safe
<1> HIDE DEF j
<1> QED
  BY <1>1, <1>2, <1>3, <1>4, <1>5, WritingStep DEF j

(* A tag or a merge writes line 1 as it was.                                *)
LEMMA AnnotateStep ==
    ASSUME SessionInv, NEW p \in Procs, NEW s \in SessionIds, Annotate(p, s)
    PROVE  SessionInv'
<1> DEFINE o == Head(files[s])
           j == Job("empty", s, Rewritten(o, files[s]), "stay")
           new == [cli[p] EXCEPT !.job = j]
<1>1. /\ Readable(s) /\ cli' = [cli EXCEPT ![p] = new] /\ put' = [put EXCEPT ![s] = Written(p, s)]
      /\ files' = files /\ copy' = copy /\ turns' = turns
  BY DEF Annotate
<1>2. commands' \in 0..MaxCommands /\ AtPrompt(p)
  BY CommandCounted DEF Annotate
<1>3. o \in Objects /\ files[s] \in FileLines /\ files[s] # <<>>
  BY <1>1, ReadableFile
<1>4. j \in Jobs
  BY <1>3, TextsRewritten DEF Job, Jobs
<1>5. cli[p] \in Processes
  BY <1>2, Prompted
<1> HIDE DEF j
<1>6. /\ new \in Processes /\ new.cur = cli[p].cur /\ new.job = j
      /\ new.meta = cli[p].meta /\ new.history = cli[p].history
  BY <1>4, <1>5 DEF Processes
<1> HIDE DEF new
<1> QED
  BY <1>1, <1>2, <1>3, <1>6, RewriteStep DEF j

(* Goals are written to line 1 of the file.                                 *)
LEMMA GoalLines ==
    ASSUME SessionInv, NEW s \in SessionIds, Readable(s), NEW g \in GoalIds,
           NEW status \in {None, "active", "ended"}
    PROVE  LET o == [Head(files[s]) EXCEPT !.goals[g] = status]
           IN  /\ o \in Objects /\ o.text = Head(files[s]).text
               /\ Job("empty", s, Rewritten(o, files[s]), "stay") \in Jobs
<1> DEFINE meta == Head(files[s])
           o == [meta EXCEPT !.goals[g] = status]
<1>1. meta \in Objects /\ files[s] \in FileLines /\ files[s] # <<>>
  BY ReadableFile
<1> HIDE DEF meta
<1>2. o \in Objects /\ o.text = meta.text
  BY <1>1 DEF Objects
<1> HIDE DEF o
<1>3. Rewritten(o, files[s]) \in FileLines
  BY <1>1, <1>2, TextsRewritten DEF meta
<1>4. Job("empty", s, Rewritten(o, files[s]), "stay") \in Jobs
  BY <1>3 DEF Job, Jobs
<1> QED
  BY <1>2, <1>4 DEF o, meta

(* A goal is set, saved where there is a file to save it in.                *)
LEMMA SetGoalStep ==
    ASSUME SessionInv, NEW p \in Procs, NEW g \in GoalIds, NEW continues \in BOOLEAN,
           SetGoal(p, g, continues)
    PROVE  SessionInv'
<1> DEFINE s == cli[p].cur
           auto == IF continues THEN g ELSE cli[p].auto
           state == [cli[p] EXCEPT !.goal = g, !.auto = auto]
           new == IF Readable(s) THEN SaveGoal(state, g, "active") ELSE state
           o == [Head(files[s]) EXCEPT !.goals[g] = "active"]
           j == Job("empty", s, Rewritten(o, files[s]), "stay")
<1>1. /\ cli' = [cli EXCEPT ![p] = new] /\ put' = [put EXCEPT ![s] = Written(p, s)]
      /\ files' = files /\ copy' = copy /\ turns' = turns
  BY DEF SetGoal
<1>2. commands' \in 0..MaxCommands /\ AtPrompt(p)
  BY CommandCounted DEF SetGoal
<1>3. /\ cli[p] \in Processes /\ cli[p] # None /\ cli[p].job = None
      /\ s \in SessionIds /\ put[s] # None /\ p \in put[s].by
  BY <1>2, Prompted
<1>4. auto \in GoalIds \cup {None}
  BY <1>3 DEF Processes
<1> HIDE DEF auto
<1>5. /\ state \in Processes /\ state.cur = s /\ state.job = None
      /\ state.meta = cli[p].meta /\ state.history = cli[p].history
  BY <1>3, <1>4 DEF Processes
<1> HIDE DEF state
<1>6. CASE Readable(s)
  <2>1. o \in Objects /\ o.text = Head(files[s]).text /\ j \in Jobs
    BY <1>3, <1>6, GoalLines
  <2>2. SaveGoal(state, g, "active") = [state EXCEPT !.job = j]
    BY <1>5 DEF SaveGoal
  <2>3. new = [state EXCEPT !.job = j]
    BY <1>6, <2>2
  <2> HIDE DEF new, j
  <2>4. /\ new \in Processes /\ new.cur = s /\ new.job = j
        /\ new.meta = cli[p].meta /\ new.history = cli[p].history
    BY <1>5, <2>1, <2>3 DEF Processes
  <2> HIDE DEF o
  <2> QED
    BY <1>1, <1>2, <1>3, <1>6, <2>1, <2>4, RewriteStep DEF j
<1>7. CASE ~Readable(s)
  <2>1. new = state
    BY <1>7
  <2> HIDE DEF new
  <2>2. \A r \in SessionIds : Sole(r, p) => Safe(state, r, put[r].turns, Readable(r))
    BY <1>3, <1>5 DEF SessionInv, SessionKept, Safe
  <2> HIDE DEF s
  <2> QED
    BY <1>1, <1>2, <1>3, <1>5, <2>1, <2>2, WritingStep
<1> QED
  BY <1>6, <1>7

(* A sub-goal writes the current goal as it was.                            *)
LEMMA AddSubgoalStep ==
    ASSUME SessionInv, NEW p \in Procs, AddSubgoal(p)
    PROVE  SessionInv'
<1> DEFINE s == cli[p].cur
           g == cli[p].goal
           status == Head(files[s]).goals[g]
           o == [Head(files[s]) EXCEPT !.goals[g] = status]
           j == Job("empty", s, Rewritten(o, files[s]), "stay")
           new == [cli[p] EXCEPT !.job = j]
<1>1. /\ cli' = [cli EXCEPT ![p] = new] /\ put' = [put EXCEPT ![s] = Written(p, s)]
      /\ files' = files /\ copy' = copy /\ turns' = turns
  BY DEF AddSubgoal, SaveGoal
<1>2. commands' \in 0..MaxCommands /\ AtPrompt(p)
  BY CommandCounted DEF AddSubgoal
<1>3. cli[p] \in Processes /\ s \in SessionIds
  BY <1>2, Prompted
<1>4. Readable(s) /\ g \in GoalIds
  BY DEF AddSubgoal, GoalsOf
<1>5. Head(files[s]) \in Objects
  BY <1>3, <1>4, ReadableFile
<1>6. status \in {None, "active", "ended"}
  BY <1>4, <1>5 DEF Objects
<1> HIDE DEF status
<1>7. o \in Objects /\ o.text = Head(files[s]).text /\ j \in Jobs
  BY <1>3, <1>4, <1>6, GoalLines
<1> HIDE DEF j
<1>8. /\ new \in Processes /\ new.cur = cli[p].cur /\ new.job = j
      /\ new.meta = cli[p].meta /\ new.history = cli[p].history
  BY <1>3, <1>7 DEF Processes
<1> HIDE DEF new, o
<1> QED
  BY <1>1, <1>2, <1>3, <1>4, <1>7, <1>8, RewriteStep DEF j

(* A goal ends.                                                             *)
LEMMA EndGoalStep ==
    ASSUME SessionInv, NEW p \in Procs, NEW g \in GoalIds, EndGoal(p, g)
    PROVE  SessionInv'
<1> DEFINE s == cli[p].cur
           o == [Head(files[s]) EXCEPT !.goals[g] = "ended"]
           j == Job("empty", s, Rewritten(o, files[s]), "stay")
           new == [[cli[p] EXCEPT !.job = j] EXCEPT !.goal = None, !.auto = None]
<1>1. /\ cli' = [cli EXCEPT ![p] = new] /\ put' = [put EXCEPT ![s] = Written(p, s)]
      /\ files' = files /\ copy' = copy /\ turns' = turns
  BY DEF EndGoal, SaveGoal
<1>2. commands' \in 0..MaxCommands /\ AtPrompt(p)
  BY CommandCounted DEF EndGoal
<1>3. cli[p] \in Processes /\ s \in SessionIds
  BY <1>2, Prompted
<1>4. Readable(s)
  BY DEF EndGoal, GoalsOf
<1>5. o \in Objects /\ o.text = Head(files[s]).text /\ j \in Jobs
  BY <1>3, <1>4, GoalLines
<1> HIDE DEF j
<1>6. /\ new \in Processes /\ new.cur = cli[p].cur /\ new.job = j
      /\ new.meta = cli[p].meta /\ new.history = cli[p].history
  BY <1>3, <1>5 DEF Processes
<1> HIDE DEF new, o
<1> QED
  BY <1>1, <1>2, <1>3, <1>4, <1>5, <1>6, RewriteStep DEF j

(* A copy elsewhere, and a deletion.                                        *)
LEMMA CopyStep ==
    ASSUME SessionInv, NEW p \in Procs,
           SaveTemplate(p) \/ \E s \in SessionIds : Export(p, s)
    PROVE  SessionInv'
<1>1. commands' \in 0..MaxCommands /\ AtPrompt(p)
  BY CommandCounted DEF SaveTemplate, Export
<1>2. /\ cli[p] \in Processes /\ cli[p] # None /\ Placed(cli[p], p) /\ cli[p].cur \in SessionIds
  BY <1>1, Prompted
<1>3. cli' = cli /\ put' = put /\ files' = files /\ turns' = turns
  BY DEF SaveTemplate, Export
<1>4. cli' = [cli EXCEPT ![p] = cli[p]]
  BY <1>3 DEF SessionInv, SessionTypeOK
<1>5. copy' \in FileLines \cup {None}
  <2>1. CASE SaveTemplate(p)
    <3> DEFINE file == files[cli[p].cur]
    <3>1. file \in FileLines /\ file # <<>>
      BY <1>2, <2>1, ReadableFile DEF SaveTemplate
    <3>2. copy' = <<NewMeta>> \o NonBlank(Tail(file))
      BY <2>1 DEF SaveTemplate
    <3> HIDE DEF file
    <3>3. NonBlank(Tail(file)) \in Seq(Objects)
      BY <3>1, TextsOfFile, TextsNonBlank
    <3>4. NonBlank(Tail(file)) \in Seq(Objects \cup {None})
      BY <3>3
    <3> QED
      BY <3>2, <3>4, FreshMeta, TextsAfter
  <2>2. ASSUME NEW s \in SessionIds, Export(p, s)
        PROVE  copy' \in FileLines \cup {None}
    BY <2>2 DEF Export, SessionInv, SessionTypeOK
  <2> QED
    BY <2>1, <2>2
<1>6. \A r \in SessionIds : Sole(r, p) => Safe(cli[p], r, put[r].turns, Readable(r))
  BY <1>2 DEF SessionInv, SessionKept
<1> QED
  BY <1>1, <1>2, <1>3, <1>4, <1>5, <1>6, QuietStep

(* A session is deleted: nothing is claimed of it any more.                 *)
LEMMA DeleteStep ==
    ASSUME SessionInv, NEW p \in Procs, NEW s \in SessionIds, Delete(p, s)
    PROVE  SessionInv'
<1>1. commands' \in 0..MaxCommands /\ AtPrompt(p)
  BY CommandCounted DEF Delete
<1>2. SessionTypeOK /\ cli[p] \in Processes /\ cli[p] # None /\ Placed(cli[p], p)
      /\ cli[p].cur \in SessionIds
  BY <1>1, Prompted
<1>3. files[s] # None /\ files' = [files EXCEPT ![s] = None] /\ put' = [put EXCEPT ![s].deleted = TRUE]
      /\ cli' = cli /\ copy' = copy /\ turns' = turns
  BY DEF Delete
<1>4. put[s] \in Puts
  BY <1>2, <1>3 DEF SessionInv, SessionTypeOK
<1>5. PICK record : record = [put[s] EXCEPT !.deleted = TRUE]
  OBVIOUS
<1>6. record \in Puts /\ record.by = put[s].by /\ record.deleted = TRUE
  BY <1>4, <1>5 DEF Puts
<1>7. /\ put'[s] = record /\ \A r \in SessionIds \ {s} : put'[r] = put[r] /\ files'[r] = files[r]
      /\ put' \in [SessionIds -> Puts \cup {None}] /\ files' \in [SessionIds -> FileLines \cup {None}]
  BY <1>2, <1>3, <1>5, <1>6 DEF SessionTypeOK
<1>8. SessionTypeOK'
  BY <1>1, <1>2, <1>3, <1>7 DEF SessionTypeOK
<1>9. put'[s] # None /\ put[s] # None /\ put[s].by # {} /\ IsFiniteSet(put[s].by)
  BY <1>4, <1>6, <1>7, CliSessionAssumption DEF SessionInv
<1>10. PICK state \in Processes : state = cli[p]
  BY <1>2
<1>11. cli' = [cli EXCEPT ![p] = state]
  BY <1>2, <1>3, <1>10 DEF SessionTypeOK
<1>12. Placed(state, p)'
  <2>1. \A r \in SessionIds : put[r] # None => put'[r] # None /\ put'[r].by = put[r].by
    BY <1>6, <1>7, <1>9
  <2>2. state.cur \in SessionIds /\ (state.job # None => state.job.target \in SessionIds)
    BY DEF Processes, Jobs
  <2> QED
    BY <1>2, <1>10, <2>1, <2>2 DEF Placed
<1>13. ASSUME NEW r \in SessionIds, Sole(r, p)'
       PROVE  /\ Readable(r)' => put'[r].turns \subseteq Texts(files'[r])
              /\ Safe(state, r, put'[r].turns, Readable(r)')
  <2>1. r # s
    BY <1>6, <1>7, <1>13 DEF Sole
  <2>2. Sole(r, p) /\ put'[r] = put[r] /\ files'[r] = files[r]
    BY <1>7, <1>13, <2>1 DEF Sole
  <2>3. SessionKept(r, p)
    BY DEF SessionInv
  <2> QED
    BY <1>2, <1>10, <2>2, <2>3 DEF SessionKept, Readable
<1> QED
  BY <1>6, <1>7, <1>8, <1>9, <1>11, <1>12, <1>13, SessionStep

(* A chat begins: its turns are saved one by one.                           *)
LEMMA ChatBegins ==
    ASSUME SessionInv, NEW p \in Procs, Chat(p)
    PROVE  SessionInv'
<1> DEFINE n == IF cli[p].auto = None THEN 2 ELSE 4
           new == [cli[p] EXCEPT !.todo = n]
<1>1. commands' \in 0..MaxCommands /\ AtPrompt(p)
  BY CommandCounted DEF Chat
<1>2. SessionTypeOK /\ cli[p] \in Processes /\ cli[p] # None /\ Placed(cli[p], p)
  BY <1>1, Prompted
<1>3. cli' = [cli EXCEPT ![p] = new] /\ put' = put /\ files' = files /\ turns' = turns /\ copy' = copy
  BY DEF Chat
<1>4. n \in 0..4
  OBVIOUS
<1> HIDE DEF n
<1>5. /\ new \in Processes /\ new.cur = cli[p].cur /\ new.job = cli[p].job
      /\ new.meta = cli[p].meta /\ new.history = cli[p].history
  BY <1>2, <1>4 DEF Processes
<1> HIDE DEF new
<1>6. Placed(new, p)
  BY <1>2, <1>5 DEF Placed
<1>7. \A r \in SessionIds : Sole(r, p) => Safe(new, r, put[r].turns, Readable(r))
  BY <1>2, <1>5 DEF SessionInv, SessionKept, Safe
<1>8. copy \in FileLines \cup {None}
  BY <1>2 DEF SessionTypeOK
<1> QED
  BY <1>1, <1>2, <1>3, <1>5, <1>6, <1>7, <1>8, QuietStep

-----------------------------------------------------------------------------
(* Turns and files.                                                         *)

(* A turn is saved: the file and what is about to replace it both have it.  *)
LEMMA SaveTurnStep ==
    ASSUME SessionInv, NEW p \in Procs, SaveTurn(p)
    PROVE  SessionInv'
<1> DEFINE s == cli[p].cur
           turn == Turn(turns + 1)
           history == Append(cli[p].history, turn)
           lines == <<cli[p].meta>> \o history
           j == Job("empty", s, lines, "stay")
           todo == cli[p].todo - 1
           new == [cli[p] EXCEPT !.history = history, !.todo = todo, !.job = j]
           record == [Written(p, s) EXCEPT !.turns = @ \cup {turns + 1}]
<1>1. /\ cli[p] # None /\ cli[p].job = None /\ cli[p].todo > 0 /\ turns < MaxTurns /\ turns' = turns + 1
      /\ files' = [files EXCEPT ![s] = IF files[s] = None THEN <<turn>> ELSE Append(files[s], turn)]
      /\ put' = [put EXCEPT ![s] = record] /\ commands' = commands /\ copy' = copy
  BY DEF SaveTurn
<1>2. /\ SessionTypeOK /\ cli[p] \in Processes /\ s \in SessionIds
      /\ put[s] # None /\ p \in put[s].by /\ IsFiniteSet(put[s].by)
  BY <1>1 DEF SessionInv, SessionTypeOK, Processes, Placed
<1>3. cli' = [cli EXCEPT ![p] = new]
  BY <1>2 DEF SaveTurn, SessionTypeOK
<1>4. turns + 1 \in 1..MaxTurns /\ turns \in 0..MaxTurns /\ MaxTurns \in Nat
  BY <1>1, <1>2, CliSessionAssumption DEF SessionTypeOK
<1>5. turn \in Objects /\ turn.text = turns + 1
  BY <1>4, CliSessionAssumption DEF Turn, NoGoals, Objects
<1> HIDE DEF turn
<1>6. cli[p].meta \in Objects /\ cli[p].history \in Seq(Objects) /\ cli[p].todo \in 0..4
  BY <1>2 DEF Processes
<1>7. cli[p].history \in Seq(Objects \cup {None})
  BY <1>6
<1>8. /\ history \in Seq(Objects) /\ history \in Seq(Objects \cup {None})
      /\ Texts(history) = Texts(cli[p].history) \cup {turns + 1}
  <2>1. history \in Seq(Objects)
    BY <1>5, <1>6
  <2> QED
    BY <1>4, <1>5, <1>7, <2>1, TextsAppended
<1> HIDE DEF history
<1>9. /\ lines \in FileLines /\ lines # <<>>
      /\ Texts(lines) = Texts(history) \cup ({cli[p].meta.text} \ {0})
  BY <1>6, <1>8, TextsAfter
<1>10. Texts(<<cli[p].meta>> \o cli[p].history) = Texts(cli[p].history) \cup ({cli[p].meta.text} \ {0})
  BY <1>6, <1>7, TextsAfter
<1> HIDE DEF lines
<1>11. j \in Jobs /\ j.op = "empty" /\ j.target = s /\ j.after = "stay" /\ j.lines = lines
  BY <1>2, <1>9 DEF Job, Jobs
<1>12. todo \in 0..4
  BY <1>1, <1>6
<1> HIDE DEF j, todo
<1>13. /\ new \in Processes /\ new.cur = s /\ new.job = j
       /\ new.meta = cli[p].meta /\ new.history = history
  BY <1>2, <1>8, <1>11, <1>12 DEF Processes
<1> HIDE DEF new
<1>25. PICK held \in Processes : held = new
  BY <1>13
<1>26. /\ cli' = [cli EXCEPT ![p] = held] /\ held.cur = s /\ held.job = j
       /\ held.meta = cli[p].meta /\ held.history = history
  BY <1>3, <1>13, <1>25
<1>14. Written(p, s) \in Puts /\ Written(p, s).by = put[s].by \cup {p}
       /\ Written(p, s).turns = put[s].turns /\ Written(p, s).deleted = put[s].deleted
  BY <1>2, WrittenBy
<1>15. record \in Puts /\ record.by = put[s].by /\ record.turns = put[s].turns \cup {turns + 1}
       /\ record.deleted = put[s].deleted
  BY <1>2, <1>4, <1>14 DEF Puts
<1> HIDE DEF record
<1>16. record # None
  BY <1>15, CliSessionAssumption
<1>17. <<turn>> \in FileLines
  <2>1. <<turn>> \in Seq(Objects \cup {None}) /\ <<turn>>[1] = turn
    BY <1>5
  <2> QED
    BY <1>5, <2>1, ObjectsParse DEF FileLines
<1> DEFINE file == IF files[s] = None THEN <<turn>> ELSE Append(files[s], turn)
<1>18. files[s] # None =>
         /\ Append(files[s], turn) \in FileLines
         /\ Texts(Append(files[s], turn)) = Texts(files[s]) \cup {turns + 1}
  <2>1. ASSUME files[s] # None PROVE files[s] \in FileLines /\ files[s] \in Seq(Objects \cup {None})
    BY <1>2, <2>1 DEF SessionTypeOK, FileLines
  <2> QED
    BY <1>4, <1>5, <2>1, TextsAppended
<1>19. file \in FileLines
  BY <1>17, <1>18
<1>20. /\ \A r \in SessionIds \ {s} : put'[r] = put[r] /\ files'[r] = files[r]
       /\ put'[s] = record /\ files'[s] = file
       /\ put' \in [SessionIds -> Puts \cup {None}] /\ files' \in [SessionIds -> FileLines \cup {None}]
  BY <1>1, <1>2, <1>15, <1>19 DEF SessionTypeOK
<1> HIDE DEF s
<1>21. SessionTypeOK'
  BY <1>1, <1>2, <1>4, <1>26, <1>20 DEF SessionTypeOK
<1>22. Placed(held, p)'
  BY <1>2, <1>9, <1>11, <1>26, <1>15, <1>16, <1>20 DEF Placed
<1>23. ASSUME NEW r \in SessionIds, Sole(r, p)'
       PROVE  /\ Readable(r)' => put'[r].turns \subseteq Texts(files'[r])
              /\ Safe(held, r, put'[r].turns, Readable(r)')
  <2>1. CASE r # s
    <3>1. put'[r] = put[r] /\ files'[r] = files[r]
      BY <1>20, <2>1
    <3>2. Sole(r, p)
      BY <1>23, <3>1 DEF Sole
    <3> QED
      BY <1>11, <1>26, <2>1, <3>1, <3>2 DEF SessionInv, SessionKept, Readable, Safe
  <2>2. CASE r = s
    <3>1. Sole(s, p)
      BY <1>2, <1>15, <1>20, <1>23, <2>2 DEF Sole
    <3>2. Safe(cli[p], s, put[s].turns, Readable(s)) /\ (Readable(s) => put[s].turns \subseteq Texts(files[s]))
      BY <1>1, <1>2, <3>1 DEF SessionInv, SessionKept
    <3>3. Readable(s) /\ put[s].turns \subseteq Texts(<<cli[p].meta>> \o cli[p].history)
      BY <1>1, <3>2 DEF Safe, s
    <3>4. put'[s].turns \subseteq Texts(lines)
      BY <1>8, <1>9, <1>10, <1>15, <1>20, <3>3
    <3>5. files'[s] = Append(files[s], turn) /\ files[s] # None
      BY <1>20, <3>3 DEF Readable
    <3>6. put'[s].turns \subseteq Texts(files'[s])
      BY <1>15, <1>18, <1>20, <3>2, <3>3, <3>5
    <3>7. <<held.meta>> \o held.history = lines /\ held.job.lines = lines
      BY <1>11, <1>26 DEF lines
    <3>8. Safe(held, r, put'[r].turns, Readable(r)')
      <4>1. held.job # None /\ held.job.target = r
        BY <1>11, <1>26, <2>2, CliSessionAssumption
      <4>2. put'[r].turns \subseteq Texts(lines)
        BY <2>2, <3>4
      <4> QED
        BY <3>7, <4>1, <4>2 DEF Safe
    <3> QED
      BY <2>2, <3>6, <3>8
  <2> QED
    BY <2>1, <2>2
<1>24. put'[s].by # {} /\ IsFiniteSet(put'[s].by) /\ p \in put'[s].by /\ put[s].by \subseteq put'[s].by
  BY <1>2, <1>15, <1>20
<1> QED
  BY <1>2, <1>26, <1>16, <1>20, <1>21, <1>22, <1>23, <1>24, SessionStep

(* A file is emptied: what was saved is in what is about to be written.     *)
LEMMA EmptyFileStep ==
    ASSUME SessionInv, NEW p \in Procs, EmptyFile(p)
    PROVE  SessionInv'
<1>1. PICK t \in SessionIds : /\ cli[p] # None /\ cli[p].job # None /\ t = cli[p].job.target
                              /\ cli[p].job.op = "empty"
  BY DEF EmptyFile, SessionInv, SessionTypeOK, Processes, Jobs
<1>2. PICK writing : writing = [cli[p].job EXCEPT !.op = "fill"]
  OBVIOUS
<1>3. PICK held : held = [cli[p] EXCEPT !.job = writing]
  OBVIOUS
<1>4. SessionTypeOK /\ cli[p] \in Processes /\ cli[p].job \in Jobs /\ Placed(cli[p], p)
  BY <1>1 DEF SessionInv, SessionTypeOK, Processes
<1>5. /\ writing \in Jobs /\ writing.op = "fill" /\ writing.target = t /\ writing.lines = cli[p].job.lines
      /\ writing.after = cli[p].job.after
  BY <1>1, <1>2, <1>4 DEF Jobs
<1>6. /\ held \in Processes /\ held.cur = cli[p].cur /\ held.job = writing
      /\ held.meta = cli[p].meta /\ held.history = cli[p].history /\ held # None /\ writing # None
  BY <1>3, <1>4, <1>5, CliSessionAssumption DEF Processes
<1>7. /\ files' = [files EXCEPT ![t] = <<>>] /\ cli' = [cli EXCEPT ![p] = held]
      /\ put' = put /\ commands' = commands /\ copy' = copy /\ turns' = turns
  BY <1>1, <1>2, <1>3, <1>4 DEF EmptyFile, SessionTypeOK
<1>8. <<>> \in FileLines
  BY DEF FileLines
<1>9. SessionTypeOK'
  BY <1>4, <1>6, <1>7, <1>8 DEF SessionTypeOK
<1>10. /\ files'[t] = <<>> /\ \A r \in SessionIds \ {t} : files'[r] = files[r]
  BY <1>4, <1>7 DEF SessionTypeOK
<1>11. Placed(held, p)'
  BY <1>1, <1>4, <1>5, <1>6, <1>7 DEF Placed
<1>12. ASSUME NEW r \in SessionIds, Sole(r, p)'
       PROVE  /\ Readable(r)' => put'[r].turns \subseteq Texts(files'[r])
              /\ Safe(held, r, put'[r].turns, Readable(r)')
  <2>1. Sole(r, p) /\ put'[r] = put[r]
    BY <1>7, <1>12 DEF Sole
  <2>2. Safe(cli[p], r, put[r].turns, Readable(r)) /\ (Readable(r) => put[r].turns \subseteq Texts(files[r]))
    BY <1>1, <2>1 DEF SessionInv, SessionKept
  <2>3. CASE r = t
    <3>1. ~Readable(r)'
      BY <1>10, <2>3 DEF Readable
    <3> QED
      BY <1>1, <1>5, <1>6, <2>1, <2>2, <2>3, <3>1 DEF Safe
  <2>4. CASE r # t
    <3>1. files'[r] = files[r]
      BY <1>10, <2>4
    <3> QED
      BY <1>1, <1>5, <1>6, <2>1, <2>2, <2>4, <3>1 DEF Safe, Readable
  <2> QED
    BY <2>3, <2>4
<1>13. put[t] # None /\ put[t].by # {} /\ IsFiniteSet(put[t].by) /\ p \in put[t].by
  BY <1>1, <1>4 DEF Placed, SessionInv
<1> QED
  BY <1>6, <1>7, <1>9, <1>10, <1>11, <1>12, <1>13, SessionStep

(* A file is filled with what was about to be written to it.                *)
LEMMA FillFileStep ==
    ASSUME SessionInv, NEW p \in Procs, FillFile(p)
    PROVE  SessionInv'
<1>1. PICK t \in SessionIds : /\ cli[p] # None /\ cli[p].job # None /\ t = cli[p].job.target
                              /\ cli[p].job.op = "fill"
  BY DEF FillFile, SessionInv, SessionTypeOK, Processes, Jobs
<1>2. PICK writing : writing = IF cli[p].job.after = "load" THEN [cli[p].job EXCEPT !.op = "load"] ELSE None
  OBVIOUS
<1>3. PICK held : held = [cli[p] EXCEPT !.job = writing]
  OBVIOUS
<1>4. SessionTypeOK /\ cli[p] \in Processes /\ cli[p].job \in Jobs /\ Placed(cli[p], p)
  BY <1>1 DEF SessionInv, SessionTypeOK, Processes
<1>5. PICK lines \in FileLines : lines = cli[p].job.lines
  BY <1>4 DEF Jobs
<1>6. /\ writing \in Jobs \cup {None}
      /\ writing # None => /\ writing.op = "load" /\ writing.target = t /\ writing.lines = lines
                       /\ writing.after = "load"
      /\ cli[p].job.after = "load" => writing # None
      /\ cli[p].job.after \in {"stay", "load"}
  BY <1>1, <1>2, <1>4, <1>5, CliSessionAssumption DEF Jobs
<1>7. /\ held \in Processes /\ held.cur = cli[p].cur /\ held.job = writing
      /\ held.meta = cli[p].meta /\ held.history = cli[p].history /\ held # None
  BY <1>3, <1>4, <1>6, CliSessionAssumption DEF Processes
<1>8. /\ files' = [files EXCEPT ![t] = lines] /\ cli' = [cli EXCEPT ![p] = held]
      /\ put' = put /\ commands' = commands /\ copy' = copy /\ turns' = turns
  BY <1>1, <1>2, <1>3, <1>4, <1>5 DEF FillFile, SessionTypeOK
<1>9. SessionTypeOK'
  BY <1>4, <1>5, <1>7, <1>8 DEF SessionTypeOK
<1>10. /\ files'[t] = lines /\ \A r \in SessionIds \ {t} : files'[r] = files[r]
  BY <1>4, <1>8 DEF SessionTypeOK
<1>11. Placed(held, p)'
  BY <1>1, <1>2, <1>4, <1>5, <1>6, <1>7, <1>8 DEF Placed
<1>12. ASSUME NEW r \in SessionIds, Sole(r, p)'
       PROVE  /\ Readable(r)' => put'[r].turns \subseteq Texts(files'[r])
              /\ Safe(held, r, put'[r].turns, Readable(r)')
  <2>1. Sole(r, p) /\ put'[r] = put[r]
    BY <1>8, <1>12 DEF Sole
  <2>2. Safe(cli[p], r, put[r].turns, Readable(r)) /\ (Readable(r) => put[r].turns \subseteq Texts(files[r]))
    BY <1>1, <2>1 DEF SessionInv, SessionKept
  <2>3. CASE r = t
    <3>1. put'[r].turns \subseteq Texts(files'[r])
      BY <1>1, <1>5, <1>10, <2>1, <2>2, <2>3 DEF Safe
    <3>2. held.cur = r => Readable(r)'
      <4>1. held.cur = r => lines # <<>>
        BY <1>1, <1>4, <1>5, <1>6, <1>7, <2>3 DEF Placed
      <4>2. lines # None
        BY CliSessionAssumption
      <4> QED
        BY <1>10, <2>3, <4>1, <4>2 DEF Readable
    <3> QED
      BY <1>1, <1>6, <1>7, <2>1, <2>2, <2>3, <3>1, <3>2 DEF Safe
  <2>4. CASE r # t
    <3>1. files'[r] = files[r]
      BY <1>10, <2>4
    <3> QED
      BY <1>1, <1>6, <1>7, <2>1, <2>2, <2>4, <3>1 DEF Safe, Readable
  <2> QED
    BY <2>3, <2>4
<1>13. put[t] # None /\ put[t].by # {} /\ IsFiniteSet(put[t].by) /\ p \in put[t].by
  BY <1>1, <1>4 DEF Placed, SessionInv
<1> QED
  BY <1>7, <1>8, <1>9, <1>10, <1>11, <1>12, <1>13, SessionStep

(* The file that was made is loaded, where it is still there.               *)
LEMMA LoadFileStep ==
    ASSUME SessionInv, NEW p \in Procs, LoadFile(p)
    PROVE  SessionInv'
<1>1. PICK t \in SessionIds : /\ cli[p] # None /\ cli[p].job # None /\ t = cli[p].job.target
                              /\ cli[p].job.op = "load"
  BY DEF LoadFile, SessionInv, SessionTypeOK, Processes, Jobs
<1>2. PICK state : state = [cli[p] EXCEPT !.job = None]
  OBVIOUS
<1>3. SessionTypeOK /\ cli[p] \in Processes /\ cli[p].job \in Jobs /\ Placed(cli[p], p)
  BY <1>1 DEF SessionInv, SessionTypeOK, Processes
<1>4. /\ state \in Processes /\ state.cur = cli[p].cur /\ state.job = None
      /\ state.meta = cli[p].meta /\ state.history = cli[p].history
  BY <1>2, <1>3 DEF Processes
<1>5. /\ put' = put /\ commands' = commands /\ copy' = copy /\ turns' = turns /\ files' = files
      /\ cli' = [cli EXCEPT ![p] = IF Readable(t) THEN Loaded(state, t) ELSE state]
  BY <1>1, <1>2 DEF LoadFile
<1>6. put[t] # None /\ p \in put[t].by /\ put[cli[p].cur] # None /\ p \in put[cli[p].cur].by
      /\ cli[p].job.after = "load" /\ t # cli[p].cur
  BY <1>1, <1>3 DEF Placed
<1>7. commands \in 0..MaxCommands /\ copy \in FileLines \cup {None}
  BY <1>3 DEF SessionTypeOK
<1>8. CASE Readable(t)
  <2>1. PICK held : held = Loaded(state, t)
    OBVIOUS
  <2>2. /\ held \in Processes /\ held.cur = t /\ held.job = None
        /\ Texts(<<held.meta>> \o held.history) = Texts(files[t])
    BY <1>4, <1>8, <2>1, LoadedFile
  <2>3. Placed(held, p)
    BY <1>6, <2>2 DEF Placed
  <2>4. \A r \in SessionIds : Sole(r, p) => Safe(held, r, put[r].turns, Readable(r))
    BY <1>8, <2>2 DEF SessionInv, SessionKept, Safe
  <2>5. cli' = [cli EXCEPT ![p] = held]
    BY <1>5, <1>8, <2>1
  <2> QED
    BY <1>1, <1>5, <1>7, <2>2, <2>3, <2>4, <2>5, QuietStep
<1>9. CASE ~Readable(t)
  <2>1. Placed(state, p)
    BY <1>4, <1>6 DEF Placed
  <2>2. \A r \in SessionIds : Sole(r, p) => Safe(state, r, put[r].turns, Readable(r))
    BY <1>1, <1>4, <1>6 DEF SessionInv, SessionKept, Safe
  <2>3. cli' = [cli EXCEPT ![p] = state]
    BY <1>5, <1>9
  <2> QED
    BY <1>1, <1>4, <1>5, <1>7, <2>1, <2>2, <2>3, QuietStep
<1> QED
  BY <1>8, <1>9

(* A process ends: what it held is lost, and what was saved is in the file  *)
(* unless the file was emptied.                                             *)
LEMMA ExitStep ==
    ASSUME SessionInv, NEW p \in Procs, Exit(p)
    PROVE  SessionInv'
<1>1. commands \in 0..MaxCommands /\ copy \in FileLines \cup {None}
  BY DEF SessionInv, SessionTypeOK
<1> QED
  BY <1>1, QuietStep DEF Exit

-----------------------------------------------------------------------------
(* The session files keep the invariant: a session that one process only    *)
(* has written has in its file, in what that process is about to write      *)
(* there, and in what it holds of it, every turn that was saved.            *)
THEOREM SessionInductive == SessionSpec => []SessionInv
<1>1. SessionInit => SessionInv
  <2> SUFFICES ASSUME SessionInit PROVE SessionInv
    OBVIOUS
  <2>1. SessionTypeOK
    BY CliSessionAssumption DEF SessionInit, SessionTypeOK
  <2> QED
    BY <2>1 DEF SessionInit, SessionInv, SessionKept, Sole
<1>2. SessionInv /\ [SessionNext]_sessionVars => SessionInv'
  <2> SUFFICES ASSUME SessionInv, [SessionNext]_sessionVars PROVE SessionInv'
    OBVIOUS
  <2>1. CASE UNCHANGED sessionVars
    BY <2>1 DEF sessionVars, SessionInv, SessionTypeOK, SessionKept, Sole, Safe, Placed, Readable
  <2>2. ASSUME NEW p \in Procs, NewSession(p) \/ Import(p)
        PROVE  SessionInv'
    <3>1. copy \in FileLines \cup {None}
      BY DEF SessionInv, SessionTypeOK
    <3> QED
      BY <2>2, <3>1, FreshMeta, CreatesStep DEF NewSession, Import
  <2>3. ASSUME NEW p \in Procs, NEW s \in SessionIds, Branch(p, s)
        PROVE  SessionInv'
    BY <2>3, ReadableFile, CreatesStep DEF Branch
  <2>4. ASSUME NEW p \in Procs, NEW s \in SessionIds,
               Tag(p, s) \/ \E branch \in SessionIds : Merge(p, s, branch)
        PROVE  SessionInv'
    BY <2>4, AnnotateStep DEF Tag, Merge
  <2>5. ASSUME NEW p \in Procs,
               \/ Start(p) \/ Exit(p) \/ SaveTemplate(p) \/ AddSubgoal(p) \/ Chat(p)
               \/ SaveTurn(p) \/ EmptyFile(p) \/ FillFile(p) \/ LoadFile(p)
        PROVE  SessionInv'
    BY <2>5, StartSession, ExitStep, CopyStep, AddSubgoalStep, ChatBegins, SaveTurnStep,
       EmptyFileStep, FillFileStep, LoadFileStep
  <2>6. ASSUME NEW p \in Procs, NEW s \in SessionIds,
               Resume(p, s) \/ Export(p, s) \/ Delete(p, s)
        PROVE  SessionInv'
    BY <2>6, ResumeStep, CopyStep, DeleteStep
  <2>7. ASSUME NEW p \in Procs, NEW g \in GoalIds,
               (\E continues \in BOOLEAN : SetGoal(p, g, continues)) \/ EndGoal(p, g)
        PROVE  SessionInv'
    BY <2>7, SetGoalStep, EndGoalStep
  <2> QED
    BY <2>1, <2>2, <2>3, <2>4, <2>5, <2>6, <2>7 DEF SessionNext
<1> QED
  BY <1>1, <1>2, PTL DEF SessionSpec

(* No turn is lost in a session that one process only has written.          *)
THEOREM TurnsStayKept == SessionSpec => []TurnsAreKept
<1>1. SessionInv => TurnsAreKept
  <2> SUFFICES ASSUME SessionInv, NEW s \in SessionIds, Readable(s),
                      Cardinality(put[s].by) = 1, ~put[s].deleted
               PROVE  put[s].turns \subseteq Texts(files[s])
    BY DEF TurnsAreKept
  <2>1. put[s] \in Puts /\ put[s] # None /\ IsFiniteSet(put[s].by)
    BY DEF SessionInv, SessionTypeOK, Readable
  <2>2. PICK p : put[s].by = {p}
    BY <2>1, FS_Singleton
  <2>3. p \in Procs
    BY <2>1, <2>2 DEF Puts
  <2> QED
    BY <2>1, <2>2, <2>3 DEF SessionInv, SessionKept, Sole
<1> QED
  BY <1>1, SessionInductive, PTL
=============================================================================
