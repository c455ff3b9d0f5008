----------------------------- MODULE SearchIndex -----------------------------
(* The indexing command of agent/indexer.py and the collections it keeps in *)
(* Qdrant. It is run by hand, by deploy/vps-up.sh and on a merge, and       *)
(* nothing keeps two runs apart. A point is known by its file and by the    *)
(* lines its chunk is said to come from; what a file is cut into, and which *)
(* lines are said, is TextChunks and RustChunks. Here a content has the     *)
(* lines of its chunks in order, and two of them may be the same, since the *)
(* cutting forgets where a chunk began (indexer.py 376).                    *)
EXTENDS Integers, Sequences, Absent

CONSTANTS
    Indexers,       \* processes that may run the command
    FilesOf,        \* per collection, the files below the root it is made from
    Contents,       \* what a file may hold
    SpansOf,        \* per content, the lines each of its chunks is said to have
    BatchSize       \* chunks that are embedded and stored together

Collections == DOMAIN FilesOf
Files == UNION {FilesOf[c] : c \in Collections}
Spans == UNION {{SpansOf[x][k] : k \in DOMAIN SpansOf[x]} : x \in Contents}
Points == [file : Files, span : Spans]
ChunkTexts == UNION {{[of |-> x, nr |-> k] : k \in DOMAIN SpansOf[x]} : x \in Contents}

ASSUME SearchIndexAssumption ==
    /\ Collections \subseteq {"code", "skill_doc"}
    /\ BatchSize \in Nat \ {0} /\ None \notin Contents
    /\ \A x \in Contents : DOMAIN SpansOf[x] = 1..Len(SpansOf[x]) /\ Len(SpansOf[x]) \in Nat
    /\ \A points \in SUBSET Points : None \notin [points -> ChunkTexts]

VARIABLES
    repo,       \* what each file holds, None if it is not there
    store,      \* per collection, the text of each of its points; None if absent
    indexers,   \* per process, its run
    period      \* history: the runs since one last began alone

indexVars == <<repo, store, indexers, period>>

Idle == [at |-> "idle", recreate |-> FALSE, todo |-> <<>>, ahead |-> {}, chunks |-> <<>>]

Now(p) == Head(indexers[p].todo)
Busy == {p \in Indexers : indexers[p].at # "idle"}

Chunk(f, x, k) == [point |-> [file |-> f, span |-> SpansOf[x][k]], text |-> [of |-> x, nr |-> k]]

Chunks(f, x) == [k \in 1..Len(SpansOf[x]) |-> Chunk(f, x, k)]

Pos(p, at) == indexers[p].at = at

Go(p, r) == indexers' = [indexers EXCEPT ![p] = r]

Spoilt == period' = [period EXCEPT !.intact = FALSE]

-----------------------------------------------------------------------------
IndexInit ==
    /\ repo \in [Files -> Contents \cup {None}]
    /\ store = [c \in Collections |-> None]
    /\ indexers = [p \in Indexers |-> Idle]
    /\ period = [intact |-> FALSE, indexed |-> {}, rebuilt |-> {}]

(* --repo, --skill-docs or both, the repository first.                      *)
Targets ==
    {todo \in {<<"code">>, <<"skill_doc">>, <<"code", "skill_doc">>} : \A i \in DOMAIN todo : todo[i] \in Collections}

StartIndexer(p, todo, recreate) ==
    /\ Pos(p, "idle")
    /\ Go(p, [Idle EXCEPT !.at = IF recreate THEN "drop" ELSE "list",
                          !.recreate = recreate, !.todo = todo])
    /\ period' = IF Busy = {} THEN [intact |-> TRUE, indexed |-> {}, rebuilt |-> {}] ELSE period
    /\ UNCHANGED <<repo, store>>

ListCollections(p) ==
    /\ Pos(p, "list")
    /\ Go(p, [indexers[p] EXCEPT !.at = IF store[Now(p)] = None THEN "create" ELSE "walk"])
    /\ UNCHANGED <<repo, store, period>>

DropCollection(p) ==
    /\ Pos(p, "drop")
    /\ store' = [store EXCEPT ![Now(p)] = None]
    /\ Go(p, [indexers[p] EXCEPT !.at = "create"])
    /\ period' = [period EXCEPT !.rebuilt = @ \cup {Now(p)}]
    /\ UNCHANGED repo

(* Creating a collection that is there by now raises, and the command ends. *)
CreateCollection(p) ==
    /\ Pos(p, "create")
    /\ \/ /\ store[Now(p)] = None
          /\ store' = [store EXCEPT ![Now(p)] = [x \in {} |-> None]]
          /\ Go(p, [indexers[p] EXCEPT !.at = "walk"])
          /\ UNCHANGED period
       \/ store[Now(p)] # None /\ Go(p, Idle) /\ Spoilt /\ UNCHANGED store
    /\ UNCHANGED repo

Walk(p) ==
    /\ Pos(p, "walk")
    /\ Go(p, [indexers[p] EXCEPT !.at = "read",
                !.ahead = {f \in FilesOf[Now(p)] : repo[f] # None}])
    /\ UNCHANGED <<repo, store, period>>

(* A file that is gone since, or that cannot be read or cut, is logged and  *)
(* passed over.                                                             *)
ReadFile(p, f) ==
    LET rest == [indexers[p] EXCEPT !.ahead = @ \ {f}] IN
    /\ Pos(p, "read") /\ f \in indexers[p].ahead
    /\ \/ /\ repo[f] # None
          /\ Go(p, [rest EXCEPT !.chunks = @ \o Chunks(f, repo[f])]) /\ UNCHANGED period
       \/ Go(p, rest) /\ Spoilt
    /\ UNCHANGED <<repo, store>>

Embed(p) ==
    /\ Pos(p, "read") /\ indexers[p].ahead = {}
    /\ Go(p, [indexers[p] EXCEPT !.at = "upsert"])
    /\ UNCHANGED <<repo, store, period>>

Batch(p) ==
    SubSeq(indexers[p].chunks, 1,
           IF Len(indexers[p].chunks) < BatchSize THEN Len(indexers[p].chunks) ELSE BatchSize)

Stored_NewOnly(points, batch) ==
    LET new == {batch[i].point : i \in DOMAIN batch} \ DOMAIN points IN
    [x \in DOMAIN points \cup new |->
        IF x \in new THEN batch[CHOOSE i \in DOMAIN batch : batch[i].point = x].text ELSE points[x]]

Stored(points, batch) ==
    LET new == {batch[i].point : i \in DOMAIN batch} IN
    [x \in DOMAIN points \cup new |->
        IF x \in new THEN LET last == CHOOSE i \in DOMAIN batch :
                              /\ batch[i].point = x
                              /\ \A j \in DOMAIN batch : batch[j].point = x => j <= i
                          IN  batch[last].text
        ELSE points[x]]

(* A batch that cannot be embedded is logged and left out, and the run goes *)
(* on to the next one. Without its collection the command ends here.        *)
UpsertBatch(p) ==
    LET rest == [indexers[p] EXCEPT !.chunks = SubSeq(@, Len(Batch(p)) + 1, Len(@))] IN
    /\ Pos(p, "upsert") /\ indexers[p].chunks # <<>>
    /\ \/ Go(p, rest) /\ Spoilt /\ UNCHANGED store
       \/ /\ store[Now(p)] # None
          /\ store' = [store EXCEPT ![Now(p)] = Stored(@, Batch(p))]
          /\ Go(p, rest) /\ UNCHANGED period
       \/ store[Now(p)] = None /\ Go(p, Idle) /\ Spoilt /\ UNCHANGED store
    /\ UNCHANGED repo

NextRoot(p) ==
    LET run == indexers[p] IN
    /\ Pos(p, "upsert") /\ run.chunks = <<>>
    /\ Go(p, IF Len(run.todo) = 1 THEN Idle
             ELSE [run EXCEPT !.at = IF run.recreate THEN "drop" ELSE "list", !.todo = Tail(@)])
    /\ period' = [period EXCEPT !.indexed = @ \cup {Now(p)}]
    /\ UNCHANGED <<repo, store>>

(* Qdrant or the embedder is unavailable, or the process is killed.         *)
IndexerDies(p) == p \in Busy /\ Go(p, Idle) /\ Spoilt /\ UNCHANGED <<repo, store>>

EditFile(f, x) ==
    /\ repo[f] # x /\ repo' = [repo EXCEPT ![f] = x]
    /\ Spoilt /\ UNCHANGED <<store, indexers>>

IndexNext ==
    \/ \E p \in Indexers :
         \/ \E todo \in Targets, recreate \in BOOLEAN : StartIndexer(p, todo, recreate)
         \/ ListCollections(p) \/ DropCollection(p) \/ CreateCollection(p)
         \/ Walk(p) \/ (\E f \in Files : ReadFile(p, f)) \/ Embed(p)
         \/ UpsertBatch(p) \/ NextRoot(p) \/ IndexerDies(p)
    \/ \E f \in Files, x \in Contents \cup {None} : EditFile(f, x)

IndexSpec == IndexInit /\ [][IndexNext]_indexVars

-----------------------------------------------------------------------------

IndexTypeOK ==
    /\ repo \in [Files -> Contents \cup {None}]
    /\ \A c \in Collections :
         store[c] # None => \A x \in DOMAIN store[c] : x \in Points /\ store[c][x] \in ChunkTexts
    /\ \A p \in Indexers :
         /\ indexers[p].at \in {"idle", "list", "drop", "create", "walk", "read", "upsert"}
         /\ indexers[p].ahead \subseteq Files
         /\ p \in Busy => indexers[p].todo # <<>>

(* However the runs of the command overlap, once they are all over without  *)
(* a failure, a file or a batch left out or an edit meanwhile, each         *)
(* collection that was indexed has every point of every file, with the last *)
(* of the file's present chunks that claim it; and no other point, if one   *)
(* of the runs recreated it. (indexer.py 554)                               *)
IndexIsCurrent ==
    period.intact /\ Busy = {} =>
        \A c \in period.indexed :
            LET there == {f \in FilesOf[c] : repo[f] # None}
                now == UNION {{Chunk(f, repo[f], k) : k \in DOMAIN SpansOf[repo[f]]} : f \in there}
            IN  /\ store[c] # None
                /\ \A ch \in now : ch.point \in DOMAIN store[c]
                /\ \A ch \in now :
                     (\A other \in now : other.point = ch.point => other.text.nr <= ch.text.nr)
                        => store[c][ch.point] = ch.text
                /\ c \in period.rebuilt => DOMAIN store[c] = {ch.point : ch \in now}
=============================================================================
