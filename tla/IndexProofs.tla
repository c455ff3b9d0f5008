----------------------------- MODULE IndexProofs -----------------------------
(* The indexer: how files are cut into chunks, and what the collections of  *)
(* the search index hold of them.                                           *)
EXTENDS SearchIndex, TextChunks, RustChunks, SequenceLemmas

-----------------------------------------------------------------------------
(* The index.                                                               *)

IndexChunk == [point : Points, text : ChunkTexts]

IndexRun ==
    {run \in [at : {"idle", "list", "drop", "create", "walk", "read", "upsert"},
              recreate : BOOLEAN, todo : Seq(Collections), ahead : SUBSET Files,
              chunks : Seq(IndexChunk)] :
        /\ run.at # "idle" => run.todo # <<>>
        /\ run.at # "read" => run.ahead = {}
        /\ run.at \notin {"read", "upsert"} => run.chunks = <<>>}

StoredTexts == UNION {[points -> ChunkTexts] : points \in SUBSET Points}

Periods == [intact : BOOLEAN, indexed : SUBSET Collections, rebuilt : SUBSET Collections]

IndexTypes ==
    /\ repo \in [Files -> Contents \cup {None}]
    /\ store \in [Collections -> StoredTexts \cup {None}]
    /\ indexers \in [Indexers -> IndexRun]
    /\ period \in Periods

(* The last chunk of its content that claims its point.                     *)
Final(ch) ==
    LET spans == SpansOf[ch.text.of] IN
    /\ ch.text.nr \in DOMAIN spans /\ spans[ch.text.nr] = ch.point.span
    /\ \A k \in DOMAIN spans : spans[k] = ch.point.span => k <= ch.text.nr

(* Those of the chunks that the files of a collection have at present.      *)
Present(c) ==
    {ch \in IndexChunk : /\ ch.point.file \in FilesOf[c] /\ repo[ch.point.file] = ch.text.of
                         /\ Final(ch)}

(* Chunks in which each is followed by one of these for its point.          *)
LastIsBehind(s, these) ==
    \A i \in DOMAIN s : \E j \in DOMAIN s : i <= j /\ s[j].point = s[i].point /\ s[j] \in these

(* What a run has still to store, and where.                                *)
InHand(run, ch) ==
    run.at \in {"create", "walk"} \/ ch.point.file \in run.ahead \/ Has(run.chunks, ch)

WorksOn(run, c) == run.at \in {"create", "walk", "read", "upsert"} /\ Head(run.todo) = c

Carries(run, c, ch) == WorksOn(run, c) /\ InHand(run, ch)

CreatesFor(run, c) == WorksOn(run, c) /\ run.at = "create"

InStore(c, ch) ==
    store[c] # None /\ ch.point \in DOMAIN store[c] /\ store[c][ch.point] = ch.text

(* The collections that a run has finished or begun since the period began. *)
Touched(c) == c \in period.indexed \/ \E p \in Indexers : WorksOn(indexers[p], c)

(* While nothing was spoilt, runs hold what is current, all that is current *)
(* is stored or in the hands of a run, and a rebuilt collection has nothing *)
(* else.                                                                    *)
HoldsPresent(run) ==
    /\ \A f \in run.ahead : f \in FilesOf[Head(run.todo)] /\ repo[f] # None
    /\ LastIsBehind(run.chunks, Present(Head(run.todo)))

HandsArePresent == \A p \in Indexers : HoldsPresent(indexers[p])

NothingIsLost ==
    \A c \in Collections : Touched(c) =>
        /\ store[c] # None \/ \E p \in Indexers : CreatesFor(indexers[p], c)
        /\ \A ch \in Present(c) : InStore(c, ch) \/ \E p \in Indexers : Carries(indexers[p], c, ch)

NothingElse ==
    \A c \in period.rebuilt : store[c] # None =>
        \A x \in DOMAIN store[c] : \E ch \in Present(c) : ch.point = x

IndexInv == IndexTypes /\ (period.intact => HandsArePresent /\ NothingIsLost /\ NothingElse)

-----------------------------------------------------------------------------
(* What the command is run for is a list of collections.                    *)
LEMMA TargetsAreLists == \A todo \in Targets : todo \in Seq(Collections) /\ todo # <<>>
  BY DEF Targets

(* The spans of a content.                                                  *)
LEMMA SpansOfContent ==
    ASSUME NEW x \in Contents
    PROVE  DOMAIN SpansOf[x] = 1..Len(SpansOf[x]) /\ Len(SpansOf[x]) \in Nat
  BY SearchIndexAssumption

(* The chunks of a file.                                                    *)
LEMMA ChunksOfFile ==
    ASSUME NEW f \in Files, NEW x \in Contents
    PROVE  /\ Chunks(f, x) \in Seq(IndexChunk)
           /\ DOMAIN Chunks(f, x) = DOMAIN SpansOf[x]
           /\ \A k \in DOMAIN SpansOf[x] : /\ Chunks(f, x)[k] = Chunk(f, x, k)
                                           /\ Chunk(f, x, k) \in IndexChunk
<1>1. DOMAIN SpansOf[x] = 1..Len(SpansOf[x]) /\ Len(SpansOf[x]) \in Nat
  BY SpansOfContent
<1>2. \A k \in DOMAIN SpansOf[x] : SpansOf[x][k] \in Spans
  <2> DEFINE of(y) == {SpansOf[y][k] : k \in DOMAIN SpansOf[y]}
  <2>1. \A k \in DOMAIN SpansOf[x] : SpansOf[x][k] \in of(x)
    OBVIOUS
  <2>2. Spans = UNION {of(y) : y \in Contents}
    BY DEF Spans
  <2> HIDE DEF of
  <2> QED
    BY <2>1, <2>2
<1>3. \A k \in DOMAIN SpansOf[x] : [of |-> x, nr |-> k] \in ChunkTexts
  <2> DEFINE of(y) == {[of |-> y, nr |-> k] : k \in DOMAIN SpansOf[y]}
  <2>1. \A k \in DOMAIN SpansOf[x] : [of |-> x, nr |-> k] \in of(x)
    OBVIOUS
  <2>2. ChunkTexts = UNION {of(y) : y \in Contents}
    BY DEF ChunkTexts
  <2> HIDE DEF of
  <2> QED
    BY <2>1, <2>2
<1>4. \A k \in DOMAIN SpansOf[x] : Chunk(f, x, k) \in IndexChunk
  BY <1>2, <1>3 DEF Chunk, IndexChunk, Points
<1>5. Chunks(f, x) = [k \in 1..Len(SpansOf[x]) |-> Chunk(f, x, k)]
  BY DEF Chunks
<1> QED
  BY <1>1, <1>4, <1>5

(* Each of them is followed by the final one for its point.                 *)
LEMMA FinalFollows ==
    ASSUME NEW f \in Files, NEW x \in Contents, NEW k \in DOMAIN SpansOf[x]
    PROVE  \E j \in DOMAIN SpansOf[x] :
              /\ k <= j /\ Chunk(f, x, j).point = Chunk(f, x, k).point /\ Final(Chunk(f, x, j))
<1> DEFINE places == {j \in DOMAIN SpansOf[x] : SpansOf[x][j] = SpansOf[x][k]}
<1>1. DOMAIN SpansOf[x] = 1..Len(SpansOf[x]) /\ Len(SpansOf[x]) \in Nat
  BY SpansOfContent
<1>2. places \in SUBSET (1..Len(SpansOf[x])) /\ k \in places
  BY <1>1
<1>3. PICK m \in places : \A j \in places : j <= m
  <2> HIDE DEF places
  <2> QED
    BY <1>1, <1>2, LastPlace
<1>4. m \in DOMAIN SpansOf[x] /\ SpansOf[x][m] = SpansOf[x][k] /\ k <= m
  BY <1>2, <1>3
<1>5. \A j \in DOMAIN SpansOf[x] : SpansOf[x][j] = SpansOf[x][m] => j <= m
  BY <1>3, <1>4
<1>6. /\ Chunk(f, x, m).text.of = x /\ Chunk(f, x, m).text.nr = m
      /\ Chunk(f, x, m).point.span = SpansOf[x][m]
      /\ Chunk(f, x, m).point = Chunk(f, x, k).point
  BY <1>4 DEF Chunk
<1>7. Final(Chunk(f, x, m))
  BY <1>4, <1>5, <1>6 DEF Final
<1> QED
  BY <1>4, <1>6, <1>7

(* A final chunk is that of its place in its content.                       *)
LEMMA FinalChunk ==
    ASSUME NEW ch \in IndexChunk, Final(ch)
    PROVE  /\ ch.text.of \in Contents /\ ch.text.nr \in DOMAIN SpansOf[ch.text.of]
           /\ ch.point.file \in Files
           /\ ch = Chunk(ch.point.file, ch.text.of, ch.text.nr)
<1>1. ch.text \in ChunkTexts /\ ch.point \in Points
  BY DEF IndexChunk
<1>2. PICK x \in Contents : \E k \in DOMAIN SpansOf[x] : ch.text = [of |-> x, nr |-> k]
  <2> DEFINE of(y) == {[of |-> y, nr |-> k] : k \in DOMAIN SpansOf[y]}
  <2>1. ChunkTexts = UNION {of(y) : y \in Contents}
    BY DEF ChunkTexts
  <2>2. PICK x \in Contents : ch.text \in of(x)
    <3> HIDE DEF of
    <3> QED
      BY <1>1, <2>1
  <2> QED
    BY <2>2
<1>3. /\ ch.text = [of |-> ch.text.of, nr |-> ch.text.nr]
      /\ ch.text.of \in Contents
  BY <1>2
<1>4. /\ ch.point = [file |-> ch.point.file, span |-> ch.point.span]
      /\ ch.point.file \in Files
  BY <1>1 DEF Points
<1>5. ch = [point |-> ch.point, text |-> ch.text]
  BY DEF IndexChunk
<1> QED
  BY <1>3, <1>4, <1>5 DEF Final, Chunk

(* Of one content there is one for a point.                                 *)
LEMMA SameChunk ==
    ASSUME NEW a \in IndexChunk, NEW b \in IndexChunk, Final(a), Final(b),
           a.point = b.point, a.text.of = b.text.of
    PROVE  a = b
<1>1. /\ a = Chunk(a.point.file, a.text.of, a.text.nr) /\ b = Chunk(b.point.file, b.text.of, b.text.nr)
      /\ a.text.nr \in DOMAIN SpansOf[a.text.of] /\ b.text.nr \in DOMAIN SpansOf[a.text.of]
      /\ a.text.of \in Contents
  BY FinalChunk
<1>2. a.text.nr <= b.text.nr /\ b.text.nr <= a.text.nr
  BY <1>1 DEF Final
<1>3. a.text.nr \in Nat /\ b.text.nr \in Nat
  BY <1>1, SpansOfContent
<1>4. a.text.nr = b.text.nr
  BY <1>2, <1>3
<1> QED
  BY <1>1, <1>4

(* Chunks put behind each other stay settled.                               *)
LEMMA BehindInConcat ==
    ASSUME NEW s \in Seq(IndexChunk), NEW t \in Seq(IndexChunk), NEW these,
           LastIsBehind(s, these), LastIsBehind(t, these)
    PROVE  LastIsBehind(s \o t, these)
<1> DEFINE st == s \o t
<1>1. /\ DOMAIN s = 1..Len(s) /\ DOMAIN t = 1..Len(t) /\ DOMAIN st = 1..(Len(s) + Len(t))
      /\ Len(s) \in Nat /\ Len(t) \in Nat
      /\ \A i \in 1..Len(s) : st[i] = s[i]
      /\ \A i \in 1..Len(t) : st[Len(s) + i] = t[i]
  OBVIOUS
<1> SUFFICES ASSUME NEW i \in DOMAIN st
             PROVE  \E j \in DOMAIN st : i <= j /\ st[j].point = st[i].point /\ st[j] \in these
  BY DEF LastIsBehind
<1> HIDE DEF st
<1>2. CASE i \in DOMAIN s
  <2>1. PICK j \in DOMAIN s : i <= j /\ s[j].point = s[i].point /\ s[j] \in these
    BY <1>2 DEF LastIsBehind
  <2>2. j \in DOMAIN st /\ st[j] = s[j] /\ st[i] = s[i]
    BY <1>1, <1>2, <2>1
  <2> QED
    BY <2>1, <2>2
<1>3. CASE i \notin DOMAIN s
  <2>1. PICK n \in DOMAIN t : i = Len(s) + n
    <3>1. i - Len(s) \in DOMAIN t /\ i = Len(s) + (i - Len(s))
      BY <1>1, <1>3
    <3> QED
      BY <3>1
  <2>2. PICK j \in DOMAIN t : n <= j /\ t[j].point = t[n].point /\ t[j] \in these
    BY <2>1 DEF LastIsBehind
  <2>3. Len(s) + j \in DOMAIN st /\ st[Len(s) + j] = t[j] /\ st[i] = t[n] /\ i <= Len(s) + j
    BY <1>1, <2>1, <2>2
  <2> QED
    BY <2>2, <2>3
<1> QED
  BY <1>2, <1>3

(* Cut in two, the rest stays settled, and each chunk before the cut has    *)
(* one of these behind it before the cut or in the rest.                    *)
LEMMA BehindInCut ==
    ASSUME NEW s \in Seq(IndexChunk), NEW these, LastIsBehind(s, these), NEW n \in 0..Len(s),
           NEW batch, batch = SubSeq(s, 1, n)
    PROVE  LET rest == SubSeq(s, Len(batch) + 1, Len(s))
           IN  /\ LastIsBehind(rest, these)
               /\ \A i \in DOMAIN batch :
                    \/ \E j \in DOMAIN batch : i <= j /\ batch[j].point = batch[i].point /\ batch[j] \in these
                    \/ \E j \in DOMAIN rest : rest[j].point = batch[i].point /\ rest[j] \in these
<1> DEFINE rest == SubSeq(s, Len(batch) + 1, Len(s))
<1>1. Len(s) \in Nat /\ DOMAIN s = 1..Len(s) /\ n \in Nat /\ n <= Len(s)
  BY LenProperties
<1>2. Len(batch) = n /\ DOMAIN batch = 1..n /\ \A i \in 1..n : batch[i] = s[i]
  BY <1>1
<1>3. DOMAIN rest = 1..(Len(s) - n) /\ \A i \in 1..(Len(s) - n) : rest[i] = s[n + i]
  BY <1>1, <1>2
<1> HIDE DEF rest
<1>4. \A i \in DOMAIN s : \E j \in DOMAIN s : i <= j /\ s[j].point = s[i].point /\ s[j] \in these
  BY DEF LastIsBehind
<1>5. ASSUME NEW j \in DOMAIN s, n < j
      PROVE  j - n \in DOMAIN rest /\ rest[j - n] = s[j]
  <2>1. j - n \in 1..(Len(s) - n) /\ n + (j - n) = j
    BY <1>1, <1>5
  <2> QED
    BY <1>3, <2>1
<1>6. ASSUME NEW i \in DOMAIN rest
      PROVE  \E j \in DOMAIN rest : i <= j /\ rest[j].point = rest[i].point /\ rest[j] \in these
  <2>1. n + i \in DOMAIN s /\ rest[i] = s[n + i] /\ i \in Nat /\ i > 0
    BY <1>1, <1>3
  <2>2. PICK j \in DOMAIN s : n + i <= j /\ s[j].point = s[n + i].point /\ s[j] \in these
    BY <1>4, <2>1
  <2>3. n < j /\ i <= j - n
    BY <1>1, <2>1, <2>2
  <2> QED
    BY <1>5, <2>1, <2>2, <2>3
<1>7. ASSUME NEW i \in DOMAIN batch
      PROVE  \/ \E j \in DOMAIN batch : i <= j /\ batch[j].point = batch[i].point /\ batch[j] \in these
             \/ \E j \in DOMAIN rest : rest[j].point = batch[i].point /\ rest[j] \in these
  <2>1. i \in DOMAIN s /\ batch[i] = s[i]
    BY <1>1, <1>2
  <2>2. PICK j \in DOMAIN s : i <= j /\ s[j].point = s[i].point /\ s[j] \in these
    BY <1>4, <2>1
  <2>3. CASE n < j
    BY <1>5, <2>1, <2>2, <2>3
  <2>4. CASE ~(n < j)
    <3>1. j \in 1..n
      BY <1>1, <2>4
    <3> QED
      BY <1>2, <2>1, <2>2, <3>1
  <2> QED
    BY <2>3, <2>4
<1>8. LastIsBehind(rest, these)
  BY <1>6 DEF LastIsBehind
<1> QED
  BY <1>7, <1>8 DEF rest

(* Storing a batch: its points get the text of the last chunk, and the      *)
(* others keep theirs.                                                      *)
LEMMA StoredBatch ==
    ASSUME NEW points \in StoredTexts, NEW batch \in Seq(IndexChunk)
    PROVE  /\ Stored(points, batch) \in StoredTexts
           /\ DOMAIN Stored(points, batch) = DOMAIN points \cup {batch[i].point : i \in DOMAIN batch}
           /\ \A x \in {batch[i].point : i \in DOMAIN batch} : \E i \in DOMAIN batch :
                /\ batch[i].point = x /\ Stored(points, batch)[x] = batch[i].text
                /\ \A j \in DOMAIN batch : batch[j].point = x => j <= i
           /\ \A x \in DOMAIN points \ {batch[i].point : i \in DOMAIN batch} :
                Stored(points, batch)[x] = points[x]
<1> DEFINE new == {batch[i].point : i \in DOMAIN batch}
           newest(x) == CHOOSE i \in DOMAIN batch :
                          /\ batch[i].point = x
                          /\ \A j \in DOMAIN batch : batch[j].point = x => j <= i
           all == Stored(points, batch)
<1>1. all = [x \in DOMAIN points \cup new |-> IF x \in new THEN batch[newest(x)].text ELSE points[x]]
  BY DEF Stored
<1>2. DOMAIN batch = 1..Len(batch) /\ Len(batch) \in Nat /\ \A i \in DOMAIN batch : batch[i] \in IndexChunk
  OBVIOUS
<1>3. ASSUME NEW x \in new
      PROVE  /\ newest(x) \in DOMAIN batch /\ batch[newest(x)].point = x
             /\ \A j \in DOMAIN batch : batch[j].point = x => j <= newest(x)
  <2> DEFINE places == {i \in DOMAIN batch : batch[i].point = x}
  <2>1. places \in SUBSET (1..Len(batch)) /\ places # {}
    BY <1>2, <1>3
  <2>2. \E m \in places : \A k \in places : k <= m
    <3> HIDE DEF places
    <3> QED
      BY <2>1, <1>2, LastPlace
  <2>3. \E m \in DOMAIN batch : /\ batch[m].point = x
                                /\ \A j \in DOMAIN batch : batch[j].point = x => j <= m
    BY <2>2
  <2> QED
    BY <2>3
<1>4. new \subseteq Points
  BY <1>2 DEF IndexChunk
<1>5. PICK old \in SUBSET Points : points \in [old -> ChunkTexts]
  BY DEF StoredTexts
<1> HIDE DEF new, newest
<1>6. \A x \in new : all[x] = batch[newest(x)].text /\ batch[newest(x)].text \in ChunkTexts
  BY <1>1, <1>2, <1>3 DEF IndexChunk
<1>7. \A x \in DOMAIN points \ new : all[x] = points[x] /\ points[x] \in ChunkTexts
  BY <1>1, <1>5
<1>8. all \in [old \cup new -> ChunkTexts]
  BY <1>1, <1>5, <1>6, <1>7
<1>9. all \in StoredTexts
  BY <1>4, <1>5, <1>8 DEF StoredTexts
<1> HIDE DEF all
<1>10. \A x \in new : \E i \in DOMAIN batch :
         /\ batch[i].point = x /\ all[x] = batch[i].text
         /\ \A j \in DOMAIN batch : batch[j].point = x => j <= i
  BY <1>3, <1>6
<1>11. DOMAIN all = DOMAIN points \cup new
  BY <1>1 DEF all
<1> QED
  BY <1>7, <1>9, <1>10, <1>11 DEF new, all

(* The fields of a run.                                                     *)
LEMMA RunFields ==
    ASSUME NEW run \in IndexRun
    PROVE  /\ run \in [at : {"idle", "list", "drop", "create", "walk", "read", "upsert"},
                       recreate : BOOLEAN, todo : Seq(Collections), ahead : SUBSET Files,
                       chunks : Seq(IndexChunk)]
           /\ run.at # "idle" => run.todo # <<>> /\ Head(run.todo) \in Collections
           /\ run.at # "read" => run.ahead = {}
           /\ run.at \notin {"read", "upsert"} => run.chunks = <<>>
  BY DEF IndexRun

(* An idle process.                                                         *)
LEMMA IdleRun ==
    Idle \in IndexRun /\ Idle.at = "idle" /\ Idle.ahead = {} /\ Idle.chunks = <<>> /\ Idle.todo = <<>>
<1>1. Idle \in [at : {"idle", "list", "drop", "create", "walk", "read", "upsert"},
                recreate : BOOLEAN, todo : Seq(Collections), ahead : SUBSET Files,
                chunks : Seq(IndexChunk)]
  BY DEF Idle
<1> QED
  BY <1>1 DEF Idle, IndexRun

(* What a step of one process does to the runs.                             *)
LEMMA OthersKeepTheirs ==
    ASSUME NEW p \in Indexers, NEW new \in IndexRun, indexers \in [Indexers -> IndexRun],
           indexers' = [indexers EXCEPT ![p] = new]
    PROVE  /\ indexers' \in [Indexers -> IndexRun]
           /\ indexers'[p] = new
           /\ \A q \in Indexers \ {p} : indexers'[q] = indexers[q]
  OBVIOUS

(* Nothing is lost by a step of a process that keeps the files, if what its *)
(* run held is stored or still held, and what it begins has a collection.   *)
LEMMA StepLosesNothing ==
    ASSUME IndexTypes, NothingIsLost, repo' = repo, NEW p \in Indexers,
           NEW run, run = indexers[p], NEW new \in IndexRun, indexers' = [indexers EXCEPT ![p] = new],
           \A c \in Collections : Touched(c)' =>
               \/ Touched(c)
               \/ /\ WorksOn(new, c) /\ new.at \in {"create", "walk"}
                  /\ store'[c] # None \/ new.at = "create",
           \A c \in Collections :
               store[c] # None \/ CreatesFor(run, c) => store'[c] # None \/ CreatesFor(new, c),
           \A c \in Collections : \A ch \in Present(c) :
               InStore(c, ch) \/ Carries(run, c, ch) => InStore(c, ch)' \/ Carries(new, c, ch)
    PROVE  NothingIsLost'
<1> SUFFICES ASSUME NEW c \in Collections, Touched(c)'
             PROVE  /\ store'[c] # None \/ \E q \in Indexers : CreatesFor(indexers'[q], c)
                    /\ \A ch \in Present(c) :
                         InStore(c, ch)' \/ \E q \in Indexers : Carries(indexers'[q], c, ch)
  <2>1. \A c \in Collections : Present(c)' = Present(c)
    BY DEF Present
  <2> QED
    BY <2>1 DEF NothingIsLost, CreatesFor, Carries, WorksOn, InHand, Has
<1>1. indexers'[p] = new /\ \A q \in Indexers \ {p} : indexers'[q] = indexers[q]
  BY OthersKeepTheirs DEF IndexTypes
<1>2. CASE Touched(c)
  <2>1. store'[c] # None \/ \E q \in Indexers : CreatesFor(indexers'[q], c)
    BY <1>1, <1>2 DEF NothingIsLost
  <2>2. ASSUME NEW ch \in Present(c)
        PROVE  InStore(c, ch)' \/ \E q \in Indexers : Carries(indexers'[q], c, ch)
    BY <1>1, <1>2, <2>2 DEF NothingIsLost
  <2> QED
    BY <2>1, <2>2
<1>3. CASE ~Touched(c)
  <2>1. /\ WorksOn(new, c) /\ new.at \in {"create", "walk"}
        /\ store'[c] # None \/ new.at = "create"
    BY <1>3
  <2>2. \A ch \in Present(c) : Carries(new, c, ch)
    BY <2>1 DEF Carries, InHand
  <2> QED
    BY <1>1, <2>1, <2>2 DEF CreatesFor
<1> QED
  BY <1>2, <1>3

(* What a process is about stays so for the others.                         *)
LEMMA TouchedByStep ==
    ASSUME IndexTypes, NEW p \in Indexers, NEW run, run = indexers[p], NEW new \in IndexRun,
           indexers' = [indexers EXCEPT ![p] = new], NEW c \in Collections, Touched(c)',
           c \in period'.indexed => Touched(c)
    PROVE  Touched(c) \/ WorksOn(new, c)
  BY OthersKeepTheirs DEF IndexTypes, Touched, WorksOn

(* The same for what the runs hold.                                         *)
LEMMA StepHoldsPresent ==
    ASSUME IndexTypes, HandsArePresent, repo' = repo, NEW p \in Indexers, NEW new \in IndexRun,
           indexers' = [indexers EXCEPT ![p] = new], HoldsPresent(new)
    PROVE  HandsArePresent'
<1>1. indexers'[p] = new /\ \A q \in Indexers \ {p} : indexers'[q] = indexers[q]
  BY OthersKeepTheirs DEF IndexTypes
<1>2. \A q \in Indexers : HoldsPresent(indexers'[q])
  BY <1>1 DEF HandsArePresent
<1>3. \A c : Present(c)' = Present(c)
  BY DEF Present
<1> QED
  BY <1>2, <1>3 DEF HandsArePresent, HoldsPresent

(* And for a rebuilt collection, where a step stores nothing.               *)
LEMMA StepAddsNothing ==
    ASSUME NothingElse, repo' = repo, store' = store, period'.rebuilt = period.rebuilt
    PROVE  NothingElse'
<1>1. \A c : Present(c)' = Present(c)
  BY DEF Present
<1> QED
  BY <1>1 DEF NothingElse

-----------------------------------------------------------------------------
(* Beginning, and the stages before files are read.                         *)
LEMMA IndexStart == IndexInit => IndexInv
<1> SUFFICES ASSUME IndexInit PROVE IndexInv
  OBVIOUS
<1>1. IndexTypes /\ ~period.intact
  BY IdleRun DEF IndexInit, IndexTypes, Periods
<1> QED
  BY <1>1 DEF IndexInv

(* A run begins; alone, it begins a period.                                 *)
LEMMA StartStep ==
    ASSUME IndexInv, NEW p \in Indexers, NEW todo \in Targets, NEW recreate \in BOOLEAN,
           StartIndexer(p, todo, recreate)
    PROVE  IndexInv'
<1> DEFINE run == indexers[p]
           first == IF recreate THEN "drop" ELSE "list"
           new == [Idle EXCEPT !.at = first, !.recreate = recreate, !.todo = todo]
<1>1. IndexTypes /\ run \in IndexRun /\ run.at = "idle"
  BY DEF IndexInv, IndexTypes, StartIndexer, Pos
<1>2. first \in {"list", "drop"}
  OBVIOUS
<1>5. indexers' = [indexers EXCEPT ![p] = new] /\ repo' = repo /\ store' = store
  BY DEF StartIndexer, Go
<1> HIDE DEF first
<1>3. /\ new.at \in {"list", "drop"} /\ new.ahead = {} /\ new.chunks = <<>> /\ new.todo = todo
      /\ new \in [at : {"idle", "list", "drop", "create", "walk", "read", "upsert"},
                  recreate : BOOLEAN, todo : Seq(Collections), ahead : SUBSET Files,
                  chunks : Seq(IndexChunk)]
  <2>1. Idle \in [at : {"idle", "list", "drop", "create", "walk", "read", "upsert"},
                  recreate : BOOLEAN, todo : Seq(Collections), ahead : SUBSET Files,
                  chunks : Seq(IndexChunk)]
    BY IdleRun DEF IndexRun
  <2>2. todo \in Seq(Collections)
    BY TargetsAreLists
  <2> QED
    BY <1>2, <2>1, <2>2, IdleRun
<1>4. new \in IndexRun
  BY <1>3, TargetsAreLists DEF IndexRun
<1>6. period' = IF Busy = {} THEN [intact |-> TRUE, indexed |-> {}, rebuilt |-> {}] ELSE period
  BY DEF StartIndexer
<1> HIDE DEF new
<1>7. IndexTypes'
  <2>1. period' \in Periods
    BY <1>1, <1>6 DEF IndexTypes, Periods
  <2> QED
    BY <1>1, <1>4, <1>5, <2>1 DEF IndexTypes
<1>8. HoldsPresent(new)
  BY <1>3 DEF HoldsPresent, LastIsBehind
<1>9. \A c : ~WorksOn(new, c) /\ ~WorksOn(run, c)
  BY <1>1, <1>3 DEF WorksOn
<1>10. CASE Busy = {}
  <2>1. /\ indexers'[p] = new
        /\ \A q \in Indexers \ {p} : /\ indexers'[q] = indexers[q] /\ indexers[q].at = "idle"
                                     /\ indexers[q].ahead = {} /\ indexers[q].chunks = <<>>
    BY <1>1, <1>4, <1>5, <1>10, RunFields DEF IndexTypes, Busy
  <2>2. \A q \in Indexers : /\ indexers'[q].ahead = {} /\ indexers'[q].chunks = <<>>
                            /\ \A c : ~WorksOn(indexers'[q], c)
    BY <1>3, <1>9, <2>1 DEF WorksOn
  <2>3. period'.indexed = {} /\ period'.rebuilt = {}
    BY <1>6, <1>10
  <2>4. HandsArePresent'
    BY <2>2 DEF HandsArePresent, HoldsPresent, LastIsBehind
  <2>5. NothingIsLost'
    BY <2>2, <2>3 DEF NothingIsLost, Touched, WorksOn
  <2>6. NothingElse'
    BY <2>3 DEF NothingElse
  <2> QED
    BY <1>7, <2>4, <2>5, <2>6 DEF IndexInv
<1>11. CASE Busy # {}
  <2>1. period' = period
    BY <1>6, <1>11
  <2>2. ASSUME period.intact
        PROVE  HandsArePresent' /\ NothingIsLost' /\ NothingElse'
    <3>1. HandsArePresent /\ NothingIsLost /\ NothingElse
      BY <2>2 DEF IndexInv
    <3>2. HandsArePresent'
      BY <1>1, <1>4, <1>5, <1>8, <3>1, StepHoldsPresent
    <3>3. NothingElse'
      BY <1>5, <2>1, <3>1, StepAddsNothing
    <3>4. \A c \in Collections : Touched(c)' => Touched(c)
      BY <1>1, <1>4, <1>5, <1>9, <2>1, TouchedByStep DEF Touched
    <3>5. \A c \in Collections : \A ch \in Present(c) : InStore(c, ch) => InStore(c, ch)'
      BY <1>5 DEF InStore
    <3>6. NothingIsLost'
      BY <1>1, <1>4, <1>5, <1>9, <3>1, <3>4, <3>5, StepLosesNothing DEF CreatesFor, Carries
    <3> QED
      BY <3>2, <3>3, <3>6
  <2> QED
    BY <1>7, <2>1, <2>2 DEF IndexInv
<1> QED
  BY <1>10, <1>11

(* A step that spoils the period, or one after it, needs its types only.    *)
LEMMA SpoiltStep ==
    ASSUME IndexTypes, Spoilt, IndexTypes'
    PROVE  IndexInv'
<1>1. period'.intact = FALSE
  BY DEF IndexTypes, Periods, Spoilt
<1> QED
  BY <1>1 DEF IndexInv

(* Spoiling the period leaves its type as it is.                            *)
LEMMA SpoiltTypes ==
    ASSUME IndexTypes, Spoilt
    PROVE  period' \in Periods
  BY DEF IndexTypes, Periods, Spoilt

(* Listing the collections.                                                 *)
LEMMA ListStep ==
    ASSUME IndexInv, NEW p \in Indexers, ListCollections(p)
    PROVE  IndexInv'
<1> DEFINE run == indexers[p]
           next == IF store[Now(p)] = None THEN "create" ELSE "walk"
           new == [run EXCEPT !.at = next]
<1>1. IndexTypes /\ run \in IndexRun /\ run.at = "list"
  BY DEF IndexInv, IndexTypes, ListCollections, Pos
<1>2. next \in {"create", "walk"} /\ (next = "walk" => store[Head(run.todo)] # None)
  BY DEF Now
<1>3. indexers' = [indexers EXCEPT ![p] = new] /\ repo' = repo /\ store' = store /\ period' = period
  BY DEF ListCollections, Go
<1> HIDE DEF next
<1>4. /\ new.at = next /\ new.ahead = {} /\ new.chunks = <<>> /\ new.todo = run.todo
      /\ new \in IndexRun
  BY <1>1, <1>2, RunFields DEF IndexRun
<1> HIDE DEF new
<1>5. IndexTypes'
  BY <1>1, <1>3, <1>4 DEF IndexTypes
<1>6. ASSUME period.intact
      PROVE  HandsArePresent' /\ NothingIsLost' /\ NothingElse'
  <2>1. HandsArePresent /\ NothingIsLost /\ NothingElse
    BY <1>6 DEF IndexInv
  <2>2. HandsArePresent'
    <3>1. HoldsPresent(new)
      BY <1>4 DEF HoldsPresent, LastIsBehind
    <3> QED
      BY <1>1, <1>3, <1>4, <2>1, <3>1, StepHoldsPresent
  <2>3. NothingElse'
    BY <1>3, <2>1, StepAddsNothing
  <2>4. \A c \in Collections : Touched(c)' => Touched(c) \/ WorksOn(new, c)
    BY <1>1, <1>3, <1>4, TouchedByStep DEF Touched
  <2>5. \A c \in Collections : WorksOn(new, c) => store'[c] # None \/ new.at = "create"
    BY <1>2, <1>3, <1>4 DEF WorksOn
  <2>6. \A c : ~WorksOn(run, c)
    BY <1>1 DEF WorksOn
  <2>7. \A c \in Collections : \A ch \in Present(c) : InStore(c, ch) => InStore(c, ch)'
    BY <1>3 DEF InStore
  <2>8. NothingIsLost'
    BY <1>1, <1>2, <1>3, <1>4, <2>1, <2>4, <2>5, <2>6, <2>7, StepLosesNothing DEF CreatesFor, Carries
  <2> QED
    BY <2>2, <2>3, <2>8
<1> QED
  BY <1>3, <1>5, <1>6 DEF IndexInv

(* Dropping one: all of it is then to be stored by who dropped it.          *)
LEMMA DropStep ==
    ASSUME IndexInv, NEW p \in Indexers, DropCollection(p)
    PROVE  IndexInv'
<1> DEFINE run == indexers[p]
           new == [run EXCEPT !.at = "create"]
           d == Head(run.todo)
<1>1. IndexTypes /\ run \in IndexRun /\ run.at = "drop"
  BY DEF IndexInv, IndexTypes, DropCollection, Pos
<1>2. d \in Collections
  BY <1>1, RunFields
<1>3. /\ indexers' = [indexers EXCEPT ![p] = new] /\ repo' = repo
      /\ store' = [store EXCEPT ![d] = None]
      /\ period' = [period EXCEPT !.rebuilt = @ \cup {d}]
  BY DEF DropCollection, Go, Now
<1>4. /\ new.at = "create" /\ new.ahead = {} /\ new.chunks = <<>> /\ new.todo = run.todo
      /\ new \in IndexRun
  BY <1>1, RunFields DEF IndexRun
<1>5. period' \in Periods /\ period'.intact = period.intact /\ period'.indexed = period.indexed
      /\ period'.rebuilt = period.rebuilt \cup {d}
  BY <1>1, <1>2, <1>3 DEF IndexTypes, Periods
<1>6. store' \in [Collections -> StoredTexts \cup {None}] /\ store'[d] = None
      /\ \A c \in Collections \ {d} : store'[c] = store[c]
  BY <1>1, <1>2, <1>3 DEF IndexTypes
<1>7. IndexTypes'
  BY <1>1, <1>3, <1>4, <1>5, <1>6 DEF IndexTypes
<1>8. \A c : (WorksOn(new, c) <=> c = d) /\ ~WorksOn(run, c)
  BY <1>1, <1>4 DEF WorksOn
<1> HIDE DEF new, d
<1>9. ASSUME period.intact
      PROVE  HandsArePresent' /\ NothingIsLost' /\ NothingElse'
  <2>1. HandsArePresent /\ NothingIsLost /\ NothingElse
    BY <1>9 DEF IndexInv
  <2>2. HandsArePresent'
    <3>1. HoldsPresent(new)
      BY <1>4 DEF HoldsPresent, LastIsBehind
    <3> QED
      BY <1>1, <1>3, <1>4, <2>1, <3>1, StepHoldsPresent
  <2>3. \A c : Present(c)' = Present(c)
    BY <1>3 DEF Present
  <2>4. NothingElse'
    <3> SUFFICES ASSUME NEW c \in period'.rebuilt, store'[c] # None, NEW x \in DOMAIN store'[c]
                 PROVE  \E ch \in Present(c) : ch.point = x
      BY <2>3 DEF NothingElse
    <3>1. c \in Collections /\ c # d /\ c \in period.rebuilt
      BY <1>5, <1>6 DEF Periods
    <3> QED
      BY <1>6, <2>1, <3>1 DEF NothingElse
  <2>5. \A c \in Collections : Touched(c)' => Touched(c) \/ WorksOn(new, c)
    BY <1>1, <1>3, <1>4, <1>5, TouchedByStep DEF Touched
  <2>6. \A c \in Collections : \A ch \in Present(c) : InStore(c, ch) => InStore(c, ch)' \/ Carries(new, c, ch)
    BY <1>4, <1>6, <1>8 DEF InStore, Carries, InHand
  <2>7. \A c \in Collections : store[c] # None => store'[c] # None \/ CreatesFor(new, c)
    BY <1>4, <1>6, <1>8 DEF CreatesFor
  <2>8. NothingIsLost'
    BY <1>1, <1>3, <1>4, <1>8, <2>1, <2>5, <2>6, <2>7, StepLosesNothing DEF CreatesFor, Carries
  <2> QED
    BY <2>2, <2>4, <2>8
<1> QED
  BY <1>5, <1>7, <1>9 DEF IndexInv

(* Creating one, or finding that it is there.                               *)
LEMMA CreateStep ==
    ASSUME IndexInv, NEW p \in Indexers, CreateCollection(p)
    PROVE  IndexInv'
<1> DEFINE run == indexers[p]
           new == [run EXCEPT !.at = "walk"]
           d == Head(run.todo)
           empty == [x \in {} |-> None]
<1>1. IndexTypes /\ run \in IndexRun /\ run.at = "create"
  BY DEF IndexInv, IndexTypes, CreateCollection, Pos
<1>2. d \in Collections
  BY <1>1, RunFields
<1>3. CASE store[d] # None
  <2>1. indexers' = [indexers EXCEPT ![p] = Idle] /\ Spoilt /\ store' = store /\ repo' = repo
    BY <1>3 DEF CreateCollection, Go, Now
  <2>2. IndexTypes'
    BY <1>1, <2>1, IdleRun, SpoiltTypes DEF IndexTypes
  <2> QED
    BY <1>1, <2>1, <2>2, SpoiltStep
<1>4. CASE store[d] = None
  <2>1. /\ indexers' = [indexers EXCEPT ![p] = new] /\ repo' = repo
        /\ store' = [store EXCEPT ![d] = empty] /\ period' = period
    BY <1>4 DEF CreateCollection, Go, Now
  <2>2. empty \in StoredTexts /\ DOMAIN empty = {}
    <3>1. empty \in [{} -> ChunkTexts] /\ {} \in SUBSET Points
      OBVIOUS
    <3> QED
      BY <3>1 DEF StoredTexts
  <2>3. empty # None
    BY <2>2, SearchIndexAssumption DEF StoredTexts
  <2>4. /\ new.at = "walk" /\ new.ahead = {} /\ new.chunks = <<>> /\ new.todo = run.todo
        /\ new \in IndexRun
    BY <1>1, RunFields DEF IndexRun
  <2>5. store' \in [Collections -> StoredTexts \cup {None}] /\ store'[d] = empty
        /\ \A c \in Collections \ {d} : store'[c] = store[c]
    BY <1>1, <1>2, <2>1, <2>2 DEF IndexTypes
  <2>6. IndexTypes'
    BY <1>1, <2>1, <2>4, <2>5 DEF IndexTypes
  <2>7. \A c : (WorksOn(new, c) <=> c = d) /\ (WorksOn(run, c) <=> c = d)
    BY <1>1, <2>4 DEF WorksOn
  <2> HIDE DEF new, d, empty
  <2>8. ASSUME period.intact
        PROVE  HandsArePresent' /\ NothingIsLost' /\ NothingElse'
    <3>1. HandsArePresent /\ NothingIsLost /\ NothingElse
      BY <2>8 DEF IndexInv
    <3>2. HandsArePresent'
      <4>1. HoldsPresent(new)
        BY <2>4 DEF HoldsPresent, LastIsBehind
      <4> QED
        BY <1>1, <2>1, <2>4, <3>1, <4>1, StepHoldsPresent
    <3>3. \A c : Present(c)' = Present(c)
      BY <2>1 DEF Present
    <3>4. NothingElse'
      <4> SUFFICES ASSUME NEW c \in period.rebuilt, store'[c] # None, NEW x \in DOMAIN store'[c]
                   PROVE  \E ch \in Present(c) : ch.point = x
        BY <2>1, <3>3 DEF NothingElse
      <4>1. c \in Collections
        BY <1>1 DEF IndexTypes, Periods
      <4>2. c # d
        BY <2>2, <2>5
      <4> QED
        BY <2>5, <3>1, <4>1, <4>2 DEF NothingElse
    <3>5. \A c \in Collections : Touched(c)' => Touched(c)
      BY <1>1, <2>1, <2>4, <2>7, TouchedByStep DEF Touched
    <3>6. \A c \in Collections : \A ch \in Present(c) :
              InStore(c, ch) \/ Carries(run, c, ch) => InStore(c, ch)' \/ Carries(new, c, ch)
      BY <1>4, <2>4, <2>5, <2>7 DEF InStore, Carries, InHand, d
    <3>7. \A c \in Collections : store[c] # None \/ CreatesFor(run, c) => store'[c] # None
      BY <2>3, <2>5, <2>7 DEF CreatesFor
    <3>8. NothingIsLost'
      BY <1>1, <2>1, <2>4, <3>1, <3>5, <3>6, <3>7, StepLosesNothing
    <3> QED
      BY <3>2, <3>4, <3>8
  <2> QED
    BY <2>1, <2>6, <2>8 DEF IndexInv
<1> QED
  BY <1>3, <1>4

(* Walking the files: those that are there are then to be read.             *)
LEMMA WalkStep ==
    ASSUME IndexInv, NEW p \in Indexers, Walk(p)
    PROVE  IndexInv'
<1> DEFINE run == indexers[p]
           d == Head(run.todo)
           found == {f \in FilesOf[d] : repo[f] # None}
           new == [run EXCEPT !.at = "read", !.ahead = found]
<1>1. IndexTypes /\ run \in IndexRun /\ run.at = "walk"
  BY DEF IndexInv, IndexTypes, Walk, Pos
<1>2. d \in Collections /\ found \in SUBSET Files
  BY <1>1, RunFields DEF Files
<1>3. indexers' = [indexers EXCEPT ![p] = new] /\ repo' = repo /\ store' = store /\ period' = period
  BY DEF Walk, Go, Now
<1> HIDE DEF found
<1>4. /\ new.at = "read" /\ new.ahead = found /\ new.chunks = <<>> /\ new.todo = run.todo
      /\ new \in IndexRun
  BY <1>1, <1>2, RunFields DEF IndexRun
<1>5. IndexTypes'
  BY <1>1, <1>3, <1>4 DEF IndexTypes
<1>6. \A c : (WorksOn(new, c) <=> c = d) /\ (WorksOn(run, c) <=> c = d)
  BY <1>1, <1>4 DEF WorksOn
<1> HIDE DEF new
<1>7. ASSUME period.intact
      PROVE  HandsArePresent' /\ NothingIsLost' /\ NothingElse'
  <2>1. HandsArePresent /\ NothingIsLost /\ NothingElse
    BY <1>7 DEF IndexInv
  <2>2. HoldsPresent(new)
    BY <1>4 DEF HoldsPresent, found, LastIsBehind
  <2>3. HandsArePresent'
    BY <1>1, <1>3, <1>4, <2>1, <2>2, StepHoldsPresent
  <2>4. NothingElse'
    BY <1>3, <2>1, StepAddsNothing
  <2>5. \A c \in Collections : Touched(c)' => Touched(c)
    BY <1>1, <1>3, <1>4, <1>6, TouchedByStep DEF Touched
  <2>6. ASSUME NEW c \in Collections, NEW ch \in Present(c), Carries(run, c, ch)
        PROVE  Carries(new, c, ch)
    <3>1. c = d
      BY <1>6, <2>6 DEF Carries
    <3>2. ch.text.of \in Contents /\ ch.point.file \in FilesOf[c] /\ repo[ch.point.file] = ch.text.of
      BY FinalChunk DEF Present
    <3>3. ch.point.file \in found
      BY <3>1, <3>2, SearchIndexAssumption DEF found
    <3> QED
      BY <1>4, <1>6, <3>1, <3>3 DEF Carries, InHand
  <2>7. \A c \in Collections : \A ch \in Present(c) : InStore(c, ch) => InStore(c, ch)'
    BY <1>3 DEF InStore
  <2>8. \A c : ~CreatesFor(run, c)
    BY <1>1 DEF CreatesFor
  <2>9. NothingIsLost'
    BY <1>1, <1>3, <1>4, <2>1, <2>5, <2>6, <2>7, <2>8, StepLosesNothing
  <2> QED
    BY <2>3, <2>4, <2>9
<1> QED
  BY <1>3, <1>5, <1>7 DEF IndexInv

(* Reading a file: it gives way to its chunks, or is passed over.           *)
LEMMA ReadStep ==
    ASSUME IndexInv, NEW p \in Indexers, NEW f \in Files, ReadFile(p, f)
    PROVE  IndexInv'
<1> DEFINE run == indexers[p]
           d == Head(run.todo)
           s == run.chunks
           fresh == Chunks(f, repo[f])
           less == [run EXCEPT !.ahead = @ \ {f}]
           new == [less EXCEPT !.chunks = s \o fresh]
<1>1. IndexTypes /\ run \in IndexRun /\ run.at = "read" /\ f \in run.ahead
  BY DEF IndexInv, IndexTypes, ReadFile, Pos
<1>2. s \in Seq(IndexChunk) /\ run.ahead \in SUBSET Files
  BY <1>1, RunFields
<1>3. /\ repo' = repo /\ store' = store
      /\ \/ repo[f] # None /\ indexers' = [indexers EXCEPT ![p] = [less EXCEPT !.chunks = less.chunks \o fresh]]
           /\ period' = period
         \/ indexers' = [indexers EXCEPT ![p] = less] /\ Spoilt
  BY DEF ReadFile, Go
<1>4. /\ less.at = "read" /\ less.ahead = run.ahead \ {f} /\ less.chunks = s /\ less.todo = run.todo
      /\ less \in IndexRun
  BY <1>1, <1>2, RunFields DEF IndexRun
<1> HIDE DEF less
<1>5. CASE indexers' = [indexers EXCEPT ![p] = less] /\ Spoilt
  <2>1. IndexTypes'
    BY <1>1, <1>3, <1>4, <1>5, SpoiltTypes DEF IndexTypes
  <2> QED
    BY <1>1, <1>5, <2>1, SpoiltStep
<1>6. CASE repo[f] # None /\ indexers' = [indexers EXCEPT ![p] = new] /\ period' = period
  <2>1. repo[f] \in Contents
    BY <1>1, <1>6 DEF IndexTypes
  <2>2. /\ fresh \in Seq(IndexChunk) /\ DOMAIN fresh = DOMAIN SpansOf[repo[f]]
        /\ \A k \in DOMAIN fresh : fresh[k] = Chunk(f, repo[f], k) /\ fresh[k] \in IndexChunk
    BY <2>1, ChunksOfFile
  <2> HIDE DEF s, fresh
  <2>3. PICK more : more = s \o fresh
    OBVIOUS
  <2>4. more \in Seq(IndexChunk)
    BY <1>2, <2>2, <2>3, ConcatProperties
  <2>5. /\ new.at = "read" /\ new.ahead = run.ahead \ {f} /\ new.chunks = more /\ new.todo = run.todo
        /\ new \in IndexRun
    BY <1>4, <2>3, <2>4, RunFields DEF IndexRun
  <2> HIDE DEF new
  <2>6. IndexTypes'
    BY <1>1, <1>3, <1>6, <2>5 DEF IndexTypes
  <2>7. \A c : (WorksOn(new, c) <=> c = d) /\ (WorksOn(run, c) <=> c = d)
    BY <1>1, <2>5 DEF WorksOn
  <2>8. ASSUME period.intact
        PROVE  HandsArePresent' /\ NothingIsLost' /\ NothingElse'
    <3>1. HandsArePresent /\ NothingIsLost /\ NothingElse
      BY <2>8 DEF IndexInv
    <3>2. HoldsPresent(run)
      BY <3>1 DEF HandsArePresent
    <3>3. f \in FilesOf[d]
      BY <1>1, <3>2 DEF HoldsPresent
    <3>4. ASSUME NEW k \in DOMAIN fresh
          PROVE  \E j \in DOMAIN fresh : k <= j /\ fresh[j].point = fresh[k].point /\ fresh[j] \in Present(d)
      <4>1. PICK j \in DOMAIN SpansOf[repo[f]] :
                /\ k <= j /\ Chunk(f, repo[f], j).point = Chunk(f, repo[f], k).point
                /\ Final(Chunk(f, repo[f], j))
        BY <2>1, <2>2, FinalFollows
      <4>2. fresh[j] = Chunk(f, repo[f], j) /\ fresh[k] = Chunk(f, repo[f], k) /\ fresh[j] \in IndexChunk
            /\ j \in DOMAIN fresh
        BY <2>2
      <4>3. fresh[j].point.file = f /\ fresh[j].text.of = repo[f]
        BY <4>2 DEF Chunk
      <4>4. fresh[j] \in Present(d)
        BY <3>3, <4>1, <4>2, <4>3 DEF Present
      <4> QED
        BY <4>1, <4>2, <4>4
    <3>5. HoldsPresent(new)
      <4>1. LastIsBehind(fresh, Present(d)) /\ LastIsBehind(s, Present(d))
        BY <3>2, <3>4 DEF LastIsBehind, HoldsPresent, s
      <4>2. LastIsBehind(more, Present(d))
        BY <1>2, <2>2, <2>3, <4>1, BehindInConcat
      <4>3. \A g \in new.ahead : g \in FilesOf[d] /\ repo[g] # None
        BY <2>5, <3>2 DEF HoldsPresent
      <4> QED
        BY <2>5, <4>2, <4>3 DEF HoldsPresent
    <3>6. HandsArePresent'
      BY <1>1, <1>3, <1>6, <2>5, <3>1, <3>5, StepHoldsPresent
    <3>7. NothingElse'
      BY <1>3, <1>6, <3>1, StepAddsNothing
    <3>8. \A c \in Collections : Touched(c)' => Touched(c)
      BY <1>1, <1>3, <1>6, <2>5, <2>7, TouchedByStep DEF Touched
    <3>9. \A x : Has(s, x) \/ Has(fresh, x) => Has(more, x)
      BY <1>2, <2>2, <2>3, HasConcat
    <3>10. ASSUME NEW c \in Collections, NEW ch \in Present(c), Carries(run, c, ch)
           PROVE  Carries(new, c, ch)
      <4>1. c = d
        BY <2>7, <3>10 DEF Carries
      <4>2. CASE ch.point.file = f
        <5>1. ch \in IndexChunk /\ Final(ch) /\ repo[f] = ch.text.of
          BY <4>2 DEF Present
        <5>2. ch.text.nr \in DOMAIN fresh /\ fresh[ch.text.nr] = ch
          BY <2>2, <4>2, <5>1, FinalChunk
        <5>3. Has(fresh, ch)
          BY <5>2 DEF Has
        <5> QED
          BY <2>5, <2>7, <3>9, <4>1, <5>3 DEF Carries, InHand
      <4>3. CASE ch.point.file # f
        <5>1. ch.point.file \in run.ahead \/ Has(s, ch)
          BY <1>1, <3>10 DEF Carries, InHand, s
        <5> QED
          BY <2>5, <2>7, <3>9, <4>1, <4>3, <5>1 DEF Carries, InHand
      <4> QED
        BY <4>2, <4>3
    <3>11. \A c \in Collections : \A ch \in Present(c) : InStore(c, ch) => InStore(c, ch)'
      BY <1>3 DEF InStore
    <3>12. \A c : ~CreatesFor(run, c)
      BY <1>1 DEF CreatesFor
    <3>13. NothingIsLost'
      BY <1>1, <1>3, <1>6, <2>5, <3>1, <3>8, <3>10, <3>11, <3>12, StepLosesNothing
    <3> QED
      BY <3>6, <3>7, <3>13
  <2> QED
    BY <1>6, <2>6, <2>8 DEF IndexInv
<1> QED
  BY <1>3, <1>4, <1>5, <1>6

(* Beginning to store.                                                      *)
LEMMA EmbedStep ==
    ASSUME IndexInv, NEW p \in Indexers, Embed(p)
    PROVE  IndexInv'
<1> DEFINE run == indexers[p]
           new == [run EXCEPT !.at = "upsert"]
<1>1. IndexTypes /\ run \in IndexRun /\ run.at = "read" /\ run.ahead = {}
  BY DEF IndexInv, IndexTypes, Embed, Pos
<1>2. indexers' = [indexers EXCEPT ![p] = new] /\ repo' = repo /\ store' = store /\ period' = period
  BY DEF Embed, Go
<1>3. /\ new.at = "upsert" /\ new.ahead = run.ahead /\ new.chunks = run.chunks /\ new.todo = run.todo
      /\ new \in IndexRun
  BY <1>1, RunFields DEF IndexRun
<1> HIDE DEF new
<1>4. IndexTypes'
  BY <1>1, <1>2, <1>3 DEF IndexTypes
<1>5. \A c : (WorksOn(new, c) <=> WorksOn(run, c)) /\ ~CreatesFor(run, c)
  BY <1>1, <1>3 DEF WorksOn, CreatesFor
<1>6. ASSUME period.intact
      PROVE  HandsArePresent' /\ NothingIsLost' /\ NothingElse'
  <2>1. HandsArePresent /\ NothingIsLost /\ NothingElse
    BY <1>6 DEF IndexInv
  <2>2. HoldsPresent(new)
    BY <1>3, <2>1 DEF HandsArePresent, HoldsPresent
  <2>3. HandsArePresent'
    BY <1>1, <1>2, <1>3, <2>1, <2>2, StepHoldsPresent
  <2>4. NothingElse'
    BY <1>2, <2>1, StepAddsNothing
  <2>5. \A c \in Collections : Touched(c)' => Touched(c)
    BY <1>1, <1>2, <1>3, <1>5, TouchedByStep DEF Touched
  <2>6. \A c \in Collections : \A ch \in Present(c) :
            InStore(c, ch) \/ Carries(run, c, ch) => InStore(c, ch)' \/ Carries(new, c, ch)
    BY <1>1, <1>2, <1>3, <1>5 DEF InStore, Carries, InHand
  <2>7. NothingIsLost'
    BY <1>1, <1>2, <1>3, <1>5, <2>1, <2>5, <2>6, StepLosesNothing
  <2> QED
    BY <2>3, <2>4, <2>7
<1> QED
  BY <1>2, <1>4, <1>6 DEF IndexInv

-----------------------------------------------------------------------------
(* Storing, going on to the next root, and what spoils the period.          *)
LEMMA BatchOfRun ==
    ASSUME NEW p \in Indexers, indexers[p].chunks \in Seq(IndexChunk)
    PROVE  \E n \in 0..Len(indexers[p].chunks) :
              Batch(p) = SubSeq(indexers[p].chunks, 1, n)
<1> DEFINE s == indexers[p].chunks
           n == IF Len(s) < BatchSize THEN Len(s) ELSE BatchSize
<1>1. Len(s) \in Nat /\ BatchSize \in Nat
  BY LenProperties, SearchIndexAssumption
<1>2. Batch(p) = SubSeq(s, 1, n)
  BY DEF Batch
<1>3. n \in 0..Len(s)
  <2> HIDE DEF s
  <2> QED
    BY <1>1
<1> QED
  BY <1>2, <1>3

(* The batch and the rest of a run's chunks.                                *)
LEMMA BatchIsCut ==
    ASSUME NEW p \in Indexers, indexers[p] \in IndexRun
    PROVE  LET s == indexers[p].chunks
               rest == SubSeq(s, Len(Batch(p)) + 1, Len(s))
           IN  /\ Batch(p) \in Seq(IndexChunk) /\ rest \in Seq(IndexChunk)
               /\ \A x : Has(s, x) <=> Has(Batch(p), x) \/ Has(rest, x)
               /\ \A these : LastIsBehind(s, these) =>
                    /\ LastIsBehind(rest, these)
                    /\ \A i \in DOMAIN Batch(p) :
                         \/ \E j \in DOMAIN Batch(p) :
                              i <= j /\ Batch(p)[j].point = Batch(p)[i].point /\ Batch(p)[j] \in these
                         \/ \E j \in DOMAIN rest : rest[j].point = Batch(p)[i].point /\ rest[j] \in these
<1>1. indexers[p].chunks \in Seq(IndexChunk)
  BY RunFields
<1>2. PICK s : s = indexers[p].chunks
  OBVIOUS
<1>3. PICK n \in 0..Len(s) : Batch(p) = SubSeq(s, 1, n)
  BY <1>1, <1>2, BatchOfRun
<1>4. PICK batch : batch = Batch(p)
  OBVIOUS
<1>5. /\ batch \in Seq(IndexChunk) /\ SubSeq(s, Len(batch) + 1, Len(s)) \in Seq(IndexChunk)
      /\ \A x : Has(s, x) <=> Has(batch, x) \/ Has(SubSeq(s, Len(batch) + 1, Len(s)), x)
  BY <1>1, <1>2, <1>3, <1>4, CutSequence
<1>6. ASSUME NEW these, LastIsBehind(s, these)
      PROVE  LET rest == SubSeq(s, Len(batch) + 1, Len(s)) IN
             /\ LastIsBehind(rest, these)
             /\ \A i \in DOMAIN batch :
                  \/ \E j \in DOMAIN batch : i <= j /\ batch[j].point = batch[i].point /\ batch[j] \in these
                  \/ \E j \in DOMAIN rest : rest[j].point = batch[i].point /\ rest[j] \in these
  BY <1>1, <1>2, <1>3, <1>4, <1>6, BehindInCut
<1> QED
  BY <1>2, <1>4, <1>5, <1>6

(* A batch is left out, stored, or finds its collection gone.               *)
LEMMA UpsertStep ==
    ASSUME IndexInv, NEW p \in Indexers, UpsertBatch(p)
    PROVE  IndexInv'
<1> DEFINE run == indexers[p]
           s == run.chunks
           batch == Batch(p)
           rest == SubSeq(s, Len(batch) + 1, Len(s))
           new == [run EXCEPT !.chunks = rest]
           d == Head(run.todo)
<1>1. IndexTypes /\ run \in IndexRun /\ run.at = "upsert"
  BY DEF IndexInv, IndexTypes, UpsertBatch, Pos
<1>2. d \in Collections
  BY <1>1, RunFields
<1>3. batch \in Seq(IndexChunk) /\ rest \in Seq(IndexChunk) /\ \A x : Has(s, x) <=> Has(batch, x) \/ Has(rest, x)
  BY <1>1, BatchIsCut
<1>9. \A these : LastIsBehind(s, these) =>
        /\ LastIsBehind(rest, these)
        /\ \A i \in DOMAIN batch :
             \/ \E j \in DOMAIN batch : i <= j /\ batch[j].point = batch[i].point /\ batch[j] \in these
             \/ \E j \in DOMAIN rest : rest[j].point = batch[i].point /\ rest[j] \in these
  BY <1>1, BatchIsCut
<1>4. /\ repo' = repo
      /\ \/ indexers' = [indexers EXCEPT ![p] = new] /\ Spoilt /\ store' = store
         \/ /\ store[d] # None /\ store' = [store EXCEPT ![d] = Stored(store[d], batch)]
            /\ indexers' = [indexers EXCEPT ![p] = new] /\ period' = period
         \/ indexers' = [indexers EXCEPT ![p] = Idle] /\ Spoilt /\ store' = store
  BY DEF UpsertBatch, Go, Now
<1> HIDE DEF batch, rest
<1>5. /\ new.at = "upsert" /\ new.ahead = {} /\ new.chunks = rest /\ new.todo = run.todo
      /\ new \in IndexRun
  BY <1>1, <1>3, RunFields DEF IndexRun
<1> HIDE DEF new
<1>6. CASE indexers' = [indexers EXCEPT ![p] = new] /\ Spoilt /\ store' = store
  <2>1. IndexTypes'
    BY <1>1, <1>4, <1>5, <1>6, SpoiltTypes DEF IndexTypes
  <2> QED
    BY <1>1, <1>6, <2>1, SpoiltStep
<1>7. CASE indexers' = [indexers EXCEPT ![p] = Idle] /\ Spoilt /\ store' = store
  <2>1. IndexTypes'
    BY <1>1, <1>4, <1>7, IdleRun, SpoiltTypes DEF IndexTypes
  <2> QED
    BY <1>1, <1>7, <2>1, SpoiltStep
<1>8. CASE /\ store[d] # None /\ store' = [store EXCEPT ![d] = Stored(store[d], batch)]
           /\ indexers' = [indexers EXCEPT ![p] = new] /\ period' = period
  <2> DEFINE old == store[d]
             all == Stored(old, batch)
             points == {batch[i].point : i \in DOMAIN batch}
  <2>1. old \in StoredTexts
    BY <1>1, <1>2, <1>8 DEF IndexTypes
  <2>2. /\ all \in StoredTexts /\ DOMAIN all = DOMAIN old \cup points
        /\ \A x \in points : \E i \in DOMAIN batch :
             /\ batch[i].point = x /\ all[x] = batch[i].text
             /\ \A j \in DOMAIN batch : batch[j].point = x => j <= i
        /\ \A x \in DOMAIN old \ points : all[x] = old[x]
    <3> HIDE DEF old
    <3> QED
      BY <1>3, <2>1, StoredBatch
  <2>3. all # None
    BY <2>2, SearchIndexAssumption DEF StoredTexts
  <2>4. store' \in [Collections -> StoredTexts \cup {None}] /\ store'[d] = all
        /\ \A c \in Collections \ {d} : store'[c] = store[c]
    BY <1>1, <1>2, <1>8, <2>2 DEF IndexTypes
  <2>5. IndexTypes'
    BY <1>1, <1>4, <1>5, <1>8, <2>4 DEF IndexTypes
  <2> HIDE DEF all
  <2>6. \A c : (WorksOn(new, c) <=> c = d) /\ (WorksOn(run, c) <=> c = d) /\ ~CreatesFor(run, c)
    BY <1>1, <1>5 DEF WorksOn, CreatesFor
  <2>7. ASSUME period.intact
        PROVE  HandsArePresent' /\ NothingIsLost' /\ NothingElse'
    <3>1. HandsArePresent /\ NothingIsLost /\ NothingElse
      BY <2>7 DEF IndexInv
    <3>2. HoldsPresent(run)
      BY <3>1 DEF HandsArePresent
    <3>3. LastIsBehind(s, Present(d))
      BY <3>2 DEF HoldsPresent
    <3>4. ASSUME NEW i \in DOMAIN batch
          PROVE  \/ \E j \in DOMAIN batch : i <= j /\ batch[j].point = batch[i].point /\ batch[j] \in Present(d)
                 \/ \E j \in DOMAIN rest : rest[j].point = batch[i].point /\ rest[j] \in Present(d)
      BY <1>9, <3>3
    <3>5. LastIsBehind(rest, Present(d))
      BY <1>9, <3>3
    <3>6. HoldsPresent(new)
      BY <1>5, <3>5 DEF HoldsPresent
    <3>7. HandsArePresent'
      BY <1>1, <1>4, <1>5, <1>8, <3>1, <3>6, StepHoldsPresent
    <3>8. \A c : Present(c)' = Present(c)
      BY <1>4 DEF Present
    <3>9. NothingElse'
      <4> SUFFICES ASSUME NEW c \in period.rebuilt, store'[c] # None, NEW x \in DOMAIN store'[c]
                   PROVE  \E ch \in Present(c) : ch.point = x
        BY <1>8, <3>8 DEF NothingElse
      <4>1. c \in Collections
        BY <1>1 DEF IndexTypes, Periods
      <4>2. CASE c # d
        BY <2>4, <3>1, <4>1, <4>2 DEF NothingElse
      <4>3. CASE c = d /\ x \in points
        <5>1. PICK i \in DOMAIN batch : batch[i].point = x
          BY <4>3
        <5> QED
          BY <3>4, <4>3, <5>1
      <4>4. CASE c = d /\ x \in DOMAIN old
        BY <1>8, <3>1, <4>4 DEF NothingElse
      <4> QED
        BY <2>2, <2>4, <4>2, <4>3, <4>4
    <3>10. ASSUME NEW c, c = d, NEW ch \in Present(c), ch.point \in points
           PROVE  InStore(c, ch)' \/ Carries(new, c, ch)
      <4>1. PICK i \in DOMAIN batch : /\ batch[i].point = ch.point /\ all[ch.point] = batch[i].text
                                      /\ \A j \in DOMAIN batch : batch[j].point = ch.point => j <= i
        BY <2>2, <3>10
      <4>2. \A b \in Present(d) : b.point = ch.point => b = ch
        BY <3>10, SameChunk DEF Present
      <4>3. CASE \E j \in DOMAIN batch : i <= j /\ batch[j].point = batch[i].point /\ batch[j] \in Present(d)
        <5>1. PICK j \in DOMAIN batch : i <= j /\ batch[j].point = batch[i].point /\ batch[j] \in Present(d)
          BY <4>3
        <5>2. j <= i /\ i \in Nat /\ j \in Nat
          BY <1>3, <4>1, <5>1, LenProperties
        <5>3. j = i
          BY <5>1, <5>2
        <5>4. batch[i] = ch
          BY <4>1, <4>2, <5>1, <5>3
        <5> QED
          BY <2>2, <2>3, <2>4, <3>10, <4>1, <5>4 DEF InStore
      <4>4. CASE \E j \in DOMAIN rest : rest[j].point = batch[i].point /\ rest[j] \in Present(d)
        <5>1. Has(rest, ch)
          BY <4>1, <4>2, <4>4 DEF Has
        <5> QED
          BY <1>5, <2>6, <3>10, <5>1 DEF Carries, InHand
      <4> QED
        BY <3>4, <4>3, <4>4
    <3>11. ASSUME NEW c \in Collections, NEW ch \in Present(c), InStore(c, ch)
           PROVE  InStore(c, ch)' \/ Carries(new, c, ch)
      <4>1. CASE c # d
        BY <2>4, <3>11, <4>1 DEF InStore
      <4>2. CASE c = d /\ ch.point \in points
        BY <3>10, <4>2
      <4>3. CASE c = d /\ ch.point \notin points
        <5>1. ch.point \in DOMAIN old /\ old[ch.point] = ch.text
          BY <3>11, <4>3 DEF InStore
        <5> QED
          BY <2>2, <2>3, <2>4, <4>3, <5>1 DEF InStore
      <4> QED
        BY <4>1, <4>2, <4>3
    <3>12. ASSUME NEW c \in Collections, NEW ch \in Present(c), Carries(run, c, ch)
           PROVE  InStore(c, ch)' \/ Carries(new, c, ch)
      <4>1. c = d
        BY <2>6, <3>12 DEF Carries
      <4>2. run.ahead = {}
        BY <1>1, RunFields
      <4>3. Has(batch, ch) \/ Has(rest, ch)
        BY <1>1, <1>3, <3>12, <4>2 DEF Carries, InHand
      <4>4. CASE Has(batch, ch)
        <5>1. ch.point \in points
          BY <4>4 DEF Has
        <5> QED
          BY <3>10, <4>1, <5>1
      <4>5. CASE Has(rest, ch)
        BY <1>5, <2>6, <4>1, <4>5 DEF Carries, InHand
      <4> QED
        BY <4>3, <4>4, <4>5
    <3>13. \A c \in Collections : Touched(c)' => Touched(c)
      <4>1. ASSUME NEW c \in Collections, Touched(c)' PROVE Touched(c) \/ WorksOn(new, c)
        BY <1>1, <1>5, <1>8, <4>1, TouchedByStep DEF Touched
      <4> QED
        BY <2>6, <4>1 DEF Touched
    <3>14. \A c \in Collections : store[c] # None \/ CreatesFor(run, c) => store'[c] # None
      BY <2>3, <2>4, <2>6
    <3>15. NothingIsLost'
      BY <1>1, <1>4, <1>5, <1>8, <3>1, <3>11, <3>12, <3>13, <3>14, StepLosesNothing
    <3> QED
      BY <3>7, <3>9, <3>15
  <2> QED
    BY <1>8, <2>5, <2>7 DEF IndexInv
<1> QED
  BY <1>4, <1>6, <1>7, <1>8

(* The last batch of a root is stored: it counts as indexed.                *)
LEMMA NextRootStep ==
    ASSUME IndexInv, NEW p \in Indexers, NextRoot(p)
    PROVE  IndexInv'
<1> DEFINE run == indexers[p]
           d == Head(run.todo)
           at == IF run.recreate THEN "drop" ELSE "list"
           next == [run EXCEPT !.at = at, !.todo = Tail(run.todo)]
           new == IF Len(run.todo) = 1 THEN Idle ELSE next
<1>1. IndexTypes /\ run \in IndexRun /\ run.at = "upsert" /\ run.chunks = <<>>
  BY DEF IndexInv, IndexTypes, NextRoot, Pos
<1>2. d \in Collections /\ run.todo \in Seq(Collections) /\ run.todo # <<>> /\ run.ahead = {}
  BY <1>1, RunFields
<1>3. /\ indexers' = [indexers EXCEPT ![p] = new] /\ repo' = repo /\ store' = store
      /\ period' = [period EXCEPT !.indexed = @ \cup {d}]
  BY DEF NextRoot, Go, Now
<1>4. at \in {"drop", "list"}
  OBVIOUS
<1> HIDE DEF at
<1>5. ASSUME Len(run.todo) # 1
      PROVE  next \in IndexRun /\ next.at = at /\ next.ahead = {} /\ next.chunks = <<>>
  <2> DEFINE todo == run.todo
  <2>1. Tail(todo) \in Seq(Collections) /\ Tail(todo) # <<>>
    <3>1. todo \in Seq(Collections) /\ todo # <<>> /\ Len(todo) # 1
      BY <1>2, <1>5
    <3> HIDE DEF todo
    <3>2. /\ Tail(todo) \in Seq(Collections)
          /\ Len(Tail(todo)) = Len(todo) - 1 /\ Len(todo) \in Nat /\ Len(todo) # 0
      BY <3>1, HeadTailProperties, EmptySeq, LenProperties
    <3>3. Len(Tail(todo)) # 0
      BY <3>1, <3>2
    <3> QED
      BY <3>2, <3>3, EmptySeq
  <2> QED
    BY <1>1, <1>2, <1>4, <2>1, RunFields DEF IndexRun
<1>6. /\ new.at \in {"idle", "drop", "list"} /\ new.ahead = {} /\ new.chunks = <<>>
      /\ new \in IndexRun
  BY <1>4, <1>5, IdleRun
<1> HIDE DEF new
<1>7. period' \in Periods /\ period'.intact = period.intact /\ period'.rebuilt = period.rebuilt
      /\ period'.indexed = period.indexed \cup {d}
  BY <1>1, <1>2, <1>3 DEF IndexTypes, Periods
<1>8. IndexTypes'
  BY <1>1, <1>3, <1>6, <1>7 DEF IndexTypes
<1>9. \A c : (WorksOn(run, c) <=> c = d) /\ ~WorksOn(new, c) /\ ~CreatesFor(run, c)
  BY <1>1, <1>6 DEF WorksOn, CreatesFor
<1>10. ASSUME period.intact
       PROVE  HandsArePresent' /\ NothingIsLost' /\ NothingElse'
  <2>1. HandsArePresent /\ NothingIsLost /\ NothingElse
    BY <1>10 DEF IndexInv
  <2>2. HandsArePresent'
    <3>1. HoldsPresent(new)
      BY <1>6 DEF HoldsPresent, LastIsBehind
    <3> QED
      BY <1>1, <1>3, <1>6, <2>1, <3>1, StepHoldsPresent
  <2>3. NothingElse'
    BY <1>3, <1>7, <2>1, StepAddsNothing
  <2>4. \A c \in Collections : Touched(c)' => Touched(c)
    <3>1. Touched(d)
      BY <1>9 DEF Touched
    <3>2. ASSUME NEW c \in Collections, Touched(c)' PROVE Touched(c) \/ WorksOn(new, c)
      <4>1. c \in period'.indexed => Touched(c)
        BY <1>7, <3>1 DEF Touched
      <4> QED
        BY <1>1, <1>3, <1>6, <3>2, <4>1, TouchedByStep
    <3> QED
      BY <1>9, <3>2
  <2>5. \A c \in Collections : \A ch \in Present(c) :
            InStore(c, ch) \/ Carries(run, c, ch) => InStore(c, ch)'
    BY <1>1, <1>2, <1>3 DEF InStore, Carries, InHand, Has
  <2>6. \A c \in Collections : store[c] # None \/ CreatesFor(run, c) => store'[c] # None
    BY <1>3, <1>9
  <2>7. NothingIsLost'
    BY <1>1, <1>3, <1>6, <2>1, <2>4, <2>5, <2>6, StepLosesNothing
  <2> QED
    BY <2>2, <2>3, <2>7
<1> QED
  BY <1>7, <1>8, <1>10 DEF IndexInv

(* The invariant of the index.                                              *)
THEOREM IndexInductive == IndexSpec => []IndexInv
<1>1. ASSUME IndexInv, [IndexNext]_indexVars
      PROVE  IndexInv'
  <2>1. CASE UNCHANGED indexVars
    <3>1. repo' = repo /\ store' = store /\ indexers' = indexers /\ period' = period
      BY <2>1 DEF indexVars
    <3>2. \A c : Present(c)' = Present(c)
      BY <3>1 DEF Present
    <3>3. IndexTypes'
      BY <1>1, <3>1 DEF IndexInv, IndexTypes
    <3>4. HandsArePresent => HandsArePresent'
      BY <3>1, <3>2 DEF HandsArePresent, HoldsPresent
    <3>5. NothingIsLost => NothingIsLost'
      BY <3>1, <3>2 DEF NothingIsLost, Touched, InStore
    <3>6. NothingElse => NothingElse'
      BY <3>1, <3>2 DEF NothingElse
    <3> QED
      BY <1>1, <3>1, <3>3, <3>4, <3>5, <3>6 DEF IndexInv
  <2>2. ASSUME NEW p \in Indexers, NEW todo \in Targets, NEW recreate \in BOOLEAN,
               StartIndexer(p, todo, recreate)
        PROVE  IndexInv'
    BY <1>1, <2>2, StartStep
  <2>3. ASSUME NEW p \in Indexers,
               ListCollections(p) \/ DropCollection(p) \/ CreateCollection(p) \/ Walk(p) \/ Embed(p)
        PROVE  IndexInv'
    BY <1>1, <2>3, ListStep, DropStep, CreateStep, WalkStep, EmbedStep
  <2>4. ASSUME NEW p \in Indexers, NEW f \in Files, ReadFile(p, f)
        PROVE  IndexInv'
    BY <1>1, <2>4, ReadStep
  <2>5. ASSUME NEW p \in Indexers, UpsertBatch(p) \/ NextRoot(p)
        PROVE  IndexInv'
    BY <1>1, <2>5, UpsertStep, NextRootStep
  <2>6. ASSUME NEW p \in Indexers, IndexerDies(p)
        PROVE  IndexInv'
    <3>1. IndexTypes /\ Spoilt
      BY <1>1, <2>6 DEF IndexInv, IndexerDies
    <3>2. indexers' = [indexers EXCEPT ![p] = Idle] /\ repo' = repo /\ store' = store
      BY <2>6 DEF IndexerDies, Go
    <3>3. IndexTypes'
      BY <3>1, <3>2, IdleRun, SpoiltTypes DEF IndexTypes
    <3> QED
      BY <3>1, <3>3, SpoiltStep
  <2>7. ASSUME NEW f \in Files, NEW x \in Contents \cup {None}, EditFile(f, x)
        PROVE  IndexInv'
    <3>1. IndexTypes /\ Spoilt
      BY <1>1, <2>7 DEF IndexInv, EditFile
    <3>2. indexers' = indexers /\ repo' = [repo EXCEPT ![f] = x] /\ store' = store
      BY <2>7 DEF EditFile
    <3>3. IndexTypes'
      BY <3>1, <3>2, SpoiltTypes DEF IndexTypes
    <3> QED
      BY <3>1, <3>3, SpoiltStep
  <2> QED
    BY <1>1, <2>1, <2>2, <2>3, <2>4, <2>5, <2>6, <2>7 DEF IndexNext
<1> QED
  BY <1>1, IndexStart, PTL DEF IndexSpec

(* However the runs of the indexing command overlap, once they are over     *)
(* without failure, omission or edit, what was indexed has every point of   *)
(* its files with the last chunk that claims it, and, where it was rebuilt, *)
(* no other point. (indexer.py 554)                                         *)
THEOREM IndexStaysCurrent == IndexSpec => []IndexIsCurrent
<1>1. ASSUME IndexInv
      PROVE  IndexIsCurrent
  <2> SUFFICES ASSUME period.intact, Busy = {}, NEW c \in period.indexed
               PROVE  LET there == {f \in FilesOf[c] : repo[f] # None}
                          now == UNION {{Chunk(f, repo[f], k) : k \in DOMAIN SpansOf[repo[f]]} : f \in there}
                      IN  /\ store[c] # None
                          /\ \A ch \in now : ch.point \in DOMAIN store[c]
                          /\ \A ch \in now :
                               (\A other \in now : other.point = ch.point => other.text.nr <= ch.text.nr)
                                  => store[c][ch.point] = ch.text
                          /\ c \in period.rebuilt => DOMAIN store[c] = {ch.point : ch \in now}
    BY DEF IndexIsCurrent
  <2> DEFINE of(f) == {Chunk(f, repo[f], k) : k \in DOMAIN SpansOf[repo[f]]}
             there == {f \in FilesOf[c] : repo[f] # None}
             now == UNION {of(f) : f \in there}
  <2>1. IndexTypes /\ NothingIsLost /\ NothingElse
    BY <1>1 DEF IndexInv
  <2>2. c \in Collections
    BY <2>1 DEF IndexTypes, Periods
  <2>3. \A f \in there : f \in Files /\ repo[f] \in Contents /\ f \in FilesOf[c]
    BY <2>1, <2>2 DEF IndexTypes, Files
  <2>4. \A p \in Indexers : indexers[p].at = "idle"
    BY DEF Busy
  <2>5. store[c] # None /\ \A ch \in Present(c) : InStore(c, ch)
    BY <2>1, <2>2, <2>4 DEF NothingIsLost, Touched, CreatesFor, Carries, WorksOn
  <2>6. ASSUME NEW ch \in now
        PROVE  \E f \in there : \E k \in DOMAIN SpansOf[repo[f]] : ch = Chunk(f, repo[f], k)
    <3>1. PICK f \in there : ch \in of(f)
      <4> HIDE DEF of, there
      <4> QED
        BY <2>6
    <3> QED
      BY <3>1
  <2>7. ASSUME NEW f \in there, NEW k \in DOMAIN SpansOf[repo[f]]
        PROVE  Chunk(f, repo[f], k) \in now
    <3>1. Chunk(f, repo[f], k) \in of(f)
      OBVIOUS
    <3> HIDE DEF of, there
    <3> QED
      BY <3>1
  <2> HIDE DEF now, of, there
  <2>8. ASSUME NEW f \in there, NEW k \in DOMAIN SpansOf[repo[f]], Final(Chunk(f, repo[f], k))
        PROVE  Chunk(f, repo[f], k) \in Present(c)
    <3>1. Chunk(f, repo[f], k) \in IndexChunk
      BY <2>3, ChunksOfFile
    <3>2. Chunk(f, repo[f], k).point.file = f /\ Chunk(f, repo[f], k).text.of = repo[f]
      BY DEF Chunk
    <3> QED
      BY <2>3, <2>8, <3>1, <3>2 DEF Present
  <2>9. ASSUME NEW ch \in now
        PROVE  ch.point \in DOMAIN store[c]
    <3>1. PICK f \in there : \E k \in DOMAIN SpansOf[repo[f]] : ch = Chunk(f, repo[f], k)
      BY <2>6
    <3>2. PICK k \in DOMAIN SpansOf[repo[f]] : ch = Chunk(f, repo[f], k)
      BY <3>1
    <3>3. PICK j \in DOMAIN SpansOf[repo[f]] :
              Chunk(f, repo[f], j).point = ch.point /\ Final(Chunk(f, repo[f], j))
      BY <2>3, <3>2, FinalFollows
    <3>4. InStore(c, Chunk(f, repo[f], j))
      BY <2>5, <2>8, <3>3
    <3> QED
      BY <3>3, <3>4 DEF InStore
  <2>10. ASSUME NEW ch \in now, \A other \in now : other.point = ch.point => other.text.nr <= ch.text.nr
         PROVE  store[c][ch.point] = ch.text
    <3>1. PICK f \in there : \E k \in DOMAIN SpansOf[repo[f]] : ch = Chunk(f, repo[f], k)
      BY <2>6
    <3>2. PICK k \in DOMAIN SpansOf[repo[f]] : ch = Chunk(f, repo[f], k)
      BY <3>1
    <3>3. /\ ch.text.of = repo[f] /\ ch.text.nr = k
          /\ ch.point = [file |-> f, span |-> SpansOf[repo[f]][k]]
      BY <3>2 DEF Chunk
    <3>4. ASSUME NEW j \in DOMAIN SpansOf[repo[f]], SpansOf[repo[f]][j] = SpansOf[repo[f]][k]
          PROVE  j <= k
      <4>1. Chunk(f, repo[f], j).point = ch.point /\ Chunk(f, repo[f], j).text.nr = j
        BY <3>3, <3>4 DEF Chunk
      <4>2. Chunk(f, repo[f], j) \in now
        BY <2>7
      <4> QED
        BY <2>10, <3>3, <4>1, <4>2
    <3>5. Final(ch)
      BY <3>3, <3>4 DEF Final
    <3>6. InStore(c, ch)
      BY <2>5, <2>8, <3>2, <3>5
    <3> QED
      BY <3>6 DEF InStore
  <2>11. ASSUME c \in period.rebuilt
         PROVE  DOMAIN store[c] = {ch.point : ch \in now}
    <3>1. ASSUME NEW x \in DOMAIN store[c]
          PROVE  \E ch \in now : ch.point = x
      <4>1. PICK ch \in Present(c) : ch.point = x
        BY <2>1, <2>2, <2>5, <2>11 DEF NothingElse
      <4>2. /\ ch = Chunk(ch.point.file, ch.text.of, ch.text.nr) /\ ch.text.of \in Contents
            /\ ch.text.nr \in DOMAIN SpansOf[ch.text.of]
            /\ ch.point.file \in FilesOf[c] /\ repo[ch.point.file] = ch.text.of
        BY FinalChunk DEF Present
      <4>3. ch.point.file \in there
        BY <4>2, SearchIndexAssumption DEF there
      <4>4. ch \in now
        BY <2>7, <4>2, <4>3
      <4> QED
        BY <4>1, <4>4
    <3> QED
      BY <2>9, <3>1
  <2> QED
    BY <2>5, <2>9, <2>10, <2>11 DEF now, of, there
<1> QED
  BY <1>1, IndexInductive, PTL

(* The type invariant of the index.                                         *)
THEOREM IndexTypesHold == IndexSpec => []IndexTypeOK
<1>1. ASSUME IndexInv
      PROVE  IndexTypeOK
  <2>1. IndexTypes
    BY <1>1 DEF IndexInv
  <2>2. ASSUME NEW c \in Collections, store[c] # None, NEW x \in DOMAIN store[c]
        PROVE  x \in Points /\ store[c][x] \in ChunkTexts
    BY <2>1, <2>2 DEF IndexTypes, StoredTexts
  <2>3. ASSUME NEW p \in Indexers
        PROVE  /\ indexers[p].at \in {"idle", "list", "drop", "create", "walk", "read", "upsert"}
               /\ indexers[p].ahead \subseteq Files
               /\ p \in Busy => indexers[p].todo # <<>>
    <3>1. indexers[p] \in IndexRun
      BY <2>1 DEF IndexTypes
    <3> QED
      BY <3>1, RunFields DEF Busy
  <2> QED
    BY <2>1, <2>2, <2>3 DEF IndexTypeOK, IndexTypes
<1> QED
  BY <1>1, IndexInductive, PTL

-----------------------------------------------------------------------------
(* Chunks of text.                                                          *)

TextPiece == [lines : SUBSET Nat, from : Int, to : Int]

Waiting(b) == {b[i] : i \in DOMAIN b} \ {0}

Filled(b) == {i \in DOMAIN b : b[i] # 0}

(* Chunks that fit, of lines up to the last of them, one after the other.   *)
CutUpTo(p, top) ==
    /\ \A c \in DOMAIN p :
         p[c].lines \subseteq 1..top /\ Cardinality(p[c].lines) \in 1..ChunkLines
    /\ \A c, d \in DOMAIN p : c < d => \A m \in p[c].lines, n \in p[d].lines : m < n

(* The lines that are merged fit, are read, and come after every chunk.     *)
Merged(b, p, top) ==
    /\ b # <<>> => Filled(b) # {}
    /\ IsFiniteSet(Filled(b)) /\ Cardinality(Filled(b)) <= ChunkLines
    /\ \A n \in Waiting(b) : n \in 1..top /\ \A c \in DOMAIN p : \A m \in p[c].lines : m < n

(* The lines that were cut into chunks.                                     *)
Cut(p) == UNION {p[c].lines : c \in DOMAIN p}

TextInv ==
    /\ ahead \in Seq(Section) /\ last \in Nat /\ bufStart \in Nat
    /\ buf \in Seq(Nat) /\ pieces \in Seq(TextPiece)
    /\ CutUpTo(pieces, last) /\ Merged(buf, pieces, last)
    /\ texts = Waiting(buf) \cup Cut(pieces)

-----------------------------------------------------------------------------
(* Consecutive lines.                                                       *)
LEMMA NumbersCount ==
    ASSUME NEW a \in Nat \ {0}, NEW n \in Nat
    PROVE  /\ Numbers(a, n) \in Seq(Nat) /\ Len(Numbers(a, n)) = n
           /\ DOMAIN Numbers(a, n) = 1..n /\ \A i \in 1..n : Numbers(a, n)[i] = a + i - 1
           /\ Waiting(Numbers(a, n)) = a..(a + n - 1)
           /\ Filled(Numbers(a, n)) = 1..n
<1> DEFINE s == Numbers(a, n)
<1>1. s = [i \in 1..n |-> a + i - 1]
  BY DEF Numbers
<1> HIDE DEF s
<1>2. s \in [1..n -> Nat] /\ DOMAIN s = 1..n /\ \A i \in 1..n : s[i] = a + i - 1
  BY <1>1
<1>3. s \in Seq(Nat) /\ Len(s) = n
  BY <1>2
<1>4. Filled(s) = 1..n
  BY <1>2 DEF Filled
<1>5. ASSUME NEW x
      PROVE  x \in Waiting(s) <=> x \in a..(a + n - 1)
  <2>1. ASSUME x \in Waiting(s) PROVE x \in a..(a + n - 1)
    BY <1>2, <2>1 DEF Waiting
  <2>2. ASSUME x \in a..(a + n - 1) PROVE x \in Waiting(s)
    <3>1. x - a + 1 \in 1..n /\ x = a + (x - a + 1) - 1 /\ x # 0
      BY <2>2
    <3>2. s[x - a + 1] = x
      BY <1>2, <3>1
    <3> QED
      BY <1>2, <3>1, <3>2 DEF Waiting
  <2> QED
    BY <2>1, <2>2
<1> QED
  BY <1>2, <1>3, <1>4, <1>5 DEF s

(* Lines make a chunk of no more than the lines that are not blank.         *)
LEMMA PieceOfLines ==
    ASSUME NEW b \in Seq(Nat), NEW start \in Int, IsFiniteSet(Filled(b)), Filled(b) # {}
    PROVE  /\ Piece(b, start) \in TextPiece /\ Piece(b, start).lines = Waiting(b)
           /\ Cardinality(Waiting(b)) \in 1..Cardinality(Filled(b))
<1>1. DOMAIN b = 1..Len(b) /\ Len(b) \in Nat /\ \A i \in DOMAIN b : b[i] \in Nat
  BY LenProperties, ElementOfSeq
<1>2. Piece(b, start) = [lines |-> Waiting(b), from |-> start, to |-> start + Len(b) - 1]
  BY DEF Piece, Waiting
<1>3. Waiting(b) \in SUBSET Nat
  BY <1>1 DEF Waiting
<1>4. Piece(b, start) \in TextPiece /\ Piece(b, start).lines = Waiting(b)
  BY <1>1, <1>2, <1>3 DEF TextPiece
<1> DEFINE f == [i \in Filled(b) |-> b[i]]
<1>5. f \in Surjection(Filled(b), Waiting(b))
  BY DEF Surjection, Filled, Waiting
<1>6. /\ IsFiniteSet(Waiting(b)) /\ Cardinality(Waiting(b)) <= Cardinality(Filled(b))
  BY <1>5, FS_Surjection
<1>7. Cardinality(Filled(b)) \in Nat /\ Cardinality(Waiting(b)) \in Nat
  BY <1>6, FS_CardinalityType
<1>8. Waiting(b) # {}
  BY DEF Filled, Waiting
<1>9. Cardinality(Waiting(b)) # 0
  BY <1>6, <1>8, FS_EmptySet
<1> QED
  BY <1>4, <1>6, <1>7, <1>9

(* Chunks after chunks.                                                     *)
LEMMA ChunksAfter ==
    ASSUME NEW p \in Seq(TextPiece), NEW q \in Seq(TextPiece), NEW a \in Nat, NEW z \in Nat,
           a <= z, CutUpTo(p, a), CutUpTo(q, z),
           \A d \in DOMAIN q : \A n \in q[d].lines : \A c \in DOMAIN p : \A m \in p[c].lines : m < n
    PROVE  /\ p \o q \in Seq(TextPiece) /\ CutUpTo(p \o q, z)
           /\ Cut(p \o q) = Cut(p) \cup Cut(q)
<1> DEFINE all == p \o q
<1>1. /\ DOMAIN p = 1..Len(p) /\ DOMAIN q = 1..Len(q) /\ DOMAIN all = 1..(Len(p) + Len(q))
      /\ Len(p) \in Nat /\ Len(q) \in Nat /\ all \in Seq(TextPiece)
      /\ \A i \in DOMAIN all : all[i] = IF i <= Len(p) THEN p[i] ELSE q[i - Len(p)]
  BY ConcatProperties, LenProperties
<1> HIDE DEF all
<1>2. \A i \in DOMAIN all : \/ i \in DOMAIN p /\ all[i] = p[i]
                            \/ i > Len(p) /\ i - Len(p) \in DOMAIN q /\ all[i] = q[i - Len(p)]
  BY <1>1
<1>3. \A c \in DOMAIN all :
         all[c].lines \subseteq 1..z /\ Cardinality(all[c].lines) \in 1..ChunkLines
  BY <1>2 DEF CutUpTo
<1>4. ASSUME NEW c \in DOMAIN all, NEW d \in DOMAIN all, c < d,
             NEW m \in all[c].lines, NEW n \in all[d].lines
      PROVE  m < n
  <2>1. CASE d \in DOMAIN p
    <3>1. c \in DOMAIN p /\ all[c] = p[c] /\ all[d] = p[d]
      BY <1>1, <1>4, <2>1
    <3> QED
      BY <1>4, <2>1, <3>1 DEF CutUpTo
  <2>2. CASE d \notin DOMAIN p /\ c \in DOMAIN p
    <3>1. d - Len(p) \in DOMAIN q /\ all[d] = q[d - Len(p)] /\ all[c] = p[c]
      BY <1>1, <1>2, <2>2
    <3> QED
      BY <2>2, <3>1
  <2>3. CASE d \notin DOMAIN p /\ c \notin DOMAIN p
    <3>1. /\ d - Len(p) \in DOMAIN q /\ all[d] = q[d - Len(p)]
          /\ c - Len(p) \in DOMAIN q /\ all[c] = q[c - Len(p)]
      BY <1>2, <2>3
    <3>2. c - Len(p) < d - Len(p)
      BY <1>1, <1>4
    <3> QED
      BY <3>1, <3>2 DEF CutUpTo
  <2> QED
    BY <2>1, <2>2, <2>3
<1>5. CutUpTo(all, z)
  BY <1>3, <1>4 DEF CutUpTo
<1>6. ASSUME NEW n
      PROVE  n \in Cut(all) <=> n \in Cut(p) \/ n \in Cut(q)
  <2>1. ASSUME n \in Cut(all) PROVE n \in Cut(p) \/ n \in Cut(q)
    BY <1>2, <2>1 DEF Cut
  <2>2. ASSUME n \in Cut(p) PROVE n \in Cut(all)
    BY <1>1, <2>2 DEF Cut
  <2>3. ASSUME n \in Cut(q) PROVE n \in Cut(all)
    <3>1. PICK d \in DOMAIN q : n \in q[d].lines
      BY <2>3 DEF Cut
    <3>2. d + Len(p) \in DOMAIN all /\ all[d + Len(p)] = q[d]
      BY <1>1
    <3> QED
      BY <3>1, <3>2 DEF Cut
  <2> QED
    BY <2>1, <2>2, <2>3
<1>7. Cut(all) = Cut(p) \cup Cut(q)
  BY <1>6
<1> QED
  BY <1>1, <1>5, <1>7 DEF all

(* A chunk by itself.                                                       *)
LEMMA OneChunk ==
    ASSUME NEW b \in Seq(Nat), NEW start \in Int, NEW top \in Nat, b # <<>>, NEW p, Merged(b, p, top)
    PROVE  /\ <<Piece(b, start)>> \in Seq(TextPiece) /\ CutUpTo(<<Piece(b, start)>>, top)
           /\ Cut(<<Piece(b, start)>>) = Waiting(b)
<1>1. /\ Piece(b, start) \in TextPiece /\ Piece(b, start).lines = Waiting(b)
      /\ Cardinality(Waiting(b)) \in 1..Cardinality(Filled(b))
  BY PieceOfLines DEF Merged
<1>2. Cardinality(Filled(b)) \in Nat /\ Cardinality(Filled(b)) <= ChunkLines /\ ChunkLines \in Nat
  BY FS_CardinalityType, TextChunksAssumption DEF Merged
<1> DEFINE one == <<Piece(b, start)>>
<1>3. one \in Seq(TextPiece) /\ DOMAIN one = {1} /\ one[1].lines = Waiting(b)
  BY <1>1
<1>4. Cardinality(Waiting(b)) \in 1..ChunkLines
  BY <1>1, <1>2
<1>5. Waiting(b) \subseteq 1..top
  BY DEF Merged
<1> HIDE DEF one
<1>6. CutUpTo(one, top)
  BY <1>3, <1>4, <1>5 DEF CutUpTo
<1>7. Cut(one) = Waiting(b)
  BY <1>3 DEF Cut
<1> QED
  BY <1>3, <1>6, <1>7 DEF one

(* What was merged becomes a chunk.                                         *)
LEMMA FlushedChunks ==
    ASSUME TextInv
    PROVE  /\ Flushed \in Seq(TextPiece) /\ CutUpTo(Flushed, last)
           /\ texts = Cut(Flushed)
<1>1. CASE buf = <<>>
  <2>1. Waiting(buf) = {}
    BY <1>1 DEF Waiting
  <2> QED
    BY <1>1, <2>1 DEF TextInv, Flushed
<1>2. CASE buf # <<>>
  <2> DEFINE one == <<Piece(buf, bufStart)>>
  <2>1. /\ one \in Seq(TextPiece) /\ CutUpTo(one, last)
        /\ Cut(one) = Waiting(buf)
    BY <1>2, OneChunk DEF TextInv
  <2>2. Piece(buf, bufStart) \in TextPiece /\ pieces \in Seq(TextPiece)
    BY <1>2, PieceOfLines DEF TextInv, Merged
  <2>3. Flushed = pieces \o one
    BY <1>2, <2>2, AppendIsConcat DEF Flushed
  <2> HIDE DEF one
  <2>4. \A d \in DOMAIN one : \A n \in one[d].lines : \A c \in DOMAIN pieces : \A m \in pieces[c].lines : m < n
    <3>1. \A d \in DOMAIN one : \A n \in one[d].lines : n \in Waiting(buf)
      BY <2>1 DEF Cut
    <3> QED
      BY <3>1 DEF TextInv, Merged
  <2>5. last \in Nat /\ last <= last /\ CutUpTo(pieces, last)
    BY DEF TextInv
  <2>6. /\ pieces \o one \in Seq(TextPiece) /\ CutUpTo(pieces \o one, last)
        /\ Cut(pieces \o one) = Cut(pieces) \cup Cut(one)
    BY <2>1, <2>2, <2>4, <2>5, ChunksAfter
  <2>7. texts = Cut(Flushed)
    BY <2>1, <2>3, <2>6 DEF TextInv
  <2> QED
    BY <2>3, <2>6, <2>7
<1> QED
  BY <1>1, <1>2

(* A section is read.                                                       *)
LEMMA ReadSection ==
    ASSUME TextInv, Read
    PROVE  /\ Here \in Section /\ ahead' \in Seq(Section) /\ Here.lines \in Nat \ {0}
           /\ First \in Nat /\ First > last /\ last' = First + Here.lines - 1
           /\ last' \in Nat /\ last' >= last /\ texts' = texts \cup (First..last')
<1>1. ahead \in Seq(Section) /\ ahead # <<>> /\ last \in Nat
  BY DEF TextInv, Read
<1>2. Here \in Section /\ ahead' \in Seq(Section)
  BY <1>1, HeadTailProperties DEF Here, Read
<1>3. Here.blank \in 0..1 /\ Here.lines \in Nat \ {0}
  BY <1>2, TextChunksAssumption DEF Section
<1>4. /\ First = last + Here.blank + 1 /\ last' = First + Here.lines - 1
      /\ texts' = texts \cup (First..last')
  BY DEF First, Read
<1> QED
  BY <1>1, <1>2, <1>3, <1>4

(* A section merged into what was merged before it.                         *)
LEMMA MergedWith ==
    ASSUME NEW b \in Seq(Nat), NEW p, NEW top \in Nat, Merged(b, p, top), CutUpTo(p, top),
           NEW a \in Nat, a > top, NEW k \in Nat \ {0}, Cardinality(Filled(b)) + k <= ChunkLines
    PROVE  LET new == b \o (IF b = <<>> THEN <<>> ELSE <<0>>) \o Numbers(a, k)
           IN  /\ new \in Seq(Nat) /\ Merged(new, p, a + k - 1)
               /\ Waiting(new) = Waiting(b) \cup (a..(a + k - 1))
<1> DEFINE sep == IF b = <<>> THEN <<>> ELSE <<0>>
           nums == Numbers(a, k)
           old == b \o sep
           new == old \o nums
<1>1. sep \in Seq(Nat) /\ Len(sep) \in 0..1 /\ \A i \in 1..Len(sep) : sep[i] = 0
  OBVIOUS
<1> HIDE DEF sep
<1>2. /\ nums \in Seq(Nat) /\ Len(nums) = k /\ DOMAIN nums = 1..k
      /\ \A i \in 1..k : nums[i] = a + i - 1
  <2>1. a \in Nat \ {0} /\ k \in Nat
    OBVIOUS
  <2> HIDE DEF nums
  <2> QED
    BY <2>1, NumbersCount DEF nums
<1> HIDE DEF nums
<1>3. /\ old \in Seq(Nat) /\ Len(old) = Len(b) + Len(sep) /\ DOMAIN old = 1..Len(old)
      /\ DOMAIN b = 1..Len(b) /\ Len(b) \in Nat /\ Len(old) \in Nat
      /\ \A i \in DOMAIN old : old[i] = IF i <= Len(b) THEN b[i] ELSE sep[i - Len(b)]
  BY <1>1, ConcatProperties, LenProperties
<1> HIDE DEF old
<1>14. PICK size \in Nat : size = Len(old) /\ DOMAIN old = 1..size /\ size = Len(b) + Len(sep)
  BY <1>3
<1>4. /\ new \in Seq(Nat) /\ DOMAIN new = 1..(size + k)
      /\ \A i \in DOMAIN new : new[i] = IF i <= size THEN old[i] ELSE nums[i - size]
  <2>1. /\ new \in Seq(Nat) /\ Len(new) = Len(old) + Len(nums)
        /\ \A i \in 1..(Len(old) + Len(nums)) : new[i] = IF i <= Len(old) THEN old[i] ELSE nums[i - Len(old)]
    BY <1>2, <1>3, ConcatProperties
  <2>2. DOMAIN new = 1..Len(new)
    BY <2>1, LenProperties
  <2> HIDE DEF new
  <2> QED
    BY <1>2, <1>14, <2>1, <2>2
<1> HIDE DEF new
<1>15. Len(b) \in Nat /\ Len(sep) \in 0..1 /\ DOMAIN b = 1..Len(b) /\ size = Len(b) + Len(sep)
  BY <1>1, <1>3, <1>14
<1>16. \A i \in DOMAIN old : old[i] = IF i <= Len(b) THEN b[i] ELSE 0
  <2> SUFFICES ASSUME NEW i \in DOMAIN old, i > Len(b)
               PROVE  old[i] = 0
    BY <1>3, <1>14
  <2>1. i - Len(b) \in 1..Len(sep) /\ ~(i <= Len(b))
    BY <1>14, <1>15
  <2>2. sep[i - Len(b)] = 0
    BY <1>1, <2>1
  <2> QED
    BY <1>3, <2>1, <2>2
<1>6. \A i \in DOMAIN b : i \in DOMAIN new /\ new[i] = b[i]
  <2> SUFFICES ASSUME NEW i \in DOMAIN b PROVE i \in DOMAIN new /\ new[i] = b[i]
    OBVIOUS
  <2>1. i \in 1..size /\ i <= Len(b) /\ i <= size
    BY <1>15
  <2>2. i \in DOMAIN new /\ i \in DOMAIN old
    BY <1>4, <1>14, <2>1
  <2> QED
    BY <1>4, <1>16, <2>1, <2>2
<1>17. \A i \in DOMAIN new : i > size => i - size \in 1..k /\ new[i] = a + (i - size) - 1
  BY <1>2, <1>4
<1>5. \A i \in DOMAIN new :
        \/ i \in DOMAIN b /\ new[i] = b[i]
        \/ i > size /\ i - size \in 1..k /\ new[i] = a + (i - size) - 1
        \/ new[i] = 0
  <2> SUFFICES ASSUME NEW i \in DOMAIN new, i \notin DOMAIN b, i <= size
               PROVE  new[i] = 0
    BY <1>4, <1>6, <1>17
  <2>1. i \in DOMAIN old /\ ~(i <= Len(b))
    BY <1>4, <1>14, <1>15
  <2> QED
    BY <1>4, <1>16, <2>1
<1>7. Waiting(new) \subseteq Waiting(b) \cup (a..(a + k - 1))
  BY <1>5 DEF Waiting
<1>8. size + k \in DOMAIN new /\ new[size + k] = a + k - 1
  BY <1>4, <1>17
<1>9. a + k - 1 \in Waiting(new) /\ Filled(new) # {}
  <2>1. PICK i \in DOMAIN new : new[i] = a + k - 1
    BY <1>8
  <2>2. new[i] # 0
    BY <2>1
  <2> QED
    BY <2>1, <2>2 DEF Waiting, Filled
<1>10. Filled(new) \subseteq Filled(b) \cup ((size + 1)..(size + k))
  <2> SUFFICES ASSUME NEW i \in DOMAIN new, new[i] # 0, i \notin Filled(b)
               PROVE  i \in (size + 1)..(size + k)
    BY DEF Filled
  <2>1. i > size /\ i - size \in 1..k /\ i \in Int
    BY <1>4, <1>5 DEF Filled
  <2> QED
    BY <2>1
<1>11. IsFiniteSet(Filled(new)) /\ Cardinality(Filled(new)) <= ChunkLines
  <2> DEFINE S == Filled(b)
             T == (size + 1)..(size + k)
  <2>1. IsFiniteSet(S) /\ Cardinality(S) \in Nat
    BY FS_CardinalityType DEF Merged
  <2>2. IsFiniteSet(T) /\ Cardinality(T) = k
    BY FS_Interval
  <2> HIDE DEF S, T
  <2>3. IsFiniteSet(S \cap T)
    BY <2>1, FS_Subset
  <2>4. Cardinality(S \cap T) \in Nat
    BY <2>3, FS_CardinalityType
  <2>5. IsFiniteSet(S \cup T) /\ Cardinality(S \cup T) = Cardinality(S) + Cardinality(T) - Cardinality(S \cap T)
    BY <2>1, <2>2, FS_Union
  <2>6. Cardinality(S \cup T) \in Nat /\ Cardinality(S \cup T) <= Cardinality(S) + k
    BY <2>1, <2>2, <2>4, <2>5, FS_CardinalityType
  <2>7. Filled(new) \subseteq S \cup T
    BY <1>10 DEF S, T
  <2>8. IsFiniteSet(Filled(new)) /\ Cardinality(Filled(new)) <= Cardinality(S \cup T)
    BY <2>5, <2>7, FS_Subset
  <2>9. Cardinality(Filled(new)) \in Nat
    BY <2>8, FS_CardinalityType
  <2>10. Cardinality(S) + k <= ChunkLines /\ ChunkLines \in Nat
    BY TextChunksAssumption DEF S
  <2> QED
    BY <2>1, <2>6, <2>8, <2>9, <2>10
<1>12. ASSUME NEW n \in Waiting(new)
       PROVE  n \in 1..(a + k - 1) /\ \A c \in DOMAIN p : \A m \in p[c].lines : m < n
  <2>1. CASE n \in Waiting(b)
    BY <2>1 DEF Merged
  <2>2. CASE n \in a..(a + k - 1)
    <3>1. n \in 1..(a + k - 1) /\ n > top
      BY <2>2
    <3>2. \A c \in DOMAIN p : \A m \in p[c].lines : m \in 1..top
      BY DEF CutUpTo
    <3> QED
      BY <3>1, <3>2
  <2> QED
    BY <1>7, <2>1, <2>2
<1>13. Merged(new, p, a + k - 1)
  BY <1>9, <1>11, <1>12 DEF Merged
<1>18. Waiting(b) \subseteq Waiting(new)
  BY <1>6 DEF Waiting
<1>19. a..(a + k - 1) \subseteq Waiting(new)
  <2> SUFFICES ASSUME NEW n \in a..(a + k - 1) PROVE n \in Waiting(new)
    OBVIOUS
  <2>1. n - a + 1 \in 1..k /\ n # 0
    OBVIOUS
  <2>2. size + (n - a + 1) \in DOMAIN new /\ size + (n - a + 1) > size
    BY <1>4, <2>1
  <2>3. new[size + (n - a + 1)] = a + (size + (n - a + 1) - size) - 1
    BY <1>17, <2>2
  <2>4. new[size + (n - a + 1)] = n
    BY <2>1, <2>3
  <2> QED
    BY <2>1, <2>2, <2>4 DEF Waiting
<1>20. Waiting(new) = Waiting(b) \cup (a..(a + k - 1))
  BY <1>7, <1>18, <1>19
<1> QED
  BY <1>4, <1>13, <1>20 DEF new, old, sep, nums

(* Nothing merged yet, a section is.                                        *)
LEMMA MergedAlone ==
    ASSUME NEW p, NEW top \in Nat, CutUpTo(p, top), NEW a \in Nat, a > top,
           NEW k \in Nat \ {0}, k <= ChunkLines
    PROVE  /\ Numbers(a, k) \in Seq(Nat) /\ Merged(Numbers(a, k), p, a + k - 1)
           /\ Waiting(Numbers(a, k)) = a..(a + k - 1)
<1>1. a \in Nat \ {0} /\ k \in Nat
  OBVIOUS
<1>2. /\ Numbers(a, k) \in Seq(Nat) /\ Waiting(Numbers(a, k)) = a..(a + k - 1)
      /\ Filled(Numbers(a, k)) = 1..k
  BY <1>1, NumbersCount
<1>3. IsFiniteSet(1..k) /\ Cardinality(1..k) = k /\ 1..k # {}
  <2>1. 1 \in 1..k /\ 1 \in Int /\ k \in Int
    OBVIOUS
  <2>2. IsFiniteSet(1..k) /\ Cardinality(1..k) = IF 1 > k THEN 0 ELSE k - 1 + 1
    BY <2>1, FS_Interval
  <2> QED
    BY <2>1, <2>2
<1>4. ASSUME NEW n \in a..(a + k - 1)
      PROVE  n \in 1..(a + k - 1) /\ \A c \in DOMAIN p : \A m \in p[c].lines : m < n
  <2>1. \A c \in DOMAIN p : \A m \in p[c].lines : m \in 1..top
    BY DEF CutUpTo
  <2> QED
    BY <2>1
<1> QED
  BY <1>2, <1>3, <1>4 DEF Merged

(* Nothing merged.                                                          *)
LEMMA NothingMerged ==
    ASSUME NEW p, NEW top
    PROVE  Merged(<<>>, p, top)
<1>1. Filled(<<>>) = {} /\ Waiting(<<>>) = {}
  BY DEF Filled, Waiting
<1>2. IsFiniteSet({}) /\ Cardinality({}) = 0
  BY FS_EmptySet
<1>3. 0 <= ChunkLines
  BY TextChunksAssumption
<1> HIDE DEF Filled, Waiting
<1> QED
  BY <1>1, <1>2, <1>3 DEF Merged

(* A later line cuts as well.                                               *)
LEMMA CutFurther ==
    ASSUME NEW p, NEW a \in Nat, NEW z \in Nat, a <= z, CutUpTo(p, a)
    PROVE  CutUpTo(p, z)
<1>1. 1..a \subseteq 1..z
  OBVIOUS
<1> QED
  BY <1>1 DEF CutUpTo

(* A section that fits is merged.                                           *)
LEMMA MergeStep ==
    ASSUME TextInv, MergeSection
    PROVE  TextInv'
<1>1. /\ ahead' \in Seq(Section) /\ Here.lines \in Nat \ {0}
      /\ First \in Nat /\ First > last /\ last' = First + Here.lines - 1
      /\ last' \in Nat /\ last' >= last /\ texts' = texts \cup (First..last')
  BY ReadSection DEF MergeSection
<1>2. PICK a \in Nat, k \in Nat \ {0} : a = First /\ k = Here.lines
  BY <1>1
<1>3. Cardinality(Filled(buf)) + k <= ChunkLines
  BY <1>2 DEF MergeSection, Fits, Filled
<1>4. buf' = buf \o (IF buf = <<>> THEN <<>> ELSE <<0>>) \o Numbers(a, k)
  BY <1>2 DEF MergeSection
<1>5. /\ buf \in Seq(Nat) /\ last \in Nat /\ Merged(buf, pieces, last) /\ CutUpTo(pieces, last)
      /\ pieces \in Seq(TextPiece) /\ bufStart \in Nat
  BY DEF TextInv
<1>6. buf' \in Seq(Nat) /\ Merged(buf', pieces, a + k - 1) /\ Waiting(buf') = Waiting(buf) \cup (a..(a + k - 1))
  <2>1. PICK new : new = buf \o (IF buf = <<>> THEN <<>> ELSE <<0>>) \o Numbers(a, k)
    OBVIOUS
  <2>2. a > last
    BY <1>1, <1>2
  <2>3. new \in Seq(Nat) /\ Merged(new, pieces, a + k - 1) /\ Waiting(new) = Waiting(buf) \cup (a..(a + k - 1))
    BY <1>3, <1>5, <2>1, <2>2, MergedWith
  <2> QED
    BY <1>4, <2>1, <2>3
<1>7. last' = a + k - 1
  BY <1>1, <1>2
<1>8. pieces' = pieces /\ bufStart' \in Nat
  BY <1>1, <1>5 DEF MergeSection
<1>9. CutUpTo(pieces, last')
  BY <1>1, <1>5, CutFurther
<1>10. /\ Merged(buf', pieces', last') /\ texts' = Waiting(buf') \cup Cut(pieces')
       /\ CutUpTo(pieces', last')
  BY <1>1, <1>2, <1>6, <1>7, <1>8, <1>9 DEF TextInv
<1>11. /\ Merged(buf, pieces, last)' /\ (texts = Waiting(buf) \cup Cut(pieces))'
       /\ CutUpTo(pieces, last)'
  BY <1>10 DEF Merged, Waiting, Filled, CutUpTo, Cut
<1> QED
  BY <1>1, <1>5, <1>6, <1>8, <1>11 DEF TextInv

(* One that does not fit begins anew.                                       *)
LEMMA BeginStep ==
    ASSUME TextInv, BeginBuffer
    PROVE  TextInv'
<1>1. /\ ahead' \in Seq(Section) /\ Here.lines \in Nat \ {0}
      /\ First \in Nat /\ First > last /\ last' = First + Here.lines - 1
      /\ last' \in Nat /\ last' >= last /\ texts' = texts \cup (First..last')
  BY ReadSection DEF BeginBuffer
<1>2. PICK a \in Nat, k \in Nat \ {0} : a = First /\ k = Here.lines
  BY <1>1
<1>3. pieces' \in Seq(TextPiece) /\ CutUpTo(pieces', last) /\ last \in Nat /\ texts = Cut(pieces')
  BY FlushedChunks DEF BeginBuffer, TextInv
<1>4. k <= ChunkLines /\ buf' = Numbers(a, k) /\ bufStart' = a
  BY <1>2 DEF BeginBuffer
<1>5. buf' \in Seq(Nat) /\ Merged(buf', pieces', a + k - 1) /\ Waiting(buf') = a..(a + k - 1)
  BY <1>1, <1>2, <1>3, <1>4, MergedAlone
<1>6. last' = a + k - 1
  BY <1>1, <1>2
<1>7. CutUpTo(pieces', last')
  BY <1>1, <1>3, CutFurther
<1>9. texts' = Waiting(buf') \cup Cut(pieces')
  BY <1>1, <1>2, <1>3, <1>5, <1>6
<1>8. /\ Merged(buf, pieces, last)' /\ (texts = Waiting(buf) \cup Cut(pieces))'
      /\ CutUpTo(pieces, last)'
  BY <1>5, <1>6, <1>7, <1>9 DEF Merged, Waiting, Filled, CutUpTo, Cut
<1> QED
  BY <1>1, <1>3, <1>4, <1>5, <1>8 DEF TextInv

(* The parts of a long section.                                             *)
LEMMA PartsOfSection ==
    ASSUME NEW lines \in Nat \ {0}, NEW fit \in Nat \ {0}, NEW count, count = (lines + fit - 1) \div fit
    PROVE  /\ count \in Nat \ {0} /\ count * fit >= lines
           /\ \A k \in 1..count : (k - 1) * fit \in Nat /\ (k - 1) * fit < lines
           /\ \A j, k \in 1..count : j < k => j * fit <= (k - 1) * fit
           /\ \A i \in 0..(lines - 1) : \E k \in 1..count : (k - 1) * fit <= i /\ i < (k - 1) * fit + fit
<1>1. count \in Int /\ fit * count <= lines + fit - 1 /\ lines + fit - 1 < fit * count + fit
  OBVIOUS
<1>2. count * fit >= lines
  BY <1>1
<1>3. count > 0
  BY <1>1
<1>4. ASSUME NEW k \in 1..count
      PROVE  (k - 1) * fit \in Nat /\ (k - 1) * fit < lines
  <2>1. k * fit <= count * fit
    BY <1>3, <1>1
  <2>2. (k - 1) * fit = k * fit - fit
    BY <1>1
  <2>3. (k - 1) * fit >= 0
    BY <1>1
  <2> QED
    BY <1>1, <2>1, <2>2, <2>3
<1>5. ASSUME NEW j \in 1..count, NEW k \in 1..count, j < k
      PROVE  j * fit <= (k - 1) * fit
  BY <1>1, <1>5
<1>6. ASSUME NEW i \in 0..(lines - 1)
      PROVE  \E k \in 1..count : (k - 1) * fit <= i /\ i < (k - 1) * fit + fit
  <2>1. PICK q : q = i \div fit
    OBVIOUS
  <2>2. q \in Int /\ fit * q <= i /\ i < fit * q + fit
    BY <2>1
  <2>3. q * fit < count * fit /\ q * fit + fit > 0
    BY <1>1, <1>2, <2>2
  <2>4. q < count /\ q + 1 > 0
    BY <1>1, <2>2, <2>3
  <2>5. q + 1 \in 1..count /\ (q + 1 - 1) * fit = fit * q
    BY <1>1, <2>2, <2>4
  <2> QED
    BY <2>2, <2>5
<1> QED
  BY <1>1, <1>2, <1>3, <1>4, <1>5, <1>6

(* The parts of a section are chunks of its lines, to the last of them.     *)
LEMMA PartsCut ==
    ASSUME NEW a \in Nat \ {0}, a = First, NEW length \in Nat \ {0}, length = Here.lines
    PROVE  /\ Parts \in Seq(TextPiece) /\ CutUpTo(Parts, a + length - 1)
           /\ \A c \in DOMAIN Parts : \A n \in Parts[c].lines : n >= a
           /\ Cut(Parts) = a..(a + length - 1)
<1> DEFINE fit == ChunkLines
           count == (length + fit - 1) \div fit
           Passed(k) == (k - 1) * fit
           Size(k) == IF length - Passed(k) < fit THEN length - Passed(k) ELSE fit
           Part(k) == Piece(Numbers(a + Passed(k), Size(k)), a + Passed(k) + k - 1)
           parts == [k \in 1..count |-> Part(k)]
<1>1. Parts = parts
  BY DEF Parts
<1>2. fit \in Nat \ {0}
  BY TextChunksAssumption
<1> HIDE DEF fit
<1>3. /\ count \in Nat \ {0} /\ count * fit >= length
      /\ \A k \in 1..count : Passed(k) \in Nat /\ Passed(k) < length
      /\ \A j, k \in 1..count : j < k => j * fit <= Passed(k)
      /\ \A i \in 0..(length - 1) : \E k \in 1..count : Passed(k) <= i /\ i < Passed(k) + fit
  <2>1. PICK n : n = (length + fit - 1) \div fit
    OBVIOUS
  <2>2. /\ n \in Nat \ {0} /\ n * fit >= length
        /\ \A k \in 1..n : (k - 1) * fit \in Nat /\ (k - 1) * fit < length
        /\ \A j, k \in 1..n : j < k => j * fit <= (k - 1) * fit
        /\ \A i \in 0..(length - 1) : \E k \in 1..n : (k - 1) * fit <= i /\ i < (k - 1) * fit + fit
    BY <1>2, <2>1, PartsOfSection
  <2> QED
    BY <2>1, <2>2
<1> HIDE DEF count
<1>4. \A k \in 1..count : Passed(k) + fit = k * fit
  BY <1>2, <1>3
<1>5. \A k \in 1..count : Passed(k) \in Nat
  BY <1>3
<1>6. \A k \in 1..count : /\ Size(k) \in 1..fit /\ Passed(k) + Size(k) <= length
                          /\ Size(k) < fit => Passed(k) + Size(k) = length
  <2> SUFFICES ASSUME NEW k \in 1..count
               PROVE  /\ Size(k) \in 1..fit /\ Passed(k) + Size(k) <= length
                      /\ Size(k) < fit => Passed(k) + Size(k) = length
    OBVIOUS
  <2>1. Passed(k) \in Nat /\ Passed(k) < length
    BY <1>3
  <2> HIDE DEF Passed
  <2> QED
    BY <1>2, <2>1
<1>7. \A j, k \in 1..count : j < k => Passed(j) + Size(j) <= Passed(k)
  <2> SUFFICES ASSUME NEW j \in 1..count, NEW k \in 1..count, j < k
               PROVE  Passed(j) + Size(j) <= Passed(k)
    OBVIOUS
  <2>1. j * fit <= Passed(k) /\ Passed(j) + fit = j * fit /\ Passed(j) \in Nat /\ Passed(k) \in Nat
    BY <1>3, <1>4
  <2>2. Size(j) \in 1..fit
    BY <1>6
  <2>3. j * fit \in Int
    BY <1>2, <1>3
  <2> HIDE DEF Passed, Size
  <2> QED
    BY <1>2, <2>1, <2>2, <2>3
<1>8. Passed(count) + Size(count) = length
  <2>1. count \in 1..count /\ Passed(count) + fit >= length
    BY <1>2, <1>3, <1>4
  <2>2. Size(count) \in 1..fit /\ Passed(count) + Size(count) <= length /\ Passed(count) \in Nat
        /\ (Size(count) < fit => Passed(count) + Size(count) = length)
    BY <1>5, <1>6, <2>1
  <2> HIDE DEF Passed, Size
  <2> QED
    BY <1>2, <2>1, <2>2
<1> HIDE DEF Passed, Size
<1>9. \A k \in 1..count :
         /\ Part(k) \in TextPiece
         /\ Part(k).lines = (a + Passed(k))..(a + Passed(k) + Size(k) - 1)
         /\ Cardinality(Part(k).lines) \in 1..fit
  <2> SUFFICES ASSUME NEW k \in 1..count
               PROVE  /\ Part(k) \in TextPiece
                      /\ Part(k).lines = (a + Passed(k))..(a + Passed(k) + Size(k) - 1)
                      /\ Cardinality(Part(k).lines) \in 1..fit
    OBVIOUS
  <2>1. PICK b \in Nat \ {0}, n \in Nat : b = a + Passed(k) /\ n = Size(k) /\ n \in 1..fit
    BY <1>2, <1>5, <1>6
  <2>2. /\ Numbers(b, n) \in Seq(Nat) /\ Waiting(Numbers(b, n)) = b..(b + n - 1)
        /\ Filled(Numbers(b, n)) = 1..n
    BY <2>1, NumbersCount
  <2>3. IsFiniteSet(1..n) /\ Cardinality(b..(b + n - 1)) = IF b > b + n - 1 THEN 0 ELSE b + n - 1 - b + 1
    <3>1. 1 \in Int /\ n \in Int /\ b \in Int /\ b + n - 1 \in Int
      OBVIOUS
    <3>2. IsFiniteSet(1..n)
      BY <3>1, FS_Interval
    <3> QED
      BY <3>1, <3>2, FS_Interval
  <2>4. Cardinality(b..(b + n - 1)) = n
    BY <2>1, <2>3
  <2>5. 1 \in 1..n
    BY <2>1
  <2>6. b + k - 1 \in Int
    BY <1>3, <2>1
  <2>7. /\ Piece(Numbers(b, n), b + k - 1) \in TextPiece
        /\ Piece(Numbers(b, n), b + k - 1).lines = Waiting(Numbers(b, n))
    BY <2>2, <2>3, <2>5, <2>6, PieceOfLines
  <2>8. Part(k) = Piece(Numbers(b, n), b + k - 1)
    BY <2>1
  <2> QED
    BY <2>1, <2>2, <2>4, <2>7, <2>8
<1>10. parts \in Seq(TextPiece) /\ DOMAIN parts = 1..count
  <2>1. parts \in [1..count -> TextPiece]
    BY <1>9
  <2> HIDE DEF parts
  <2> QED
    BY <1>3, <2>1
<1>11. \A k \in 1..count : /\ parts[k].lines = (a + Passed(k))..(a + Passed(k) + Size(k) - 1)
                           /\ Cardinality(parts[k].lines) \in 1..fit
  BY <1>9
<1> HIDE DEF parts
<1>12. \A k \in 1..count : parts[k].lines \subseteq a..(a + length - 1)
  <2> SUFFICES ASSUME NEW k \in 1..count, NEW n \in parts[k].lines
               PROVE  n \in a..(a + length - 1)
    OBVIOUS
  <2>1. n \in (a + Passed(k))..(a + Passed(k) + Size(k) - 1) /\ Passed(k) \in Nat /\ Size(k) \in 1..fit
        /\ Passed(k) + Size(k) <= length
    BY <1>5, <1>6, <1>11
  <2> QED
    BY <1>2, <2>1
<1>13. ASSUME NEW j \in 1..count, NEW k \in 1..count, j < k,
              NEW m \in parts[j].lines, NEW n \in parts[k].lines
       PROVE  m < n
  <2>1. /\ m \in (a + Passed(j))..(a + Passed(j) + Size(j) - 1) /\ Passed(j) \in Nat /\ Size(j) \in 1..fit
        /\ n \in (a + Passed(k))..(a + Passed(k) + Size(k) - 1) /\ Passed(k) \in Nat /\ Size(k) \in 1..fit
        /\ Passed(j) + Size(j) <= Passed(k)
    BY <1>5, <1>6, <1>7, <1>11, <1>13
  <2> QED
    BY <1>2, <2>1
<1>14. a..(a + length - 1) \subseteq 1..(a + length - 1)
  OBVIOUS
<1>15. CutUpTo(parts, a + length - 1)
  <2>1. \A c \in DOMAIN parts : parts[c].lines \subseteq 1..(a + length - 1)
    BY <1>10, <1>12, <1>14
  <2> QED
    BY <1>10, <1>11, <1>13, <2>1 DEF CutUpTo, fit
<1>16. \A c \in DOMAIN parts : \A n \in parts[c].lines : n >= a
  BY <1>10, <1>12
<1>17. Cut(parts) = a..(a + length - 1)
  <2>1. Cut(parts) \subseteq a..(a + length - 1)
    BY <1>10, <1>12 DEF Cut
  <2>2. ASSUME NEW n \in a..(a + length - 1) PROVE n \in Cut(parts)
    <3>1. n - a \in 0..(length - 1)
      OBVIOUS
    <3>2. PICK k \in 1..count : Passed(k) <= n - a /\ n - a < Passed(k) + fit
      BY <1>3, <3>1
    <3>3. Passed(k) \in Nat /\ Size(k) \in 1..fit /\ (Size(k) < fit => Passed(k) + Size(k) = length)
      BY <1>5, <1>6
    <3>4. n \in (a + Passed(k))..(a + Passed(k) + Size(k) - 1)
      BY <1>2, <3>2, <3>3
    <3> QED
      BY <1>10, <1>11, <3>4 DEF Cut
  <2> QED
    BY <2>1, <2>2
<1> QED
  BY <1>1, <1>10, <1>15, <1>16, <1>17

(* A long section: what was merged becomes a chunk, and then its parts.     *)
LEMMA SplitStep ==
    ASSUME TextInv, SplitSection
    PROVE  TextInv'
<1>1. /\ ahead' \in Seq(Section) /\ Here.lines \in Nat \ {0}
      /\ First \in Nat /\ First > last /\ last' = First + Here.lines - 1
      /\ last' \in Nat /\ last' >= last /\ texts' = texts \cup (First..last')
  BY ReadSection DEF SplitSection
<1>2. PICK a \in Nat \ {0}, k \in Nat \ {0} : a = First /\ k = Here.lines
  <2>1. last \in Nat
    BY DEF TextInv
  <2> QED
    BY <1>1, <2>1
<1>3. Flushed \in Seq(TextPiece) /\ CutUpTo(Flushed, last) /\ last \in Nat /\ texts = Cut(Flushed)
  BY FlushedChunks DEF TextInv
<1>4. /\ Parts \in Seq(TextPiece) /\ CutUpTo(Parts, last')
      /\ \A c \in DOMAIN Parts : \A n \in Parts[c].lines : n >= a
      /\ Cut(Parts) = a..last'
  <2>1. last' = a + k - 1
    BY <1>1, <1>2
  <2> QED
    BY <1>2, <2>1, PartsCut
<1>5. \A d \in DOMAIN Parts : \A n \in Parts[d].lines : \A c \in DOMAIN Flushed : \A m \in Flushed[c].lines : m < n
  <2> SUFFICES ASSUME NEW d \in DOMAIN Parts, NEW n \in Parts[d].lines,
                      NEW c \in DOMAIN Flushed, NEW m \in Flushed[c].lines
               PROVE  m < n
    OBVIOUS
  <2>1. m \in 1..last
    BY <1>3 DEF CutUpTo
  <2>2. n >= a /\ n \in 1..last'
    BY <1>4 DEF CutUpTo
  <2> QED
    BY <1>1, <1>2, <1>3, <2>1, <2>2
<1>6. pieces' = Flushed \o Parts /\ buf' = <<>> /\ bufStart' = 0
  BY DEF SplitSection
<1>7. /\ pieces' \in Seq(TextPiece) /\ CutUpTo(pieces', last')
      /\ Cut(pieces') = Cut(Flushed) \cup Cut(Parts)
  <2>1. PICK z \in Nat : z = last'
    BY <1>1
  <2>2. CutUpTo(Parts, z) /\ last <= z
    BY <1>1, <1>4, <2>1
  <2> QED
    BY <1>3, <1>4, <1>5, <1>6, <2>1, <2>2, ChunksAfter
<1>8. buf' \in Seq(Nat) /\ bufStart' \in Nat
  BY <1>6
<1>9. Merged(buf', pieces', last')
  BY <1>6, NothingMerged
<1>11. Waiting(buf') = {}
  BY <1>6 DEF Waiting
<1>12. texts' = Waiting(buf') \cup Cut(pieces')
  BY <1>1, <1>2, <1>3, <1>4, <1>7, <1>11
<1>10. /\ Merged(buf, pieces, last)' /\ (texts = Waiting(buf) \cup Cut(pieces))'
       /\ CutUpTo(pieces, last)'
  BY <1>7, <1>9, <1>12 DEF Merged, Waiting, Filled, CutUpTo, Cut
<1> QED
  BY <1>1, <1>7, <1>8, <1>10 DEF TextInv

(* The end of the file: what was merged becomes a chunk.                    *)
LEMMA FlushStep ==
    ASSUME TextInv, FlushRest
    PROVE  TextInv'
<1>1. Flushed \in Seq(TextPiece) /\ CutUpTo(Flushed, last) /\ texts = Cut(Flushed)
  BY FlushedChunks
<1>2. /\ pieces' = Flushed /\ buf' = <<>> /\ ahead' = ahead /\ last' = last /\ bufStart' = bufStart
      /\ texts' = texts
  BY DEF FlushRest
<1>3. Merged(buf', pieces', last')
  BY <1>2, NothingMerged
<1>6. Waiting(buf') = {}
  BY <1>2 DEF Waiting
<1>7. texts' = Waiting(buf') \cup Cut(pieces')
  BY <1>1, <1>2, <1>6
<1>4. /\ Merged(buf, pieces, last)' /\ (texts = Waiting(buf) \cup Cut(pieces))'
      /\ CutUpTo(pieces, last)'
  BY <1>1, <1>2, <1>3, <1>7 DEF Merged, Waiting, Filled, CutUpTo, Cut
<1>5. buf' \in Seq(Nat)
  BY <1>2
<1> QED
  BY <1>1, <1>2, <1>4, <1>5 DEF TextInv

(* Cutting a file into chunks keeps the invariant: the chunks fit and are   *)
(* in order, what is merged fits and comes after them, and every line that  *)
(* was read and is not blank is in one or the other.                        *)
THEOREM TextInductive == TextSpec => []TextInv
<1>1. TextInit => TextInv
  <2> SUFFICES ASSUME TextInit PROVE TextInv
    OBVIOUS
  <2>1. ahead \in Seq(Section)
    BY TextChunksAssumption DEF TextInit
  <2>2. last = 0 /\ texts = {} /\ buf = <<>> /\ bufStart = 0 /\ pieces = <<>>
    BY DEF TextInit
  <2>3. DOMAIN buf = {} /\ DOMAIN pieces = {} /\ buf \in Seq(Nat) /\ pieces \in Seq(TextPiece)
    BY <2>2
  <2>4. Merged(buf, pieces, last)
    BY <2>2, NothingMerged
  <2>5. texts = Waiting(buf) \cup Cut(pieces)
    BY <2>2, <2>3 DEF Waiting, Cut
  <2> QED
    BY <2>1, <2>2, <2>3, <2>4, <2>5 DEF TextInv, CutUpTo
<1>2. TextInv /\ [TextNext]_textVars => TextInv'
  <2> SUFFICES ASSUME TextInv, [TextNext]_textVars PROVE TextInv'
    OBVIOUS
  <2>1. CASE UNCHANGED textVars
    BY <2>1 DEF textVars, TextInv, Merged, Waiting, Filled, CutUpTo, Cut
  <2> QED
    BY <2>1, MergeStep, BeginStep, SplitStep, FlushStep DEF TextNext
<1> QED
  BY <1>1, <1>2, PTL DEF TextSpec

(* Merging and splitting lose and repeat no line.                           *)
THEOREM TextStaysKept == TextSpec => []TextIsKept
<1>1. TextInv => TextIsKept
  <2> SUFFICES ASSUME TextInv PROVE TextIsKept
    OBVIOUS
  <2>1. /\ last \in Nat /\ pieces \in Seq(TextPiece) /\ CutUpTo(pieces, last) /\ Merged(buf, pieces, last)
        /\ texts = Waiting(buf) \cup Cut(pieces)
    BY DEF TextInv
  <2>2. /\ DOMAIN pieces = 1..Len(pieces) /\ Len(pieces) \in Nat
        /\ \A c \in DOMAIN pieces : pieces[c].lines \subseteq 1..last
    BY <2>1, LenProperties DEF CutUpTo
  <2>3. ASSUME NEW c \in DOMAIN pieces
        PROVE  pieces[c].lines \cap Waiting(buf) = {}
    <3> SUFFICES ASSUME NEW n \in pieces[c].lines, n \in Waiting(buf) PROVE FALSE
      OBVIOUS
    <3>1. n < n /\ n \in Nat
      BY <2>1, <2>2 DEF Merged
    <3> QED
      BY <3>1
  <2>4. ASSUME NEW n \in 1..last
        PROVE  Cardinality({c \in DOMAIN pieces : n \in pieces[c].lines})
                 = IF n \in texts \ Waiting(buf) THEN 1 ELSE 0
    <3> DEFINE these == {c \in DOMAIN pieces : n \in pieces[c].lines}
    <3>1. \A c, d \in these : c = d
      <4> SUFFICES ASSUME NEW c \in these, NEW d \in these, c < d PROVE FALSE
        BY <2>2
      <4>1. n < n
        BY <2>1 DEF CutUpTo
      <4> QED
        BY <4>1
    <3>2. these = {} \/ \E c : these = {c}
      BY <3>1
    <3>3. these # {} <=> n \in Cut(pieces)
      BY DEF Cut
    <3>4. these # {} => n \notin Waiting(buf)
      BY <2>3
    <3> HIDE DEF these
    <3>5. Cardinality(these) = IF these = {} THEN 0 ELSE 1
      BY <3>2, FS_EmptySet, FS_Singleton
    <3>6. these # {} <=> n \in texts \ Waiting(buf)
      BY <2>1, <3>3, <3>4
    <3> QED
      BY <3>5, <3>6 DEF these
  <2>5. ASSUME NEW c \in 1..(Len(pieces) - 1), NEW m \in pieces[c].lines, NEW n \in pieces[c + 1].lines
        PROVE  m < n
    <3>1. c \in DOMAIN pieces /\ c + 1 \in DOMAIN pieces /\ c < c + 1
      BY <2>2
    <3> QED
      BY <2>1, <3>1 DEF CutUpTo
  <2>7. \A c \in DOMAIN pieces : Cardinality(pieces[c].lines) \in 1..ChunkLines
    BY <2>1 DEF CutUpTo
  <2> QED
    BY <2>1, <2>4, <2>5, <2>7 DEF TextIsKept, Waiting
<1> QED
  BY <1>1, TextInductive, PTL

(* And the types, which go with it.                                         *)
THEOREM TextTypesHold == TextSpec => []TextTypeOK
<1>1. TextInv => TextTypeOK
  <2> SUFFICES ASSUME TextInv PROVE TextTypeOK
    OBVIOUS
  <2>1. CutUpTo(pieces, last) /\ Merged(buf, pieces, last) /\ texts = Waiting(buf) \cup Cut(pieces)
    BY DEF TextInv
  <2>2. texts \subseteq 1..last
    BY <2>1 DEF CutUpTo, Merged, Cut
  <2> QED
    BY <2>2 DEF TextInv, CutUpTo, TextTypeOK
<1> QED
  BY <1>1, TextInductive, PTL

-----------------------------------------------------------------------------
(* Chunks of Rust.                                                          *)

InComment(n) ==
    \E a \in 1..(n - 1) : rust[a] = "/*" /\ \A b \in (a + 1)..(n - 1) : rust[b] # "*/"

Balance(a, z) == HowMany(a..z, "open") - HowMany(a..z, "close")

Braced(a, z) == HowMany(a..z, "open") + HowMany(a..z, "both") > 0

(* No beginning of the lines that has a brace has them all closed.          *)
StaysOpen(a, z) == \A m \in a..z : Braced(a, m) => Balance(a, m) > 0

Whole(ch) == Balance(ch[1], ch[2]) <= 0 /\ StaysOpen(ch[1], ch[2] - 1)

(* Chunks of lines before a row, one after the other.                       *)
InOrder(chs, top) ==
    /\ \A c \in DOMAIN chs : chs[c][1] <= chs[c][2] /\ chs[c][2] < top
    /\ \A c, d \in DOMAIN chs : c < d => chs[c][2] < chs[d][1]

Covers(chs, n) == \E c \in DOMAIN chs : n \in chs[c][1]..chs[c][2]

(* Where the scan is: in an item, whose braces it has counted, or before    *)
(* one, with what leads it, or with blank lines that belong to nothing.     *)
Scanned ==
    IF item
    THEN /\ from < row /\ depth = Balance(from, row - 1)
         /\ (opened <=> Braced(from, row - 1)) /\ StaysOpen(from, row - 1)
    ELSE /\ \A n \in from..(row - 1) : rust[n] \in {"doc", "blank"}
         /\ \A n \in row..(from - 1) : rust[n] = "blank"

RustInv ==
    /\ RustTypeOK
    /\ InOrder(chunks, from)
    /\ \A n \in DOMAIN rust : n < from /\ rust[n] # "blank" => Covers(chunks, n)
    /\ row <= Len(rust) + 1 =>
         /\ comment <=> InComment(row)
         /\ \A c \in DOMAIN chunks : Whole(chunks[c])
         /\ Scanned
    /\ row > Len(rust) + 1 =>
         from = Len(rust) + 1 /\ \A c \in 1..(Len(chunks) - 1) : Whole(chunks[c])

-----------------------------------------------------------------------------
(* One line more.                                                           *)
LEMMA CountNext ==
    ASSUME rust \in Seq(LineKinds), NEW a \in Nat \ {0}, NEW z \in DOMAIN rust, a <= z, NEW kind
    PROVE  /\ HowMany(a..(z - 1), kind) \in Nat
           /\ HowMany(a..z, kind) =
                HowMany(a..(z - 1), kind) + IF z \in Code /\ rust[z] = kind THEN 1 ELSE 0
<1> DEFINE old == {n \in (a..(z - 1)) \cap Code : rust[n] = kind}
           new == {n \in (a..z) \cap Code : rust[n] = kind}
<1>1. z \in Nat \ {0} /\ z - 1 \in Int
  BY LenProperties
<1>2. IsFiniteSet(a..(z - 1))
  BY <1>1, FS_Interval
<1>3. IsFiniteSet(old)
  BY <1>2, FS_Subset
<1>4. Cardinality(old) \in Nat
  BY <1>3, FS_CardinalityType
<1>5. \A n : n \in a..z <=> n \in a..(z - 1) \/ n = z
  BY <1>1
<1>6. z \notin old
  BY <1>1
<1>7. CASE z \in Code /\ rust[z] = kind
  <2>1. new = old \cup {z}
    BY <1>5, <1>7
  <2> HIDE DEF old, new
  <2>2. Cardinality(new) = Cardinality(old) + 1
    BY <1>3, <1>6, <2>1, FS_AddElement
  <2> QED
    BY <1>4, <1>7, <2>2 DEF HowMany, old, new
<1>8. CASE ~(z \in Code /\ rust[z] = kind)
  <2>1. new = old
    BY <1>5, <1>8
  <2> HIDE DEF old, new
  <2>2. Cardinality(new) = Cardinality(old) + 0
    BY <1>4, <2>1
  <2> QED
    BY <1>4, <1>8, <2>2 DEF HowMany, old, new
<1> QED
  BY <1>7, <1>8

(* Lines of other kinds.                                                    *)
LEMMA CountNone ==
    ASSUME NEW lines, NEW kind, \A n \in lines : rust[n] # kind
    PROVE  HowMany(lines, kind) = 0
<1>1. {n \in lines \cap Code : rust[n] = kind} = {}
  OBVIOUS
<1> QED
  BY <1>1, FS_EmptySet DEF HowMany

(* What the line at the row adds to the braces.                             *)
LEMMA BracesNext ==
    ASSUME rust \in Seq(LineKinds), NEW a \in Nat \ {0}, row \in DOMAIN rust, a <= row,
           comment <=> InComment(row)
    PROVE  /\ Balance(a, row - 1) \in Int /\ Balance(a, row) = Balance(a, row - 1) + Braces(Line)
           /\ Braces(Line) \in Int
           /\ Braced(a, row) <=> Braced(a, row - 1) \/ HasOpen(Line)
           /\ ~Braced(a, row) => Balance(a, row) <= 0
<1> DEFINE Old(kind) == HowMany(a..(row - 1), kind)
           New(kind) == HowMany(a..row, kind)
           One(kind) == IF row \in Code /\ rust[row] = kind THEN 1 ELSE 0
<1>1. row \in Code <=> ~comment
  BY DEF Code, InComment
<1>2. \A kind : Old(kind) \in Nat /\ New(kind) = Old(kind) + One(kind)
  BY CountNext
<1>3. Balance(a, row - 1) = Old("open") - Old("close") /\ Balance(a, row) = New("open") - New("close")
  BY DEF Balance
<1>4. (Braced(a, row - 1) <=> Old("open") + Old("both") > 0) /\ (Braced(a, row) <=> New("open") + New("both") > 0)
  BY DEF Braced
<1> HIDE DEF Old, New
<1>5. Braces(Line) = One("open") - One("close") /\ (HasOpen(Line) <=> One("open") + One("both") > 0)
  BY <1>1 DEF Braces, HasOpen, Line
<1>6. \A kind : One(kind) \in 0..1
  OBVIOUS
<1> HIDE DEF One
<1>7. /\ Old("open") \in Nat /\ Old("close") \in Nat /\ Old("both") \in Nat
      /\ New("open") = Old("open") + One("open") /\ New("close") = Old("close") + One("close")
      /\ New("both") = Old("both") + One("both")
      /\ One("open") \in 0..1 /\ One("close") \in 0..1 /\ One("both") \in 0..1
  BY <1>2, <1>6
<1>8. /\ Balance(a, row - 1) \in Int /\ Braces(Line) \in Int
      /\ Balance(a, row) = Balance(a, row - 1) + Braces(Line)
  BY <1>3, <1>5, <1>7
<1>9. Braced(a, row) <=> Braced(a, row - 1) \/ HasOpen(Line)
  BY <1>4, <1>5, <1>7
<1>10. ~Braced(a, row) => Balance(a, row) <= 0
  BY <1>3, <1>4, <1>7
<1> QED
  BY <1>8, <1>9, <1>10

(* Whether the next line is in a comment.                                   *)
LEMMA CommentNext ==
    ASSUME rust \in Seq(LineKinds), row \in DOMAIN rust, comment <=> InComment(row)
    PROVE  CommentAfter(Line) <=> InComment(row + 1)
<1>1. row \in Nat \ {0}
  BY LenProperties
<1>2. CASE Line = "/*"
  <2>1. row \in 1..(row + 1 - 1) /\ \A b \in (row + 1)..(row + 1 - 1) : rust[b] # "*/"
    BY <1>1
  <2> QED
    BY <1>2, <2>1 DEF InComment, CommentAfter, Line
<1>3. CASE Line = "*/"
  <2>1. ASSUME NEW a \in 1..(row + 1 - 1), rust[a] = "/*", \A b \in (a + 1)..(row + 1 - 1) : rust[b] # "*/"
        PROVE  FALSE
    <3>1. a # row
      BY <1>3, <2>1 DEF Line
    <3>2. row \in (a + 1)..(row + 1 - 1)
      BY <1>1, <3>1
    <3> QED
      BY <1>3, <2>1, <3>2 DEF Line
  <2> QED
    BY <1>3, <2>1 DEF InComment, CommentAfter
<1>4. CASE Line # "/*" /\ Line # "*/"
  <2>1. ASSUME InComment(row) PROVE InComment(row + 1)
    <3>1. PICK a \in 1..(row - 1) : rust[a] = "/*" /\ \A b \in (a + 1)..(row - 1) : rust[b] # "*/"
      BY <2>1 DEF InComment
    <3>2. a \in 1..(row + 1 - 1) /\ \A b \in (a + 1)..(row + 1 - 1) : b = row \/ b \in (a + 1)..(row - 1)
      BY <1>1
    <3> QED
      BY <1>4, <3>1, <3>2 DEF InComment, Line
  <2>2. ASSUME InComment(row + 1) PROVE InComment(row)
    <3>1. PICK a \in 1..(row + 1 - 1) : rust[a] = "/*" /\ \A b \in (a + 1)..(row + 1 - 1) : rust[b] # "*/"
      BY <2>2 DEF InComment
    <3>2. a # row
      BY <1>4, <3>1 DEF Line
    <3>3. a \in 1..(row - 1) /\ \A b \in (a + 1)..(row - 1) : b \in (a + 1)..(row + 1 - 1)
      BY <1>1, <3>2
    <3> QED
      BY <3>1, <3>3 DEF InComment
  <2> QED
    BY <1>4, <2>1, <2>2 DEF CommentAfter
<1> QED
  BY <1>2, <1>3, <1>4

(* Blank lines after an item are passed over.                               *)
LEMMA BlanksSkipped ==
    ASSUME rust \in Seq(LineKinds), NEW n \in 1..(Len(rust) + 1)
    PROVE  /\ SkipBlank(n) \in n..(Len(rust) + 1)
           /\ \A j \in n..(SkipBlank(n) - 1) : rust[j] = "blank"
<1> DEFINE some == {k \in n..(Len(rust) + 1) : k <= Len(rust) => rust[k] # "blank"}
           Stops(k) == /\ \A j \in n..(k - 1) : rust[j] = "blank"
                       /\ k <= Len(rust) => rust[k] # "blank"
<1>1. Len(rust) \in Nat /\ some \in SUBSET Nat
  BY LenProperties
<1>2. Len(rust) + 1 \in some
  BY <1>1
<1>3. PICK k \in some : \A j \in some : k <= j
  <2> HIDE DEF some
  <2> QED
    BY <1>1, <1>2, LeastNatural
<1>4. \A j \in n..(k - 1) : rust[j] = "blank"
  <2> SUFFICES ASSUME NEW j \in n..(k - 1), rust[j] # "blank" PROVE FALSE
    OBVIOUS
  <2>1. j \in some /\ ~(k <= j)
    BY <1>1
  <2> QED
    BY <1>3, <2>1
<1>5. k \in n..(Len(rust) + 1) /\ Stops(k)
  BY <1>4
<1>6. SkipBlank(n) = CHOOSE i \in n..(Len(rust) + 1) : Stops(i)
  BY DEF SkipBlank
<1> HIDE DEF Stops
<1>7. SkipBlank(n) \in n..(Len(rust) + 1) /\ Stops(SkipBlank(n))
  BY <1>5, <1>6
<1> QED
  BY <1>7 DEF Stops

(* The braces of lines are counted in the file, which does not change.      *)
LEMMA SameFile ==
    ASSUME rust' = rust
    PROVE  /\ \A n : InComment(n)' <=> InComment(n)
           /\ \A ch : Whole(ch)' <=> Whole(ch)
           /\ \A a, z : Balance(a, z)' = Balance(a, z)
           /\ \A a, z : Braced(a, z)' <=> Braced(a, z)
           /\ \A a, z : StaysOpen(a, z)' <=> StaysOpen(a, z)
<1>1. Code' = Code
  BY DEF Code
<1>2. \A lines, kind : HowMany(lines, kind)' = HowMany(lines, kind)
  BY <1>1 DEF HowMany
<1>3. \A a, z : Balance(a, z)' = Balance(a, z) /\ (Braced(a, z)' <=> Braced(a, z))
  BY <1>2 DEF Balance, Braced
<1>4. \A a, z : StaysOpen(a, z)' <=> StaysOpen(a, z)
  BY <1>3 DEF StaysOpen
<1> QED
  BY <1>3, <1>4 DEF InComment, Whole

(* Lines with no brace stay open.                                           *)
LEMMA NoBraces ==
    ASSUME rust \in Seq(LineKinds), NEW a \in Nat \ {0}, NEW z \in Nat,
           \A n \in a..z : rust[n] \in {"doc", "blank"}
    PROVE  Balance(a, z) = 0 /\ ~Braced(a, z) /\ StaysOpen(a, z)
<1>1. ASSUME NEW m \in Int, m <= z PROVE Balance(a, m) = 0 /\ ~Braced(a, m)
  <2>1. \A n \in a..m : n \in a..z
    BY <1>1
  <2>2. \A n \in a..m : rust[n] # "open" /\ rust[n] # "close" /\ rust[n] # "both"
    BY <2>1
  <2>3. HowMany(a..m, "open") = 0 /\ HowMany(a..m, "close") = 0 /\ HowMany(a..m, "both") = 0
    BY <2>2, CountNone
  <2> QED
    BY <2>3 DEF Balance, Braced
<1> QED
  BY <1>1 DEF StaysOpen

(* Where an item starts, and that it has stayed open until its last line.   *)
LEMMA ItemSoFar ==
    ASSUME RustInv, Scanning, item \/ Line \notin {"doc", "blank"}
    PROVE  /\ from <= row
           /\ Balance(from, row - 1) = (IF item THEN depth ELSE 0)
           /\ Braced(from, row - 1) <=> (item /\ opened)
           /\ StaysOpen(from, row - 1)
<1>1. /\ rust \in Seq(LineKinds) /\ Len(rust) \in Nat /\ row \in 1..Len(rust)
      /\ from \in 1..(Len(rust) + 1) /\ item \in BOOLEAN /\ opened \in BOOLEAN /\ Scanned
  BY LenProperties DEF RustInv, RustTypeOK, Scanning
<1>2. CASE item
  BY <1>1, <1>2 DEF Scanned
<1>3. CASE ~item
  <2>1. \A n \in from..(row - 1) : rust[n] \in {"doc", "blank"}
    BY <1>1, <1>3 DEF Scanned
  <2>2. \A n \in row..(from - 1) : rust[n] = "blank"
    BY <1>1, <1>3 DEF Scanned
  <2>3. from <= row
    <3>1. row \notin row..(from - 1)
      BY <1>3, <2>2 DEF Line
    <3> QED
      BY <1>1, <3>1
  <2>4. Balance(from, row - 1) = 0 /\ ~Braced(from, row - 1) /\ StaysOpen(from, row - 1)
    <3>1. from \in Nat \ {0} /\ row - 1 \in Nat
      BY <1>1
    <3> QED
      BY <1>1, <2>1, <3>1, NoBraces
  <2> QED
    BY <1>3, <2>3, <2>4
<1> QED
  BY <1>2, <1>3

(* A line that leads an item.                                               *)
LEMMA LeadStep == RustInv /\ Lead => RustInv'
<1> SUFFICES ASSUME RustInv, Lead PROVE RustInv'
  OBVIOUS
<1>1. /\ rust' = rust /\ chunks' = chunks /\ item' = item /\ depth' = depth /\ opened' = opened
      /\ row' = row + 1 /\ comment' = CommentAfter(Line) /\ ~item /\ Line \in {"doc", "blank"}
      /\ from' = IF Line = "blank" /\ from = row THEN row + 1 ELSE from
      /\ row <= Len(rust)
  BY DEF Lead, Scanning
<1>2. /\ rust \in Seq(LineKinds) /\ Len(rust) \in Nat /\ row \in 1..Len(rust) /\ DOMAIN rust = 1..Len(rust)
      /\ from \in 1..(Len(rust) + 1) /\ item \in BOOLEAN /\ comment \in BOOLEAN
      /\ chunks \in Seq((1..Len(rust)) \X (1..Len(rust))) /\ depth \in Int /\ opened \in BOOLEAN
      /\ Scanned /\ (comment <=> InComment(row)) /\ \A c \in DOMAIN chunks : Whole(chunks[c])
      /\ InOrder(chunks, from)
      /\ \A n \in DOMAIN rust : n < from /\ rust[n] # "blank" => Covers(chunks, n)
  BY <1>1, LenProperties DEF RustInv, RustTypeOK
<1>3. from' \in 1..(Len(rust) + 1) /\ from <= from' /\ \A n \in from..(from' - 1) : n = row /\ rust[n] = "blank"
  BY <1>1, <1>2 DEF Line
<1>4. comment' \in BOOLEAN /\ (comment' <=> InComment(row + 1))
  BY <1>1, <1>2, CommentNext DEF CommentAfter
<1>5. RustTypeOK'
  BY <1>1, <1>2, <1>3, <1>4 DEF RustTypeOK
<1>6. InOrder(chunks, from')
  <2>1. \A c \in DOMAIN chunks : chunks[c][2] \in Int
    BY <1>2, ElementOfSeq
  <2> QED
    BY <1>2, <1>3, <2>1 DEF InOrder
<1>7. \A n \in DOMAIN rust : n < from' /\ rust[n] # "blank" => Covers(chunks, n)
  <2>1. \A n \in DOMAIN rust : n < from' => n < from \/ n \in from..(from' - 1)
    BY <1>2, <1>3
  <2> QED
    BY <1>2, <1>3, <2>1
<1>8. Scanned'
  <2>1. \A n \in from..(row - 1) : rust[n] \in {"doc", "blank"}
    BY <1>1, <1>2 DEF Scanned
  <2>2. \A n \in row..(from - 1) : rust[n] = "blank"
    BY <1>1, <1>2 DEF Scanned
  <2>3. \A n \in from'..(row' - 1) : rust'[n] \in {"doc", "blank"}
    <3>1. \A n \in from'..(row' - 1) : n = row \/ n \in from..(row - 1)
      BY <1>1, <1>2, <1>3
    <3> QED
      BY <1>1, <2>1, <3>1 DEF Line
  <2>4. \A n \in row'..(from' - 1) : rust'[n] = "blank"
    <3>1. \A n \in row'..(from' - 1) : n \in row..(from - 1)
      BY <1>1, <1>2
    <3> QED
      BY <1>1, <2>2, <3>1
  <2> QED
    BY <1>1, <2>3, <2>4 DEF Scanned
<1>9. (comment <=> InComment(row))' /\ (\A c \in DOMAIN chunks : Whole(chunks[c]))'
  <2>1. \A ch : Whole(ch)' <=> Whole(ch)
    BY <1>1, SameFile
  <2>2. (\A c \in DOMAIN chunks : Whole(chunks[c]))'
    BY <1>1, <1>2, <2>1
  <2>3. InComment(row)' <=> InComment(row + 1)
    BY <1>1 DEF InComment
  <2> QED
    BY <1>4, <2>2, <2>3
<1>10. InOrder(chunks, from)' /\ \A n \in DOMAIN rust' : n < from' /\ rust'[n] # "blank" => Covers(chunks, n)'
  BY <1>1, <1>6, <1>7 DEF InOrder, Covers
<1>11. row' <= Len(rust') + 1
  BY <1>1, <1>2
<1> QED
  BY <1>5, <1>8, <1>9, <1>10, <1>11, <1>1, <1>2 DEF RustInv

(* One chunk more.                                                          *)
LEMMA ChunkMore ==
    ASSUME rust \in Seq(LineKinds), chunks \in Seq((1..Len(rust)) \X (1..Len(rust))),
           NEW a \in 1..Len(rust), NEW z \in 1..Len(rust), NEW top \in Int, a <= z, z < top,
           InOrder(chunks, a)
    PROVE  LET more == Append(chunks, <<a, z>>)
           IN  /\ more \in Seq((1..Len(rust)) \X (1..Len(rust)))
               /\ Len(more) = Len(chunks) + 1 /\ more[Len(chunks) + 1] = <<a, z>>
               /\ \A c \in DOMAIN chunks : more[c] = chunks[c]
               /\ InOrder(more, top)
               /\ \A n : Covers(more, n) <=> Covers(chunks, n) \/ n \in a..z
<1> DEFINE more == Append(chunks, <<a, z>>)
           pairs == (1..Len(rust)) \X (1..Len(rust))
<1>1. Len(rust) \in Nat /\ <<a, z>> \in pairs
  BY LenProperties
<1>2. /\ more \in Seq(pairs) /\ Len(more) = Len(chunks) + 1 /\ more[Len(chunks) + 1] = <<a, z>>
      /\ DOMAIN chunks = 1..Len(chunks) /\ DOMAIN more = 1..(Len(chunks) + 1) /\ Len(chunks) \in Nat
      /\ \A c \in DOMAIN chunks : more[c] = chunks[c]
  <2> HIDE DEF pairs
  <2>1. chunks \in Seq(pairs)
    BY DEF pairs
  <2> QED
    BY <1>1, <2>1, AppendProperties, LenProperties
<1>3. \A c \in DOMAIN chunks : chunks[c][1] \in Int /\ chunks[c][2] \in Int
  BY <1>1, ElementOfSeq
<1> HIDE DEF more
<1>8. more[Len(chunks) + 1][1] = a /\ more[Len(chunks) + 1][2] = z
  BY <1>2
<1>4. \A c \in DOMAIN more : c \in DOMAIN chunks \/ c = Len(chunks) + 1
  BY <1>2
<1>5. InOrder(more, top)
  <2>1. \A c \in DOMAIN more : more[c][1] <= more[c][2] /\ more[c][2] < top
    <3>1. \A c \in DOMAIN chunks : chunks[c][1] <= chunks[c][2] /\ chunks[c][2] < top
      BY <1>1, <1>3 DEF InOrder
    <3>2. a <= z /\ z < top
      OBVIOUS
    <3> QED
      BY <1>2, <1>4, <1>8, <3>1, <3>2
  <2>2. ASSUME NEW c \in DOMAIN more, NEW d \in DOMAIN more, c < d
        PROVE  more[c][2] < more[d][1]
    <3>1. c \in DOMAIN chunks
      BY <1>2, <2>2
    <3>2. CASE d \in DOMAIN chunks
      BY <1>2, <2>2, <3>1, <3>2 DEF InOrder
    <3>3. CASE d = Len(chunks) + 1
      BY <1>2, <1>8, <3>1, <3>3 DEF InOrder
    <3> QED
      BY <1>4, <3>2, <3>3
  <2> QED
    BY <2>1, <2>2 DEF InOrder
<1>6. ASSUME NEW n
      PROVE  Covers(more, n) <=> Covers(chunks, n) \/ n \in a..z
  <2>1. ASSUME Covers(more, n) PROVE Covers(chunks, n) \/ n \in a..z
    BY <1>2, <1>4, <1>8, <2>1 DEF Covers
  <2>2. ASSUME Covers(chunks, n) PROVE Covers(more, n)
    BY <1>2, <2>2 DEF Covers
  <2>3. ASSUME n \in a..z PROVE Covers(more, n)
    <3>1. Len(chunks) + 1 \in DOMAIN more
      BY <1>2
    <3> QED
      BY <1>8, <2>3, <3>1 DEF Covers
  <2> QED
    BY <2>1, <2>2, <2>3
<1> QED
  BY <1>2, <1>5, <1>6 DEF more

(* A line of an item.                                                       *)
LEMMA InItemStep == RustInv /\ InItem => RustInv'
<1> SUFFICES ASSUME RustInv, InItem PROVE RustInv'
  OBVIOUS
<1> DEFINE d == (IF item THEN depth ELSE 0) + Braces(Line)
           seen == (item /\ opened) \/ HasOpen(Line)
           ends == IF seen THEN d <= 0 ELSE HasSemi(Line)
<1>1. /\ rust' = rust /\ row' = row + 1 /\ comment' = CommentAfter(Line)
      /\ item' = ~ends /\ depth' = d /\ opened' = seen
      /\ chunks' = IF ends THEN Append(chunks, <<from, row>>) ELSE chunks
      /\ from' = IF ends THEN SkipBlank(row + 1) ELSE from
      /\ Scanning /\ (item \/ Line \notin {"doc", "blank"})
  BY DEF InItem
<1>2. /\ rust \in Seq(LineKinds) /\ Len(rust) \in Nat /\ row \in 1..Len(rust) /\ DOMAIN rust = 1..Len(rust)
      /\ from \in 1..(Len(rust) + 1) /\ comment \in BOOLEAN
      /\ chunks \in Seq((1..Len(rust)) \X (1..Len(rust)))
      /\ (comment <=> InComment(row)) /\ \A c \in DOMAIN chunks : Whole(chunks[c])
      /\ InOrder(chunks, from)
      /\ \A n \in DOMAIN rust : n < from /\ rust[n] # "blank" => Covers(chunks, n)
  BY <1>1, LenProperties DEF RustInv, RustTypeOK, Scanning
<1>3. /\ from <= row /\ from \in 1..Len(rust)
      /\ Balance(from, row - 1) = (IF item THEN depth ELSE 0)
      /\ Braced(from, row - 1) <=> (item /\ opened)
      /\ StaysOpen(from, row - 1)
  BY <1>1, <1>2, ItemSoFar
<1>4. /\ Balance(from, row - 1) \in Int /\ Balance(from, row) = Balance(from, row - 1) + Braces(Line)
      /\ Braces(Line) \in Int
      /\ Braced(from, row) <=> Braced(from, row - 1) \/ HasOpen(Line)
      /\ ~Braced(from, row) => Balance(from, row) <= 0
  <2>1. from \in Nat \ {0}
    BY <1>2
  <2> QED
    BY <1>2, <1>3, <2>1, BracesNext
<1>5. d \in Int /\ d = Balance(from, row) /\ (seen <=> Braced(from, row))
  BY <1>3, <1>4
<1>6. HasSemi(Line) \in BOOLEAN /\ HasOpen(Line) \in BOOLEAN /\ seen \in BOOLEAN
  BY DEF HasSemi, HasOpen
<1> HIDE DEF d, seen
<1>7. (ends /\ seen => d <= 0) /\ (~ends /\ seen => ~(d <= 0))
  OBVIOUS
<1> HIDE DEF ends
<1>8. comment' \in BOOLEAN /\ (comment' <=> InComment(row + 1))
  BY <1>1, <1>2, CommentNext DEF CommentAfter
<1>9. (comment <=> InComment(row))' /\ row' <= Len(rust') + 1 /\ row' \in 1..(Len(rust') + 2)
  <2>1. InComment(row)' <=> InComment(row + 1)
    BY <1>1 DEF InComment
  <2> QED
    BY <1>1, <1>2, <1>8, <2>1
<1>10. CASE ends
  <2> DEFINE more == Append(chunks, <<from, row>>)
             next == SkipBlank(row + 1)
  <2>1. next \in (row + 1)..(Len(rust) + 1) /\ \A j \in (row + 1)..(next - 1) : rust[j] = "blank"
    <3>1. row + 1 \in 1..(Len(rust) + 1)
      BY <1>2
    <3> QED
      BY <1>2, <3>1, BlanksSkipped
  <2> HIDE DEF next
  <2>2. next \in Int /\ row < next /\ next \in 1..(Len(rust) + 1)
    BY <1>2, <2>1
  <2>3. /\ more \in Seq((1..Len(rust)) \X (1..Len(rust)))
        /\ Len(more) = Len(chunks) + 1 /\ more[Len(chunks) + 1] = <<from, row>>
        /\ \A c \in DOMAIN chunks : more[c] = chunks[c]
        /\ InOrder(more, next)
        /\ \A n : Covers(more, n) <=> Covers(chunks, n) \/ n \in from..row
    BY <1>2, <1>3, <2>2, ChunkMore
  <2>4. DOMAIN more = 1..(Len(chunks) + 1) /\ DOMAIN chunks = 1..Len(chunks) /\ Len(chunks) \in Nat
    BY <1>2, <2>3, LenProperties
  <2> HIDE DEF more
  <2>5. chunks' = more /\ from' = next /\ ~item'
    BY <1>1, <1>10 DEF more, next
  <2>6. Whole(<<from, row>>)
    <3>1. Balance(from, row) <= 0
      BY <1>4, <1>5, <1>7, <1>10
    <3> QED
      BY <1>3, <3>1 DEF Whole
  <2>7. \A c \in DOMAIN more : Whole(more[c])
    <3>1. \A c \in DOMAIN more : c \in DOMAIN chunks \/ c = Len(chunks) + 1
      BY <2>4
    <3>2. Whole(more[Len(chunks) + 1])
      BY <2>3, <2>6
    <3>3. \A c \in DOMAIN chunks : Whole(more[c])
      BY <1>2, <2>3
    <3> QED
      BY <3>1, <3>2, <3>3
  <2>8. \A n \in DOMAIN rust : n < next /\ rust[n] # "blank" => Covers(more, n)
    <3>1. \A n \in DOMAIN rust : n < next => n < from \/ n \in from..row \/ n \in (row + 1)..(next - 1)
      BY <1>2, <1>3, <2>1
    <3> QED
      BY <1>2, <2>1, <2>3, <3>1
  <2>9. RustTypeOK'
    BY <1>1, <1>2, <1>5, <1>6, <1>7, <1>8, <1>9, <2>2, <2>3, <2>5 DEF RustTypeOK
  <2>10. (\A c \in DOMAIN chunks : Whole(chunks[c]))'
    <3>1. \A ch : Whole(ch)' <=> Whole(ch)
      BY <1>1, SameFile
    <3> QED
      BY <2>5, <2>7, <3>1
  <2>11. Scanned'
    <3>1. \A n \in from'..(row' - 1) : rust'[n] \in {"doc", "blank"}
      BY <1>1, <1>2, <2>2, <2>5
    <3>2. \A n \in row'..(from' - 1) : rust'[n] = "blank"
      BY <1>1, <2>1, <2>5
    <3> QED
      BY <2>5, <3>1, <3>2 DEF Scanned
  <2>12. InOrder(chunks, from)' /\ (\A n \in DOMAIN rust : n < from /\ rust[n] # "blank" => Covers(chunks, n))'
    BY <1>1, <2>3, <2>5, <2>8 DEF InOrder, Covers
  <2>13. ~(row' > Len(rust') + 1)
    BY <1>1, <1>2
  <2> QED
    BY <1>9, <2>9, <2>10, <2>11, <2>12, <2>13 DEF RustInv
<1>11. CASE ~ends
  <2>1. chunks' = chunks /\ from' = from /\ item'
    BY <1>1, <1>11
  <2>2. StaysOpen(from, row)
    <3>1. \A m \in from..row : m = row \/ m \in from..(row - 1)
      BY <1>2
    <3>2. Braced(from, row) => Balance(from, row) > 0
      BY <1>5, <1>7, <1>11
    <3> QED
      BY <1>3, <3>1, <3>2 DEF StaysOpen
  <2>3. Balance(from, row - 1)' = Balance(from, row) /\ (Braced(from, row - 1)' <=> Braced(from, row))
        /\ (StaysOpen(from, row - 1)' <=> StaysOpen(from, row))
    <3>1. /\ \A a, z : Balance(a, z)' = Balance(a, z)
          /\ \A a, z : Braced(a, z)' <=> Braced(a, z)
          /\ \A a, z : StaysOpen(a, z)' <=> StaysOpen(a, z)
      BY <1>1, SameFile
    <3>2. from' = from /\ row' - 1 = row
      BY <1>1, <1>2, <2>1
    <3> QED
      BY <3>1, <3>2
  <2>4. Scanned'
    <3>1. from' < row' /\ depth' = Balance(from, row) /\ (opened' <=> Braced(from, row))
      BY <1>1, <1>2, <1>3, <1>5, <2>1
    <3> QED
      BY <2>1, <2>2, <2>3, <3>1 DEF Scanned
  <2>5. RustTypeOK'
    BY <1>1, <1>2, <1>5, <1>6, <1>7, <1>8, <1>9, <2>1 DEF RustTypeOK
  <2>6. (\A c \in DOMAIN chunks : Whole(chunks[c]))'
    <3>1. \A ch : Whole(ch)' <=> Whole(ch)
      BY <1>1, SameFile
    <3> QED
      BY <1>2, <2>1, <3>1
  <2>7. InOrder(chunks, from)' /\ (\A n \in DOMAIN rust : n < from /\ rust[n] # "blank" => Covers(chunks, n))'
    BY <1>1, <1>2, <2>1 DEF InOrder, Covers
  <2>8. ~(row' > Len(rust') + 1)
    BY <1>1, <1>2
  <2> QED
    BY <1>9, <2>4, <2>5, <2>6, <2>7, <2>8 DEF RustInv
<1> QED
  BY <1>10, <1>11

(* The last lines.                                                          *)
LEMMA TrailStep == RustInv /\ Trail => RustInv'
<1> SUFFICES ASSUME RustInv, Trail PROVE RustInv'
  OBVIOUS
<1> DEFINE left == \E n \in from..Len(rust) : rust[n] # "blank"
<1>1. /\ rust' = rust /\ row = Len(rust) + 1 /\ row' = row + 1 /\ comment' = comment
      /\ item' = item /\ depth' = depth /\ opened' = opened
      /\ chunks' = IF left THEN Append(chunks, <<from, Len(rust)>>) ELSE chunks
      /\ from' = Len(rust) + 1
  BY DEF Trail
<1>2. /\ rust \in Seq(LineKinds) /\ Len(rust) \in Nat /\ DOMAIN rust = 1..Len(rust)
      /\ from \in 1..(Len(rust) + 1) /\ comment \in BOOLEAN
      /\ item \in BOOLEAN /\ opened \in BOOLEAN /\ depth \in Int
      /\ chunks \in Seq((1..Len(rust)) \X (1..Len(rust)))
      /\ \A c \in DOMAIN chunks : Whole(chunks[c])
      /\ InOrder(chunks, from)
      /\ \A n \in DOMAIN rust : n < from /\ rust[n] # "blank" => Covers(chunks, n)
  BY <1>1, LenProperties DEF RustInv, RustTypeOK
<1>3. DOMAIN chunks = 1..Len(chunks) /\ Len(chunks) \in Nat
  BY <1>2, LenProperties
<1>4. \A ch : Whole(ch)' <=> Whole(ch)
  BY <1>1, SameFile
<1>5. /\ chunks' \in Seq((1..Len(rust)) \X (1..Len(rust)))
      /\ InOrder(chunks', Len(rust) + 1)
      /\ \A n \in DOMAIN rust : rust[n] # "blank" => Covers(chunks', n)
      /\ \A c \in 1..(Len(chunks') - 1) : Whole(chunks'[c])
  <2>1. CASE left
    <3> DEFINE more == Append(chunks, <<from, Len(rust)>>)
    <3>1. from \in 1..Len(rust) /\ Len(rust) \in 1..Len(rust) /\ from <= Len(rust)
          /\ Len(rust) + 1 \in Int /\ Len(rust) < Len(rust) + 1
      BY <1>2, <2>1
    <3>2. /\ more \in Seq((1..Len(rust)) \X (1..Len(rust)))
          /\ Len(more) = Len(chunks) + 1
          /\ \A c \in DOMAIN chunks : more[c] = chunks[c]
          /\ InOrder(more, Len(rust) + 1)
          /\ \A n : Covers(more, n) <=> Covers(chunks, n) \/ n \in from..Len(rust)
      BY <1>2, <3>1, ChunkMore
    <3> HIDE DEF more
    <3>3. chunks' = more
      BY <1>1, <2>1 DEF more
    <3>4. \A n \in DOMAIN rust : rust[n] # "blank" => Covers(more, n)
      <4>1. \A n \in DOMAIN rust : n < from \/ n \in from..Len(rust)
        BY <1>2
      <4> QED
        BY <1>2, <3>2, <4>1
    <3>5. \A c \in 1..(Len(more) - 1) : Whole(more[c])
      <4>1. \A c \in 1..(Len(more) - 1) : c \in DOMAIN chunks
        BY <1>3, <3>2
      <4>2. \A c \in DOMAIN chunks : Whole(more[c])
        BY <1>2, <3>2
      <4> QED
        BY <4>1, <4>2
    <3> QED
      BY <3>2, <3>3, <3>4, <3>5
  <2>2. CASE ~left
    <3>1. chunks' = chunks
      BY <1>1, <2>2
    <3>2. \A c \in 1..(Len(chunks) - 1) : Whole(chunks[c])
      <4>1. \A c \in 1..(Len(chunks) - 1) : c \in DOMAIN chunks
        BY <1>3
      <4> QED
        BY <1>2, <4>1
    <3>3. InOrder(chunks, Len(rust) + 1)
      <4>1. \A c \in DOMAIN chunks : chunks[c][2] \in Int
        BY <1>2, ElementOfSeq
      <4> QED
        BY <1>2, <4>1 DEF InOrder
    <3>4. \A n \in DOMAIN rust : rust[n] # "blank" => n < from
      BY <1>2, <2>2
    <3> QED
      BY <1>2, <3>1, <3>2, <3>3, <3>4
  <2> QED
    BY <2>1, <2>2
<1>6. RustTypeOK'
  BY <1>1, <1>2, <1>5 DEF RustTypeOK
<1>7. InOrder(chunks, from)' /\ (\A n \in DOMAIN rust : n < from /\ rust[n] # "blank" => Covers(chunks, n))'
  BY <1>1, <1>5 DEF InOrder, Covers
<1>8. (\A c \in 1..(Len(chunks) - 1) : Whole(chunks[c]))'
  BY <1>4, <1>5
<1>9. ~(row' <= Len(rust') + 1) /\ (from = Len(rust) + 1)'
  BY <1>1, <1>2
<1> QED
  BY <1>6, <1>7, <1>8, <1>9 DEF RustInv

(* The scan keeps the invariant: the chunks found are whole and in order,   *)
(* they have every line before the next chunk, and the state of the loop is *)
(* what the lines of the open item amount to. (chunk_rust)                  *)
THEOREM RustInductive == RustSpec => []RustInv
<1>1. ASSUME RustInit PROVE RustInv
  <2>1. PICK n \in 0..MaxRustLines : rust \in [1..n -> LineKinds]
    BY <1>1 DEF RustInit
  <2>2. rust \in Seq(LineKinds) /\ Len(rust) = n /\ n \in Nat /\ DOMAIN rust = 1..n
    BY <2>1, RustChunksAssumption
  <2>3. /\ row = 1 /\ from = 1 /\ item = FALSE /\ depth = 0 /\ opened = FALSE
        /\ comment = FALSE /\ chunks = <<>>
    BY <1>1 DEF RustInit
  <2>4. RustTypeOK
    <3>1. 1 \in 1..(n + 1) /\ 1 \in 1..(n + 2)
      BY <2>2
    <3>2. chunks \in Seq((1..Len(rust)) \X (1..Len(rust)))
      BY <2>3
    <3>3. row \in 1..(Len(rust) + 2) /\ from \in 1..(Len(rust) + 1)
      BY <2>2, <2>3, <3>1
    <3>4. item \in BOOLEAN /\ opened \in BOOLEAN /\ comment \in BOOLEAN
      BY <2>3, Zenon
    <3>5. depth \in Int
      BY <2>3
    <3> QED
      BY <2>2, <3>2, <3>3, <3>4, <3>5 DEF RustTypeOK
  <2>5. ~InComment(row) /\ Scanned
    BY <2>3 DEF InComment, Scanned
  <2>6. InOrder(chunks, from) /\ \A c \in DOMAIN chunks : Whole(chunks[c])
    BY <2>3 DEF InOrder
  <2> QED
    BY <2>2, <2>3, <2>4, <2>5, <2>6 DEF RustInv
<1>2. RustInv /\ [RustNext]_rustVars => RustInv'
  <2>1. ASSUME RustInv, UNCHANGED rustVars PROVE RustInv'
    <3>1. /\ rust' = rust /\ row' = row /\ from' = from /\ item' = item /\ depth' = depth
          /\ opened' = opened /\ comment' = comment /\ chunks' = chunks
      BY <2>1 DEF rustVars
    <3>2. RustTypeOK' /\ InOrder(chunks, from)'
      BY <2>1, <3>1 DEF RustInv, RustTypeOK, InOrder
    <3>3. (\A n \in DOMAIN rust : n < from /\ rust[n] # "blank" => Covers(chunks, n))'
      BY <2>1, <3>1 DEF RustInv, Covers
    <3>4. (row <= Len(rust) + 1 => (comment <=> InComment(row)))'
      BY <2>1, <3>1 DEF RustInv, InComment
    <3>5. /\ \A a, z : Balance(a, z)' = Balance(a, z)
          /\ \A a, z : Braced(a, z)' <=> Braced(a, z)
          /\ \A a, z : StaysOpen(a, z)' <=> StaysOpen(a, z)
          /\ \A ch : Whole(ch)' <=> Whole(ch)
      BY <3>1, SameFile
    <3>6. (row <= Len(rust) + 1 => Scanned)'
      BY <2>1, <3>1, <3>5 DEF RustInv, Scanned
    <3>7. (row <= Len(rust) + 1 => \A c \in DOMAIN chunks : Whole(chunks[c]))'
      BY <2>1, <3>1, <3>5 DEF RustInv
    <3>8. (row > Len(rust) + 1 =>
             from = Len(rust) + 1 /\ \A c \in 1..(Len(chunks) - 1) : Whole(chunks[c]))'
      BY <2>1, <3>1, <3>5 DEF RustInv
    <3> QED
      BY <3>2, <3>3, <3>4, <3>6, <3>7, <3>8 DEF RustInv
  <2> QED
    BY <2>1, LeadStep, InItemStep, TrailStep DEF RustNext
<1> QED
  BY <1>1, <1>2, PTL DEF RustSpec

(* The variables of the scan have their types.                              *)
THEOREM RustTypesHold == RustSpec => []RustTypeOK
<1>1. RustInv => RustTypeOK
  BY DEF RustInv
<1> QED
  BY <1>1, RustInductive, PTL

(* Every line that is not blank is in exactly one chunk, and a chunk but    *)
(* the last that has braces has them closed by its last line and no sooner. *)
(* (chunk_rust)                                                             *)
THEOREM BracesStayTogether == RustSpec => []NoCutInsideBraces
<1>1. RustInv => NoCutInsideBraces
  <2> SUFFICES ASSUME RustInv, row > Len(rust) + 1
               PROVE  /\ \A n \in DOMAIN rust : rust[n] # "blank" =>
                           Cardinality({c \in DOMAIN chunks : n \in chunks[c][1]..chunks[c][2]}) = 1
                      /\ \A c \in 1..(Len(chunks) - 1) :
                           /\ chunks[c][2] < chunks[c + 1][1]
                           /\ Balance(chunks[c][1], chunks[c][2]) <= 0
                           /\ \A m \in chunks[c][1]..(chunks[c][2] - 1) :
                                Braced(chunks[c][1], m) => Balance(chunks[c][1], m) > 0
    BY DEF NoCutInsideBraces, Balance, Braced
  <2>1. /\ rust \in Seq(LineKinds) /\ Len(rust) \in Nat /\ DOMAIN rust = 1..Len(rust)
        /\ chunks \in Seq((1..Len(rust)) \X (1..Len(rust)))
        /\ DOMAIN chunks = 1..Len(chunks) /\ Len(chunks) \in Nat
        /\ InOrder(chunks, from) /\ from = Len(rust) + 1
        /\ \A c \in 1..(Len(chunks) - 1) : Whole(chunks[c])
        /\ \A n \in DOMAIN rust : n < from /\ rust[n] # "blank" => Covers(chunks, n)
    BY LenProperties DEF RustInv, RustTypeOK
  <2>2. \A c \in DOMAIN chunks : chunks[c][1] \in Int /\ chunks[c][2] \in Int
    BY <2>1, ElementOfSeq
  <2>3. ASSUME NEW n \in DOMAIN rust, rust[n] # "blank"
        PROVE  Cardinality({c \in DOMAIN chunks : n \in chunks[c][1]..chunks[c][2]}) = 1
    <3>1. n < from
      BY <2>1
    <3>2. PICK k \in DOMAIN chunks : n \in chunks[k][1]..chunks[k][2]
      BY <2>1, <2>3, <3>1 DEF Covers
    <3>3. ASSUME NEW c \in DOMAIN chunks, n \in chunks[c][1]..chunks[c][2]
          PROVE  c = k
      <4>1. ~(c < k) /\ ~(k < c)
        BY <2>1, <2>2, <3>2, <3>3 DEF InOrder
      <4> QED
        BY <2>1, <4>1
    <3>4. {c \in DOMAIN chunks : n \in chunks[c][1]..chunks[c][2]} = {k}
      BY <3>2, <3>3
    <3> QED
      BY <3>4, FS_Singleton
  <2>4. ASSUME NEW c \in 1..(Len(chunks) - 1)
        PROVE  /\ chunks[c][2] < chunks[c + 1][1]
               /\ Balance(chunks[c][1], chunks[c][2]) <= 0
               /\ \A m \in chunks[c][1]..(chunks[c][2] - 1) :
                    Braced(chunks[c][1], m) => Balance(chunks[c][1], m) > 0
    <3>1. c \in DOMAIN chunks /\ c + 1 \in DOMAIN chunks /\ c < c + 1
      BY <2>1
    <3>2. chunks[c][2] < chunks[c + 1][1]
      BY <2>1, <3>1 DEF InOrder
    <3> QED
      BY <2>1, <3>2 DEF Whole, StaysOpen
  <2> QED
    BY <2>3, <2>4
<1> QED
  BY <1>1, RustInductive, PTL
=============================================================================
