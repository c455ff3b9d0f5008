------------------------------ MODULE TextChunks ------------------------------
(* chunk_generic of agent/indexer.py: a file that is not Rust is cut at its *)
(* headers and blank lines into sections, small sections are merged and     *)
(* long ones split. All lines have the same length here. One step is one    *)
(* turn of the loop over the sections.                                      *)
EXTENDS Integers, Sequences, FiniteSets

CONSTANTS
    ChunkLines,     \* lines that fit into a chunk (target_chars)
    MaxSections, MaxSectionLines    \* bounds of the model on a file

ASSUME TextChunksAssumption ==
    ChunkLines \in Nat \ {0} /\ MaxSections \in Nat /\ MaxSectionLines \in Nat

VARIABLES
    ahead,      \* the sections to come: blank lines before them, lines of them
    last,       \* the last line of the section before
    texts,      \* history: the lines read that are not blank
    buf,        \* the lines merged so far, 0 for a blank one between
    bufStart,   \* where they are said to start
    pieces      \* the chunks: their lines, and the first and last they are said to be

textVars == <<ahead, last, texts, buf, bufStart, pieces>>

(* A header begins a section without a blank line before it.                *)
Section == [blank : 0..1, lines : 1..MaxSectionLines]

Here == Head(ahead)
First == last + Here.blank + 1
Numbers(from, n) == [i \in 1..n |-> from + i - 1]

Piece(lines, from) ==
    [lines |-> {lines[i] : i \in DOMAIN lines} \ {0}, from |-> from, to |-> from + Len(lines) - 1]

Flushed == IF buf = <<>> THEN pieces ELSE Append(pieces, Piece(buf, bufStart))

Fits == Cardinality({i \in DOMAIN buf : buf[i] # 0}) + Here.lines <= ChunkLines

-----------------------------------------------------------------------------
TextInit ==
    /\ ahead \in UNION {[1..n -> Section] : n \in 0..MaxSections}
    /\ last = 0 /\ texts = {} /\ buf = <<>> /\ bufStart = 0 /\ pieces = <<>>

Read ==
    /\ ahead # <<>> /\ ahead' = Tail(ahead)
    /\ last' = First + Here.lines - 1 /\ texts' = texts \cup (First..(First + Here.lines - 1))

(* Only before the first chunk is the start of the merged lines noted here. *)
MergeSection ==
    /\ Read /\ Fits
    /\ buf' = buf \o (IF buf = <<>> THEN <<>> ELSE <<0>>) \o Numbers(First, Here.lines)
    /\ bufStart' = IF pieces = <<>> /\ bufStart = 0 THEN First ELSE bufStart
    /\ UNCHANGED pieces

BeginBuffer ==
    /\ Read /\ ~Fits /\ Here.lines <= ChunkLines
    /\ pieces' = Flushed
    /\ buf' = Numbers(First, Here.lines) /\ bufStart' = First

Parts_Whole ==
    [k \in 1..(Here.lines \div ChunkLines) |->
       Piece(Numbers(First + (k - 1) * ChunkLines, ChunkLines), First + (k - 1) * ChunkLines)]

(* The parts of a long section are said to have a line between them.        *)
Parts ==
    [k \in 1..((Here.lines + ChunkLines - 1) \div ChunkLines) |->
       LET passed == (k - 1) * ChunkLines
           n == IF Here.lines - passed < ChunkLines THEN Here.lines - passed ELSE ChunkLines
       IN  Piece(Numbers(First + passed, n), First + passed + k - 1)]

SplitSection ==
    /\ Read /\ ~Fits /\ Here.lines > ChunkLines
    /\ pieces' = Flushed \o Parts
    /\ buf' = <<>> /\ bufStart' = 0

FlushRest ==
    /\ ahead = <<>> /\ buf # <<>>
    /\ pieces' = Flushed /\ buf' = <<>>
    /\ UNCHANGED <<ahead, last, texts, bufStart>>

TextNext == MergeSection \/ BeginBuffer \/ SplitSection \/ FlushRest

TextSpec == TextInit /\ [][TextNext]_textVars

-----------------------------------------------------------------------------

TextTypeOK ==
    /\ ahead \in Seq(Section) /\ last \in Nat /\ bufStart \in Nat
    /\ buf \in Seq(Nat) /\ texts \subseteq 1..last
    /\ \A c \in DOMAIN pieces : pieces[c].lines \subseteq 1..last

(* Merging and splitting lose and repeat nothing: a line that was read and  *)
(* is not blank is in exactly one chunk or waits to be, and no chunk has    *)
(* more lines than fit. (indexer.py 294)                                    *)
TextIsKept ==
    LET waiting == {buf[i] : i \in DOMAIN buf} \ {0}
        in(n) == {c \in DOMAIN pieces : n \in pieces[c].lines}
    IN  /\ \A c \in DOMAIN pieces : Cardinality(pieces[c].lines) \in 1..ChunkLines
        /\ waiting \subseteq texts
        /\ \A n \in 1..last : Cardinality(in(n)) = IF n \in texts \ waiting THEN 1 ELSE 0
        /\ \A c \in 1..(Len(pieces) - 1) : \A m \in pieces[c].lines, n \in pieces[c + 1].lines : m < n

(* indexer.py 68: "1-indexed inclusive". A chunk says where it starts.      *)
ChunksSayWhereTheyStart ==
    \A c \in DOMAIN pieces :
        pieces[c].from \in pieces[c].lines /\ \A n \in pieces[c].lines : pieces[c].from <= n
=============================================================================
