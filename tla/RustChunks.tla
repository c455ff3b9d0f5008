------------------------------ MODULE RustChunks ------------------------------
(* chunk_rust of agent/indexer.py: a Rust file is cut into its top-level    *)
(* items for the search index, by counting braces. One step is one turn of  *)
(* the loop over the lines.                                                 *)
EXTENDS Integers, Sequences, FiniteSets

CONSTANT MaxRustLines   \* bound of the model on a file

ASSUME RustChunksAssumption == MaxRustLines \in Nat

VARIABLES
    rust,       \* the lines of the file
    row,        \* the line the loop is at
    from,       \* where the next chunk starts
    item,       \* the loop is in an item, its leading comments passed
    depth, opened,  \* braces of the item that are open; one was seen
    comment,    \* a block comment is open
    chunks      \* the chunks found, pairs of a first and a last line

rustVars == <<rust, row, from, item, depth, opened, comment, chunks>>

(* What a line is to the scanner, strings and characters blanked out: its   *)
(* braces, a `;`, nothing of these, or an end of a block comment. A doc line*)
(* is also an attribute.                                                    *)
LineKinds == {"blank", "doc", "open", "close", "both", "semi", "plain", "/*", "*/"}

(* Braces and semicolons in a block comment do not count.                   *)
Braces(line) == IF comment THEN 0 ELSE
                CASE line = "open" -> 1 [] line = "close" -> -1 [] OTHER -> 0

HasOpen(line) == ~comment /\ line \in {"open", "both"}
HasSemi(line) == ~comment /\ line = "semi"

CommentAfter(line) == CASE line = "/*" -> TRUE [] line = "*/" -> FALSE [] OTHER -> comment

-----------------------------------------------------------------------------
RustInit ==
    /\ rust \in UNION {[1..n -> LineKinds] : n \in 0..MaxRustLines}
    /\ row = 1 /\ from = 1
    /\ item = FALSE /\ depth = 0 /\ opened = FALSE /\ comment = FALSE
    /\ chunks = <<>>

Scanning == row <= Len(rust)
Line == rust[row]

(* The comments, attributes and blank lines before an item.                 *)
Lead ==
    /\ Scanning /\ ~item /\ Line \in {"doc", "blank"}
    /\ row' = row + 1 /\ comment' = CommentAfter(Line)
    /\ from' = IF Line = "blank" /\ from = row THEN row + 1 ELSE from
    /\ UNCHANGED <<rust, item, depth, opened, chunks>>

SkipBlank_None(n) == n - 1

SkipBlank_OneMore(n) == n + 1

(* Blank lines after an item belong to nothing.                             *)
SkipBlank(n) ==
    CHOOSE k \in n..(Len(rust) + 1) :
        /\ \A j \in n..(k - 1) : rust[j] = "blank"
        /\ k <= Len(rust) => rust[k] # "blank"

(* Any other line is in an item, or begins one. It ends it if it closes its *)
(* last brace, or has a semicolon and no brace was seen.                    *)
InItem ==
    LET d == (IF item THEN depth ELSE 0) + Braces(Line)
        seen == (item /\ opened) \/ HasOpen(Line)
        ends == IF seen THEN d <= 0 ELSE HasSemi(Line)
    IN  /\ Scanning /\ (item \/ Line \notin {"doc", "blank"})
        /\ row' = row + 1 /\ comment' = CommentAfter(Line)
        /\ item' = ~ends /\ depth' = d /\ opened' = seen
        /\ chunks' = IF ends THEN Append(chunks, <<from, row>>) ELSE chunks
        /\ from' = IF ends THEN SkipBlank(row + 1) ELSE from
        /\ UNCHANGED rust

(* What is left over is a chunk, unless it is blank.                        *)
Trail ==
    /\ row = Len(rust) + 1 /\ row' = row + 1
    /\ chunks' = IF \E n \in from..Len(rust) : rust[n] # "blank"
                 THEN Append(chunks, <<from, Len(rust)>>) ELSE chunks
    /\ from' = Len(rust) + 1
    /\ UNCHANGED <<rust, item, depth, opened, comment>>

RustNext == Lead \/ InItem \/ Trail

RustSpec == RustInit /\ [][RustNext]_rustVars

-----------------------------------------------------------------------------

RustTypeOK ==
    /\ rust \in Seq(LineKinds)
    /\ row \in 1..(Len(rust) + 2) /\ from \in 1..(Len(rust) + 1)
    /\ item \in BOOLEAN /\ opened \in BOOLEAN /\ comment \in BOOLEAN /\ depth \in Int
    /\ chunks \in Seq((1..Len(rust)) \X (1..Len(rust)))

(* The lines of a file that are not in a block comment.                     *)
Code ==
    {n \in DOMAIN rust :
        ~ \E a \in 1..(n - 1) : rust[a] = "/*" /\ \A b \in (a + 1)..(n - 1) : rust[b] # "*/"}

HowMany(lines, kind) == Cardinality({n \in lines \cap Code : rust[n] = kind})

(* Nested blocks never cause a split, and no line is lost or repeated: each *)
(* line that is not blank is in exactly one chunk, chunks are in order, and *)
(* a chunk but the last leaves no brace open, nor any of its beginnings that*)
(* has a brace all closed, whatever braces block comments have. Where a `;` *)
(* may end a chunk before any brace is not said. (indexer.py 162)           *)
NoCutInsideBraces ==
    row > Len(rust) + 1 =>
        /\ \A n \in DOMAIN rust : rust[n] # "blank" =>
             Cardinality({c \in DOMAIN chunks : n \in chunks[c][1]..chunks[c][2]}) = 1
        /\ \A c \in 1..(Len(chunks) - 1) :
             LET Open(last) == HowMany(chunks[c][1]..last, "open") - HowMany(chunks[c][1]..last, "close")
                 Seen(last) == HowMany(chunks[c][1]..last, "open") + HowMany(chunks[c][1]..last, "both") > 0
             IN  /\ chunks[c][2] < chunks[c + 1][1]
                 /\ Open(chunks[c][2]) <= 0
                 /\ \A last \in chunks[c][1]..(chunks[c][2] - 1) : Seen(last) => Open(last) > 0

(* What indexer.py 165 says: a chunk ends only where its braces, opened once*)
(* at least, are closed. A line with a `;` and no brace ends it too, also   *)
(* in the middle of a signature, as [u8; 32] on a line of its own does.     *)
ChunksEndAtTheirBrace ==
    row > Len(rust) + 1 =>
        \A c \in 1..(Len(chunks) - 1) :
            HowMany(chunks[c][1]..chunks[c][2], "open") + HowMany(chunks[c][1]..chunks[c][2], "both") > 0
=============================================================================
