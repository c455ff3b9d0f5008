--------------------------- MODULE MemoryApproval ---------------------------
(* Approval of what the assistant remembers: /memory approve and reject of  *)
(* agent/cli/commands/memory.py, store of agent/memory_providers.py. Two    *)
(* files of JSON lines, read whole, emptied and written whole, by any       *)
(* number of processes and without a lock.                                  *)
EXTENDS Absent, Naturals, Sequences

CONSTANTS
    Reviewers,      \* processes of the tool
    Items           \* what may be remembered; each comes up once

Commands == [pc : {"emptyPending", "fillPending", "readApproved", "emptyApproved", "fillApproved"},
             does : {"approve", "reject", "store"}, item : Items, lines : Seq(Items)]

ASSUME MemoryAssumption == None \notin Commands

VARIABLES
    pending, approved,  \* the items of the two files, in order
    work,       \* per process the command it is at, [pc, does, item, lines]
    fate,       \* history: per item "new", "known", "rejected" or "lost"
    overlap     \* history: commands of two processes ran at the same time

memoryVars == <<pending, approved, work, fate, overlap>>

Holds(file, i) == \E n \in DOMAIN file : file[n] = i

(* list.remove takes out the first of them.                                 *)
Without(file, i) ==
    LET first == CHOOSE n \in DOMAIN file : file[n] = i /\ \A m \in 1..(n - 1) : file[m] # i
    IN  SubSeq(file, 1, first - 1) \o SubSeq(file, first + 1, Len(file))

MemoryInit ==
    /\ pending = <<>> /\ approved = <<>>
    /\ work = [p \in Reviewers |-> None]
    /\ fate = [i \in Items |-> "new"]
    /\ overlap = FALSE

Begin(p, pc, does, i, lines) ==
    /\ work[p] = None
    /\ work' = [work EXCEPT ![p] = [pc |-> pc, does |-> does, item |-> i, lines |-> lines]]
    /\ overlap' = (overlap \/ \E q \in Reviewers : work[q] # None)

(* What extracts memories from a conversation is not in the repository; it  *)
(* is taken to append them.                                                 *)
Propose(i) ==
    /\ fate[i] = "new" /\ fate' = [fate EXCEPT ![i] = "known"]
    /\ pending' = Append(pending, i)
    /\ overlap' = (overlap \/ \E q \in Reviewers : work[q] # None)
    /\ UNCHANGED <<approved, work>>

(* Both commands read the pending items, and give up without the item.      *)
Review(p, i, does) ==
    /\ Holds(pending, i)
    /\ Begin(p, "emptyPending", does, i, Without(pending, i))
    /\ UNCHANGED <<pending, approved, fate>>

Store(p, i) ==
    /\ fate[i] = "new" /\ fate' = [fate EXCEPT ![i] = "known"]
    /\ Begin(p, "emptyApproved", "store", i, Append(approved, i))
    /\ UNCHANGED <<pending, approved>>

Working(p, pc) == work[p] # None /\ work[p].pc = pc

EmptyPending(p) ==
    /\ Working(p, "emptyPending")
    /\ pending' = <<>>
    /\ work' = [work EXCEPT ![p].pc = "fillPending"]
    /\ UNCHANGED <<approved, fate, overlap>>

FillPending_KeepsItem(p) ==
    /\ Working(p, "fillPending")
    /\ pending' = Append(work[p].lines, work[p].item)
    /\ IF work[p].does = "approve"
       THEN /\ work' = [work EXCEPT ![p].pc = "readApproved"]
            /\ UNCHANGED fate
       ELSE /\ work' = [work EXCEPT ![p] = None]
            /\ fate' = [fate EXCEPT ![work[p].item] = "rejected"]
    /\ UNCHANGED <<approved, overlap>>

(* The item is in neither file now until approved is written.               *)
FillPending(p) ==
    /\ Working(p, "fillPending")
    /\ pending' = work[p].lines
    /\ IF work[p].does = "approve"
       THEN /\ work' = [work EXCEPT ![p].pc = "readApproved"]
            /\ UNCHANGED fate
       ELSE /\ work' = [work EXCEPT ![p] = None]
            /\ fate' = [fate EXCEPT ![work[p].item] = "rejected"]
    /\ UNCHANGED <<approved, overlap>>

ReadApproved(p) ==
    /\ Working(p, "readApproved")
    /\ work' = [work EXCEPT ![p].pc = "emptyApproved",
                            ![p].lines = Append(approved, work[p].item)]
    /\ UNCHANGED <<pending, approved, fate, overlap>>

EmptyApproved(p) ==
    /\ Working(p, "emptyApproved")
    /\ approved' = <<>>
    /\ work' = [work EXCEPT ![p].pc = "fillApproved"]
    /\ UNCHANGED <<pending, fate, overlap>>

FillApproved(p) ==
    /\ Working(p, "fillApproved")
    /\ approved' = work[p].lines
    /\ work' = [work EXCEPT ![p] = None]
    /\ UNCHANGED <<pending, fate, overlap>>

(* The process is killed, and with it goes what only it had: the file it    *)
(* emptied, and the item it was moving.                                     *)
Killed(p) ==
    /\ work[p] # None
    /\ work' = [work EXCEPT ![p] = None]
    /\ fate' = [i \in Items |->
                  IF fate[i] = "known" /\ ~Holds(pending, i) /\ ~Holds(approved, i)
                     /\ (Holds(work[p].lines, i) \/ work[p].item = i)
                  THEN "lost" ELSE fate[i]]
    /\ UNCHANGED <<pending, approved, overlap>>

MemoryNext ==
    \/ \E i \in Items : Propose(i)
    \/ \E p \in Reviewers :
         \/ \E i \in Items : Store(p, i) \/ \E does \in {"approve", "reject"} : Review(p, i, does)
         \/ EmptyPending(p) \/ FillPending(p) \/ ReadApproved(p)
         \/ EmptyApproved(p) \/ FillApproved(p) \/ Killed(p)

MemorySpec == MemoryInit /\ [][MemoryNext]_memoryVars

-----------------------------------------------------------------------------

MemoryTypeOK ==
    /\ pending \in Seq(Items) /\ approved \in Seq(Items)
    /\ work \in [Reviewers -> Commands \cup {None}]
    /\ fate \in [Items -> {"new", "known", "rejected", "lost"}]
    /\ overlap \in BOOLEAN

(* If commands never overlapped, an item is in one of the files, once, or a *)
(* command has it in hand, until it is rejected or a process that has it is *)
(* killed; and what was rejected is in neither. (memory.py 196)             *)
ItemsAreInOnePlace ==
    ~overlap => \A i \in Items :
        LET places == {<<"pending", n>> : n \in {m \in DOMAIN pending : pending[m] = i}}
                      \cup {<<"approved", n>> : n \in {m \in DOMAIN approved : approved[m] = i}}
            inHand == \E p \in Reviewers :
                        work[p] # None /\ (work[p].item = i \/ Holds(work[p].lines, i))
        IN  /\ \A x, y \in places : x = y
            /\ (fate[i] = "known" /\ ~inHand) => places # {}
            /\ fate[i] \in {"new", "rejected", "lost"} => places = {}
=============================================================================
