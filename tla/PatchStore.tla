----------------------------- MODULE PatchStore -----------------------------
(***************************************************************************)
(* agent/patchstore.py: the SQLite table of proposed patches, keyed by     *)
(* session.  One operator per function of the module; every function takes *)
(* _DB_LOCK, runs one statement and commits, so each is a single step.     *)
(* The text of a patch is data no property looks at: a row is its id, its  *)
(* session and its applied flag.                                           *)
(***************************************************************************)
EXTENDS Deployment

VARIABLES proposals,       \* the rows of the table
          lastId           \* the AUTOINCREMENT counter of the table

storeVars == <<proposals, lastId>>

Row == [id : Ids, session_id : Sessions, applied : {0, 1}]

StoreTypeOK ==
    /\ proposals \subseteq Row
    /\ lastId \in 0 .. MaxProposals

StoreInit ==
    /\ proposals = {}
    /\ lastId = 0

(* AddProposal as a table without AUTOINCREMENT would run it: the id of a  *)
(* deleted row is handed out again.                                        *)
AddProposal_ReusesIds(s) ==
    \E n \in Ids :
        /\ \A r \in proposals : r.id < n
        /\ \A m \in Ids : (\A r \in proposals : r.id < m) => n <= m
        /\ lastId' = n
        /\ proposals' = proposals \cup
               {[id |-> n, session_id |-> s, applied |-> 0]}

(* AddProposal that takes the row id before the INSERT.                    *)
AddProposal_EarlyRowId(s) ==
    /\ lastId < MaxProposals
    /\ lastId' = lastId + 1
    /\ proposals' = proposals \cup
           {[id |-> lastId, session_id |-> s, applied |-> 0]}

(* add_proposal(): INSERT with applied = 0; AUTOINCREMENT gives an id that *)
(* no row ever had.                                                        *)
AddProposal(s) ==
    /\ lastId < MaxProposals
    /\ lastId' = lastId + 1
    /\ proposals' = proposals \cup
           {[id |-> lastId + 1, session_id |-> s, applied |-> 0]}

(* GetProposals without the session_id condition of its WHERE clause.      *)
GetProposals_AnySession(s) ==
    {r.id : r \in {q \in proposals : s \in Sessions /\ q.applied = 0}}

(* GetProposals without `applied = 0` in its WHERE clause.                 *)
GetProposals_AppliedToo(s) ==
    {r.id : r \in {q \in proposals : q.session_id = s}}

(* get_proposals(): the rows of the session that are not applied yet.  The *)
(* ids alone are returned here; ORDER BY id is the order of the numbers.   *)
GetProposals(s) ==
    {r.id : r \in {q \in proposals : q.session_id = s /\ q.applied = 0}}

(* mark_applied(): UPDATE the listed rows of the session; no ids, no-op.   *)
MarkApplied(s, ids) ==
    /\ proposals' = {IF r.session_id = s /\ r.id \in ids
                        THEN [r EXCEPT !.applied = 1] ELSE r : r \in proposals}
    /\ UNCHANGED lastId

(* clear(): DELETE every row of the session, applied or not.               *)
Clear(s) ==
    /\ proposals' = {r \in proposals : r.session_id # s}
    /\ UNCHANGED lastId

(* Ids handed out whose row is gone: a reject cleared them.                *)
Discarded == {i \in 1 .. lastId : \A r \in proposals : r.id # i}
=============================================================================
