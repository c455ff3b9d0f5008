----------------------------- MODULE Deployment -----------------------------
(***************************************************************************)
(* What the components of the apply path share: the sessions, which        *)
(* agent/main.py uses as LangGraph thread ids and agent/patchstore.py and  *)
(* agent/apply_agent.py store and receive, and the ids of the proposals.   *)
(***************************************************************************)
EXTENDS Integers

CONSTANTS Sessions,        \* session ids
          None,            \* stands where Python has None
          MaxProposals     \* bound: rows ever inserted in the patch store

ASSUME SessionAssumption == None \notin Sessions
ASSUME StoreAssumption == MaxProposals \in Nat \ {0}

Ids == 1 .. MaxProposals
=============================================================================
