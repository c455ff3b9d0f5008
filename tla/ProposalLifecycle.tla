-------------------------- MODULE ProposalLifecycle --------------------------
(***************************************************************************)
(* What the apply path promises of one proposal, whatever crashes, times   *)
(* out or is retried.  A proposal is staged once, under one session.  A    *)
(* draft PR carries proposals of one session.  Only a published proposal   *)
(* is ever marked applied, and only while it is staged.  A discarded       *)
(* proposal never comes back.                                              *)
(*                                                                         *)
(* What is NOT promised is visible too: Publish may repeat, and may come   *)
(* after Discard, because the request that publishes outlives the handler  *)
(* that sent it.                                                           *)
(***************************************************************************)
CONSTANTS Proposals, Owners, NoOwner

VARIABLES life,            \* where each proposal is
          owner,           \* the session a proposal was staged under
          published        \* proposals some draft PR carries

lifecycleVars == <<life, owner, published>>

Lives == {"unborn", "staged", "applied", "discarded"}

Init ==
    /\ life = [p \in Proposals |-> "unborn"]
    /\ owner = [p \in Proposals |-> NoOwner]
    /\ published = {}

Stage(p, s) ==
    /\ life[p] = "unborn"
    /\ life' = [life EXCEPT ![p] = "staged"]
    /\ owner' = [owner EXCEPT ![p] = s]
    /\ UNCHANGED published

Publish(batch, s) ==
    /\ \A p \in batch : owner[p] = s
    /\ published' = published \cup batch
    /\ UNCHANGED <<life, owner>>

MarkApplied(batch, s) ==
    /\ batch \subseteq published
    /\ \A p \in batch : life[p] = "staged" /\ owner[p] = s
    /\ life' = [p \in Proposals |-> IF p \in batch THEN "applied" ELSE life[p]]
    /\ UNCHANGED <<owner, published>>

DiscardAll(s) ==
    /\ life' = [p \in Proposals |->
                   IF owner[p] = s THEN "discarded" ELSE life[p]]
    /\ UNCHANGED <<owner, published>>

Next ==
    \/ \E p \in Proposals, s \in Owners : Stage(p, s)
    \/ \E batch \in SUBSET Proposals, s \in Owners :
           Publish(batch, s) \/ MarkApplied(batch, s)
    \/ \E s \in Owners : DiscardAll(s)

Spec == Init /\ [][Next]_lifecycleVars
=============================================================================
