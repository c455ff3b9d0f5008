---------------------------- MODULE ApiRateLimit ----------------------------
(* The rate limit of /chat and /confirm, _rate_ok of agent/main.py. Both    *)
(* routes are coroutines that test it before they await anything, so a test *)
(* is one step. The clock is that of the process and does not step back.    *)
EXTENDS Integers, Sequences

CONSTANTS
    Clients,        \* addresses, as _client_ip reports them
    RateWindow,     \* _RATE_WINDOW_S
    RateLimit,      \* _RATE_LIMIT
    MaxTime         \* bound of the model on the clock

ASSUME RateAssumption ==
    /\ RateWindow \in Nat /\ RateLimit \in Nat \ {0}
    /\ MaxTime \in Nat

VARIABLES
    time,       \* the clock
    hits,       \* per client, the times its deque holds
    passed      \* history: per client, all times it was let through

rateVars == <<time, hits, passed>>

RateInit ==
    /\ time = 0
    /\ hits = [c \in Clients |-> <<>>]
    /\ passed = [c \in Clients |-> <<>>]

Drop(q, k) == SubSeq(q, k + 1, Len(q))

Expired(t) == time - t > RateWindow

Leading_OneTooMany(q, k) ==
    /\ k \in 0..Len(q)
    /\ \A i \in 1..(k - 1) : Expired(q[i])
    /\ k < Len(q) => ~Expired(q[k + 1])

(* The leading entries that are older than the window, and no others.       *)
Leading(q, k) ==
    /\ k \in 0..Len(q)
    /\ \A i \in 1..k : Expired(q[i])
    /\ k < Len(q) => ~Expired(q[k + 1])

(* One request: the queue is pruned whether it is let through or not.       *)
RateOk(c) ==
    /\ UNCHANGED time
    /\ \E k \in 0..Len(hits[c]) :
         LET q == Drop(hits[c], k) IN
         /\ Leading(hits[c], k)
         /\ \/ /\ Len(q) >= RateLimit
               /\ hits' = [hits EXCEPT ![c] = q]
               /\ UNCHANGED passed
            \/ /\ Len(q) < RateLimit
               /\ hits' = [hits EXCEPT ![c] = Append(q, time)]
               /\ passed' = [passed EXCEPT ![c] = Append(@, time)]

(* The queues are lost with the process.                                    *)
ApiRestart ==
    /\ hits' = [c \in Clients |-> <<>>]
    /\ passed' = [c \in Clients |-> <<>>]
    /\ UNCHANGED time

TimePasses == time < MaxTime /\ time' = time + 1 /\ UNCHANGED <<hits, passed>>

RateNext == (\E c \in Clients : RateOk(c)) \/ ApiRestart \/ TimePasses

RateSpec == RateInit /\ [][RateNext]_rateVars

-----------------------------------------------------------------------------

RateTypeOK ==
    /\ time \in 0..MaxTime
    /\ hits \in [Clients -> Seq(0..MaxTime)]
    /\ passed \in [Clients -> Seq(0..MaxTime)]

(* A process lets a client through at most RateLimit times in any closed    *)
(* interval as long as the window: the RateLimit-th request after one comes *)
(* more than a window later. (main.py 451)                                  *)
RateIsKept ==
    \A c \in Clients : \A i \in DOMAIN passed[c] :
        i + RateLimit \in DOMAIN passed[c] =>
            passed[c][i + RateLimit] - passed[c][i] > RateWindow
=============================================================================
