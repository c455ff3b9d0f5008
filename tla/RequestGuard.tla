---------------------------- MODULE RequestGuard ----------------------------
(* The security toolkit's check of a request, check_request of              *)
(* agent/security.py: address filter, rate limiter, size and type. Threads  *)
(* call it; only the limiter's counters have a lock, and the time of a      *)
(* request is read before the lock is taken.                                *)
EXTENDS Absent, Integers, Sequences, FiniteSets

CONSTANTS
    Threads,
    Ips,            \* addresses; each is also the network that holds it alone
    Paths,
    Rules,          \* rate_limits: a sequence of [paths, limit, window], no two of one pattern
    Within,         \* pairs of addresses, the text of one within the other's
    MaxClock,       \* bound of the model on the clock
    MaxNetworks     \* bound of the model on the filter's lists

ASSUME GuardAssumption ==
    /\ Rules \in Seq([paths : SUBSET Paths, limit : Nat, window : Nat \ {0}])
    /\ Within \subseteq Ips \X Ips /\ \A ip \in Ips : <<ip, ip>> \in Within
    /\ MaxClock \in Nat /\ IsFiniteSet(Threads)

VARIABLES
    clock,
    allowed, blockedIps,    \* IPFilter: lists of networks
    counters,               \* RateLimiter.counters, by rule and address
    call,                   \* per thread, the check being made
    admitted                \* history: when the limiter let requests through

guardVars == <<clock, allowed, blockedIps, counters, call, admitted>>

Keys == (DOMAIN Rules) \X Ips

Answers == {"ok", "403", "429", "413", "415", "error"}

Call(pc, ip, path, now) == [pc |-> pc, ip |-> ip, path |-> path, now |-> now]

GuardInit ==
    /\ clock = 0
    /\ allowed = <<>> /\ blockedIps = <<>>
    /\ counters = [k \in Keys |-> <<>>]
    /\ call = [t \in Threads |-> None]
    /\ admitted = [k \in Keys |-> <<>>]

In(list, ip) == \E i \in DOMAIN list : list[i] = ip

(* Blocked networks win; an empty list of allowed ones allows all.          *)
IsAllowed(ip) == ~In(blockedIps, ip) /\ (allowed = <<>> \/ In(allowed, ip))

(* The networks are set and reset while requests are served; a network may  *)
(* be listed twice, and remove takes out its first entry only.              *)
RemoveFirst(list, ip) ==
    LET first == CHOOSE i \in DOMAIN list : list[i] = ip /\ \A j \in 1..(i - 1) : list[j] # ip
    IN  IF In(list, ip) THEN SubSeq(list, 1, first - 1) \o SubSeq(list, first + 1, Len(list))
        ELSE list

Configure(ip) ==
    /\ UNCHANGED <<clock, counters, call, admitted>>
    /\ \/ /\ Len(allowed) < MaxNetworks /\ allowed' = Append(allowed, ip) /\ UNCHANGED blockedIps
       \/ /\ Len(blockedIps) < MaxNetworks /\ blockedIps' = Append(blockedIps, ip) /\ UNCHANGED allowed
       \/ allowed' = RemoveFirst(allowed, ip) /\ UNCHANGED blockedIps
       \/ blockedIps' = RemoveFirst(blockedIps, ip) /\ UNCHANGED allowed

Arrive(t, ip, path) ==
    /\ call[t] = None
    /\ call' = [call EXCEPT ![t] = Call("filter", ip, path, 0)]
    /\ UNCHANGED <<clock, allowed, blockedIps, counters, admitted>>

FilterIp(t) ==
    /\ call[t] # None /\ call[t].pc = "filter"
    /\ call' = [call EXCEPT ![t].pc = IF IsAllowed(call[t].ip) THEN "stamp" ELSE "403"]
    /\ UNCHANGED <<clock, allowed, blockedIps, counters, admitted>>

Matching(path) == {r \in DOMAIN Rules : path \in Rules[r].paths}

(* The first line of check_rate_limit, and its answer where no rule applies.*)
ReadClock(t) ==
    /\ call[t] # None /\ call[t].pc = "stamp"
    /\ call' = [call EXCEPT ![t].now = clock,
                            ![t].pc = IF Matching(call[t].path) = {} THEN "size" ELSE "count"]
    /\ UNCHANGED <<clock, allowed, blockedIps, counters, admitted>>

(* The loop over the matching rules returns in its first round.             *)
FirstRule(path) == CHOOSE r \in Matching(path) : \A q \in Matching(path) : r <= q

(* The times of a list that are after the cutoff, in their order.           *)
After(list, cutoff) ==
    LET kept[n \in 0..Len(list)] ==
          IF n = 0 THEN <<>>
          ELSE IF list[n] > cutoff THEN Append(kept[n - 1], list[n]) ELSE kept[n - 1]
    IN  kept[Len(list)]

Young_ThisSecondOnly(key, now) == After(counters[key], now - 1)

Young(key, now) == After(counters[key], now - Rules[key[1]].window)

(* The locked part: prune by the time read before, then test and count. A   *)
(* rule that allows nothing has no oldest request to report, and raises.    *)
Count(t) ==
    LET key == <<FirstRule(call[t].path), call[t].ip>>
        young == Young(key, call[t].now)
        full == Len(young) >= Rules[key[1]].limit
    IN  /\ call[t] # None /\ call[t].pc = "count"
        /\ counters' = [counters EXCEPT ![key] = IF full THEN young ELSE Append(young, call[t].now)]
        /\ admitted' = [admitted EXCEPT ![key] = IF full THEN @ ELSE Append(@, clock)]
        /\ call' = [call EXCEPT ![t].pc = CASE full /\ young = <<>> -> "error"
                                            [] full /\ young # <<>> -> "429"
                                            [] OTHER -> "size"]
        /\ UNCHANGED <<clock, allowed, blockedIps>>

(* Size and type come last: a request they refuse has been counted.         *)
SizeAndType(t) ==
    /\ call[t] # None /\ call[t].pc = "size"
    /\ \E answer \in {"ok", "413", "415"} : call' = [call EXCEPT ![t].pc = answer]
    /\ UNCHANGED <<clock, allowed, blockedIps, counters, admitted>>

Answered(t) ==
    /\ call[t] # None /\ call[t].pc \in Answers
    /\ call' = [call EXCEPT ![t] = None]
    /\ UNCHANGED <<clock, allowed, blockedIps, counters, admitted>>

(* reset(identifier) forgets every key whose text has the identifier in it. *)
Reset(ip) ==
    /\ counters' = [k \in Keys |-> IF <<ip, k[2]>> \in Within THEN <<>> ELSE counters[k]]
    /\ admitted' = [k \in Keys |-> IF <<ip, k[2]>> \in Within THEN <<>> ELSE admitted[k]]
    /\ UNCHANGED <<clock, allowed, blockedIps, call>>

ResetAll ==
    /\ counters' = [k \in Keys |-> <<>>] /\ admitted' = [k \in Keys |-> <<>>]
    /\ UNCHANGED <<clock, allowed, blockedIps, call>>

ClockTicks ==
    /\ clock < MaxClock /\ clock' = clock + 1
    /\ UNCHANGED <<allowed, blockedIps, counters, call, admitted>>

GuardNext ==
    \/ \E ip \in Ips : Configure(ip) \/ Reset(ip)
    \/ \E t \in Threads, ip \in Ips, path \in Paths : Arrive(t, ip, path)
    \/ \E t \in Threads :
         FilterIp(t) \/ ReadClock(t) \/ Count(t) \/ SizeAndType(t) \/ Answered(t)
    \/ ResetAll \/ ClockTicks

GuardSpec == GuardInit /\ [][GuardNext]_guardVars

-----------------------------------------------------------------------------

Pcs == {"filter", "stamp", "count", "size"} \cup Answers

GuardTypeOK ==
    /\ clock \in 0..MaxClock
    /\ allowed \in Seq(Ips) /\ blockedIps \in Seq(Ips)
    /\ counters \in [Keys -> Seq(0..MaxClock)]
    /\ call \in [Threads -> [pc : Pcs, ip : Ips, path : Paths, now : 0..MaxClock] \cup {None}]
    /\ admitted \in [Keys -> Seq(0..MaxClock)]

(* In the time of one window a rule lets through its limit and at most one  *)
(* request more per thread: those whose time was read in an earlier window  *)
(* and that waited for the lock since. (security.py 130)                    *)
OverrunIsBounded ==
    \A k \in Keys : \A i \in DOMAIN admitted[k] :
        LET j == i + Rules[k[1]].limit + Cardinality(Threads)
        IN  j \in DOMAIN admitted[k] =>
                admitted[k][j] - admitted[k][i] >= Rules[k[1]].window
=============================================================================
