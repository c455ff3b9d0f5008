---------------------------- MODULE ServiceProofs ----------------------------
(* The rate limit of the API, the role-based permissions, the application   *)
(* of a proposal in the process of the agent, the sandbox that runs cargo,  *)
(* the security toolkit's check of a request, and the chat gateways, each   *)
(* for any number of clients, users, calls, threads or messages; and then   *)
(* what holds of all the services side by side.                             *)
EXTENDS MCServices, DataProofs, IndexProofs

-----------------------------------------------------------------------------
(* The rate limit: no client is let through more often than the limit; its  *)
(* queue is the last of its requests, and what was dropped from it has left *)
(* the window for good.                                                     *)

(* A queue q and a history p at the time t.                                 *)
Recent(q, p, t) ==
    /\ q \in Seq(Nat) /\ p \in Seq(Nat) /\ Len(q) <= Len(p)
    /\ \A i \in 1..Len(q) : q[i] = p[Len(p) - Len(q) + i]
    /\ \A i \in 1..(Len(p) - Len(q)) : t - p[i] > RateWindow
    /\ \A i \in 1..Len(p) : p[i] <= t

Spaced(p) ==
    \A i \in 1..Len(p) : i + RateLimit \in 1..Len(p) => p[i + RateLimit] - p[i] > RateWindow

RateInv ==
    /\ time \in Nat
    /\ hits \in [Clients -> Seq(Nat)] /\ passed \in [Clients -> Seq(Nat)]
    /\ \A c \in Clients : Recent(hits[c], passed[c], time) /\ Spaced(passed[c])

-----------------------------------------------------------------------------
(* Pruning drops what has left the window, from the front.                  *)
LEMMA PruningKeeps ==
    ASSUME NEW q, NEW p, NEW k \in Nat, time \in Nat,
           Recent(q, p, time), Leading(q, k)
    PROVE  Recent(Drop(q, k), p, time)
<1> DEFINE d == Drop(q, k)
<1>1. k \in 0..Len(q) /\ q \in Seq(Nat) /\ p \in Seq(Nat)
  BY DEF Recent, Leading
<1>2. /\ d \in Seq(Nat) /\ Len(d) = Len(q) - k
      /\ \A i \in 1..Len(d) : d[i] = q[k + i]
  BY <1>1 DEF Drop
<1> HIDE DEF d
<1>3. ASSUME NEW i \in 1..Len(d) PROVE d[i] = p[Len(p) - Len(d) + i]
  <2>1. k + i \in 1..Len(q) /\ d[i] = q[k + i]
    BY <1>1, <1>2
  <2>2. q[k + i] = p[Len(p) - Len(q) + (k + i)]
    BY <2>1 DEF Recent
  <2>3. Len(p) - Len(q) + (k + i) = Len(p) - Len(d) + i
    BY <1>1, <1>2
  <2> QED
    BY <2>1, <2>2, <2>3
<1>4. ASSUME NEW i \in 1..(Len(p) - Len(d)) PROVE time - p[i] > RateWindow
  <2>1. CASE i \in 1..(Len(p) - Len(q))
    BY <2>1 DEF Recent
  <2>2. CASE i \notin 1..(Len(p) - Len(q))
    <3> DEFINE j == i - (Len(p) - Len(q))
    <3>1. j \in 1..k /\ j \in 1..Len(q) /\ i = Len(p) - Len(q) + j
      BY <1>1, <1>2, <2>2 DEF Recent
    <3>2. Expired(q[j]) /\ q[j] = p[i]
      BY <3>1 DEF Recent, Leading
    <3> QED
      BY <3>2 DEF Expired
  <2> QED
    BY <2>1, <2>2
<1> QED
  BY <1>1, <1>2, <1>3, <1>4 DEF Recent, d

(* One more at the end of both, where the queue has room.                   *)
LEMMA PassingKeeps ==
    ASSUME NEW q, NEW p, time \in Nat, Recent(q, p, time), Spaced(p), Len(q) < RateLimit
    PROVE  Recent(Append(q, time), Append(p, time), time) /\ Spaced(Append(p, time))
<1> DEFINE u == Append(q, time)  v == Append(p, time)
<1>1. q \in Seq(Nat) /\ p \in Seq(Nat) /\ Len(q) <= Len(p)
  BY DEF Recent
<1>2. /\ u \in Seq(Nat) /\ Len(u) = Len(q) + 1 /\ u[Len(q) + 1] = time
      /\ \A i \in 1..Len(q) : u[i] = q[i]
  BY <1>1
<1>3. /\ v \in Seq(Nat) /\ Len(v) = Len(p) + 1 /\ v[Len(p) + 1] = time
      /\ \A i \in 1..Len(p) : v[i] = p[i]
  BY <1>1
<1> HIDE DEF u, v
<1>4. ASSUME NEW i \in 1..Len(u) PROVE u[i] = v[Len(v) - Len(u) + i]
  <2>1. Len(v) - Len(u) + i = Len(p) - Len(q) + i
    BY <1>1, <1>2, <1>3
  <2>2. CASE i = Len(q) + 1
    BY <1>1, <1>2, <1>3, <2>1, <2>2
  <2>3. CASE i \in 1..Len(q)
    <3>1. Len(p) - Len(q) + i \in 1..Len(p)
      BY <1>1, <2>3
    <3>2. q[i] = p[Len(p) - Len(q) + i]
      BY <2>3 DEF Recent
    <3> QED
      BY <1>2, <1>3, <2>1, <2>3, <3>1, <3>2
  <2> QED
    BY <1>1, <1>2, <2>2, <2>3
<1>5. ASSUME NEW i \in 1..(Len(v) - Len(u)) PROVE time - v[i] > RateWindow
  <2>1. i \in 1..(Len(p) - Len(q)) /\ i \in 1..Len(p)
    BY <1>1, <1>2, <1>3
  <2> QED
    BY <1>3, <2>1 DEF Recent
<1>6. ASSUME NEW i \in 1..Len(v) PROVE v[i] <= time
  <2>1. CASE i = Len(p) + 1
    BY <1>3, <2>1
  <2>2. CASE i \in 1..Len(p)
    BY <1>3, <2>2 DEF Recent
  <2> QED
    BY <1>1, <1>3, <2>1, <2>2
<1>7. ASSUME NEW i \in 1..Len(v), i + RateLimit \in 1..Len(v)
      PROVE  v[i + RateLimit] - v[i] > RateWindow
  <2>1. i \in 1..Len(p)
    BY <1>1, <1>3, <1>7, RateAssumption
  <2>2. CASE i + RateLimit = Len(p) + 1
    <3>1. i \in 1..(Len(p) - Len(q))
      BY <1>1, <2>1, <2>2, RateAssumption
    <3>2. time - p[i] > RateWindow
      BY <3>1 DEF Recent
    <3> QED
      BY <1>3, <2>1, <2>2, <3>2
  <2>3. CASE i + RateLimit \in 1..Len(p)
    BY <1>3, <2>1, <2>3 DEF Spaced
  <2> QED
    BY <1>1, <1>3, <1>7, <2>2, <2>3, RateAssumption
<1>8. Recent(u, v, time)
  BY <1>1, <1>2, <1>3, <1>4, <1>5, <1>6 DEF Recent
<1>9. Spaced(v)
  BY <1>7 DEF Spaced
<1> QED
  BY <1>8, <1>9 DEF u, v

-----------------------------------------------------------------------------
(* Nobody has been let through at the beginning.                            *)
LEMMA NothingYet == Recent(<<>>, <<>>, time) /\ Spaced(<<>>)
BY DEF Recent, Spaced

(* So the invariant holds at the beginning.                                 *)
LEMMA RateStarts == RateInit => RateInv
BY NothingYet DEF RateInit, RateInv

(* A request of one client keeps the invariant.                             *)
LEMMA RequestKeeps ==
    ASSUME RateInv, NEW c \in Clients, RateOk(c)
    PROVE  RateInv'
<1>1. /\ time \in Nat /\ hits \in [Clients -> Seq(Nat)] /\ passed \in [Clients -> Seq(Nat)]
      /\ Recent(hits[c], passed[c], time) /\ Spaced(passed[c]) /\ time' = time
  BY DEF RateInv, RateOk
<1>2. PICK k \in 0..Len(hits[c]) :
        LET q == Drop(hits[c], k) IN
        /\ Leading(hits[c], k)
        /\ \/ Len(q) >= RateLimit /\ hits' = [hits EXCEPT ![c] = q] /\ UNCHANGED passed
           \/ /\ Len(q) < RateLimit /\ hits' = [hits EXCEPT ![c] = Append(q, time)]
              /\ passed' = [passed EXCEPT ![c] = Append(@, time)]
  BY DEF RateOk
<1> DEFINE q == Drop(hits[c], k)
<1>3. Recent(q, passed[c], time)
  BY <1>1, <1>2, PruningKeeps
<1>4. \E x, y \in Seq(Nat) :
        /\ hits' = [hits EXCEPT ![c] = x] /\ passed' = [passed EXCEPT ![c] = y]
        /\ Recent(x, y, time) /\ Spaced(y)
  <2>1. CASE Len(q) >= RateLimit /\ hits' = [hits EXCEPT ![c] = q] /\ UNCHANGED passed
    <3>1. passed' = [passed EXCEPT ![c] = passed[c]] /\ passed[c] \in Seq(Nat)
      BY <1>1, <2>1
    <3>2. q \in Seq(Nat)
      BY <1>3 DEF Recent
    <3> QED
      BY <1>1, <1>3, <2>1, <3>1, <3>2
  <2>2. CASE /\ Len(q) < RateLimit /\ hits' = [hits EXCEPT ![c] = Append(q, time)]
             /\ passed' = [passed EXCEPT ![c] = Append(@, time)]
    <3>1. Recent(Append(q, time), Append(passed[c], time), time) /\ Spaced(Append(passed[c], time))
      BY <1>1, <1>3, <2>2, PassingKeeps
    <3>2. Append(q, time) \in Seq(Nat) /\ Append(passed[c], time) \in Seq(Nat)
      BY <3>1 DEF Recent
    <3> QED
      BY <2>2, <3>1, <3>2
  <2> QED
    BY <1>2, <2>1, <2>2
<1> QED
  BY <1>1, <1>4 DEF RateInv

(* Time only makes old what is old.                                         *)
LEMMA TimeKeeps == RateInv /\ TimePasses => RateInv'
<1> SUFFICES ASSUME RateInv, TimePasses PROVE RateInv'
  OBVIOUS
<1>1. time \in Nat /\ time' = time + 1 /\ UNCHANGED <<hits, passed>>
  BY DEF RateInv, TimePasses
<1>2. ASSUME NEW c \in Clients PROVE Recent(hits[c], passed[c], time')
  BY <1>1, RateAssumption DEF RateInv, Recent
<1> QED
  BY <1>1, <1>2 DEF RateInv

(* The invariant holds of every behaviour of the limit.                     *)
THEOREM RateInductive == RateSpec => []RateInv
<1>1. RateInv /\ ApiRestart => RateInv'
  BY NothingYet DEF RateInv, ApiRestart
<1>2. RateInv /\ UNCHANGED rateVars => RateInv'
  BY DEF RateInv, rateVars
<1>3. RateInv /\ [RateNext]_rateVars => RateInv'
  BY <1>1, <1>2, RequestKeeps, TimeKeeps DEF RateNext
<1> QED
  BY RateStarts, <1>3, PTL DEF RateSpec

(* However requests arrive, a client is let through at most RateLimit times *)
(* in an interval of the length of the window.                              *)
THEOREM NoClientExceedsTheRate == RateSpec => []RateIsKept
<1>1. RateInv => RateIsKept
  <2>1. ASSUME RateInv, NEW c \in Clients PROVE DOMAIN passed[c] = 1..Len(passed[c])
    BY <2>1 DEF RateInv
  <2> QED
    BY <2>1 DEF RateInv, Spaced, RateIsKept
<1> QED
  BY RateInductive, <1>1, PTL

-----------------------------------------------------------------------------
(* Role-based permissions.                                                  *)

(* The highest by name of a set with a level that counts is one of those    *)
(* that allow most; of another one it is "none".                            *)
LEMMA HighestCounts ==
    ASSUME NEW ls \in SUBSET LevelNames
    PROVE  HighestByName(ls) = IF "write" \in ls THEN "write"
                               ELSE IF "read" \in ls THEN "read" ELSE "none"
<1> DEFINE Top(l) == \A k \in ls : ByName[l] >= ByName[k]
<1>1. ASSUME ls # {} PROVE \E l \in ls : Top(l)
  <2>1. CASE "write" \in ls
    BY <2>1 DEF LevelNames, ByName
  <2>2. CASE "write" \notin ls /\ "read" \in ls
    BY <2>2 DEF LevelNames, ByName
  <2>3. CASE "write" \notin ls /\ "read" \notin ls /\ "none" \in ls
    BY <2>3 DEF LevelNames, ByName
  <2>4. CASE ls = {"admin"}
    BY <2>4 DEF LevelNames, ByName
  <2> QED
    BY <1>1, <2>1, <2>2, <2>3, <2>4 DEF LevelNames
<1>2. CASE ls = {}
  BY <1>2 DEF HighestByName
<1>3. CASE ls # {}
  <2> DEFINE top == CHOOSE l \in ls : Top(l)
  <2>1. top \in ls /\ Top(top)
    BY <1>1, <1>3
  <2>2. HighestByName(ls) = Higher(top, "none")
    BY <1>3 DEF HighestByName
  <2> HIDE DEF top
  <2>3. top \in LevelNames
    BY <2>1
  <2>4. "write" \in ls => top = "write"
    BY <2>1, <2>3 DEF LevelNames, ByName
  <2>5. "write" \notin ls /\ "read" \in ls => top = "read"
    BY <2>1, <2>3 DEF LevelNames, ByName
  <2>6. "write" \notin ls /\ "read" \notin ls => top \in {"none", "admin"}
    BY <2>1, <2>3 DEF LevelNames
  <2> QED
    BY <2>2, <2>4, <2>5, <2>6 DEF Higher, ByName
<1> QED
  BY <1>2, <1>3

(* The same of the level of a user alone.                                   *)
LEMMA OwnCounts ==
    ASSUME NEW l \in LevelNames
    PROVE  Higher(l, "none") = IF l = "write" THEN "write"
                               ELSE IF l = "read" THEN "read" ELSE "none"
BY DEF LevelNames, Higher, ByName

(* So the effective level of a user is write, read or none, by the levels   *)
(* that the user and the groups of the user have.                           *)
LEMMA EffectiveLevel ==
    ASSUME RbacTypeOK, NEW u \in Users, NEW r \in Resources
    PROVE  Effective(u, r) = IF "write" \in LevelsHeld(u, r) THEN "write"
                             ELSE IF "read" \in LevelsHeld(u, r) THEN "read" ELSE "none"
<1> DEFINE own == levels[<<u, r>>]  teams == OfTeams(u, r)  orgs == OfOrganizations(u, r)
           Counting(ls) == IF "write" \in ls THEN "write" ELSE IF "read" \in ls THEN "read" ELSE "none"
<1>1. own \in LevelNames \cup {None}
  BY DEF RbacTypeOK
<1>2. teams \in SUBSET LevelNames /\ orgs \in SUBSET LevelNames
  BY RbacAssumption DEF OfTeams, OfOrganizations, Groups
<1>3. UserLevel(u, r) = IF own = None THEN "none" ELSE own
  BY DEF UserLevel
<1>4. UserLevel(u, r) \in LevelNames
  BY <1>1, <1>3 DEF LevelNames
<1>5. Higher(UserLevel(u, r), "none") = Counting({own})
  BY <1>1, <1>3, <1>4, OwnCounts, RbacAssumption DEF LevelNames
<1>6. HighestByName(teams) = Counting(teams) /\ HighestByName(orgs) = Counting(orgs)
  BY <1>2, HighestCounts
<1> HIDE DEF own, teams, orgs
<1>7. Effective(u, r) = Higher(HighestByName(orgs), Higher(HighestByName(teams), Higher(UserLevel(u, r), "none")))
  BY DEF Effective, teams, orgs
<1>8. Higher(Counting(teams), Counting({own})) = Counting({own} \cup teams)
  BY DEF Higher, ByName
<1>9. Effective(u, r) = Counting({own} \cup teams \cup orgs)
  BY <1>5, <1>6, <1>7, <1>8 DEF Higher, ByName
<1>10. LevelsHeld(u, r) = {own} \cup teams \cup orgs
  BY DEF LevelsHeld, own, teams, orgs
<1> QED
  BY <1>9, <1>10

-----------------------------------------------------------------------------
(* What is granted is a level, and members are users of groups that exist,  *)
(* in every state.                                                          *)
THEOREM GrantsAreLevels == RbacSpec => []RbacTypeOK
<1>1. RbacInit => RbacTypeOK
  BY DEF RbacInit, RbacTypeOK
<1>2. RbacTypeOK /\ [RbacNext]_rbacVars => RbacTypeOK'
  <2> SUFFICES ASSUME RbacTypeOK, [RbacNext]_rbacVars
               PROVE  RbacTypeOK'
    OBVIOUS
  <2> USE DEF RbacTypeOK
  <2>1. ASSUME NEW g \in Groups, CreateTeam(g) \/ CreateOrganization(g)
        PROVE  RbacTypeOK'
    BY <2>1 DEF CreateTeam, CreateOrganization
  <2>2. ASSUME NEW u \in Users, NEW status \in {"active", "inactive"},
               CreateUser(u) \/ UpdateUser(u, status)
        PROVE  RbacTypeOK'
    BY <2>2 DEF CreateUser, UpdateUser
  <2>3. ASSUME NEW u \in Users, NEW g \in Groups,
               AddTeamMember(g, u) \/ AddOrganizationMember(g, u) \/ RemoveTeamMember(g, u)
        PROVE  RbacTypeOK'
    BY <2>3 DEF AddTeamMember, AddOrganizationMember, RemoveTeamMember
  <2>4. ASSUME NEW u \in Users, NEW r \in Resources, NEW level \in LevelNames,
               Revoke(u, r) \/ Grant(u, r, level)
        PROVE  RbacTypeOK'
    BY <2>4 DEF Revoke, Grant
  <2>5. CASE UNCHANGED rbacVars
    BY <2>5 DEF rbacVars
  <2>6. "none" \in LevelNames
    BY DEF LevelNames
  <2> QED
    BY <2>1, <2>2, <2>3, <2>4, <2>5, <2>6 DEF RbacNext, DeleteUser
<1> QED
  BY <1>1, <1>2, PTL DEF RbacSpec

(* A check that passes is backed by a level that is held, and what a read   *)
(* or write level allows no other level takes away, for any users, groups   *)
(* and levels.                                                              *)
THEOREM ChecksStayBacked == RbacSpec => []ChecksAreBacked
<1>1. RbacTypeOK => ChecksAreBacked
  <2> SUFFICES ASSUME RbacTypeOK, NEW u \in Users, NEW r \in Resources,
                      NEW required \in LevelNames \ {"none"}
               PROVE  /\ CheckPermission(u, r, required) =>
                           \E l \in LevelsHeld(u, r) : Meets(l, required)
                      /\ (\E l \in LevelsHeld(u, r) \cap {"read", "write"} : Meets(l, required))
                           => CheckPermission(u, r, required)
    BY DEF ChecksAreBacked
  <2>1. Effective(u, r) = IF "write" \in LevelsHeld(u, r) THEN "write"
                          ELSE IF "read" \in LevelsHeld(u, r) THEN "read" ELSE "none"
    BY EffectiveLevel
  <2> QED
    BY <2>1 DEF CheckPermission, ByMeaning, LevelNames, Meets
<1> QED
  BY GrantsAreLevels, <1>1, PTL

-----------------------------------------------------------------------------
(* The programs that run commands: apply_and_open_pr in the process of the  *)
(* agent, and cargo in a container or beside the agent. Whichever command   *)
(* fails, what a call answers is what it left behind, and what was run. The *)
(* invariants say of every place a call may be at what it has left so far.  *)

Checkout == {"directory", "branch", "worktree"}

Published == Checkout \cup {"commit", "pushed", "pr"}

(* What a call that has not answered has left, by where it is.              *)
SoFar(this, left) ==
    /\ this.at \in {"new", "fetch", "add"} => left = {}
    /\ this.at \in {"patch", "commit"} => left = Checkout
    /\ this.at = "push" => left = Checkout \cup {"commit"}
    /\ this.at = "pr" => left = Checkout \cup {"commit", "pushed"}

(* What it has left when the finally clause comes, by its end.              *)
AtTheEnd(this, left) ==
    this.at = "cleanup" =>
        /\ this.end \in {"ok", "dry_run", "error"}
        /\ this.end = "ok" => left = Published
        /\ this.end = "dry_run" => left = Checkout
        /\ "worktree" \notin left => left \subseteq {"directory", "branch"}

(* What it leaves for good.                                                 *)
Afterwards(this, left) ==
    this.at = "over" =>
        /\ this.end = "ok" => left = Published \ {"directory", "worktree"}
        /\ this.end = "dry_run" => left \subseteq {"branch"}
        /\ this.end # "killed" =>
             /\ "worktree" \notin left
             /\ "directory" \in left => this.end = "error" /\ "commit" \notin left

(* With the gate closed a call answers at once.                             *)
Gated(a, this, left) ==
    a \notin OpenFor => this.at \in {"new", "over"} /\ left = {}

CallOK(a, this, left) ==
    /\ SoFar(this, left) /\ AtTheEnd(this, left) /\ Afterwards(this, left)
    /\ Gated(a, this, left)
    /\ "pr" \in left => {"commit", "pushed"} \subseteq left

LocalApplyInv ==
    /\ LocalApplyTypeOK
    /\ \A a \in Applies : CallOK(a, applies[a], traces[a])

CallSteps(a) ==
    \/ \E v, r, d \in BOOLEAN : BeginApply(a, v, r, d)
    \/ FetchBase(a) \/ AddWorktree(a) \/ AddFails(a) \/ PatchWorktree(a)
    \/ CommitPatches(a) \/ PushBranch(a) \/ OpenDraftPR(a)
    \/ CommandFails(a) \/ CleanUp(a) \/ ApplyKilled(a)

-----------------------------------------------------------------------------
(* At the beginning nothing was called and nothing is left.                 *)
LEMMA LocalApplyStarts == LocalApplyInit => LocalApplyInv
BY DEF LocalApplyInit, LocalApplyInv, LocalApplyTypeOK, Places, CallOK, SoFar, AtTheEnd,
       Afterwards, Gated

(* A step keeps the types.                                                  *)
LEMMA LocalApplyTypes ==
    ASSUME LocalApplyTypeOK, NEW a \in Applies, CallSteps(a)
    PROVE  LocalApplyTypeOK'
<1> USE DEF LocalApplyTypeOK, Places, GoOn, EndsAs, Leaves
<1>1. CASE \E v, r, d \in BOOLEAN : BeginApply(a, v, r, d)
  BY <1>1 DEF BeginApply
<1>2. CASE FetchBase(a) \/ PatchWorktree(a)
  BY <1>2 DEF FetchBase, PatchWorktree
<1>3. CASE AddWorktree(a) \/ CommitPatches(a) \/ PushBranch(a)
  BY <1>3 DEF AddWorktree, CommitPatches, PushBranch
<1>4. CASE AddFails(a)
  BY <1>4 DEF AddFails
<1>5. CASE OpenDraftPR(a)
  BY <1>5 DEF OpenDraftPR
<1>6. CASE CommandFails(a)
  <2>1. applies' \in [Applies -> [at : Places, dryRun : BOOLEAN,
                                 end : {None, "ok", "dry_run", "error", "killed"}]]
    <3>1. EndsAs(a, "error")
      BY <1>6 DEF CommandFails
    <3> QED
      BY <3>1
  <2>2. CASE UNCHANGED traces
    BY <2>1, <2>2
  <2>3. CASE Leaves(a, {"pushed"})
    BY <2>1, <2>3
  <2>4. CASE Leaves(a, {"pr"})
    BY <2>1, <2>4
  <2> QED
    BY <1>6, <2>2, <2>3, <2>4 DEF CommandFails
<1>7. CASE CleanUp(a)
  BY <1>7 DEF CleanUp
<1>8. CASE ApplyKilled(a)
  BY <1>8 DEF ApplyKilled
<1> QED
  BY <1>1, <1>2, <1>3, <1>4, <1>5, <1>6, <1>7, <1>8 DEF CallSteps

(* A step is one of one call: of the others it leaves all as it was.        *)
LEMMA OneCallMoves ==
    ASSUME LocalApplyTypeOK, NEW a \in Applies, CallSteps(a),
           NEW b \in Applies \ {a}
    PROVE  applies'[b] = applies[b] /\ traces'[b] = traces[b]
BY DEF LocalApplyTypeOK, CallSteps, GoOn, EndsAs, Leaves, BeginApply, FetchBase, AddWorktree,
       AddFails, PatchWorktree, CommitPatches, PushBranch, OpenDraftPR, CommandFails, CleanUp,
       ApplyKilled

(* A step of a call keeps what the invariant says of it.                    *)
LEMMA CallStaysOK ==
    ASSUME LocalApplyTypeOK, NEW a \in Applies, CallOK(a, applies[a], traces[a]), CallSteps(a)
    PROVE  CallOK(a, applies'[a], traces'[a])
<1> USE DEF LocalApplyTypeOK, Places, GoOn, EndsAs, Leaves, CallOK, SoFar, AtTheEnd, Afterwards,
            Gated, Checkout, Published
<1>1. ASSUME NEW v \in BOOLEAN, NEW r \in BOOLEAN, NEW d \in BOOLEAN, BeginApply(a, v, r, d)
      PROVE  CallOK(a, applies'[a], traces'[a])
  BY <1>1 DEF BeginApply
<1>2. CASE FetchBase(a)
  BY <1>2 DEF FetchBase
<1>3. CASE AddWorktree(a)
  BY <1>3 DEF AddWorktree
<1>4. CASE AddFails(a)
  BY <1>4 DEF AddFails
<1>5. CASE PatchWorktree(a)
  BY <1>5 DEF PatchWorktree
<1>6. CASE CommitPatches(a)
  BY <1>6 DEF CommitPatches
<1>7. CASE PushBranch(a)
  BY <1>7 DEF PushBranch
<1>8. CASE OpenDraftPR(a)
  BY <1>8 DEF OpenDraftPR
<1>9. CASE CommandFails(a)
  BY <1>9 DEF CommandFails
<1>10. CASE CleanUp(a)
  BY <1>10 DEF CleanUp
<1>11. CASE ApplyKilled(a)
  BY <1>11 DEF ApplyKilled
<1> QED
  BY <1>1, <1>2, <1>3, <1>4, <1>5, <1>6, <1>7, <1>8, <1>9, <1>10, <1>11 DEF CallSteps

(* The invariant is inductive.                                              *)
LEMMA LocalApplyStep == LocalApplyInv /\ [LocalApplyNext]_localApplyVars => LocalApplyInv'
<1> SUFFICES ASSUME LocalApplyInv, [LocalApplyNext]_localApplyVars PROVE LocalApplyInv'
  OBVIOUS
<1>1. ASSUME NEW a \in Applies, CallSteps(a) PROVE LocalApplyInv'
  <2>1. LocalApplyTypeOK'
    BY <1>1, LocalApplyTypes DEF LocalApplyInv
  <2>2. ASSUME NEW b \in Applies PROVE CallOK(b, applies'[b], traces'[b])
    <3>1. CASE b = a
      BY <1>1, <3>1, CallStaysOK DEF LocalApplyInv
    <3>2. CASE b # a
      BY <1>1, <3>2, OneCallMoves DEF LocalApplyInv
    <3> QED
      BY <3>1, <3>2
  <2> QED
    BY <2>1, <2>2 DEF LocalApplyInv
<1>2. CASE UNCHANGED localApplyVars
  BY <1>2 DEF localApplyVars, LocalApplyInv, LocalApplyTypeOK
<1> QED
  BY <1>1, <1>2 DEF LocalApplyNext, CallSteps

(* The bounds follow from the invariant.                                    *)
LEMMA BoundsFollow == LocalApplyInv => LeftoversAreBounded
<1> SUFFICES ASSUME LocalApplyInv, NEW a \in Applies
             PROVE  /\ "pr" \in traces[a] => {"commit", "pushed"} \subseteq traces[a]
                    /\ applies[a].at = "over" =>
                         /\ applies[a].end = "ok" => traces[a] = {"branch", "commit", "pushed", "pr"}
                         /\ applies[a].end = "dry_run" => traces[a] \cap {"commit", "pushed", "pr"} = {}
                         /\ a \notin OpenFor => traces[a] = {}
                         /\ applies[a].end # "killed" =>
                              /\ "worktree" \notin traces[a]
                              /\ "directory" \in traces[a] =>
                                   applies[a].end = "error" /\ "commit" \notin traces[a]
  BY DEF LeftoversAreBounded
<1> QED
  BY DEF LocalApplyInv, CallOK, Afterwards, Gated, Checkout, Published

(* The invariant holds of every behaviour of the in-process apply.          *)
THEOREM LocalApplyInductive == LocalApplySpec => []LocalApplyInv
<1> QED
  BY LocalApplyStarts, LocalApplyStep, PTL DEF LocalApplySpec

(* What apply_and_open_pr leaves in the repository and at the remote is     *)
(* within these bounds, for any number of calls, whichever command failed.  *)
THEOREM LeftoversStayBounded == LocalApplySpec => []LeftoversAreBounded
<1> QED
  BY LocalApplyInductive, BoundsFollow, PTL

-----------------------------------------------------------------------------
(* run_cargo_command and the sidecar.                                       *)

SandboxThreads == {"none", "waits", "runs", "ok", "failed", "rejected", "error", "over"}

SandboxCall ==
    [at : {"idle", "posted", "direct", "answered"}, req : Requests \cup {None},
     thread : SandboxThreads,
     box : {"none", "running", "exit0", "exit1"}, direct : BOOLEAN,
     answer : {None, "ok", "failed", "rejected", "timeout", "error"}]

Cargo(this) == this.req # None /\ this.req.tool = "run_cargo_command"

(* What the thread that serves a call says of its container, and what the   *)
(* answer says of it.                                                       *)
ThreadTrue(this) ==
    /\ this.thread = "ok" => this.box = "exit0"
    /\ this.thread = "failed" => this.box = "exit1"
    /\ this.thread \in {"none", "waits", "rejected"} => this.box = "none"

AnswerTrue(this) ==
    /\ this.answer = "ok" => this.box = "exit0"
    /\ this.answer = "failed" => this.box = "exit1"
    /\ this.answer = "rejected" => this.box = "none"

(* While a call is posted it has no answer, and once it has one that says   *)
(* something of the container no thread is left to start one.               *)
Settled(this) ==
    /\ this.at \in {"idle", "posted"} => this.answer = None
    /\ this.answer \in {"ok", "failed", "rejected"} => this.thread \in {"none", "over"}

CargoTrue(this) ==
    /\ IF this.at = "idle" THEN this = Uncalled ELSE this.req \in Requests
    /\ Cargo(this) => /\ ~this.direct /\ this.at # "direct"
                      /\ ThreadTrue(this) /\ AnswerTrue(this) /\ Settled(this)

SandboxInv ==
    /\ calls \in [Calls -> SandboxCall]
    /\ runnerUp \in BOOLEAN /\ settings \in [url : BOOLEAN, token : BOOLEAN]
    /\ \A c \in Calls : CargoTrue(calls[c])

(* The steps of one call and of the thread and the container it has.        *)
SandboxCallSteps(c) ==
    \/ \E req \in Requests : CallTool(c, req)
    \/ Connect(c) \/ StartContainer(c) \/ ContainerEnds(c) \/ Collect(c)
    \/ Respond(c) \/ GiveUp(c) \/ RunDirectly(c)

(* At the beginning there are no calls.                                     *)
LEMMA SandboxStarts == SandboxInit => SandboxInv
BY DEF SandboxInit, SandboxInv, SandboxCall, SandboxThreads, Uncalled, CargoTrue, Cargo

(* A step of a call is one of no other call.                                *)
LEMMA SandboxCallMoves ==
    ASSUME SandboxInv, NEW c \in Calls, SandboxCallSteps(c)
    PROVE  /\ UNCHANGED <<runnerUp, settings>>
           /\ \E new : calls' = [calls EXCEPT ![c] = new]
BY DEF SandboxCallSteps, CallTool, Connect, StartContainer, ContainerEnds, Collect,
       Respond, Received, GiveUp, RunDirectly, Set

(* A step of a call makes of it another call that is true.                  *)
LEMMA SandboxCallStep ==
    ASSUME NEW c \in DOMAIN calls, NEW this \in SandboxCall, this = calls[c],
           CargoTrue(this), SandboxCallSteps(c), NEW new, new = calls'[c]
    PROVE  new \in SandboxCall /\ CargoTrue(new)
<1>2. ASSUME NEW req \in Requests, CallTool(c, req)
      PROVE  new \in SandboxCall /\ CargoTrue(new)
  <2>1. this = Uncalled
    BY <1>2 DEF CallTool, CargoTrue
  <2>2. \/ /\ new = [this EXCEPT !.req = req, !.at = "posted"]
        \/ /\ new = [this EXCEPT !.req = req, !.at = "direct"]
           /\ req.tool = "run_bash"
        \/ /\ new = [this EXCEPT !.req = req, !.at = "answered", !.answer = "rejected"]
    <3>1. CASE req.tool = "run_bash" /\ settings.url
      BY <1>2, <3>1 DEF CallTool, Set
    <3>2. CASE req.tool = "run_bash" /\ ~settings.url
      BY <1>2, <3>2 DEF CallTool, Set
    <3>3. CASE req.tool # "run_bash" /\ req.listed
      BY <1>2, <3>3 DEF CallTool, Set
    <3>4. CASE req.tool # "run_bash" /\ ~req.listed
      BY <1>2, <3>4 DEF CallTool, Set
    <3> QED
      BY <3>1, <3>2, <3>3, <3>4
  <2>3. new \in SandboxCall
    BY <2>2 DEF SandboxCall, SandboxThreads
  <2>4. /\ new.req = req /\ new.thread = "none" /\ new.box = "none" /\ new.direct = FALSE
        /\ \/ new.at = "posted" /\ new.answer = None
           \/ new.at = "direct" /\ new.answer = None /\ req.tool = "run_bash"
           \/ new.at = "answered" /\ new.answer = "rejected"
    <3>1. /\ this.thread = "none" /\ this.box = "none" /\ this.direct = FALSE
          /\ this.answer = None
      BY <2>1 DEF Uncalled
    <3> QED
      BY <2>2, <3>1 DEF SandboxCall
  <2> QED
    BY <2>3, <2>4, SandboxAssumption DEF CargoTrue, Cargo, ThreadTrue, AnswerTrue, Settled
<1>3. CASE Connect(c)
  <2>1. new = [this EXCEPT !.thread = "waits"] /\ this.thread = "none" /\ this.at = "posted"
    BY <1>3 DEF Connect, Set
  <2>2. new \in SandboxCall
    BY <2>1 DEF SandboxCall, SandboxThreads
  <2> QED
    BY <2>1, <2>2, SandboxAssumption
       DEF CargoTrue, Cargo, ThreadTrue, AnswerTrue, Settled, SandboxCall
<1>4. CASE StartContainer(c)
  <2>1. this.thread = "waits" /\ this.at # "idle"
    BY <1>4 DEF StartContainer
  <2>2. \/ \E t \in {"error", "rejected"} : new = [this EXCEPT !.thread = t]
        \/ new = [this EXCEPT !.thread = "runs", !.box = "running"]
    BY <1>4 DEF StartContainer, Set
  <2>3. new \in SandboxCall
    BY <2>2 DEF SandboxCall, SandboxThreads
  <2> QED
    BY <2>1, <2>2, <2>3 DEF CargoTrue, Cargo, ThreadTrue, AnswerTrue, Settled, SandboxCall
<1>5. CASE ContainerEnds(c)
  <2>1. this.box = "running"
    BY <1>5 DEF ContainerEnds
  <2>2. PICK end \in {"exit0", "exit1"} : new = [this EXCEPT !.box = end]
    BY <1>5 DEF ContainerEnds, Set
  <2>3. new \in SandboxCall
    BY <2>2 DEF SandboxCall, SandboxThreads
  <2> QED
    BY <2>1, <2>2, <2>3
       DEF CargoTrue, Cargo, ThreadTrue, AnswerTrue, Settled, SandboxCall, Uncalled
<1>6. CASE Collect(c)
  <2>1. PICK t \in {"ok", "failed", "error"} :
          /\ new = [this EXCEPT !.thread = t] /\ this.thread = "runs"
          /\ t = "ok" => this.box = "exit0"
          /\ t = "failed" => this.box = "exit1"
    BY <1>6 DEF Collect, Set
  <2>2. new \in SandboxCall
    BY <2>1 DEF SandboxCall, SandboxThreads
  <2> QED
    BY <2>1, <2>2
       DEF CargoTrue, Cargo, ThreadTrue, AnswerTrue, Settled, SandboxCall, Uncalled
<1>7. CASE Respond(c)
  <2>1. this.thread \in {"ok", "failed", "rejected", "error"}
    BY <1>7 DEF Respond
  <2>2. \/ new = [this EXCEPT !.thread = "over"] /\ this.at # "posted"
        \/ /\ new = [this EXCEPT !.at = "direct", !.thread = "over"]
           /\ this.at = "posted" /\ this.req.tool = "run_bash"
        \/ /\ new = [this EXCEPT !.at = "answered", !.thread = "over", !.answer = this.thread]
           /\ this.at = "posted"
    <3>1. CASE this.at # "posted"
      BY <1>7, <3>1 DEF Respond, Set
    <3>2. CASE this.at = "posted" /\ this.req.tool = "run_bash" /\ this.thread # "ok"
      BY <1>7, <3>2 DEF Respond, Received, Set
    <3>3. CASE this.at = "posted" /\ ~(this.req.tool = "run_bash" /\ this.thread # "ok")
      BY <1>7, <3>3 DEF Respond, Received, Set
    <3> QED
      BY <3>1, <3>2, <3>3
  <2>3. new \in SandboxCall
    BY <2>1, <2>2 DEF SandboxCall, SandboxThreads
  <2>4. this.at # "idle" /\ this.req \in Requests
    BY <2>1 DEF CargoTrue, Uncalled
  <2>5. /\ new.req = this.req /\ new.thread = "over"
        /\ new.box = this.box /\ new.direct = this.direct
    BY <2>2 DEF SandboxCall
  <2>6. \/ new.at = this.at /\ new.answer = this.answer
        \/ new.at = "direct" /\ this.req.tool = "run_bash"
        \/ new.at = "answered" /\ new.answer = this.thread
    BY <2>2 DEF SandboxCall
  <2> QED
    BY <2>1, <2>3, <2>4, <2>5, <2>6 DEF CargoTrue, Cargo, ThreadTrue, AnswerTrue, Settled
<1>8. CASE GiveUp(c)
  <2>1. this.at = "posted" /\ this.thread \in SandboxThreads
    BY <1>8 DEF GiveUp, SandboxCall
  <2>2. PICK at \in {"direct", "answered"}, a \in {None, "error"}, t \in {"over", this.thread} :
          /\ new = [this EXCEPT !.at = at, !.answer = a, !.thread = t]
          /\ at = "direct" => this.req.tool = "run_bash"
    BY <1>8 DEF GiveUp, Set
  <2>3. new \in SandboxCall
    BY <2>1, <2>2 DEF SandboxCall, SandboxThreads
  <2> QED
    BY <2>1, <2>2, <2>3, SandboxAssumption
       DEF CargoTrue, Cargo, ThreadTrue, AnswerTrue, Settled, SandboxCall
<1>9. CASE RunDirectly(c)
  <2>1. this.at = "direct" /\ ~Cargo(this)
    BY <1>9 DEF RunDirectly, CargoTrue
  <2>2. PICK d \in BOOLEAN, a \in {"ok", "failed", "timeout", "error", "rejected"} :
          new = [this EXCEPT !.at = "answered", !.direct = d, !.answer = a]
    <3>1. CASE this.req.allowed
      <4>1. PICK a \in {"ok", "failed", "timeout", "error"} :
              calls' = [calls EXCEPT ![c] = [this EXCEPT !.at = "answered", !.direct = TRUE, !.answer = a]]
        BY <1>9, <3>1 DEF RunDirectly, Set
      <4> QED
        BY <4>1
    <3>2. CASE ~this.req.allowed
      <4>1. new = [this EXCEPT !.at = "answered", !.answer = "rejected"]
        BY <1>9, <3>2 DEF RunDirectly, Set
      <4>2. this.direct \in BOOLEAN /\ new = [this EXCEPT !.at = "answered", !.direct = this.direct,
                                                       !.answer = "rejected"]
        BY <4>1 DEF SandboxCall
      <4> QED
        BY <4>2
    <3> QED
      BY <3>1, <3>2
  <2>3. new \in SandboxCall
    BY <2>2 DEF SandboxCall, SandboxThreads
  <2> QED
    BY <2>1, <2>2, <2>3 DEF CargoTrue, Cargo, SandboxCall
<1> QED
  BY <1>2, <1>3, <1>4, <1>5, <1>6, <1>7, <1>8, <1>9 DEF SandboxCallSteps

(* The invariant is inductive.                                              *)
LEMMA SandboxStep == SandboxInv /\ [SandboxNext]_sandboxVars => SandboxInv'
<1> SUFFICES ASSUME SandboxInv, [SandboxNext]_sandboxVars PROVE SandboxInv'
  OBVIOUS
<1>1. ASSUME NEW c \in Calls, SandboxCallSteps(c) PROVE SandboxInv'
  <2>1. PICK new : calls' = [calls EXCEPT ![c] = new]
    BY <1>1, SandboxCallMoves
  <2>2. new \in SandboxCall /\ CargoTrue(new)
    BY <1>1, <2>1, SandboxCallStep DEF SandboxInv
  <2>3. UNCHANGED <<runnerUp, settings>>
    BY <1>1, SandboxCallMoves
  <2> QED
    BY <2>1, <2>2, <2>3 DEF SandboxInv
<1>2. CASE RunnerDies
  <2>1. ASSUME NEW c \in Calls PROVE calls'[c] \in SandboxCall /\ CargoTrue(calls'[c])
    <3>1. calls[c] \in SandboxCall /\ CargoTrue(calls[c])
      BY DEF SandboxInv
    <3>2. calls'[c] = [calls[c] EXCEPT !.thread = IF @ = "none" THEN @ ELSE "over"]
      BY <1>2 DEF RunnerDies
    <3>3. calls'[c].at = calls[c].at /\ calls'[c].req = calls[c].req
      BY <3>1, <3>2 DEF SandboxCall
    <3>4. CASE calls[c].thread = "none"
      BY <3>1, <3>2, <3>4 DEF CargoTrue, Cargo, ThreadTrue, AnswerTrue, Settled, SandboxCall
    <3>5. CASE calls[c].thread # "none"
      <4>1. calls[c].at # "idle"
        BY <3>1, <3>5 DEF CargoTrue, Uncalled
      <4>2. calls'[c] = [calls[c] EXCEPT !.thread = "over"]
        BY <3>2, <3>5
      <4>3. calls'[c] \in SandboxCall
        BY <3>1, <4>2 DEF SandboxCall, SandboxThreads
      <4> QED
        BY <3>1, <4>1, <4>2, <4>3 DEF CargoTrue, Cargo, ThreadTrue, AnswerTrue, Settled, SandboxCall
    <3> QED
      BY <3>4, <3>5
  <2> QED
    BY <1>2, <2>1 DEF RunnerDies, SandboxInv
<1>3. CASE RunnerStarts
  BY <1>3 DEF RunnerStarts, SandboxInv
<1>4. CASE UNCHANGED sandboxVars
  BY <1>4 DEF sandboxVars, SandboxInv
<1> QED
  BY <1>1, <1>2, <1>3, <1>4 DEF SandboxNext, SandboxCallSteps

(* Whatever dies, times out or answers late, what run_cargo_command says of *)
(* a command is so, and it never runs one outside of a container.           *)
THEOREM CargoNeverLies == SandboxSpec => []CargoAnswersAreTrue
<1>1. SandboxInv => CargoAnswersAreTrue
  BY DEF SandboxInv, CargoTrue, Cargo, AnswerTrue, CargoAnswersAreTrue
<1> QED
  BY SandboxStarts, SandboxStep, <1>1, PTL DEF SandboxSpec

-----------------------------------------------------------------------------
(* The rate limit of the security toolkit.                                  *)

(* The times of a list from a time on.                                      *)
Since(list, moment) == {i \in DOMAIN list : list[i] >= moment}

(* The threads that wait for the lock with a time before.                   *)
Behind(checks, moment) ==
    {t \in Threads : checks[t] # None /\ checks[t].pc = "count" /\ checks[t].now < moment}

(* What a rule let through since a time of its window is counted still, but *)
(* for those whose time is older; a thread that may yet come with an older  *)
(* time has not.                                                            *)
Counted(rule, through, counter, checks, now) ==
    \A i \in DOMAIN through :
        now - through[i] < rule.window =>
            Len(through) - i + 1 + Cardinality(Behind(checks, through[i]))
                <= Cardinality(Since(counter, through[i])) + Cardinality(Threads)

GuardInv ==
    /\ GuardTypeOK
    /\ \A t \in Threads : call[t] # None /\ call[t].pc = "count" =>
         call[t].now <= clock /\ Matching(call[t].path) # {}
    /\ \A k \in Keys :
         /\ \A i \in DOMAIN admitted[k] : admitted[k][i] <= clock
         /\ Counted(Rules[k[1]], admitted[k], counters[k], call, clock)
    /\ OverrunIsBounded

(* Times are integers.                                                      *)
LEMMA IntLists ==
    ASSUME NEW S \in SUBSET Int, NEW s \in Seq(S)
    PROVE  s \in Seq(Int)
<1>1. /\ Len(s) \in Nat /\ DOMAIN s = 1..Len(s) /\ s = [i \in 1..Len(s) |-> s[i]]
      /\ \A i \in 1..Len(s) : s[i] \in S
  BY LenProperties, ElementOfSeq
<1>2. s \in [1..Len(s) -> Int]
  BY <1>1
<1> QED
  BY <1>1, <1>2

(* A time of a list, and where it is.                                       *)
LEMMA TimeOf ==
    ASSUME NEW s \in Seq(0..MaxClock), NEW i \in DOMAIN s
    PROVE  s[i] \in Nat /\ s[i] \in 0..MaxClock /\ i \in Nat /\ i >= 1 /\ i <= Len(s) /\ Len(s) \in Nat
<1>1. s[i] \in 0..MaxClock /\ MaxClock \in Nat
  BY ElementOfSeq, GuardAssumption
<1>2. DOMAIN s = 1..Len(s) /\ Len(s) \in Nat
  BY LenProperties
<1> QED
  BY <1>1, <1>2

(* The times that count on.                                                 *)
LEMMA SinceCounts ==
    ASSUME NEW list \in Seq(Int), NEW moment
    PROVE  /\ IsFiniteSet(Since(list, moment)) /\ Cardinality(Since(list, moment)) \in Nat
           /\ Cardinality(Since(list, moment)) <= Len(list)
<1>1. DOMAIN list = 1..Len(list) /\ Len(list) \in Nat
  BY LenProperties
<1>2. IsFiniteSet(1..Len(list)) /\ Cardinality(1..Len(list)) = Len(list)
  <2>1. 1 \in Int /\ Len(list) \in Int
    BY <1>1
  <2>2. /\ IsFiniteSet(1..Len(list))
        /\ Cardinality(1..Len(list)) = (IF 1 > Len(list) THEN 0 ELSE Len(list) - 1 + 1)
    BY <2>1, FS_Interval
  <2> QED
    BY <1>1, <2>2
<1>3. Since(list, moment) \subseteq 1..Len(list)
  BY <1>1 DEF Since
<1>4. IsFiniteSet(Since(list, moment)) /\ Cardinality(Since(list, moment)) <= Cardinality(1..Len(list))
  BY <1>2, <1>3, FS_Subset
<1> QED
  BY <1>2, <1>4, FS_CardinalityType

(* One time more.                                                           *)
LEMMA SinceMore ==
    ASSUME NEW list \in Seq(Int), NEW e \in Int, NEW moment
    PROVE  Cardinality(Since(Append(list, e), moment)) =
             Cardinality(Since(list, moment)) + IF e >= moment THEN 1 ELSE 0
<1> DEFINE more == Append(list, e)
           new == Len(list) + 1
<1>1. /\ DOMAIN list = 1..Len(list) /\ Len(list) \in Nat
      /\ DOMAIN more = 1..new /\ more[new] = e
      /\ \A i \in DOMAIN list : more[i] = list[i]
      /\ \A i \in DOMAIN more : i \in DOMAIN list \/ i = new
  BY OneMore
<1>2. new \notin DOMAIN list /\ new \in DOMAIN more /\ DOMAIN list \subseteq DOMAIN more
  BY <1>1
<1> HIDE DEF more, new
<1>3. IsFiniteSet(Since(list, moment)) /\ Cardinality(Since(list, moment)) \in Nat
  BY SinceCounts
<1>4. CASE e >= moment
  <2>1. Since(more, moment) = Since(list, moment) \cup {new}
    BY <1>1, <1>2, <1>4 DEF Since
  <2>2. new \notin Since(list, moment)
    BY <1>2 DEF Since
  <2>3. Cardinality(Since(more, moment)) = Cardinality(Since(list, moment)) + 1
    BY <1>3, <2>1, <2>2, FS_AddElement
  <2> QED
    BY <1>4, <2>3 DEF more
<1>5. CASE ~(e >= moment)
  <2>1. Since(more, moment) = Since(list, moment)
    BY <1>1, <1>2, <1>5 DEF Since
  <2> QED
    BY <1>3, <1>5, <2>1 DEF more
<1> QED
  BY <1>4, <1>5

(* Pruning keeps the times that are after the cutoff.                       *)
LEMMA PrunedList ==
    ASSUME NEW S \in SUBSET Int, NEW list \in Seq(S), NEW cutoff \in Int
    PROVE  /\ After(list, cutoff) \in Seq(S)
           /\ \A moment \in Int : moment > cutoff =>
                Cardinality(Since(After(list, cutoff), moment)) = Cardinality(Since(list, moment))
<1> DEFINE size == Len(list)
           Keep(f, n) == IF n = 0 THEN <<>>
                         ELSE IF list[n] > cutoff THEN Append(f[n - 1], list[n]) ELSE f[n - 1]
           Keeps(f, m) == f = [n \in 0..m |-> Keep(f, n)]
           Before(n, moment) == {i \in 1..n : list[i] >= moment}
<1>1. size \in Nat /\ DOMAIN list = 1..size
  BY LenProperties
<1>2. \A n \in 1..size : list[n] \in S /\ list[n] \in Int
  BY <1>1, ElementOfSeq
<1>12. \A s \in Seq(S) : s \in Seq(Int)
  BY IntLists
<1> HIDE DEF size
<1>3. \E f : Keeps(f, size)
  <2> DEFINE these == {m \in Nat : \E f : Keeps(f, m)}
  <2>1. 0 \in these
    <3>1. Keeps([n \in 0..0 |-> <<>>], 0)
      OBVIOUS
    <3> QED
      BY <3>1
  <2>2. ASSUME NEW m \in these PROVE m + 1 \in these
    <3>1. PICK f : Keeps(f, m)
      OBVIOUS
    <3> DEFINE g == [n \in 0..(m + 1) |-> IF n = m + 1 THEN Keep(f, m + 1) ELSE f[n]]
    <3>2. \A n \in 0..(m + 1) : n # 0 => n - 1 \in 0..m /\ g[n - 1] = f[n - 1]
      OBVIOUS
    <3>3. \A n \in 0..m : f[n] = Keep(f, n)
      BY <3>1
    <3>4. \A n \in 0..(m + 1) : g[n] = Keep(f, n) /\ Keep(f, n) = Keep(g, n)
      BY <3>2, <3>3
    <3>5. Keeps(g, m + 1)
      BY <3>4
    <3> HIDE DEF g, Keeps
    <3> QED
      BY <3>5
  <2>3. these = Nat
    <3> HIDE DEF these
    <3> QED
      BY <2>1, <2>2, Induction DEF these
  <2> QED
    BY <1>1, <2>3
<1> DEFINE kept == CHOOSE f : Keeps(f, size)
<1>4. Keeps(kept, size)
  <2> HIDE DEF Keeps
  <2> QED
    BY <1>3
<1>5. After(list, cutoff) = kept[size]
  BY DEF After, size
<1> HIDE DEF kept
<1>6. kept[0] = <<>> /\ \A n \in 1..size : kept[n] = IF list[n] > cutoff THEN Append(kept[n - 1], list[n]) ELSE kept[n - 1]
  <2>1. \A n \in 0..size : kept[n] = Keep(kept, n)
    BY <1>4
  <2>2. 0 \in 0..size /\ \A n \in 1..size : n \in 0..size /\ n # 0
    BY <1>1
  <2> HIDE DEF Keeps
  <2> QED
    BY <2>1, <2>2
<1> HIDE DEF Keeps, Keep
<1> DEFINE Right(n) == /\ kept[n] \in Seq(S)
                       /\ \A moment \in Int : moment > cutoff =>
                            Cardinality(Since(kept[n], moment)) = Cardinality(Before(n, moment))
           right == {n \in Nat : n <= size => Right(n)}
<1>7. 0 \in right
  <2>1. \A moment : Before(0, moment) = {} /\ Since(<<>>, moment) = {}
    BY DEF Since
  <2>2. <<>> \in Seq(S)
    OBVIOUS
  <2> HIDE DEF Before
  <2> QED
    BY <1>6, <2>1, <2>2
<1>8. ASSUME NEW n \in right PROVE n + 1 \in right
  <2> SUFFICES ASSUME n + 1 <= size PROVE Right(n + 1)
    OBVIOUS
  <2>1. n \in Nat /\ n + 1 \in 1..size /\ (n + 1) - 1 = n /\ Right(n)
    BY <1>1
  <2>2. list[n + 1] \in S /\ list[n + 1] \in Int
    BY <1>2, <2>1
  <2>3. kept[n] \in Seq(S) /\ kept[n] \in Seq(Int)
    BY <1>12, <2>1
  <2>4. kept[n + 1] = IF list[n + 1] > cutoff THEN Append(kept[n], list[n + 1]) ELSE kept[n]
    BY <1>6, <2>1
  <2>5. kept[n + 1] \in Seq(S)
    BY <2>2, <2>3, <2>4, AppendProperties
  <2>6. ASSUME NEW moment \in Int, moment > cutoff
        PROVE  Cardinality(Since(kept[n + 1], moment)) = Cardinality(Before(n + 1, moment))
    <3>1. Cardinality(Since(kept[n], moment)) = Cardinality(Before(n, moment))
      BY <2>1, <2>6
    <3>2. \A i : i \in 1..(n + 1) <=> i \in 1..n \/ i = n + 1
      BY <2>1
    <3>3. n + 1 \notin Before(n, moment) /\ IsFiniteSet(Before(n, moment))
      <4>1. n + 1 \notin 1..n /\ 1 \in Int /\ n \in Int
        BY <2>1
      <4>2. IsFiniteSet(1..n)
        BY <4>1, FS_Interval
      <4> QED
        BY <4>1, <4>2, FS_Subset
    <3>4. CASE list[n + 1] >= moment
      <4>1. Before(n + 1, moment) = Before(n, moment) \cup {n + 1}
        BY <3>2, <3>4
      <4>2. Cardinality(Before(n + 1, moment)) = Cardinality(Before(n, moment)) + 1
        <5> HIDE DEF Before
        <5> QED
          BY <3>3, <4>1, FS_AddElement
      <4>3. list[n + 1] > cutoff
        BY <2>2, <2>6, <3>4
      <4>4. Cardinality(Since(Append(kept[n], list[n + 1]), moment)) = Cardinality(Since(kept[n], moment)) + 1
        BY <2>2, <2>3, <3>4, SinceMore
      <4> HIDE DEF Before
      <4> QED
        BY <2>4, <3>1, <4>2, <4>3, <4>4
    <3>5. CASE ~(list[n + 1] >= moment)
      <4>1. Before(n + 1, moment) = Before(n, moment)
        BY <3>2, <3>5
      <4>2. Cardinality(Since(Append(kept[n], list[n + 1]), moment)) = Cardinality(Since(kept[n], moment))
        <5>1. Cardinality(Since(Append(kept[n], list[n + 1]), moment)) = Cardinality(Since(kept[n], moment)) + 0
          BY <2>2, <2>3, <3>5, SinceMore
        <5>2. Cardinality(Since(kept[n], moment)) \in Nat
          BY <2>3, SinceCounts
        <5> QED
          BY <5>1, <5>2
      <4> HIDE DEF Before
      <4> QED
        BY <2>4, <3>1, <4>1, <4>2
    <3> QED
      BY <3>4, <3>5
  <2> HIDE DEF Before
  <2> QED
    BY <2>5, <2>6
<1>9. right = Nat
  <2> HIDE DEF right
  <2> QED
    BY <1>7, <1>8, Induction DEF right
<1>10. Right(size)
  <2>1. size \in right
    BY <1>1, <1>9
  <2> HIDE DEF Right
  <2> QED
    BY <1>1, <2>1
<1>11. \A moment : Before(size, moment) = Since(list, moment)
  BY <1>1 DEF Since
<1> HIDE DEF Before
<1> QED
  BY <1>5, <1>10, <1>11

-----------------------------------------------------------------------------
(* The threads that are behind.                                             *)
LEMMA BehindCounts ==
    ASSUME NEW checks, NEW moment
    PROVE  /\ IsFiniteSet(Behind(checks, moment)) /\ Cardinality(Behind(checks, moment)) \in Nat
           /\ IsFiniteSet(Threads) /\ Cardinality(Threads) \in Nat
           /\ Cardinality(Behind(checks, moment)) <= Cardinality(Threads)
<1>1. IsFiniteSet(Threads) /\ Behind(checks, moment) \subseteq Threads
  BY GuardAssumption DEF Behind
<1> QED
  BY <1>1, FS_Subset, FS_CardinalityType

Checks == [pc : Pcs, ip : Ips, path : Paths, now : 0..MaxClock]

(* A thread that does not wait for the lock, or has just read the time, is  *)
(* not behind.                                                              *)
LEMMA BehindLess ==
    ASSUME NEW t \in Threads, NEW checks, NEW moment, NEW c, DOMAIN checks = Threads,
           c = None \/ c.pc # "count" \/ ~(c.now < moment)
    PROVE  /\ Cardinality(Behind([checks EXCEPT ![t] = c], moment)) <= Cardinality(Behind(checks, moment))
           /\ checks[t] # None /\ checks[t].pc = "count" /\ checks[t].now < moment =>
                Cardinality(Behind([checks EXCEPT ![t] = c], moment)) = Cardinality(Behind(checks, moment)) - 1
<1> DEFINE then == Behind([checks EXCEPT ![t] = c], moment)
           before == Behind(checks, moment)
<1>1. then = before \ {t}
  BY DEF Behind
<1>2. IsFiniteSet(before) /\ Cardinality(before) \in Nat
  BY BehindCounts
<1>3. t \in before <=> checks[t] # None /\ checks[t].pc = "count" /\ checks[t].now < moment
  BY DEF Behind
<1> HIDE DEF then, before
<1>4. Cardinality(then) <= Cardinality(before)
  BY <1>1, <1>2, FS_Subset
<1>5. t \in before => Cardinality(then) = Cardinality(before) - 1
  BY <1>1, <1>2, FS_RemoveElement
<1> QED
  BY <1>3, <1>4, <1>5 DEF then, before

(* The types of what a rule counts.                                         *)
LEMMA RuleTypes ==
    ASSUME NEW k \in Keys
    PROVE  /\ Rules[k[1]].limit \in Nat /\ Rules[k[1]].window \in Nat \ {0}
           /\ k[1] \in DOMAIN Rules /\ k[2] \in Ips /\ MaxClock \in Nat
<1>1. k[1] \in DOMAIN Rules /\ k[2] \in Ips
  BY DEF Keys
<1>2. Rules \in Seq([paths : SUBSET Paths, limit : Nat, window : Nat \ {0}]) /\ MaxClock \in Nat
  BY GuardAssumption
<1> DEFINE some == [paths : SUBSET Paths, limit : Nat, window : Nat \ {0}]
<1>3. Rules[k[1]] \in some
  <2> HIDE DEF some
  <2>1. Rules \in Seq(some)
    BY <1>2 DEF some
  <2> QED
    BY <1>1, <2>1, ElementOfSeq
<1> QED
  BY <1>1, <1>2, <1>3

(* A thread goes on outside the lock.                                       *)
LEMMA ThreadStep ==
    ASSUME GuardInv, NEW t \in Threads, NEW c \in Checks \cup {None}, call' = [call EXCEPT ![t] = c],
           UNCHANGED <<clock, allowed, blockedIps, counters, admitted>>,
           c # None /\ c.pc = "count" => c.now = clock /\ Matching(c.path) # {}
    PROVE  GuardInv'
<1>1. /\ clock' = clock /\ allowed' = allowed /\ blockedIps' = blockedIps
      /\ counters' = counters /\ admitted' = admitted
  OBVIOUS
<1>2. /\ call \in [Threads -> Checks \cup {None}] /\ clock \in Nat
      /\ call' \in [Threads -> Checks \cup {None}]
      /\ counters \in [Keys -> Seq(0..MaxClock)] /\ admitted \in [Keys -> Seq(0..MaxClock)]
  BY GuardAssumption DEF GuardInv, GuardTypeOK, Checks
<1>3. GuardTypeOK'
  BY <1>1, <1>2 DEF GuardInv, GuardTypeOK, Checks
<1>4. (\A a \in Threads : call[a] # None /\ call[a].pc = "count" =>
         call[a].now <= clock /\ Matching(call[a].path) # {})'
  <2> SUFFICES ASSUME NEW a \in Threads, call'[a] # None, call'[a].pc = "count"
               PROVE  call'[a].now <= clock /\ Matching(call'[a].path) # {}
    BY <1>1 DEF Matching
  <2>1. CASE a = t
    BY <1>2, <2>1
  <2>2. CASE a # t
    BY <1>2, <2>2 DEF GuardInv
  <2> QED
    BY <2>1, <2>2
<1>5. ASSUME NEW k \in Keys
      PROVE  Counted(Rules[k[1]], admitted[k], counters[k], call', clock)
  <2> SUFFICES ASSUME NEW i \in DOMAIN admitted[k], clock - admitted[k][i] < Rules[k[1]].window
               PROVE  Len(admitted[k]) - i + 1 + Cardinality(Behind(call', admitted[k][i]))
                        <= Cardinality(Since(counters[k], admitted[k][i])) + Cardinality(Threads)
    BY DEF Counted
  <2> DEFINE moment == admitted[k][i]
  <2>1. moment <= clock /\ moment \in Nat /\ i \in Nat /\ Len(admitted[k]) \in Nat
    <3>1. admitted[k] \in Seq(0..MaxClock)
      BY <1>2
    <3>2. moment \in Nat /\ i \in Nat /\ Len(admitted[k]) \in Nat
      BY <3>1, TimeOf
    <3> QED
      BY <3>2 DEF GuardInv
  <2>2. Len(admitted[k]) - i + 1 + Cardinality(Behind(call, moment))
           <= Cardinality(Since(counters[k], moment)) + Cardinality(Threads)
    BY DEF GuardInv, Counted
  <2> HIDE DEF moment
  <2>3. c = None \/ c.pc # "count" \/ ~(c.now < moment)
    BY <1>2, <2>1
  <2>4. Cardinality(Behind(call', moment)) <= Cardinality(Behind(call, moment))
    BY <1>2, <2>3, BehindLess
  <2>5. /\ Cardinality(Behind(call', moment)) \in Nat /\ Cardinality(Behind(call, moment)) \in Nat
        /\ Cardinality(Threads) \in Nat
    BY BehindCounts
  <2>6. Cardinality(Since(counters[k], moment)) \in Nat
    <3>1. counters[k] \in Seq(0..MaxClock)
      BY <1>2
    <3>2. counters[k] \in Seq(Int)
      <4>1. 0..MaxClock \in SUBSET Int
        OBVIOUS
      <4> QED
        BY <3>1, <4>1, IntLists
    <3> QED
      BY <3>2, SinceCounts
  <2>7. Len(admitted[k]) - i + 1 + Cardinality(Behind(call', moment))
           <= Cardinality(Since(counters[k], moment)) + Cardinality(Threads)
    BY <2>1, <2>2, <2>4, <2>5, <2>6
  <2> QED
    BY <2>7 DEF moment
<1>6. \A k \in Keys : \A i \in DOMAIN admitted[k] : admitted[k][i] <= clock
  BY DEF GuardInv
<1>7. (\A k \in Keys :
         /\ \A i \in DOMAIN admitted[k] : admitted[k][i] <= clock
         /\ Counted(Rules[k[1]], admitted[k], counters[k], call, clock))'
  BY <1>1, <1>5, <1>6 DEF Keys
<1>8. OverrunIsBounded'
  BY <1>1 DEF GuardInv, OverrunIsBounded, Keys
<1> QED
  BY <1>3, <1>4, <1>7, <1>8 DEF GuardInv

(* The first of the rules that match.                                       *)
LEMMA FirstRuleOf ==
    ASSUME NEW path, Matching(path) # {}
    PROVE  FirstRule(path) \in DOMAIN Rules
<1>1. DOMAIN Rules \subseteq Nat
  BY GuardAssumption, LenProperties
<1>2. Matching(path) \in SUBSET Nat
  BY <1>1 DEF Matching
<1>3. \E r \in Matching(path) : \A q \in Matching(path) : r <= q
  BY <1>2, LeastNatural
<1>4. FirstRule(path) \in Matching(path)
  BY <1>3 DEF FirstRule
<1> QED
  BY <1>4 DEF Matching

(* Terms moved to the other side of an equation.                            *)
LEMMA Moved ==
    ASSUME NEW i \in Nat, NEW m \in Nat, NEW n \in Nat, NEW s \in Nat, i + m + n = s + 1
    PROVE  s - i + 1 = m + n
  OBVIOUS

(* The locked part: a request is counted, or refused.                       *)
LEMMA CountStep ==
    ASSUME GuardInv, NEW t \in Threads, Count(t)
    PROVE  GuardInv'
<1> DEFINE key == <<FirstRule(call[t].path), call[t].ip>>
           young == Young(key, call[t].now)
           rule == Rules[key[1]]
           full == Len(young) >= rule.limit
           c == [call[t] EXCEPT !.pc = CASE full /\ young = <<>> -> "error"
                                         [] full /\ young # <<>> -> "429"
                                         [] OTHER -> "size"]
           stamp == call[t].now
           size == Len(admitted[key])
<1>1. /\ counters' = [counters EXCEPT ![key] = IF full THEN young ELSE Append(young, stamp)]
      /\ admitted' = [admitted EXCEPT ![key] = IF full THEN admitted[key] ELSE Append(admitted[key], clock)]
      /\ call[t] # None /\ call[t].pc = "count" /\ call' = [call EXCEPT ![t] = c]
      /\ clock' = clock /\ allowed' = allowed /\ blockedIps' = blockedIps
  BY DEF Count
<1>2. /\ call \in [Threads -> Checks \cup {None}] /\ clock \in 0..MaxClock /\ MaxClock \in Nat
      /\ counters \in [Keys -> Seq(0..MaxClock)] /\ admitted \in [Keys -> Seq(0..MaxClock)]
      /\ call[t] \in Checks
  BY <1>1, GuardAssumption DEF GuardInv, GuardTypeOK, Checks
<1>3. stamp <= clock /\ stamp \in 0..MaxClock /\ Matching(call[t].path) # {}
  BY <1>1, <1>2 DEF GuardInv, Checks
<1>4. key \in Keys
  <2>1. FirstRule(call[t].path) \in DOMAIN Rules /\ call[t].ip \in Ips
    BY <1>2, <1>3, FirstRuleOf DEF Checks
  <2> QED
    BY <2>1 DEF Keys
<1>5. c \in Checks /\ c.pc # "count"
  <2> DEFINE pc == CASE full /\ young = <<>> -> "error"
                     [] full /\ young # <<>> -> "429"
                     [] OTHER -> "size"
  <2>1. pc \in {"error", "429", "size"}
    OBVIOUS
  <2>2. c = [call[t] EXCEPT !.pc = pc]
    OBVIOUS
  <2> HIDE DEF pc, c
  <2>3. pc \in Pcs /\ pc # "count"
    BY <2>1 DEF Pcs, Answers
  <2> QED
    BY <1>2, <2>2, <2>3 DEF Checks
<1> HIDE DEF key, c
<1>6. rule.limit \in Nat /\ rule.window \in Nat \ {0}
  BY <1>4, RuleTypes
<1>7. /\ young \in Seq(0..MaxClock)
      /\ \A moment \in Int : clock - moment < rule.window =>
           Cardinality(Since(young, moment)) = Cardinality(Since(counters[key], moment))
  <2> DEFINE cutoff == stamp - rule.window
  <2>1. counters[key] \in Seq(0..MaxClock) /\ 0..MaxClock \in SUBSET Int
    BY <1>2, <1>4
  <2>2. cutoff \in Int
    BY <1>3, <1>6
  <2>3. young = After(counters[key], cutoff)
    BY DEF Young
  <2>4. \A moment \in Int : clock - moment < rule.window => moment > cutoff
    BY <1>2, <1>3, <1>6
  <2> HIDE DEF cutoff, young, rule
  <2> QED
    BY <2>1, <2>2, <2>3, <2>4, PrunedList
<1> HIDE DEF young
<1>8. Len(young) \in Nat /\ young \in Seq(Int) /\ admitted[key] \in Seq(0..MaxClock)
  BY <1>2, <1>4, <1>7, IntLists, LenProperties
<1>9. /\ (IF full THEN young ELSE Append(young, stamp)) \in Seq(0..MaxClock)
      /\ (IF full THEN admitted[key] ELSE Append(admitted[key], clock)) \in Seq(0..MaxClock)
  BY <1>2, <1>3, <1>7, <1>8, AppendProperties
<1> HIDE DEF full
<1>10. /\ counters' \in [Keys -> Seq(0..MaxClock)] /\ admitted' \in [Keys -> Seq(0..MaxClock)]
       /\ call' \in [Threads -> Checks \cup {None}]
  BY <1>1, <1>2, <1>4, <1>5, <1>9
<1>11. GuardTypeOK'
  BY <1>1, <1>10 DEF GuardInv, GuardTypeOK, Checks
<1>12. (\A a \in Threads : call[a] # None /\ call[a].pc = "count" =>
          call[a].now <= clock /\ Matching(call[a].path) # {})'
  <2> SUFFICES ASSUME NEW a \in Threads, call'[a] # None, call'[a].pc = "count"
               PROVE  call'[a].now <= clock /\ Matching(call'[a].path) # {}
    BY <1>1 DEF Matching
  <2>1. a # t
    BY <1>1, <1>2, <1>5
  <2> QED
    BY <1>1, <1>2, <2>1 DEF GuardInv
<1>13. \A moment : /\ Cardinality(Behind(call', moment)) <= Cardinality(Behind(call, moment))
                   /\ stamp < moment => Cardinality(Behind(call', moment)) = Cardinality(Behind(call, moment)) - 1
  BY <1>1, <1>2, <1>5, BehindLess
<1>14. \A moment : /\ Cardinality(Behind(call', moment)) \in Nat /\ Cardinality(Behind(call, moment)) \in Nat
                   /\ Cardinality(Threads) \in Nat
                   /\ Cardinality(Behind(call, moment)) <= Cardinality(Threads)
  BY BehindCounts
<1>15. \A k \in Keys : /\ Counted(Rules[k[1]], admitted[k], counters[k], call, clock)
                       /\ \A i \in DOMAIN admitted[k] : admitted[k][i] <= clock
  BY DEF GuardInv
<1>16. ASSUME NEW moment \in Nat
       PROVE  /\ Cardinality(Since(young, moment)) \in Nat /\ Cardinality(Since(young, moment)) <= Len(young)
              /\ Cardinality(Since(Append(young, stamp), moment)) =
                   Cardinality(Since(young, moment)) + IF stamp >= moment THEN 1 ELSE 0
  <2>1. stamp \in Int
    BY <1>3
  <2> QED
    BY <1>8, <2>1, SinceCounts, SinceMore
<1>17. ASSUME NEW i \in DOMAIN admitted[key], clock - admitted[key][i] < rule.window
       PROVE  /\ i \in Nat /\ admitted[key][i] \in Nat
              /\ size - i + 1 + Cardinality(Behind(call, admitted[key][i]))
                   <= Cardinality(Since(young, admitted[key][i])) + Cardinality(Threads)
  <2>1. i \in Nat /\ admitted[key][i] \in Nat
    BY <1>8, TimeOf
  <2>2. size - i + 1 + Cardinality(Behind(call, admitted[key][i]))
           <= Cardinality(Since(counters[key], admitted[key][i])) + Cardinality(Threads)
    BY <1>4, <1>15, <1>17 DEF Counted
  <2>3. admitted[key][i] \in Int
    BY <2>1
  <2>4. Cardinality(Since(young, admitted[key][i])) = Cardinality(Since(counters[key], admitted[key][i]))
    BY <1>7, <1>17, <2>3
  <2> QED
    BY <2>1, <2>2, <2>4
<1>18. size \in Nat /\ DOMAIN admitted[key] = 1..size
  BY <1>8, LenProperties
<1> HIDE DEF size
<1>19. ASSUME NEW k \in Keys, k # key
       PROVE  Counted(Rules[k[1]], admitted'[k], counters'[k], call', clock)
  <2>1. admitted'[k] = admitted[k] /\ counters'[k] = counters[k]
    BY <1>1, <1>2, <1>19
  <2>2. ASSUME NEW i \in DOMAIN admitted[k], clock - admitted[k][i] < Rules[k[1]].window
        PROVE  Len(admitted[k]) - i + 1 + Cardinality(Behind(call', admitted[k][i]))
                 <= Cardinality(Since(counters[k], admitted[k][i])) + Cardinality(Threads)
    <3>1. Len(admitted[k]) - i + 1 + Cardinality(Behind(call, admitted[k][i]))
            <= Cardinality(Since(counters[k], admitted[k][i])) + Cardinality(Threads)
      BY <1>15, <2>2 DEF Counted
    <3>2. admitted[k] \in Seq(0..MaxClock) /\ counters[k] \in Seq(0..MaxClock)
      BY <1>2
    <3>3. i \in Nat /\ Len(admitted[k]) \in Nat
      BY <3>2, TimeOf
    <3>4. Cardinality(Since(counters[k], admitted[k][i])) \in Nat
      <4>1. 0..MaxClock \in SUBSET Int
        OBVIOUS
      <4>2. counters[k] \in Seq(Int)
        BY <3>2, <4>1, IntLists
      <4> QED
        BY <4>2, SinceCounts
    <3> DEFINE was == Cardinality(Behind(call, admitted[k][i]))
               is == Cardinality(Behind(call', admitted[k][i]))
    <3>5. is <= was /\ is \in Nat /\ was \in Nat /\ Cardinality(Threads) \in Nat
      BY <1>13, <1>14
    <3> HIDE DEF was, is
    <3>6. Len(admitted[k]) - i + 1 + was <= Cardinality(Since(counters[k], admitted[k][i])) + Cardinality(Threads)
      BY <3>1 DEF was
    <3>7. Len(admitted[k]) - i + 1 + is <= Cardinality(Since(counters[k], admitted[k][i])) + Cardinality(Threads)
      BY <3>3, <3>4, <3>5, <3>6
    <3> QED
      BY <3>7 DEF is
  <2> QED
    BY <2>1, <2>2 DEF Counted
<1>20. CASE full
  <2>1. counters'[key] = young /\ admitted' = admitted
    BY <1>1, <1>2, <1>4, <1>20
  <2>2. Counted(rule, admitted[key], young, call', clock)
    <3> SUFFICES ASSUME NEW i \in DOMAIN admitted[key], clock - admitted[key][i] < rule.window
                 PROVE  Len(admitted[key]) - i + 1 + Cardinality(Behind(call', admitted[key][i]))
                          <= Cardinality(Since(young, admitted[key][i])) + Cardinality(Threads)
      BY DEF Counted
    <3> DEFINE was == Cardinality(Behind(call, admitted[key][i]))
               is == Cardinality(Behind(call', admitted[key][i]))
               counts == Cardinality(Since(young, admitted[key][i]))
    <3>1. i \in Nat /\ admitted[key][i] \in Nat /\ size - i + 1 + was <= counts + Cardinality(Threads)
      BY <1>17
    <3>2. is <= was /\ is \in Nat /\ was \in Nat /\ Cardinality(Threads) \in Nat
      BY <1>13, <1>14
    <3>3. counts \in Nat
      BY <1>16, <3>1
    <3> HIDE DEF was, is, counts
    <3>4. size - i + 1 + is <= counts + Cardinality(Threads)
      BY <1>18, <3>1, <3>2, <3>3
    <3> QED
      BY <3>4 DEF is, counts, size
  <2>3. (\A k \in Keys :
           /\ \A i \in DOMAIN admitted[k] : admitted[k][i] <= clock
           /\ Counted(Rules[k[1]], admitted[k], counters[k], call, clock))'
    <3>1. \A k \in Keys : Counted(Rules[k[1]], admitted'[k], counters'[k], call', clock)
      BY <1>19, <2>1, <2>2
    <3> QED
      BY <1>1, <1>15, <2>1, <3>1 DEF Keys
  <2>4. OverrunIsBounded'
    BY <2>1 DEF GuardInv, OverrunIsBounded, Keys
  <2> QED
    BY <1>11, <1>12, <2>3, <2>4 DEF GuardInv
<1>21. CASE ~full
  <2> DEFINE more == Append(admitted[key], clock)
             times == Append(young, stamp)
             new == size + 1
  <2>1. counters'[key] = times /\ admitted'[key] = more /\ \A k \in Keys : k # key => admitted'[k] = admitted[k]
    BY <1>1, <1>2, <1>4, <1>21
  <2>2. /\ DOMAIN more = 1..new /\ Len(more) = new /\ more[new] = clock
        /\ \A i \in DOMAIN admitted[key] : more[i] = admitted[key][i]
        /\ \A i \in DOMAIN more : i \in DOMAIN admitted[key] \/ i = new
    <3>1. Len(more) = new /\ more \in Seq(0..MaxClock)
      BY <1>2, <1>8, AppendProperties DEF size
    <3> HIDE DEF new
    <3>2. DOMAIN more = 1..new
      BY <3>1, LenProperties
    <3> QED
      BY <1>2, <1>8, <3>1, <3>2, OneMore DEF size, new
  <2> HIDE DEF more, times
  <2>3. Len(young) < rule.limit
    BY <1>6, <1>8, <1>21 DEF full
  <2>4. Counted(rule, more, times, call', clock)
    <3> SUFFICES ASSUME NEW i \in DOMAIN more, clock - more[i] < rule.window
                 PROVE  Len(more) - i + 1 + Cardinality(Behind(call', more[i]))
                          <= Cardinality(Since(times, more[i])) + Cardinality(Threads)
      BY DEF Counted
    <3> DEFINE was == Cardinality(Behind(call, more[i]))
               is == Cardinality(Behind(call', more[i]))
               counts == Cardinality(Since(young, more[i]))
               adds == IF stamp >= more[i] THEN 1 ELSE 0
    <3>1. more[i] \in Nat
      <4>1. clock \in Nat
        BY <1>2
      <4> QED
        BY <1>8, <2>2, <4>1, TimeOf
    <3>2. /\ is <= was /\ is \in Nat /\ was \in Nat /\ Cardinality(Threads) \in Nat
          /\ was <= Cardinality(Threads) /\ (stamp < more[i] => is = was - 1)
      BY <1>13, <1>14
    <3>3. counts \in Nat /\ Cardinality(Since(times, more[i])) = counts + adds
      BY <1>16, <3>1 DEF times
    <3>4. adds \in Nat /\ (adds = 0 => stamp < more[i]) /\ adds <= 1
      BY <1>3, <3>1
    <3>5. CASE i \in DOMAIN admitted[key]
      <4>1. i \in Nat /\ size - i + 1 + was <= counts + Cardinality(Threads)
        BY <1>17, <2>2, <3>5
      <4> HIDE DEF was, is, counts, adds
      <4>2. new - i + 1 + is <= counts + adds + Cardinality(Threads)
        BY <1>18, <3>2, <3>3, <3>4, <4>1
      <4> QED
        BY <2>2, <3>3, <4>2 DEF is
    <3>6. CASE i = new
      <4> HIDE DEF was, is, counts, adds
      <4>1. new - i + 1 = 1
        BY <1>18, <3>6
      <4>2. 1 + is <= counts + adds + Cardinality(Threads)
        BY <3>2, <3>3, <3>4
      <4> QED
        BY <2>2, <3>3, <4>1, <4>2 DEF is
    <3> QED
      BY <2>2, <3>5, <3>6
  <2>5. (\A k \in Keys :
           /\ \A i \in DOMAIN admitted[k] : admitted[k][i] <= clock
           /\ Counted(Rules[k[1]], admitted[k], counters[k], call, clock))'
    <3>1. \A k \in Keys : Counted(Rules[k[1]], admitted'[k], counters'[k], call', clock)
      BY <1>19, <2>1, <2>4
    <3>2. \A k \in Keys : \A i \in DOMAIN admitted'[k] : admitted'[k][i] <= clock
      <4>1. clock <= clock
        BY <1>2
      <4> QED
        BY <1>4, <1>15, <2>1, <2>2, <4>1
    <3> QED
      BY <1>1, <3>1, <3>2 DEF Keys
  <2>6. ASSUME NEW i \in DOMAIN more, i + rule.limit + Cardinality(Threads) \in DOMAIN more
        PROVE  more[i + rule.limit + Cardinality(Threads)] - more[i] >= rule.window
    <3> DEFINE j == i + rule.limit + Cardinality(Threads)
    <3>1. Cardinality(Threads) \in Nat
      BY <1>14
    <3>2. CASE j \in DOMAIN admitted[key]
      <4>1. i \in DOMAIN admitted[key]
        BY <1>6, <1>18, <2>2, <2>6, <3>1, <3>2
      <4>2. admitted[key][j] - admitted[key][i] >= rule.window
        BY <1>4, <3>2, <4>1 DEF GuardInv, OverrunIsBounded
      <4> QED
        BY <2>2, <3>2, <4>1, <4>2
    <3>3. CASE j = new
      <4>1. CASE i = new
        <5>1. rule.limit = 0 /\ Cardinality(Threads) = 0
          BY <1>6, <1>18, <3>1, <3>3, <4>1
        <5> QED
          BY <1>6, <1>8, <2>3, <5>1
      <4>2. CASE i \in DOMAIN admitted[key] /\ clock - admitted[key][i] < rule.window
        <5> DEFINE was == Cardinality(Behind(call, admitted[key][i]))
                   counts == Cardinality(Since(young, admitted[key][i]))
        <5>1. i \in Nat /\ admitted[key][i] \in Nat /\ size - i + 1 + was <= counts + Cardinality(Threads)
          BY <1>17, <4>2
        <5>2. was \in Nat
          BY <1>14
        <5>3. counts <= Len(young) /\ counts \in Nat
          BY <1>16, <5>1
        <5> HIDE DEF was, counts
        <5>4. size - i + 1 = rule.limit + Cardinality(Threads)
          <6>1. i + rule.limit + Cardinality(Threads) = size + 1
            BY <3>3
          <6>2. /\ rule.limit \in Nat /\ Cardinality(Threads) \in Nat
                /\ i \in Nat /\ size \in Nat
            BY <1>6, <1>18, <3>1, <5>1
          <6> QED
            BY <6>1, <6>2, Moved
        <5>5. rule.limit <= Len(young)
          BY <1>6, <1>8, <3>1, <5>1, <5>2, <5>3, <5>4
        <5> QED
          BY <1>6, <1>8, <2>3, <5>5
      <4>3. CASE i \in DOMAIN admitted[key] /\ ~(clock - admitted[key][i] < rule.window)
        <5>1. admitted[key][i] \in Nat /\ clock \in Nat
          BY <1>2, <1>8, <4>3, TimeOf
        <5>2. more[j] = clock /\ more[i] = admitted[key][i]
          BY <2>2, <3>3, <4>3
        <5> QED
          BY <1>6, <4>3, <5>1, <5>2
      <4> QED
        BY <2>2, <4>1, <4>2, <4>3
    <3> QED
      BY <2>2, <2>6, <3>2, <3>3
  <2>7. OverrunIsBounded'
    <3> SUFFICES ASSUME NEW k \in Keys, NEW i \in DOMAIN admitted'[k],
                        i + Rules[k[1]].limit + Cardinality(Threads) \in DOMAIN admitted'[k]
                 PROVE  admitted'[k][i + Rules[k[1]].limit + Cardinality(Threads)] - admitted'[k][i]
                          >= Rules[k[1]].window
      BY DEF OverrunIsBounded, Keys
    <3>1. CASE k = key
      BY <2>1, <2>6, <3>1
    <3>2. CASE k # key
      <4>1. admitted'[k] = admitted[k]
        BY <2>1, <3>2
      <4> QED
        BY <4>1 DEF GuardInv, OverrunIsBounded
    <3> QED
      BY <3>1, <3>2
  <2> QED
    BY <1>11, <1>12, <2>5, <2>7 DEF GuardInv
<1> QED
  BY <1>20, <1>21

(* A network is taken out of a list, or not.                                *)
LEMMA FewerNetworks ==
    ASSUME NEW list \in Seq(Ips), NEW ip
    PROVE  RemoveFirst(list, ip) \in Seq(Ips)
<1>1. DOMAIN list = 1..Len(list) /\ Len(list) \in Nat
  BY LenProperties
<1>2. CASE ~In(list, ip)
  BY <1>2 DEF RemoveFirst
<1>3. CASE In(list, ip)
  <2> DEFINE places == {i \in DOMAIN list : list[i] = ip}
             first == CHOOSE i \in DOMAIN list : list[i] = ip /\ \A j \in 1..(i - 1) : list[j] # ip
  <2>1. PICK i \in places : \A j \in places : i <= j
    <3>1. places # {} /\ places \in SUBSET Nat
      BY <1>1, <1>3 DEF In
    <3> HIDE DEF places
    <3> QED
      BY <3>1, LeastNatural
  <2>2. \A j \in 1..(i - 1) : list[j] # ip
    <3> SUFFICES ASSUME NEW j \in 1..(i - 1), list[j] = ip PROVE FALSE
      OBVIOUS
    <3>1. j \in places /\ ~(i <= j)
      BY <1>1
    <3> QED
      BY <2>1, <3>1
  <2>3. first \in DOMAIN list
    BY <2>1, <2>2
  <2>4. RemoveFirst(list, ip) = SubSeq(list, 1, first - 1) \o SubSeq(list, first + 1, Len(list))
    BY <1>3 DEF RemoveFirst
  <2> HIDE DEF first
  <2>5. first \in Nat /\ first >= 1 /\ first <= Len(list)
    BY <1>1, <2>3
  <2>6. SubSeq(list, 1, first - 1) \in Seq(Ips) /\ SubSeq(list, first + 1, Len(list)) \in Seq(Ips)
    <3>1. first \in 0..Len(list) /\ first - 1 \in 0..Len(list)
      BY <1>1, <2>5
    <3> QED
      BY <3>1, CutSequence
  <2> QED
    BY <2>4, <2>6, ConcatProperties
<1> QED
  BY <1>2, <1>3

(* What a rule let through since is counted still, but for the threads that *)
(* were behind. (check_rate_limit)                                          *)
THEOREM GuardInductive == GuardSpec => []GuardInv
<1>1. ASSUME GuardInit PROVE GuardInv
  <2>1. /\ clock = 0 /\ allowed = <<>> /\ blockedIps = <<>> /\ call = [t \in Threads |-> None]
        /\ counters = [k \in Keys |-> <<>>] /\ admitted = [k \in Keys |-> <<>>] /\ MaxClock \in Nat
    BY <1>1, GuardAssumption DEF GuardInit
  <2>2. \A S : <<>> \in Seq(S)
    OBVIOUS
  <2>3. GuardTypeOK
    BY <2>1, <2>2 DEF GuardTypeOK
  <2>4. \A k \in Keys :
          /\ \A i \in DOMAIN admitted[k] : admitted[k][i] <= clock
          /\ Counted(Rules[k[1]], admitted[k], counters[k], call, clock)
    BY <2>1 DEF Counted
  <2>5. OverrunIsBounded
    BY <2>1 DEF OverrunIsBounded
  <2> QED
    BY <2>1, <2>3, <2>4, <2>5 DEF GuardInv
<1>2. ASSUME GuardInv, [GuardNext]_guardVars PROVE GuardInv'
  <2>1. /\ call \in [Threads -> Checks \cup {None}] /\ clock \in 0..MaxClock /\ MaxClock \in Nat
        /\ counters \in [Keys -> Seq(0..MaxClock)] /\ admitted \in [Keys -> Seq(0..MaxClock)]
        /\ allowed \in Seq(Ips) /\ blockedIps \in Seq(Ips)
    BY <1>2, GuardAssumption DEF GuardInv, GuardTypeOK, Checks
  <2>2. ASSUME UNCHANGED <<clock, counters, call, admitted>>, allowed' \in Seq(Ips), blockedIps' \in Seq(Ips)
        PROVE  GuardInv'
    <3>1. clock' = clock /\ counters' = counters /\ call' = call /\ admitted' = admitted
      BY <2>2
    <3>2. GuardTypeOK'
      BY <1>2, <2>2, <3>1 DEF GuardInv, GuardTypeOK
    <3>3. (\A k \in Keys :
             /\ \A i \in DOMAIN admitted[k] : admitted[k][i] <= clock
             /\ Counted(Rules[k[1]], admitted[k], counters[k], call, clock))'
      BY <1>2, <3>1 DEF GuardInv, Keys
    <3>4. OverrunIsBounded'
      BY <1>2, <3>1 DEF GuardInv, OverrunIsBounded, Keys
    <3>5. (\A a \in Threads : call[a] # None /\ call[a].pc = "count" =>
             call[a].now <= clock /\ Matching(call[a].path) # {})'
      BY <1>2, <3>1 DEF GuardInv, Matching
    <3> QED
      BY <3>2, <3>3, <3>4, <3>5 DEF GuardInv
  <2>3. CASE UNCHANGED guardVars
    BY <2>1, <2>2, <2>3 DEF guardVars
  <2>4. ASSUME NEW ip \in Ips, Configure(ip) PROVE GuardInv'
    <3>1. Append(allowed, ip) \in Seq(Ips) /\ Append(blockedIps, ip) \in Seq(Ips)
      BY <2>1, AppendProperties
    <3>2. RemoveFirst(allowed, ip) \in Seq(Ips) /\ RemoveFirst(blockedIps, ip) \in Seq(Ips)
      BY <2>1, FewerNetworks
    <3>3. allowed' \in Seq(Ips) /\ blockedIps' \in Seq(Ips)
      BY <2>1, <2>4, <3>1, <3>2 DEF Configure
    <3> QED
      BY <2>2, <2>4, <3>3 DEF Configure
  <2>5. ASSUME NEW t \in Threads, NEW ip \in Ips, NEW path \in Paths, Arrive(t, ip, path) PROVE GuardInv'
    <3> DEFINE c == Call("filter", ip, path, 0)
    <3>1. c \in Checks /\ c.pc # "count"
      BY <2>1 DEF Call, Checks, Pcs
    <3>2. call' = [call EXCEPT ![t] = c] /\ UNCHANGED <<clock, allowed, blockedIps, counters, admitted>>
      BY <2>5 DEF Arrive
    <3> HIDE DEF c
    <3> QED
      BY <1>2, <3>1, <3>2, ThreadStep
  <2>6. ASSUME NEW t \in Threads, NEW pc \in Pcs \ {"count"}, call[t] # None,
               call' = [call EXCEPT ![t].pc = pc],
               UNCHANGED <<clock, allowed, blockedIps, counters, admitted>>
        PROVE  GuardInv'
    <3> DEFINE c == [call[t] EXCEPT !.pc = pc]
    <3>1. c \in Checks /\ c.pc # "count"
      BY <2>1, <2>6 DEF Checks
    <3>2. call' = [call EXCEPT ![t] = c]
      BY <2>6
    <3> HIDE DEF c
    <3> QED
      BY <1>2, <2>6, <3>1, <3>2, ThreadStep
  <2>7. ASSUME NEW t \in Threads, FilterIp(t) PROVE GuardInv'
    <3> DEFINE pc == IF IsAllowed(call[t].ip) THEN "stamp" ELSE "403"
    <3>1. pc \in {"stamp", "403"}
      OBVIOUS
    <3>2. call' = [call EXCEPT ![t].pc = pc]
      BY <2>7 DEF FilterIp
    <3> HIDE DEF pc
    <3>3. pc \in Pcs \ {"count"}
      BY <3>1 DEF Pcs, Answers
    <3> QED
      BY <2>6, <2>7, <3>2, <3>3 DEF FilterIp
  <2>8. ASSUME NEW t \in Threads, SizeAndType(t) PROVE GuardInv'
    <3>1. PICK pc \in {"ok", "413", "415"} : call' = [call EXCEPT ![t].pc = pc]
      BY <2>8 DEF SizeAndType
    <3>2. pc \in Pcs \ {"count"}
      BY DEF Pcs, Answers
    <3> QED
      BY <2>6, <2>8, <3>1, <3>2 DEF SizeAndType
  <2>9. ASSUME NEW t \in Threads, ReadClock(t) PROVE GuardInv'
    <3> DEFINE pc == IF Matching(call[t].path) = {} THEN "size" ELSE "count"
               c == [call[t] EXCEPT !.now = clock, !.pc = pc]
    <3>1. pc \in {"size", "count"} /\ (pc = "count" => Matching(call[t].path) # {})
      OBVIOUS
    <3>2. call' = [call EXCEPT ![t] = c] /\ call[t] # None
      BY <2>1, <2>9 DEF ReadClock
    <3> HIDE DEF pc
    <3>3. pc \in Pcs
      BY <3>1 DEF Pcs
    <3>4. c \in Checks /\ c.pc = pc /\ c.now = clock /\ c.path = call[t].path
      BY <2>1, <3>2, <3>3 DEF Checks
    <3> HIDE DEF c
    <3> QED
      BY <1>2, <2>9, <3>1, <3>2, <3>4, ThreadStep DEF ReadClock
  <2>10. ASSUME NEW t \in Threads, Answered(t) PROVE GuardInv'
    BY <1>2, <2>10, ThreadStep DEF Answered
  <2>11. ASSUME NEW gone \in SUBSET Keys, UNCHANGED <<clock, allowed, blockedIps, call>>,
                counters' = [k \in Keys |-> IF k \in gone THEN <<>> ELSE counters[k]],
                admitted' = [k \in Keys |-> IF k \in gone THEN <<>> ELSE admitted[k]]
         PROVE  GuardInv'
    <3>1. \A S : <<>> \in Seq(S)
      OBVIOUS
    <3>2. GuardTypeOK'
      BY <1>2, <2>1, <2>11, <3>1 DEF GuardInv, GuardTypeOK
    <3>3. (\A k \in Keys :
             /\ \A i \in DOMAIN admitted[k] : admitted[k][i] <= clock
             /\ Counted(Rules[k[1]], admitted[k], counters[k], call, clock))'
      <4> SUFFICES ASSUME NEW k \in Keys
                   PROVE  /\ \A i \in DOMAIN admitted'[k] : admitted'[k][i] <= clock
                          /\ Counted(Rules[k[1]], admitted'[k], counters'[k], call, clock)
        BY <2>11 DEF Keys
      <4>1. CASE k \in gone
        BY <2>11, <4>1 DEF Counted
      <4>2. CASE k \notin gone
        BY <1>2, <2>11, <4>2 DEF GuardInv
      <4> QED
        BY <4>1, <4>2
    <3>4. OverrunIsBounded'
      <4> SUFFICES ASSUME NEW k \in Keys, NEW i \in DOMAIN admitted'[k],
                          i + Rules[k[1]].limit + Cardinality(Threads) \in DOMAIN admitted'[k]
                   PROVE  admitted'[k][i + Rules[k[1]].limit + Cardinality(Threads)] - admitted'[k][i]
                            >= Rules[k[1]].window
        BY DEF OverrunIsBounded, Keys
      <4>1. k \notin gone /\ admitted'[k] = admitted[k]
        BY <2>11
      <4> QED
        BY <1>2, <4>1 DEF GuardInv, OverrunIsBounded
    <3>5. (\A a \in Threads : call[a] # None /\ call[a].pc = "count" =>
             call[a].now <= clock /\ Matching(call[a].path) # {})'
      BY <1>2, <2>11 DEF GuardInv, Matching
    <3> QED
      BY <3>2, <3>3, <3>4, <3>5 DEF GuardInv
  <2>12. ASSUME NEW ip \in Ips, Reset(ip) PROVE GuardInv'
    <3> DEFINE gone == {k \in Keys : <<ip, k[2]>> \in Within}
    <3>1. /\ counters' = [k \in Keys |-> IF k \in gone THEN <<>> ELSE counters[k]]
          /\ admitted' = [k \in Keys |-> IF k \in gone THEN <<>> ELSE admitted[k]]
      BY <2>12 DEF Reset
    <3>2. gone \in SUBSET Keys
      OBVIOUS
    <3> HIDE DEF gone
    <3> QED
      BY <2>11, <2>12, <3>1, <3>2 DEF Reset
  <2>13. CASE ResetAll
    <3>1. /\ counters' = [k \in Keys |-> IF k \in Keys THEN <<>> ELSE counters[k]]
          /\ admitted' = [k \in Keys |-> IF k \in Keys THEN <<>> ELSE admitted[k]]
      BY <2>13 DEF ResetAll
    <3>2. Keys \in SUBSET Keys
      OBVIOUS
    <3> QED
      BY <2>11, <2>13, <3>1, <3>2 DEF ResetAll
  <2>14. CASE ClockTicks
    <3>1. /\ clock < MaxClock /\ clock' = clock + 1 /\ allowed' = allowed /\ blockedIps' = blockedIps
          /\ counters' = counters /\ call' = call /\ admitted' = admitted
      BY <2>14 DEF ClockTicks
    <3>2. clock' \in 0..MaxClock /\ clock \in Nat
      BY <2>1, <3>1
    <3>3. GuardTypeOK'
      BY <1>2, <3>1, <3>2 DEF GuardInv, GuardTypeOK
    <3>4. ASSUME NEW k \in Keys
          PROVE  /\ \A i \in DOMAIN admitted[k] : admitted[k][i] <= clock'
                 /\ Counted(Rules[k[1]], admitted[k], counters[k], call, clock')
      <4>1. admitted[k] \in Seq(0..MaxClock)
        BY <2>1
      <4>2. \A i \in DOMAIN admitted[k] : admitted[k][i] \in Nat /\ admitted[k][i] <= clock
        BY <1>2, <4>1, TimeOf DEF GuardInv
      <4>3. Rules[k[1]].window \in Nat
        BY RuleTypes
      <4>4. \A i \in DOMAIN admitted[k] :
              clock' - admitted[k][i] < Rules[k[1]].window => clock - admitted[k][i] < Rules[k[1]].window
        BY <3>1, <3>2, <4>2, <4>3
      <4>5. Counted(Rules[k[1]], admitted[k], counters[k], call, clock)
        BY <1>2 DEF GuardInv
      <4>6. Counted(Rules[k[1]], admitted[k], counters[k], call, clock')
        BY <4>4, <4>5 DEF Counted
      <4>7. \A i \in DOMAIN admitted[k] : admitted[k][i] <= clock'
        BY <3>1, <3>2, <4>2
      <4> QED
        BY <4>6, <4>7
    <3>5. (\A k \in Keys :
             /\ \A i \in DOMAIN admitted[k] : admitted[k][i] <= clock
             /\ Counted(Rules[k[1]], admitted[k], counters[k], call, clock))'
      BY <3>1, <3>4 DEF Keys
    <3>6. OverrunIsBounded'
      BY <1>2, <3>1 DEF GuardInv, OverrunIsBounded, Keys
    <3>7. (\A a \in Threads : call[a] # None /\ call[a].pc = "count" =>
             call[a].now <= clock /\ Matching(call[a].path) # {})'
      <4> SUFFICES ASSUME NEW a \in Threads, call[a] # None, call[a].pc = "count"
                   PROVE  call[a].now <= clock' /\ Matching(call[a].path) # {}
        BY <3>1 DEF Matching
      <4>1. call[a].now <= clock /\ Matching(call[a].path) # {} /\ call[a].now \in 0..MaxClock
        BY <1>2, <2>1 DEF GuardInv, Checks
      <4> QED
        BY <3>1, <3>2, <4>1
    <3> QED
      BY <3>3, <3>5, <3>6, <3>7 DEF GuardInv
  <2> QED
    BY <1>2, <2>3, <2>4, <2>5, <2>7, <2>8, <2>9, <2>10, <2>12, <2>13, <2>14, CountStep DEF GuardNext
<1> QED
  BY <1>1, <1>2, PTL DEF GuardSpec

(* In the time of one window a rule lets through its limit and at most one  *)
(* request more per thread. (check_rate_limit)                              *)
THEOREM OverrunStaysBounded == GuardSpec => []OverrunIsBounded
<1>1. GuardInv => OverrunIsBounded
  BY DEF GuardInv
<1> QED
  BY <1>1, GuardInductive, PTL

(* The lists of the filter, the counters and the checks have their types.   *)
THEOREM GuardTypesHold == GuardSpec => []GuardTypeOK
<1>1. GuardInv => GuardTypeOK
  BY DEF GuardInv
<1> QED
  BY <1>1, GuardInductive, PTL

-----------------------------------------------------------------------------
(* The chat gateways.                                                       *)

(* What is for a message, and what it may still send: nothing before its    *)
(* turn, then the next parts of its answer or one word.                     *)
Replied(u, m, list, rounds) ==
    LET own == About(list, m)
        made == About(rounds, m) # {}
    IN  /\ u.at = "chat" => u.allowed /\ u.kind = "text"
        /\ u.at \in {"arrived", "chat"} => own = {} /\ ~made
        /\ made => u.allowed /\ u.kind = "text"
        /\ ~u.allowed => \A i \in own : list[i].item.what = "refused"
        /\ \A i \in own :
             IF list[i].item.what = "part"
             THEN list[i].item.n = Cardinality({j \in own : j <= i}) /\ made
             ELSE \A j \in own : j <= i
        /\ u.at = "send" /\ u.todo # <<>> =>
             /\ \A i \in own : list[i].item.what = "part"
             /\ \/ made /\ \A k \in DOMAIN u.todo : u.todo[k] = Part(Cardinality(own) + k)
                \/ Len(u.todo) = 1 /\ u.todo[1].what # "part"
                     /\ (~u.allowed => u.todo[1].what = "refused")

GatewayInv ==
    /\ GatewayTypeOK
    /\ \A m \in DOMAIN updates : Replied(updates[m], m, sent[updates[m].chat], apiTurns)
    /\ \A c \in Chats : \A i \in DOMAIN sent[c] :
         sent[c][i].of \in DOMAIN updates /\ updates[sent[c][i].of].chat = c
    /\ \A t \in DOMAIN apiTurns : apiTurns[t].of \in DOMAIN updates
    /\ \A s, t \in DOMAIN apiTurns : apiTurns[s].of = apiTurns[t].of => s = t
    /\ platform = "telegram" =>
         /\ \A k, m \in DOMAIN updates : k < m /\ updates[m].at # "arrived" => updates[k].at = "over"
         /\ \A c \in Chats : \A i, j \in DOMAIN sent[c] : i < j => sent[c][i].of <= sent[c][j].of

(* What is for one message only is about it.                                *)
LEMMA AboutMore ==
    ASSUME NEW S, NEW list \in Seq(S), NEW e \in S, NEW m
    PROVE  About(Append(list, e), m) = About(list, m) \cup (IF e.of = m THEN {Len(list) + 1} ELSE {})
<1> DEFINE more == Append(list, e)
<1>1. /\ DOMAIN list = 1..Len(list) /\ Len(list) \in Nat
      /\ DOMAIN more = 1..(Len(list) + 1) /\ more[Len(list) + 1] = e
      /\ \A i \in DOMAIN list : more[i] = list[i]
      /\ \A i \in DOMAIN more : i \in DOMAIN list \/ i = Len(list) + 1
  BY OneMore
<1> HIDE DEF more
<1>2. About(more, m) = About(list, m) \cup (IF e.of = m THEN {Len(list) + 1} ELSE {})
  BY <1>1 DEF About
<1> QED
  BY <1>2 DEF more

(* What a list has for a message can be counted.                            *)
LEMMA AboutCounts ==
    ASSUME NEW S, NEW list \in Seq(S), NEW m
    PROVE  /\ IsFiniteSet(About(list, m)) /\ Cardinality(About(list, m)) \in Nat
           /\ About(list, m) \subseteq 1..Len(list) /\ Len(list) \in Nat /\ DOMAIN list = 1..Len(list)
<1>1. DOMAIN list = 1..Len(list) /\ Len(list) \in Nat
  BY LenProperties
<1>2. IsFiniteSet(1..Len(list))
  <2>1. 1 \in Int /\ Len(list) \in Int
    BY <1>1
  <2> QED
    BY <2>1, FS_Interval
<1>3. About(list, m) \subseteq 1..Len(list)
  BY <1>1 DEF About
<1>4. IsFiniteSet(About(list, m))
  BY <1>2, <1>3, FS_Subset
<1> QED
  BY <1>1, <1>3, <1>4, FS_CardinalityType

(* What is sent for another message changes nothing for this one.           *)
LEMMA RepliedElsewhere ==
    ASSUME NEW S, NEW list \in Seq(S), NEW e \in S, NEW m, e.of # m, NEW u, NEW rounds,
           Replied(u, m, list, rounds)
    PROVE  Replied(u, m, Append(list, e), rounds)
<1> DEFINE more == Append(list, e)
<1>1. About(more, m) = About(list, m)
  <2>1. About(more, m) = About(list, m) \cup (IF e.of = m THEN {Len(list) + 1} ELSE {})
    BY AboutMore
  <2> QED
    BY <2>1
<1>2. \A i \in DOMAIN list : more[i] = list[i]
  BY OneMore
<1>3. \A i \in About(list, m) : i \in DOMAIN list
  BY DEF About
<1> HIDE DEF more
<1>4. \A i \in About(list, m) : more[i] = list[i]
  BY <1>2, <1>3
<1>5. Replied(u, m, more, rounds)
  BY <1>1, <1>4 DEF Replied
<1> QED
  BY <1>5 DEF more

(* Nor does a turn for another.                                             *)
LEMMA RepliedMeanwhile ==
    ASSUME NEW S, NEW rounds \in Seq(S), NEW e \in S, NEW m, e.of # m, NEW u, NEW list,
           Replied(u, m, list, rounds)
    PROVE  Replied(u, m, list, Append(rounds, e))
<1>1. About(Append(rounds, e), m) = About(rounds, m)
  <2>1. About(Append(rounds, e), m) = About(rounds, m) \cup (IF e.of = m THEN {Len(rounds) + 1} ELSE {})
    BY AboutMore
  <2> QED
    BY <2>1
<1> QED
  BY <1>1 DEF Replied

(* The next that is sent for a message.                                     *)
LEMMA RepliedNext ==
    ASSUME NEW S, NEW list \in Seq(S), NEW e \in S, NEW m, e.of = m, NEW u, NEW rounds,
           u.at = "send", u.todo \in Seq(Sayings), u.todo # <<>>, e.item = u.todo[1],
           Replied(u, m, list, rounds), NEW v,
           v.at = "send", v.allowed = u.allowed, v.kind = u.kind, v.todo = Tail(u.todo)
    PROVE  Replied(v, m, Append(list, e), rounds)
<1> DEFINE more == Append(list, e)
           own == About(list, m)
           new == Len(list) + 1
           now == own \cup {new}
           made == About(rounds, m) # {}
<1>1. About(more, m) = now
  BY AboutMore
<1>2. more[new] = e /\ \A i \in DOMAIN list : more[i] = list[i]
  BY OneMore
<1>3. /\ IsFiniteSet(own) /\ Cardinality(own) \in Nat /\ own \subseteq 1..Len(list)
      /\ Len(list) \in Nat /\ DOMAIN list = 1..Len(list)
  BY AboutCounts
<1>4. /\ made => u.allowed /\ u.kind = "text"
      /\ ~u.allowed => \A i \in own : list[i].item.what = "refused"
      /\ \A i \in own :
           IF list[i].item.what = "part"
           THEN list[i].item.n = Cardinality({j \in own : j <= i}) /\ made
           ELSE \A j \in own : j <= i
      /\ \A i \in own : list[i].item.what = "part"
      /\ \/ made /\ \A k \in DOMAIN u.todo : u.todo[k] = Part(Cardinality(own) + k)
         \/ Len(u.todo) = 1 /\ u.todo[1].what # "part"
              /\ (~u.allowed => u.todo[1].what = "refused")
  BY DEF Replied
<1> HIDE DEF more, own, made
<1>5. \A i \in own : more[i] = list[i] /\ i < new
  BY <1>2, <1>3
<1>6. Cardinality(now) = Cardinality(own) + 1 /\ {j \in now : j <= new} = now
  <2>1. new \notin own
    BY <1>3
  <2>2. Cardinality(now) = Cardinality(own) + 1
    BY <1>3, <2>1, FS_AddElement
  <2>3. \A j \in now : j <= new
    BY <1>3, <1>5
  <2> QED
    BY <2>2, <2>3
<1>7. \A i \in own : {j \in now : j <= i} = {j \in own : j <= i}
  BY <1>3, <1>5
<1>8. /\ Len(u.todo) \in Nat /\ DOMAIN u.todo = 1..Len(u.todo) /\ Len(u.todo) > 0
      /\ Tail(u.todo) \in Seq(Sayings) /\ Len(Tail(u.todo)) = Len(u.todo) - 1
      /\ DOMAIN Tail(u.todo) = 1..Len(Tail(u.todo))
      /\ \A k \in 1..Len(Tail(u.todo)) : Tail(u.todo)[k] = u.todo[k + 1]
  BY LenProperties, EmptySeq, HeadTailProperties
<1> HIDE DEF now, new
<1>9. CASE made /\ \A k \in DOMAIN u.todo : u.todo[k] = Part(Cardinality(own) + k)
  <2>1. e.item = Part(Cardinality(now))
    <3>1. 1 \in DOMAIN u.todo
      BY <1>8
    <3> QED
      BY <1>6, <1>9, <3>1
  <2>2. u.allowed
    BY <1>4, <1>9
  <2>3. more[new].item.what = "part" /\ more[new].item.n = Cardinality({j \in now : j <= new})
    <3>1. more[new].item = Part(Cardinality(now))
      BY <1>2, <2>1
    <3>2. \A n : Part(n).what = "part" /\ Part(n).n = n
      BY DEF Part
    <3> QED
      BY <1>6, <3>1, <3>2
  <2>4. \A i \in now : more[i].item.what = "part" /\ more[i].item.n = Cardinality({j \in now : j <= i})
    <3>1. \A i \in own : more[i].item.what = "part" /\ more[i].item.n = Cardinality({j \in own : j <= i})
      BY <1>4, <1>5
    <3>2. \A i \in now : i \in own \/ i = new
      BY DEF now
    <3> QED
      BY <1>7, <2>3, <3>1, <3>2
  <2>5. \A k \in DOMAIN v.todo : v.todo[k] = Part(Cardinality(now) + k)
    <3> SUFFICES ASSUME NEW k \in DOMAIN v.todo
                 PROVE  v.todo[k] = Part(Cardinality(now) + k)
      OBVIOUS
    <3>1. k + 1 \in DOMAIN u.todo /\ v.todo[k] = u.todo[k + 1]
      BY <1>8
    <3>2. Cardinality(own) + (k + 1) = Cardinality(now) + k
      BY <1>3, <1>6, <1>8
    <3> QED
      BY <1>9, <3>1, <3>2
  <2>6. Replied(v, m, more, rounds)
    BY <1>1, <1>4, <1>9, <2>2, <2>4, <2>5 DEF Replied, made
  <2> QED
    BY <2>6 DEF more
<1>10. CASE Len(u.todo) = 1 /\ u.todo[1].what # "part" /\ (~u.allowed => u.todo[1].what = "refused")
  <2>1. v.todo = <<>>
    <3>1. Len(Tail(u.todo)) = 0
      BY <1>8, <1>10
    <3> QED
      BY <1>8, <3>1, EmptySeq
  <2>2. \A i \in now : i \in own \/ i = new
    BY DEF now
  <2>3. \A j \in now : j <= new
    BY <1>6
  <2>4. \A i \in own : more[i].item.what = "part" /\ more[i].item.n = Cardinality({j \in own : j <= i}) /\ made
    BY <1>4, <1>5
  <2>5. \A i \in now :
           IF more[i].item.what = "part"
           THEN more[i].item.n = Cardinality({j \in now : j <= i}) /\ made
           ELSE \A j \in now : j <= i
    BY <1>2, <1>7, <1>10, <2>2, <2>3, <2>4
  <2>6. ~u.allowed => \A i \in now : more[i].item.what = "refused"
    BY <1>2, <1>4, <1>5, <1>10, <2>2
  <2>7. Replied(v, m, more, rounds)
    BY <1>1, <1>4, <2>1, <2>5, <2>6 DEF Replied, made
  <2> QED
    BY <2>7 DEF more
<1> QED
  BY <1>4, <1>9, <1>10

Update ==
    [at : {"arrived", "chat", "send", "over"}, chat : Chats, kind : Kinds,
     allowed : BOOLEAN, todo : Seq(Sayings)]

(* A message in hand goes on.                                               *)
LEMMA GoesOn ==
    ASSUME GatewayInv, NEW m \in DOMAIN updates, NEW u \in Update, Change(m, u),
           platform' = platform, u.chat = updates[m].chat,
           updates[m].at # "over", u.at # "arrived",
           platform = "telegram" /\ updates[m].at = "arrived" =>
               \A k \in 1..(m - 1) : updates[k].at = "over"
    PROVE  /\ updates' \in Seq(Update) /\ DOMAIN updates' = DOMAIN updates
           /\ updates'[m] = u /\ \A k \in DOMAIN updates : k # m => updates'[k] = updates[k]
           /\ \A k \in DOMAIN updates : updates'[k].chat = updates[k].chat
           /\ (platform = "telegram" =>
                 \A k, l \in DOMAIN updates : k < l /\ updates[l].at # "arrived" => updates[k].at = "over")'
<1>1. /\ updates \in Seq(Update) /\ DOMAIN updates = 1..Len(updates) /\ Len(updates) \in Nat
      /\ updates' = [updates EXCEPT ![m] = u]
  BY LenProperties DEF GatewayInv, GatewayTypeOK, Update, Change
<1>2. \A k \in DOMAIN updates : updates[k] \in Update
  BY <1>1, ElementOfSeq
<1> HIDE DEF Update
<1>3. updates' \in [1..Len(updates) -> Update] /\ DOMAIN updates' = DOMAIN updates
  BY <1>1, <1>2
<1>4. updates' \in Seq(Update)
  BY <1>1, <1>3
<1>5. updates'[m] = u /\ \A k \in DOMAIN updates : k # m => updates'[k] = updates[k]
  BY <1>1
<1>6. \A k \in DOMAIN updates : updates'[k].chat = updates[k].chat
  BY <1>5
<1>7. ASSUME platform = "telegram", NEW k \in DOMAIN updates, NEW l \in DOMAIN updates, k < l,
             updates'[l].at # "arrived"
      PROVE  updates'[k].at = "over"
  <2>1. \A i, j \in DOMAIN updates : i < j /\ updates[j].at # "arrived" => updates[i].at = "over"
    BY <1>7 DEF GatewayInv
  <2>2. k # m /\ updates'[k] = updates[k]
    <3>1. k # m
      <4> SUFFICES ASSUME k = m PROVE FALSE
        OBVIOUS
      <4>1. l # m /\ updates'[l] = updates[l]
        BY <1>1, <1>5, <1>7
      <4> QED
        BY <1>7, <2>1, <4>1
    <3> QED
      BY <1>5, <3>1
  <2>3. CASE l # m
    BY <1>5, <1>7, <2>1, <2>2, <2>3
  <2>4. CASE l = m /\ updates[m].at # "arrived"
    BY <1>7, <2>1, <2>2, <2>4
  <2>5. CASE l = m /\ updates[m].at = "arrived"
    <3>1. k \in 1..(m - 1)
      BY <1>1, <1>7, <2>5
    <3> QED
      BY <1>7, <2>2, <2>5, <3>1
  <2> QED
    BY <2>3, <2>4, <2>5
<1> QED
  BY <1>3, <1>4, <1>5, <1>6, <1>7

(* A step that sends nothing and makes no turn.                             *)
LEMMA UpdateStep ==
    ASSUME GatewayInv, NEW m \in DOMAIN updates, NEW u \in Update, Change(m, u),
           UNCHANGED <<platform, apiTurns, sent>>, session' \in Sessions,
           u.chat = updates[m].chat, updates[m].at # "over", u.at # "arrived",
           platform = "telegram" /\ updates[m].at = "arrived" =>
               \A k \in 1..(m - 1) : updates[k].at = "over",
           Replied(u, m, sent[u.chat], apiTurns)
    PROVE  GatewayInv'
<1>1. /\ updates' \in Seq(Update) /\ DOMAIN updates' = DOMAIN updates
      /\ updates'[m] = u /\ \A k \in DOMAIN updates : k # m => updates'[k] = updates[k]
      /\ \A k \in DOMAIN updates : updates'[k].chat = updates[k].chat
      /\ (platform = "telegram" =>
            \A k, l \in DOMAIN updates : k < l /\ updates[l].at # "arrived" => updates[k].at = "over")'
  BY GoesOn
<1>2. platform' = platform /\ apiTurns' = apiTurns /\ sent' = sent
  OBVIOUS
<1>3. GatewayTypeOK'
  BY <1>1, <1>2 DEF GatewayInv, GatewayTypeOK, Update
<1>4. (\A k \in DOMAIN updates : Replied(updates[k], k, sent[updates[k].chat], apiTurns))'
  <2>1. \A k \in DOMAIN updates : k # m => Replied(updates[k], k, sent[updates[k].chat], apiTurns)
    BY DEF GatewayInv
  <2>2. \A k \in DOMAIN updates : Replied(updates'[k], k, sent[updates'[k].chat], apiTurns)
    BY <1>1, <2>1
  <2> QED
    BY <1>1, <1>2, <2>2
<1>5. /\ (\A c \in Chats : \A i \in DOMAIN sent[c] :
            sent[c][i].of \in DOMAIN updates /\ updates[sent[c][i].of].chat = c)'
      /\ (\A t \in DOMAIN apiTurns : apiTurns[t].of \in DOMAIN updates)'
      /\ (\A s, t \in DOMAIN apiTurns : apiTurns[s].of = apiTurns[t].of => s = t)'
      /\ (platform = "telegram" =>
            \A c \in Chats : \A i, j \in DOMAIN sent[c] : i < j => sent[c][i].of <= sent[c][j].of)'
  BY <1>1, <1>2 DEF GatewayInv
<1> QED
  BY <1>1, <1>3, <1>4, <1>5 DEF GatewayInv

(* A message comes in.                                                      *)
LEMMA ReceiveStep ==
    ASSUME GatewayInv, NEW chat \in Chats, NEW kind \in Kinds, NEW allows \in BOOLEAN,
           Receive(chat, kind, allows)
    PROVE  GatewayInv'
<1> DEFINE e == [at |-> "arrived", chat |-> chat, kind |-> kind, allowed |-> allows, todo |-> <<>>]
           new == Len(updates) + 1
<1>1. updates' = Append(updates, e) /\ platform' = platform /\ session' = session
      /\ apiTurns' = apiTurns /\ sent' = sent
  BY DEF Receive
<1>2. updates \in Seq(Update) /\ e \in Update
  <2>1. <<>> \in Seq(Sayings)
    OBVIOUS
  <2> QED
    BY <2>1 DEF GatewayInv, GatewayTypeOK, Update
<1>3. e.at = "arrived" /\ e.chat = chat
  OBVIOUS
<1> HIDE DEF e, Update
<1>4. /\ updates' \in Seq(Update) /\ DOMAIN updates = 1..Len(updates) /\ Len(updates) \in Nat
      /\ DOMAIN updates' = 1..new /\ updates'[new] = e
      /\ \A i \in DOMAIN updates : updates'[i] = updates[i]
      /\ \A i \in DOMAIN updates' : i \in DOMAIN updates \/ i = new
  BY <1>1, <1>2, OneMore
<1>5. DOMAIN updates \subseteq DOMAIN updates' /\ new \notin DOMAIN updates /\ \A i \in DOMAIN updates : i < new
  BY <1>4
<1> HIDE DEF new
<1>6. About(sent[chat], new) = {} /\ About(apiTurns, new) = {}
  BY <1>5 DEF GatewayInv, About
<1>7. Replied(e, new, sent[chat], apiTurns)
  BY <1>3, <1>6 DEF Replied
<1>8. (\A k \in DOMAIN updates : Replied(updates[k], k, sent[updates[k].chat], apiTurns))'
  <2>1. \A k \in DOMAIN updates : Replied(updates[k], k, sent[updates[k].chat], apiTurns)
    BY DEF GatewayInv
  <2>2. \A k \in DOMAIN updates' : Replied(updates'[k], k, sent[updates'[k].chat], apiTurns)
    BY <1>3, <1>4, <1>7, <2>1
  <2> QED
    BY <1>1, <2>2
<1>9. GatewayTypeOK'
  BY <1>1, <1>4 DEF GatewayInv, GatewayTypeOK, Update
<1>10. /\ (\A c \in Chats : \A i \in DOMAIN sent[c] :
             sent[c][i].of \in DOMAIN updates /\ updates[sent[c][i].of].chat = c)'
       /\ (\A t \in DOMAIN apiTurns : apiTurns[t].of \in DOMAIN updates)'
  BY <1>1, <1>4, <1>5 DEF GatewayInv
<1>11. /\ (\A s, t \in DOMAIN apiTurns : apiTurns[s].of = apiTurns[t].of => s = t)'
       /\ (platform = "telegram" =>
             \A c \in Chats : \A i, j \in DOMAIN sent[c] : i < j => sent[c][i].of <= sent[c][j].of)'
  BY <1>1 DEF GatewayInv
<1>12. (platform = "telegram" =>
          \A k, l \in DOMAIN updates : k < l /\ updates[l].at # "arrived" => updates[k].at = "over")'
  <2> SUFFICES ASSUME platform = "telegram", NEW k \in DOMAIN updates', NEW l \in DOMAIN updates',
                      k < l, updates'[l].at # "arrived"
               PROVE  updates'[k].at = "over"
    BY <1>1
  <2>1. l \in DOMAIN updates
    BY <1>3, <1>4
  <2>2. k \in DOMAIN updates
    BY <1>4, <1>5, <2>1
  <2>3. \A i, j \in DOMAIN updates : i < j /\ updates[j].at # "arrived" => updates[i].at = "over"
    BY DEF GatewayInv
  <2> QED
    BY <1>4, <2>1, <2>2, <2>3
<1> QED
  BY <1>8, <1>9, <1>10, <1>11, <1>12 DEF GatewayInv

(* What a message in hand is.                                               *)
LEMMA AtWorkOn ==
    ASSUME GatewayInv, NEW m \in DOMAIN updates
    PROVE  /\ updates[m] \in Update /\ updates[m].chat \in Chats
           /\ Replied(updates[m], m, sent[updates[m].chat], apiTurns)
           /\ m \in Nat
<1>1. updates \in Seq(Update)
  BY DEF GatewayInv, GatewayTypeOK, Update
<1> HIDE DEF Update
<1>2. updates[m] \in Update /\ m \in Nat
  BY <1>1, ElementOfSeq, LenProperties
<1>3. updates[m].chat \in Chats
  BY <1>2 DEF Update
<1>4. Replied(updates[m], m, sent[updates[m].chat], apiTurns)
  BY DEF GatewayInv
<1> QED
  BY <1>2, <1>3, <1>4

(* A word that is sent.                                                     *)
LEMMA OneWord ==
    ASSUME NEW w \in {"refused", "notice", "error", "apology", "empty"}
    PROVE  /\ <<Word(w)>> \in Seq(Sayings) /\ Len(<<Word(w)>>) = 1
           /\ <<Word(w)>>[1].what = w /\ w # "part"
  BY DEF Word, Sayings

(* A message that was not begun is dropped, begun, or answered by a word.   *)
LEMMA TypingStep ==
    ASSUME GatewayInv, NEW m \in DOMAIN updates, Due(m), NEW u \in Update, Change(m, u),
           UNCHANGED <<platform, apiTurns, sent>>, session' \in Sessions,
           u.chat = updates[m].chat,
           \/ u.at = "over"
           \/ u.at = "chat" /\ u.allowed /\ u.kind = "text"
           \/ u.at = "send" /\ Len(u.todo) = 1 /\ u.todo[1].what # "part"
                /\ (~u.allowed => u.todo[1].what = "refused")
    PROVE  GatewayInv'
<1>1. updates[m].at = "arrived" /\ (platform = "telegram" => \A k \in 1..(m - 1) : updates[k].at = "over")
  BY DEF Due
<1>2. About(sent[u.chat], m) = {} /\ About(apiTurns, m) = {}
  BY <1>1, AtWorkOn DEF Replied
<1>3. Replied(u, m, sent[u.chat], apiTurns)
  BY <1>2 DEF Replied
<1> QED
  BY <1>1, <1>3, UpdateStep

(* What is left to send is dropped.                                         *)
LEMMA EndStep ==
    ASSUME GatewayInv, NEW m \in DOMAIN updates, updates[m].at = "send",
           NEW u \in Update, Change(m, u),
           UNCHANGED <<platform, session, apiTurns, sent>>,
           u.chat = updates[m].chat, u.allowed = updates[m].allowed, u.kind = updates[m].kind,
           \/ u.at = "over"
           \/ /\ u.at = "send" /\ u.allowed /\ Len(u.todo) = 1 /\ u.todo[1].what # "part"
              /\ updates[m].todo # <<>>
    PROVE  GatewayInv'
<1>1. Replied(updates[m], m, sent[u.chat], apiTurns)
  BY AtWorkOn
<1>2. Replied(u, m, sent[u.chat], apiTurns)
  BY <1>1 DEF Replied
<1>3. session' \in Sessions
  BY DEF GatewayInv, GatewayTypeOK
<1> QED
  BY <1>2, <1>3, UpdateStep

(* A part of an answer, or a word, is sent.                                 *)
LEMMA SendStep ==
    ASSUME GatewayInv, NEW m \in DOMAIN updates, Send(m)
    PROVE  GatewayInv'
<1> DEFINE chat == updates[m].chat
           e == [of |-> m, item |-> updates[m].todo[1]]
           u == [updates[m] EXCEPT !.todo = Tail(@)]
           more == Append(sent[chat], e)
           Sent == [of : Nat, item : Sayings]
<1>1. /\ updates[m].at = "send" /\ updates[m].todo # <<>>
      /\ sent' = [sent EXCEPT ![chat] = more] /\ Change(m, u)
      /\ platform' = platform /\ session' = session /\ apiTurns' = apiTurns
  BY DEF Send
<1>2. updates[m] \in Update /\ chat \in Chats /\ Replied(updates[m], m, sent[chat], apiTurns) /\ m \in Nat
  BY AtWorkOn
<1>3. updates[m].todo \in Seq(Sayings)
  BY <1>2 DEF Update
<1>4. updates[m].todo[1] \in Sayings /\ Tail(updates[m].todo) \in Seq(Sayings)
  <2>1. 1 \in DOMAIN updates[m].todo
    BY <1>1, <1>3, LenProperties, EmptySeq
  <2> QED
    BY <1>1, <1>3, <2>1, ElementOfSeq, HeadTailProperties
<1>5. /\ u \in Update /\ u.chat = chat /\ u.at = "send" /\ u.allowed = updates[m].allowed
      /\ u.kind = updates[m].kind /\ u.todo = Tail(updates[m].todo)
  BY <1>1, <1>2, <1>4 DEF Update
<1>6. e \in Sent /\ e.of = m /\ e.item = updates[m].todo[1]
  BY <1>2, <1>4
<1>7. sent \in [Chats -> Seq(Sent)]
  BY DEF GatewayInv, GatewayTypeOK
<1> HIDE DEF u, e, Sent
<1>8. /\ updates' \in Seq(Update) /\ DOMAIN updates' = DOMAIN updates
      /\ updates'[m] = u /\ \A k \in DOMAIN updates : k # m => updates'[k] = updates[k]
      /\ \A k \in DOMAIN updates : updates'[k].chat = updates[k].chat
      /\ (platform = "telegram" =>
            \A k, l \in DOMAIN updates : k < l /\ updates[l].at # "arrived" => updates[k].at = "over")'
  BY <1>1, <1>5, GoesOn
<1>9. sent[chat] \in Seq(Sent)
  BY <1>2, <1>7
<1>10. /\ more \in Seq(Sent) /\ DOMAIN sent[chat] = 1..Len(sent[chat]) /\ Len(sent[chat]) \in Nat
       /\ DOMAIN more = 1..(Len(sent[chat]) + 1) /\ more[Len(sent[chat]) + 1] = e
       /\ \A i \in DOMAIN sent[chat] : more[i] = sent[chat][i]
       /\ \A i \in DOMAIN more : i \in DOMAIN sent[chat] \/ i = Len(sent[chat]) + 1
  BY <1>6, <1>9, OneMore
<1>11. Replied(u, m, more, apiTurns)
  BY <1>1, <1>2, <1>3, <1>5, <1>6, <1>9, RepliedNext
<1>12. ASSUME NEW k \in DOMAIN updates, k # m, updates[k].chat = chat
       PROVE  Replied(updates[k], k, more, apiTurns)
  <2>1. Replied(updates[k], k, sent[chat], apiTurns)
    BY <1>12 DEF GatewayInv
  <2> QED
    BY <1>6, <1>9, <1>12, <2>1, RepliedElsewhere
<1> HIDE DEF more
<1>13. sent' \in [Chats -> Seq(Sent)] /\ sent'[chat] = more /\ \A c \in Chats : c # chat => sent'[c] = sent[c]
  BY <1>1, <1>2, <1>7, <1>10
<1>14. GatewayTypeOK'
  BY <1>1, <1>8, <1>13 DEF GatewayInv, GatewayTypeOK, Update, Sent
<1>15. (\A k \in DOMAIN updates : Replied(updates[k], k, sent[updates[k].chat], apiTurns))'
  <2> SUFFICES ASSUME NEW k \in DOMAIN updates
               PROVE  Replied(updates'[k], k, sent'[updates'[k].chat], apiTurns)
    BY <1>1, <1>8
  <2>1. CASE k = m
    BY <1>5, <1>8, <1>11, <1>13, <2>1
  <2>2. CASE k # m /\ updates[k].chat = chat
    BY <1>8, <1>12, <1>13, <2>2
  <2>3. CASE k # m /\ updates[k].chat # chat
    <3>1. updates[k].chat \in Chats /\ Replied(updates[k], k, sent[updates[k].chat], apiTurns)
      BY AtWorkOn
    <3> QED
      BY <1>8, <1>13, <2>3, <3>1
  <2> QED
    BY <2>1, <2>2, <2>3
<1>16. (\A c \in Chats : \A i \in DOMAIN sent[c] :
          sent[c][i].of \in DOMAIN updates /\ updates[sent[c][i].of].chat = c)'
  <2>1. ASSUME NEW c \in Chats, NEW i \in DOMAIN sent'[c]
        PROVE  sent'[c][i].of \in DOMAIN updates /\ updates[sent'[c][i].of].chat = c
    <3>1. CASE c # chat
      BY <1>13, <2>1, <3>1 DEF GatewayInv
    <3>2. CASE c = chat /\ i \in DOMAIN sent[chat]
      BY <1>10, <1>13, <2>1, <3>2 DEF GatewayInv
    <3>3. CASE c = chat /\ i = Len(sent[chat]) + 1
      BY <1>6, <1>10, <1>13, <3>3
    <3> QED
      BY <1>10, <1>13, <2>1, <3>1, <3>2, <3>3
  <2> QED
    BY <1>8, <2>1
<1>17. (platform = "telegram" =>
          \A c \in Chats : \A i, j \in DOMAIN sent[c] : i < j => sent[c][i].of <= sent[c][j].of)'
  <2> SUFFICES ASSUME platform = "telegram", NEW c \in Chats,
                      NEW i \in DOMAIN sent'[c], NEW j \in DOMAIN sent'[c], i < j
               PROVE  sent'[c][i].of <= sent'[c][j].of
    BY <1>1
  <2>1. \A a, b \in DOMAIN sent[c] : a < b => sent[c][a].of <= sent[c][b].of
    BY DEF GatewayInv
  <2>2. CASE c # chat
    BY <1>13, <2>1, <2>2
  <2>3. CASE c = chat /\ j \in DOMAIN sent[chat]
    <3>1. i \in DOMAIN sent[chat]
      BY <1>10, <1>13, <2>3
    <3> QED
      BY <1>10, <1>13, <2>1, <2>3, <3>1
  <2>4. CASE c = chat /\ j \notin DOMAIN sent[chat]
    <3>1. sent'[c][j].of = m
      BY <1>6, <1>10, <1>13, <2>4
    <3>2. i \in DOMAIN sent[chat]
      BY <1>10, <1>13, <2>4
    <3> DEFINE k == sent[chat][i].of
    <3>3. k \in DOMAIN updates /\ updates[k].chat = chat /\ sent'[c][i].of = k
      BY <1>2, <1>10, <1>13, <2>4, <3>2 DEF GatewayInv
    <3>4. i \in About(sent[chat], k)
      BY <3>2 DEF About
    <3> HIDE DEF k
    <3>5. updates[k].at # "arrived"
      BY <3>3, <3>4, AtWorkOn DEF Replied
    <3>6. ~(m < k)
      BY <1>1, <3>3, <3>5 DEF GatewayInv
    <3>7. m \in Nat /\ k \in Nat
      BY <3>3, AtWorkOn
    <3> QED
      BY <3>1, <3>3, <3>6, <3>7
  <2> QED
    BY <2>2, <2>3, <2>4
<1>18. /\ (\A t \in DOMAIN apiTurns : apiTurns[t].of \in DOMAIN updates)'
       /\ (\A s, t \in DOMAIN apiTurns : apiTurns[s].of = apiTurns[t].of => s = t)'
  BY <1>1, <1>8 DEF GatewayInv
<1> QED
  BY <1>8, <1>14, <1>15, <1>16, <1>17, <1>18 DEF GatewayInv

(* The turn of a message is made, or fails before it is.                    *)
LEMMA ChatStep ==
    ASSUME GatewayInv, NEW m \in DOMAIN updates, ChatCall(m)
    PROVE  GatewayInv'
<1> DEFINE chat == updates[m].chat
           e == [of |-> m, in |-> SessionOf(chat)]
           ApiTurn == [of : Nat, in : [default : Sessions, chat : Chats \cup {None}]]
           word(w) == [updates[m] EXCEPT !.at = "send", !.todo = <<Word(w)>>]
           list == sent[chat]
<1>1. updates[m].at = "chat" /\ platform' = platform /\ session' = session /\ sent' = sent
  BY DEF ChatCall
<1>2. updates[m] \in Update /\ chat \in Chats /\ Replied(updates[m], m, list, apiTurns) /\ m \in Nat
  BY AtWorkOn
<1>3. About(list, m) = {} /\ About(apiTurns, m) = {} /\ updates[m].allowed /\ updates[m].kind = "text"
  BY <1>1, <1>2 DEF Replied
<1>4. \A w \in {"error", "apology", "empty"} :
        /\ word(w) \in Update /\ word(w).at = "send" /\ word(w).chat = chat
        /\ word(w).allowed = updates[m].allowed /\ word(w).kind = updates[m].kind
        /\ word(w).todo = <<Word(w)>>
  <2>1. \A w \in {"error", "apology", "empty"} : <<Word(w)>> \in Seq(Sayings)
    BY OneWord
  <2> QED
    BY <1>2, <2>1 DEF Update
<1>5. \A w \in {"error", "apology", "empty"} :
        /\ word(w) \in Update /\ word(w).at = "send" /\ word(w).chat = chat
        /\ word(w).allowed /\ word(w).kind = "text"
        /\ word(w).todo # <<>> /\ Len(word(w).todo) = 1 /\ word(w).todo[1].what # "part"
  BY <1>3, <1>4, OneWord
<1>6. ChatFails(m) => \E w \in {"error", "apology"} : Change(m, word(w))
  BY DEF ChatFails
<1> HIDE DEF word
<1>7. CASE UNCHANGED apiTurns /\ ChatFails(m)
  <2>1. PICK w \in {"error", "apology"} : Change(m, word(w))
    BY <1>6, <1>7
  <2>2. Replied(word(w), m, list, apiTurns)
    BY <1>3, <1>5 DEF Replied
  <2>3. session' \in Sessions /\ UNCHANGED <<platform, apiTurns, sent>>
    BY <1>1, <1>7 DEF GatewayInv, GatewayTypeOK
  <2>4. /\ word(w) \in Update /\ word(w).chat = chat /\ updates[m].at # "over"
        /\ updates[m].at # "arrived" /\ word(w).at # "arrived"
    BY <1>1, <1>5
  <2> QED
    BY <2>1, <2>2, <2>3, <2>4, UpdateStep
<1>8. CASE /\ apiTurns' = Append(apiTurns, e)
           /\ ChatFails(m) \/ \E n \in 0..MaxParts : Change(m, AnswerWith(m, n))
  <2> DEFINE more == Append(apiTurns, e)
             new == Len(apiTurns) + 1
  <2>1. e \in ApiTurn /\ e.of = m
    BY <1>2 DEF SessionOf, GatewayInv, GatewayTypeOK
  <2>2. apiTurns \in Seq(ApiTurn)
    BY DEF GatewayInv, GatewayTypeOK
  <2> HIDE DEF e, ApiTurn
  <2>3. /\ more \in Seq(ApiTurn) /\ DOMAIN apiTurns = 1..Len(apiTurns) /\ Len(apiTurns) \in Nat
        /\ DOMAIN more = 1..new /\ more[new] = e
        /\ \A i \in DOMAIN apiTurns : more[i] = apiTurns[i]
        /\ \A i \in DOMAIN more : i \in DOMAIN apiTurns \/ i = new
    BY <2>1, <2>2, OneMore
  <2>4. \A k \in DOMAIN updates : k # m => Replied(updates[k], k, sent[updates[k].chat], more)
    <3> SUFFICES ASSUME NEW k \in DOMAIN updates, k # m
                 PROVE  Replied(updates[k], k, sent[updates[k].chat], more)
      OBVIOUS
    <3>1. Replied(updates[k], k, sent[updates[k].chat], apiTurns)
      BY AtWorkOn
    <3> QED
      BY <2>1, <2>2, <3>1, RepliedMeanwhile
  <2>5. About(more, m) # {}
    <3>1. new \in DOMAIN more
      BY <2>3
    <3> QED
      BY <2>1, <2>3, <3>1 DEF About
  <2>6. \A i \in DOMAIN apiTurns : apiTurns[i].of # m
    BY <1>3 DEF About
  <2> HIDE DEF more, new
  <2>7. PICK u : /\ Change(m, u) /\ u \in Update /\ u.at = "send" /\ u.chat = chat
                 /\ u.allowed /\ u.kind = "text"
                 /\ u.todo = <<>> \/ (Len(u.todo) = 1 /\ u.todo[1].what # "part")
                      \/ \A k \in DOMAIN u.todo : u.todo[k] = Part(k)
    <3>1. CASE ChatFails(m)
      <4>1. PICK w \in {"error", "apology"} : Change(m, word(w))
        BY <1>6, <3>1
      <4> QED
        BY <1>5, <4>1
    <3>2. CASE \E n \in 0..MaxParts : Change(m, AnswerWith(m, n))
      <4>1. PICK n \in 0..MaxParts : Change(m, AnswerWith(m, n))
        BY <3>2
      <4>2. n \in Nat
        BY ChatGatewayAssumption
      <4>3. CASE AnswerWith(m, n) = word("empty")
        BY <1>5, <4>1, <4>3
      <4>4. CASE AnswerWith(m, n) = [updates[m] EXCEPT !.at = "send", !.todo = <<>>]
        <5>1. <<>> \in Seq(Sayings)
          OBVIOUS
        <5>2. /\ AnswerWith(m, n) \in Update /\ AnswerWith(m, n).at = "send" /\ AnswerWith(m, n).chat = chat
              /\ AnswerWith(m, n).allowed /\ AnswerWith(m, n).kind = "text" /\ AnswerWith(m, n).todo = <<>>
          BY <1>2, <1>3, <4>4, <5>1 DEF Update
        <5> QED
          BY <4>1, <5>2
      <4>5. ASSUME NEW k \in Nat,
                   AnswerWith(m, n) = [updates[m] EXCEPT !.at = "send", !.todo = [i \in 1..k |-> Part(i)]]
            PROVE  \E u : /\ Change(m, u) /\ u \in Update /\ u.at = "send" /\ u.chat = chat
                          /\ u.allowed /\ u.kind = "text"
                          /\ \A i \in DOMAIN u.todo : u.todo[i] = Part(i)
        <5> DEFINE s == [i \in 1..k |-> Part(i)]
        <5>1. \A i \in 1..k : Part(i) \in Sayings
          BY DEF Part, Sayings
        <5>2. s \in Seq(Sayings) /\ \A i \in DOMAIN s : s[i] = Part(i)
          BY <5>1
        <5> HIDE DEF s
        <5>3. AnswerWith(m, n) = [updates[m] EXCEPT !.at = "send", !.todo = s]
          BY <4>5 DEF s
        <5>4. /\ AnswerWith(m, n) \in Update /\ AnswerWith(m, n).at = "send" /\ AnswerWith(m, n).chat = chat
              /\ AnswerWith(m, n).allowed /\ AnswerWith(m, n).kind = "text" /\ AnswerWith(m, n).todo = s
          BY <1>2, <1>3, <5>2, <5>3 DEF Update
        <5> QED
          BY <4>1, <5>2, <5>4
      <4>6. CASE AnswerWith(m, n) = [updates[m] EXCEPT !.at = "send", !.todo = <<Part(1)>>]
        <5>1. <<Part(1)>> = [i \in 1..1 |-> Part(i)]
          OBVIOUS
        <5> QED
          BY <4>5, <4>6, <5>1
      <4> QED
        BY <4>2, <4>3, <4>4, <4>5, <4>6 DEF AnswerWith, word
    <3> QED
      BY <1>8, <3>1, <3>2
  <2>8. Replied(u, m, list, more)
    <3>1. Cardinality(About(list, m)) = 0
      BY <1>3, FS_EmptySet
    <3>2. CASE \A k \in DOMAIN u.todo : u.todo[k] = Part(k)
      <4>1. \A k \in DOMAIN u.todo : u.todo[k] = Part(Cardinality(About(list, m)) + k)
        <5>1. u.todo \in Seq(Sayings)
          BY <2>7 DEF Update
        <5>2. \A k \in DOMAIN u.todo : k \in Nat
          BY <5>1, LenProperties
        <5>3. \A k \in DOMAIN u.todo : 0 + k = k
          BY <5>2
        <5> QED
          BY <3>1, <3>2, <5>3
      <4> QED
        BY <1>3, <2>5, <2>7, <4>1 DEF Replied
    <3>3. CASE u.todo = <<>> \/ (Len(u.todo) = 1 /\ u.todo[1].what # "part")
      BY <1>3, <2>5, <2>7, <3>3 DEF Replied
    <3> QED
      BY <2>7, <3>2, <3>3
  <2>9. /\ updates' \in Seq(Update) /\ DOMAIN updates' = DOMAIN updates
        /\ updates'[m] = u /\ \A k \in DOMAIN updates : k # m => updates'[k] = updates[k]
        /\ \A k \in DOMAIN updates : updates'[k].chat = updates[k].chat
        /\ (platform = "telegram" =>
              \A k, l \in DOMAIN updates : k < l /\ updates[l].at # "arrived" => updates[k].at = "over")'
    <3>1. updates[m].at # "over" /\ updates[m].at # "arrived" /\ u.at # "arrived"
      BY <1>1, <2>7
    <3> QED
      BY <1>1, <2>7, <3>1, GoesOn
  <2>10. apiTurns' = more
    BY <1>8 DEF more
  <2>11. (\A k \in DOMAIN updates : Replied(updates[k], k, sent[updates[k].chat], apiTurns))'
    <3>1. \A k \in DOMAIN updates : Replied(updates'[k], k, sent[updates'[k].chat], more)
      BY <2>4, <2>7, <2>8, <2>9
    <3> QED
      BY <1>1, <2>9, <2>10, <3>1
  <2>12. GatewayTypeOK'
    BY <1>1, <2>3, <2>9, <2>10 DEF GatewayInv, GatewayTypeOK, Update, ApiTurn
  <2>13. (\A t \in DOMAIN apiTurns : apiTurns[t].of \in DOMAIN updates)'
    BY <2>1, <2>3, <2>9, <2>10 DEF GatewayInv
  <2>14. (\A s, t \in DOMAIN apiTurns : apiTurns[s].of = apiTurns[t].of => s = t)'
    BY <2>1, <2>3, <2>6, <2>10 DEF GatewayInv
  <2>15. /\ (\A c \in Chats : \A i \in DOMAIN sent[c] :
               sent[c][i].of \in DOMAIN updates /\ updates[sent[c][i].of].chat = c)'
         /\ (platform = "telegram" =>
               \A c \in Chats : \A i, j \in DOMAIN sent[c] : i < j => sent[c][i].of <= sent[c][j].of)'
    BY <1>1, <2>9 DEF GatewayInv
  <2> QED
    BY <2>9, <2>11, <2>12, <2>13, <2>14, <2>15 DEF GatewayInv
<1> QED
  BY <1>7, <1>8 DEF ChatCall, word

(* What is sent for a message so far is a beginning of what its turn        *)
(* answered, and what it may still send comes next. (on_message)            *)
THEOREM GatewayInductive == GatewaySpec => []GatewayInv
<1>1. ASSUME GatewayInit PROVE GatewayInv
  <2>1. /\ platform \in {"telegram", "slack"} /\ session \in Sessions
        /\ updates = <<>> /\ apiTurns = <<>> /\ sent = [c \in Chats |-> <<>>]
    BY <1>1 DEF GatewayInit
  <2>2. GatewayTypeOK
    <3>1. \A S : <<>> \in Seq(S)
      OBVIOUS
    <3> QED
      BY <2>1, <3>1 DEF GatewayTypeOK
  <2> QED
    BY <2>1, <2>2 DEF GatewayInv
<1>2. ASSUME GatewayInv, [GatewayNext]_gatewayVars PROVE GatewayInv'
  <2>1. CASE UNCHANGED gatewayVars
    <3>1. platform' = platform /\ session' = session /\ updates' = updates /\ apiTurns' = apiTurns /\ sent' = sent
      BY <2>1 DEF gatewayVars
    <3>2. GatewayTypeOK'
      BY <1>2, <3>1 DEF GatewayInv, GatewayTypeOK
    <3>3. (\A m \in DOMAIN updates : Replied(updates[m], m, sent[updates[m].chat], apiTurns))'
      BY <1>2, <3>1 DEF GatewayInv
    <3> QED
      BY <1>2, <3>1, <3>2, <3>3 DEF GatewayInv
  <2>2. ASSUME NEW c \in Chats, NEW k \in Kinds, NEW b \in BOOLEAN, Receive(c, k, b) PROVE GatewayInv'
    BY <1>2, <2>2, ReceiveStep
  <2>3. ASSUME NEW m \in DOMAIN updates, Refuse(m) PROVE GatewayInv'
    <3>1. updates[m] \in Update /\ Due(m) /\ ~updates[m].allowed
      BY <1>2, <2>3, AtWorkOn DEF Refuse
    <3>2. UNCHANGED <<platform, apiTurns, sent>> /\ session' \in Sessions
      BY <1>2, <2>3 DEF Refuse, GatewayInv, GatewayTypeOK
    <3>3. CASE Change(m, [updates[m] EXCEPT !.at = "over"])
      <4> DEFINE u == [updates[m] EXCEPT !.at = "over"]
      <4>1. u \in Update /\ u.chat = updates[m].chat /\ u.at = "over" /\ Change(m, u)
        BY <3>1, <3>3 DEF Update
      <4> HIDE DEF u
      <4> QED
        BY <1>2, <3>1, <3>2, <4>1, TypingStep
    <3>4. CASE Change(m, [updates[m] EXCEPT !.at = "send", !.todo = <<Word("refused")>>])
      <4> DEFINE s == <<Word("refused")>>
      <4>1. s \in Seq(Sayings) /\ Len(s) = 1 /\ s[1].what = "refused"
        BY OneWord
      <4> HIDE DEF s
      <4> DEFINE u == [updates[m] EXCEPT !.at = "send", !.todo = s]
      <4>2. u \in Update /\ u.chat = updates[m].chat /\ u.at = "send" /\ u.todo = s
        BY <3>1, <4>1 DEF Update
      <4>3. Change(m, u)
        BY <3>4 DEF s
      <4> HIDE DEF u
      <4> QED
        BY <1>2, <3>1, <3>2, <4>1, <4>2, <4>3, TypingStep
    <3> QED
      BY <2>3, <3>3, <3>4 DEF Refuse
  <2>4. ASSUME NEW m \in DOMAIN updates, GatewayCommand(m) PROVE GatewayInv'
    <3>1. updates[m] \in Update /\ Due(m) /\ updates[m].allowed
      BY <1>2, <2>4, AtWorkOn DEF GatewayCommand
    <3>2. UNCHANGED <<platform, apiTurns, sent>> /\ session' \in Sessions
      BY <1>2, <2>4 DEF GatewayCommand, GatewayInv, GatewayTypeOK
    <3> DEFINE s == <<Word("notice")>>
    <3>3. s \in Seq(Sayings) /\ Len(s) = 1 /\ s[1].what # "part"
      BY OneWord
    <3>4. Change(m, [updates[m] EXCEPT !.at = "send", !.todo = s])
      BY <2>4 DEF GatewayCommand
    <3> HIDE DEF s
    <3> DEFINE u == [updates[m] EXCEPT !.at = "send", !.todo = s]
    <3>5. u \in Update /\ u.chat = updates[m].chat /\ u.at = "send" /\ u.todo = s /\ u.allowed
      BY <3>1, <3>3 DEF Update
    <3>6. Change(m, u)
      BY <3>4
    <3> HIDE DEF u
    <3> QED
      BY <1>2, <3>1, <3>2, <3>3, <3>5, <3>6, TypingStep
  <2>5. ASSUME NEW m \in DOMAIN updates, BeginText(m) PROVE GatewayInv'
    <3>1. updates[m] \in Update /\ Due(m) /\ updates[m].allowed /\ updates[m].kind = "text"
      BY <1>2, <2>5, AtWorkOn DEF BeginText
    <3>2. UNCHANGED <<platform, apiTurns, sent>> /\ session' \in Sessions
      BY <1>2, <2>5 DEF BeginText, GatewayInv, GatewayTypeOK
    <3>3. PICK a \in {"chat", "over"} : Change(m, [updates[m] EXCEPT !.at = a])
      BY <2>5 DEF BeginText
    <3> DEFINE u == [updates[m] EXCEPT !.at = a]
    <3>4. /\ u \in Update /\ u.chat = updates[m].chat /\ u.at = a /\ u.allowed /\ u.kind = "text"
          /\ Change(m, u)
      BY <3>1, <3>3 DEF Update
    <3> HIDE DEF u
    <3> QED
      BY <1>2, <3>1, <3>2, <3>4, TypingStep
  <2>6. ASSUME NEW m \in DOMAIN updates, SendFails(m) PROVE GatewayInv'
    <3>1. updates[m] \in Update /\ updates[m].at = "send" /\ updates[m].todo # <<>>
      BY <1>2, <2>6, AtWorkOn DEF SendFails
    <3>2. UNCHANGED <<platform, session, apiTurns, sent>>
      BY <2>6 DEF SendFails
    <3>3. CASE Change(m, [updates[m] EXCEPT !.at = "over"])
      <4> DEFINE u == [updates[m] EXCEPT !.at = "over"]
      <4>1. /\ u \in Update /\ u.chat = updates[m].chat /\ u.at = "over" /\ Change(m, u)
            /\ u.allowed = updates[m].allowed /\ u.kind = updates[m].kind
        BY <3>1, <3>3 DEF Update
      <4> HIDE DEF u
      <4> QED
        BY <1>2, <3>1, <3>2, <4>1, EndStep
    <3>4. CASE /\ updates[m].todo[1].what \notin {"refused", "notice", "apology"}
               /\ Change(m, [updates[m] EXCEPT !.todo = <<Word("apology")>>])
      <4> DEFINE s == <<Word("apology")>>
      <4>1. s \in Seq(Sayings) /\ Len(s) = 1 /\ s[1].what # "part"
        BY OneWord
      <4>2. Change(m, [updates[m] EXCEPT !.todo = s])
        BY <3>4
      <4> HIDE DEF s
      <4> DEFINE u == [updates[m] EXCEPT !.todo = s]
      <4>3. /\ u \in Update /\ u.chat = updates[m].chat /\ u.at = "send" /\ u.todo = s
            /\ u.allowed = updates[m].allowed /\ u.kind = updates[m].kind
        BY <3>1, <4>1 DEF Update
      <4>4. Change(m, u)
        BY <4>2
      <4>5. updates[m].allowed
        <5>1. Replied(updates[m], m, sent[updates[m].chat], apiTurns)
          BY <1>2, AtWorkOn
        <5>2. updates[m].allowed \/ updates[m].todo[1].what = "refused"
          BY <3>1, <5>1 DEF Replied
        <5> QED
          BY <3>4, <5>2
      <4> HIDE DEF u
      <4> QED
        BY <1>2, <3>1, <3>2, <4>1, <4>3, <4>4, <4>5, EndStep
    <3> QED
      BY <2>6, <3>3, <3>4 DEF SendFails
  <2>7. ASSUME NEW m \in DOMAIN updates, Finish(m) PROVE GatewayInv'
    <3> DEFINE u == [updates[m] EXCEPT !.at = "over"]
    <3>1. updates[m] \in Update /\ updates[m].at = "send" /\ UNCHANGED <<platform, session, apiTurns, sent>>
      BY <1>2, <2>7, AtWorkOn DEF Finish
    <3>2. /\ u \in Update /\ u.chat = updates[m].chat /\ u.at = "over" /\ Change(m, u)
          /\ u.allowed = updates[m].allowed /\ u.kind = updates[m].kind
      BY <2>7, <3>1 DEF Update, Finish
    <3> HIDE DEF u
    <3> QED
      BY <1>2, <3>1, <3>2, EndStep
  <2> QED
    BY <1>2, <2>1, <2>2, <2>3, <2>4, <2>5, <2>6, <2>7, ChatStep, SendStep DEF GatewayNext
<1> QED
  BY <1>1, <1>2, PTL DEF GatewaySpec

(* A message makes one turn at most, only of one who may, and is answered   *)
(* in its chat by the first parts of its own turn's answer, in order, and   *)
(* at most one word on an error. (on_message)                               *)
THEOREM RepliesStayTheirs == GatewaySpec => []RepliesAreTheirTurns
<1>1. GatewayInv => RepliesAreTheirTurns
  <2> SUFFICES ASSUME GatewayInv PROVE RepliesAreTheirTurns
    OBVIOUS
  <2>1. ASSUME NEW m \in DOMAIN updates
        PROVE  LET list == sent[updates[m].chat]
                   own == About(list, m)
                   made == About(apiTurns, m)
               IN  /\ Cardinality(made) <= 1
                   /\ made # {} => updates[m].allowed /\ updates[m].kind = "text"
                   /\ ~updates[m].allowed => \A i \in own : list[i].item.what = "refused"
                   /\ \A i \in own :
                        IF list[i].item.what = "part"
                        THEN list[i].item.n = Cardinality({j \in own : j <= i}) /\ made # {}
                        ELSE \A j \in own : j <= i
                   /\ \A c \in Chats \ {updates[m].chat} : About(sent[c], m) = {}
    <3> DEFINE made == About(apiTurns, m)
    <3>1. Cardinality(made) <= 1
      <4>1. \A s, t \in made : s = t
        BY DEF About, GatewayInv
      <4>2. CASE made = {}
        BY <4>2, FS_EmptySet
      <4>3. CASE made # {}
        <5>1. PICK t \in made : TRUE
          BY <4>3
        <5>2. made = {t}
          BY <4>1, <5>1
        <5> HIDE DEF made
        <5> QED
          BY <5>2, FS_Singleton
      <4> QED
        BY <4>2, <4>3
    <3>2. \A c \in Chats \ {updates[m].chat} : About(sent[c], m) = {}
      BY DEF About, GatewayInv
    <3>3. Replied(updates[m], m, sent[updates[m].chat], apiTurns)
      BY DEF GatewayInv
    <3> QED
      BY <3>1, <3>2, <3>3 DEF Replied
  <2>2. platform = "telegram" =>
          \A c \in Chats : \A i, j \in DOMAIN sent[c] : i < j => sent[c][i].of <= sent[c][j].of
    BY DEF GatewayInv
  <2> QED
    BY <2>1, <2>2 DEF RepliesAreTheirTurns
<1> QED
  BY <1>1, GatewayInductive, PTL

(* What is sent, waits to be sent and was asked of the API is of its kind.  *)
THEOREM GatewayTypesHold == GatewaySpec => []GatewayTypeOK
<1>1. GatewayInv => GatewayTypeOK
  BY DEF GatewayInv
<1> QED
  BY <1>1, GatewayInductive, PTL

-----------------------------------------------------------------------------
(* The types of the remaining components, and all components side by side.  *)

(* The times in a queue are times of the clock: a part of a queue is one.   *)
LEMMA RateTypesLast == RateTypeOK /\ [RateNext]_rateVars => RateTypeOK'
<1> SUFFICES ASSUME RateTypeOK, [RateNext]_rateVars PROVE RateTypeOK'
  OBVIOUS
<1>1. /\ time \in 0..MaxTime /\ hits \in [Clients -> Seq(0..MaxTime)]
      /\ passed \in [Clients -> Seq(0..MaxTime)] /\ MaxTime \in Nat
  BY RateAssumption DEF RateTypeOK
<1>2. ASSUME NEW c \in Clients, RateOk(c) PROVE RateTypeOK'
  <2>1. PICK k \in 0..Len(hits[c]) :
          LET q == Drop(hits[c], k) IN
          /\ time' = time
          /\ \/ hits' = [hits EXCEPT ![c] = q] /\ passed' = passed
             \/ /\ hits' = [hits EXCEPT ![c] = Append(q, time)]
                /\ passed' = [passed EXCEPT ![c] = Append(passed[c], time)]
    BY <1>2 DEF RateOk
  <2> DEFINE q == Drop(hits[c], k)
  <2>2. hits[c] \in Seq(0..MaxTime) /\ passed[c] \in Seq(0..MaxTime)
    BY <1>1
  <2>3. q \in Seq(0..MaxTime)
    <3>1. Len(hits[c]) \in Nat /\ k \in Nat /\ k <= Len(hits[c])
      BY <2>2, LenProperties
    <3>2. \A i \in (k + 1)..Len(hits[c]) : hits[c][i] \in 0..MaxTime
      <4>1. \A i \in 1..Len(hits[c]) : hits[c][i] \in 0..MaxTime
        BY <2>2, ElementOfSeq
      <4> QED
        BY <3>1, <4>1
    <3> QED
      BY <2>2, <3>1, <3>2, SubSeqProperties DEF Drop
  <2> HIDE DEF q
  <2>4. Append(q, time) \in Seq(0..MaxTime) /\ Append(passed[c], time) \in Seq(0..MaxTime)
    BY <1>1, <2>2, <2>3, AppendProperties
  <2> QED
    BY <1>1, <2>1, <2>3, <2>4 DEF RateTypeOK, q
<1>3. CASE ApiRestart
  BY <1>1, <1>3 DEF ApiRestart, RateTypeOK
<1>4. CASE TimePasses
  BY <1>1, <1>4 DEF TimePasses, RateTypeOK
<1>5. CASE UNCHANGED rateVars
  BY <1>1, <1>5 DEF rateVars, RateTypeOK
<1> QED
  BY <1>2, <1>3, <1>4, <1>5 DEF RateNext

(* The types that inductive invariants have already.                        *)
LEMMA TypesHold ==
    /\ RateSpec => []RateTypeOK
    /\ SessionSpec => []SessionTypeOK
    /\ MemorySpec => []MemoryTypeOK
    /\ SandboxSpec => []SandboxTypeOK
    /\ BackupsSpec => []BackupsTypeOK
    /\ PluginsSpec => []PluginsTypeOK
    /\ LocalApplySpec => []LocalApplyTypeOK
<1>1. RateInit => RateTypeOK
  BY RateAssumption DEF RateInit, RateTypeOK
<1>2. SessionInv => SessionTypeOK
  BY DEF SessionInv
<1>3. ApprovalInv => MemoryTypeOK
  BY DEF ApprovalInv
<1>4. SandboxInv => SandboxTypeOK
  BY DEF SandboxInv, SandboxCall, SandboxTypeOK
<1>5. BackupsInv => BackupsTypeOK
  <2> SUFFICES ASSUME BackupTypes PROVE BackupsTypeOK
    BY DEF BackupsInv
  <2>1. \A b \in DOMAIN backups : backups[b].held \in [Areas -> Holding]
    BY DEF BackupTypes, Backup, Content
  <2>2. job.at \in {"none", "copy", "restore", "replace", "remove", "put", "returned"} /\ job.todo \subseteq Areas
    BY DEF BackupTypes, BackupJob
  <2> QED
    BY <2>1, <2>2 DEF BackupTypes, BackupsTypeOK, Content
<1>6. PluginsInv => PluginsTypeOK
  BY DEF PluginsInv, PluginTypes, PluginsTypeOK
<1>7. LocalApplyInv => LocalApplyTypeOK
  BY DEF LocalApplyInv
<1>8. PluginsInv /\ [PluginsNext]_pluginVars => PluginsInv'
  BY PluginsStepTypes, PluginsStepInTime DEF PluginsInv
<1>9. RateSpec => []RateTypeOK
  BY <1>1, RateTypesLast, PTL DEF RateSpec
<1>10. SessionSpec => []SessionTypeOK
  BY <1>2, SessionInductive, PTL
<1>11. MemorySpec => []MemoryTypeOK
  BY <1>3, ApprovalInductive, PTL
<1>12. SandboxSpec => []SandboxTypeOK
  BY <1>4, SandboxStarts, SandboxStep, PTL DEF SandboxSpec
<1>13. BackupsSpec => []BackupsTypeOK
  BY <1>5, BackupsInductive, PTL
<1>14. PluginsSpec => []PluginsTypeOK
  BY <1>6, <1>8, PluginsStart, PTL DEF PluginsSpec
<1>15. LocalApplySpec => []LocalApplyTypeOK
  BY <1>7, LocalApplyInductive, PTL
<1> QED
  BY <1>9, <1>10, <1>11, <1>12, <1>13, <1>14, <1>15

(* Side by side each component behaves as it does alone.                    *)
LEMMA EachAsAlone ==
    ServicesSpec =>
        /\ RateSpec /\ GuardSpec /\ SessionSpec /\ MemorySpec /\ RbacSpec /\ RustSpec /\ TextSpec
        /\ IndexSpec /\ SandboxSpec /\ GatewaySpec /\ BackupsSpec /\ PluginsSpec /\ LocalApplySpec
<1>1. ServicesInit =>
        /\ RateInit /\ GuardInit /\ SessionInit /\ MemoryInit /\ RbacInit /\ RustInit /\ TextInit
        /\ IndexInit /\ SandboxInit /\ GatewayInit /\ BackupsInit /\ PluginsInit /\ LocalApplyInit
  BY DEF ServicesInit
<1>2. [ServicesNext]_servicesVars =>
        /\ [RateNext]_rateVars /\ [GuardNext]_guardVars /\ [SessionNext]_sessionVars
        /\ [MemoryNext]_memoryVars /\ [RbacNext]_rbacVars /\ [RustNext]_rustVars
        /\ [TextNext]_textVars /\ [IndexNext]_indexVars /\ [SandboxNext]_sandboxVars
        /\ [GatewayNext]_gatewayVars /\ [BackupsNext]_backupVars /\ [PluginsNext]_pluginVars
        /\ [LocalApplyNext]_localApplyVars
  BY DEF ServicesNext, servicesVars
<1> QED
  BY <1>1, <1>2, PTL DEF ServicesSpec, RateSpec, GuardSpec, SessionSpec, MemorySpec, RbacSpec,
     RustSpec, TextSpec, IndexSpec, SandboxSpec, GatewaySpec, BackupsSpec, PluginsSpec, LocalApplySpec

(* The types of all services hold side by side, for any of their constants; *)
(* among them that no scan for items runs past the end of its file.         *)
(* (indexer.py 185)                                                         *)
THEOREM ServicesTypesHold == ServicesSpec => []ServicesTypeOK
<1>1. /\ RateTypeOK /\ GuardTypeOK /\ SessionTypeOK /\ MemoryTypeOK /\ RbacTypeOK /\ RustTypeOK
      /\ TextTypeOK /\ IndexTypeOK /\ SandboxTypeOK /\ GatewayTypeOK /\ BackupsTypeOK
      /\ PluginsTypeOK /\ LocalApplyTypeOK
      => ServicesTypeOK
  BY DEF ServicesTypeOK
<1> QED
  BY <1>1, EachAsAlone, TypesHold, GuardTypesHold, GrantsAreLevels, RustTypesHold, TextTypesHold,
     IndexTypesHold, GatewayTypesHold, PTL

(* And so does what each of them promises.                                  *)
THEOREM ServicesStaySafe ==
    ServicesSpec =>
        [](/\ RateIsKept /\ OverrunIsBounded /\ TurnsAreKept /\ ItemsAreInOnePlace
           /\ ChecksAreBacked /\ NoCutInsideBraces /\ TextIsKept /\ IndexIsCurrent
           /\ CargoAnswersAreTrue /\ RepliesAreTheirTurns /\ RestoresAreFaithful
           /\ PluginsAreAsListed /\ LeftoversAreBounded)
BY EachAsAlone, NoClientExceedsTheRate, OverrunStaysBounded, TurnsStayKept, ItemsStayInOnePlace,
   ChecksStayBacked, BracesStayTogether, TextStaysKept, IndexStaysCurrent, CargoNeverLies,
   RepliesStayTheirs, RestoresStayFaithful, PluginsStayAsListed, LeftoversStayBounded, PTL
=============================================================================
