-------------------------------- MODULE Rbac --------------------------------
(* Users, teams, organisations and their permission levels,                 *)
(* agent/permission_enhanced.py. Each operation opens a connection of its   *)
(* own and commits at its end; a process runs one at a time. An operation   *)
(* that calls another one before it commits gets nothing from it: the inner *)
(* connection does not see the row, or finds the database locked.           *)
EXTENDS Absent, Naturals

CONSTANTS
    Users,
    Teams,
    Organizations,
    Resources,
    GroupLevels     \* levels of groups on resources: no code writes them

(* What users are members of. *)
Groups == Teams \cup Organizations

LevelNames == {"none", "read", "write", "admin"}

ASSUME RbacAssumption ==
    /\ Teams \cap Organizations = {}
    /\ GroupLevels \in [Groups \X Resources -> LevelNames]
    /\ None \notin LevelNames

VARIABLES
    users,      \* per user, None, "active" or "inactive"
    groups,     \* the groups that exist; none is ever removed or closed
    members,    \* pairs of a group and a user
    levels      \* per user and resource, the level granted, or None

rbacVars == <<users, groups, members, levels>>

(* The order of the levels by name, which decides between them, and the one *)
(* by meaning, which decides what they allow.                               *)
ByName == [admin |-> 0, none |-> 1, read |-> 2, write |-> 3]
ByMeaning == [none |-> 0, read |-> 1, write |-> 2, admin |-> 3]

Higher(new, old) == IF ByName[new] > ByName[old] THEN new ELSE old

UserLevel(u, r) == IF levels[<<u, r>>] = None THEN "none" ELSE levels[<<u, r>>]

OfTeams(u, r) == {GroupLevels[<<g, r>>] : g \in {h \in Teams : <<h, u>> \in members}}

OfOrganizations(u, r) ==
    {GroupLevels[<<g, r>>] : g \in {h \in Organizations : <<h, u>> \in members}}

HighestByName_Last(ls) ==
    IF ls = {} THEN "none"
    ELSE Higher(CHOOSE l \in ls : \A k \in ls : ByName[l] <= ByName[k], "none")

(* The rows come in any order; the highest by name is what is left of them. *)
HighestByName(ls) ==
    IF ls = {} THEN "none"
    ELSE Higher(CHOOSE l \in ls : \A k \in ls : ByName[l] >= ByName[k], "none")

Effective(u, r) ==
    Higher(HighestByName(OfOrganizations(u, r)),
           Higher(HighestByName(OfTeams(u, r)), Higher(UserLevel(u, r), "none")))

(* Neither the role, nor that the user was deleted, nor that the grant has  *)
(* expired plays a part.                                                    *)
CheckPermission(u, r, required) == ByMeaning[Effective(u, r)] >= ByMeaning[required]

-----------------------------------------------------------------------------
RbacInit ==
    /\ users = [u \in Users |-> None]
    /\ groups = {} /\ members = {}
    /\ levels = [k \in Users \X Resources |-> None]

CreateUser(u) ==
    /\ users[u] = None /\ users' = [users EXCEPT ![u] = "active"]
    /\ UNCHANGED <<groups, members, levels>>

(* update_user may also activate a user again; a user that does not exist   *)
(* is updated without an error.                                             *)
UpdateUser(u, status) ==
    /\ users' = [users EXCEPT ![u] = IF @ = None THEN None ELSE status]
    /\ UNCHANGED <<groups, members, levels>>

DeleteUser(u) == UpdateUser(u, "inactive")

(* The creator is added through another connection, to which the group does *)
(* not exist yet: it becomes no member, and nobody looks at the answer.     *)
CreateTeam(g) ==
    /\ g \in Teams \ groups /\ groups' = groups \cup {g}
    /\ UNCHANGED <<users, members, levels>>

CreateOrganization(g) ==
    /\ g \in Organizations \ groups /\ groups' = groups \cup {g}
    /\ UNCHANGED <<users, members, levels>>

AddTeamMember(g, u) ==
    /\ users[u] = "active" /\ g \in Teams \cap groups
    /\ members' = members \cup {<<g, u>>}
    /\ UNCHANGED <<users, groups, levels>>

(* What an organisation grants its users by default is granted through a    *)
(* second connection while the first one holds the lock: it is not granted. *)
AddOrganizationMember(g, u) ==
    /\ users[u] = "active" /\ g \in Organizations \cap groups
    /\ members' = members \cup {<<g, u>>}
    /\ UNCHANGED <<users, groups, levels>>

(* Nothing removes a member of an organisation. *)
RemoveTeamMember(g, u) ==
    /\ g \in Teams /\ members' = members \ {<<g, u>>}
    /\ UNCHANGED <<users, groups, levels>>

(* The tables' references are not enforced: the user need not exist.        *)
Grant(u, r, level) ==
    /\ levels' = [levels EXCEPT ![<<u, r>>] = level]
    /\ UNCHANGED <<users, groups, members>>

Revoke(u, r) ==
    /\ levels' = [levels EXCEPT ![<<u, r>>] = None]
    /\ UNCHANGED <<users, groups, members>>

RbacNext ==
    \/ \E g \in Groups : CreateTeam(g) \/ CreateOrganization(g)
    \/ \E u \in Users :
         \/ CreateUser(u) \/ DeleteUser(u)
         \/ \E status \in {"active", "inactive"} : UpdateUser(u, status)
         \/ \E g \in Groups :
              AddTeamMember(g, u) \/ AddOrganizationMember(g, u) \/ RemoveTeamMember(g, u)
         \/ \E r \in Resources : Revoke(u, r) \/ \E level \in LevelNames : Grant(u, r, level)

RbacSpec == RbacInit /\ [][RbacNext]_rbacVars

-----------------------------------------------------------------------------

RbacTypeOK ==
    /\ users \in [Users -> {None, "active", "inactive"}]
    /\ groups \subseteq Groups
    /\ members \subseteq groups \X Users
    /\ levels \in [Users \X Resources -> LevelNames \cup {None}]

(* What a user holds for a resource: levels of the user's own and of groups.*)
LevelsHeld(u, r) == {levels[<<u, r>>]} \cup OfTeams(u, r) \cup OfOrganizations(u, r)

Meets(l, required) == l \in LevelNames /\ ByMeaning[l] >= ByMeaning[required]

(* A check passes only if the user holds a level now, of the user's own or  *)
(* of a present group, that meets what is asked for by its meaning; and no  *)
(* other level, whatever it is and in whatever order the rows come, takes   *)
(* from a user what a read or write level allows. What an admin level allows*)
(* is left open here: see LevelsMeetOrExceed. (permission_enhanced.py 718)  *)
ChecksAreBacked ==
    \A u \in Users, r \in Resources, required \in LevelNames \ {"none"} :
        /\ CheckPermission(u, r, required) => \E l \in LevelsHeld(u, r) : Meets(l, required)
        /\ (\E l \in LevelsHeld(u, r) \cap {"read", "write"} : Meets(l, required))
              => CheckPermission(u, r, required)

(* What permission_enhanced.py 696 and 761 say: the highest level decides,  *)
(* and passes if it meets or exceeds what is asked for. An admin level does *)
(* not: by name it is the lowest of all.                                    *)
LevelsMeetOrExceed ==
    \A u \in Users, r \in Resources, required \in LevelNames \ {"none"} :
        CheckPermission(u, r, required) <=> \E l \in LevelsHeld(u, r) : Meets(l, required)
=============================================================================
