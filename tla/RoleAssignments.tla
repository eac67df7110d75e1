---------------------------- MODULE RoleAssignments ----------------------------
(***************************************************************************)
(* Who holds which role in one project:                                    *)
(*   - ProjectRbacService.assignProjectRole / removeProjectRole,           *)
(*   - ProjectMembershipService.inviteUser / removeUser,                   *)
(*   - RolesService.delete, from the project's route or from the           *)
(*     organisation's,                                                     *)
(*   - the routes of the organisation and of other projects that give a    *)
(*     role by its id, whatever it belongs to,                             *)
(*   - AdminUserManagementService.removeUserFromSystem,                    *)
(* over user_roles, project_users and the cache user:role:project:p:u of   *)
(* RoleRetrievalService, which nothing invalidates.  One action per await  *)
(* on the database or the cache.                                           *)
(***************************************************************************)
EXTENDS Naturals, FiniteSets

CONSTANTS
  Users,       \* the users whose roles are looked at
  Creator,     \* created the project, as its Project Admin: one of them or not
  Own,         \* the roles of the project
  System,      \* those that cannot be deleted
  Admin,       \* "Project Admin", a system role
  Member,      \* "Member", the default role, a system role
  OrgMember,   \* "Organisation Member", a role of the organisation
  Slots,       \* requests served at a time
  Kinds,       \* operations on offer
  MaxDeaths    \* bound: requests whose process dies half-way

ASSUME RolesAssumption ==
  /\ System \subseteq Own
  /\ {Admin, Member} \subseteq System
  /\ OrgMember \notin Own \union {"none", "miss"}
  /\ {"none", "miss"} \intersect Own = {}
ASSUME KindsAssumption ==
  Kinds \subseteq {"check", "assign", "unassign", "invite", "leave", "delete", "orgDelete",
                   "elsewhere", "purge"}
ASSUME DeathsAssumption == MaxDeaths \in Nat

Roles == Own \union {OrgMember}

VARIABLES
  roles,    \* the project's roles that exist
  members,  \* project_users
  held,     \* user_roles: the roles of each user
  cache,    \* user:role:project:p:<user>
  pc,       \* where each request is
  req,      \* its operation, the user (on) and the role
  old,      \* the role of the user it has read
  listed,   \* the users a deletion has listed, or a purge has found here
  dropped,  \* history: users whose role was taken or never given
  misled,   \* history: users of whom a request has read or met something else,
            \* or whom a request to elsewhere gave one role more
  deaths    \* counter bounded by MaxDeaths

local == <<pc, req, old, listed>>
vars  == <<roles, members, held, cache, local, dropped, misled, deaths>>

Labels == {"idle", "get", "read", "set", "findOld", "remove", "findNew", "findRole",
           "save", "member", "join", "invited", "part", "load", "list",
           "reassign", "deleteOnly", "replace", "projects", "purge"}

Deletions == {"delete", "orgDelete"}

\* A request that names no role carries "none"; the user of a deletion is
\* whoever asks for it.
Requests ==
  {r \in [kind : Kinds, on : Users, role : Roles \union {"none"}] :
     r.kind \in {"check", "unassign", "leave", "purge"} <=> r.role = "none"}

Init ==
  /\ roles = Own
  /\ members = Users \intersect {Creator}
  /\ held = [u \in Users |-> IF u = Creator THEN {Admin} ELSE {}]
  /\ cache = [u \in Users |-> "miss"]
  /\ pc = [s \in Slots |-> "idle"]
  /\ req \in [Slots -> Requests]
  /\ old = [s \in Slots |-> "none"]
  /\ listed = [s \in Slots |-> {}]
  /\ dropped = {}
  /\ misled = {}
  /\ deaths = 0

On(s)   == req[s].on
Role(s) == req[s].role
Kind(s) == req[s].kind

OwnOf(u) == held[u] \intersect Own

\* What a read of u's role may return, `nothing` when there is none.
HeldOr(nothing, u) == IF OwnOf(u) = {} THEN {nothing} ELSE OwnOf(u)

\* Of the users us, those that h leaves without a role of the project.
Without(h, us) == {u \in us : h[u] \intersect Own = {}}

Goto(s, label) == pc' = [pc EXCEPT ![s] = label]

\* The requests that change a role, and whose user's role another one changes
\* at the same time.
Changing(r) == r.kind # "check"
Rivals(s, r) ==
  {t \in Slots \ {s} : /\ pc[t] # "idle" /\ Changing(r) /\ Changing(req[t])
                       /\ r.on = On(t) \/ {r.kind, Kind(t)} \intersect Deletions # {}}

\* Where a request starts.
Entry(kind) ==
  CASE kind \in {"check", "assign", "unassign"} -> "get"
    [] kind \in {"invite", "leave"}             -> "member"
    [] kind = "elsewhere"                       -> "replace"
    [] kind = "purge"                           -> "projects"
    [] OTHER                                    -> "load"

\* A controller takes a request.  Any role may be named: neither assignment
\* nor invitation looks at where a role belongs.
Accept(s, r) ==
  /\ pc[s] = "idle"
  /\ req' = [req EXCEPT ![s] = r]
  /\ Goto(s, Entry(r.kind))
  /\ old' = [old EXCEPT ![s] = "none"]
  /\ listed' = [listed EXCEPT ![s] = {}]
  /\ misled' = misled \union
       {u \in Users : Rivals(s, r) # {} /\
                        (u = r.on \/ \E t \in Rivals(s, r) : u = On(t))}
  /\ UNCHANGED <<roles, members, held, cache, dropped, deaths>>

-----------------------------------------------------------------------------
(***************************************************************************)
(* getUserProjectRole, and what follows it.                                *)
(***************************************************************************)

\* Mutant: the role held is left where it is.
AfterRoleKeeps(s, role) ==
  Goto(s, IF Kind(s) = "assign" THEN "findNew"
          ELSE IF Kind(s) = "unassign" /\ role # "none" THEN "findOld"
          ELSE "idle")

\* assignProjectRole removes another role first; removeProjectRole the role
\* found; a permission check is done.
AfterRole(s, role) ==
  \/ /\ Kind(s) = "assign"
     /\ Goto(s, IF role \notin {"none", Role(s)} THEN "findOld" ELSE "findNew")
  \/ /\ Kind(s) = "unassign"
     /\ Goto(s, IF role # "none" THEN "findOld" ELSE "idle")
  \/ /\ Kind(s) = "check"
     /\ Goto(s, "idle")

\* A hit (null included) is the answer, stale or not.
GetRole(s) ==
  /\ pc[s] = "get"
  /\ LET hit == cache[On(s)] IN
     \/ /\ hit = "miss"
        /\ Goto(s, "read")
        /\ UNCHANGED <<old, misled>>
     \/ /\ hit # "miss"
        /\ old' = [old EXCEPT ![s] = hit]
        /\ misled' = IF hit \in HeldOr("none", On(s)) THEN misled
                     ELSE misled \union {On(s)}
        /\ AfterRole(s, hit)
  /\ UNCHANGED <<roles, members, held, cache, req, listed, dropped, deaths>>

\* Mutant: a user without a role reads as undefined.
ReadRoleUndefined(s) ==
  /\ pc[s] = "read"
  /\ \E r \in HeldOr("miss", On(s)) : old' = [old EXCEPT ![s] = r]
  /\ Goto(s, "set")
  /\ UNCHANGED <<roles, members, held, cache, req, listed, dropped, misled, deaths>>

\* The first of the user's roles that is one of the project: no ORDER BY.
ReadRole(s) ==
  /\ pc[s] = "read"
  /\ \E r \in HeldOr("none", On(s)) : old' = [old EXCEPT ![s] = r]
  /\ Goto(s, "set")
  /\ UNCHANGED <<roles, members, held, cache, req, listed, dropped, misled, deaths>>

SetRole(s) ==
  /\ pc[s] = "set"
  /\ cache' = [cache EXCEPT ![On(s)] = old[s]]
  /\ AfterRole(s, old[s])
  /\ UNCHANGED <<roles, members, held, req, old, listed, dropped, misled, deaths>>

-----------------------------------------------------------------------------
(***************************************************************************)
(* RbacAssignmentService.removeRole and assignRole.                        *)
(***************************************************************************)

AfterRemoval(s) == Goto(s, IF Kind(s) = "assign" THEN "findNew" ELSE "idle")

\* removeRole: a role that is not held is not removed.
FindOld(s) ==
  /\ pc[s] = "findOld"
  /\ \/ old[s] \in held[On(s)] /\ Goto(s, "remove")
     \/ old[s] \notin held[On(s)] /\ AfterRemoval(s)
  /\ UNCHANGED <<roles, members, held, cache, req, old, listed, dropped, misled, deaths>>

\* The row goes.  The cache entry of the project stays: the only key deleted
\* is that of the instance role.
RemoveOld(s) ==
  /\ pc[s] = "remove"
  /\ held' = [held EXCEPT ![On(s)] = @ \ {old[s]}]
  /\ dropped' = IF Kind(s) = "unassign" \/ Role(s) \notin Own
                  THEN dropped \union Without(held', {On(s)}) ELSE dropped
  /\ AfterRemoval(s)
  /\ UNCHANGED <<roles, members, cache, req, old, listed, misled, deaths>>

\* assignRole: a role that is held is not given again.
FindNew(s) ==
  /\ pc[s] = "findNew"
  /\ Goto(s, IF Role(s) \in held[On(s)] THEN "idle" ELSE "findRole")
  /\ UNCHANGED <<roles, members, held, cache, req, old, listed, dropped, misled, deaths>>

\* The user has been robbed of its role, or made a member, and is about to be
\* given one.
InTransit(s) ==
  \/ Kind(s) = "invite" /\ pc[s] = "invited"
  \/ Kind(s) # "elsewhere" /\ Role(s) \in Own /\ pc[s] \in {"findNew", "findRole", "save"}

\* The request ends there.
GiveUp(s) ==
  /\ dropped' = IF InTransit(s) THEN dropped \union Without(held, {On(s)}) ELSE dropped
  /\ Goto(s, "idle")

Exists(role) == role \in roles \union {OrgMember}

FindRole(s) ==
  /\ pc[s] = "findRole"
  /\ \/ Exists(Role(s)) /\ Goto(s, "save") /\ UNCHANGED dropped
     \/ ~Exists(Role(s)) /\ GiveUp(s)
  /\ UNCHANGED <<roles, members, held, cache, req, old, listed, misled, deaths>>

\* Such a request gives a user another role of the project than it has.
GivesOneMore(s) ==
  Kind(s) = "elsewhere" /\ Role(s) \in Own /\ OwnOf(On(s)) \ {Role(s)} # {}

\* The foreign key refuses a role deleted since, the unique index a second row.
SaveNew(s) ==
  /\ pc[s] = "save"
  /\ \/ /\ Exists(Role(s))
        /\ held' = [held EXCEPT ![On(s)] = @ \union {Role(s)}]
        /\ dropped' = IF Role(s) \in Own THEN dropped \ {On(s)} ELSE dropped
        /\ misled' = IF GivesOneMore(s) THEN misled \union {On(s)} ELSE misled
        /\ Goto(s, "idle")
     \/ /\ ~Exists(Role(s))
        /\ GiveUp(s)
        /\ UNCHANGED <<held, misled>>
  /\ UNCHANGED <<roles, members, cache, req, old, listed, deaths>>

\* OrganisationRbacService.assignRole, and another project's assignment or
\* invitation, that names a role of this one.  What it takes is the role the
\* user has there (or, by a stale entry, the one it had), never one of here;
\* then assignRole gives the role named, which is looked up by its id alone.
ReplaceElsewhere(s) ==
  /\ pc[s] = "replace"
  /\ \/ UNCHANGED held
     \/ /\ Role(s) # OrgMember
        /\ held' = [held EXCEPT ![On(s)] = @ \ {OrgMember}]
  /\ Goto(s, "findNew")
  /\ UNCHANGED <<roles, members, cache, req, old, listed, dropped, misled, deaths>>

-----------------------------------------------------------------------------
(***************************************************************************)
(* inviteUser and removeUser.                                              *)
(***************************************************************************)

\* isProjectMember: an invitation of a member, or the removal of somebody who
\* is none, is answered without a change.  The creator cannot be removed.
IsProjectMember(s) ==
  /\ pc[s] = "member"
  /\ Goto(s, IF Kind(s) = "invite"
               THEN IF On(s) \in members THEN "idle" ELSE "join"
               ELSE IF On(s) \in members \ {Creator} THEN "part" ELSE "idle")
  /\ UNCHANGED <<roles, members, held, cache, req, old, listed, dropped, misled, deaths>>

\* The membership row comes before the role; a second row is an error.
Join(s) ==
  /\ pc[s] = "join"
  /\ members' = members \union {On(s)}
  /\ Goto(s, IF On(s) \in members THEN "idle" ELSE "invited")
  /\ UNCHANGED <<roles, held, cache, req, old, listed, dropped, misled, deaths>>

\* The role of the invitation is looked up (the default one always exists)
\* and given; a role the user still holds is not looked for.
FindInvited(s) ==
  /\ pc[s] = "invited"
  /\ misled' = IF OwnOf(On(s)) # {} THEN misled \union {On(s)} ELSE misled
  /\ \/ /\ Exists(Role(s))
        /\ Goto(s, "findNew")
        /\ dropped' = IF Role(s) \in Own THEN dropped
                      ELSE dropped \union Without(held, {On(s)})
     \/ ~Exists(Role(s)) /\ GiveUp(s)
  /\ UNCHANGED <<roles, members, held, cache, req, old, listed, deaths>>

\* removeUser deletes the membership.  The roles stay.
Part(s) ==
  /\ pc[s] = "part"
  /\ members' = members \ {On(s)}
  /\ Goto(s, "idle")
  /\ UNCHANGED <<roles, held, cache, req, old, listed, dropped, misled, deaths>>

-----------------------------------------------------------------------------
(***************************************************************************)
(* removeUserFromSystem.                                                   *)
(***************************************************************************)

\* getUserProjectIds, before the transaction.
ListProjects(s) ==
  /\ pc[s] = "projects"
  /\ listed' = [listed EXCEPT ![s] = {On(s)} \intersect members]
  /\ Goto(s, "purge")
  /\ UNCHANGED <<roles, members, held, cache, req, old, dropped, misled, deaths>>

\* The user leaves the projects listed and loses every role: one that has
\* become a member since stays one, without a role.
Purge(s) ==
  /\ pc[s] = "purge"
  /\ members' = members \ listed[s]
  /\ held' = [held EXCEPT ![On(s)] = {}]
  /\ dropped' = dropped \union {On(s)}
  /\ Goto(s, "idle")
  /\ UNCHANGED <<roles, cache, req, old, listed, misled, deaths>>

-----------------------------------------------------------------------------
(***************************************************************************)
(* RolesService.delete.                                                    *)
(***************************************************************************)

\* findOne and the refusal of system roles.  The organisation's route takes
\* the project's roles too: their organisation is the same.
LoadRole(s) ==
  /\ pc[s] = "load"
  /\ Goto(s, IF Role(s) \in roles \ System THEN "list" ELSE "idle")
  /\ UNCHANGED <<roles, members, held, cache, req, old, listed, dropped, misled, deaths>>

\* getUserIdsForRole, before the transaction.
ListHolders(s) ==
  /\ pc[s] = "list"
  /\ listed' = [listed EXCEPT ![s] = {u \in Users : Role(s) \in held[u]}]
  /\ Goto(s, IF listed'[s] = {} THEN "deleteOnly" ELSE "reassign")
  /\ UNCHANGED <<roles, members, held, cache, req, old, dropped, misled, deaths>>

\* The default role of the route the request came by.
DefaultRole(s) == IF Kind(s) = "delete" THEN Member ELSE OrgMember

\* The users a deletion gives a role of the project.
Given(s) == IF Kind(s) = "delete" THEN listed[s] ELSE {}

\* Users that lose the role with the row of the role itself, or get the
\* organisation's for it, and have no other.
Bereft(s, given) ==
  Without(held', {u \in Users \ given : Role(s) \in held[u] \/ u \in listed[s]})

\* Mutant: the listed users are not given the default role.
ReassignNone(s) ==
  /\ pc[s] = "reassign"
  /\ held' = [u \in Users |-> held[u] \ {Role(s)}]
  /\ roles' = roles \ {Role(s)}
  /\ dropped' = (dropped \ Given(s)) \union Bereft(s, Given(s))
  /\ Goto(s, "idle")
  /\ UNCHANGED <<members, cache, req, old, listed, misled, deaths>>

\* The transaction: each listed user loses the role, if it still has it, and
\* gets the default one; then the role goes, and with it whoever else got it.
Reassign(s) ==
  /\ pc[s] = "reassign"
  /\ held' = [u \in Users |-> IF u \in listed[s]
                                THEN (held[u] \ {Role(s)}) \union {DefaultRole(s)}
                                ELSE held[u] \ {Role(s)}]
  /\ roles' = roles \ {Role(s)}
  /\ dropped' = (dropped \ Given(s)) \union Bereft(s, Given(s))
  /\ Goto(s, "idle")
  /\ UNCHANGED <<members, cache, req, old, listed, misled, deaths>>

\* It rolls back as a whole when another request gives a listed user the
\* default role between the look-up and the write of it (the unique index).
ReassignAborts(s) ==
  /\ pc[s] = "reassign"
  /\ \E u \in listed[s], t \in Slots \ {s} :
       /\ DefaultRole(s) \notin held[u]
       /\ \/ pc[t] = "save" /\ On(t) = u /\ Role(t) = DefaultRole(s)
          \/ pc[t] = "reassign" /\ u \in listed[t] /\ DefaultRole(t) = DefaultRole(s)
  /\ Goto(s, "idle")
  /\ UNCHANGED <<roles, members, held, cache, req, old, listed, dropped, misled, deaths>>

\* Nobody had the role: it goes, and the rows made since go with it.
DeleteOnly(s) ==
  /\ pc[s] = "deleteOnly"
  /\ held' = [u \in Users |-> held[u] \ {Role(s)}]
  /\ roles' = roles \ {Role(s)}
  /\ dropped' = dropped \union Bereft(s, {})
  /\ Goto(s, "idle")
  /\ UNCHANGED <<members, cache, req, old, listed, misled, deaths>>

-----------------------------------------------------------------------------
(***************************************************************************)
(* The environment: entries expire, and a process may die between awaits.  *)
(***************************************************************************)
Expire(u) ==
  /\ cache[u] # "miss"
  /\ cache' = [cache EXCEPT ![u] = "miss"]
  /\ UNCHANGED <<roles, members, held, local, dropped, misled, deaths>>

Die(s) ==
  /\ deaths < MaxDeaths
  /\ pc[s] # "idle"
  /\ deaths' = deaths + 1
  /\ GiveUp(s)
  /\ UNCHANGED <<roles, members, held, cache, req, old, listed, misled>>

-----------------------------------------------------------------------------
Step(s) ==
  \/ GetRole(s) \/ ReadRole(s) \/ SetRole(s)
  \/ FindOld(s) \/ RemoveOld(s) \/ FindNew(s) \/ FindRole(s) \/ SaveNew(s)
  \/ ReplaceElsewhere(s) \/ ListProjects(s) \/ Purge(s)
  \/ IsProjectMember(s) \/ Join(s) \/ FindInvited(s) \/ Part(s)
  \/ LoadRole(s) \/ ListHolders(s) \/ Reassign(s) \/ ReassignAborts(s) \/ DeleteOnly(s)

Next ==
  \/ \E s \in Slots : Step(s) \/ Die(s) \/ \E r \in Requests : Accept(s, r)
  \/ \E u \in Users : Expire(u)

Spec == Init /\ [][Next]_vars

-----------------------------------------------------------------------------
(***************************************************************************)
(* Properties.                                                             *)
(***************************************************************************)
TypeOK ==
  /\ roles \subseteq Own
  /\ System \subseteq roles
  /\ members \subseteq Users
  /\ held \in [Users -> SUBSET Roles]
  /\ cache \in [Users -> Own \union {"none", "miss"}]
  /\ pc \in [Slots -> Labels]
  /\ req \in [Slots -> Requests]
  /\ old \in [Slots -> Own \union {"none"}]
  /\ listed \in [Slots -> SUBSET Users]
  /\ dropped \subseteq Users
  /\ misled \subseteq Users
  /\ deaths \in Nat

\* A member of the project has a role in it, or a request is about to give it
\* one, or its role was taken: unassigned, replaced by one that is not of the
\* project, deleted (from the organisation's route, or after the holders were
\* listed), purged with the user's other roles while the user joined, or the
\* request failed or died between the old role and the new.  However
\* assignments, invitations, deletions and purges are interleaved, and
\* whatever stale role they read, two of them never cancel out.
MembersKeepARole ==
  \A u \in members :
    OwnOf(u) # {} \/ u \in dropped \/ \E s \in Slots : On(s) = u /\ InTransit(s)

\* assignProjectRole replaces: a user has at most one role of a project,
\* unless a request of it read a stale cache entry, it came back after its
\* removal, two requests changed it at a time, or a route of the organisation
\* or of another project was asked for a role of this one: no assignment looks
\* at where the role belongs.  The project's own routes, one at a time and with
\* a true entry, never leave a second.
SecondRoleIsExplained ==
  \A u \in Users : Cardinality(OwnOf(u)) > 1 => u \in misled
=============================================================================
