---------------------------- MODULE InstanceOwners ----------------------------
(***************************************************************************)
(* Who may administer the instance:                                        *)
(*   - InstanceOwnerService.assignOwnerRole / removeOwnerRole and          *)
(*     AdminUserManagementService.removeUserFromSystem,                    *)
(*   - the routes of organisations and projects that assign a role by its  *)
(*     id (OrganisationRbacService.assignRole, ProjectRbacService          *)
(*     .assignProjectRole, ProjectMembershipService.inviteUser), Owner     *)
(*     included: none looks at the scope of the role,                      *)
(*   - the permission check of the first three, RbacPermissionService      *)
(*     .hasPermissionForUser(u, "*"), which goes through the two caches of *)
(*     RoleRetrievalService: user:roles:u:: (never invalidated) and        *)
(*     user:role:instance:u (deleted by assignRole and removeRole).        *)
(* One action per await on the database or the cache.  The only instance   *)
(* role is Owner, so a user's roles are "owner" or "none".                 *)
(***************************************************************************)
EXTENDS Naturals, FiniteSets

CONSTANTS
  Users,
  InitialOwners,  \* the owners when the system starts
  Slots,          \* requests served at a time
  Kinds,          \* operations on offer: "assign", "remove", "purge", "byId"
  MaxDeaths       \* bound: requests whose process dies half-way

ASSUME OwnersAssumption == InitialOwners \subseteq Users /\ InitialOwners # {}
ASSUME KindsAssumption == Kinds \subseteq {"assign", "remove", "purge", "byId"}
ASSUME DeathsAssumption == MaxDeaths \in Nat

Roles == {"owner", "none"}
Entry == Roles \union {"miss"}

VARIABLES
  owners,      \* users with the Owner role in user_roles
  everOwner,   \* history: users that ever had it
  rolesCache,  \* user:roles:<user>::
  instCache,   \* user:role:instance:<user>
  pc,          \* where each request is
  check,       \* which permission check it is in
  req,         \* its operation, requester (by) and target (on)
  seen,        \* the role its cache fill has read
  deaths       \* counter bounded by MaxDeaths

caches == <<rolesCache, instCache>>
local  == <<pc, check, req, seen>>
vars   == <<owners, everOwner, caches, local, deaths>>

Labels == {"idle", "roles", "instance", "read", "setInstance", "setRoles",
           "list", "find", "save", "delete", "invalidate", "purge"}

Requests == [kind : Kinds, by : Users, on : Users]

\* The operations that give the role.
Giving == {"assign", "byId"}

RoleOf(u) == IF u \in owners THEN "owner" ELSE "none"

\* The user whose permission is being checked.
Subject(s) == IF check[s] = "target" THEN req[s].on ELSE req[s].by

Goto(s, label) == pc' = [pc EXCEPT ![s] = label]

Init ==
  /\ owners = InitialOwners
  /\ everOwner = InitialOwners
  /\ rolesCache = [u \in Users |-> "miss"]
  /\ instCache = [u \in Users |-> "miss"]
  /\ pc = [s \in Slots |-> "idle"]
  /\ check = [s \in Slots |-> "guard"]
  /\ req \in [Slots -> Requests]
  /\ seen = [s \in Slots |-> "none"]
  /\ deaths = 0

\* InstanceOwnerController / AdminUsersController: the guard comes first.
\* removeUserFromSystem refuses the requester itself.
Accept(s, r) ==
  /\ pc[s] = "idle"
  /\ r.kind # "byId"
  /\ r.kind = "purge" => r.by # r.on
  /\ req' = [req EXCEPT ![s] = r]
  /\ check' = [check EXCEPT ![s] = "guard"]
  /\ Goto(s, "roles")
  /\ UNCHANGED <<owners, everOwner, caches, seen, deaths>>

\* The routes that take the id of any role: what their guards ask, if they have
\* one, is a permission in the organisation or the project, not "*".  Another
\* role that the request takes first is none of the instance.
AcceptRoleById(s, r) ==
  /\ pc[s] = "idle"
  /\ r.kind = "byId"
  /\ req' = [req EXCEPT ![s] = r]
  /\ check' = [check EXCEPT ![s] = "guard"]
  /\ Goto(s, "find")
  /\ UNCHANGED <<owners, everOwner, caches, seen, deaths>>

-----------------------------------------------------------------------------
(***************************************************************************)
(* hasPermissionForUser(Subject(s), "*").                                  *)
(***************************************************************************)

\* Mutant: the check of the service lets everybody through.
DecideAll(s, role) ==
  \/ /\ check[s] = "guard"
     /\ check' = [check EXCEPT ![s] = IF req[s].kind = "purge" THEN "target" ELSE "service"]
     /\ Goto(s, "roles")
  \/ /\ check[s] = "service"
     /\ Goto(s, IF req[s].kind = "assign" THEN "find" ELSE "list")
     /\ UNCHANGED check
  \/ /\ check[s] = "target"
     /\ Goto(s, IF role = "owner" THEN "idle" ELSE "purge")
     /\ UNCHANGED check

\* The guard and the service refuse a requester that is not an owner; the
\* purge refuses a target that is one.
Decide(s, role) ==
  \/ /\ check[s] = "guard"
     /\ role = "owner"
     /\ check' = [check EXCEPT ![s] = IF req[s].kind = "purge" THEN "target" ELSE "service"]
     /\ Goto(s, "roles")
  \/ /\ check[s] = "service"
     /\ role = "owner"
     /\ Goto(s, IF req[s].kind = "assign" THEN "find" ELSE "list")
     /\ UNCHANGED check
  \/ /\ check[s] = "target"
     /\ role = "none"
     /\ Goto(s, "purge")
     /\ UNCHANGED check
  \/ /\ role = IF check[s] = "target" THEN "owner" ELSE "none"
     /\ Goto(s, "idle")
     /\ UNCHANGED check

\* getUserRoles: a hit of the composite cache decides.
GetRoles(s) ==
  /\ pc[s] = "roles"
  /\ LET hit == rolesCache[Subject(s)] IN
     \/ hit # "miss" /\ Decide(s, hit)
     \/ hit = "miss" /\ Goto(s, "instance") /\ UNCHANGED check
  /\ UNCHANGED <<owners, everOwner, caches, req, seen, deaths>>

\* getUserInstanceRole: a hit of the instance cache (null included) returns.
GetInstanceRole(s) ==
  /\ pc[s] = "instance"
  /\ LET hit == instCache[Subject(s)] IN
     \/ hit # "miss" /\ seen' = [seen EXCEPT ![s] = hit] /\ Goto(s, "setRoles")
     \/ hit = "miss" /\ Goto(s, "read") /\ UNCHANGED seen
  /\ UNCHANGED <<owners, everOwner, caches, check, req, deaths>>

\* Mutant: the role of a user without one is undefined, which a cache
\* cannot tell from a miss.
ReadRolesUndefined(s) ==
  /\ pc[s] = "read"
  /\ seen' = [seen EXCEPT ![s] = IF Subject(s) \in owners THEN "owner" ELSE "miss"]
  /\ Goto(s, "setInstance")
  /\ UNCHANGED <<owners, everOwner, caches, check, req, deaths>>

\* The user_roles of the subject are read.
ReadRoles(s) ==
  /\ pc[s] = "read"
  /\ seen' = [seen EXCEPT ![s] = RoleOf(Subject(s))]
  /\ Goto(s, "setInstance")
  /\ UNCHANGED <<owners, everOwner, caches, check, req, deaths>>

SetInstanceRole(s) ==
  /\ pc[s] = "setInstance"
  /\ instCache' = [instCache EXCEPT ![Subject(s)] = seen[s]]
  /\ Goto(s, "setRoles")
  /\ UNCHANGED <<owners, everOwner, rolesCache, check, req, seen, deaths>>

\* Mutant: the cache key leaves the user out.
SetRolesSharedKey(s) ==
  /\ pc[s] = "setRoles"
  /\ rolesCache' = [u \in Users |-> seen[s]]
  /\ Decide(s, seen[s])
  /\ seen' = [seen EXCEPT ![s] = "none"]
  /\ UNCHANGED <<owners, everOwner, instCache, req, deaths>>

SetRoles(s) ==
  /\ pc[s] = "setRoles"
  /\ rolesCache' = [rolesCache EXCEPT ![Subject(s)] = seen[s]]
  /\ Decide(s, seen[s])
  /\ seen' = [seen EXCEPT ![s] = "none"]
  /\ UNCHANGED <<owners, everOwner, instCache, req, deaths>>

-----------------------------------------------------------------------------
(***************************************************************************)
(* assignRole, removeRole and the purge.                                   *)
(***************************************************************************)

\* removeOwnerRole refuses when one owner is left and it is the target, or
\* the requester removes itself.
ListOwners(s) ==
  /\ pc[s] = "list"
  /\ Goto(s, IF Cardinality(owners) = 1 /\ (req[s].on \in owners \/ req[s].on = req[s].by)
               THEN "idle" ELSE "find")
  /\ UNCHANGED <<owners, everOwner, caches, check, req, seen, deaths>>

\* findOne: an assigned role is not assigned again, a missing one not removed.
FindUserRole(s) ==
  /\ pc[s] = "find"
  /\ Goto(s, IF req[s].kind \in Giving
               THEN IF req[s].on \in owners THEN "idle" ELSE "save"
               ELSE IF req[s].on \in owners THEN "delete" ELSE "idle")
  /\ UNCHANGED <<owners, everOwner, caches, check, req, seen, deaths>>

\* save: the unique index on (user_id, role_id) refuses a second row.
SaveUserRole(s) ==
  /\ pc[s] = "save"
  /\ owners' = owners \union {req[s].on}
  /\ everOwner' = everOwner \union {req[s].on}
  /\ Goto(s, IF req[s].on \in owners THEN "idle" ELSE "invalidate")
  /\ UNCHANGED <<caches, check, req, seen, deaths>>

\* remove: deleting a row that is gone is no error.
DeleteUserRole(s) ==
  /\ pc[s] = "delete"
  /\ owners' = owners \ {req[s].on}
  /\ Goto(s, "invalidate")
  /\ UNCHANGED <<everOwner, caches, check, req, seen, deaths>>

\* invalidateUserRoleCaches deletes one of the two keys.
Invalidate(s) ==
  /\ pc[s] = "invalidate"
  /\ instCache' = [instCache EXCEPT ![req[s].on] = "miss"]
  /\ Goto(s, "idle")
  /\ UNCHANGED <<owners, everOwner, rolesCache, check, req, seen, deaths>>

\* The transaction of removeUserFromSystem; no cache key is deleted.
Purge(s) ==
  /\ pc[s] = "purge"
  /\ owners' = owners \ {req[s].on}
  /\ Goto(s, "idle")
  /\ UNCHANGED <<everOwner, caches, check, req, seen, deaths>>

-----------------------------------------------------------------------------
(***************************************************************************)
(* The environment: entries expire (ROLE_CACHE_TTL, or the store is full), *)
(* and a process may die between two awaits.                               *)
(***************************************************************************)

\* Mutant: entries of the composite cache have no time to live.
ExpireRolesNever(u) ==
  /\ rolesCache[u] = "none"
  /\ rolesCache' = [rolesCache EXCEPT ![u] = "miss"]
  /\ UNCHANGED <<owners, everOwner, instCache, local, deaths>>

ExpireRoles(u) ==
  /\ rolesCache[u] # "miss"
  /\ rolesCache' = [rolesCache EXCEPT ![u] = "miss"]
  /\ UNCHANGED <<owners, everOwner, instCache, local, deaths>>

ExpireInstance(u) ==
  /\ instCache[u] # "miss"
  /\ instCache' = [instCache EXCEPT ![u] = "miss"]
  /\ UNCHANGED <<owners, everOwner, rolesCache, local, deaths>>

Die(s) ==
  /\ deaths < MaxDeaths
  /\ pc[s] # "idle"
  /\ deaths' = deaths + 1
  /\ Goto(s, "idle")
  /\ UNCHANGED <<owners, everOwner, caches, check, req, seen>>

-----------------------------------------------------------------------------
Step(s) ==
  \/ GetRoles(s) \/ GetInstanceRole(s) \/ ReadRoles(s)
  \/ SetInstanceRole(s) \/ SetRoles(s)
  \/ ListOwners(s) \/ FindUserRole(s) \/ SaveUserRole(s) \/ DeleteUserRole(s)
  \/ Invalidate(s) \/ Purge(s)

Expiry(u) == ExpireRoles(u) \/ ExpireInstance(u)

Next ==
  \/ \E s \in Slots : Step(s) \/ Die(s) \/ \E r \in Requests : Accept(s, r) \/ AcceptRoleById(s, r)
  \/ \E u \in Users : Expiry(u)

Spec == Init /\ [][Next]_vars

\* Every await comes back, and every cache entry expires.
Fairness ==
  /\ \A s \in Slots : WF_vars(Step(s))
  /\ \A u \in Users : WF_vars(ExpireRoles(u)) /\ WF_vars(ExpireInstance(u))

FairSpec == Spec /\ Fairness

-----------------------------------------------------------------------------
(***************************************************************************)
(* Properties.                                                             *)
(***************************************************************************)
TypeOK ==
  /\ owners \subseteq Users
  /\ everOwner \subseteq Users
  /\ rolesCache \in [Users -> Entry]
  /\ instCache \in [Users -> Entry]
  /\ pc \in [Slots -> Labels]
  /\ check \in [Slots -> {"guard", "service", "target"}]
  /\ req \in [Slots -> Requests]
  /\ seen \in [Slots -> Roles]
  /\ deaths \in Nat

\* "Cannot remove the last Owner from the system": an instance always has an
\* owner.  The list is read before the role is removed, so this needs removals
\* to come one at a time, and nobody to be purged.
AnOwnerRemains == owners # {}

\* The caches may be stale but never invent: an entry says "owner" only of a
\* user that once was one, so that no race or expiry makes an owner of
\* somebody who never was.
CachesNeverInvent ==
  \A u \in Users :
    rolesCache[u] = "owner" \/ instCache[u] = "owner" => u \in everOwner

\* Somebody stops being an owner only by a request of a user that is, or once
\* was, an owner, and becomes one so too, or by a route that assigned the role
\* by its id: however stale the caches, neither of the owners' own services
\* serves somebody who never was one, and no other route takes the role away.
OnlyOwnersChangeOwners ==
  [][\A u \in Users : (u \in owners) # (u \in owners') =>
       \E s \in Slots :
         /\ req[s].on = u
         /\ \/ pc[s] \in {"save", "delete", "purge"} /\ req[s].by \in everOwner
            \/ pc[s] = "save" /\ req[s].kind = "byId"]_vars

\* While requests come one at a time, none dies and nobody is purged, an entry
\* of the instance cache agrees with user_roles, but for the instant between
\* the write of a request and its invalidation.
InstanceCacheCoherent ==
  \A u \in Users :
    \/ instCache[u] \in {"miss", RoleOf(u)}
    \/ \E s \in Slots : pc[s] = "invalidate" /\ req[s].on = u

\* A user that lost the role for good loses its rights for good: stale entries
\* copy themselves only from the instance cache to the composite one, and
\* both expire.
RevocationTakesEffect ==
  \A u \in Users :
    <>[](u \notin owners) => <>[](rolesCache[u] # "owner" /\ instCache[u] # "owner")
=============================================================================
