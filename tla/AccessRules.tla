------------------------------ MODULE AccessRules ------------------------------
(***************************************************************************)
(* Who is served at which door of an organisation: the guards of src/rbac, *)
(* the roles that are seeded, and the memberships and roles that the doors *)
(* themselves change.  A role is given by its id, of whatever scope it is.  *)
(* One request at a time: the races between requests                       *)
(* and the caches of roles are those of RoleAssignments and                *)
(* InstanceOwners.                                                         *)
(***************************************************************************)
EXTENDS Routes, Naturals, FiniteSets

CONSTANTS
  People,    \* the users
  Bosses,    \* those of them who are instance owners and created the organisation
  Projects,  \* the projects the organisation can have
  Licensed,  \* LicenseService.isEnterpriseLicensed
  MaxHeld    \* bound: the roles that somebody is given

VARIABLES
  seated,    \* organisation_users
  creator,   \* projects.created_by_id, "nobody" when the project does not exist
  joined,    \* project_users: the users of each project
  held,      \* user_roles: the roles of each user
  orphaned   \* history: projects whose creator was removed from the system, and not invited since

accessVars == <<seated, creator, joined, held, orphaned>>

Role(name, scope) == [name |-> name, scope |-> scope]
OrgRoles == {Role("Organisation Admin", "org"), Role("Organisation Member", "org")}
ProjectRoles(p) == {Role(n, p) : n \in {"Project Admin", "Member", "Viewer"}}
Owner == Role("Owner", "instance")
Existing == {Owner} \union OrgRoles \union UNION {ProjectRoles(p) : p \in Projects}
Exists(p) == creator[p] # "nobody"

-----------------------------------------------------------------------------
\* The roles that are seeded

Data == {"datasources", "datasets", "traces", "conversations", "prompts", "experiments",
         "evaluations", "scores", "annotation-queues", "annotations"}
Settings == {"entities", "conversation-configurations", "model-configurations"}

OrganisationAdminPermissions ==
  AllOf({"organisations"} \union Data \union Settings)
  \union {"projects"} \X (CRUD \union {"members:read", "members:create", "members:delete",
                                       "roles:assign", "roles:remove"})
OrganisationMemberPermissions == ReadOf({"organisations"} \union Settings)

\* Mutant: it is given what it manages, and not what members work on.
ProjectAdminPermissionsBare ==
  ReadOf(Data \union Settings)
  \union {"projects"} \X {"read", "update", "delete", "members:read", "members:create",
                          "members:delete", "roles:assign", "roles:remove"}

\* It manages the roles of the organisation, not those of its project.
ProjectAdminPermissions ==
  AllOf(Data) \union ReadOf(Settings)
  \union {"projects"} \X {"read", "update", "delete", "members:read", "members:create",
                          "members:delete", "roles:assign", "roles:remove"}
  \union {"organisations"} \X {"roles:read", "roles:create", "roles:update", "roles:delete"}

MemberPermissions == AllOf(Data) \union ReadOf(Settings \union {"projects"})
ViewerPermissions ==
  ReadOf(Data \union Settings \union {"projects"}) \union {<<"evaluations", "results:read">>}

PermissionsOf ==
  [role \in Existing |->
     CASE role.name = "Owner" -> {<<"*">>}
       [] role.name = "Organisation Admin" -> OrganisationAdminPermissions
       [] role.name = "Organisation Member" -> OrganisationMemberPermissions
       [] role.name = "Project Admin" -> ProjectAdminPermissions
       [] role.name = "Member" -> MemberPermissions
       [] role.name = "Viewer" -> ViewerPermissions]

-----------------------------------------------------------------------------
\* RbacPermissionService

\* "*" swallows the others.
AggregatePermissions(roles) ==
  IF \E r \in roles : PermissionsOf[r] = {<<"*">>} THEN {<<"*">>}
  ELSE UNION {PermissionsOf[r] : r \in roles}

HasPermission(roles, permission) ==
  LET permissions == AggregatePermissions(roles)
  IN <<"*">> \in permissions \/ permission \in permissions

\* One role of the instance, one of the organisation, one of the project; which
\* one, when a user holds several of a kind, is up to the database.
AnyOf(roles) == IF roles = {} THEN {{}} ELSE {{r} : r \in roles}
UserRoles(u, p) ==
  {i \union o \union q : i \in AnyOf(held[u] \intersect {Owner}),
                         o \in AnyOf(held[u] \intersect OrgRoles),
                         q \in IF p = "none" THEN {{}} ELSE AnyOf(held[u] \intersect ProjectRoles(p))}

\* Mutant: without a project, the roles of projects do not count.
WithProjectRolesNot(u, p, roles) == roles

\* Without a project, the roles of every project of the organisation count.
WithProjectRoles(u, p, roles) ==
  IF p = "none" THEN roles \union UNION {held[u] \intersect ProjectRoles(q) : q \in Projects}
  ELSE roles

\* Mutant: the menu is that of the roles alone.
MenuOfRoles(u, p, roles) == AggregatePermissions(roles)

\* getUserPermissionsWithContext, "all": what the user interface offers.
Menu(u, p, roles) == AggregatePermissions(WithProjectRoles(u, p, roles))

-----------------------------------------------------------------------------
\* The guards, for roles that the user is found to hold

InstancePermissionGuard(roles, door) ==
  door.permission = <<>> \/ HasPermission(roles, door.permission)

OrgPermissionGuard(u, door, roles) ==
  /\ u \in seated
  /\ door.permission = <<>> \/ HasPermission(WithProjectRoles(u, "none", roles), door.permission)

CreatorFallback(u, p, door) == door.creator /\ creator[p] = u

\* Mutant: the creator's fallback is for those who are no members.
OrgProjectPermissionGuardStrict(u, p, door, roles) ==
  /\ u \in seated
  /\ \/ u \notin joined[p] /\ CreatorFallback(u, p, door)
     \/ u \in joined[p] /\ (door.permission = <<>> \/ HasPermission(roles, door.permission))

OrgProjectPermissionGuard(u, p, door, roles) ==
  /\ u \in seated
  /\ \/ CreatorFallback(u, p, door)
     \/ u \in joined[p] /\ (door.permission = <<>> \/ HasPermission(roles, door.permission))

\* The guards of a door, those of the controller first, refuse one by one.
Admitted(u, p, door) ==
  /\ "instance" \in door.guards =>
       \E roles \in UserRoles(u, "none") : InstancePermissionGuard(roles, door)
  /\ "org" \in door.guards =>
       \E roles \in UserRoles(u, "none") : OrgPermissionGuard(u, door, roles)
  /\ "project" \in door.guards =>
       \E roles \in UserRoles(u, p) : OrgProjectPermissionGuard(u, p, door, roles)
  /\ "license" \in door.guards => Licensed

-----------------------------------------------------------------------------
\* The requests that change who may do what.  a asks for it, u is concerned.

Init ==
  /\ seated = Bosses
  /\ creator = [p \in Projects |-> "nobody"]
  /\ joined = [p \in Projects |-> {}]
  /\ held = [u \in People |->
       IF u \in Bosses THEN {Owner, Role("Organisation Admin", "org")} ELSE {}]
  /\ orphaned = {}

\* What the id of a role stands for, in a request that asks for no scope: any
\* role there is, or none, which fails after what was done before.
Named == {{}} \union {{r} : r \in Existing}

Hold(u, roles) == Cardinality(roles) <= MaxHeld /\ held' = [held EXCEPT ![u] = roles]

\* The role that is read among those of the scope is taken, and the new one given.
Replace(u, scope, given) ==
  \E old \in AnyOf(held[u] \intersect scope) : Hold(u, (held[u] \ old) \union given)

\* The role must be of the organisation; where it is not, the user has a seat already.
AddUser(a, u) ==
  /\ u \notin seated
  /\ Admitted(a, "none", Door(OrganisationsController, "addUser"))
  /\ seated' = seated \union {u}
  /\ UNCHANGED held \/ \E role \in OrgRoles : Replace(u, OrgRoles, {role})
  /\ UNCHANGED <<creator, joined, orphaned>>

\* Memberships of projects, and roles, stay behind.
RemoveFromOrganisation(a, u) ==
  /\ Admitted(a, "none", Door(OrganisationMembersController, "removeUser"))
  /\ seated' = seated \ {u}
  /\ UNCHANGED <<creator, joined, held, orphaned>>

AssignOrganisationRole(a, u) ==
  /\ Admitted(a, "none", Door(OrganisationMembersController, "assignRole"))
  /\ \E given \in Named : Replace(u, OrgRoles, given)
  /\ UNCHANGED <<seated, creator, joined, orphaned>>

\* Mutant: the projects that the user created go on listing them.
RemoveUserFromSystemKeepsProjects(a, u) ==
  /\ Admitted(a, "none", Door(AdminUsersController, "removeUser"))
  /\ a # u /\ Owner \notin held[u]
  /\ seated' = seated \ {u}
  /\ joined' = [p \in Projects |-> IF creator[p] = u THEN joined[p] ELSE joined[p] \ {u}]
  /\ held' = [held EXCEPT ![u] = {}]
  /\ orphaned' = orphaned \union {p \in Projects : creator[p] = u}
  /\ UNCHANGED creator

\* The account stays, and so does its name as the creator of projects.
RemoveUserFromSystem(a, u) ==
  /\ Admitted(a, "none", Door(AdminUsersController, "removeUser"))
  /\ a # u /\ Owner \notin held[u]
  /\ seated' = seated \ {u}
  /\ joined' = [p \in Projects |-> joined[p] \ {u}]
  /\ held' = [held EXCEPT ![u] = {}]
  /\ orphaned' = orphaned \union {p \in Projects : creator[p] = u}
  /\ UNCHANGED creator

\* Mutant: the project is saved without its creator among its users.
CreateProjectUnjoined(a, p) ==
  /\ ~Exists(p) /\ Admitted(a, "none", Door(ProjectsController, "create"))
  /\ creator' = [creator EXCEPT ![p] = a]
  /\ held' = [held EXCEPT ![a] = @ \union {Role("Project Admin", p)}]
  /\ UNCHANGED <<seated, joined, orphaned>>

CreateProject(a, p) ==
  /\ ~Exists(p) /\ Admitted(a, "none", Door(ProjectsController, "create"))
  /\ creator' = [creator EXCEPT ![p] = a]
  /\ joined' = [joined EXCEPT ![p] = {a}]
  /\ held' = [held EXCEPT ![a] = @ \union {Role("Project Admin", p)}]
  /\ UNCHANGED <<seated, orphaned>>

\* The users and the roles of the project go with it.
RemoveProject(a, p) ==
  /\ Exists(p) /\ Admitted(a, p, Door(ProjectsController, "remove"))
  /\ creator' = [creator EXCEPT ![p] = "nobody"]
  /\ joined' = [joined EXCEPT ![p] = {}]
  /\ held' = [u \in People |-> held[u] \ ProjectRoles(p)]
  /\ orphaned' = orphaned \ {p}
  /\ UNCHANGED seated

\* A role that stayed from an earlier membership is kept beside the new one.
InviteUser(a, p, u) ==
  /\ Exists(p) /\ u \in seated /\ u \notin joined[p]
  /\ Admitted(a, p, Door(ProjectsController, "inviteUser"))
  /\ joined' = [joined EXCEPT ![p] = @ \union {u}]
  /\ \E given \in Named : Hold(u, held[u] \union given)
  /\ orphaned' = IF creator[p] = u THEN orphaned \ {p} ELSE orphaned
  /\ UNCHANGED <<seated, creator>>

\* Mutant: the creator can be removed like anybody.
RemoveUserAnybody(a, p, u) ==
  /\ Exists(p) /\ Admitted(a, p, Door(ProjectsController, "removeUser"))
  /\ joined' = [joined EXCEPT ![p] = @ \ {u}]
  /\ UNCHANGED <<seated, creator, held, orphaned>>

RemoveUser(a, p, u) ==
  /\ Exists(p) /\ Admitted(a, p, Door(ProjectsController, "removeUser"))
  /\ u # creator[p]
  /\ joined' = [joined EXCEPT ![p] = @ \ {u}]
  /\ UNCHANGED <<seated, creator, held, orphaned>>

AssignProjectRole(a, p, u) ==
  /\ Exists(p) /\ Admitted(a, p, Door(ProjectMembersController, "assignProjectRole"))
  /\ \E given \in Named : Replace(u, ProjectRoles(p), given)
  /\ UNCHANGED <<seated, creator, joined, orphaned>>

RemoveProjectRole(a, p, u) ==
  /\ Exists(p) /\ Admitted(a, p, Door(ProjectMembersController, "removeProjectRole"))
  /\ Replace(u, ProjectRoles(p), {})
  /\ UNCHANGED <<seated, creator, joined, orphaned>>

Next ==
  \E a \in People :
    \/ \E u \in People \ Bosses :
         \/ AddUser(a, u) \/ RemoveFromOrganisation(a, u) \/ AssignOrganisationRole(a, u)
         \/ RemoveUserFromSystem(a, u)
         \/ \E p \in Projects :
              \/ InviteUser(a, p, u) \/ RemoveUser(a, p, u)
              \/ AssignProjectRole(a, p, u) \/ RemoveProjectRole(a, p, u)
    \/ \E p \in Projects : CreateProject(a, p) \/ RemoveProject(a, p)

Spec == Init /\ [][Next]_accessVars

-----------------------------------------------------------------------------
\* Type correctness.
TypeOK ==
  /\ seated \subseteq People
  /\ creator \in [Projects -> People \union {"nobody"}]
  /\ joined \in [Projects -> SUBSET People]
  /\ \A u \in People : held[u] \subseteq Existing
  /\ orphaned \subseteq Projects

\* Whoever created a project, and is in the organisation, can repair its roles
\* whatever others have taken from them: the doors of the project's roles are
\* never closed to them for want of a permission.
CreatorCanRepair ==
  \A p \in Projects : creator[p] \in seated =>
    \A door \in ProjectRolesController :
      \A roles \in UserRoles(creator[p], p) : OrgProjectPermissionGuard(creator[p], p, door, roles)

\* The list of projects, "created by me or joined by me", names no project
\* whose guard would then say that the caller is not one of its users, unless
\* its creator was removed from the system: then, back in the organisation, the
\* creator is shown the project and refused at its doors until invited to it.
ListedProjectsAreJoined ==
  \A u \in People, p \in Projects : creator[p] = u => (u \in joined[p] <=> p \notin orphaned)

\* A door of ProjectsController has two guards.  Where the inner one finds the
\* permission among the roles of the project, the outer one, which knows of
\* no project, finds it too.
GuardsAgree ==
  \A u \in seated, p \in Projects :
    \A door \in {d \in ProjectsController \union ProjectMembersController :
                  "project" \in d.guards /\ d.permission # <<>>} :
      (u \in joined[p] /\ \E roles \in UserRoles(u, p) : HasPermission(roles, door.permission))
        => \E roles \in UserRoles(u, "none") : OrgPermissionGuard(u, door, roles)

\* What the doors behind a guard ask for, creators' own doors apart.
AskingDoors(guard) ==
  {[d EXCEPT !.name = "any", !.guards = {guard}] :
     d \in {e \in SessionDoors : guard \in e.guards /\ e.permission # <<>> /\ ~e.creator}}
OrgDoors == AskingDoors("org")
ProjectDoors == AskingDoors("project")

\* What GET users/me/permissions lists under "all" is what the guards enforce:
\* a member is offered a door exactly when it opens.
MenuMatchesDoors ==
  LET Offers(menu, door) == door.permission \in menu \/ <<"*">> \in menu
  IN \A u \in seated :
       /\ \A roles \in UserRoles(u, "none") :
            LET menu == Menu(u, "none", roles)
            IN \A door \in OrgDoors : Offers(menu, door) <=> OrgPermissionGuard(u, door, roles)
       /\ \A p \in {q \in Projects : u \in joined[q]} : \A roles \in UserRoles(u, p) :
            LET menu == Menu(u, p, roles)
            IN \A door \in ProjectDoors :
                 Offers(menu, door) <=> OrgProjectPermissionGuard(u, p, door, roles)

\* The roles of a project are ranks: an Admin is served wherever a Member is,
\* a Member wherever a Viewer is; so are the two roles of the organisation.
RanksAreOrdered ==
  /\ ViewerPermissions \subseteq MemberPermissions
  /\ MemberPermissions \subseteq ProjectAdminPermissions
  /\ OrganisationMemberPermissions \subseteq OrganisationAdminPermissions

\* No seeded role may change rows it may not look at: it is served by some
\* reading door of the resource of every changing door it is served by.
ChangersCanLook ==
  LET reads == {"read", "results:read", "members:read", "roles:read"}
      Family(resource) == IF resource = "annotations" THEN "annotation-queues" ELSE resource
      Served(role) == {d.permission : d \in SessionDoors} \intersect PermissionsOf[role]
  IN \A role \in DOMAIN PermissionsOf \ {Owner} :
       LET visible == {perm[1] : perm \in {q \in Served(role) : q[2] \in reads}}
       IN \A perm \in Served(role) : Family(perm[1]) \in visible

\* A key is one project's, or the worker's: of what the whole organisation
\* shares, and of what only people write, it does no more than read.
KeysOnlyReadSettings ==
  LET writes == {"create", "addRow", "importScoreResults", "createResult"}
  IN \A resource \in DOMAIN KeyDoors :
       (\E door \in KeyDoors[resource] : door.name \in writes)
         => resource \in Data \ {"datasources", "prompts", "scores"}

\* What is said of the seeds and of the doors alone is asked once.
AccessSafety ==
  /\ TypeOK
  /\ CreatorCanRepair
  /\ ListedProjectsAreJoined
  /\ GuardsAgree
  /\ MenuMatchesDoors
  /\ Init => RanksAreOrdered /\ ChangersCanLook /\ KeysOnlyReadSettings
=============================================================================
