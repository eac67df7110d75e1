------------------------------ MODULE Onboarding ------------------------------
(***************************************************************************)
(* How people come in:                                                     *)
(*   - UserCreatedHook, run after a sign-up or a single sign-on: the first *)
(*     user becomes Owner, the others need (or may use) an invitation,     *)
(*   - OrganisationsService.addUser / removeUser,                          *)
(*   - OrganisationRbacService.assignRole, on its own route or for a new   *)
(*     member, and AdminUserManagementService.removeUserFromSystem,        *)
(*   - OrganisationInvitationService: create or resend, check, find, and   *)
(*     consume; expiry is written when an overdue invitation is read.      *)
(* One action per await.  save() of an entity read earlier writes every    *)
(* column that differs from the row, so a request saves the copy it read.  *)
(* A seat has a role of its organisation or none; which one is left out,   *)
(* and so is the deletion of roles.                                        *)
(***************************************************************************)
EXTENDS Naturals, FiniteSets

CONSTANTS
  People,        \* a person and its e-mail address
  Orgs,
  Slots,         \* requests served at a time
  Sso,           \* single sign-on (no invitation required), or e-mail sign-up
  Faults,        \* do requests die, and assignments of the Owner role fail?
  MaxInvites     \* bound: invitations ever inserted

ASSUME SwitchAssumption == Sso \in BOOLEAN /\ Faults \in BOOLEAN
ASSUME SeatsAssumption == People # {} /\ Orgs # {}
ASSUME BoundAssumption == MaxInvites \in Nat

Seats == Orgs \X People
Ids   == 1..MaxInvites

VARIABLES
  accounts,     \* rows of "user"
  ownerRoles,   \* user_roles: people the hook made Owner
  orgRoles,     \* user_roles: seats with a role of the organisation
  unroled,      \* history: members left without a role, because a request died or
                \* named no role of the organisation, or by a purge as they joined
  members,      \* organisation_users
  sent,         \* invitations inserted so far; ids follow created_at
  seat,         \* [Ids -> Seats]: organisation and address of each
  status,       \* [Ids -> {"pending", "accepted", "expired"}]
  overdue,      \* [Ids -> BOOLEAN]: expires_at has passed
  pc,           \* where each request is
  who, org,     \* whom and which organisation it is about
  copy,         \* the invitation it has read: id and overdue
  asked,        \* history: seats an administrator asked for
  everSeated    \* history: seats ever taken

invites == <<sent, seat, status, overdue>>
roles   == <<ownerRoles, orgRoles, unroled>>
local   == <<who, org, copy>>
vars    == <<accounts, roles, members, invites, pc, local, asked, everSeated>>

NoCopy == [id |-> 0, overdue |-> FALSE]

Init ==
  /\ accounts = {}
  /\ ownerRoles = {}
  /\ orgRoles = {}
  /\ unroled = {}
  /\ members = {}
  /\ sent = 0
  /\ seat \in [Ids -> {CHOOSE x \in Seats : TRUE}]
  /\ status = [i \in Ids |-> "expired"]
  /\ overdue = [i \in Ids |-> TRUE]
  /\ pc = [s \in Slots |-> "idle"]
  /\ who = [s \in Slots |-> CHOOSE p \in People : TRUE]
  /\ org = [s \in Slots |-> CHOOSE o \in Orgs : TRUE]
  /\ copy = [s \in Slots |-> NoCopy]
  /\ asked = {}
  /\ everSeated = {}

Goto(s, label) == pc' = [pc EXCEPT ![s] = label]

Seat(s) == <<org[s], who[s]>>

Pending(x) == {i \in 1..sent : seat[i] = x /\ status[i] = "pending"}

\* The request ends; its locals go with it.
End(s) ==
  /\ Goto(s, "idle")
  /\ who' = [who EXCEPT ![s] = CHOOSE p \in People : TRUE]
  /\ org' = [org EXCEPT ![s] = CHOOSE o \in Orgs : TRUE]
  /\ copy' = [copy EXCEPT ![s] = NoCopy]

Continue(s, label) == Goto(s, label) /\ UNCHANGED local

-----------------------------------------------------------------------------
(***************************************************************************)
(* UserCreatedHook.                                                        *)
(***************************************************************************)

\* The authentication library (external) has inserted the account when the
\* hook runs; a single sign-on runs it at every sign-in.
SignIn(s, p) ==
  /\ pc[s] = "idle"
  /\ Sso \/ p \notin accounts
  /\ accounts' = accounts \union {p}
  /\ who' = [who EXCEPT ![s] = p]
  /\ Goto(s, "countRoles")
  /\ UNCHANGED <<roles, members, invites, org, copy, asked, everSeated>>

\* isFirstUser counts user_roles ...
CountRoles(s) ==
  /\ pc[s] = "countRoles"
  /\ Continue(s, IF ownerRoles = {} /\ orgRoles = {} THEN "countUsers" ELSE "findInvite")
  /\ UNCHANGED <<accounts, roles, members, invites, asked, everSeated>>

\* Mutant: no roles make everybody the first user.
CountUsersNot(s) ==
  /\ pc[s] = "countUsers"
  /\ Continue(s, "owner")
  /\ UNCHANGED <<accounts, roles, members, invites, asked, everSeated>>

\* ... and, when there are none, users.
CountUsers(s) ==
  /\ pc[s] = "countUsers"
  /\ Continue(s, IF Cardinality(accounts) <= 1 THEN "owner" ELSE "findInvite")
  /\ UNCHANGED <<accounts, roles, members, invites, asked, everSeated>>

\* processUserRoleAssignment: an error of assignRole is logged and swallowed.
AssignOwner(s) ==
  /\ pc[s] = "owner"
  /\ \/ ownerRoles' = ownerRoles \union {who[s]}
     \/ Faults /\ UNCHANGED ownerRoles
  /\ End(s)
  /\ UNCHANGED <<accounts, orgRoles, unroled, members, invites, asked, everSeated>>

\* Mutant: the address is not part of the query.
FindInviteAnyone(s) ==
  /\ pc[s] = "findInvite"
  /\ LET found == {i \in 1..sent : status[i] = "pending"} IN
     \/ found = {} /\ End(s)
     \/ \E i \in found :
          /\ \A j \in found : j <= i
          /\ copy' = [copy EXCEPT ![s] = [id |-> i, overdue |-> overdue[i]]]
          /\ org' = [org EXCEPT ![s] = seat[i][1]]
          /\ Goto(s, IF overdue[i] THEN "expire" ELSE "isMember")
          /\ UNCHANGED who
  /\ UNCHANGED <<accounts, roles, members, invites, asked, everSeated>>

\* findPendingByEmail takes the newest invitation of any organisation.  Without
\* one the hook refuses a sign-up (the account stays) and lets a sign-on pass.
FindInvite(s) ==
  /\ pc[s] = "findInvite"
  /\ LET found == UNION {Pending(<<o, who[s]>>) : o \in Orgs} IN
     \/ found = {} /\ End(s)
     \/ \E i \in found :
          /\ \A j \in found : j <= i
          /\ copy' = [copy EXCEPT ![s] = [id |-> i, overdue |-> overdue[i]]]
          /\ org' = [org EXCEPT ![s] = seat[i][1]]
          /\ Goto(s, IF overdue[i] THEN "expire" ELSE "isMember")
          /\ UNCHANGED who
  /\ UNCHANGED <<accounts, roles, members, invites, asked, everSeated>>

\* Mutant: the invitation is consumed before the person is seated.
IsMemberConsumeFirst(s) ==
  /\ pc[s] = "isMember"
  /\ \/ Seat(s) \in members /\ End(s) /\ UNCHANGED status
     \/ /\ Seat(s) \notin members
        /\ status' = IF copy[s].id = 0 THEN status
                     ELSE [status EXCEPT ![copy[s].id] = "accepted"]
        /\ Continue(s, "join")
  /\ UNCHANGED <<accounts, roles, members, sent, seat, overdue, asked, everSeated>>

\* addExistingUserToOrganisation refuses a member.
IsMember(s) ==
  /\ pc[s] = "isMember"
  /\ \/ Seat(s) \in members /\ End(s)
     \/ Seat(s) \notin members /\ Continue(s, "join")
  /\ UNCHANGED <<accounts, roles, members, invites, asked, everSeated>>

\* The primary key of organisation_users refuses a second row.
Join(s) ==
  /\ pc[s] = "join"
  /\ \/ Seat(s) \in members /\ End(s) /\ UNCHANGED <<members, everSeated>>
     \/ /\ Seat(s) \notin members
        /\ members' = members \union {Seat(s)}
        /\ everSeated' = everSeated \union {Seat(s)}
        /\ Continue(s, "role")
  /\ UNCHANGED <<accounts, roles, invites, asked>>

\* assignRole looks for the role the person has there and removes it, unless
\* it is the one to be given (or the cache knows none).
TakeOrgRole(s) ==
  /\ pc[s] \in {"role", "newRole"}
  /\ Seat(s) \in orgRoles
  /\ orgRoles' = orgRoles \ {Seat(s)}
  /\ UNCHANGED <<accounts, ownerRoles, unroled, members, invites, pc, local, asked,
                 everSeated>>

\* Mutant: an invited person is left without a role.
AssignOrgRoleNoInvite(s) ==
  /\ pc[s] \in {"role", "newRole"}
  /\ orgRoles' = IF copy[s].id = 0 THEN orgRoles \union {Seat(s)} ELSE orgRoles
  /\ unroled' = unroled \ {Seat(s)}
  /\ IF copy[s].id = 0 THEN End(s) ELSE Continue(s, "consume")
  /\ UNCHANGED <<accounts, ownerRoles, members, invites, asked, everSeated>>

\* It gives the role named; a request of addUser or for a new role ends here.
AssignOrgRole(s) ==
  /\ pc[s] \in {"role", "newRole"}
  /\ orgRoles' = orgRoles \union {Seat(s)}
  /\ unroled' = unroled \ {Seat(s)}
  /\ IF copy[s].id = 0 THEN End(s) ELSE Continue(s, "consume")
  /\ UNCHANGED <<accounts, ownerRoles, members, invites, asked, everSeated>>

\* The members without a role, when the request gives none.
Withheld(s) == unroled \union ({Seat(s)} \intersect (members \ orgRoles))

\* No role has the id named, or it is not one of this organisation: a new
\* member's request is refused by getOrganisationRoleOrThrow, after the
\* membership was saved, and its invitation stays pending; the request for a
\* new role is answered, with a role of elsewhere or with an error, after the
\* old one has gone.
RefuseOrgRole(s) ==
  /\ pc[s] \in {"role", "newRole"}
  /\ unroled' = Withheld(s)
  /\ End(s)
  /\ UNCHANGED <<accounts, ownerRoles, orgRoles, members, invites, asked, everSeated>>

\* save(copy) with a new status.  The partial unique index refuses a second
\* pending invitation of a seat.
Save(s, new, isOverdue) ==
  LET i == copy[s].id IN
  IF new = "pending" /\ Pending(seat[i]) \ {i} # {}
    THEN UNCHANGED <<status, overdue>>
    ELSE /\ status' = [status EXCEPT ![i] = new]
         /\ overdue' = [overdue EXCEPT ![i] = isOverdue]

\* Mutant: another status of the enum.
ConsumeInviteRevokes(s) ==
  /\ pc[s] = "consume"
  /\ Save(s, "revoked", copy[s].overdue)
  /\ End(s)
  /\ UNCHANGED <<accounts, roles, members, sent, seat, asked, everSeated>>

\* consumeInvite saves the copy as accepted, whatever happened to the row.
ConsumeInvite(s) ==
  /\ pc[s] = "consume"
  /\ Save(s, "accepted", copy[s].overdue)
  /\ End(s)
  /\ UNCHANGED <<accounts, roles, members, sent, seat, asked, everSeated>>

\* findPendingByEmail and checkInvite mark an overdue invitation.
ExpireInvite(s) ==
  /\ pc[s] = "expire"
  /\ Save(s, "expired", copy[s].overdue)
  /\ End(s)
  /\ UNCHANGED <<accounts, roles, members, sent, seat, asked, everSeated>>

-----------------------------------------------------------------------------
(***************************************************************************)
(* OrganisationsService and OrganisationInvitationService.                 *)
(***************************************************************************)

\* addUser: whoever has an account is seated, others are invited.  The caller
\* has a role: the organisation was created by somebody.
AddUser(s, x) ==
  /\ pc[s] = "idle"
  /\ ownerRoles # {} \/ orgRoles # {}
  /\ org' = [org EXCEPT ![s] = x[1]]
  /\ who' = [who EXCEPT ![s] = x[2]]
  /\ asked' = asked \union {x}
  /\ Goto(s, IF x[2] \in accounts THEN "isMember" ELSE "findPending")
  /\ UNCHANGED <<accounts, roles, members, invites, copy, everSeated>>

\* createInvite looks for a pending invitation of the seat.
FindPending(s) ==
  /\ pc[s] = "findPending"
  /\ \/ Pending(Seat(s)) = {} /\ Continue(s, "insert")
     \/ \E i \in Pending(Seat(s)) :
          /\ copy' = [copy EXCEPT ![s] = [id |-> i, overdue |-> overdue[i]]]
          /\ Goto(s, IF overdue[i] THEN "replace" ELSE "resend")
          /\ UNCHANGED <<who, org>>
  /\ UNCHANGED <<accounts, roles, members, invites, asked, everSeated>>

\* An overdue one is marked expired and a new one inserted, ...
ReplaceInvite(s) ==
  /\ pc[s] = "replace"
  /\ Save(s, "expired", copy[s].overdue)
  /\ Continue(s, "insert")
  /\ UNCHANGED <<accounts, roles, members, sent, seat, asked, everSeated>>

\* ... one that is not overdue gets a new token and a new expiry, ...
ResendInvite(s) ==
  /\ pc[s] = "resend"
  /\ Save(s, "pending", FALSE)
  /\ End(s)
  /\ UNCHANGED <<accounts, roles, members, sent, seat, asked, everSeated>>

\* ... and without one a row is inserted.
InsertInvite(s) ==
  /\ pc[s] = "insert"
  /\ \/ /\ Pending(Seat(s)) # {}
        /\ UNCHANGED invites
     \/ /\ Pending(Seat(s)) = {}
        /\ sent < MaxInvites
        /\ sent' = sent + 1
        /\ seat' = [seat EXCEPT ![sent'] = Seat(s)]
        /\ status' = [status EXCEPT ![sent'] = "pending"]
        /\ overdue' = [overdue EXCEPT ![sent'] = FALSE]
  /\ End(s)
  /\ UNCHANGED <<accounts, roles, members, asked, everSeated>>

\* checkInvite, by token: only an overdue invitation changes anything.
CheckInvite(s, i) ==
  /\ pc[s] = "idle"
  /\ i <= sent
  /\ status[i] # "accepted"
  /\ overdue[i]
  /\ copy' = [copy EXCEPT ![s] = [id |-> i, overdue |-> TRUE]]
  /\ Goto(s, "expire")
  /\ UNCHANGED <<accounts, roles, members, invites, who, org, asked, everSeated>>

\* PUT organisations/:id/users/:userId/role: whoever has an account is given
\* the role, a member or not.
ChangeRole(s, x) ==
  /\ pc[s] = "idle"
  /\ ownerRoles # {} \/ orgRoles # {}
  /\ x[2] \in accounts
  /\ org' = [org EXCEPT ![s] = x[1]]
  /\ who' = [who EXCEPT ![s] = x[2]]
  /\ Goto(s, "newRole")
  /\ UNCHANGED <<accounts, roles, members, invites, copy, asked, everSeated>>

\* removeUserFromSystem: an owner removes somebody who is none from the
\* organisations listed before (the seats taken since stay), and every role.
RemoveUserFromSystem(p, listed) ==
  /\ ownerRoles # {}
  /\ p \in accounts \ ownerRoles
  /\ listed \subseteq {x \in members : x[2] = p}
  /\ members' = members \ listed
  /\ orgRoles' = {x \in orgRoles : x[2] # p}
  /\ unroled' = (unroled \ listed) \union {x \in members \ listed : x[2] = p}
  /\ UNCHANGED <<accounts, ownerRoles, invites, pc, local, asked, everSeated>>

\* removeUser takes the seat and leaves the role.
RemoveUser(x) ==
  /\ x \in members
  /\ members' = members \ {x}
  /\ unroled' = unroled \ {x}
  /\ UNCHANGED <<accounts, ownerRoles, orgRoles, invites, pc, local, asked, everSeated>>

-----------------------------------------------------------------------------
(* The environment. *)

\* Nobody reads when an accepted invitation expires.
BecomeOverdue(i) ==
  /\ i <= sent
  /\ status[i] # "accepted"
  /\ ~ overdue[i]
  /\ overdue' = [overdue EXCEPT ![i] = TRUE]
  /\ UNCHANGED <<accounts, roles, members, sent, seat, status, pc, local,
                 asked, everSeated>>

Die(s) ==
  /\ Faults
  /\ pc[s] # "idle"
  /\ unroled' = IF pc[s] \in {"role", "newRole"} THEN Withheld(s) ELSE unroled
  /\ End(s)
  /\ UNCHANGED <<accounts, ownerRoles, orgRoles, members, invites, asked, everSeated>>

Step(s) ==
  \/ CountRoles(s) \/ CountUsers(s) \/ AssignOwner(s)
  \/ FindInvite(s) \/ IsMember(s) \/ Join(s)
  \/ TakeOrgRole(s) \/ AssignOrgRole(s) \/ RefuseOrgRole(s)
  \/ ConsumeInvite(s) \/ ExpireInvite(s)
  \/ FindPending(s) \/ ReplaceInvite(s) \/ ResendInvite(s) \/ InsertInvite(s)

Next ==
  \/ \E s \in Slots, p \in People : SignIn(s, p)
  \/ \E s \in Slots, x \in Seats : AddUser(s, x) \/ ChangeRole(s, x)
  \/ \E s \in Slots, i \in Ids : CheckInvite(s, i)
  \/ \E s \in Slots : Step(s) \/ Die(s)
  \/ \E x \in Seats : RemoveUser(x)
  \/ \E p \in People, listed \in SUBSET members : RemoveUserFromSystem(p, listed)
  \/ \E i \in Ids : BecomeOverdue(i)

Spec == Init /\ [][Next]_vars

-----------------------------------------------------------------------------
(***************************************************************************)
(* Properties.                                                             *)
(***************************************************************************)
TypeOK ==
  /\ accounts \subseteq People
  /\ ownerRoles \subseteq People
  /\ orgRoles \subseteq Seats
  /\ unroled \subseteq Seats
  /\ members \subseteq Seats
  /\ sent \in 0..MaxInvites
  /\ seat \in [Ids -> Seats]
  /\ status \in [Ids -> {"pending", "accepted", "expired"}]
  /\ overdue \in [Ids -> BOOLEAN]
  /\ who \in [Slots -> People]
  /\ org \in [Slots -> Orgs]
  /\ copy \in [Slots -> [id : 0..MaxInvites, overdue : BOOLEAN]]
  /\ asked \subseteq Seats
  /\ everSeated \subseteq Seats

\* However sign-ups race, the hook gives the Owner role to one person at most:
\* whoever counts users later than the second account sees two of them.
OneFirstOwner == Cardinality(ownerRoles) <= 1

\* The first user becomes Owner: once no sign-up is under way, accounts exist
\* only if one of them is Owner.
FirstUserOwns ==
  accounts # {} /\ (\A s \in Slots : pc[s] = "idle") => ownerRoles # {}

\* Nobody gets a seat in an organisation whose administrators did not ask for
\* it, whatever other invitations are pending, expired or resent meanwhile.
SeatsWereAskedFor == members \subseteq asked

\* An invitation is accepted only after its person was seated, so that no death
\* half-way loses it.
AcceptedWereSeated ==
  \A i \in 1..sent : status[i] = "accepted" => seat[i] \in everSeated

\* A member has a role of the organisation, or a request is about to give it
\* one, but for three causes, each mended by the next role given: a request
\* about it died, or named no role of the organisation (members are saved
\* before their role is looked up), or it was purged while it joined.  No two
\* requests about one person, each of which removes a role and then gives one,
\* leave it without, however often it left and came back.
MembersHaveRoles ==
  \A x \in members \ orgRoles :
    x \in unroled \/ \E s \in Slots : pc[s] \in {"role", "newRole"} /\ Seat(s) = x
=============================================================================
