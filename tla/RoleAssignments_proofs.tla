------------------------- MODULE RoleAssignments_proofs -------------------------
(***************************************************************************)
(* Theorems about RoleAssignments: for any users, roles, slots, operations *)
(* and deaths, members keep a role, and a second role is explained.        *)
(***************************************************************************)
EXTENDS RoleAssignments, FiniteSetTheorems, TLAPS

\* The kinds of request that may be at a label.
KindAt ==
  \A s \in Slots :
    /\ pc[s] \in {"get", "read", "set"} => Kind(s) \in {"check", "assign", "unassign"}
    /\ pc[s] \in {"findOld", "remove"} => Kind(s) \in {"assign", "unassign"}
    /\ pc[s] \in {"findNew", "findRole", "save"} => Kind(s) \in {"assign", "invite", "elsewhere"}
    /\ pc[s] = "replace" => Kind(s) = "elsewhere"
    /\ pc[s] \in {"projects", "purge"} => Kind(s) = "purge"
    /\ pc[s] = "member" => Kind(s) \in {"invite", "leave"}
    /\ pc[s] \in {"join", "invited"} => Kind(s) = "invite"
    /\ pc[s] = "part" => Kind(s) = "leave"
    /\ pc[s] \in {"load", "list", "reassign", "deleteOnly"} => Kind(s) \in Deletions

\* A deletion past its first look is about a role of the project, and no
\* system role.
Deletable ==
  \A s \in Slots :
    pc[s] \in {"list", "reassign", "deleteOnly"} => Role(s) \in Own \ System

Typed == TypeOK /\ KindAt /\ Deletable

LEMMA RequestFields ==
  ASSUME NEW r \in Requests
  PROVE  /\ r.kind \in Kinds /\ r.on \in Users /\ r.role \in Roles \union {"none"}
         /\ r.kind \notin {"check", "unassign", "leave", "purge"} => r.role \in Roles
  BY RolesAssumption DEF Requests, Roles

\* A step is one of a slot, or an expiry, or a stutter.
LEMMA NextCases ==
  ASSUME [Next]_vars
  PROVE  \/ \E s \in Slots : Step(s)
         \/ \E s \in Slots : Die(s)
         \/ \E s \in Slots, r \in Requests : Accept(s, r)
         \/ \E u \in Users : Expire(u)
         \/ UNCHANGED vars
  BY DEF Next

-----------------------------------------------------------------------------
(***************************************************************************)
(* Types.                                                                  *)
(***************************************************************************)
LEMMA TypedInit == Init => Typed
  <1> SUFFICES ASSUME Init PROVE Typed
    OBVIOUS
  <1>1. TypeOK
    BY RolesAssumption DEF Init, TypeOK, Labels, Roles
  <1>2. KindAt /\ Deletable
    BY DEF Init, KindAt, Deletable
  <1> QED
    BY <1>1, <1>2 DEF Typed

\* Where a request goes once it knows the role, and what that means.
LEMMA AfterRoleSteps ==
  ASSUME TypeOK, NEW s \in Slots, NEW role, AfterRole(s, role)
  PROVE  /\ pc' \in [Slots -> Labels]
         /\ \A t \in Slots \ {s} : pc'[t] = pc[t]
         /\ \/ /\ Kind(s) \in {"assign", "unassign"}
               /\ pc'[s] = "findOld"
               /\ role # "none"
               /\ Kind(s) = "assign" => role # Role(s)
            \/ Kind(s) = "assign" /\ pc'[s] = "findNew" /\ role \in {"none", Role(s)}
            \/ Kind(s) = "unassign" /\ pc'[s] = "idle"
            \/ Kind(s) = "check" /\ pc'[s] = "idle"
  <1> USE DEF Goto, TypeOK, Labels
  <1>1. CASE Kind(s) = "assign"
    BY <1>1 DEF AfterRole
  <1>2. CASE Kind(s) = "unassign"
    BY <1>2 DEF AfterRole
  <1>3. CASE Kind(s) = "check"
    BY <1>3 DEF AfterRole
  <1> QED
    BY <1>1, <1>2, <1>3 DEF AfterRole

LEMMA TypedNext ==
  ASSUME Typed, [Next]_vars
  PROVE  Typed'
  <1> USE DEF Typed, Goto, Kind, On, Role
  <1>1. ASSUME NEW s \in Slots, GetRole(s) PROVE Typed'
    <2>1. CASE cache[On(s)] = "miss"
      BY <1>1, <2>1 DEF GetRole, TypeOK, KindAt, Deletable, Labels, Deletions
    <2>2. CASE cache[On(s)] # "miss"
      <3>1. AfterRole(s, cache[On(s)])
        BY <1>1, <2>2 DEF GetRole
      <3>2. KindAt' /\ Deletable'
        BY <1>1, <3>1, AfterRoleSteps DEF GetRole, KindAt, Deletable
      <3>3. TypeOK'
        BY <1>1, <2>2, <3>1, AfterRoleSteps, RequestFields DEF GetRole, TypeOK
      <3> QED
        BY <3>2, <3>3
    <2> QED
      BY <2>1, <2>2
  <1>2. ASSUME NEW s \in Slots, ReadRole(s) PROVE Typed'
    BY <1>2 DEF ReadRole, HeldOr, OwnOf, TypeOK, KindAt, Deletable, Labels, Deletions
  <1>3. ASSUME NEW s \in Slots, SetRole(s) PROVE Typed'
    <2>1. AfterRole(s, old[s])
      BY <1>3 DEF SetRole
    <2>2. KindAt' /\ Deletable'
      BY <1>3, <2>1, AfterRoleSteps DEF SetRole, KindAt, Deletable
    <2>3. TypeOK'
      BY <1>3, <2>1, AfterRoleSteps, RequestFields DEF SetRole, TypeOK
    <2> QED
      BY <2>2, <2>3
  <1>4. ASSUME NEW s \in Slots, FindOld(s) PROVE Typed'
    BY <1>4 DEF FindOld, AfterRemoval, TypeOK, KindAt, Deletable, Labels, Deletions
  <1>5. ASSUME NEW s \in Slots, RemoveOld(s) PROVE Typed'
    BY <1>5, RequestFields DEF RemoveOld, AfterRemoval, Without, TypeOK, KindAt,
       Deletable, Labels, Deletions
  <1>6. ASSUME NEW s \in Slots, FindNew(s) PROVE Typed'
    BY <1>6 DEF FindNew, TypeOK, KindAt, Deletable, Labels, Deletions
  <1>7. ASSUME NEW s \in Slots, FindRole(s) PROVE Typed'
    BY <1>7, RequestFields DEF FindRole, GiveUp, Without, TypeOK, KindAt, Deletable,
       Labels, Deletions
  <1>8. ASSUME NEW s \in Slots, SaveNew(s) PROVE Typed'
    <2>1. TypeOK'
      BY <1>8, RequestFields DEF SaveNew, GiveUp, Exists, Roles, Without, TypeOK, Labels
    <2> QED
      BY <1>8, <2>1 DEF SaveNew, GiveUp, TypeOK, KindAt, Deletable, Deletions
  <1>9. ASSUME NEW s \in Slots, IsProjectMember(s) PROVE Typed'
    BY <1>9 DEF IsProjectMember, TypeOK, KindAt, Deletable, Labels, Deletions
  <1>10. ASSUME NEW s \in Slots, Join(s) PROVE Typed'
    BY <1>10, RequestFields DEF Join, TypeOK, KindAt, Deletable, Labels, Deletions
  <1>11. ASSUME NEW s \in Slots, FindInvited(s) PROVE Typed'
    BY <1>11, RequestFields DEF FindInvited, GiveUp, Without, TypeOK, KindAt, Deletable,
       Labels, Deletions
  <1>12. ASSUME NEW s \in Slots, Part(s) PROVE Typed'
    BY <1>12 DEF Part, TypeOK, KindAt, Deletable, Labels, Deletions
  <1>13. ASSUME NEW s \in Slots, LoadRole(s) PROVE Typed'
    BY <1>13 DEF LoadRole, TypeOK, KindAt, Deletable, Labels, Deletions
  <1>14. ASSUME NEW s \in Slots, ListHolders(s) PROVE Typed'
    BY <1>14 DEF ListHolders, TypeOK, KindAt, Deletable, Labels, Deletions
  <1>15. ASSUME NEW s \in Slots, Reassign(s) PROVE Typed'
    <2>1. DefaultRole(s) \in Roles
      BY RolesAssumption DEF DefaultRole, Roles
    <2>2. held' \in [Users -> SUBSET Roles]
      BY <1>15, <2>1 DEF Reassign, TypeOK
    <2>3. System \subseteq roles' /\ roles' \subseteq Own
      BY <1>15 DEF Reassign, TypeOK, Deletable
    <2>4. dropped' \subseteq Users
      BY <1>15 DEF Reassign, Bereft, Without, TypeOK
    <2> QED
      BY <1>15, <2>2, <2>3, <2>4 DEF Reassign, TypeOK, KindAt, Deletable, Labels, Deletions
  <1>16. ASSUME NEW s \in Slots, ReassignAborts(s) PROVE Typed'
    BY <1>16 DEF ReassignAborts, TypeOK, KindAt, Deletable, Labels, Deletions
  <1>17. ASSUME NEW s \in Slots, DeleteOnly(s) PROVE Typed'
    BY <1>17 DEF DeleteOnly, Bereft, Without, TypeOK, KindAt, Deletable, Labels, Deletions
  <1>18. ASSUME NEW s \in Slots, Die(s) PROVE Typed'
    BY <1>18, RequestFields DEF Die, GiveUp, Without, TypeOK, KindAt, Deletable, Labels,
       Deletions
  <1>19. ASSUME NEW s \in Slots, NEW r \in Requests, Accept(s, r) PROVE Typed'
    <2>1. Entry(r.kind) \in {"get", "member", "load", "replace", "projects"}
      BY DEF Entry
    <2>2. /\ Entry(r.kind) = "get" => r.kind \in {"check", "assign", "unassign"}
          /\ Entry(r.kind) = "member" => r.kind \in {"invite", "leave"}
          /\ Entry(r.kind) = "replace" => r.kind = "elsewhere"
          /\ Entry(r.kind) = "projects" => r.kind = "purge"
          /\ Entry(r.kind) = "load" => r.kind \in Deletions
      BY RequestFields, KindsAssumption DEF Entry, Deletions
    <2>3. TypeOK'
      BY <1>19, <2>1 DEF Accept, TypeOK, Labels
    <2> QED
      BY <1>19, <2>1, <2>2, <2>3 DEF Accept, TypeOK, KindAt, Deletable
  <1>20. ASSUME NEW u \in Users, Expire(u) PROVE Typed'
    BY <1>20 DEF Expire, local, TypeOK, KindAt, Deletable
  <1>21. CASE UNCHANGED vars
    BY <1>21 DEF vars, local, TypeOK, KindAt, Deletable
  <1>22. ASSUME NEW s \in Slots, ReplaceElsewhere(s) PROVE Typed'
    BY <1>22, RequestFields DEF ReplaceElsewhere, TypeOK, KindAt, Deletable, Labels,
       Deletions
  <1>23. ASSUME NEW s \in Slots, ListProjects(s) PROVE Typed'
    BY <1>23, RequestFields DEF ListProjects, TypeOK, KindAt, Deletable, Labels, Deletions
  <1>24. ASSUME NEW s \in Slots, Purge(s) PROVE Typed'
    BY <1>24, RequestFields DEF Purge, TypeOK, KindAt, Deletable, Labels, Deletions
  <1> QED
    BY <1>1, <1>2, <1>3, <1>4, <1>5, <1>6, <1>7, <1>8, <1>9, <1>10, <1>11, <1>12,
       <1>13, <1>14, <1>15, <1>16, <1>17, <1>18, <1>19, <1>20, <1>21, <1>22, <1>23,
       <1>24, NextCases DEF Step

\* The state has its types, and only what may be deleted ever is.
THEOREM TypeCorrect == Spec => []TypeOK
  <1>1. Typed => TypeOK
    BY DEF Typed
  <1> QED
    BY <1>1, TypedInit, TypedNext, PTL DEF Spec

-----------------------------------------------------------------------------
(***************************************************************************)
(* Members keep a role.                                                    *)
(***************************************************************************)

\* What excuses a user without a role.
Excused(u) ==
  OwnOf(u) # {} \/ u \in dropped \/ \E s \in Slots : On(s) = u /\ InTransit(s)

\* A step of one slot takes an excuse away only from the user of its request:
\* the others' roles, marks and requests are what they were.
LEMMA ExcusesKept ==
  ASSUME NEW s \in Slots, NEW u,
         \A t \in Slots \ {s} : pc'[t] = pc[t] /\ req'[t] = req[t],
         OwnOf(u) # {} => OwnOf(u)' # {},
         u \in dropped => u \in dropped' \/ OwnOf(u)' # {},
         On(s) = u /\ InTransit(s) => Excused(u)',
         Excused(u)
  PROVE  Excused(u)'
  BY DEF Excused, InTransit, On, Kind, Role

\* MembersKeepARole is inductive: what takes a member's role leaves a request
\* about to give it one, or a mark; what ends a request in transit gives the
\* role, finds it given, or leaves a mark.
LEMMA KeptNext ==
  ASSUME Typed, \A u \in members : Excused(u), [Next]_vars, NEW u \in members'
  PROVE  Excused(u)'
  <1> USE DEF Typed, Goto
  <1>1. ASSUME NEW s \in Slots, GetRole(s) \/ SetRole(s) PROVE Excused(u)'
    <2>1. \E role : AfterRole(s, role) \/ pc' = [pc EXCEPT ![s] = "read"]
      BY <1>1 DEF GetRole, SetRole
    <2>2. \A t \in Slots \ {s} : pc'[t] = pc[t]
      BY <2>1, AfterRoleSteps DEF TypeOK
    <2>3. ~ InTransit(s)
      BY <1>1 DEF GetRole, SetRole, InTransit
    <2> QED
      BY <1>1, <2>2, <2>3, ExcusesKept DEF GetRole, SetRole, OwnOf
  <1>2. ASSUME NEW s \in Slots, ReadRole(s) PROVE Excused(u)'
    BY <1>2, ExcusesKept DEF ReadRole, TypeOK, InTransit, OwnOf
  <1>3. ASSUME NEW s \in Slots, FindOld(s) PROVE Excused(u)'
    BY <1>3, ExcusesKept DEF FindOld, AfterRemoval, TypeOK, InTransit, OwnOf
  <1>4. ASSUME NEW s \in Slots, RemoveOld(s) PROVE Excused(u)'
    <2>1. CASE u # On(s)
      BY <1>4, <2>1, ExcusesKept DEF RemoveOld, AfterRemoval, Without, TypeOK, InTransit, OwnOf
    <2>2. CASE u = On(s) /\ (Kind(s) = "unassign" \/ Role(s) \notin Own)
      BY <1>4, <2>2 DEF RemoveOld, Without, OwnOf, Excused
    <2>3. CASE u = On(s) /\ Kind(s) = "assign" /\ Role(s) \in Own
      <3>1. On(s)' = u /\ InTransit(s)'
        BY <1>4, <2>3 DEF RemoveOld, AfterRemoval, TypeOK, InTransit, On, Kind, Role
      <3> QED
        BY <3>1 DEF Excused
    <2> QED
      BY <1>4, <2>1, <2>2, <2>3 DEF RemoveOld, KindAt
  <1>5. ASSUME NEW s \in Slots, FindNew(s) PROVE Excused(u)'
    <2>1. On(s) = u /\ InTransit(s) => Excused(u)'
      BY <1>5 DEF FindNew, TypeOK, InTransit, OwnOf, Excused, On, Kind, Role
    <2> QED
      BY <1>5, <2>1, ExcusesKept DEF FindNew, TypeOK, OwnOf
  <1>6. ASSUME NEW s \in Slots, FindRole(s) \/ Die(s) PROVE Excused(u)'
    <2>1. On(s) = u /\ InTransit(s) => Excused(u)'
      BY <1>6 DEF FindRole, Die, GiveUp, Without, TypeOK, InTransit, OwnOf, Excused,
         On, Kind, Role
    <2> QED
      BY <1>6, <2>1, ExcusesKept DEF FindRole, Die, GiveUp, TypeOK, OwnOf
  <1>7. ASSUME NEW s \in Slots, SaveNew(s) PROVE Excused(u)'
    <2>1. CASE Exists(Role(s))
      <3>1. On(s) = u /\ InTransit(s) => OwnOf(u)' # {}
        BY <1>7, <2>1 DEF SaveNew, GiveUp, TypeOK, InTransit, OwnOf
      <3>2. u \in dropped => u \in dropped' \/ OwnOf(u)' # {}
        BY <1>7, <2>1 DEF SaveNew, TypeOK, OwnOf
      <3>3. OwnOf(u) # {} => OwnOf(u)' # {}
        BY <1>7, <2>1 DEF SaveNew, TypeOK, OwnOf
      <3> QED
        BY <1>7, <3>1, <3>2, <3>3, ExcusesKept DEF SaveNew, GiveUp, TypeOK, Excused
    <2>2. CASE ~Exists(Role(s))
      <3>1. On(s) = u /\ InTransit(s) => Excused(u)'
        BY <1>7, <2>2 DEF SaveNew, GiveUp, Without, OwnOf, Excused
      <3> QED
        BY <1>7, <2>2, <3>1, ExcusesKept DEF SaveNew, GiveUp, TypeOK, OwnOf
    <2> QED
      BY <2>1, <2>2
  <1>8. ASSUME NEW s \in Slots, IsProjectMember(s) PROVE Excused(u)'
    BY <1>8, ExcusesKept DEF IsProjectMember, TypeOK, InTransit, OwnOf
  <1>9. ASSUME NEW s \in Slots, Join(s) PROVE Excused(u)'
    <2>1. CASE u \in members
      BY <1>9, <2>1, ExcusesKept DEF Join, TypeOK, InTransit, OwnOf
    <2>2. CASE u \notin members
      <3>1. On(s)' = u /\ InTransit(s)'
        BY <1>9, <2>2 DEF Join, TypeOK, KindAt, InTransit, On, Kind
      <3> QED
        BY <3>1 DEF Excused
    <2> QED
      BY <2>1, <2>2
  <1>10. ASSUME NEW s \in Slots, FindInvited(s) PROVE Excused(u)'
    <2>1. On(s) = u /\ InTransit(s) => Excused(u)'
      BY <1>10 DEF FindInvited, GiveUp, Without, TypeOK, InTransit, OwnOf, Excused,
         On, Kind, Role
    <2> QED
      BY <1>10, <2>1, ExcusesKept DEF FindInvited, GiveUp, TypeOK, OwnOf
  <1>11. ASSUME NEW s \in Slots, Part(s) PROVE Excused(u)'
    BY <1>11, ExcusesKept DEF Part, TypeOK, InTransit, OwnOf
  <1>12. ASSUME NEW s \in Slots, LoadRole(s) \/ ListHolders(s) \/ ReassignAborts(s)
         PROVE Excused(u)'
    BY <1>12, ExcusesKept DEF LoadRole, ListHolders, ReassignAborts, TypeOK, KindAt,
       InTransit, OwnOf
  <1>13. ASSUME NEW s \in Slots, Reassign(s) PROVE Excused(u)'
    <2>1. u \in Given(s) => OwnOf(u)' # {}
      BY <1>13, RolesAssumption DEF Reassign, Given, DefaultRole, OwnOf, TypeOK
    <2>2. OwnOf(u)' = {} => u \in dropped' \/ OwnOf(u) = {}
      BY <1>13, <2>1 DEF Reassign, Bereft, Without, OwnOf, TypeOK
    <2>3. ~ InTransit(s)
      BY <1>13 DEF Reassign, InTransit
    <2>4. u \in dropped => u \in dropped' \/ OwnOf(u)' # {}
      BY <1>13, <2>1 DEF Reassign
    <2> QED
      BY <1>13, <2>1, <2>2, <2>3, <2>4, ExcusesKept DEF Reassign, TypeOK, Excused
  <1>14. ASSUME NEW s \in Slots, DeleteOnly(s) PROVE Excused(u)'
    <2>1. OwnOf(u)' = {} => u \in dropped' \/ OwnOf(u) = {}
      BY <1>14 DEF DeleteOnly, Bereft, Without, OwnOf, TypeOK
    <2>2. ~ InTransit(s)
      BY <1>14 DEF DeleteOnly, InTransit
    <2> QED
      BY <1>14, <2>1, <2>2, ExcusesKept DEF DeleteOnly, TypeOK, Excused
  <1>15. ASSUME NEW s \in Slots, NEW r \in Requests, Accept(s, r) PROVE Excused(u)'
    BY <1>15, ExcusesKept DEF Accept, TypeOK, InTransit, OwnOf
  <1>16. ASSUME NEW v \in Users, Expire(v) PROVE Excused(u)'
    BY <1>16 DEF Expire, local, Excused, OwnOf, InTransit, On, Kind, Role
  <1>17. CASE UNCHANGED vars
    BY <1>17 DEF vars, local, Excused, OwnOf, InTransit, On, Kind, Role
  <1>18. ASSUME NEW s \in Slots, ReplaceElsewhere(s) PROVE Excused(u)'
    <2>1. OwnOf(u) # {} => OwnOf(u)' # {}
      BY <1>18, RolesAssumption DEF ReplaceElsewhere, OwnOf, TypeOK
    <2>2. u \in members /\ ~ InTransit(s)
      BY <1>18 DEF ReplaceElsewhere, InTransit
    <2> QED
      BY <1>18, <2>1, <2>2, ExcusesKept DEF ReplaceElsewhere, TypeOK, Excused
  <1>19. ASSUME NEW s \in Slots, ListProjects(s) PROVE Excused(u)'
    BY <1>19, ExcusesKept DEF ListProjects, TypeOK, InTransit, OwnOf, Excused
  <1>20. ASSUME NEW s \in Slots, Purge(s) PROVE Excused(u)'
    <2>1. CASE u = On(s)
      BY <1>20, <2>1 DEF Purge, Excused
    <2>2. CASE u # On(s)
      <3>1. OwnOf(u)' = OwnOf(u)
        BY <1>20, <2>2 DEF Purge, OwnOf, TypeOK
      <3>2. u \in members /\ ~ InTransit(s)
        BY <1>20 DEF Purge, InTransit
      <3> QED
        BY <1>20, <3>1, <3>2, ExcusesKept DEF Purge, TypeOK
    <2> QED
      BY <2>1, <2>2
  <1> QED
    BY <1>1, <1>2, <1>3, <1>4, <1>5, <1>6, <1>7, <1>8, <1>9, <1>10, <1>11, <1>12,
       <1>13, <1>14, <1>15, <1>16, <1>17, <1>18, <1>19, <1>20, NextCases DEF Step

\* However assignments, invitations, removals, purges and deletions interleave,
\* die or read a stale role, a member without a role has lost it by one of the
\* causes that `dropped` records, or is about to get one.
THEOREM MembersKeep == Spec => []MembersKeepARole
  <1>1. Init => MembersKeepARole
    BY RolesAssumption DEF Init, MembersKeepARole, OwnOf
  <1>2. Typed /\ MembersKeepARole /\ [Next]_vars => MembersKeepARole'
    BY KeptNext DEF MembersKeepARole, Excused
  <1> QED
    BY <1>1, <1>2, TypedInit, TypedNext, PTL DEF Spec

-----------------------------------------------------------------------------
(***************************************************************************)
(* A second role is explained.                                             *)
(***************************************************************************)

Single(u) == \A r, q \in OwnOf(u) : r = q

\* Requests that change one user's role at a time have it marked, and so has
\* whoever asks for a change during a deletion.
Alone ==
  \A s, t \in Slots :
    /\ s # t
    /\ pc[s] # "idle" /\ pc[t] # "idle"
    /\ Changing(req[s]) /\ Changing(req[t])
    /\ On(s) = On(t) \/ {Kind(s), Kind(t)} \intersect Deletions # {}
    => On(s) \in misled

\* What a request about an unmarked user knows of its role is true: before the
\* removal it has read it, and after it there is none but the one asked for.  A
\* request to elsewhere claims to know nothing.
Fresh(s, u) ==
  On(s) = u /\ Kind(s) # "elsewhere" =>
    /\ Kind(s) = "assign" /\ pc[s] \in {"set", "findOld", "remove"} => OwnOf(u) \subseteq {old[s]}
    /\ pc[s] \in {"findNew", "findRole", "save"} => OwnOf(u) \subseteq {Role(s)}

\* A user on the list of a deletion has its role, or the default one, which
\* another deletion gave it.
Listing(s, u) ==
  pc[s] = "reassign" /\ u \in listed[s] => OwnOf(u) \subseteq {Role(s), Member}

Clean(u) == Single(u) /\ \A s \in Slots : Fresh(s, u) /\ Listing(s, u)

Explained == Alone /\ \A u \in Users : u \in misled \/ Clean(u)

\* The requests of the other slots are what they were.
Others(s) ==
  \A t \in Slots \ {s} :
    pc'[t] = pc[t] /\ req'[t] = req[t] /\ old'[t] = old[t] /\ listed'[t] = listed[t]

\* A step that leaves a user's roles alone has only its own slot to answer for.
LEMMA CleanKept ==
  ASSUME NEW s \in Slots, NEW u, Clean(u), Others(s), UNCHANGED OwnOf(u),
         Fresh(s, u)', Listing(s, u)'
  PROVE  Clean(u)'
  BY DEF Clean, Others, Single, Fresh, Listing, On, Kind, Role

\* A step that takes no request and unmarks nobody keeps Alone.
LEMMA AloneKept ==
  ASSUME Alone, UNCHANGED req, misled \subseteq misled',
         \A s \in Slots : pc'[s] # "idle" => pc[s] # "idle"
  PROVE  Alone'
  BY DEF Alone, On, Kind, Changing

\* While a request changes the role of an unmarked user, no other request
\* knows anything of that role.
LEMMA NobodyElse ==
  ASSUME Typed, Alone, NEW s \in Slots, NEW u \in Users, u \notin misled,
         pc[s] # "idle", Kind(s) # "check", On(s) = u \/ Kind(s) \in Deletions,
         NEW t \in Slots \ {s}
  PROVE  /\ On(t) = u => /\ ~ (Kind(t) = "assign" /\ pc[t] \in {"set", "findOld", "remove"})
                         /\ pc[t] \notin {"findNew", "findRole", "save"}
         /\ On(s) = u => pc[t] # "reassign"
  <1>1. CASE Changing(req[t]) /\ pc[t] # "idle"
    <2>1. On(t) = u => On(t) \in misled
      BY <1>1 DEF Alone, Changing, Kind
    <2>2. On(s) = u /\ Kind(t) \in Deletions => On(s) \in misled
      BY <1>1 DEF Alone, Changing, Kind
    <2> QED
      BY <2>1, <2>2 DEF Typed, KindAt
  <1>2. CASE ~ (Changing(req[t]) /\ pc[t] # "idle")
    BY <1>2 DEF Typed, KindAt, Changing, Kind, Deletions
  <1> QED
    BY <1>1, <1>2

\* Explained is inductive: a step of a request about an unmarked user is of the
\* only request about it, whose reading was true; a deletion gives its users
\* one and the same role.
LEMMA ExplainedNext ==
  ASSUME Typed, Explained, [Next]_vars
  PROVE  Explained'
  <1> USE DEF Typed, Goto, Explained
  <1>0. ASSUME NEW s \in Slots
        PROVE  On(s) \in Users
    BY RequestFields DEF TypeOK, On
  <1>1. ASSUME NEW s \in Slots, GetRole(s) PROVE Explained'
    <2>1. CASE cache[On(s)] = "miss"
      <3>1. ASSUME NEW u \in Users, u \notin misled PROVE Clean(u)'
        BY <1>1, <2>1, <3>1, CleanKept
           DEF GetRole, Others, TypeOK, OwnOf, Fresh, Listing
      <3> QED
        BY <1>1, <2>1, <3>1, AloneKept DEF GetRole, TypeOK
    <2>2. CASE cache[On(s)] # "miss"
      <3>1. AfterRole(s, cache[On(s)])
        BY <1>1, <2>2 DEF GetRole
      <3>2. ASSUME NEW u \in Users, u \notin misled' PROVE Clean(u)'
        <4>1. u \notin misled /\ Clean(u)
          BY <1>1, <2>2, <3>2 DEF GetRole
        <4>2. On(s) = u => OwnOf(u) \subseteq {cache[On(s)]}
          BY <1>1, <2>2, <3>2, <4>1 DEF GetRole, HeldOr, Clean, Single
        <4>3. Others(s) /\ UNCHANGED OwnOf(u)
          BY <1>1, <2>2, <3>1, AfterRoleSteps DEF GetRole, Others, TypeOK, OwnOf
        <4>4. old'[s] = cache[On(s)]
          BY <1>1, <2>2 DEF GetRole, TypeOK
        <4>5. Fresh(s, u)'
          BY <1>1, <3>1, <4>2, <4>3, <4>4, AfterRoleSteps, RolesAssumption
             DEF GetRole, Fresh, On, Kind, Role, OwnOf
        <4>6. Listing(s, u)'
          BY <3>1, AfterRoleSteps DEF Listing
        <4> QED
          BY <4>1, <4>3, <4>5, <4>6, CleanKept
      <3>3. Alone'
        BY <1>1, <2>2, <3>1, AfterRoleSteps, AloneKept DEF GetRole
      <3> QED
        BY <3>2, <3>3
    <2> QED
      BY <2>1, <2>2
  <1>2. ASSUME NEW s \in Slots, ReadRole(s) PROVE Explained'
    <2>1. ASSUME NEW u \in Users, u \notin misled PROVE Clean(u)'
      <3>1. On(s) = u => OwnOf(u) \subseteq {old'[s]}
        BY <1>2, <2>1 DEF ReadRole, HeldOr, Clean, Single, TypeOK
      <3>2. Fresh(s, u)' /\ Listing(s, u)'
        BY <1>2, <3>1 DEF ReadRole, Fresh, Listing, On, OwnOf, TypeOK
      <3> QED
        BY <1>2, <2>1, <3>2, CleanKept DEF ReadRole, Others, TypeOK, OwnOf
    <2> QED
      BY <1>2, <2>1, AloneKept DEF ReadRole, TypeOK
  <1>3. ASSUME NEW s \in Slots, SetRole(s) PROVE Explained'
    <2>1. AfterRole(s, old[s])
      BY <1>3 DEF SetRole
    <2>2. ASSUME NEW u \in Users, u \notin misled PROVE Clean(u)'
      <3>1. On(s) = u /\ Kind(s) = "assign" => OwnOf(u) \subseteq {old[s]}
        BY <1>3, <2>2 DEF SetRole, Clean, Fresh
      <3>2. Others(s) /\ UNCHANGED OwnOf(u)
        BY <1>3, <2>1, AfterRoleSteps DEF SetRole, Others, OwnOf
      <3>3. Fresh(s, u)'
        BY <1>3, <2>1, <3>1, <3>2, AfterRoleSteps, RolesAssumption
           DEF SetRole, Fresh, On, Kind, Role, OwnOf
      <3>4. Listing(s, u)'
        BY <2>1, AfterRoleSteps DEF Listing
      <3> QED
        BY <2>2, <3>2, <3>3, <3>4, CleanKept
    <2>3. Alone'
      BY <1>3, <2>1, AfterRoleSteps, AloneKept DEF SetRole
    <2> QED
      BY <1>3, <2>2, <2>3 DEF SetRole
  <1>4. ASSUME NEW s \in Slots, FindOld(s) PROVE Explained'
    <2>1. ASSUME NEW u \in Users, u \notin misled PROVE Clean(u)'
      <3>1. Fresh(s, u)'
        BY <1>4, <2>1 DEF FindOld, AfterRemoval, Clean, Fresh, On, Kind, Role, OwnOf,
           TypeOK, KindAt
      <3> QED
        BY <1>4, <2>1, <3>1, CleanKept
           DEF FindOld, AfterRemoval, Others, TypeOK, OwnOf, Listing
    <2> QED
      BY <1>4, <2>1, AloneKept DEF FindOld, AfterRemoval, TypeOK
  <1>5. ASSUME NEW s \in Slots, RemoveOld(s) PROVE Explained'
    <2>1. ASSUME NEW u \in Users, u \notin misled PROVE Clean(u)'
      <3>1. CASE On(s) # u
        BY <1>5, <2>1, <3>1, CleanKept DEF RemoveOld, AfterRemoval, Others, TypeOK, OwnOf,
           Fresh, Listing, On
      <3>2. CASE On(s) = u
        <4>1. OwnOf(u)' \subseteq OwnOf(u) \ {old[s]}
          BY <1>5, <3>2 DEF RemoveOld, OwnOf, TypeOK
        <4>2. Single(u)'
          BY <2>1, <4>1 DEF Clean, Single
        <4>3. Fresh(s, u)' /\ Listing(s, u)'
          BY <1>5, <2>1, <3>2, <4>1 DEF RemoveOld, AfterRemoval, Clean, Fresh, Listing,
             On, Kind, Role, TypeOK, KindAt
        <4>4. ASSUME NEW t \in Slots \ {s} PROVE Fresh(t, u)' /\ Listing(t, u)'
          BY <1>5, <2>1, <3>2, <4>4, NobodyElse DEF RemoveOld, AfterRemoval, Fresh,
             Listing, On, Kind, TypeOK, KindAt
        <4> QED
          BY <4>2, <4>3, <4>4 DEF Clean
      <3> QED
        BY <3>1, <3>2
    <2> QED
      BY <1>5, <2>1, AloneKept DEF RemoveOld, AfterRemoval, TypeOK
  <1>6. ASSUME NEW s \in Slots, FindNew(s) PROVE Explained'
    <2>1. ASSUME NEW u \in Users, u \notin misled PROVE Clean(u)'
      <3>1. Fresh(s, u)' /\ Listing(s, u)'
        BY <1>6, <2>1 DEF FindNew, Clean, Fresh, Listing, On, Kind, Role, OwnOf, TypeOK
      <3> QED
        BY <1>6, <2>1, <3>1, CleanKept DEF FindNew, Others, TypeOK, OwnOf
    <2> QED
      BY <1>6, <2>1, AloneKept DEF FindNew, TypeOK
  <1>7. ASSUME NEW s \in Slots, FindRole(s) PROVE Explained'
    <2>1. ASSUME NEW u \in Users, u \notin misled PROVE Clean(u)'
      <3>1. Fresh(s, u)' /\ Listing(s, u)'
        BY <1>7, <2>1 DEF FindRole, GiveUp, Clean, Fresh, Listing, On, Kind, Role, OwnOf,
           TypeOK
      <3> QED
        BY <1>7, <2>1, <3>1, CleanKept DEF FindRole, GiveUp, Others, TypeOK, OwnOf
    <2> QED
      BY <1>7, <2>1, AloneKept DEF FindRole, GiveUp, TypeOK
  <1>8. ASSUME NEW s \in Slots, SaveNew(s) PROVE Explained'
    <2>0. misled \subseteq misled'
      BY <1>8 DEF SaveNew
    <2>1. ASSUME NEW u \in Users, u \notin misled' PROVE Clean(u)'
      <3> u \notin misled /\ Clean(u)
        BY <2>0, <2>1
      <3>0. Others(s) /\ Fresh(s, u)' /\ Listing(s, u)'
        BY <1>8 DEF SaveNew, GiveUp, Others, Fresh, Listing, TypeOK
      <3>1. CASE On(s) # u \/ ~Exists(Role(s))
        <4>1. UNCHANGED OwnOf(u)
          BY <1>8, <3>1 DEF SaveNew, OwnOf, TypeOK
        <4> QED
          BY <2>1, <3>0, <4>1, CleanKept
      <3>2. CASE On(s) = u /\ Exists(Role(s))
        <4>1. Role(s) \in Own => OwnOf(u) \subseteq {Role(s)}
          BY <1>8, <2>1, <3>2 DEF SaveNew, Clean, Fresh, GivesOneMore
        <4>2. Single(u)'
          BY <1>8, <2>1, <3>2, <4>1 DEF SaveNew, Clean, Single, OwnOf, TypeOK
        <4>3. ASSUME NEW t \in Slots \ {s} PROVE Fresh(t, u)' /\ Listing(t, u)'
          BY <1>8, <2>1, <3>0, <3>2, <4>3, NobodyElse DEF SaveNew, Others, Fresh,
             Listing, On, Kind, KindAt
        <4> QED
          BY <3>0, <4>2, <4>3 DEF Clean
      <3> QED
        BY <3>1, <3>2
    <2> QED
      BY <1>8, <2>0, <2>1, AloneKept DEF SaveNew, GiveUp, TypeOK
  <1>9. ASSUME NEW s \in Slots, IsProjectMember(s) \/ Join(s) \/ Part(s) PROVE Explained'
    <2>1. ASSUME NEW u \in Users, u \notin misled PROVE Clean(u)'
      BY <1>9, <2>1, CleanKept DEF IsProjectMember, Join, Part, Others, TypeOK, OwnOf,
         Fresh, Listing
    <2> QED
      BY <1>9, <2>1, AloneKept DEF IsProjectMember, Join, Part, TypeOK
  <1>10. ASSUME NEW s \in Slots, FindInvited(s) PROVE Explained'
    <2>1. ASSUME NEW u \in Users, u \notin misled' PROVE Clean(u)'
      <3>1. u \notin misled /\ (On(s) = u => OwnOf(u) = {})
        BY <1>10, <2>1 DEF FindInvited
      <3>2. Others(s) /\ UNCHANGED OwnOf(u)
        BY <1>10 DEF FindInvited, GiveUp, Others, TypeOK, OwnOf
      <3>3. Fresh(s, u)' /\ Listing(s, u)'
        BY <1>10, <3>1, <3>2 DEF FindInvited, GiveUp, Fresh, Listing, On, TypeOK
      <3> QED
        BY <3>1, <3>2, <3>3, CleanKept
    <2> QED
      BY <1>10, <2>1, AloneKept DEF FindInvited, GiveUp, TypeOK
  <1>11. ASSUME NEW s \in Slots, LoadRole(s) \/ ReassignAborts(s) \/ Die(s) PROVE Explained'
    <2>1. ASSUME NEW u \in Users, u \notin misled PROVE Clean(u)'
      BY <1>11, <2>1, CleanKept DEF LoadRole, ReassignAborts, Die, GiveUp, Others, TypeOK,
         OwnOf, Fresh, Listing
    <2> QED
      BY <1>11, <2>1, AloneKept DEF LoadRole, ReassignAborts, Die, GiveUp, TypeOK
  <1>12. ASSUME NEW s \in Slots, ListHolders(s) PROVE Explained'
    <2>1. ASSUME NEW u \in Users, u \notin misled PROVE Clean(u)'
      <3>1. u \in listed'[s] => Role(s) \in OwnOf(u)
        BY <1>12 DEF ListHolders, Deletable, OwnOf, TypeOK
      <3>2. Fresh(s, u)' /\ Listing(s, u)'
        BY <1>12, <2>1, <3>1 DEF ListHolders, Clean, Single, Fresh, Listing, Role, OwnOf, TypeOK
      <3> QED
        BY <1>12, <2>1, <3>2, CleanKept DEF ListHolders, Others, TypeOK, OwnOf
    <2> QED
      BY <1>12, <2>1, AloneKept DEF ListHolders, TypeOK
  <1>13. ASSUME NEW s \in Slots, Reassign(s) \/ DeleteOnly(s) PROVE Explained'
    <2>1. ASSUME NEW u \in Users, u \notin misled PROVE Clean(u)'
      <3>0. /\ Others(s) /\ Fresh(s, u)' /\ Listing(s, u)'
            /\ UNCHANGED req
        BY <1>13 DEF Reassign, DeleteOnly, Others, Fresh, Listing, TypeOK
      <3>1. \/ OwnOf(u)' \subseteq OwnOf(u)
            \/ /\ pc[s] = "reassign" /\ u \in listed[s]
               /\ OwnOf(u)' \subseteq (OwnOf(u) \ {Role(s)}) \union {Member}
        BY <1>13, RolesAssumption DEF Reassign, DeleteOnly, DefaultRole, OwnOf, TypeOK
      <3>2. OwnOf(u)' \subseteq OwnOf(u) \/ OwnOf(u)' \subseteq {Member}
        BY <2>1, <3>1 DEF Clean, Listing
      <3>3. Single(u)'
        BY <2>1, <3>2 DEF Clean, Single
      <3>4. ASSUME NEW t \in Slots \ {s} PROVE Fresh(t, u)'
        <4>1. /\ pc[s] # "idle" /\ Kind(s) # "check" /\ Kind(s) \in Deletions
          BY <1>13 DEF Reassign, DeleteOnly, KindAt, Deletions
        <4> QED
          BY <2>1, <3>0, <3>4, <4>1, NobodyElse DEF Others, Fresh, On, Kind
      <3>5. ASSUME NEW t \in Slots \ {s} PROVE Listing(t, u)'
        BY <2>1, <3>0, <3>2, <3>5 DEF Others, Clean, Listing, Role
      <3> QED
        BY <3>0, <3>3, <3>4, <3>5 DEF Clean
    <2> QED
      BY <1>13, <2>1, AloneKept DEF Reassign, DeleteOnly, TypeOK
  <1>14. ASSUME NEW s \in Slots, NEW r \in Requests, Accept(s, r) PROVE Explained'
    <2>1. /\ pc'[s] \in {"get", "member", "load", "replace", "projects"}
          /\ req'[s] = r
          /\ Others(s)
          /\ misled \subseteq misled'
      BY <1>14 DEF Accept, Entry, Others, TypeOK
    <2>2. ASSUME NEW u \in Users, u \notin misled' PROVE Clean(u)'
      BY <1>14, <2>1, <2>2, CleanKept DEF Accept, OwnOf, Fresh, Listing
    <2>3. ASSUME NEW t \in Slots \ {s},
                 pc[t] # "idle", Changing(r), Changing(req[t]),
                 r.on = On(t) \/ {r.kind, Kind(t)} \intersect Deletions # {}
          PROVE  r.on \in misled' /\ On(t) \in misled'
      <3>1. t \in Rivals(s, r)
        BY <2>3 DEF Rivals
      <3>2. r.on \in Users /\ On(t) \in Users
        BY <1>0, RequestFields
      <3> QED
        BY <1>14, <3>1, <3>2 DEF Accept
    <2>4. Alone'
      <3> SUFFICES ASSUME NEW a \in Slots, NEW b \in Slots, a # b,
                          pc'[a] # "idle", pc'[b] # "idle",
                          Changing(req'[a]), Changing(req'[b]),
                          \/ On(a)' = On(b)'
                          \/ {Kind(a)', Kind(b)'} \intersect Deletions # {}
                   PROVE  On(a)' \in misled'
        BY DEF Alone, Changing
      <3>1. CASE a # s /\ b # s
        BY <2>1, <3>1 DEF Alone, Others, On, Kind
      <3>2. CASE a = s
        <4>1. b \in Slots \ {s} /\ pc[b] # "idle" /\ req'[b] = req[b]
          BY <2>1, <3>2 DEF Others
        <4> QED
          BY <2>1, <2>3, <3>2, <4>1 DEF On, Kind
      <3>3. CASE b = s
        <4>1. a \in Slots \ {s} /\ pc[a] # "idle" /\ req'[a] = req[a]
          BY <2>1, <3>3 DEF Others
        <4> QED
          BY <2>1, <2>3, <3>3, <4>1 DEF On, Kind
      <3> QED
        BY <3>1, <3>2, <3>3
    <2> QED
      BY <2>2, <2>4
  <1>15. ASSUME NEW v \in Users, Expire(v) PROVE Explained'
    BY <1>15 DEF Expire, local, Alone, Clean, Single, Fresh, Listing, OwnOf, On, Kind,
       Role, Changing
  <1>16. CASE UNCHANGED vars
    BY <1>16 DEF vars, local, Alone, Clean, Single, Fresh, Listing, OwnOf, On, Kind,
       Role, Changing
  <1>17. ASSUME NEW s \in Slots, ReplaceElsewhere(s) PROVE Explained'
    <2>1. ASSUME NEW u \in Users, u \notin misled PROVE Clean(u)'
      <3>1. Others(s) /\ UNCHANGED OwnOf(u)
        BY <1>17, RolesAssumption DEF ReplaceElsewhere, Others, TypeOK, OwnOf
      <3>2. Fresh(s, u)' /\ Listing(s, u)'
        BY <1>17 DEF ReplaceElsewhere, Fresh, Listing, Kind, KindAt, TypeOK
      <3> QED
        BY <2>1, <3>1, <3>2, CleanKept
    <2> QED
      BY <1>17, <2>1, AloneKept DEF ReplaceElsewhere, TypeOK
  <1>18. ASSUME NEW s \in Slots, ListProjects(s) PROVE Explained'
    <2>1. ASSUME NEW u \in Users, u \notin misled PROVE Clean(u)'
      BY <1>18, <2>1, CleanKept DEF ListProjects, Others, TypeOK, OwnOf, Fresh, Listing
    <2> QED
      BY <1>18, <2>1, AloneKept DEF ListProjects, TypeOK
  <1>19. ASSUME NEW s \in Slots, Purge(s) PROVE Explained'
    <2>1. ASSUME NEW u \in Users, u \notin misled PROVE Clean(u)'
      <3>1. Others(s) /\ OwnOf(u)' \subseteq OwnOf(u) /\ UNCHANGED req
        BY <1>19 DEF Purge, Others, TypeOK, OwnOf
      <3>2. Fresh(s, u)' /\ Listing(s, u)'
        BY <1>19 DEF Purge, Fresh, Listing, TypeOK
      <3>3. ASSUME NEW t \in Slots \ {s} PROVE Fresh(t, u)' /\ Listing(t, u)'
        BY <2>1, <3>1, <3>3 DEF Clean, Others, Fresh, Listing, On, Kind, Role
      <3> QED
        BY <2>1, <3>1, <3>2, <3>3 DEF Clean, Single
    <2> QED
      BY <1>19, <2>1, AloneKept DEF Purge, TypeOK
  <1> QED
    BY <1>1, <1>2, <1>3, <1>4, <1>5, <1>6, <1>7, <1>8, <1>9, <1>10, <1>11, <1>12,
       <1>13, <1>14, <1>15, <1>16, <1>17, <1>18, <1>19, NextCases DEF Step

\* A set whose members are all one has one member at most.
LEMMA SingleCardinality ==
  ASSUME NEW S, \A r, q \in S : r = q
  PROVE  Cardinality(S) \in {0, 1}
  <1>1. CASE S = {}
    BY <1>1, FS_EmptySet
  <1>2. ASSUME NEW r \in S PROVE Cardinality(S) = 1
    <2>1. S = {r}
      OBVIOUS
    <2> QED
      BY <2>1, FS_Singleton
  <1> QED
    BY <1>1, <1>2

\* A user has two roles of the project only if a request of it read a stale
\* entry of the cache, it came back with the role it had, two requests changed
\* its role at a time, or a route of the organisation or of another project gave
\* it one of this project beside the one it had.
THEOREM SecondRole == Spec => []SecondRoleIsExplained
  <1>1. Init => Explained
    BY DEF Init, Explained, Alone, Clean, Single, Fresh, Listing, OwnOf
  <1>2. Explained => SecondRoleIsExplained
    BY SingleCardinality DEF Explained, Clean, Single, SecondRoleIsExplained
  <1> QED
    BY <1>1, <1>2, ExplainedNext, TypedInit, TypedNext, PTL DEF Spec
=============================================================================
