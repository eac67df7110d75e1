------------------------ MODULE InstanceOwners_proofs ------------------------
(***************************************************************************)
(* Theorems about InstanceOwners, for any number of users and of requests  *)
(* served at a time.  The caches and the checks never invent an owner;     *)
(* and when requests come one at a time, with nobody purged, an owner      *)
(* remains.                                                                *)
(***************************************************************************)
EXTENDS InstanceOwners, FiniteSetTheorems, TLAPS

\* One case per action.
LEMMA NextCases ==
  ASSUME Next
  PROVE  \/ \E s \in Slots :
              \/ GetRoles(s) \/ GetInstanceRole(s) \/ ReadRoles(s)
              \/ SetInstanceRole(s) \/ SetRoles(s)
              \/ ListOwners(s) \/ FindUserRole(s)
              \/ SaveUserRole(s) \/ DeleteUserRole(s)
              \/ Invalidate(s) \/ Purge(s) \/ Die(s)
         \/ \E s \in Slots, r \in Requests : Accept(s, r) \/ AcceptRoleById(s, r)
         \/ \E u \in Users : ExpireRoles(u) \/ ExpireInstance(u)
  BY DEF Next, Step, Expiry

\* What a request is about: its requester, its target and its operation.
LEMMA RequestFields ==
  ASSUME TypeOK, NEW s \in Slots
  PROVE  /\ req[s].by \in Users
         /\ req[s].on \in Users
         /\ req[s].kind \in Kinds
         /\ Subject(s) \in Users
  BY DEF TypeOK, Requests, Subject

\* The steps of a verdict: where a request may be after Decide.
LEMMA DecideSteps ==
  ASSUME TypeOK, NEW s \in Slots, NEW role \in Roles, Decide(s, role)
  PROVE  /\ pc' \in [Slots -> Labels]
         /\ check' \in [Slots -> {"guard", "service", "target"}]
         /\ \A t \in Slots \ {s} : pc'[t] = pc[t] /\ check'[t] = check[t]
         /\ \/ /\ check[s] = "guard"
               /\ role = "owner"
               /\ check'[s] = IF req[s].kind = "purge" THEN "target" ELSE "service"
               /\ pc'[s] = "roles"
            \/ /\ check[s] = "service"
               /\ check'[s] = check[s]
               /\ pc'[s] = IF req[s].kind = "assign" THEN "find" ELSE "list"
            \/ check[s] = "target" /\ check'[s] = check[s] /\ pc'[s] = "purge"
            \/ check'[s] = check[s] /\ pc'[s] = "idle"
  <1> USE DEF TypeOK, Goto, Labels
  <1>1. CASE /\ check[s] = "guard"
             /\ role = "owner"
             /\ check' = [check EXCEPT ![s] = IF req[s].kind = "purge" THEN "target" ELSE "service"]
             /\ Goto(s, "roles")
    BY <1>1
  <1>2. CASE /\ check[s] = "service"
             /\ Goto(s, IF req[s].kind = "assign" THEN "find" ELSE "list")
             /\ UNCHANGED check
    BY <1>2
  <1>3. CASE check[s] = "target" /\ Goto(s, "purge") /\ UNCHANGED check
    BY <1>3
  <1>4. CASE Goto(s, "idle") /\ UNCHANGED check
    BY <1>4
  <1> QED
    BY <1>1, <1>2, <1>3, <1>4 DEF Decide

-----------------------------------------------------------------------------
(***************************************************************************)
(* Types.                                                                  *)
(***************************************************************************)

\* The initial state has the types of TypeOK.
LEMMA TypeInit == Init => TypeOK
  BY OwnersAssumption DEF Init, TypeOK, Entry, Roles, Labels

\* Every step keeps the types.
LEMMA TypeNext == TypeOK /\ [Next]_vars => TypeOK'
  <1> SUFFICES ASSUME TypeOK, [Next]_vars PROVE TypeOK'
    OBVIOUS
  <1> USE DEF Goto, Entry, Roles, Labels
  <1>1. ASSUME NEW s \in Slots, GetRoles(s) PROVE TypeOK'
    <2>1. Subject(s) \in Users
      BY RequestFields
    <2>2. CASE rolesCache[Subject(s)] # "miss" /\ Decide(s, rolesCache[Subject(s)])
      <3>1. rolesCache[Subject(s)] \in Roles
        BY <2>1, <2>2 DEF TypeOK
      <3> QED
        BY <1>1, <2>2, <3>1, DecideSteps DEF GetRoles, TypeOK, caches
    <2>3. CASE Goto(s, "instance") /\ UNCHANGED check
      BY <1>1, <2>3 DEF GetRoles, TypeOK, caches
    <2> QED
      BY <1>1, <2>2, <2>3 DEF GetRoles
  <1>2. ASSUME NEW s \in Slots, GetInstanceRole(s) PROVE TypeOK'
    <2>1. Subject(s) \in Users
      BY RequestFields
    <2> QED
      BY <1>2, <2>1 DEF GetInstanceRole, TypeOK, caches
  <1>3. ASSUME NEW s \in Slots, ReadRoles(s) PROVE TypeOK'
    BY <1>3 DEF ReadRoles, RoleOf, TypeOK, caches
  <1>4. ASSUME NEW s \in Slots, SetInstanceRole(s) PROVE TypeOK'
    BY <1>4 DEF SetInstanceRole, TypeOK
  <1>5. ASSUME NEW s \in Slots, SetRoles(s) PROVE TypeOK'
    <2>1. seen[s] \in Roles
      BY DEF TypeOK
    <2> QED
      BY <1>5, <2>1, DecideSteps DEF SetRoles, TypeOK
  <1>6. ASSUME NEW s \in Slots,
               ListOwners(s) \/ FindUserRole(s) \/ Invalidate(s) \/ Die(s)
        PROVE TypeOK'
    BY <1>6 DEF ListOwners, FindUserRole, Invalidate, Die, TypeOK, caches
  <1>7. ASSUME NEW s \in Slots, SaveUserRole(s) \/ DeleteUserRole(s) \/ Purge(s)
        PROVE TypeOK'
    BY <1>7, RequestFields
       DEF SaveUserRole, DeleteUserRole, Purge, TypeOK, caches
  <1>8. ASSUME NEW s \in Slots, NEW r \in Requests,
               Accept(s, r) \/ AcceptRoleById(s, r)
        PROVE TypeOK'
    BY <1>8 DEF Accept, AcceptRoleById, TypeOK, caches
  <1>9. ASSUME NEW u \in Users, ExpireRoles(u) \/ ExpireInstance(u) PROVE TypeOK'
    BY <1>9 DEF ExpireRoles, ExpireInstance, TypeOK, local
  <1>10. CASE UNCHANGED vars
    BY <1>10 DEF vars, caches, local, TypeOK
  <1> QED
    BY <1>1, <1>2, <1>3, <1>4, <1>5, <1>6, <1>7, <1>8, <1>9, <1>10, NextCases

\* The variables of InstanceOwners keep their types in every reachable state.
THEOREM TypeCorrect == Spec => []TypeOK
  <1> QED
    BY TypeInit, TypeNext, PTL DEF Spec

-----------------------------------------------------------------------------
(***************************************************************************)
(* No owner is invented.                                                   *)
(***************************************************************************)

\* A fill that is about to write "owner" read it of somebody who was one.
FillsTrue ==
  \A s \in Slots :
    pc[s] \in {"setInstance", "setRoles"} /\ seen[s] = "owner"
      => Subject(s) \in everOwner

\* A request past its guard was made by somebody who was an owner, and it
\* works only past its guard, unless it gives a role by its id.
PastGuard ==
  \A s \in Slots :
    /\ pc[s] # "idle" /\ check[s] # "guard" => req[s].by \in everOwner
    /\ pc[s] \in {"list", "delete", "purge"} => check[s] # "guard"
    /\ pc[s] \in {"find", "save", "invalidate"}
         => check[s] # "guard" \/ req[s].kind = "byId"

Honest ==
  /\ TypeOK
  /\ owners \subseteq everOwner
  /\ CachesNeverInvent
  /\ FillsTrue
  /\ PastGuard

\* Nothing is cached and no request is under way at the start.
LEMMA HonestInit == Init => Honest
  BY TypeInit DEF Init, Honest, CachesNeverInvent, FillsTrue, PastGuard

\* A verdict "owner" for the requester lets a request past its guard only if
\* the requester was an owner.
LEMMA HonestDecide ==
  ASSUME Honest, NEW s \in Slots, NEW role \in Roles, Decide(s, role),
         role = "owner" => Subject(s) \in everOwner,
         pc[s] # "idle",
         UNCHANGED <<everOwner, req>>,
         \A t \in Slots \ {s} : seen'[t] = seen[t]
  PROVE  FillsTrue' /\ PastGuard'
  <1> USE DEF Honest
  <1>1. /\ \A t \in Slots \ {s} : pc'[t] = pc[t] /\ check'[t] = check[t]
        /\ \/ /\ check[s] = "guard"
              /\ role = "owner"
              /\ check'[s] \in {"target", "service"}
              /\ pc'[s] = "roles"
           \/ /\ check[s] = "service"
              /\ check'[s] = check[s]
              /\ pc'[s] \in {"find", "list"}
           \/ check[s] = "target" /\ check'[s] = check[s] /\ pc'[s] = "purge"
           \/ check'[s] = check[s] /\ pc'[s] = "idle"
    BY DecideSteps
  <1>2. FillsTrue'
    BY <1>1 DEF FillsTrue, Subject
  <1>3. check[s] = "guard" => Subject(s) = req[s].by
    BY DEF Subject
  <1>4. PastGuard'
    BY <1>1, <1>3 DEF PastGuard
  <1> QED
    BY <1>2, <1>4

\* No step invents an owner.
LEMMA HonestNext == Honest /\ [Next]_vars => Honest'
  <1> SUFFICES ASSUME Honest, [Next]_vars PROVE Honest'
    OBVIOUS
  <1>0. TypeOK'
    BY TypeNext DEF Honest
  <1> USE DEF Honest, Goto, Labels
  <1>1. ASSUME NEW s \in Slots, GetRoles(s) PROVE Honest'
    <2>0. /\ UNCHANGED <<owners, everOwner, rolesCache, instCache, req, seen>>
          /\ pc[s] = "roles"
      BY <1>1 DEF GetRoles, caches
    <2>1. Subject(s) \in Users
      BY RequestFields
    <2>2. CASE rolesCache[Subject(s)] # "miss" /\ Decide(s, rolesCache[Subject(s)])
      <3>1. rolesCache[Subject(s)] \in Roles
        BY <2>1, <2>2 DEF TypeOK, Entry
      <3>2. rolesCache[Subject(s)] = "owner" => Subject(s) \in everOwner
        BY <2>1 DEF CachesNeverInvent
      <3>3. FillsTrue' /\ PastGuard'
        BY <2>0, <2>2, <3>1, <3>2, HonestDecide
      <3> QED
        BY <1>0, <2>0, <3>3 DEF CachesNeverInvent
    <2>3. CASE Goto(s, "instance") /\ UNCHANGED check
      BY <1>0, <2>0, <2>3 DEF TypeOK, CachesNeverInvent, FillsTrue, PastGuard, Subject
    <2> QED
      BY <1>1, <2>2, <2>3 DEF GetRoles
  <1>2. ASSUME NEW s \in Slots, GetInstanceRole(s) PROVE Honest'
    <2>0. Subject(s) \in Users
      BY RequestFields
    <2>1. UNCHANGED <<owners, everOwner, rolesCache, instCache, check, req>>
      BY <1>2 DEF GetInstanceRole, caches
    <2>2. FillsTrue'
      BY <1>2, <2>0, <2>1
         DEF GetInstanceRole, TypeOK, FillsTrue, Subject, CachesNeverInvent
    <2>3. PastGuard'
      BY <1>2, <2>1 DEF GetInstanceRole, TypeOK, PastGuard
    <2> QED
      BY <1>0, <2>1, <2>2, <2>3 DEF CachesNeverInvent
  <1>3. ASSUME NEW s \in Slots, ReadRoles(s) PROVE Honest'
    <2>1. UNCHANGED <<owners, everOwner, rolesCache, instCache, check, req>>
      BY <1>3 DEF ReadRoles, caches
    <2>2. FillsTrue'
      BY <1>3, <2>1 DEF ReadRoles, RoleOf, TypeOK, FillsTrue, Subject
    <2>3. PastGuard'
      BY <1>3, <2>1 DEF ReadRoles, TypeOK, PastGuard
    <2> QED
      BY <1>0, <2>1, <2>2, <2>3 DEF CachesNeverInvent
  <1>4. ASSUME NEW s \in Slots, SetInstanceRole(s) PROVE Honest'
    <2>1. UNCHANGED <<owners, everOwner, rolesCache, check, req, seen>>
      BY <1>4 DEF SetInstanceRole
    <2>2. FillsTrue' /\ PastGuard'
      BY <1>4, <2>1 DEF SetInstanceRole, TypeOK, FillsTrue, PastGuard, Subject
    <2>3. CachesNeverInvent'
      BY <1>4, <2>1 DEF SetInstanceRole, TypeOK, FillsTrue, CachesNeverInvent
    <2> QED
      BY <1>0, <2>1, <2>2, <2>3
  <1>5. ASSUME NEW s \in Slots, SetRoles(s) PROVE Honest'
    <2>1. /\ UNCHANGED <<owners, everOwner, instCache, req>>
          /\ pc[s] = "setRoles"
          /\ seen' = [seen EXCEPT ![s] = "none"]
          /\ seen[s] \in Roles
          /\ Decide(s, seen[s])
      BY <1>5 DEF SetRoles, TypeOK
    <2>2. seen[s] = "owner" => Subject(s) \in everOwner
      BY <2>1 DEF FillsTrue
    <2>3. \A t \in Slots \ {s} : seen'[t] = seen[t]
      BY <2>1 DEF TypeOK
    <2>4. FillsTrue' /\ PastGuard'
      BY <2>1, <2>2, <2>3, HonestDecide
    <2>5. CachesNeverInvent'
      BY <1>5, <2>1, <2>2 DEF SetRoles, TypeOK, CachesNeverInvent
    <2> QED
      BY <1>0, <2>1, <2>4, <2>5
  <1>6. ASSUME NEW s \in Slots,
               ListOwners(s) \/ FindUserRole(s) \/ DeleteUserRole(s) \/ Invalidate(s)
                 \/ Purge(s) \/ Die(s)
        PROVE Honest'
    <2>1. /\ UNCHANGED <<everOwner, rolesCache, check, req, seen>>
          /\ owners' \subseteq owners
          /\ pc[s] # "idle"
          /\ \A u \in Users : instCache'[u] = "owner" => instCache[u] = "owner"
          /\ pc' \in [Slots -> Labels]
          /\ \/ pc'[s] = "idle"
             \/ check[s] # "guard" /\ pc'[s] \in {"find", "save", "delete", "invalidate"}
             \/ req[s].kind = "byId" /\ pc'[s] = "save"
          /\ \A t \in Slots \ {s} : pc'[t] = pc[t]
      <3>1. CASE ListOwners(s)
        BY <3>1 DEF ListOwners, caches, TypeOK, PastGuard
      <3>2. CASE FindUserRole(s)
        BY <3>2 DEF FindUserRole, Giving, caches, TypeOK, PastGuard
      <3>3. CASE DeleteUserRole(s)
        BY <3>3 DEF DeleteUserRole, caches, TypeOK, PastGuard
      <3>4. CASE Invalidate(s)
        BY <3>4 DEF Invalidate, TypeOK
      <3>5. CASE Purge(s)
        BY <3>5 DEF Purge, caches, TypeOK
      <3>6. CASE Die(s)
        BY <3>6 DEF Die, caches, TypeOK
      <3> QED
        BY <1>6, <3>1, <3>2, <3>3, <3>4, <3>5, <3>6
    <2>2. FillsTrue' /\ PastGuard'
      BY <2>1 DEF FillsTrue, PastGuard, Subject
    <2>3. CachesNeverInvent'
      BY <2>1 DEF CachesNeverInvent
    <2> QED
      BY <1>0, <2>1, <2>2, <2>3
  <1>7. ASSUME NEW s \in Slots, SaveUserRole(s) PROVE Honest'
    <2>1. /\ UNCHANGED <<rolesCache, instCache, check, req, seen>>
          /\ owners' = owners \union {req[s].on}
          /\ everOwner' = everOwner \union {req[s].on}
          /\ pc[s] = "save"
          /\ pc'[s] \in {"idle", "invalidate"}
          /\ \A t \in Slots \ {s} : pc'[t] = pc[t]
      BY <1>7 DEF SaveUserRole, caches, TypeOK
    <2>2. FillsTrue' /\ PastGuard'
      BY <2>1 DEF FillsTrue, PastGuard, Subject
    <2> QED
      BY <1>0, <2>1, <2>2 DEF CachesNeverInvent
  <1>8. ASSUME NEW s \in Slots, NEW r \in Requests,
               Accept(s, r) \/ AcceptRoleById(s, r)
        PROVE Honest'
    <2>1. /\ UNCHANGED <<owners, everOwner, rolesCache, instCache, seen>>
          /\ check'[s] = "guard"
          /\ pc'[s] = "roles" \/ (pc'[s] = "find" /\ req'[s].kind = "byId")
          /\ \A t \in Slots \ {s} :
               pc'[t] = pc[t] /\ check'[t] = check[t] /\ req'[t] = req[t]
      BY <1>8 DEF Accept, AcceptRoleById, caches, TypeOK
    <2>2. FillsTrue' /\ PastGuard'
      BY <2>1 DEF FillsTrue, PastGuard, Subject
    <2> QED
      BY <1>0, <2>1, <2>2 DEF CachesNeverInvent
  <1>9. ASSUME NEW u \in Users, ExpireRoles(u) \/ ExpireInstance(u) PROVE Honest'
    <2>1. /\ UNCHANGED <<owners, everOwner, pc, check, req, seen>>
          /\ \A v \in Users : /\ rolesCache'[v] = "owner" => rolesCache[v] = "owner"
                              /\ instCache'[v] = "owner" => instCache[v] = "owner"
      BY <1>9 DEF ExpireRoles, ExpireInstance, local, TypeOK
    <2> QED
      BY <1>0, <2>1 DEF CachesNeverInvent, FillsTrue, PastGuard, Subject
  <1>10. CASE UNCHANGED vars
    BY <1>0, <1>10
       DEF vars, caches, local, CachesNeverInvent, FillsTrue, PastGuard, Subject
  <1> QED
    BY <1>1, <1>2, <1>3, <1>4, <1>5, <1>6, <1>7, <1>8, <1>9, <1>10, NextCases

\* No cache entry says "owner" of a user that never was one.
THEOREM NoInventedOwner == Spec => []CachesNeverInvent
  <1>1. Honest => CachesNeverInvent
    BY DEF Honest
  <1> QED
    BY <1>1, HonestInit, HonestNext, PTL DEF Spec

\* Whoever becomes or stops being an owner does so by a request, at its write:
\* of somebody who was an owner, or one that gave the role by its id.
LEMMA OwnersChange ==
  ASSUME Honest, [Next]_vars, NEW u \in Users, (u \in owners) # (u \in owners')
  PROVE  \E s \in Slots :
           /\ req[s].on = u
           /\ \/ pc[s] \in {"save", "delete", "purge"} /\ req[s].by \in everOwner
              \/ pc[s] = "save" /\ req[s].kind = "byId"
  <1>1. PICK s \in Slots : SaveUserRole(s) \/ DeleteUserRole(s) \/ Purge(s)
    <2>1. owners' # owners
      OBVIOUS
    <2>2. ASSUME NEW s \in Slots,
                 \/ GetRoles(s) \/ GetInstanceRole(s) \/ ReadRoles(s)
                 \/ SetInstanceRole(s) \/ SetRoles(s)
                 \/ ListOwners(s) \/ FindUserRole(s) \/ Invalidate(s) \/ Die(s)
          PROVE FALSE
      BY <2>1, <2>2 DEF GetRoles, GetInstanceRole, ReadRoles, SetInstanceRole,
         SetRoles, ListOwners, FindUserRole, Invalidate, Die
    <2>3. ASSUME NEW s \in Slots, NEW r \in Requests, Accept(s, r) \/ AcceptRoleById(s, r)
          PROVE FALSE
      BY <2>1, <2>3 DEF Accept, AcceptRoleById
    <2>4. ASSUME NEW v \in Users, ExpireRoles(v) \/ ExpireInstance(v) PROVE FALSE
      BY <2>1, <2>4 DEF ExpireRoles, ExpireInstance
    <2>5. ~ UNCHANGED vars
      BY <2>1 DEF vars
    <2> QED
      BY <2>2, <2>3, <2>4, <2>5, NextCases
  <1>2. pc[s] \in {"save", "delete", "purge"} /\ req[s].on = u
    BY <1>1 DEF SaveUserRole, DeleteUserRole, Purge
  <1>3. req[s].by \in everOwner \/ (pc[s] = "save" /\ req[s].kind = "byId")
    BY <1>2 DEF Honest, PastGuard
  <1> QED
    BY <1>2, <1>3

\* Nobody stops being an owner but by a request of somebody who is, or once
\* was, an owner; nobody becomes one but so, or by a route that assigned the
\* role by its id: however the requests and the caches interleave.
THEOREM OwnersAnswerToOwners == Spec => OnlyOwnersChangeOwners
  <1>1. Honest /\ [Next]_vars =>
          [\A u \in Users : (u \in owners) # (u \in owners') =>
             \E s \in Slots :
               /\ req[s].on = u
               /\ \/ pc[s] \in {"save", "delete", "purge"} /\ req[s].by \in everOwner
                  \/ pc[s] = "save" /\ req[s].kind = "byId"]_vars
    BY OwnersChange
  <1> QED
    BY <1>1, HonestInit, HonestNext, PTL DEF Spec, OnlyOwnersChangeOwners

-----------------------------------------------------------------------------
(***************************************************************************)
(* The last owner.                                                         *)
(***************************************************************************)

\* Requests come one at a time and none is a purge.
OneAtATime ==
  /\ \A s, t \in Slots : s = t
  /\ "purge" \notin Kinds

\* A request that is to delete a role was accepted to remove one, and found
\* that somebody else has it too.
Spares ==
  /\ owners # {}
  /\ \A s \in Slots :
       /\ pc[s] # "idle" => check[s] # "target"
       /\ pc[s] # "purge"
       /\ pc[s] \in {"find", "delete"} /\ req[s].kind \notin Giving
            => \E u \in owners : u # req[s].on
       /\ pc[s] = "delete" => req[s].kind \notin Giving

\* Somebody else is among the owners when ListOwners lets a removal pass.
LEMMA ListSpares ==
  ASSUME NEW S, S # {}, NEW on, ~ (Cardinality(S) = 1 /\ on \in S)
  PROVE  \E u \in S : u # on
  <1> SUFFICES ASSUME S = {on} PROVE FALSE
    OBVIOUS
  <1>1. Cardinality(S) = 1
    BY FS_Singleton
  <1> QED
    BY <1>1

\* With one request at a time, a verdict leads to a removal only through the
\* list of owners.
LEMMA SparesDecide ==
  ASSUME TypeOK, Spares, OneAtATime, NEW s \in Slots, NEW role \in Roles,
         Decide(s, role), pc[s] # "idle", UNCHANGED <<owners, req>>
  PROVE  Spares'
  <1>1. req[s].kind # "purge"
    BY RequestFields DEF OneAtATime
  <1>2. /\ \A t \in Slots : t = s
        /\ check[s] # "target"
    BY DEF OneAtATime, Spares
  <1>3. \/ check'[s] = "service" /\ pc'[s] = "roles"
        \/ /\ check'[s] = check[s]
           /\ pc'[s] = IF req[s].kind = "assign" THEN "find" ELSE "list"
        \/ check'[s] = check[s] /\ pc'[s] = "idle"
    BY <1>1, <1>2, DecideSteps
  <1> QED
    BY <1>2, <1>3 DEF Spares, Giving

\* Spares is inductive when requests come one at a time.
LEMMA SparesNext ==
  ASSUME TypeOK, Spares, OneAtATime, [Next]_vars
  PROVE  Spares'
  <1> USE DEF Goto
  <1>1. ASSUME NEW s \in Slots, GetRoles(s) PROVE Spares'
    <2>1. CASE rolesCache[Subject(s)] # "miss" /\ Decide(s, rolesCache[Subject(s)])
      <3>1. rolesCache[Subject(s)] \in Roles
        BY <2>1, RequestFields DEF TypeOK, Entry
      <3> QED
        BY <1>1, <2>1, <3>1, SparesDecide DEF GetRoles
    <2>2. CASE Goto(s, "instance") /\ UNCHANGED check
      BY <1>1, <2>2 DEF GetRoles, TypeOK, Spares
    <2> QED
      BY <1>1, <2>1, <2>2 DEF GetRoles
  <1>2. ASSUME NEW s \in Slots, GetInstanceRole(s) \/ ReadRoles(s) \/ SetInstanceRole(s)
        PROVE Spares'
    BY <1>2 DEF GetInstanceRole, ReadRoles, SetInstanceRole, TypeOK, Spares
  <1>3. ASSUME NEW s \in Slots, SetRoles(s) PROVE Spares'
    <2>1. seen[s] \in Roles
      BY DEF TypeOK
    <2> QED
      BY <1>3, <2>1, SparesDecide DEF SetRoles
  <1>4. ASSUME NEW s \in Slots, ListOwners(s) PROVE Spares'
    <2>1. CASE Cardinality(owners) = 1 /\ req[s].on \in owners
      BY <1>4, <2>1 DEF ListOwners, TypeOK, Spares
    <2>2. CASE ~ (Cardinality(owners) = 1 /\ req[s].on \in owners)
      <3>1. \E u \in owners : u # req[s].on
        BY <2>2, ListSpares DEF Spares
      <3> QED
        BY <1>4, <3>1 DEF ListOwners, TypeOK, Spares
    <2> QED
      BY <2>1, <2>2
  <1>5. ASSUME NEW s \in Slots, FindUserRole(s) PROVE Spares'
    BY <1>5 DEF FindUserRole, TypeOK, Spares
  <1>6. ASSUME NEW s \in Slots, SaveUserRole(s) PROVE Spares'
    BY <1>6 DEF SaveUserRole, TypeOK, Spares
  <1>7. ASSUME NEW s \in Slots, DeleteUserRole(s) PROVE Spares'
    <2>1. \A t \in Slots : t = s
      BY DEF OneAtATime
    <2>2. PICK u \in owners : u # req[s].on
      BY <1>7 DEF DeleteUserRole, Spares
    <2> QED
      BY <1>7, <2>1, <2>2 DEF DeleteUserRole, TypeOK, Spares
  <1>8. ASSUME NEW s \in Slots, Invalidate(s) \/ Die(s) PROVE Spares'
    BY <1>8 DEF Invalidate, Die, TypeOK, Spares
  <1>9. ASSUME NEW s \in Slots, Purge(s) PROVE Spares'
    BY <1>9 DEF Purge, Spares
  <1>10. ASSUME NEW s \in Slots, NEW r \in Requests,
               Accept(s, r) \/ AcceptRoleById(s, r)
        PROVE Spares'
    BY <1>10 DEF Accept, AcceptRoleById, Giving, TypeOK, Spares
  <1>11. ASSUME NEW u \in Users, ExpireRoles(u) \/ ExpireInstance(u) PROVE Spares'
    BY <1>11 DEF ExpireRoles, ExpireInstance, local, Spares
  <1>12. CASE UNCHANGED vars
    BY <1>12 DEF vars, local, Spares
  <1> QED
    BY <1>1, <1>2, <1>3, <1>4, <1>5, <1>6, <1>7, <1>8, <1>9, <1>10, <1>11, <1>12, NextCases

\* When requests come one at a time and nobody is purged, the instance always
\* has an owner, stale caches and deaths notwithstanding.
THEOREM LastOwnerStays ==
  ASSUME OneAtATime
  PROVE  Spec => []AnOwnerRemains
  <1>1. Init => Spares
    BY OwnersAssumption DEF Init, Spares
  <1>2. TypeOK /\ Spares /\ [Next]_vars => Spares'
    BY SparesNext
  <1>3. Spares => AnOwnerRemains
    BY DEF Spares, AnOwnerRemains
  <1> QED
    BY <1>1, <1>2, <1>3, TypeInit, TypeNext, PTL DEF Spec
-----------------------------------------------------------------------------
(***************************************************************************)
(* The instance cache of a system that serves one request at a time.       *)
(***************************************************************************)

\* The entries agree with user_roles, and so does the fill under way.
Coherent ==
  /\ InstanceCacheCoherent
  /\ \A s \in Slots : pc[s] = "setInstance" => seen[s] = RoleOf(Subject(s))

\* A verdict writes neither the roles nor the instance cache.
LEMMA CoherentDecide ==
  ASSUME TypeOK, Coherent, OneAtATime, NEW s \in Slots, NEW role \in Roles,
         Decide(s, role), pc[s] \in {"roles", "setRoles"}, UNCHANGED <<owners, instCache, req>>
  PROVE  Coherent'
  <1>1. \A t \in Slots : t = s
    BY DEF OneAtATime
  <1>2. pc'[s] \notin {"setInstance", "invalidate"}
    BY DecideSteps
  <1>3. \A u \in Users : instCache[u] \in {"miss", RoleOf(u)}
    BY <1>1 DEF Coherent, InstanceCacheCoherent
  <1> QED
    BY <1>1, <1>2, <1>3 DEF Coherent, InstanceCacheCoherent, RoleOf

\* Coherent is inductive when requests come one at a time and none dies.
LEMMA CoherentNext ==
  ASSUME TypeOK, Spares, Coherent, OneAtATime, MaxDeaths = 0, [Next]_vars
  PROVE  Coherent'
  <1> USE DEF Goto
  <1>0. \A s, t \in Slots : s = t
    BY DEF OneAtATime
  <1>1. ASSUME NEW s \in Slots, GetRoles(s) PROVE Coherent'
    <2>1. CASE rolesCache[Subject(s)] # "miss" /\ Decide(s, rolesCache[Subject(s)])
      <3>1. rolesCache[Subject(s)] \in Roles
        BY <2>1, RequestFields DEF TypeOK, Entry
      <3> QED
        BY <1>1, <2>1, <3>1, CoherentDecide DEF GetRoles, caches
    <2>2. CASE Goto(s, "instance") /\ UNCHANGED check
      BY <1>1, <2>2, <1>0
         DEF GetRoles, caches, TypeOK, Coherent, InstanceCacheCoherent, RoleOf
    <2> QED
      BY <1>1, <2>1, <2>2 DEF GetRoles
  <1>2. ASSUME NEW s \in Slots, GetInstanceRole(s) PROVE Coherent'
    BY <1>2, <1>0 DEF GetInstanceRole, caches, TypeOK, Coherent,
       InstanceCacheCoherent, RoleOf
  <1>3. ASSUME NEW s \in Slots, ReadRoles(s) PROVE Coherent'
    BY <1>3, <1>0 DEF ReadRoles, caches, TypeOK, Coherent, InstanceCacheCoherent,
       RoleOf, Subject
  <1>4. ASSUME NEW s \in Slots, SetInstanceRole(s) PROVE Coherent'
    BY <1>4, <1>0 DEF SetInstanceRole, TypeOK, Coherent, InstanceCacheCoherent,
       RoleOf, Subject
  <1>5. ASSUME NEW s \in Slots, SetRoles(s) PROVE Coherent'
    <2>1. seen[s] \in Roles
      BY DEF TypeOK
    <2> QED
      BY <1>5, <2>1, CoherentDecide DEF SetRoles
  <1>6. ASSUME NEW s \in Slots, ListOwners(s) \/ FindUserRole(s) PROVE Coherent'
    BY <1>6, <1>0 DEF ListOwners, FindUserRole, caches, TypeOK, Coherent,
       InstanceCacheCoherent, RoleOf
  <1>7. ASSUME NEW s \in Slots, SaveUserRole(s) \/ DeleteUserRole(s) PROVE Coherent'
    BY <1>7, <1>0 DEF SaveUserRole, DeleteUserRole, caches, TypeOK, Coherent,
       InstanceCacheCoherent, RoleOf
  <1>8. ASSUME NEW s \in Slots, Invalidate(s) PROVE Coherent'
    BY <1>8, <1>0 DEF Invalidate, TypeOK, Coherent, InstanceCacheCoherent, RoleOf
  <1>9. ASSUME NEW s \in Slots, Purge(s) PROVE FALSE
    BY <1>9 DEF Purge, Spares
  <1>10. ASSUME NEW s \in Slots, Die(s) PROVE FALSE
    BY <1>10 DEF Die, TypeOK
  <1>11. ASSUME NEW s \in Slots, NEW r \in Requests,
               Accept(s, r) \/ AcceptRoleById(s, r)
        PROVE Coherent'
    BY <1>11, <1>0 DEF Accept, AcceptRoleById, caches, TypeOK, Coherent, InstanceCacheCoherent, RoleOf
  <1>12. ASSUME NEW u \in Users, ExpireRoles(u) \/ ExpireInstance(u) PROVE Coherent'
    BY <1>12 DEF ExpireRoles, ExpireInstance, local, TypeOK, Coherent,
       InstanceCacheCoherent, RoleOf, Subject
  <1>13. CASE UNCHANGED vars
    BY <1>13 DEF vars, caches, local, Coherent, InstanceCacheCoherent, RoleOf, Subject
  <1> QED
    BY <1>1, <1>2, <1>3, <1>4, <1>5, <1>6, <1>7, <1>8, <1>9, <1>10, <1>11, <1>12,
       <1>13, NextCases

\* When requests come one at a time, none dies and nobody is purged, an entry
\* of the instance cache agrees with user_roles but for the instant between a
\* write and its invalidation.
THEOREM CacheCoherent ==
  ASSUME OneAtATime, MaxDeaths = 0
  PROVE  Spec => []InstanceCacheCoherent
  <1>1. Init => Spares /\ Coherent
    BY OwnersAssumption DEF Init, Spares, Coherent, InstanceCacheCoherent
  <1>2. TypeOK /\ Spares /\ Coherent /\ [Next]_vars => Spares' /\ Coherent'
    BY SparesNext, CoherentNext
  <1>3. Coherent => InstanceCacheCoherent
    BY DEF Coherent
  <1> QED
    BY <1>1, <1>2, <1>3, TypeInit, TypeNext, PTL DEF Spec
=============================================================================
