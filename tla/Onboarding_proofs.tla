-------------------------- MODULE Onboarding_proofs --------------------------
(***************************************************************************)
(* Theorems about Onboarding, for any number of people, organisations,     *)
(* requests, invitations and deaths: one first owner at most, no seat that *)
(* was not asked for, no invitation used up without a seat, and a role for *)
(* every member until a request dies or is refused one.                    *)
(***************************************************************************)
EXTENDS Onboarding, FiniteSetTheorems, TLAPS

Labels == {"idle", "countRoles", "countUsers", "owner", "findInvite", "isMember",
           "join", "role", "consume", "expire", "findPending", "replace", "resend",
           "insert", "newRole"}

\* TypeOK, with the labels of the requests.
Typed == TypeOK /\ pc \in [Slots -> Labels]

\* One case per action.
LEMMA NextCases ==
  ASSUME Next
  PROVE  \/ \E s \in Slots :
              \/ CountRoles(s) \/ CountUsers(s) \/ AssignOwner(s)
              \/ FindInvite(s) \/ IsMember(s) \/ Join(s)
              \/ TakeOrgRole(s) \/ AssignOrgRole(s) \/ RefuseOrgRole(s)
              \/ ConsumeInvite(s) \/ ExpireInvite(s)
              \/ FindPending(s) \/ ReplaceInvite(s) \/ ResendInvite(s)
              \/ InsertInvite(s) \/ Die(s)
         \/ \E s \in Slots, p \in People : SignIn(s, p)
         \/ \E s \in Slots, x \in Seats : AddUser(s, x) \/ ChangeRole(s, x)
         \/ \E s \in Slots, i \in Ids : CheckInvite(s, i)
         \/ \E x \in Seats : RemoveUser(x)
         \/ \E p \in People, listed \in SUBSET members : RemoveUserFromSystem(p, listed)
         \/ \E i \in Ids : BecomeOverdue(i)
  BY DEF Next, Step

\* Somebody and some organisation stand for the locals of an idle request.
LEMMA Defaults ==
  /\ (CHOOSE p \in People : TRUE) \in People
  /\ (CHOOSE o \in Orgs : TRUE) \in Orgs
  /\ (CHOOSE x \in Seats : TRUE) \in Seats
  <1>1. (\E p \in People : TRUE) /\ (\E o \in Orgs : TRUE)
    BY SeatsAssumption
  <1>2. \E x \in Seats : TRUE
    <2>1. PICK p \in People, o \in Orgs : TRUE
      BY <1>1
    <2>2. <<o, p>> \in Seats
      BY DEF Seats
    <2> QED
      BY <2>2
  <1>3. (CHOOSE p \in People : TRUE) \in People
    BY <1>1, Zenon
  <1>4. (CHOOSE o \in Orgs : TRUE) \in Orgs
    BY <1>1, Zenon
  <1>5. (CHOOSE x \in Seats : TRUE) \in Seats
    BY <1>2, Zenon
  <1> QED
    BY <1>3, <1>4, <1>5

-----------------------------------------------------------------------------
(***************************************************************************)
(* Types, and what a request holds.                                        *)
(***************************************************************************)

\* A request whose copy is of an invitation: the row exists, and it is about
\* the seat in hand unless the request only marks it.
CopyInv ==
  \A s \in Slots :
    /\ pc[s] \in {"idle", "countRoles", "countUsers", "owner", "findInvite", "findPending",
                "newRole"}
         => copy[s].id = 0
    /\ pc[s] \in {"consume", "expire", "replace", "resend"} => copy[s].id \in 1..sent
    /\ pc[s] \in {"isMember", "join", "role", "consume"} /\ copy[s].id # 0
         => copy[s].id \in 1..sent /\ seat[copy[s].id] = Seat(s)

\* The seat in hand was asked for, and so was every invitation.
AskedInv ==
  /\ \A i \in 1..sent : seat[i] \in asked
  /\ \A s \in Slots :
       pc[s] \in {"isMember", "join", "role", "findPending", "replace", "resend", "insert"}
         => Seat(s) \in asked
  /\ SeatsWereAskedFor

\* A request that gives a role or consumes an invitation has taken the seat.
SeatedInv ==
  /\ \A s \in Slots : pc[s] \in {"role", "consume"} => Seat(s) \in everSeated
  /\ AcceptedWereSeated

Inv == Typed /\ CopyInv /\ AskedInv /\ SeatedInv

\* What the end of a request and its continuation do to the locals.
LEMMA EndSteps ==
  ASSUME Typed, NEW s \in Slots, End(s)
  PROVE  /\ pc' \in [Slots -> Labels]
         /\ who' \in [Slots -> People]
         /\ org' \in [Slots -> Orgs]
         /\ copy' \in [Slots -> [id : 0..MaxInvites, overdue : BOOLEAN]]
         /\ pc'[s] = "idle" /\ copy'[s].id = 0
         /\ \A t \in Slots \ {s} : /\ pc'[t] = pc[t] /\ copy'[t] = copy[t]
                                   /\ who'[t] = who[t] /\ org'[t] = org[t]
  BY Defaults, BoundAssumption DEF End, Goto, NoCopy, Typed, TypeOK, Labels

LEMMA ContinueSteps ==
  ASSUME Typed, NEW s \in Slots, NEW l \in Labels, Continue(s, l)
  PROVE  /\ pc' \in [Slots -> Labels]
         /\ UNCHANGED <<who, org, copy>>
         /\ pc'[s] = l
         /\ \A t \in Slots \ {s} : pc'[t] = pc[t]
  BY DEF Continue, Goto, Typed, TypeOK, Labels, local

\* What the save of a copy does to its invitation, and to no other.
LEMMA SaveSteps ==
  ASSUME Typed, NEW s \in Slots, copy[s].id \in 1..sent,
         NEW new \in {"pending", "accepted", "expired"}, NEW o \in BOOLEAN,
         Save(s, new, o)
  PROVE  /\ status' \in [Ids -> {"pending", "accepted", "expired"}]
         /\ overdue' \in [Ids -> BOOLEAN]
         /\ \A i \in Ids : \/ status'[i] = status[i]
                           \/ i = copy[s].id /\ status'[i] = new
  <1>1. copy[s].id \in Ids
    BY BoundAssumption DEF Typed, TypeOK, Ids
  <1> QED
    BY <1>1 DEF Save, Typed, TypeOK

\* The initial state satisfies the invariant.
LEMMA InvInit == Init => Inv
  <1> SUFFICES ASSUME Init PROVE Inv
    OBVIOUS
  <1>1. Typed
    BY Defaults, BoundAssumption DEF Init, Typed, TypeOK, Labels, NoCopy
  <1>2. CopyInv
    BY DEF Init, CopyInv, NoCopy
  <1>3. AskedInv /\ SeatedInv
    BY DEF Init, AskedInv, SeatedInv, SeatsWereAskedFor, AcceptedWereSeated
  <1> QED
    BY <1>1, <1>2, <1>3 DEF Inv

\* Every step keeps the types.
LEMMA TypedNext == Inv /\ [Next]_vars => Typed'
  <1> SUFFICES ASSUME Inv, [Next]_vars PROVE Typed'
    OBVIOUS
  <1>0. Typed /\ TypeOK
    BY DEF Inv, Typed
  <1> USE DEF roles, invites, local
  <1>1. ASSUME NEW s \in Slots, CountRoles(s) \/ CountUsers(s) PROVE Typed'
    <2>1. PICK l \in Labels : Continue(s, l)
      BY <1>1 DEF CountRoles, CountUsers, Labels
    <2> QED
      BY <1>0, <1>1, <2>1, ContinueSteps DEF CountRoles, CountUsers, Typed, TypeOK
  <1>2. ASSUME NEW s \in Slots, AssignOwner(s) PROVE Typed'
    <2>1. End(s)
      BY <1>2 DEF AssignOwner
    <2> QED
      BY <1>0, <1>2, <2>1, EndSteps, BoundAssumption DEF AssignOwner, Typed, TypeOK
  <1>3. ASSUME NEW s \in Slots, FindInvite(s) PROVE Typed'
    <2>1. CASE End(s)
      BY <1>0, <1>3, <2>1, EndSteps DEF FindInvite, Typed, TypeOK
    <2>2. CASE \E i \in UNION {Pending(<<o, who[s]>>) : o \in Orgs} :
                 /\ copy' = [copy EXCEPT ![s] = [id |-> i, overdue |-> overdue[i]]]
                 /\ org' = [org EXCEPT ![s] = seat[i][1]]
                 /\ Goto(s, IF overdue[i] THEN "expire" ELSE "isMember")
                 /\ UNCHANGED who
      <3>1. PICK i \in 1..sent :
              /\ copy' = [copy EXCEPT ![s] = [id |-> i, overdue |-> overdue[i]]]
              /\ org' = [org EXCEPT ![s] = seat[i][1]]
              /\ Goto(s, IF overdue[i] THEN "expire" ELSE "isMember")
              /\ UNCHANGED who
        BY <2>2 DEF Pending
      <3>2. i \in Ids /\ i \in 0..MaxInvites /\ seat[i] \in Orgs \X People
        BY <1>0, BoundAssumption DEF TypeOK, Ids, Seats
      <3>3. overdue[i] \in BOOLEAN /\ seat[i][1] \in Orgs
        BY <1>0, <3>2 DEF TypeOK
      <3>4. pc' \in [Slots -> Labels]
        BY <1>0, <3>1 DEF Typed, Goto, Labels
      <3>5. [id |-> i, overdue |-> overdue[i]] \in [id : 0..MaxInvites, overdue : BOOLEAN]
        BY <3>2, <3>3
      <3> QED
        BY <1>0, <1>3, <3>1, <3>3, <3>4, <3>5 DEF FindInvite, Typed, TypeOK
    <2> QED
      BY <1>3, <2>1, <2>2 DEF FindInvite
  <1>4. ASSUME NEW s \in Slots, IsMember(s) PROVE Typed'
    <2>1. End(s) \/ Continue(s, "join")
      BY <1>4 DEF IsMember
    <2>2. "join" \in Labels
      BY DEF Labels
    <2> QED
      BY <1>0, <1>4, <2>1, <2>2, EndSteps, ContinueSteps DEF IsMember, Typed, TypeOK
  <1>5. ASSUME NEW s \in Slots, Join(s) PROVE Typed'
    <2>1. End(s) \/ Continue(s, "role")
      BY <1>5 DEF Join
    <2>2. "role" \in Labels /\ Seat(s) \in Seats
      BY <1>0 DEF Labels, Seat, Seats, TypeOK
    <2> QED
      BY <1>0, <1>5, <2>1, <2>2, EndSteps, ContinueSteps DEF Join, Typed, TypeOK
  <1>6. ASSUME NEW s \in Slots, AssignOrgRole(s) PROVE Typed'
    <2>1. End(s) \/ Continue(s, "consume")
      BY <1>6 DEF AssignOrgRole
    <2>2. "consume" \in Labels /\ Seat(s) \in Seats
      BY <1>0 DEF Labels, Seat, Seats, TypeOK
    <2> QED
      BY <1>0, <1>6, <2>1, <2>2, EndSteps, ContinueSteps DEF AssignOrgRole, Typed, TypeOK
  <1>7. ASSUME NEW s \in Slots,
               ConsumeInvite(s) \/ ExpireInvite(s) \/ ReplaceInvite(s) \/ ResendInvite(s)
        PROVE Typed'
    <2>1. copy[s].id \in 1..sent /\ copy[s].overdue \in BOOLEAN
      BY <1>0, <1>7
         DEF Inv, CopyInv, TypeOK, ConsumeInvite, ExpireInvite, ReplaceInvite, ResendInvite
    <2>2. PICK new \in {"pending", "accepted", "expired"}, o \in BOOLEAN : Save(s, new, o)
      BY <1>7, <2>1 DEF ConsumeInvite, ExpireInvite, ReplaceInvite, ResendInvite
    <2>3. /\ status' \in [Ids -> {"pending", "accepted", "expired"}]
          /\ overdue' \in [Ids -> BOOLEAN]
      BY <1>0, <2>1, <2>2, SaveSteps
    <2>4. "insert" \in Labels
      BY DEF Labels
    <2>5. End(s) \/ Continue(s, "insert")
      BY <1>7 DEF ConsumeInvite, ExpireInvite, ReplaceInvite, ResendInvite
    <2>6. UNCHANGED <<accounts, ownerRoles, orgRoles, unroled, members, sent, seat,
                      asked, everSeated>>
      BY <1>7 DEF ConsumeInvite, ExpireInvite, ReplaceInvite, ResendInvite
    <2> QED
      BY <1>0, <2>3, <2>4, <2>5, <2>6, EndSteps, ContinueSteps DEF Typed, TypeOK
  <1>8. ASSUME NEW s \in Slots, FindPending(s) PROVE Typed'
    <2>1. CASE Continue(s, "insert")
      <3>1. "insert" \in Labels
        BY DEF Labels
      <3> QED
        BY <1>0, <1>8, <2>1, <3>1, ContinueSteps DEF FindPending, Typed, TypeOK
    <2>2. CASE \E i \in Pending(Seat(s)) :
                 /\ copy' = [copy EXCEPT ![s] = [id |-> i, overdue |-> overdue[i]]]
                 /\ Goto(s, IF overdue[i] THEN "replace" ELSE "resend")
                 /\ UNCHANGED <<who, org>>
      <3>1. PICK i \in 1..sent :
              /\ copy' = [copy EXCEPT ![s] = [id |-> i, overdue |-> overdue[i]]]
              /\ Goto(s, IF overdue[i] THEN "replace" ELSE "resend")
              /\ UNCHANGED <<who, org>>
        BY <2>2 DEF Pending
      <3>2. i \in Ids /\ i \in 0..MaxInvites
        BY <1>0, BoundAssumption DEF TypeOK, Ids
      <3>3. [id |-> i, overdue |-> overdue[i]] \in [id : 0..MaxInvites, overdue : BOOLEAN]
        BY <1>0, <3>2 DEF TypeOK
      <3>4. pc' \in [Slots -> Labels]
        BY <1>0, <3>1 DEF Typed, Goto, Labels
      <3> QED
        BY <1>0, <1>8, <3>1, <3>3, <3>4 DEF FindPending, Typed, TypeOK
    <2> QED
      BY <1>8, <2>1, <2>2 DEF FindPending
  <1>9. ASSUME NEW s \in Slots, InsertInvite(s) PROVE Typed'
    <2>1. End(s)
      BY <1>9 DEF InsertInvite
    <2>2. CASE UNCHANGED invites
      BY <1>0, <1>9, <2>1, <2>2, EndSteps DEF InsertInvite, Typed, TypeOK
    <2>3. CASE /\ sent < MaxInvites
               /\ sent' = sent + 1
               /\ seat' = [seat EXCEPT ![sent'] = Seat(s)]
               /\ status' = [status EXCEPT ![sent'] = "pending"]
               /\ overdue' = [overdue EXCEPT ![sent'] = FALSE]
      <3>1. sent' \in 0..MaxInvites /\ Seat(s) \in Seats
        BY <1>0, <2>3, BoundAssumption DEF TypeOK, Seat, Seats
      <3> QED
        BY <1>0, <1>9, <2>1, <2>3, <3>1, EndSteps DEF InsertInvite, Typed, TypeOK
    <2> QED
      BY <1>9, <2>2, <2>3 DEF InsertInvite
  <1>10. ASSUME NEW s \in Slots, Die(s) PROVE Typed'
    <2>1. End(s) /\ Seat(s) \in Seats
      BY <1>0, <1>10 DEF Die, Seat, Seats, TypeOK
    <2>2. unroled' \subseteq Seats
      BY <1>0, <1>10, <2>1 DEF Die, Withheld, TypeOK
    <2> QED
      BY <1>0, <1>10, <2>1, <2>2, EndSteps DEF Die, Typed, TypeOK
  <1>11. ASSUME NEW s \in Slots, NEW p \in People, SignIn(s, p) PROVE Typed'
    BY <1>0, <1>11 DEF SignIn, Goto, Typed, TypeOK, Labels
  <1>12. ASSUME NEW s \in Slots, NEW x \in Seats, AddUser(s, x) PROVE Typed'
    <2>1. x[1] \in Orgs /\ x[2] \in People
      BY DEF Seats
    <2> QED
      BY <1>0, <1>12, <2>1 DEF AddUser, Goto, Typed, TypeOK, Labels
  <1>13. ASSUME NEW s \in Slots, NEW i \in Ids, CheckInvite(s, i) PROVE Typed'
    <2>1. [id |-> i, overdue |-> TRUE] \in [id : 0..MaxInvites, overdue : BOOLEAN]
      BY BoundAssumption DEF Ids
    <2> QED
      BY <1>0, <1>13, <2>1 DEF CheckInvite, Goto, Typed, TypeOK, Labels
  <1>14. ASSUME NEW x \in Seats, RemoveUser(x) PROVE Typed'
    BY <1>0, <1>14 DEF RemoveUser, Typed, TypeOK
  <1>15. ASSUME NEW i \in Ids, BecomeOverdue(i) PROVE Typed'
    BY <1>0, <1>15 DEF BecomeOverdue, Typed, TypeOK
  <1>16. CASE UNCHANGED vars
    BY <1>0, <1>16 DEF vars, Typed, TypeOK
  <1>17. ASSUME NEW s \in Slots, TakeOrgRole(s) PROVE Typed'
    BY <1>0, <1>17 DEF TakeOrgRole, Typed, TypeOK
  <1>18. ASSUME NEW s \in Slots, RefuseOrgRole(s) PROVE Typed'
    <2>1. End(s) /\ Seat(s) \in Seats
      BY <1>0, <1>18 DEF RefuseOrgRole, Seat, Seats, TypeOK
    <2> QED
      BY <1>0, <1>18, <2>1, EndSteps DEF RefuseOrgRole, Withheld, Typed, TypeOK
  <1>19. ASSUME NEW s \in Slots, NEW x \in Seats, ChangeRole(s, x) PROVE Typed'
    <2>1. x[1] \in Orgs /\ x[2] \in People
      BY DEF Seats
    <2> QED
      BY <1>0, <1>19, <2>1 DEF ChangeRole, Goto, Typed, TypeOK, Labels
  <1>20. ASSUME NEW p \in People, NEW listed \in SUBSET members,
                RemoveUserFromSystem(p, listed)
         PROVE Typed'
    BY <1>0, <1>20 DEF RemoveUserFromSystem, Typed, TypeOK
  <1> QED
    BY <1>1, <1>2, <1>3, <1>4, <1>5, <1>6, <1>7, <1>8, <1>9, <1>10, <1>11, <1>12,
       <1>13, <1>14, <1>15, <1>16, <1>17, <1>18, <1>19, <1>20, NextCases

\* The rest of the invariant goes by who moves.  A step of nobody changes no
\* request, ...
LEMMA StillSteps ==
  ASSUME Inv, UNCHANGED <<pc, who, org, copy, sent, seat, status, asked, everSeated>>,
         members' \subseteq members
  PROVE  CopyInv' /\ AskedInv' /\ SeatedInv'
  BY DEF Inv, CopyInv, AskedInv, SeatedInv, SeatsWereAskedFor, AcceptedWereSeated, Seat

\* ... and the end of one leaves the others as they are.
LEMMA EndKeeps ==
  ASSUME Inv, NEW s \in Slots, End(s), UNCHANGED <<sent, seat>>,
         UNCHANGED asked, UNCHANGED everSeated, UNCHANGED members,
         \A i \in 1..sent : status'[i] = "accepted" => seat[i] \in everSeated
  PROVE  CopyInv' /\ AskedInv' /\ SeatedInv'
  <1>1. /\ pc'[s] = "idle" /\ copy'[s].id = 0
        /\ \A t \in Slots \ {s} : /\ pc'[t] = pc[t] /\ copy'[t] = copy[t]
                                  /\ who'[t] = who[t] /\ org'[t] = org[t]
    BY EndSteps DEF Inv
  <1>2. CopyInv'
    BY <1>1 DEF Inv, CopyInv, Seat
  <1>3. AskedInv'
    BY <1>1 DEF Inv, AskedInv, SeatsWereAskedFor, Seat
  <1>4. SeatedInv'
    BY <1>1 DEF Inv, SeatedInv, AcceptedWereSeated, Seat
  <1> QED
    BY <1>2, <1>3, <1>4

\* The status of an invitation is what it was when a request ends otherwise.
LEMMA AcceptedBefore ==
  ASSUME Inv
  PROVE  \A i \in 1..sent : status[i] = "accepted" => seat[i] \in everSeated
  BY DEF Inv, SeatedInv, AcceptedWereSeated

\* A request that goes on with the same locals needs what its next label asks.
LEMMA ContinueKeeps ==
  ASSUME Inv, NEW s \in Slots, NEW l \in Labels, Continue(s, l),
         UNCHANGED <<sent, seat>>, UNCHANGED asked,
         everSeated \subseteq everSeated', members' \subseteq asked,
         \A i \in 1..sent : status'[i] = "accepted" => seat[i] \in everSeated',
         l \in {"idle", "countRoles", "countUsers", "owner", "findInvite", "findPending",
                "newRole"}
           => copy[s].id = 0,
         l \in {"consume", "expire", "replace", "resend"} => copy[s].id \in 1..sent,
         l \in {"isMember", "join", "role", "consume"} /\ copy[s].id # 0
           => copy[s].id \in 1..sent /\ seat[copy[s].id] = Seat(s),
         l \in {"isMember", "join", "role", "findPending", "replace", "resend", "insert"}
           => Seat(s) \in asked,
         l \in {"role", "consume"} => Seat(s) \in everSeated'
  PROVE  CopyInv' /\ AskedInv' /\ SeatedInv'
  <1>1. /\ pc'[s] = l
        /\ UNCHANGED <<who, org, copy>>
        /\ \A t \in Slots \ {s} : pc'[t] = pc[t]
    BY ContinueSteps DEF Inv
  <1>2. \A t \in Slots : Seat(t)' = Seat(t)
    BY <1>1 DEF Seat
  <1>3. CopyInv'
    BY <1>1, <1>2 DEF Inv, CopyInv
  <1>4. AskedInv'
    BY <1>1, <1>2 DEF Inv, AskedInv, SeatsWereAskedFor
  <1>5. SeatedInv'
    BY <1>1, <1>2 DEF Inv, SeatedInv, AcceptedWereSeated
  <1> QED
    BY <1>3, <1>4, <1>5

\* Every step keeps the invariant.
LEMMA InvNext == Inv /\ [Next]_vars => Inv'
  <1> SUFFICES ASSUME Inv, [Next]_vars PROVE CopyInv' /\ AskedInv' /\ SeatedInv'
    BY TypedNext DEF Inv
  <1>0. Typed /\ TypeOK
    BY DEF Inv, Typed
  <1> USE DEF roles, invites
  <1>a. \A i \in 1..sent : status[i] = "accepted" => seat[i] \in everSeated
    BY AcceptedBefore
  <1>1. ASSUME NEW s \in Slots, CountRoles(s) \/ CountUsers(s)
        PROVE CopyInv' /\ AskedInv' /\ SeatedInv'
    <2>1. PICK l \in {"countUsers", "owner", "findInvite"} : Continue(s, l)
      BY <1>1 DEF CountRoles, CountUsers
    <2>2. copy[s].id = 0
      BY <1>1 DEF Inv, CopyInv, CountRoles, CountUsers
    <2>3. UNCHANGED <<members, sent, seat, status, asked, everSeated>>
      BY <1>1 DEF CountRoles, CountUsers
    <2>4. members' \subseteq asked
      BY <2>3 DEF Inv, AskedInv, SeatsWereAskedFor
    <2>5. l \in Labels
      BY DEF Labels
    <2> QED
      BY <1>a, <2>1, <2>2, <2>3, <2>4, <2>5, ContinueKeeps
  <1>2. ASSUME NEW s \in Slots, AssignOwner(s) PROVE CopyInv' /\ AskedInv' /\ SeatedInv'
    BY <1>a, <1>2, EndKeeps DEF AssignOwner
  <1>3. ASSUME NEW s \in Slots, FindInvite(s) PROVE CopyInv' /\ AskedInv' /\ SeatedInv'
    <2>0. UNCHANGED <<members, sent, seat, status, asked, everSeated>> /\ pc[s] = "findInvite"
      BY <1>3 DEF FindInvite
    <2>1. CASE End(s)
      BY <1>a, <2>0, <2>1, EndKeeps
    <2>2. CASE \E i \in UNION {Pending(<<o, who[s]>>) : o \in Orgs} :
                 /\ copy' = [copy EXCEPT ![s] = [id |-> i, overdue |-> overdue[i]]]
                 /\ org' = [org EXCEPT ![s] = seat[i][1]]
                 /\ Goto(s, IF overdue[i] THEN "expire" ELSE "isMember")
                 /\ UNCHANGED who
      <3>0. PICK i \in UNION {Pending(<<o, who[s]>>) : o \in Orgs} :
              /\ copy' = [copy EXCEPT ![s] = [id |-> i, overdue |-> overdue[i]]]
              /\ org' = [org EXCEPT ![s] = seat[i][1]]
              /\ Goto(s, IF overdue[i] THEN "expire" ELSE "isMember")
              /\ UNCHANGED who
        BY <2>2
      <3>1. PICK o \in Orgs : i \in 1..sent /\ seat[i] = <<o, who[s]>>
        BY <3>0 DEF Pending
      <3>2. /\ pc'[s] \in {"expire", "isMember"}
            /\ copy'[s].id = i
            /\ org'[s] = o /\ who'[s] = who[s]
            /\ \A t \in Slots \ {s} : /\ pc'[t] = pc[t] /\ copy'[t] = copy[t]
                                      /\ who'[t] = who[t] /\ org'[t] = org[t]
        BY <1>0, <3>0, <3>1 DEF Typed, TypeOK, Goto
      <3>3. Seat(s)' = seat[i] /\ \A t \in Slots \ {s} : Seat(t)' = Seat(t)
        BY <3>1, <3>2 DEF Seat
      <3>4. CopyInv'
        BY <2>0, <3>1, <3>2, <3>3 DEF Inv, CopyInv
      <3>5. AskedInv'
        BY <2>0, <3>1, <3>2, <3>3 DEF Inv, AskedInv, SeatsWereAskedFor
      <3>6. SeatedInv'
        BY <2>0, <3>2, <3>3 DEF Inv, SeatedInv, AcceptedWereSeated
      <3> QED
        BY <3>4, <3>5, <3>6
    <2> QED
      BY <1>3, <2>1, <2>2 DEF FindInvite
  <1>4. ASSUME NEW s \in Slots, IsMember(s) PROVE CopyInv' /\ AskedInv' /\ SeatedInv'
    <2>0. UNCHANGED <<members, sent, seat, status, asked, everSeated>> /\ pc[s] = "isMember"
      BY <1>4 DEF IsMember
    <2>1. CASE End(s)
      BY <1>a, <2>0, <2>1, EndKeeps
    <2>2. CASE Continue(s, "join")
      <3>1. "join" \in Labels
        BY DEF Labels
      <3>2. members' \subseteq asked /\ Seat(s) \in asked
        BY <2>0 DEF Inv, AskedInv, SeatsWereAskedFor
      <3>3. copy[s].id # 0 => copy[s].id \in 1..sent /\ seat[copy[s].id] = Seat(s)
        BY <2>0 DEF Inv, CopyInv
      <3> QED
        BY <1>a, <2>0, <2>2, <3>1, <3>2, <3>3, ContinueKeeps
    <2> QED
      BY <1>4, <2>1, <2>2 DEF IsMember
  <1>5. ASSUME NEW s \in Slots, Join(s) PROVE CopyInv' /\ AskedInv' /\ SeatedInv'
    <2>0. UNCHANGED <<sent, seat, status, asked>> /\ pc[s] = "join"
      BY <1>5 DEF Join
    <2>1. CASE End(s) /\ UNCHANGED <<members, everSeated>>
      BY <1>a, <2>0, <2>1, EndKeeps
    <2>2. CASE /\ members' = members \union {Seat(s)}
               /\ everSeated' = everSeated \union {Seat(s)}
               /\ Continue(s, "role")
      <3>1. "role" \in Labels
        BY DEF Labels
      <3>2. members' \subseteq asked /\ Seat(s) \in asked
        BY <2>0, <2>2 DEF Inv, AskedInv, SeatsWereAskedFor
      <3>3. copy[s].id # 0 => copy[s].id \in 1..sent /\ seat[copy[s].id] = Seat(s)
        BY <2>0 DEF Inv, CopyInv
      <3>4. /\ everSeated \subseteq everSeated' /\ Seat(s) \in everSeated'
            /\ \A i \in 1..sent : status'[i] = "accepted" => seat[i] \in everSeated'
        BY <1>a, <2>0, <2>2
      <3> QED
        BY <2>0, <2>2, <3>1, <3>2, <3>3, <3>4, ContinueKeeps
    <2> QED
      BY <1>5, <2>1, <2>2 DEF Join
  <1>6. ASSUME NEW s \in Slots, AssignOrgRole(s) PROVE CopyInv' /\ AskedInv' /\ SeatedInv'
    <2>0. /\ UNCHANGED <<members, sent, seat, status, asked, everSeated>>
          /\ pc[s] \in {"role", "newRole"}
      BY <1>6 DEF AssignOrgRole
    <2>1. CASE End(s)
      BY <1>a, <2>0, <2>1, EndKeeps
    <2>2. CASE copy[s].id # 0 /\ Continue(s, "consume")
      <3>1. "consume" \in Labels
        BY DEF Labels
      <3>2. members' \subseteq asked
        BY <2>0 DEF Inv, AskedInv, SeatsWereAskedFor
      <3>0. pc[s] = "role"
        BY <2>0, <2>2 DEF Inv, CopyInv
      <3>3. copy[s].id \in 1..sent /\ seat[copy[s].id] = Seat(s)
        BY <2>2, <3>0 DEF Inv, CopyInv
      <3>4. Seat(s) \in everSeated
        BY <3>0 DEF Inv, SeatedInv
      <3> QED
        BY <1>a, <2>0, <2>2, <3>1, <3>2, <3>3, <3>4, ContinueKeeps
    <2> QED
      BY <1>6, <2>1, <2>2 DEF AssignOrgRole
  <1>7. ASSUME NEW s \in Slots,
               ConsumeInvite(s) \/ ExpireInvite(s) \/ ReplaceInvite(s) \/ ResendInvite(s)
        PROVE CopyInv' /\ AskedInv' /\ SeatedInv'
    <2>0. /\ UNCHANGED <<members, sent, seat, asked, everSeated>>
          /\ pc[s] \in {"consume", "expire", "replace", "resend"}
      BY <1>7 DEF ConsumeInvite, ExpireInvite, ReplaceInvite, ResendInvite
    <2>1. copy[s].id \in 1..sent /\ copy[s].overdue \in BOOLEAN
      BY <1>0, <2>0 DEF Inv, CopyInv, TypeOK
    <2>2. PICK new \in {"pending", "accepted", "expired"}, o \in BOOLEAN :
            Save(s, new, o) /\ (new = "accepted" => pc[s] = "consume")
      BY <1>7, <2>1 DEF ConsumeInvite, ExpireInvite, ReplaceInvite, ResendInvite
    <2>3. \A i \in Ids : status'[i] = status[i] \/ (i = copy[s].id /\ status'[i] = new)
      BY <1>0, <2>1, <2>2, SaveSteps
    <2>4. new = "accepted" => seat[copy[s].id] \in everSeated
      <3>1. sent \in Nat
        BY <1>0, BoundAssumption DEF TypeOK
      <3>2. copy[s].id # 0
        BY <2>1, <3>1
      <3> QED
        BY <2>2, <3>2 DEF Inv, CopyInv, SeatedInv
    <2>5. 1..sent \subseteq Ids
      BY <1>0, BoundAssumption DEF TypeOK, Ids
    <2>6. \A i \in 1..sent : status'[i] = "accepted" => seat[i] \in everSeated
      BY <1>a, <2>3, <2>4, <2>5
    <2>7. CASE End(s)
      BY <2>0, <2>6, <2>7, EndKeeps
    <2>8. CASE pc[s] = "replace" /\ Continue(s, "insert")
      <3>1. "insert" \in Labels
        BY DEF Labels
      <3>2. members' \subseteq asked /\ Seat(s) \in asked
        BY <2>0, <2>8 DEF Inv, AskedInv, SeatsWereAskedFor
      <3> QED
        BY <2>0, <2>6, <2>8, <3>1, <3>2, ContinueKeeps
    <2> QED
      BY <1>7, <2>7, <2>8 DEF ConsumeInvite, ExpireInvite, ReplaceInvite, ResendInvite
  <1>8. ASSUME NEW s \in Slots, FindPending(s) PROVE CopyInv' /\ AskedInv' /\ SeatedInv'
    <2>0. /\ UNCHANGED <<members, sent, seat, status, asked, everSeated>>
          /\ pc[s] = "findPending"
      BY <1>8 DEF FindPending
    <2>1. CASE Continue(s, "insert")
      <3>1. "insert" \in Labels
        BY DEF Labels
      <3>2. members' \subseteq asked /\ Seat(s) \in asked
        BY <2>0 DEF Inv, AskedInv, SeatsWereAskedFor
      <3> QED
        BY <1>a, <2>0, <2>1, <3>1, <3>2, ContinueKeeps
    <2>2. CASE \E i \in Pending(Seat(s)) :
                 /\ copy' = [copy EXCEPT ![s] = [id |-> i, overdue |-> overdue[i]]]
                 /\ Goto(s, IF overdue[i] THEN "replace" ELSE "resend")
                 /\ UNCHANGED <<who, org>>
      <3>1. PICK i \in 1..sent :
              /\ copy' = [copy EXCEPT ![s] = [id |-> i, overdue |-> overdue[i]]]
              /\ Goto(s, IF overdue[i] THEN "replace" ELSE "resend")
              /\ UNCHANGED <<who, org>>
        BY <2>2 DEF Pending
      <3>2. /\ pc'[s] \in {"replace", "resend"}
            /\ copy'[s].id = i
            /\ \A t \in Slots \ {s} : pc'[t] = pc[t] /\ copy'[t] = copy[t]
        BY <1>0, <3>1 DEF Typed, TypeOK, Goto
      <3>3. \A t \in Slots : Seat(t)' = Seat(t)
        BY <3>1 DEF Seat
      <3>4. CopyInv'
        BY <2>0, <3>2, <3>3 DEF Inv, CopyInv
      <3>5. AskedInv' /\ SeatedInv'
        BY <2>0, <3>2, <3>3
           DEF Inv, AskedInv, SeatsWereAskedFor, SeatedInv, AcceptedWereSeated
      <3> QED
        BY <3>4, <3>5
    <2> QED
      BY <1>8, <2>1, <2>2 DEF FindPending
  <1>9. ASSUME NEW s \in Slots, InsertInvite(s) PROVE CopyInv' /\ AskedInv' /\ SeatedInv'
    <2>0. End(s) /\ UNCHANGED <<members, asked, everSeated>> /\ pc[s] = "insert"
      BY <1>9 DEF InsertInvite
    <2>1. CASE UNCHANGED invites
      BY <1>a, <2>0, <2>1, EndKeeps
    <2>2. CASE /\ sent < MaxInvites
               /\ sent' = sent + 1
               /\ seat' = [seat EXCEPT ![sent'] = Seat(s)]
               /\ status' = [status EXCEPT ![sent'] = "pending"]
      <3>1. /\ pc'[s] = "idle" /\ copy'[s].id = 0
            /\ \A t \in Slots \ {s} : /\ pc'[t] = pc[t] /\ copy'[t] = copy[t]
                                      /\ who'[t] = who[t] /\ org'[t] = org[t]
        BY <1>0, <2>0, EndSteps
      <3>2. /\ sent \in Nat /\ sent' \in Ids
            /\ 1..sent' = (1..sent) \union {sent'}
            /\ 1..sent \subseteq Ids
            /\ \A i \in 1..sent : i # sent'
        BY <1>0, <2>2, BoundAssumption DEF TypeOK, Ids
      <3>3. /\ \A i \in 1..sent : seat'[i] = seat[i] /\ status'[i] = status[i]
            /\ seat'[sent'] = Seat(s) /\ status'[sent'] = "pending"
        BY <1>0, <2>2, <3>2 DEF TypeOK
      <3>4. \A t \in Slots \ {s} : Seat(t)' = Seat(t)
        BY <3>1 DEF Seat
      <3>5. CopyInv'
        BY <3>1, <3>2, <3>3, <3>4 DEF Inv, CopyInv
      <3>6. AskedInv'
        <4>1. Seat(s) \in asked
          BY <2>0 DEF Inv, AskedInv
        <4> QED
          BY <2>0, <3>1, <3>2, <3>3, <3>4, <4>1 DEF Inv, AskedInv, SeatsWereAskedFor
      <3>7. SeatedInv'
        BY <2>0, <3>1, <3>2, <3>3, <3>4 DEF Inv, SeatedInv, AcceptedWereSeated
      <3> QED
        BY <3>5, <3>6, <3>7
    <2> QED
      BY <1>9, <2>1, <2>2 DEF InsertInvite
  <1>10. ASSUME NEW s \in Slots, Die(s) PROVE CopyInv' /\ AskedInv' /\ SeatedInv'
    BY <1>a, <1>10, EndKeeps DEF Die
  <1>11. ASSUME NEW s \in Slots, NEW p \in People, SignIn(s, p)
         PROVE CopyInv' /\ AskedInv' /\ SeatedInv'
    <2>1. /\ pc'[s] = "countRoles" /\ copy[s].id = 0
          /\ UNCHANGED <<members, sent, seat, status, asked, everSeated, copy, org>>
          /\ \A t \in Slots \ {s} : pc'[t] = pc[t] /\ who'[t] = who[t]
      BY <1>0, <1>11 DEF SignIn, Goto, Typed, TypeOK, Inv, CopyInv
    <2>2. CopyInv'
      BY <2>1 DEF Inv, CopyInv, Seat
    <2>3. AskedInv' /\ SeatedInv'
      BY <2>1 DEF Inv, AskedInv, SeatsWereAskedFor, SeatedInv, AcceptedWereSeated, Seat
    <2> QED
      BY <2>2, <2>3
  <1>12. ASSUME NEW s \in Slots, NEW x \in Seats, AddUser(s, x)
         PROVE CopyInv' /\ AskedInv' /\ SeatedInv'
    <2>1. /\ pc'[s] \in {"isMember", "findPending"} /\ copy[s].id = 0
          /\ UNCHANGED <<members, sent, seat, status, everSeated, copy>>
          /\ asked' = asked \union {x}
          /\ \A t \in Slots \ {s} : pc'[t] = pc[t] /\ who'[t] = who[t] /\ org'[t] = org[t]
          /\ org'[s] = x[1] /\ who'[s] = x[2]
      BY <1>0, <1>12 DEF AddUser, Goto, Typed, TypeOK, Inv, CopyInv
    <2>2. Seat(s)' = x
      BY <2>1 DEF Seat, Seats
    <2>3. CopyInv'
      BY <2>1 DEF Inv, CopyInv, Seat
    <2>4. AskedInv'
      <3>1. \A t \in Slots \ {s} : Seat(t)' = Seat(t)
        BY <2>1 DEF Seat
      <3> QED
        BY <2>1, <2>2, <3>1 DEF Inv, AskedInv, SeatsWereAskedFor
    <2>5. SeatedInv'
      BY <2>1 DEF Inv, SeatedInv, AcceptedWereSeated, Seat
    <2> QED
      BY <2>3, <2>4, <2>5
  <1>13. ASSUME NEW s \in Slots, NEW i \in Ids, CheckInvite(s, i)
         PROVE CopyInv' /\ AskedInv' /\ SeatedInv'
    <2>1. /\ pc'[s] = "expire" /\ copy'[s].id = i /\ i \in 1..sent
          /\ UNCHANGED <<members, sent, seat, status, asked, everSeated, who, org>>
          /\ \A t \in Slots \ {s} : pc'[t] = pc[t] /\ copy'[t] = copy[t]
      BY <1>0, <1>13, BoundAssumption DEF CheckInvite, Goto, Typed, TypeOK, Ids
    <2>2. CopyInv'
      BY <2>1 DEF Inv, CopyInv, Seat
    <2>3. AskedInv' /\ SeatedInv'
      BY <2>1 DEF Inv, AskedInv, SeatsWereAskedFor, SeatedInv, AcceptedWereSeated, Seat
    <2> QED
      BY <2>2, <2>3
  <1>14. ASSUME NEW x \in Seats, RemoveUser(x) PROVE CopyInv' /\ AskedInv' /\ SeatedInv'
    BY <1>14, StillSteps DEF RemoveUser, local
  <1>15. ASSUME NEW i \in Ids, BecomeOverdue(i) PROVE CopyInv' /\ AskedInv' /\ SeatedInv'
    BY <1>15, StillSteps DEF BecomeOverdue, local
  <1>16. CASE UNCHANGED vars
    BY <1>16, StillSteps DEF vars, local
  <1>17. ASSUME NEW s \in Slots, TakeOrgRole(s) PROVE CopyInv' /\ AskedInv' /\ SeatedInv'
    BY <1>17, StillSteps DEF TakeOrgRole, local
  <1>18. ASSUME NEW s \in Slots, RefuseOrgRole(s) PROVE CopyInv' /\ AskedInv' /\ SeatedInv'
    BY <1>a, <1>18, EndKeeps DEF RefuseOrgRole
  <1>19. ASSUME NEW s \in Slots, NEW x \in Seats, ChangeRole(s, x)
         PROVE CopyInv' /\ AskedInv' /\ SeatedInv'
    <2>1. /\ pc'[s] = "newRole" /\ copy[s].id = 0
          /\ UNCHANGED <<members, sent, seat, status, asked, everSeated, copy>>
          /\ \A t \in Slots \ {s} : pc'[t] = pc[t] /\ who'[t] = who[t] /\ org'[t] = org[t]
      BY <1>0, <1>19 DEF ChangeRole, Goto, Typed, TypeOK, Inv, CopyInv
    <2>2. CopyInv'
      BY <2>1 DEF Inv, CopyInv, Seat
    <2>3. AskedInv' /\ SeatedInv'
      BY <2>1 DEF Inv, AskedInv, SeatsWereAskedFor, SeatedInv, AcceptedWereSeated, Seat
    <2> QED
      BY <2>2, <2>3
  <1>20. ASSUME NEW p \in People, NEW listed \in SUBSET members,
                RemoveUserFromSystem(p, listed)
         PROVE CopyInv' /\ AskedInv' /\ SeatedInv'
    BY <1>20, StillSteps DEF RemoveUserFromSystem, local
  <1> QED
    BY <1>1, <1>2, <1>3, <1>4, <1>5, <1>6, <1>7, <1>8, <1>9, <1>10, <1>11, <1>12,
       <1>13, <1>14, <1>15, <1>16, <1>17, <1>18, <1>19, <1>20, NextCases

\* Inv holds in every reachable state.
THEOREM Invariant == Spec => []Inv
  <1> QED
    BY InvInit, InvNext, PTL DEF Spec

\* The variables keep their types.
THEOREM TypeCorrect == Spec => []TypeOK
  <1>1. Inv => TypeOK
    BY DEF Inv, Typed
  <1> QED
    BY <1>1, Invariant, PTL

\* However invitations are resent, expired and replaced while a request holds
\* an old copy, nobody is seated unless an administrator asked for it.
THEOREM SeatsAsked == Spec => []SeatsWereAskedFor
  <1>1. Inv => SeatsWereAskedFor
    BY DEF Inv, AskedInv
  <1> QED
    BY <1>1, Invariant, PTL

\* No death and no old copy marks an invitation accepted whose person was
\* never seated.
THEOREM AcceptedSeated == Spec => []AcceptedWereSeated
  <1>1. Inv => AcceptedWereSeated
    BY DEF Inv, SeatedInv
  <1> QED
    BY <1>1, Invariant, PTL

-----------------------------------------------------------------------------
(***************************************************************************)
(* One first owner.                                                        *)
(***************************************************************************)

\* Those who are Owner and those about to be.
Claimants == ownerRoles \union {who[s] : s \in {t \in Slots : pc[t] = "owner"}}

\* Claimants have an account, and there is one at most: who claims the role
\* has counted at most one account, its own.
OwnerInv ==
  /\ IsFiniteSet(accounts)
  /\ \A s \in Slots : pc[s] \in {"countRoles", "countUsers", "owner"} => who[s] \in accounts
  /\ ownerRoles \subseteq accounts
  /\ \A p, q \in Claimants : p = q

\* Nobody has an account at the start.
LEMMA OwnerInit == Init => OwnerInv
  BY FS_EmptySet DEF Init, OwnerInv, Claimants

\* A step that makes no claimant, and forgets no account, keeps it.
LEMMA NoNewClaimant ==
  ASSUME OwnerInv,
         accounts' = accounts,
         ownerRoles' \subseteq Claimants,
         \A s \in Slots :
           /\ pc'[s] = "owner" => pc[s] = "owner" /\ who'[s] = who[s]
           /\ pc'[s] \in {"countRoles", "countUsers"} =>
                pc[s] \in {"countRoles", "countUsers", "owner"} /\ who'[s] = who[s]
  PROVE  OwnerInv'
  <1>1. Claimants' \subseteq Claimants
    BY DEF Claimants
  <1>2. Claimants \subseteq accounts
    BY DEF Claimants, OwnerInv
  <1> QED
    BY <1>1, <1>2 DEF OwnerInv

\* Every step keeps it.
LEMMA OwnerNext == Inv /\ OwnerInv /\ [Next]_vars => OwnerInv'
  <1> SUFFICES ASSUME Inv, OwnerInv, [Next]_vars PROVE OwnerInv'
    OBVIOUS
  <1>0. Typed /\ TypeOK
    BY DEF Inv, Typed
  <1> USE DEF roles, invites
  <1>b. ownerRoles \subseteq Claimants
    BY DEF Claimants
  <1>1. ASSUME NEW s \in Slots, CountRoles(s) PROVE OwnerInv'
    <2>1. /\ pc[s] = "countRoles" /\ accounts' = accounts /\ ownerRoles' = ownerRoles
          /\ \/ Continue(s, "countUsers")
             \/ Continue(s, "findInvite")
      BY <1>1 DEF CountRoles
    <2>2. "countUsers" \in Labels /\ "findInvite" \in Labels
      BY DEF Labels
    <2> QED
      BY <1>0, <1>b, <2>1, <2>2, ContinueSteps, NoNewClaimant
  <1>2. ASSUME NEW s \in Slots, CountUsers(s) PROVE OwnerInv'
    <2>1. /\ pc[s] = "countUsers" /\ accounts' = accounts /\ ownerRoles' = ownerRoles
          /\ \/ Cardinality(accounts) <= 1 /\ Continue(s, "owner")
             \/ Continue(s, "findInvite")
      BY <1>2 DEF CountUsers
    <2>2. "owner" \in Labels /\ "findInvite" \in Labels
      BY DEF Labels
    <2>3. CASE Continue(s, "findInvite")
      BY <1>0, <1>b, <2>1, <2>2, <2>3, ContinueSteps, NoNewClaimant
    <2>4. CASE Cardinality(accounts) <= 1 /\ Continue(s, "owner")
      <3>1. /\ pc'[s] = "owner" /\ UNCHANGED who
            /\ \A t \in Slots \ {s} : pc'[t] = pc[t]
        BY <1>0, <2>2, <2>4, ContinueSteps
      <3>2. who[s] \in accounts
        BY <2>1 DEF OwnerInv
      <3>3. \A p, q \in accounts : p = q
        <4>1. Cardinality(accounts) \in Nat
          BY FS_CardinalityType DEF OwnerInv
        <4>2. Cardinality(accounts) = 0 \/ Cardinality(accounts) = 1
          BY <2>4, <4>1
        <4> QED
          BY <4>2, FS_EmptySet, FS_Singleton DEF OwnerInv
      <3>4. Claimants' \subseteq accounts
        BY <2>1, <3>1, <3>2 DEF Claimants, OwnerInv
      <3> QED
        BY <2>1, <3>1, <3>2, <3>3, <3>4 DEF OwnerInv
    <2> QED
      BY <2>1, <2>3, <2>4
  <1>3. ASSUME NEW s \in Slots, AssignOwner(s) PROVE OwnerInv'
    <2>1. /\ pc[s] = "owner" /\ accounts' = accounts /\ End(s)
          /\ ownerRoles' \subseteq ownerRoles \union {who[s]}
      BY <1>3 DEF AssignOwner
    <2>2. ownerRoles' \subseteq Claimants
      BY <2>1 DEF Claimants
    <2> QED
      BY <1>0, <2>1, <2>2, EndSteps, NoNewClaimant
  <1>4. ASSUME NEW s \in Slots, FindInvite(s) PROVE OwnerInv'
    <2>1. /\ accounts' = accounts /\ ownerRoles' = ownerRoles
          /\ \/ End(s)
             \/ Goto(s, "expire") /\ UNCHANGED who
             \/ Goto(s, "isMember") /\ UNCHANGED who
      BY <1>4 DEF FindInvite
    <2>2. CASE End(s)
      BY <1>0, <1>b, <2>1, <2>2, EndSteps, NoNewClaimant
    <2>3. CASE (Goto(s, "expire") \/ Goto(s, "isMember")) /\ UNCHANGED who
      BY <1>0, <1>b, <2>1, <2>3, NoNewClaimant DEF Goto, Typed
    <2> QED
      BY <2>1, <2>2, <2>3
  <1>5. ASSUME NEW s \in Slots,
               IsMember(s) \/ Join(s) \/ AssignOrgRole(s) \/ RefuseOrgRole(s)
                 \/ ConsumeInvite(s) \/ ExpireInvite(s) \/ ReplaceInvite(s) \/ ResendInvite(s)
                 \/ InsertInvite(s) \/ Die(s)
        PROVE OwnerInv'
    <2>1. /\ accounts' = accounts /\ ownerRoles' = ownerRoles
          /\ \/ End(s)
             \/ \E l \in {"join", "role", "consume", "insert"} : Continue(s, l)
      BY <1>5 DEF IsMember, Join, AssignOrgRole, RefuseOrgRole, ConsumeInvite, ExpireInvite,
                  ReplaceInvite, ResendInvite, InsertInvite, Die
    <2>2. CASE End(s)
      BY <1>0, <1>b, <2>1, <2>2, EndSteps, NoNewClaimant
    <2>3. CASE \E l \in {"join", "role", "consume", "insert"} : Continue(s, l)
      <3>1. PICK l \in {"join", "role", "consume", "insert"} : Continue(s, l)
        BY <2>3
      <3>2. l \in Labels
        BY DEF Labels
      <3> QED
        BY <1>0, <1>b, <2>1, <3>1, <3>2, ContinueSteps, NoNewClaimant
    <2> QED
      BY <2>1, <2>2, <2>3
  <1>6. ASSUME NEW s \in Slots, FindPending(s) PROVE OwnerInv'
    <2>1. /\ accounts' = accounts /\ ownerRoles' = ownerRoles
          /\ \E l \in {"insert", "replace", "resend"} : Goto(s, l)
          /\ UNCHANGED who
      BY <1>6 DEF FindPending, Continue, local
    <2> QED
      BY <1>0, <1>b, <2>1, NoNewClaimant DEF Goto, Typed
  <1>7. ASSUME NEW s \in Slots, NEW p \in People, SignIn(s, p) PROVE OwnerInv'
    <2>1. /\ accounts' = accounts \union {p} /\ ownerRoles' = ownerRoles
          /\ pc'[s] = "countRoles" /\ who'[s] = p
          /\ \A t \in Slots \ {s} : pc'[t] = pc[t] /\ who'[t] = who[t]
      BY <1>0, <1>7 DEF SignIn, Goto, Typed, TypeOK
    <2>2. IsFiniteSet(accounts')
      BY <2>1, FS_AddElement DEF OwnerInv
    <2>3. Claimants' \subseteq Claimants
      BY <2>1 DEF Claimants
    <2> QED
      BY <2>1, <2>2, <2>3 DEF OwnerInv
  <1>8. ASSUME NEW s \in Slots, NEW x \in Seats, AddUser(s, x) PROVE OwnerInv'
    <2>1. /\ accounts' = accounts /\ ownerRoles' = ownerRoles
          /\ pc'[s] \in {"isMember", "findPending"}
          /\ \A t \in Slots \ {s} : pc'[t] = pc[t] /\ who'[t] = who[t]
      BY <1>0, <1>8 DEF AddUser, Goto, Typed, TypeOK
    <2> QED
      BY <1>b, <2>1, NoNewClaimant
  <1>9. ASSUME NEW s \in Slots, NEW i \in Ids, CheckInvite(s, i) PROVE OwnerInv'
    <2>1. /\ accounts' = accounts /\ ownerRoles' = ownerRoles
          /\ pc'[s] = "expire"
          /\ \A t \in Slots \ {s} : pc'[t] = pc[t] /\ who'[t] = who[t]
      BY <1>0, <1>9 DEF CheckInvite, Goto, Typed, TypeOK
    <2> QED
      BY <1>b, <2>1, NoNewClaimant
  <1>10. CASE UNCHANGED <<accounts, ownerRoles, pc, who>>
    BY <1>b, <1>10, NoNewClaimant
  <1>11. ASSUME NEW s \in Slots, NEW x \in Seats, ChangeRole(s, x) PROVE OwnerInv'
    <2>1. /\ accounts' = accounts /\ ownerRoles' = ownerRoles
          /\ pc'[s] = "newRole"
          /\ \A t \in Slots \ {s} : pc'[t] = pc[t] /\ who'[t] = who[t]
      BY <1>0, <1>11 DEF ChangeRole, Goto, Typed, TypeOK
    <2> QED
      BY <1>b, <2>1, NoNewClaimant
  <1> QED
    BY <1>1, <1>2, <1>3, <1>4, <1>5, <1>6, <1>7, <1>8, <1>9, <1>10, <1>11, NextCases
       DEF RemoveUser, TakeOrgRole, RemoveUserFromSystem, BecomeOverdue, vars, local

\* However sign-ups race, deaths and failed assignments included, the hook
\* makes one Owner at most.
THEOREM OneFirst == Spec => []OneFirstOwner
  <1>1. OwnerInv => OneFirstOwner
    <2> SUFFICES ASSUME OwnerInv PROVE OneFirstOwner
      OBVIOUS
    <2>1. \A p, q \in ownerRoles : p = q
      BY DEF OwnerInv, Claimants
    <2>2. ownerRoles = {} \/ \E p : ownerRoles = {p}
      BY <2>1
    <2>3. Cardinality(ownerRoles) = 0 \/ Cardinality(ownerRoles) = 1
      BY <2>2, FS_EmptySet, FS_Singleton
    <2> QED
      BY <2>3 DEF OneFirstOwner
  <1> QED
    BY <1>1, OwnerInit, OwnerNext, Invariant, PTL DEF Spec

-----------------------------------------------------------------------------
(***************************************************************************)
(* A role for every member.                                                *)
(***************************************************************************)

\* Nobody is a member at the start.
LEMMA MembersInit == Init => MembersHaveRoles
  BY DEF Init, MembersHaveRoles

\* The requests about to give a role.
Giving == {"role", "newRole"}

\* A step seats nobody but the seat it then gives a role to, and takes or
\* withholds a role only with a request or a mark left.
LEMMA MembersStep ==
  ASSUME MembersHaveRoles,
         \A x \in members' :
           /\ x \in members /\ x \in unroled => x \in orgRoles' \/ x \in unroled'
           /\ x \notin members \/ (x \in orgRoles /\ x \notin orgRoles') =>
                \/ x \in orgRoles' \/ x \in unroled'
                \/ \E s \in Slots : pc'[s] \in Giving /\ Seat(s)' = x
           /\ \A s \in Slots : pc[s] \in Giving /\ Seat(s) = x =>
                \/ x \in orgRoles' \/ x \in unroled'
                \/ pc'[s] \in Giving /\ Seat(s)' = x
  PROVE  MembersHaveRoles'
  BY DEF MembersHaveRoles, Giving

\* Every step keeps the promise.
LEMMA MembersNext == Inv /\ MembersHaveRoles /\ [Next]_vars => MembersHaveRoles'
  <1> SUFFICES ASSUME Inv, MembersHaveRoles, [Next]_vars PROVE MembersHaveRoles'
    OBVIOUS
  <1>0. Typed /\ TypeOK
    BY DEF Inv, Typed
  <1> USE DEF roles, invites
  <1>1. ASSUME NEW s \in Slots, Die(s) PROVE MembersHaveRoles'
    <2>1. /\ UNCHANGED <<members, orgRoles>> /\ End(s)
          /\ unroled' = IF pc[s] \in Giving THEN Withheld(s) ELSE unroled
      BY <1>1 DEF Die, Giving
    <2>2. \A t \in Slots \ {s} : pc'[t] = pc[t] /\ who'[t] = who[t] /\ org'[t] = org[t]
      BY <1>0, <2>1, EndSteps
    <2> QED
      BY <2>1, <2>2, MembersStep DEF Seat, Withheld
  <1>2. ASSUME NEW s \in Slots, AssignOrgRole(s) PROVE MembersHaveRoles'
    <2>1. /\ UNCHANGED <<members>>
          /\ orgRoles' = orgRoles \union {Seat(s)}
          /\ unroled' = unroled \ {Seat(s)}
          /\ End(s) \/ Continue(s, "consume")
      BY <1>2 DEF AssignOrgRole
    <2>2. \A t \in Slots \ {s} : pc'[t] = pc[t] /\ who'[t] = who[t] /\ org'[t] = org[t]
      BY <1>0, <2>1, EndSteps, ContinueSteps DEF Labels
    <2> QED
      BY <2>1, <2>2, MembersStep DEF Seat
  <1>3. ASSUME NEW s \in Slots, Join(s) PROVE MembersHaveRoles'
    <2>1. /\ UNCHANGED <<orgRoles, unroled>> /\ pc[s] = "join"
          /\ \/ End(s) /\ UNCHANGED members
             \/ members' = members \union {Seat(s)} /\ Continue(s, "role")
      BY <1>3 DEF Join
    <2>2. \A t \in Slots \ {s} : pc'[t] = pc[t] /\ who'[t] = who[t] /\ org'[t] = org[t]
      BY <1>0, <2>1, EndSteps, ContinueSteps DEF Labels
    <2>3. members' = members \/ (members' = members \union {Seat(s)}
                                   /\ pc'[s] = "role" /\ Seat(s)' = Seat(s))
      BY <1>0, <2>1, ContinueSteps DEF Labels, Seat
    <2> QED
      BY <2>1, <2>2, <2>3, MembersStep DEF Seat, Giving
  <1>4. ASSUME NEW s \in Slots,
               CountRoles(s) \/ CountUsers(s) \/ AssignOwner(s) \/ FindInvite(s)
                 \/ IsMember(s) \/ ConsumeInvite(s) \/ ExpireInvite(s) \/ FindPending(s)
                 \/ ReplaceInvite(s) \/ ResendInvite(s) \/ InsertInvite(s)
        PROVE MembersHaveRoles'
    <2>1. /\ UNCHANGED <<members, orgRoles, unroled>>
          /\ pc[s] \notin Giving
      BY <1>4 DEF CountRoles, CountUsers, AssignOwner, FindInvite, IsMember, ConsumeInvite,
                  ExpireInvite, FindPending, ReplaceInvite, ResendInvite, InsertInvite,
                  Giving
    <2>2. \A t \in Slots \ {s} : pc'[t] = pc[t] /\ who'[t] = who[t] /\ org'[t] = org[t]
      BY <1>0, <1>4
         DEF CountRoles, CountUsers, AssignOwner, FindInvite, IsMember, ConsumeInvite,
             ExpireInvite, FindPending, ReplaceInvite, ResendInvite, InsertInvite,
             End, Continue, Goto, local, Typed, TypeOK
    <2> QED
      BY <2>1, <2>2, MembersStep DEF Seat
  <1>5. ASSUME NEW s \in Slots, NEW p \in People, SignIn(s, p) PROVE MembersHaveRoles'
    <2>1. /\ UNCHANGED <<members, orgRoles, unroled>> /\ pc[s] \notin Giving
          /\ \A t \in Slots \ {s} : pc'[t] = pc[t] /\ who'[t] = who[t] /\ org'[t] = org[t]
      BY <1>0, <1>5 DEF SignIn, Goto, Typed, TypeOK, Giving
    <2> QED
      BY <2>1, MembersStep DEF Seat
  <1>6. ASSUME NEW s \in Slots, NEW x \in Seats, AddUser(s, x) \/ ChangeRole(s, x)
        PROVE MembersHaveRoles'
    <2>1. /\ UNCHANGED <<members, orgRoles, unroled>> /\ pc[s] \notin Giving
          /\ \A t \in Slots \ {s} : pc'[t] = pc[t] /\ who'[t] = who[t] /\ org'[t] = org[t]
      BY <1>0, <1>6 DEF AddUser, ChangeRole, Goto, Typed, TypeOK, Giving
    <2> QED
      BY <2>1, MembersStep DEF Seat
  <1>7. ASSUME NEW s \in Slots, NEW i \in Ids, CheckInvite(s, i) PROVE MembersHaveRoles'
    <2>1. /\ UNCHANGED <<members, orgRoles, unroled>> /\ pc[s] \notin Giving
          /\ \A t \in Slots \ {s} : pc'[t] = pc[t] /\ who'[t] = who[t] /\ org'[t] = org[t]
      BY <1>0, <1>7 DEF CheckInvite, Goto, Typed, TypeOK, Giving
    <2> QED
      BY <2>1, MembersStep DEF Seat
  <1>8. ASSUME NEW s \in Slots, TakeOrgRole(s) PROVE MembersHaveRoles'
    <2>1. /\ UNCHANGED <<members, unroled, pc, who, org>>
          /\ orgRoles' = orgRoles \ {Seat(s)} /\ pc[s] \in Giving
      BY <1>8 DEF TakeOrgRole, local, Giving
    <2> QED
      BY <2>1 DEF MembersHaveRoles, Seat, Giving
  <1>9. ASSUME NEW s \in Slots, RefuseOrgRole(s) PROVE MembersHaveRoles'
    <2>1. /\ UNCHANGED <<members, orgRoles>> /\ End(s)
          /\ unroled' = unroled \union ({Seat(s)} \intersect (members \ orgRoles))
      BY <1>9 DEF RefuseOrgRole, Withheld
    <2>2. \A t \in Slots \ {s} : pc'[t] = pc[t] /\ who'[t] = who[t] /\ org'[t] = org[t]
      BY <1>0, <2>1, EndSteps
    <2> QED
      BY <2>1, <2>2, MembersStep DEF Seat
  <1>10. ASSUME NEW x \in Seats, RemoveUser(x) PROVE MembersHaveRoles'
    <2>1. /\ UNCHANGED <<orgRoles, pc, who, org>>
          /\ members' = members \ {x} /\ unroled' = unroled \ {x}
      BY <1>10 DEF RemoveUser, local
    <2> QED
      BY <2>1 DEF MembersHaveRoles, Seat
  <1>11. ASSUME NEW p \in People, NEW listed \in SUBSET members,
                RemoveUserFromSystem(p, listed)
         PROVE MembersHaveRoles'
    <2>1. /\ UNCHANGED <<pc, who, org>>
          /\ members' = members \ listed
          /\ orgRoles' = {x \in orgRoles : x[2] # p}
          /\ unroled' = (unroled \ listed) \union {x \in members \ listed : x[2] = p}
      BY <1>11 DEF RemoveUserFromSystem, local
    <2> QED
      BY <2>1 DEF MembersHaveRoles, Seat
  <1>12. CASE UNCHANGED <<orgRoles, unroled, members, pc, who, org>>
    BY <1>12 DEF MembersHaveRoles, Seat
  <1> QED
    BY <1>1, <1>2, <1>3, <1>4, <1>5, <1>6, <1>7, <1>8, <1>9, <1>10, <1>11, <1>12,
       NextCases DEF BecomeOverdue, vars, local

\* Whoever has a seat has a role of the organisation or is being given one,
\* unless the request died or named none of the organisation or the person was
\* purged while joining, however often people are seated, removed and given
\* other roles at once.
THEOREM MembersRoles == Spec => []MembersHaveRoles
  <1> QED
    BY MembersInit, MembersNext, Invariant, PTL DEF Spec
=============================================================================
