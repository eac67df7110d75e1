------------------------------ MODULE ProjectKeys ------------------------------
(***************************************************************************)
(* The API key of a project: at most one row (project_id is unique), which *)
(* createOrRegenerate deletes and inserts in two calls, and the clients    *)
(* that present a key.  A key is a number, the random bytes never repeat.  *)
(***************************************************************************)
EXTENDS Naturals, FiniteSets

CONSTANTS
  Admins,   \* requests of administrators under way at a time
  Clients,  \* calls of clients under way at a time
  MaxKeys   \* bound: keys that are made

VARIABLES
  keyRow,    \* the project's key, 0 without a row
  lastUsed,  \* the key whose row has lastUsedAt set
  project,   \* is the project there?
  made,      \* keys generated so far
  admin,     \* what each request of an administrator holds
  client,    \* what each call holds
  shown,     \* history: keys that were returned
  undone,    \* history: was the project's key revoked on request, or a creation cut short?
  dead       \* history: keys whose row was deleted

keyVars == <<keyRow, lastUsed, project, made, admin, client, shown, undone, dead>>

Init ==
  /\ keyRow = 0 /\ lastUsed = 0
  /\ project = TRUE
  /\ made = 0
  /\ admin = [a \in Admins |-> [pc |-> "idle", key |-> 0]]
  /\ client = [c \in Clients |-> [pc |-> "idle", key |-> 0, revoked |-> FALSE]]
  /\ shown = {}
  /\ undone = FALSE
  /\ dead = {}

Admin(a, from, to) == admin[a].pc = from /\ admin' = [admin EXCEPT ![a] = to]
Client(c, from, to) == client[c].pc = from /\ client' = [client EXCEPT ![c] = to]

RevokeRow == keyRow' = 0 /\ lastUsed' = 0 /\ dead' = dead \union ({keyRow} \ {0})

CreateOrRegenerate(a) ==
  /\ project
  /\ Admin(a, "idle", [pc |-> "revoke", key |-> 0])
  /\ UNCHANGED <<keyRow, lastUsed, project, made, client, shown, undone, dead>>

RevokeFirst(a) ==
  /\ made < MaxKeys
  /\ made' = made + 1
  /\ Admin(a, "revoke", [pc |-> "save", key |-> made + 1])
  /\ RevokeRow
  /\ UNCHANGED <<project, client, shown, undone>>

\* Mutant: the old row is deleted after the new one is made, by its project.
SaveThenRevoke(a) ==
  /\ Admin(a, "save", [pc |-> "idle", key |-> 0])
  /\ shown' = shown \union {admin[a].key}
  /\ RevokeRow
  /\ UNCHANGED <<project, made, client, undone>>

\* A row that is there already refuses the insertion: another request came
\* first.  The project may be gone.
SaveKey(a) ==
  /\ Admin(a, "save", [pc |-> "idle", key |-> 0])
  /\ IF keyRow = 0 /\ project
     THEN keyRow' = admin[a].key /\ shown' = shown \union {admin[a].key}
     ELSE UNCHANGED <<keyRow, shown>>
  /\ UNCHANGED <<lastUsed, project, made, client, undone, dead>>

\* The process ends between the two calls.
CutShort(a) ==
  /\ Admin(a, "save", [pc |-> "idle", key |-> 0])
  /\ undone' = TRUE
  /\ UNCHANGED <<keyRow, lastUsed, project, made, client, shown, dead>>

Revoke ==
  /\ project
  /\ RevokeRow
  /\ undone' = TRUE
  /\ UNCHANGED <<project, made, admin, client, shown>>

\* The row goes with the project.
DeleteProject ==
  /\ project
  /\ project' = FALSE
  /\ RevokeRow
  /\ UNCHANGED <<made, admin, client, shown, undone>>

\* A client that was shown a key presents it.
Present(c, key) ==
  /\ key \in shown
  /\ Client(c, "idle", [pc |-> "find", key |-> key, revoked |-> key \in dead])
  /\ UNCHANGED <<keyRow, lastUsed, project, made, admin, shown, undone, dead>>

\* Mutant: any key that was once made is found.
FindByApiKeyEver(c) ==
  /\ Client(c, "find", [client[c] EXCEPT !.pc = "admitted"])
  /\ UNCHANGED <<keyRow, lastUsed, project, made, admin, shown, undone, dead>>

\* findByApiKey: by the hash of the key.
FindByApiKey(c) ==
  /\ Client(c, "find", [client[c] EXCEPT !.pc = IF keyRow = client[c].key THEN "admitted" ELSE "idle"])
  /\ UNCHANGED <<keyRow, lastUsed, project, made, admin, shown, undone, dead>>

\* updateLastUsedAt is not awaited, and the row may be gone or be another by now.
UpdateLastUsedAt(c) ==
  /\ Client(c, "admitted", [client[c] EXCEPT !.pc = "idle"])
  /\ lastUsed' = IF keyRow = client[c].key THEN keyRow ELSE lastUsed
  /\ UNCHANGED <<keyRow, project, made, admin, shown, undone, dead>>

Next ==
  \/ \E a \in Admins : CreateOrRegenerate(a) \/ RevokeFirst(a) \/ SaveKey(a) \/ CutShort(a)
  \/ Revoke \/ DeleteProject
  \/ \E c \in Clients :
       (\E key \in 1 .. MaxKeys : Present(c, key)) \/ FindByApiKey(c) \/ UpdateLastUsedAt(c)

Spec == Init /\ [][Next]_keyVars

-----------------------------------------------------------------------------
(***************************************************************************)
(* Properties.                                                             *)
(***************************************************************************)
TypeOK ==
  /\ keyRow \in 0 .. made /\ made \in 0 .. MaxKeys
  /\ lastUsed \in {0, keyRow}
  /\ shown \union dead \subseteq 1 .. made

\* However regenerations overlap, the project has a key when they are over:
\* the one whose insertion is refused leaves that of the other.
RegenerationLeavesAKey ==
  /\ project /\ ~undone /\ shown # {}
  /\ \A a \in Admins : admin[a].pc # "save"
  => keyRow \in shown

\* A call that presents a key which was regenerated or revoked before is not admitted.
RevokedIsRefused == \A c \in Clients : client[c].pc = "admitted" => ~client[c].revoked

\* A key for the project, and none but that one.
KeySafety == TypeOK /\ RegenerationLeavesAKey /\ RevokedIsRefused
=============================================================================
