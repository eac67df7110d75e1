---------------------------- MODULE Safeguards_proofs ----------------------------
(***************************************************************************)
(* What the services that guard an organisation's data promise, for any    *)
(* number of requests at a time and any amount of data.                    *)
(***************************************************************************)
EXTENDS Safeguards, Sequences, FiniteSetTheorems, SequenceTheorems, TLAPS

-----------------------------------------------------------------------------
(***************************************************************************)
(* The API key of a project.                                               *)
(***************************************************************************)

AdminType ==
  admin \in [Admins -> [pc : {"idle", "revoke", "save"}, key : 0 .. made]]

ClientType ==
  client \in [Clients -> [pc : {"idle", "find", "admitted"}, key : Nat, revoked : BOOLEAN]]

\* A key that waits to be saved is nobody else's: it was neither returned nor
\* deleted, and no other request holds it.
WaitingKeysAreNew ==
  \A a \in Admins : admin[a].pc = "save" =>
    /\ admin[a].key # 0
    /\ admin[a].key \notin shown \union dead \union {keyRow}
    /\ \A b \in Admins \ {a} : admin[b].pc = "save" => admin[b].key # admin[a].key

\* The key in the row was returned, and never deleted.
RowIsShown == keyRow # 0 => keyRow \in shown \ dead

\* A project without a row has a key on its way.
KeyOnItsWay ==
  project /\ ~undone /\ shown # {} /\ keyRow = 0 => \E a \in Admins : admin[a].pc = "save"

\* A call that presents a revoked key presents one whose row was deleted.
RevokedAreDead == \A c \in Clients : client[c].revoked => client[c].key \in dead

KeysInv ==
  /\ Keys!TypeOK
  /\ AdminType
  /\ ClientType
  /\ WaitingKeysAreNew
  /\ RowIsShown
  /\ KeyOnItsWay
  /\ RevokedAreDead
  /\ Keys!RevokedIsRefused

USE KeysAssumption DEF Keys!TypeOK, AdminType, ClientType

LEMMA KeysInitInv ==
  ASSUME Keys!Init
  PROVE  KeysInv
  BY DEF Keys!Init, KeysInv, WaitingKeysAreNew, RowIsShown, KeyOnItsWay, RevokedAreDead,
         Keys!RevokedIsRefused

\* The row is deleted: by a regeneration, on request or with the project.
LEMMA RevokeRowKeeps ==
  ASSUME KeysInv, Keys!RevokeRow, made' \in made .. MaxKeys, UNCHANGED <<client, shown>>
  PROVE  /\ Keys!TypeOK'
         /\ ClientType'
         /\ RowIsShown'
         /\ RevokedAreDead'
         /\ Keys!RevokedIsRefused'
  BY DEF KeysInv, Keys!RevokeRow, RowIsShown, RevokedAreDead, Keys!RevokedIsRefused

LEMMA CreateOrRegenerateInv ==
  ASSUME KeysInv, NEW a \in Admins, Keys!CreateOrRegenerate(a)
  PROVE  KeysInv'
  BY DEF KeysInv, Keys!CreateOrRegenerate, Keys!Admin, WaitingKeysAreNew, RowIsShown, KeyOnItsWay,
         RevokedAreDead, Keys!RevokedIsRefused

LEMMA RevokeFirstInv ==
  ASSUME KeysInv, NEW a \in Admins, Keys!RevokeFirst(a)
  PROVE  KeysInv'
  <1>1. /\ Keys!RevokeRow
        /\ UNCHANGED <<client, shown>>
        /\ made < MaxKeys
        /\ made' = made + 1
        /\ admin' = [admin EXCEPT ![a] = [pc |-> "save", key |-> made + 1]]
        /\ UNCHANGED <<project, undone>>
    BY DEF Keys!RevokeFirst, Keys!Admin
  <1>2. Keys!TypeOK' /\ ClientType' /\ RowIsShown' /\ RevokedAreDead' /\ Keys!RevokedIsRefused'
    <2>1. made' \in made .. MaxKeys
      BY <1>1 DEF KeysInv
    <2> QED BY <1>1, <2>1, RevokeRowKeeps
  <1>3. AdminType'
    BY <1>1 DEF KeysInv
  <1>4. WaitingKeysAreNew'
    <2>1. dead' \union shown' \union {keyRow'} \subseteq dead \union shown \union {keyRow} \union {0}
      BY <1>1 DEF Keys!RevokeRow
    <2>2. made + 1 \notin dead \union shown \union {keyRow} \union {0}
      BY DEF KeysInv
    <2>3. \A b \in Admins : admin[b].key # made + 1
      BY DEF KeysInv
    <2> QED BY <1>1, <2>1, <2>2, <2>3 DEF KeysInv, WaitingKeysAreNew
  <1>5. KeyOnItsWay'
    BY <1>1 DEF KeysInv, KeyOnItsWay
  <1> QED BY <1>2, <1>3, <1>4, <1>5 DEF KeysInv

LEMMA SaveKeyInv ==
  ASSUME KeysInv, NEW a \in Admins, Keys!SaveKey(a)
  PROVE  KeysInv'
  <1> DEFINE saved == keyRow = 0 /\ project
  <1>1. /\ admin[a].pc = "save"
        /\ admin' = [admin EXCEPT ![a] = [pc |-> "idle", key |-> 0]]
        /\ UNCHANGED <<lastUsed, project, made, client, undone, dead>>
        /\ keyRow' = IF saved THEN admin[a].key ELSE keyRow
        /\ shown' = IF saved THEN shown \union {admin[a].key} ELSE shown
    BY DEF Keys!SaveKey, Keys!Admin
  <1>2. admin[a].key \in 1 .. made /\ admin[a].key \notin shown \union dead \union {keyRow}
    BY <1>1 DEF KeysInv, WaitingKeysAreNew
  <1>3. Keys!TypeOK' /\ AdminType' /\ ClientType'
    BY <1>1, <1>2 DEF KeysInv
  <1>4. WaitingKeysAreNew'
    BY <1>1 DEF KeysInv, WaitingKeysAreNew
  <1>5. RowIsShown'
    BY <1>1, <1>2 DEF KeysInv, RowIsShown
  <1>6. KeyOnItsWay'
    <2>1. CASE saved
      BY <1>1, <1>2, <2>1 DEF KeyOnItsWay
    <2>2. CASE ~saved
      BY <1>1, <2>2 DEF KeyOnItsWay
    <2> QED BY <2>1, <2>2
  <1>7. RevokedAreDead' /\ Keys!RevokedIsRefused'
    BY <1>1 DEF KeysInv, RevokedAreDead, Keys!RevokedIsRefused
  <1> QED BY <1>3, <1>4, <1>5, <1>6, <1>7 DEF KeysInv

LEMMA CutShortInv ==
  ASSUME KeysInv, NEW a \in Admins, Keys!CutShort(a)
  PROVE  KeysInv'
  BY DEF KeysInv, Keys!CutShort, Keys!Admin, WaitingKeysAreNew, RowIsShown, KeyOnItsWay,
         RevokedAreDead, Keys!RevokedIsRefused

\* Without a regeneration, the row goes on request or with its project.
LEMMA RowGoneInv ==
  ASSUME KeysInv, Keys!Revoke \/ Keys!DeleteProject
  PROVE  KeysInv'
  <1>1. Keys!RevokeRow /\ UNCHANGED <<made, admin, client, shown>> /\ (undone' \/ ~project')
    BY DEF Keys!Revoke, Keys!DeleteProject
  <1>2. Keys!TypeOK' /\ ClientType' /\ RowIsShown' /\ RevokedAreDead' /\ Keys!RevokedIsRefused'
    <2>1. made' \in made .. MaxKeys
      BY <1>1 DEF KeysInv
    <2> QED BY <1>1, <2>1, RevokeRowKeeps
  <1>3. AdminType' /\ KeyOnItsWay'
    BY <1>1 DEF KeysInv, KeyOnItsWay
  <1>4. WaitingKeysAreNew'
    BY <1>1 DEF KeysInv, Keys!RevokeRow, WaitingKeysAreNew
  <1> QED BY <1>2, <1>3, <1>4 DEF KeysInv

\* What a client does changes neither the keys nor the requests about them.
LEMMA ClientInv ==
  ASSUME KeysInv, NEW c \in Clients,
         \/ \E key \in 1 .. MaxKeys : Keys!Present(c, key)
         \/ Keys!FindByApiKey(c)
         \/ Keys!UpdateLastUsedAt(c)
  PROVE  KeysInv'
  <1>1. CASE \E key \in 1 .. MaxKeys : Keys!Present(c, key)
    <2>1. PICK key \in 1 .. MaxKeys : Keys!Present(c, key)
      BY <1>1
    <2>2. key \in Nat
      BY <2>1 DEF KeysInv, Keys!Present
    <2>3. Keys!TypeOK' /\ AdminType' /\ WaitingKeysAreNew' /\ RowIsShown' /\ KeyOnItsWay'
      BY <2>1 DEF KeysInv, Keys!Present, WaitingKeysAreNew, RowIsShown, KeyOnItsWay
    <2>4. client' = [client EXCEPT ![c] = [pc |-> "find", key |-> key, revoked |-> key \in dead]]
          /\ dead' = dead
      BY <2>1 DEF Keys!Present, Keys!Client
    <2>5. ClientType'
      BY <2>2, <2>4, SMT DEF KeysInv
    <2>6. RevokedAreDead' /\ Keys!RevokedIsRefused'
      BY <2>4 DEF KeysInv, RevokedAreDead, Keys!RevokedIsRefused
    <2> QED BY <2>3, <2>5, <2>6 DEF KeysInv
  <1>2. CASE Keys!FindByApiKey(c)
    <2>1. UNCHANGED <<keyRow, lastUsed, project, made, admin, shown, undone, dead>>
      BY <1>2 DEF Keys!FindByApiKey
    <2>2. Keys!TypeOK' /\ AdminType' /\ WaitingKeysAreNew' /\ RowIsShown' /\ KeyOnItsWay'
      BY <2>1 DEF KeysInv, WaitingKeysAreNew, RowIsShown, KeyOnItsWay
    <2>3. ClientType' /\ RevokedAreDead'
      BY <1>2 DEF KeysInv, Keys!FindByApiKey, Keys!Client, RevokedAreDead
    <2>4. keyRow \notin dead
      BY DEF KeysInv, RowIsShown
    <2>5. Keys!RevokedIsRefused'
      BY <1>2, <2>4 DEF KeysInv, Keys!FindByApiKey, Keys!Client, RevokedAreDead,
                        Keys!RevokedIsRefused
    <2> QED BY <2>2, <2>3, <2>5 DEF KeysInv
  <1>3. CASE Keys!UpdateLastUsedAt(c)
    BY <1>3 DEF KeysInv, Keys!UpdateLastUsedAt, Keys!Client, WaitingKeysAreNew, RowIsShown,
                KeyOnItsWay,
                RevokedAreDead, Keys!RevokedIsRefused
  <1> QED BY <1>1, <1>2, <1>3

LEMMA KeysNextInv ==
  ASSUME KeysInv, [Keys!Next]_(Keys!keyVars)
  PROVE  KeysInv'
  <1>1. CASE UNCHANGED Keys!keyVars
    BY <1>1 DEF Keys!keyVars, KeysInv, WaitingKeysAreNew, RowIsShown, KeyOnItsWay, RevokedAreDead,
                Keys!RevokedIsRefused
  <1>2. CASE Keys!Next
    BY <1>2, CreateOrRegenerateInv, RevokeFirstInv, SaveKeyInv, CutShortInv, RowGoneInv, ClientInv
       DEF Keys!Next
  <1> QED BY <1>1, <1>2

LEMMA KeysInvSafe ==
  ASSUME KeysInv
  PROVE  Keys!KeySafety
  <1>1. Keys!RegenerationLeavesAKey
    BY DEF KeysInv, Keys!RegenerationLeavesAKey, RowIsShown, KeyOnItsWay
  <1> QED BY <1>1 DEF KeysInv, Keys!KeySafety

(***************************************************************************)
(* However many regenerations, revocations and calls overlap: once no      *)
(* insertion is under way, a project whose key was regenerated and not     *)
(* revoked has one of the keys that were returned                          *)
(* (ProjectApiKeyService.createOrRegenerate, whose second of two           *)
(* insertions the unique index refuses), and a call presenting a key that  *)
(* was revoked before the call is not admitted (findByApiKey).             *)
(***************************************************************************)
THEOREM KeysAreSafe == Keys!Spec => []KeySafety
  <1>1. Keys!Init => KeysInv
    BY KeysInitInv
  <1>2. KeysInv /\ [Keys!Next]_(Keys!keyVars) => KeysInv'
    BY KeysNextInv
  <1>3. KeysInv => KeySafety
    BY KeysInvSafe DEF KeySafety
  <1> QED BY <1>1, <1>2, <1>3, PTL DEF Keys!Spec

HIDE KeysAssumption DEF Keys!TypeOK, AdminType, ClientType

-----------------------------------------------------------------------------
(***************************************************************************)
(* The visibility rules: edits that do not overlap add up, and an answer   *)
(* heeds the rules although they are read before the reader's roles.       *)
(***************************************************************************)
EditOperations == {"none", "create", "add", "remove", "delete"}

EditorType ==
  /\ editor \in [Editors -> [op : EditOperations, copy : SUBSET Rules!Rule, roles : SUBSET Rules!Roles]]
  /\ \A e \in Editors : editor[e].op = "none" => editor[e] = Rules!NoRequest

RulesType ==
  /\ rules \subseteq Rules!Rule /\ \A r, s \in rules : r = s
  /\ rulesMade \in 0..MaxRules /\ edits \in 0..MaxEdits /\ ruleOverlap \in BOOLEAN

ReaderType ==
  /\ inProject \in BOOLEAN
  /\ rolesCache \subseteq SUBSET Rules!Roles /\ \A a, b \in rolesCache : a = b
  /\ projectCache \subseteq SUBSET Rules!Roles /\ \A a, b \in projectCache : a = b
  /\ context \in [at : {"idle", "rules", "roles", "project", "fillProject", "fill", "done"},
                  rules : SUBSET Rules!Rule, roles : SUBSET Rules!Roles, redacted : BOOLEAN,
                  hidden : BOOLEAN, visible : BOOLEAN, moved : SUBSET {"rules", "roles"},
                  stale : BOOLEAN]

RuleTypes == RulesType /\ EditorType /\ ReaderType

\* While no two edits overlapped: one is under way at most, it knows the rule
\* as it is, and the rule is what the edits amount to.
EditsApart ==
  ~ruleOverlap =>
    /\ {r.hidden : r \in rules} = meant
    /\ \A e \in Editors : editor[e].op # "none" =>
         /\ \A f \in Editors \ {e} : editor[f].op = "none"
         /\ IF editor[e].op = "create" THEN rules = {} ELSE editor[e].copy = rules

\* What these rules and roles say is what the answer lived through.
Right(rows, roles) ==
  /\ context.hidden => Rules!Hides(rows, roles)
  /\ context.visible => ~Rules!Hides(rows, roles)

RightNow == Rules!Asked => Right(rules, Rules!Held)

\* Between the two reads: unless both changed, one of them has not.
RightRules ==
  context.at \in {"roles", "project", "fillProject", "fill"} =>
    /\ "rules" \notin context.moved => context.rules = rules
    /\ context.moved # {"rules", "roles"} => Right(context.rules, Rules!Held)

\* After the second read.
RightRoles ==
  context.at \in {"fillProject", "fill"} /\ ~Rules!Excused =>
    Right(context.rules, context.roles \cup {OrgRole})

Unredacted == Rules!Asked => ~context.redacted

Heeds == Unredacted /\ RightNow /\ RightRules /\ RightRoles /\ Rules!AnswersHeedRules

RulesInv == RuleTypes /\ EditsApart /\ Heeds

-----------------------------------------------------------------------------
USE RulesAssumption

LEMMA RulesInitInv ==
  ASSUME Rules!Init
  PROVE  RulesInv
  <1>1. rules \subseteq Rules!Rule /\ (\A r, s \in rules : r = s) /\ rulesMade \in 0..1
    <2>0. rulesMade = Cardinality(rules)
      BY DEF Rules!Init, Rules!Cardinality, Cardinality
    <2>1. CASE rules = {}
      BY <2>0, <2>1, FS_EmptySet
    <2>2. CASE rules \in {{[id |-> 1, hidden |-> {role}]} : role \in Rules!Roles}
      <3>1. PICK role \in Rules!Roles : rules = {[id |-> 1, hidden |-> {role}]}
        BY <2>2
      <3>2. Cardinality(rules) = 1
        BY <3>1, FS_Singleton
      <3>3. [id |-> 1, hidden |-> {role}] \in Rules!Rule
        BY DEF Rules!Rule
      <3> QED BY <2>0, <3>1, <3>2, <3>3
    <2> QED BY <2>1, <2>2 DEF Rules!Init
  <1>2. RulesType
    <2>1. edits \in 0..MaxEdits
      BY DEF Rules!Init
    <2>2. rulesMade \in 0..MaxRules
      BY <1>1
    <2>3. ruleOverlap \in BOOLEAN
      BY DEF Rules!Init
    <2> QED BY <1>1, <2>1, <2>2, <2>3 DEF RulesType
  <1>3. EditorType
    BY DEF Rules!Init, EditorType, Rules!NoRequest, EditOperations
  <1>4. ReaderType
    BY DEF Rules!Init, ReaderType, Rules!Unasked
  <1>5. EditsApart
    BY DEF Rules!Init, EditsApart, Rules!NoRequest
  <1>6. Heeds
    BY DEF Rules!Init, Heeds, Unredacted, RightNow, RightRules, RightRoles, Rules!AnswersHeedRules,
           Rules!Asked, Rules!Unasked
  <1> QED BY <1>2, <1>3, <1>4, <1>5, <1>6 DEF RulesInv, RuleTypes

-----------------------------------------------------------------------------
(***************************************************************************)
(* Steps during an answer.                                                 *)
(***************************************************************************)

\* The rules change under it.
LEMMA RulesBecomeHeeds ==
  ASSUME RulesInv, NEW new \in SUBSET Rules!Rule, Rules!RulesBecome(new), UNCHANGED Rules!readerVars
  PROVE  ReaderType' /\ Heeds'
  <1> USE DEF RulesInv, RuleTypes
  <1>1. context' = Rules!Witnessed("rules", new, Rules!Held) /\ rules' = new /\ Rules!Held' = Rules!Held
    BY DEF Rules!RulesBecome, Rules!readerVars, Rules!Held, Rules!InProject
  <1>2. CASE ~Rules!Asked
    <2>1. context' = context
      BY <1>1, <1>2 DEF Rules!Witnessed
    <2> QED BY <1>1, <1>2, <2>1
        DEF Heeds, Unredacted, RightNow, RightRules, RightRoles, Rules!AnswersHeedRules, Rules!Asked, Rules!Excused,
            ReaderType, Rules!readerVars
  <1>3. CASE Rules!Asked
    <2>1. context' = [context EXCEPT
                        !.moved = @ \cup {"rules"},
                        !.hidden = @ /\ Rules!Hides(new, Rules!Held),
                        !.visible = @ /\ ~Rules!Hides(new, Rules!Held)]
      BY <1>1, <1>3 DEF Rules!Witnessed, Rules!Hides
    <2>2. /\ context'.at = context.at /\ context'.rules = context.rules
          /\ context'.roles = context.roles /\ context'.stale = context.stale
          /\ context'.moved = context.moved \cup {"rules"}
          /\ context'.hidden = (context.hidden /\ Rules!Hides(new, Rules!Held))
          /\ context'.visible = (context.visible /\ ~Rules!Hides(new, Rules!Held))
      BY <2>1 DEF ReaderType
    <2>3. ReaderType'
      BY <2>1 DEF ReaderType, Rules!readerVars
    <2>4. RightNow'
      BY <1>1, <2>2 DEF RightNow, Right, Rules!Hides
    <2>5. RightRules'
      <3>1. context'.moved # {"rules", "roles"} => context.moved # {"rules", "roles"}
        BY <2>2
      <3> QED BY <1>1, <2>2, <3>1 DEF Heeds, RightRules, Right, Rules!Hides
    <2>6. RightRoles'
      <3>1. ~Rules!Excused' => ~Rules!Excused
        BY <2>2 DEF Rules!Excused
      <3> QED BY <2>2, <3>1 DEF Heeds, RightRoles, Right, Rules!Hides
    <2>7. Rules!AnswersHeedRules'
      BY <1>3, <2>2 DEF Rules!AnswersHeedRules, Rules!Asked
    <2>8. Unredacted'
      BY <1>3, <2>1 DEF Heeds, Unredacted, Rules!Asked, ReaderType
    <2> QED BY <2>3, <2>4, <2>5, <2>6, <2>7, <2>8 DEF Heeds
  <1> QED BY <1>2, <1>3

\* The reader gets or loses the role of the project under it.
LEMMA ChangeRoleHeeds ==
  ASSUME RulesInv, Rules!ChangeRole
  PROVE  ReaderType' /\ Heeds'
  <1> USE DEF RulesInv, RuleTypes
  <1>1. context' = Rules!Witnessed("roles", rules, Rules!Held') /\ rules' = rules
    BY DEF Rules!ChangeRole, Rules!Held, Rules!InProject, Rules!ruleVars, ReaderType
  <1>2. UNCHANGED <<rolesCache, projectCache>> /\ inProject' \in BOOLEAN
    BY DEF Rules!ChangeRole, ReaderType
  <1>3. CASE ~Rules!Asked
    <2>1. context' = context
      BY <1>1, <1>3 DEF Rules!Witnessed
    <2> QED BY <1>1, <1>2, <1>3, <2>1
        DEF Heeds, Unredacted, RightNow, RightRules, RightRoles, Rules!AnswersHeedRules, Rules!Asked, Rules!Excused,
            ReaderType, Right
  <1>4. CASE Rules!Asked
    <2>1. context' = [context EXCEPT
                        !.moved = @ \cup {"roles"},
                        !.hidden = @ /\ Rules!Hides(rules, Rules!Held'),
                        !.visible = @ /\ ~Rules!Hides(rules, Rules!Held')]
      BY <1>1, <1>4 DEF Rules!Witnessed, Rules!Hides
    <2>2. /\ context'.at = context.at /\ context'.rules = context.rules
          /\ context'.roles = context.roles /\ context'.stale = context.stale
          /\ context'.moved = context.moved \cup {"roles"}
          /\ context'.hidden = (context.hidden /\ Rules!Hides(rules, Rules!Held'))
          /\ context'.visible = (context.visible /\ ~Rules!Hides(rules, Rules!Held'))
      BY <2>1 DEF ReaderType
    <2>3. ReaderType'
      BY <1>2, <2>1 DEF ReaderType
    <2>4. RightNow'
      BY <1>1, <2>2 DEF RightNow, Right, Rules!Hides
    <2>5. RightRules'
      <3>1. context'.moved # {"rules", "roles"} => "rules" \notin context.moved
        BY <2>2 DEF ReaderType
      <3> QED BY <1>1, <2>2, <3>1 DEF Heeds, RightRules, Right, Rules!Hides
    <2>6. RightRoles'
      <3>1. ~Rules!Excused' => ~Rules!Excused
        BY <2>2 DEF Rules!Excused
      <3> QED BY <2>2, <3>1 DEF Heeds, RightRoles, Right, Rules!Hides
    <2>7. Rules!AnswersHeedRules'
      BY <1>4, <2>2 DEF Rules!AnswersHeedRules, Rules!Asked
    <2>8. Unredacted'
      BY <1>4, <2>1 DEF Heeds, Unredacted, Rules!Asked, ReaderType
    <2> QED BY <2>3, <2>4, <2>5, <2>6, <2>7, <2>8 DEF Heeds
  <1> QED BY <1>3, <1>4

\* What is read and cached for it, and nothing else.
LEMMA ReaderStepHeeds ==
  ASSUME RulesInv,
         \/ Rules!AskAnswer \/ Rules!ReadRules \/ Rules!ReadCachedRoles \/ Rules!ReadProjectRole
         \/ Rules!FillProjectCache \/ Rules!FillCache \/ Rules!Answer
  PROVE  ReaderType' /\ Heeds'
  <1> USE DEF RulesInv, RuleTypes
  <1>0. rules' = rules /\ inProject' = inProject
    BY DEF Rules!AskAnswer, Rules!ReadRules, Rules!ReadCachedRoles, Rules!ReadProjectRole,
           Rules!FillProjectCache, Rules!FillCache,
           Rules!Answer, Rules!ruleVars, Rules!readerVars
  <1>1. rules' = rules /\ Rules!Held' = Rules!Held /\ Rules!InProject' = Rules!InProject
    BY <1>0 DEF Rules!Held, Rules!InProject
  <1>2. CASE Rules!AskAnswer
    <2>1. context' = [Rules!Unasked EXCEPT !.at = "rules", !.hidden = Rules!Hides(rules, Rules!Held),
                                     !.visible = ~Rules!Hides(rules, Rules!Held)]
      BY <1>2 DEF Rules!AskAnswer, Rules!Hides
    <2>2. ReaderType'
      <3>1. UNCHANGED Rules!readerVars
        BY <1>2 DEF Rules!AskAnswer
      <3>2. Rules!Hides(rules, Rules!Held) \in BOOLEAN
        BY DEF Rules!Hides
      <3>3. context' = [at |-> "rules", rules |-> {}, roles |-> {}, redacted |-> FALSE,
                        hidden |-> Rules!Hides(rules, Rules!Held), visible |-> ~Rules!Hides(rules, Rules!Held),
                        moved |-> {}, stale |-> FALSE]
        BY <2>1 DEF Rules!Unasked
      <3> QED BY <3>1, <3>2, <3>3 DEF Rules!readerVars, ReaderType
    <2> QED BY <1>1, <2>1, <2>2
        DEF Heeds, Unredacted, RightNow, RightRules, RightRoles, Rules!AnswersHeedRules, Rules!Unasked, Right
  <1>3. CASE Rules!ReadRules
    <2>1. ReaderType'
      BY <1>3 DEF Rules!ReadRules, Rules!readerVars, ReaderType, RulesType
    <2>2. /\ context.at = "rules"
          /\ context'.at = IF rules = {} THEN "done" ELSE "roles"
          /\ context'.rules = rules
          /\ context'.redacted = context.redacted
          /\ context'.hidden = context.hidden /\ context'.visible = context.visible
      BY <1>3 DEF Rules!ReadRules, ReaderType
    <2>3. Right(rules, Rules!Held)
      BY <2>2 DEF Heeds, Unredacted, RightNow, Rules!Asked
    <2>4. RightNow' /\ RightRules' /\ RightRoles'
      BY <1>1, <2>2, <2>3 DEF RightNow, RightRules, RightRoles, Right
    <2>5. Unredacted' /\ Rules!AnswersHeedRules'
      <3>1. ~context.redacted
        BY <2>2 DEF Heeds, Unredacted, Rules!Asked
      <3>2. rules = {} => ~Rules!Hides(rules, Rules!Held)
        BY DEF Rules!Hides
      <3> QED BY <2>2, <2>3, <3>1, <3>2 DEF Unredacted, Rules!AnswersHeedRules, Right
    <2> QED BY <2>1, <2>4, <2>5 DEF Heeds
  <1>4. CASE Rules!ReadCachedRoles /\ rolesCache = {}
    <2>1. context' = [context EXCEPT !.at = "project"] /\ context.at = "roles"
      BY <1>4 DEF Rules!ReadCachedRoles
    <2>2. ReaderType'
      BY <1>4, <2>1 DEF Rules!ReadCachedRoles, Rules!readerVars, ReaderType
    <2> QED BY <1>1, <2>1, <2>2 DEF Heeds, Unredacted, RightNow, RightRules, RightRoles,
              Rules!AnswersHeedRules, Rules!Asked, Right, ReaderType
  <1>5. CASE Rules!ReadCachedRoles /\ rolesCache # {}
    <2>1. PICK roles \in rolesCache :
            context' = [context EXCEPT !.at = "done", !.stale = roles # Rules!Held,
                                       !.redacted = Rules!Hides(context.rules, roles)]
      BY <1>5 DEF Rules!ReadCachedRoles
    <2>2. ReaderType'
      BY <1>5, <2>1 DEF Rules!ReadCachedRoles, Rules!readerVars, ReaderType, Rules!Hides
    <2>3. context.at = "roles"
      BY <1>5 DEF Rules!ReadCachedRoles
    <2>4. /\ context'.at = "done" /\ context'.stale = (roles # Rules!Held)
          /\ context'.redacted = Rules!Hides(context.rules, roles)
          /\ context'.hidden = context.hidden /\ context'.visible = context.visible
          /\ context'.moved = context.moved
      BY <2>1 DEF ReaderType
    <2>5. Rules!AnswersHeedRules'
      BY <2>3, <2>4 DEF Heeds, RightRules, Right, Rules!AnswersHeedRules, Rules!Excused
    <2> QED BY <2>2, <2>4, <2>5 DEF Heeds, Unredacted, RightNow, RightRules, RightRoles, Rules!Asked
  <1>6. CASE Rules!ReadProjectRole
    <2>1. PICK at \in {"fillProject", "fill"}, roles \in SUBSET Rules!Roles, stale \in BOOLEAN :
            /\ context' = [context EXCEPT !.at = at, !.roles = roles, !.stale = stale]
            /\ stale \/ roles = Rules!InProject
      <3>1. CASE projectCache = {}
        <4>1. context' = [context EXCEPT !.at = "fillProject", !.roles = Rules!InProject]
          BY <1>6, <3>1 DEF Rules!ReadProjectRole
        <4>2. context' = [context EXCEPT !.at = "fillProject", !.roles = Rules!InProject, !.stale = context.stale]
          BY <4>1 DEF ReaderType
        <4>3. Rules!InProject \in SUBSET Rules!Roles /\ context.stale \in BOOLEAN
          BY DEF Rules!InProject, Rules!Roles, ReaderType
        <4> QED BY <4>2, <4>3
      <3>2. CASE projectCache # {}
        <4>1. PICK roles \in projectCache :
                context' = [context EXCEPT !.at = "fill", !.roles = roles, !.stale = roles # Rules!InProject]
          BY <1>6, <3>2 DEF Rules!ReadProjectRole
        <4>2. roles \in SUBSET Rules!Roles
          BY DEF ReaderType
        <4> QED BY <4>1, <4>2
      <3> QED BY <3>1, <3>2
    <2>2. context.at = "project" /\ UNCHANGED Rules!readerVars
      BY <1>6 DEF Rules!ReadProjectRole
    <2>3. ReaderType'
      BY <2>1, <2>2 DEF ReaderType, Rules!readerVars
    <2>4. /\ context'.at = at /\ context'.roles = roles /\ context'.stale = stale
          /\ context'.rules = context.rules /\ context'.redacted = context.redacted
          /\ context'.hidden = context.hidden /\ context'.visible = context.visible
          /\ context'.moved = context.moved
      BY <2>1 DEF ReaderType
    <2>5. Unredacted' /\ RightNow' /\ RightRules' /\ Rules!AnswersHeedRules'
      BY <1>1, <2>2, <2>4 DEF Heeds, Unredacted, RightNow, RightRules, Rules!AnswersHeedRules,
         Rules!Asked, Right
    <2>6. RightRoles'
      <3>1. roles = Rules!InProject => roles \cup {OrgRole} = Rules!Held
        BY DEF Rules!Held
      <3> QED BY <2>1, <2>2, <2>4, <3>1 DEF Heeds, RightRules, RightRoles, Right, Rules!Excused
    <2> QED BY <2>3, <2>5, <2>6 DEF Heeds
  <1>7. CASE Rules!FillProjectCache
    <2>1. context.at = "fillProject" /\ context' = [context EXCEPT !.at = "fill"]
      BY <1>7 DEF Rules!FillProjectCache
    <2>2. ReaderType'
      BY <1>7, <2>1 DEF Rules!FillProjectCache, ReaderType
    <2> QED BY <1>1, <2>1, <2>2 DEF Heeds, Unredacted, RightNow, RightRules, RightRoles,
              Rules!AnswersHeedRules, Rules!Asked, Right, ReaderType, Rules!Excused
  <1>8. CASE Rules!FillCache
    <2> DEFINE roles == context.roles \cup {OrgRole}
    <2>1. /\ context.at = "fill" /\ UNCHANGED <<inProject, projectCache>>
          /\ rolesCache' = {roles}
          /\ context' = [context EXCEPT !.at = "done", !.redacted = Rules!Hides(context.rules, roles)]
      BY <1>8 DEF Rules!FillCache
    <2>2. roles \in SUBSET Rules!Roles /\ Rules!Hides(context.rules, roles) \in BOOLEAN
      BY DEF ReaderType, Rules!Roles, Rules!Hides
    <2>3. ReaderType'
      BY <2>1, <2>2 DEF ReaderType
    <2>4. /\ context'.at = "done" /\ context'.stale = context.stale
          /\ context'.redacted = Rules!Hides(context.rules, roles)
          /\ context'.hidden = context.hidden /\ context'.visible = context.visible
          /\ context'.moved = context.moved
      BY <2>1 DEF ReaderType
    <2>5. Rules!AnswersHeedRules'
      BY <2>1, <2>4 DEF Heeds, RightRoles, Right, Rules!AnswersHeedRules, Rules!Excused
    <2> QED BY <2>3, <2>4, <2>5 DEF Heeds, Unredacted, RightNow, RightRules, RightRoles, Rules!Asked
  <1>9. CASE Rules!Answer
    <2>1. ReaderType'
      BY <1>9 DEF Rules!Answer, Rules!readerVars, ReaderType, Rules!Unasked
    <2>2. context'.at = "idle"
      BY <1>9 DEF Rules!Answer, Rules!Unasked
    <2> QED BY <2>1, <2>2 DEF Heeds, Unredacted, RightNow, RightRules, RightRoles,
              Rules!AnswersHeedRules, Rules!Asked
  <1> QED BY <1>2, <1>3, <1>4, <1>5, <1>6, <1>7, <1>8, <1>9

\* Entries expire.
LEMMA ExpireHeeds ==
  ASSUME RulesInv, Rules!Expire
  PROVE  ReaderType' /\ Heeds'
  <1>1. UNCHANGED <<rules, inProject, context>> /\ rolesCache' \subseteq rolesCache
        /\ projectCache' \subseteq projectCache
    BY DEF Rules!Expire, Rules!ruleVars
  <1>2. Rules!Held' = Rules!Held
    BY <1>1 DEF Rules!Held, Rules!InProject
  <1> QED BY <1>1, <1>2 DEF RulesInv, RuleTypes, ReaderType, Heeds, Unredacted, RightNow,
                            RightRules, RightRoles,
            Rules!AnswersHeedRules, Rules!Asked, Right, Rules!Excused

-----------------------------------------------------------------------------
(***************************************************************************)
(* Edits.                                                                  *)
(***************************************************************************)

\* A request comes in that knows the rule as it is.
LEMMA AskInv ==
  ASSUME RulesInv, NEW e \in Editors,
         NEW op \in EditOperations \ {"none"}, NEW copy \in SUBSET Rules!Rule, NEW roles \in SUBSET Rules!Roles,
         Rules!Ask(e, [op |-> op, copy |-> copy, roles |-> roles]),
         IF op = "create" THEN rules = {} ELSE copy = rules
  PROVE  RulesInv'
  <1> USE DEF RulesInv, RuleTypes
  <1>1. /\ editor' = [editor EXCEPT ![e] = [op |-> op, copy |-> copy, roles |-> roles]]
        /\ edits < MaxEdits /\ edits' = edits + 1
        /\ UNCHANGED <<rules, rulesMade, meant, Rules!readerVars, context>>
    BY DEF Rules!Ask
  <1>2. editor'[e].op = op /\ editor'[e].copy = copy /\ \A f \in Editors \ {e} : editor'[f] = editor[f]
    BY <1>1 DEF EditorType
  <1>3. EditorType'
    <2>1. editor' \in [Editors -> [op : EditOperations, copy : SUBSET Rules!Rule, roles : SUBSET Rules!Roles]]
      BY <1>1 DEF EditorType
    <2> QED BY <1>2, <2>1 DEF EditorType
  <1>4. ruleOverlap' = (ruleOverlap \/ \E f \in Editors \ {e} : editor[f] # Rules!NoRequest)
    BY DEF Rules!Ask
  <1>5. ruleOverlap' \in BOOLEAN
    BY <1>4 DEF RulesType
  <1>6. RulesType'
    <2>1. rules' \subseteq Rules!Rule /\ (\A r, s \in rules' : r = s) /\ rulesMade' \in 0..MaxRules
      BY <1>1 DEF RulesType
    <2>2. edits' \in 0..MaxEdits
      BY <1>1 DEF RulesType
    <2> QED BY <1>5, <2>1, <2>2 DEF RulesType
  <1>7. EditsApart'
    <2> SUFFICES ASSUME ~ruleOverlap'
                 PROVE  EditsApart'
      BY DEF EditsApart
    <2>1. ~ruleOverlap /\ \A f \in Editors \ {e} : editor[f].op = "none"
      <3>1. ~(ruleOverlap \/ \E f \in Editors \ {e} : editor[f] # Rules!NoRequest)
        BY <1>4, Zenon
      <3>2. Rules!NoRequest.op = "none"
        BY DEF Rules!NoRequest
      <3> QED BY <3>1, <3>2
    <2>2. {r.hidden : r \in rules'} = meant'
      <3>1. {r.hidden : r \in rules} = meant
        BY <2>1 DEF EditsApart
      <3>2. rules' = rules /\ meant' = meant
        BY <1>1
      <3> QED BY <3>1, <3>2
    <2>3. \A f \in Editors : editor'[f].op # "none" => f = e
      BY <1>2, <2>1
    <2>4. IF editor'[e].op = "create" THEN rules' = {} ELSE editor'[e].copy = rules'
      BY <1>1, <1>2
    <2> QED BY <2>2, <2>3, <2>4 DEF EditsApart
  <1>8. ReaderType' /\ Heeds'
    BY <1>1 DEF Rules!readerVars, ReaderType, Heeds, Unredacted, RightNow, RightRules, RightRoles,
                Rules!AnswersHeedRules, Rules!Asked, Right, Rules!Excused, Rules!Held,
                Rules!InProject
  <1> QED BY <1>3, <1>6, <1>7, <1>8

\* A request ends with what it writes.  If edits did not overlap, no other is
\* under way then.
LEMMA FinishInv ==
  ASSUME RulesInv, NEW e \in Editors, editor[e].op # "none", Rules!Finish(e),
         rules' \subseteq Rules!Rule, \A r, s \in rules' : r = s, rulesMade' \in 0..MaxRules,
         ~ruleOverlap => {r.hidden : r \in rules'} = meant',
         UNCHANGED Rules!readerVars,
         UNCHANGED <<rules, context>> \/ Rules!RulesBecome(rules')
  PROVE  RulesInv'
  <1> USE DEF RulesInv, RuleTypes
  <1>1. editor' = [editor EXCEPT ![e] = Rules!NoRequest] /\ UNCHANGED <<edits, ruleOverlap>>
    BY DEF Rules!Finish
  <1>2. EditorType'
    <2>1. Rules!NoRequest \in [op : EditOperations, copy : SUBSET Rules!Rule, roles : SUBSET Rules!Roles]
      BY DEF Rules!NoRequest, EditOperations
    <2> QED BY <1>1, <2>1 DEF EditorType
  <1>3. RulesType'
    BY <1>1 DEF RulesType
  <1>4. EditsApart'
    <2>1. editor'[e].op = "none" /\ \A f \in Editors \ {e} : editor'[f] = editor[f]
      BY <1>1 DEF EditorType, Rules!NoRequest
    <2>2. ~ruleOverlap => \A f \in Editors \ {e} : editor[f].op = "none"
      BY DEF EditsApart
    <2>3. ~ruleOverlap' => \A f \in Editors : editor'[f].op = "none"
      BY <1>1, <2>1, <2>2
    <2> QED BY <1>1, <2>3 DEF EditsApart
  <1>5. ReaderType' /\ Heeds'
    <2>1. CASE UNCHANGED <<rules, context>>
      BY <2>1 DEF Rules!readerVars, ReaderType, Heeds, Unredacted, RightNow, RightRules, RightRoles,
                  Rules!AnswersHeedRules, Rules!Asked, Right, Rules!Excused, Rules!Held,
                  Rules!InProject
    <2>2. CASE Rules!RulesBecome(rules')
      <3>1. rules' \in SUBSET Rules!Rule
        OBVIOUS
      <3> QED BY <2>2, <3>1, RulesBecomeHeeds
    <2> QED BY <2>1, <2>2
  <1> QED BY <1>2, <1>3, <1>4, <1>5

LEMMA SaveCreateInv ==
  ASSUME RulesInv, NEW e \in Editors, Rules!SaveCreate(e)
  PROVE  RulesInv'
  <1> USE DEF RulesInv, RuleTypes
  <1>1. editor[e].op # "none" /\ Rules!Finish(e) /\ UNCHANGED Rules!readerVars
    BY DEF Rules!SaveCreate
  <1>2. CASE rules = {}
    <2> DEFINE ruleMade == [id |-> rulesMade + 1, hidden |-> editor[e].roles]
    <2>1. /\ Rules!RulesBecome({ruleMade}) /\ rules' = {ruleMade}
          /\ rulesMade' = rulesMade + 1 /\ rulesMade < MaxRules
          /\ meant' = {editor[e].roles}
      BY <1>2 DEF Rules!SaveCreate, Rules!RulesBecome
    <2>2. editor[e].roles \in SUBSET Rules!Roles
      BY DEF EditorType
    <2>3. ruleMade \in Rules!Rule /\ rulesMade' \in 0..MaxRules
      BY <2>1, <2>2 DEF Rules!Rule, RulesType
    <2>4. {r.hidden : r \in rules'} = meant'
      BY <2>1
    <2>5. \A r, s \in rules' : r = s
      BY <2>1
    <2> QED BY <1>1, <2>1, <2>3, <2>4, <2>5, FinishInv
  <1>3. CASE rules # {}
    <2>1. UNCHANGED <<rules, rulesMade, meant, context>>
      BY <1>3 DEF Rules!SaveCreate
    <2>2. ~ruleOverlap => {r.hidden : r \in rules'} = meant'
      <3>1. ~ruleOverlap => {r.hidden : r \in rules} = meant
        BY DEF EditsApart
      <3> QED BY <2>1, <3>1
    <2>3. rules' \subseteq Rules!Rule /\ (\A r, s \in rules' : r = s) /\ rulesMade' \in 0..MaxRules
      BY <2>1 DEF RulesType
    <2> QED BY <1>1, <2>1, <2>2, <2>3, FinishInv
  <1> QED BY <1>2, <1>3

LEMMA SaveRolesInv ==
  ASSUME RulesInv, NEW e \in Editors, Rules!SaveRoles(e)
  PROVE  RulesInv'
  <1> USE DEF RulesInv, RuleTypes
  <1>1. /\ editor[e].op \in {"add", "remove"} /\ Rules!Finish(e)
        /\ UNCHANGED <<rulesMade, Rules!readerVars>>
    BY DEF Rules!SaveRoles
  <1> DEFINE op == editor[e].op
             edited(hidden) == Rules!Edited(op, hidden, editor[e].roles)
  <1>2. PICK copy \in editor[e].copy :
          LET row == [copy EXCEPT !.hidden = edited(@)] IN
          IF \A r \in rules : r.id = copy.id
          THEN /\ Rules!RulesBecome({row})
               /\ meant' = {IF op = "add" THEN m \cup editor[e].roles
                            ELSE m \ editor[e].roles : m \in meant}
          ELSE UNCHANGED <<rules, meant, context>>
    BY DEF Rules!SaveRoles
  <1>3. rulesMade' \in 0..MaxRules
    BY <1>1 DEF RulesType
  <1>4. CASE \A r \in rules : r.id = copy.id
    <2> DEFINE row == [copy EXCEPT !.hidden = edited(@)]
    <2>1. /\ Rules!RulesBecome({row}) /\ rules' = {row}
          /\ meant' = {edited(m) : m \in meant}
      BY <1>2, <1>4 DEF Rules!RulesBecome, Rules!Edited
    <2>2. copy \in Rules!Rule /\ editor[e].roles \in SUBSET Rules!Roles
      BY DEF EditorType
    <2>3. edited(copy.hidden) \in SUBSET Rules!Roles
      BY <2>2 DEF Rules!Rule, Rules!Edited
    <2>4. row \in Rules!Rule /\ row.hidden = edited(copy.hidden)
      BY <2>2, <2>3 DEF Rules!Rule
    <2>5. ~ruleOverlap => {r.hidden : r \in rules'} = meant'
      <3> SUFFICES ASSUME ~ruleOverlap
                   PROVE  {r.hidden : r \in rules'} = meant'
        OBVIOUS
      <3>1. editor[e].copy = rules /\ {r.hidden : r \in rules} = meant
        BY <1>1 DEF EditsApart
      <3>2. rules = {copy}
        BY <3>1 DEF RulesType
      <3>3. meant = {copy.hidden}
        BY <3>1, <3>2
      <3>4. {r.hidden : r \in rules'} = {row.hidden}
        BY <2>1
      <3>5. meant' = {edited(copy.hidden)}
        BY <2>1, <3>3
      <3> QED BY <2>4, <3>4, <3>5
    <2>6. rules' \subseteq Rules!Rule /\ \A r, s \in rules' : r = s
      BY <2>1, <2>4
    <2> QED BY <1>1, <1>3, <2>1, <2>5, <2>6, FinishInv
  <1>5. CASE ~\A r \in rules : r.id = copy.id
    <2>1. UNCHANGED <<rules, meant, context>>
      BY <1>2, <1>5
    <2>2. ~ruleOverlap => {r.hidden : r \in rules'} = meant'
      <3>1. ~ruleOverlap => {r.hidden : r \in rules} = meant
        BY DEF EditsApart
      <3> QED BY <2>1, <3>1
    <2>3. rules' \subseteq Rules!Rule /\ \A r, s \in rules' : r = s
      BY <2>1 DEF RulesType
    <2> QED BY <1>1, <1>3, <2>1, <2>2, <2>3, FinishInv
  <1> QED BY <1>4, <1>5

LEMMA DeleteRuleInv ==
  ASSUME RulesInv, NEW e \in Editors, Rules!DeleteRule(e)
  PROVE  RulesInv'
  <1> USE DEF RulesInv, RuleTypes
  <1> DEFINE left == rules \ {r \in rules : \E copy \in editor[e].copy : r.id = copy.id}
  <1>1. /\ editor[e].op = "delete" /\ Rules!Finish(e) /\ UNCHANGED <<rulesMade, Rules!readerVars>>
        /\ Rules!RulesBecome(left) /\ rules' = left /\ meant' = {}
    BY DEF Rules!DeleteRule, Rules!RulesBecome
  <1>2. ~ruleOverlap => rules' = {}
    BY <1>1 DEF EditsApart
  <1>3. ~ruleOverlap => {r.hidden : r \in rules'} = meant'
    BY <1>1, <1>2
  <1>4. rules' \subseteq Rules!Rule /\ (\A r, s \in rules' : r = s) /\ rulesMade' \in 0..MaxRules
    BY <1>1 DEF RulesType
  <1> QED BY <1>1, <1>3, <1>4, FinishInv

-----------------------------------------------------------------------------
LEMMA EditorNextInv ==
  ASSUME RulesInv, NEW e \in Editors,
         \/ \E hidden \in SUBSET Rules!Roles : Rules!BeginCreate(e, hidden)
         \/ \E op \in {"add", "remove"}, r \in Rules!Roles : Rules!Load(e, op, {r})
         \/ Rules!Load(e, "delete", {})
         \/ Rules!SaveCreate(e) \/ Rules!SaveRoles(e) \/ Rules!DeleteRule(e)
  PROVE  RulesInv'
  <1>1. ASSUME NEW hidden \in SUBSET Rules!Roles, Rules!BeginCreate(e, hidden)
        PROVE  RulesInv'
    <2>1. rules = {} /\ Rules!Ask(e, [op |-> "create", copy |-> {}, roles |-> hidden])
      BY <1>1 DEF Rules!BeginCreate
    <2>2. "create" \in EditOperations \ {"none"} /\ {} \in SUBSET Rules!Rule
      BY DEF EditOperations
    <2> QED BY <2>1, <2>2, AskInv
  <1>2. ASSUME NEW op \in {"add", "remove", "delete"}, NEW roles \in SUBSET Rules!Roles,
               Rules!Load(e, op, roles)
        PROVE  RulesInv'
    <2>1. Rules!Ask(e, [op |-> op, copy |-> rules, roles |-> roles])
      BY <1>2 DEF Rules!Load
    <2>2. op \in EditOperations \ {"none"} /\ op # "create" /\ rules \in SUBSET Rules!Rule
      BY DEF EditOperations, RulesInv, RuleTypes, RulesType
    <2> QED BY <2>1, <2>2, AskInv
  <1>3. CASE \E op \in {"add", "remove"}, r \in Rules!Roles : Rules!Load(e, op, {r})
    <2>1. PICK op \in {"add", "remove"}, r \in Rules!Roles : Rules!Load(e, op, {r})
      BY <1>3
    <2>2. op \in {"add", "remove", "delete"} /\ {r} \in SUBSET Rules!Roles
      OBVIOUS
    <2> QED BY <1>2, <2>1, <2>2
  <1>4. CASE Rules!Load(e, "delete", {})
    <2>1. "delete" \in {"add", "remove", "delete"} /\ {} \in SUBSET Rules!Roles
      OBVIOUS
    <2> QED BY <1>2, <1>4, <2>1
  <1> QED BY <1>1, <1>3, <1>4, SaveCreateInv, SaveRolesInv, DeleteRuleInv

\* A step of the reader leaves the edits alone.
LEMMA ReaderNextInv ==
  ASSUME RulesInv, ReaderType' /\ Heeds', UNCHANGED Rules!ruleVars
  PROVE  RulesInv'
  <1> USE DEF RulesInv, RuleTypes
  <1>1. RulesType'
    BY DEF Rules!ruleVars, RulesType
  <1>2. EditorType'
    BY DEF Rules!ruleVars, EditorType
  <1>3. EditsApart'
    BY DEF Rules!ruleVars, EditsApart
  <1> QED BY <1>1, <1>2, <1>3

LEMMA RulesNextInv ==
  ASSUME RulesInv, [Rules!Next]_<<Rules!ruleVars, Rules!viewVars>>
  PROVE  RulesInv'
  <1>1. CASE \/ Rules!AskAnswer \/ Rules!ReadRules \/ Rules!ReadCachedRoles \/ Rules!ReadProjectRole
             \/ Rules!FillProjectCache \/ Rules!FillCache \/ Rules!Answer
    <2>1. UNCHANGED Rules!ruleVars
      BY <1>1 DEF Rules!AskAnswer, Rules!ReadRules, Rules!ReadCachedRoles, Rules!ReadProjectRole,
                  Rules!FillProjectCache,
                  Rules!FillCache, Rules!Answer
    <2> QED BY <1>1, <2>1, ReaderStepHeeds, ReaderNextInv
  <1>2. CASE Rules!ChangeRole
    BY <1>2, ChangeRoleHeeds, ReaderNextInv DEF Rules!ChangeRole
  <1>3. CASE Rules!Expire
    BY <1>3, ExpireHeeds, ReaderNextInv DEF Rules!Expire
  <1>4. CASE UNCHANGED <<Rules!ruleVars, Rules!viewVars>>
    <2>1. ReaderType' /\ Heeds'
      BY <1>4 DEF RulesInv, RuleTypes, Rules!ruleVars, Rules!viewVars, ReaderType, Heeds,
                  Unredacted, RightNow, RightRules,
                  RightRoles, Rules!AnswersHeedRules, Rules!Asked, Right, Rules!Excused,
                  Rules!Held, Rules!InProject
    <2> QED BY <1>4, <2>1, ReaderNextInv
  <1> QED BY <1>1, <1>2, <1>3, <1>4, EditorNextInv DEF Rules!Next

LEMMA RulesInvImplies ==
  ASSUME RulesInv
  PROVE  Rules!RuleSafety
  <1> USE DEF RulesInv, RuleTypes
  <1>1. ASSUME NEW S, \A a, b \in S : a = b
        PROVE  Cardinality(S) <= 1
    <2>1. CASE S = {}
      BY <2>1, FS_EmptySet
    <2>2. CASE S # {}
      <3>1. PICK x : S = {x}
        BY <1>1, <2>2
      <3>2. Cardinality({x}) = 1
        BY FS_Singleton
      <3> QED BY <3>1, <3>2
    <2> QED BY <2>1, <2>2
  <1>2. Cardinality(rules) <= 1
    BY <1>1 DEF RulesType
  <1>3. Cardinality(rolesCache) <= 1 /\ Cardinality(projectCache) <= 1
    BY <1>1 DEF ReaderType
  <1>4. context.at \in {"idle", "rules", "roles", "project", "fillProject", "fill", "done"}
    BY DEF ReaderType
  <1>5. Rules!TypeOK
    BY <1>2, <1>3, <1>4 DEF Rules!TypeOK, Rules!Cardinality, Cardinality, RulesType
  <1>6. Rules!RulesFollowEdits
    BY DEF Rules!RulesFollowEdits, EditsApart
  <1> QED BY <1>5, <1>6 DEF Rules!RuleSafety, Heeds

(***************************************************************************)
(* Edits of visibility rules that do not overlap add up, whatever is       *)
(* created, changed and deleted (every save writes the whole list of       *)
(* roles); and an attribute hidden from the reader during the whole        *)
(* obfuscation of an answer is redacted, one that never was is shown,      *)
(* unless a cached role was out of date or both rules and roles changed    *)
(* between the two reads of obfuscateTraceResponse.                      *)
(***************************************************************************)
THEOREM RulesAreHeeded == Rules!Spec => []Rules!RuleSafety
  <1>1. Rules!Init => RulesInv
    BY RulesInitInv
  <1>2. RulesInv /\ [Rules!Next]_<<Rules!ruleVars, Rules!viewVars>> => RulesInv'
    BY RulesNextInv
  <1>3. RulesInv => Rules!RuleSafety
    BY RulesInvImplies
  <1> QED BY <1>1, <1>2, <1>3, PTL DEF Rules!Spec

HIDE RulesAssumption

-----------------------------------------------------------------------------
(***************************************************************************)
(* The audit log: the times of the pages decrease, so that what was shown  *)
(* is no older than the cursor and what waits is older.                    *)
(***************************************************************************)
AuditPage ==
  [reading : BOOLEAN, cursor : Nat, seen : Seq(Nat), began : SUBSET Nat, more : BOOLEAN]

AuditTypes ==
  /\ createdAt \in Seq(0 .. MaxTime)
  /\ log \subseteq 1 .. Len(createdAt)
  /\ now \in 0 .. MaxTime
  /\ page \in AuditPage

\* What was shown is no older than the cursor, and once each.
ShownAbove ==
  /\ \A i \in 1 .. Len(page.seen) :
       page.seen[i] \in 1 .. Len(createdAt) /\ createdAt[page.seen[i]] >= page.cursor
  /\ \A i, j \in 1 .. Len(page.seen) : page.seen[i] = page.seen[j] => i = j

\* An event that was there when the reader began was shown, or deleted, or will
\* come before the cursor, or shares the millisecond of the end of a page.
Awaited ==
  page.reading =>
    /\ page.began \subseteq log \union expired
    /\ \A e \in page.began :
         \/ e \in expired
         \/ \E i \in 1 .. Len(page.seen) : page.seen[i] = e
         \/ page.more /\ createdAt[e] < page.cursor
         \/ Audit!Millisecond(createdAt[e]) \in lastTimes

AuditInv == AuditTypes /\ ShownAbove /\ Awaited

\* A millisecond is a time no later, and the latest such of all times in it.
LEMMA Milliseconds ==
  ASSUME NEW t \in Nat, NEW u \in Nat
  PROVE  /\ Audit!Millisecond(t) \in Nat /\ Audit!Millisecond(t) <= t
         /\ t <= u /\ Audit!Millisecond(t) # Audit!Millisecond(u) => t < Audit!Millisecond(u)
  <1> USE AuditAssumption
  <1>1. t % Tick \in 0 .. Tick - 1 /\ u % Tick \in 0 .. Tick - 1
    OBVIOUS
  <1> QED BY <1>1 DEF Audit!Millisecond

LEMMA AuditInitInv ==
  ASSUME Audit!Init
  PROVE  AuditInv
  <1> USE AuditAssumption
  <1>1. AuditTypes
    <2>1. Audit!Unread \in AuditPage
      BY DEF Audit!Unread, Audit!NoCursor, AuditPage
    <2> QED BY <2>1 DEF Audit!Init, AuditTypes
  <1>2. page.seen = <<>> /\ ~page.reading
    BY DEF Audit!Init, Audit!Unread
  <1>3. ShownAbove
    BY <1>2 DEF ShownAbove
  <1>4. Awaited
    BY <1>2 DEF Awaited
  <1> QED BY <1>1, <1>3, <1>4 DEF AuditInv

\* What the reader holds stays true while others record and delete.
LEMMA PageStays ==
  ASSUME AuditInv, AuditTypes', page' = page, lastTimes' = lastTimes,
         Len(createdAt) <= Len(createdAt'),
         \A e \in 1 .. Len(createdAt) : createdAt'[e] = createdAt[e],
         expired \subseteq expired', log \subseteq log' \union expired'
  PROVE  AuditInv'
  <1>1. Len(createdAt) \in Nat /\ Len(createdAt') \in Nat
    BY DEF AuditInv, AuditTypes
  <1>2. 1 .. Len(createdAt) \subseteq 1 .. Len(createdAt')
    BY <1>1
  <1>3. ShownAbove'
    BY <1>2 DEF AuditInv, ShownAbove
  <1>4. Awaited'
    <2> SUFFICES ASSUME page.reading PROVE Awaited'
      BY DEF Awaited
    <2>1. page.began \subseteq log \union expired
      BY DEF AuditInv, Awaited
    <2>2. page.began \subseteq log' \union expired'
      BY <2>1
    <2>3. ASSUME NEW e \in page.began
          PROVE  \/ e \in expired'
                 \/ \E i \in 1 .. Len(page.seen) : page.seen[i] = e
                 \/ page.more /\ createdAt'[e] < page.cursor
                 \/ Audit!Millisecond(createdAt'[e]) \in lastTimes
      <3>1. CASE e \in expired
        BY <3>1
      <3>2. CASE e \notin expired
        <4>1. createdAt'[e] = createdAt[e]
          BY <2>1, <3>2 DEF AuditInv, AuditTypes
        <4> QED BY <2>3, <3>2, <4>1 DEF AuditInv, Awaited
      <3> QED BY <3>1, <3>2
    <2> QED BY <2>2, <2>3 DEF Awaited, Audit!Millisecond
  <1> QED BY <1>3, <1>4 DEF AuditInv

LEMMA PassInv ==
  ASSUME AuditInv, Audit!Pass
  PROVE  AuditInv'
  <1>1. AuditTypes'
    BY AuditAssumption DEF AuditInv, AuditTypes, Audit!Pass
  <1> QED BY <1>1, PageStays DEF Audit!Pass, AuditInv, AuditTypes

LEMMA RecordInv ==
  ASSUME AuditInv, Audit!Record
  PROVE  AuditInv'
  <1>1. createdAt \in Seq(0 .. MaxTime) /\ Len(createdAt) \in Nat /\ now \in 0 .. MaxTime
    BY DEF AuditInv, AuditTypes
  <1>2. createdAt' = Append(createdAt, now)
    BY DEF Audit!Record
  <1>3. /\ createdAt' \in Seq(0 .. MaxTime) /\ Len(createdAt') = Len(createdAt) + 1
        /\ \A e \in 1 .. Len(createdAt) : createdAt'[e] = createdAt[e]
    BY <1>1, <1>2
  <1>4. log \subseteq log' /\ log' \subseteq 1 .. Len(createdAt')
    BY <1>1, <1>3 DEF Audit!Record, AuditInv, AuditTypes
  <1>5. AuditTypes'
    BY <1>3, <1>4 DEF Audit!Record, AuditInv, AuditTypes
  <1>6. Len(createdAt) <= Len(createdAt')
    BY <1>1, <1>3
  <1> QED BY <1>3, <1>4, <1>5, <1>6, PageStays DEF Audit!Record

LEMMA DeleteOldInv ==
  ASSUME AuditInv, NEW t, Audit!DeleteOld(t)
  PROVE  AuditInv'
  <1>1. AuditTypes'
    BY DEF Audit!DeleteOld, AuditInv, AuditTypes
  <1>2. expired \subseteq expired' /\ log \subseteq log' \union expired'
    BY DEF Audit!DeleteOld
  <1>3. UNCHANGED <<createdAt, page, lastTimes>>
    BY DEF Audit!DeleteOld
  <1> QED BY <1>1, <1>2, <1>3, PageStays DEF AuditInv, AuditTypes

LEMMA StartInv ==
  ASSUME AuditInv, Audit!Start
  PROVE  AuditInv'
  <1> USE AuditAssumption
  <1>a. log \subseteq Nat
    BY DEF AuditInv, AuditTypes
  <1>b. Audit!NoCursor \in Nat
    BY DEF Audit!NoCursor
  <1>c. PICK u : u = Audit!Unread
    OBVIOUS
  <1>d. u \in AuditPage /\ u.cursor = Audit!NoCursor /\ u.seen = <<>>
    BY <1>b, <1>c DEF Audit!Unread, AuditPage
  <1>1. page' = [u EXCEPT !.reading = TRUE, !.began = log, !.more = TRUE]
        /\ UNCHANGED <<log, createdAt, now, expired>>
    BY <1>c DEF Audit!Start
  <1>2. /\ page' \in AuditPage
        /\ page'.reading /\ page'.seen = <<>> /\ page'.began = log /\ page'.cursor = Audit!NoCursor
        /\ page'.more
    BY <1>a, <1>d, <1>1 DEF AuditPage
  <1>3. AuditTypes'
    BY <1>1, <1>2 DEF AuditInv, AuditTypes
  <1>4. ShownAbove'
    BY <1>1, <1>2 DEF ShownAbove
  <1>5. \A e \in log : createdAt[e] < Audit!NoCursor
    BY DEF AuditInv, AuditTypes, Audit!NoCursor
  <1>6. Awaited'
    BY <1>1, <1>2, <1>5 DEF Awaited
  <1> QED BY <1>3, <1>4, <1>6 DEF AuditInv

LEMMA CloseInv ==
  ASSUME AuditInv, Audit!Close
  PROVE  AuditInv'
  <1> USE AuditAssumption
  <1>1. page' = Audit!Unread /\ UNCHANGED <<log, createdAt, now, expired>>
    BY DEF Audit!Close
  <1>2. Audit!Unread \in AuditPage /\ Audit!Unread.seen = <<>> /\ ~Audit!Unread.reading
    BY DEF Audit!Unread, Audit!NoCursor, AuditPage
  <1>3. AuditTypes'
    BY <1>1, <1>2 DEF AuditInv, AuditTypes
  <1>4. ShownAbove'
    BY <1>1, <1>2 DEF ShownAbove
  <1>5. Awaited'
    BY <1>1, <1>2 DEF Awaited
  <1> QED BY <1>3, <1>4, <1>5 DEF AuditInv

\* The first m of a sequence.
LEMMA FirstOf ==
  ASSUME NEW S, NEW s \in Seq(S), NEW m \in Nat, m <= Len(s)
  PROVE  /\ SubSeq(s, 1, m) \in Seq(S) /\ Len(SubSeq(s, 1, m)) = m
         /\ \A i \in 1 .. m : SubSeq(s, 1, m)[i] = s[i]
         /\ SubSeq(s, 1, m) = <<>> <=> m = 0
  <1>1. \A i \in 1 .. m : s[i] \in S
    BY ElementOfSeq
  <1>2. SubSeq(s, 1, m) = [i \in 1 .. (1 + m - 1) |-> s[i + 1 - 1]]
    OBVIOUS
  <1>3. SubSeq(s, 1, m) = [i \in 1 .. m |-> s[i]]
    BY <1>2
  <1>4. PICK f : f = [i \in 1 .. m |-> s[i]]
    OBVIOUS
  <1>5. f \in [1 .. m -> S] /\ \A i \in 1 .. m : f[i] = s[i]
    BY <1>1, <1>4
  <1>6. f \in Seq(S) /\ Len(f) = m
    BY <1>5
  <1>7. f = <<>> <=> m = 0
    BY <1>6, EmptySeq
  <1>8. SubSeq(s, 1, m) = f
    BY <1>3, <1>4, Zenon
  <1>9. /\ f \in Seq(S) /\ Len(f) = m
        /\ \A i \in 1 .. m : f[i] = s[i]
        /\ f = <<>> <=> m = 0
    BY <1>5, <1>6, <1>7
  <1> QED BY <1>8, <1>9, Zenon

\* A page: the newest before the cursor, once each, in order of time; when it
\* is not full it has them all, and otherwise the rest is no later than its end.
PageOf(events, result, data) ==
  /\ Len(result) \in Nat /\ data \in Seq(Nat) /\ Len(data) <= Len(result)
  /\ data = <<>> => events = {} /\ Len(result) = 0
  /\ \A i \in 1 .. Len(data) : data[i] \in events
  /\ \A i, j \in 1 .. Len(data) : data[i] = data[j] => i = j
  /\ data # <<>> =>
       /\ Len(data) \in 1 .. Len(data)
       /\ \A i \in 1 .. Len(data) : createdAt[data[i]] >= createdAt[data[Len(data)]]
       /\ \A e \in events :
            \/ \E i \in 1 .. Len(data) : data[i] = e
            \/ Len(result) > AuditLimit /\ createdAt[e] <= createdAt[data[Len(data)]]

\* What is selected and cut is a page.
LEMMA SelectedPage ==
  ASSUME AuditTypes, NEW events, events \subseteq log, NEW result \in Audit!Selected(events),
         NEW data, data = SubSeq(result, 1, Audit!Min({AuditLimit, Len(result)}))
  PROVE  PageOf(events, result, data)
  <1> USE AuditAssumption
  <1>1. PICK n \in 0 .. AuditLimit + 1 : result \in [1 .. n -> events]
    BY DEF Audit!Selected
  <1>2. events \subseteq Nat /\ n \in Nat
    BY DEF AuditTypes
  <1>3. result \in Seq(events) /\ Len(result) = n
    BY <1>1, <1>2
  <1>4. /\ \A i, j \in 1 .. n : result[i] = result[j] => i = j
        /\ \A i, j \in 1 .. n : i < j => createdAt[result[i]] >= createdAt[result[j]]
        /\ n <= AuditLimit => \A e \in events : \E i \in 1 .. n : result[i] = e
        /\ \A e \in events :
             (\E i \in 1 .. n : result[i] = e) \/ \A i \in 1 .. n : createdAt[e] <= createdAt[result[i]]
    BY <1>1, <1>3 DEF Audit!Selected, Audit!IsInjective, Audit!ToSet
  <1>5. PICK m : m = IF n <= AuditLimit THEN n ELSE AuditLimit
    OBVIOUS
  <1>6. Audit!Min({AuditLimit, n}) = m
    <2>1. m \in {AuditLimit, n} /\ \A y \in {AuditLimit, n} : m <= y
      BY <1>2, <1>5
    <2>2. \A x \in {AuditLimit, n} : (\A y \in {AuditLimit, n} : x <= y) => x = m
      BY <1>2, <1>5
    <2> QED BY <2>1, <2>2 DEF Audit!Min
  <1>7. m \in Nat /\ m <= n /\ (m = 0 => n = 0) /\ (n <= AuditLimit => m = n) /\ (n > AuditLimit => n = m + 1)
    BY <1>2, <1>5
  <1>8. data = SubSeq(result, 1, m)
    BY <1>3, <1>6
  <1>9. data \in Seq(events) /\ Len(data) = m /\ \A i \in 1 .. m : data[i] = result[i]
    <2>1. m \in Nat /\ m <= Len(result) /\ result \in Seq(events)
      BY <1>3, <1>7
    <2>2. /\ SubSeq(result, 1, m) \in Seq(events) /\ Len(SubSeq(result, 1, m)) = m
          /\ \A i \in 1 .. m : SubSeq(result, 1, m)[i] = result[i]
      BY <2>1, FirstOf, Zenon
    <2> QED BY <1>8, <2>2, Zenon
  <1>10. data \in Seq(Nat)
    BY <1>2, <1>9, SeqMonotonic
  <1>11. \A i \in 1 .. m : i \in 1 .. n /\ data[i] \in events
    <2>1. \A i \in 1 .. m : data[i] \in events
      BY <1>9, ElementOfSeq, Zenon
    <2>2. \A i \in 1 .. m : i \in 1 .. n
      BY <1>2, <1>7
    <2> QED BY <2>1, <2>2
  <1>12. data = <<>> => m = 0
    <2>1. m \in Nat /\ m <= Len(result) /\ result \in Seq(events)
      BY <1>3, <1>7
    <2> QED BY <1>8, <2>1, FirstOf, Zenon
  <1>13. data # <<>> => m \in 1 .. m /\ m > 0
    <2>1. m \in Nat /\ m <= Len(result) /\ result \in Seq(events)
      BY <1>3, <1>7
    <2>2. data # <<>> => m # 0
      BY <1>8, <2>1, FirstOf, Zenon
    <2> QED BY <1>7, <2>2
  <1>14. events = {} \/ m > 0
    BY <1>4, <1>7
  <1>15. ASSUME m > 0
         PROVE  /\ \A i \in 1 .. m : createdAt[data[i]] >= createdAt[data[m]]
                /\ \A e \in events :
                     \/ \E i \in 1 .. m : data[i] = e
                     \/ n > AuditLimit /\ createdAt[e] <= createdAt[data[m]]
    <2>1. m \in 1 .. m /\ m \in 1 .. n
      BY <1>7, <1>15
    <2>2. \A e \in events : createdAt[e] \in Nat
      BY DEF AuditTypes
    <2>3. ASSUME NEW i \in 1 .. m PROVE createdAt[data[i]] >= createdAt[data[m]]
      <3>1. CASE i = m
        <4>1. createdAt[data[m]] \in Nat
          BY <1>11, <2>1, <2>2
        <4>2. createdAt[data[i]] = createdAt[data[m]]
          BY <3>1
        <4>3. PICK t \in Nat : t = createdAt[data[m]]
          BY <4>1
        <4>4. t >= t
          OBVIOUS
        <4> QED BY <4>2, <4>3, <4>4
      <3>2. CASE i # m
        <4>1. i < m /\ i \in 1 .. n
          BY <1>7, <3>2
        <4> QED BY <1>4, <1>9, <2>1, <4>1
      <3> QED BY <3>1, <3>2
    <2>4. ASSUME NEW e \in events, ~ \E i \in 1 .. m : data[i] = e
          PROVE  n > AuditLimit /\ createdAt[e] <= createdAt[data[m]]
      <3>1. n > AuditLimit
        <4>1. ASSUME n <= AuditLimit PROVE FALSE
          <5>1. m = n
            BY <1>7, <4>1
          <5> QED BY <1>4, <1>9, <2>4, <4>1, <5>1
        <4> QED BY <1>2, <4>1
      <3>2. CASE \E i \in 1 .. n : result[i] = e
        <4>1. PICK i \in 1 .. n : result[i] = e
          BY <3>2
        <4>2. i \notin 1 .. m
          BY <1>9, <2>4, <4>1
        <4>3. m < i
          BY <1>7, <4>2
        <4>4. createdAt[result[m]] >= createdAt[result[i]]
          BY <1>4, <2>1, <4>3
        <4>5. data[m] = result[m] /\ data[m] \in events
          BY <1>9, <1>11, <2>1
        <4> QED BY <2>2, <3>1, <4>1, <4>4, <4>5
      <3>3. CASE ~ \E i \in 1 .. n : result[i] = e
        BY <1>4, <1>9, <2>1, <3>1, <3>3
      <3> QED BY <3>2, <3>3
    <2> QED BY <2>3, <2>4
  <1>16. \A i, j \in 1 .. m : data[i] = data[j] => i = j
    BY <1>4, <1>9, <1>11
  <1>17. Len(data) = m /\ Len(result) = n
    BY <1>3, <1>9
  <1>18. data = <<>> => events = {} /\ n = 0
    <2>1. CASE m = 0
      BY <1>7, <1>14, <2>1
    <2> QED BY <1>12, <2>1
  <1>19. data # <<>> =>
              /\ m \in 1 .. m
              /\ \A i \in 1 .. m : createdAt[data[i]] >= createdAt[data[m]]
              /\ \A e \in events :
                   \/ \E i \in 1 .. m : data[i] = e
                   \/ n > AuditLimit /\ createdAt[e] <= createdAt[data[m]]
    BY <1>13, <1>15
  <1>20. \A i \in 1 .. m : data[i] \in events
    BY <1>11
  <1> QED BY <1>2, <1>7, <1>10, <1>16, <1>17, <1>18, <1>19, <1>20 DEF PageOf

\* What is shown after a page: what was shown before, then the page.
LEMMA Joined ==
  ASSUME NEW s \in Seq(Nat), NEW d \in Seq(Nat)
  PROVE  /\ s \o d \in Seq(Nat) /\ Len(s) \in Nat /\ Len(d) \in Nat
         /\ \A i \in 1 .. Len(s) : i \in 1 .. Len(s \o d) /\ (s \o d)[i] = s[i]
         /\ \A j \in 1 .. Len(d) : Len(s) + j \in 1 .. Len(s \o d) /\ (s \o d)[Len(s) + j] = d[j]
         /\ \A i \in 1 .. Len(s \o d) :
              i \in 1 .. Len(s) \/ \E j \in 1 .. Len(d) : i = Len(s) + j
  <1>1. s \o d \in Seq(Nat) /\ Len(s) \in Nat /\ Len(d) \in Nat /\ Len(s \o d) = Len(s) + Len(d)
    OBVIOUS
  <1>2. \A i \in 1 .. Len(s) : i \in 1 .. Len(s \o d) /\ (s \o d)[i] = s[i]
    BY <1>1
  <1>3. \A j \in 1 .. Len(d) : Len(s) + j \in 1 .. Len(s \o d) /\ (s \o d)[Len(s) + j] = d[j]
    BY <1>1
  <1>4. ASSUME NEW i \in 1 .. Len(s \o d)
        PROVE  i \in 1 .. Len(s) \/ \E j \in 1 .. Len(d) : i = Len(s) + j
    <2>1. CASE i <= Len(s)
      BY <1>1, <2>1
    <2>2. CASE i > Len(s)
      <3>1. i - Len(s) \in 1 .. Len(d) /\ i = Len(s) + (i - Len(s))
        BY <1>1, <2>2
      <3> QED BY <3>1
    <2> QED BY <1>1, <2>1, <2>2
  <1> QED BY <1>1, <1>2, <1>3, <1>4

LEMMA FindLogsInv ==
  ASSUME AuditInv, Audit!FindLogsPaginated
  PROVE  AuditInv'
  <1> USE AuditAssumption
  <1>1. PICK p : p = page
    OBVIOUS
  <1>2. /\ p \in AuditPage /\ p.reading /\ p.more
        /\ UNCHANGED <<log, createdAt, now, expired>>
    BY <1>1 DEF AuditInv, AuditTypes, Audit!FindLogsPaginated
  <1>3. p.cursor \in Nat /\ p.seen \in Seq(Nat)
    BY <1>2 DEF AuditPage
  <1>4. PICK result \in Audit!Selected(Audit!Before(p.cursor)) :
          LET data == SubSeq(result, 1, Audit!Min({AuditLimit, Len(result)})) IN
          /\ page' = [p EXCEPT !.seen = @ \o data,
                               !.more = Len(result) > AuditLimit,
                               !.cursor = IF data = <<>> THEN @ ELSE Audit!NextCursor(result)]
          /\ lastTimes' = lastTimes \union
                            (IF data = <<>> THEN {} ELSE {Audit!Millisecond(createdAt[Audit!Last(data)])})
    BY <1>1 DEF Audit!FindLogsPaginated
  <1>5. PICK data : data = SubSeq(result, 1, Audit!Min({AuditLimit, Len(result)}))
    OBVIOUS
  <1>6. PICK events : events = Audit!Before(p.cursor)
    OBVIOUS
  <1>7. \A e \in log : createdAt[e] \in Nat /\ createdAt[e] < Audit!NoCursor /\ e \in Nat
    BY DEF AuditInv, AuditTypes, Audit!NoCursor
  <1>8. /\ events \subseteq log
        /\ \A e \in events : createdAt[e] < p.cursor
        /\ \A e \in log : createdAt[e] < p.cursor => e \in events
    BY <1>6, <1>7 DEF Audit!Before
  <1>9. result \in Audit!Selected(events) /\ AuditTypes
    BY <1>6 DEF AuditInv
  <1>10. /\ Len(result) \in Nat /\ data \in Seq(Nat) /\ Len(data) <= Len(result)
         /\ data = <<>> => events = {} /\ Len(result) = 0
         /\ \A i \in 1 .. Len(data) : data[i] \in events
         /\ \A i, j \in 1 .. Len(data) : data[i] = data[j] => i = j
         /\ data # <<>> =>
              /\ Len(data) \in 1 .. Len(data)
              /\ \A i \in 1 .. Len(data) : createdAt[data[i]] >= createdAt[data[Len(data)]]
              /\ \A e \in events :
                   \/ \E i \in 1 .. Len(data) : data[i] = e
                   \/ Len(result) > AuditLimit /\ createdAt[e] <= createdAt[data[Len(data)]]
    <2>1. events \subseteq log
      BY <1>8
    <2>2. PageOf(events, result, data)
      BY <1>5, <1>9, <2>1, SelectedPage, Zenon
    <2> QED BY <2>2, Zenon DEF PageOf
  <1>12. PICK c : c = IF data = <<>> THEN p.cursor ELSE Audit!Millisecond(createdAt[data[Len(data)]])
    OBVIOUS
  <1>13. page' = [p EXCEPT !.seen = p.seen \o data, !.more = Len(result) > AuditLimit, !.cursor = c]
    BY <1>4, <1>5, <1>12 DEF Audit!NextCursor, Audit!Last
  <1>14. lastTimes' = lastTimes \union (IF data = <<>> THEN {} ELSE {c})
    BY <1>4, <1>5, <1>12 DEF Audit!Last
  <1>15. data # <<>> =>
           /\ data[Len(data)] \in events /\ createdAt[data[Len(data)]] \in Nat
           /\ c <= createdAt[data[Len(data)]] /\ c <= p.cursor
    <2> SUFFICES ASSUME data # <<>>
                 PROVE  /\ data[Len(data)] \in events /\ createdAt[data[Len(data)]] \in Nat
                        /\ c <= createdAt[data[Len(data)]] /\ c <= p.cursor
      OBVIOUS
    <2>1. PICK t : t = createdAt[data[Len(data)]]
      OBVIOUS
    <2>2. data[Len(data)] \in events
      BY <1>10
    <2>3. t \in Nat /\ t < p.cursor
      BY <1>7, <1>8, <2>1, <2>2
    <2>4. c \in Nat /\ c <= t
      BY <1>12, <2>1, <2>3, Milliseconds
    <2> QED BY <1>3, <2>1, <2>2, <2>3, <2>4
  <1>16. c \in Nat /\ c <= p.cursor
    BY <1>3, <1>12, <1>15, Milliseconds
  <1>17. PICK q : q = page'
    OBVIOUS
  <1>18. PICK listed : listed = p.seen \o data
    OBVIOUS
  <1>19. listed \in Seq(Nat)
    BY <1>3, <1>10, <1>18, Joined, Zenon
  <1>20. /\ q \in AuditPage /\ q.seen = listed /\ q.cursor = c /\ q.more = (Len(result) > AuditLimit)
         /\ q.reading /\ q.began = p.began
    <2>1. q = [p EXCEPT !.seen = listed, !.more = Len(result) > AuditLimit, !.cursor = c]
      BY <1>13, <1>17, <1>18, Zenon
    <2>2. PICK more \in BOOLEAN : more = (Len(result) > AuditLimit)
      <3>1. (Len(result) > AuditLimit) \in BOOLEAN
        BY <1>10
      <3> QED BY <3>1, Zenon
    <2>3. q = [p EXCEPT !.seen = listed, !.more = more, !.cursor = c]
      BY <2>1, <2>2, Zenon
    <2>4. q \in AuditPage /\ q.seen = listed /\ q.cursor = c /\ q.more = more
          /\ q.reading = p.reading /\ q.began = p.began
      BY <1>2, <1>16, <1>19, <2>3 DEF AuditPage
    <2> QED BY <1>2, <2>2, <2>4, Zenon
  <1>21. AuditTypes'
    BY <1>2, <1>17, <1>20 DEF AuditInv, AuditTypes
  <1>22. PICK old : old = p.seen
    OBVIOUS
  <1>23. /\ old \in Seq(Nat) /\ Len(old) \in Nat /\ Len(data) \in Nat /\ Len(listed) \in Nat
         /\ \A i \in 1 .. Len(old) : i \in 1 .. Len(listed) /\ listed[i] = old[i]
         /\ \A j \in 1 .. Len(data) : Len(old) + j \in 1 .. Len(listed) /\ listed[Len(old) + j] = data[j]
         /\ \A i \in 1 .. Len(listed) :
              i \in 1 .. Len(old) \/ \E j \in 1 .. Len(data) : i = Len(old) + j
    <2>1. old \in Seq(Nat) /\ data \in Seq(Nat) /\ listed = old \o data
      BY <1>3, <1>10, <1>18, <1>22, Zenon
    <2>2. Len(listed) \in Nat
      BY <1>19
    <2> QED BY <2>1, <2>2, Joined, Zenon
  <1>24. /\ \A i \in 1 .. Len(old) : old[i] \in 1 .. Len(createdAt) /\ createdAt[old[i]] >= p.cursor
         /\ \A i, j \in 1 .. Len(old) : old[i] = old[j] => i = j
    BY <1>1, <1>22, Zenon DEF AuditInv, ShownAbove
  <1>25. \A i \in 1 .. Len(createdAt) : createdAt[i] \in Nat
    BY DEF AuditInv, AuditTypes
  <1>26. \A j \in 1 .. Len(data) :
           /\ data[j] \in 1 .. Len(createdAt) /\ createdAt[data[j]] < p.cursor
           /\ createdAt[data[j]] >= c
    <2> TAKE j \in 1 .. Len(data)
    <2>1. data[j] \in events /\ data[j] \in log
      BY <1>8, <1>10
    <2>2. data[j] \in 1 .. Len(createdAt)
      BY <2>1 DEF AuditInv, AuditTypes
    <2>3. data # <<>>
      BY EmptySeq, <1>23
    <2>4. createdAt[data[j]] >= createdAt[data[Len(data)]]
      BY <1>10, <2>3
    <2>5. createdAt[data[j]] \in Nat
      BY <1>25, <2>2
    <2>6. createdAt[data[j]] >= c
      BY <1>15, <1>16, <2>3, <2>4, <2>5
    <2> QED BY <1>8, <2>1, <2>2, <2>6
  <1>27. \A i \in 1 .. Len(listed) : listed[i] \in 1 .. Len(createdAt) /\ createdAt[listed[i]] >= c
    <2> TAKE i \in 1 .. Len(listed)
    <2>1. CASE i \in 1 .. Len(old)
      <3>1. old[i] \in 1 .. Len(createdAt) /\ createdAt[old[i]] >= p.cursor /\ listed[i] = old[i]
        BY <1>23, <1>24, <2>1
      <3>2. createdAt[old[i]] \in Nat
        BY <1>25, <3>1
      <3> QED BY <1>3, <1>16, <3>1, <3>2
    <2>2. CASE \E j \in 1 .. Len(data) : i = Len(old) + j
      BY <1>23, <1>26, <2>2
    <2> QED BY <1>23, <2>1, <2>2
  <1>28. \A i \in 1 .. Len(old), j \in 1 .. Len(data) : old[i] # data[j]
    <2> TAKE i \in 1 .. Len(old), j \in 1 .. Len(data)
    <2>1. createdAt[old[i]] >= p.cursor /\ createdAt[old[i]] \in Nat
      BY <1>24, <1>25
    <2>2. createdAt[data[j]] < p.cursor
      BY <1>26
    <2> QED BY <1>3, <2>1, <2>2
  <1>29. ASSUME NEW i \in 1 .. Len(listed), NEW j \in 1 .. Len(listed), listed[i] = listed[j]
         PROVE  i = j
    <2>1. CASE i \in 1 .. Len(old) /\ j \in 1 .. Len(old)
      BY <1>23, <1>24, <1>29, <2>1
    <2>2. ASSUME i \in 1 .. Len(old), NEW b \in 1 .. Len(data), j = Len(old) + b PROVE FALSE
      BY <1>23, <1>28, <1>29, <2>2
    <2>3. ASSUME j \in 1 .. Len(old), NEW b \in 1 .. Len(data), i = Len(old) + b PROVE FALSE
      BY <1>23, <1>28, <1>29, <2>3
    <2>4. ASSUME NEW a \in 1 .. Len(data), i = Len(old) + a,
                 NEW b \in 1 .. Len(data), j = Len(old) + b
          PROVE  i = j
      <3>1. data[a] = data[b]
        BY <1>23, <1>29, <2>4
      <3> QED BY <1>10, <2>4, <3>1
    <2> QED BY <1>23, <2>1, <2>2, <2>3, <2>4
  <1>30. ShownAbove'
    BY <1>2, <1>17, <1>20, <1>27, <1>29 DEF ShownAbove
  <1>31. /\ p.began \subseteq log \union expired
         /\ \A e \in p.began :
              \/ e \in expired
              \/ \E i \in 1 .. Len(old) : old[i] = e
              \/ createdAt[e] < p.cursor
              \/ Audit!Millisecond(createdAt[e]) \in lastTimes
    BY <1>1, <1>2, <1>22, Zenon DEF AuditInv, Awaited
  <1>32. ASSUME NEW e \in p.began
         PROVE  \/ e \in expired
                \/ \E i \in 1 .. Len(listed) : listed[i] = e
                \/ q.more /\ createdAt[e] < c
                \/ Audit!Millisecond(createdAt[e]) \in lastTimes'
    <2>1. CASE \E i \in 1 .. Len(old) : old[i] = e
      BY <1>23, <2>1
    <2>2. CASE Audit!Millisecond(createdAt[e]) \in lastTimes
      BY <1>14, <2>2
    <2>3. CASE createdAt[e] < p.cursor /\ e \notin expired
      <3>1. e \in log /\ e \in events
        BY <1>8, <1>31, <2>3
      <3>2. data # <<>>
        BY <1>10, <3>1
      <3>3. CASE \E i \in 1 .. Len(data) : data[i] = e
        BY <1>23, <3>3
      <3>4. CASE Len(result) > AuditLimit /\ createdAt[e] <= createdAt[data[Len(data)]]
        <4>1. q.more
          BY <1>20, <3>4
        <4>2. CASE Audit!Millisecond(createdAt[e]) = c
          BY <1>14, <3>2, <4>2
        <4>3. CASE Audit!Millisecond(createdAt[e]) # c
          <5>1. createdAt[e] \in Nat /\ createdAt[data[Len(data)]] \in Nat
            BY <1>7, <1>15, <3>1, <3>2
          <5>2. c = Audit!Millisecond(createdAt[data[Len(data)]])
            BY <1>12, <3>2
          <5>3. createdAt[e] < c
            BY <3>4, <4>3, <5>1, <5>2, Milliseconds
          <5> QED BY <4>1, <5>3
        <4> QED BY <4>2, <4>3
      <3> QED BY <1>10, <3>1, <3>2, <3>3, <3>4
    <2> QED BY <1>31, <2>1, <2>2, <2>3
  <1>33. Awaited'
    BY <1>2, <1>17, <1>20, <1>31, <1>32 DEF Awaited, Audit!Millisecond
  <1> QED BY <1>21, <1>30, <1>33 DEF AuditInv

LEMMA AuditNextInv ==
  ASSUME AuditInv, [Audit!Next]_(Audit!auditVars)
  PROVE  AuditInv'
  <1>1. CASE Audit!Pass
    BY <1>1, PassInv
  <1>2. CASE Audit!Record
    BY <1>2, RecordInv
  <1>3. CASE \E t \in 1 .. MaxTime : Audit!DeleteOld(t)
    BY <1>3, DeleteOldInv
  <1>4. CASE Audit!Start
    BY <1>4, StartInv
  <1>5. CASE Audit!FindLogsPaginated
    BY <1>5, FindLogsInv
  <1>6. CASE Audit!Close
    BY <1>6, CloseInv
  <1>7. CASE UNCHANGED Audit!auditVars
    BY <1>7 DEF Audit!auditVars, AuditInv, AuditTypes, ShownAbove, Awaited, Audit!Millisecond
  <1> QED BY <1>1, <1>2, <1>3, <1>4, <1>5, <1>6, <1>7 DEF Audit!Next

LEMMA AuditInvImplies ==
  ASSUME AuditInv
  PROVE  Audit!AuditSafety
  <1>1. PICK s : s = page.seen
    OBVIOUS
  <1>2. s \in Seq(Nat)
    BY <1>1 DEF AuditInv, AuditTypes, AuditPage
  <1>3. DOMAIN s = 1 .. Len(s)
    BY <1>2
  <1>4. \A i, j \in 1 .. Len(s) : s[i] = s[j] => i = j
    BY <1>1 DEF AuditInv, ShownAbove
  <1>5. Audit!ShownOnce
    BY <1>1, <1>3, <1>4 DEF Audit!ShownOnce, Audit!IsInjective
  <1>6. ASSUME page.reading, ~page.more,
               NEW e \in page.began \ (Audit!ToSet(page.seen) \union expired)
        PROVE  Audit!Millisecond(createdAt[e]) \in lastTimes
    <2>1. ~ \E i \in 1 .. Len(s) : s[i] = e
      BY <1>1, <1>3, <1>6 DEF Audit!ToSet
    <2> QED BY <1>1, <1>6, <2>1 DEF AuditInv, Awaited
  <1>7. Audit!MissedShareATime
    BY <1>6 DEF Audit!MissedShareATime
  <1> QED BY <1>5, <1>7 DEF Audit!AuditSafety

(***************************************************************************)
(* However events are recorded and deleted while somebody pages through    *)
(* the audit log: no event is shown on two pages, and after the last page  *)
(* an event that was there at the first one was shown, or was deleted by   *)
(* the retention, or happened in the millisecond of the last event of a    *)
(* page, to which the cursor is cut (AuditService.findAll,                 *)
(* findLogsPaginated, deleteOldAuditLogs).                                 *)
(***************************************************************************)
THEOREM AuditIsSafe == Audit!Spec => []AuditSafety
  <1>1. Audit!Init => AuditInv
    BY AuditInitInv
  <1>2. AuditInv /\ [Audit!Next]_(Audit!auditVars) => AuditInv'
    BY AuditNextInv
  <1>3. AuditInv => AuditSafety
    BY AuditInvImplies DEF AuditSafety
  <1> QED BY <1>1, <1>2, <1>3, PTL DEF Audit!Spec

-----------------------------------------------------------------------------
(***************************************************************************)
(* The secrets of models and data sources: a row, and what a request holds *)
(* of one, satisfy the same conditions, so that a save cannot break them,  *)
(* however old the copy is it saves.                                       *)
(***************************************************************************)
\* A secret at rest: encrypted once, unless it is empty or taken for a cipher text.
AtRest(x) == x \in Secrets!Secret /\ x.depth = IF x.text \in {Secrets!Blank, Secrets!Lookalike} THEN 0 ELSE 1

SoundModel(row) ==
  /\ row \in Secrets!ModelRows
  /\ AtRest(row.apiKey) /\ (row.credentials # Secrets!NoConfig => AtRest(row.credentials))

SoundSource(row) ==
  /\ row \in Secrets!SourceRows
  /\ \A s \in DOMAIN row.config : AtRest(row.config[s]) \/ row.config[s].depth = 0
  /\ \A s \in DOMAIN row.config \ row.astray : AtRest(row.config[s])
  /\ ~row.unchecked => Secrets!ValidSource(row.source, row.url, row.config)

\* The texts of a row are the last ones entered.
ModelUpToDate(row) ==
  /\ row.apiKey.text = latest.apiKey
  /\ IF row.credentials = Secrets!NoConfig THEN latest.credentials = Secrets!Blank
     ELSE row.credentials.text = latest.credentials
SourceUpToDate(row) ==
  \A s \in DOMAIN row.config :
    s \in DOMAIN latest.sections /\ row.config[s].text = latest.sections[s]

ModelRequest == [kind : {"model"}, op : {"update", "remove"}, copy : Secrets!ModelRows]
SourceRequest == [kind : {"source"}, op : {"update", "remove"}, copy : Secrets!SourceRows]
SourceCall == [copy : Secrets!SourceRows, body : Secrets!SourceBodies]

\* What a request holds is as sound as a row, whatever became of the row.
SoundRequest(r) ==
  \/ r \in ModelRequest /\ SoundModel(r.copy)
  \/ r \in SourceRequest /\ SoundSource(r.copy)

Entered ==
  [apiKey : Secrets!Texts, credentials : Secrets!Texts, sections : UNION {[S -> Secrets!Texts] : S \in SUBSET Secrets!Sections}]

ModelsSound ==
  /\ model = {} \/ \E row \in Secrets!ModelRows : model = {row}
  /\ \A row \in model : SoundModel(row) /\ ("model" \notin secretOvertaken => ModelUpToDate(row))
  /\ model # {} => "model" \in rowsMade
  /\ "model" \notin rowsMade => latest.credentials = Secrets!Blank

SourcesSound ==
  /\ datasource = {} \/ \E row \in Secrets!SourceRows : datasource = {row}
  /\ \A row \in datasource : SoundSource(row) /\ ("source" \notin secretOvertaken => SourceUpToDate(row))

RequestsSound ==
  /\ DOMAIN secretRequest = Editors
  /\ \A e \in Editors : \A r \in secretRequest[e] :
       SoundRequest(r) /\ (r.kind = "model" => "model" \in rowsMade)

CountsSound ==
  /\ latest \in Entered
  /\ requests \in 0 .. MaxRequests /\ rowsMade \subseteq {"model", "source"}
  /\ secretOvertaken \subseteq {"model", "source"}

SecretInv == ModelsSound /\ SourcesSound /\ RequestsSound /\ CountsSound

LEMMA TextsApart ==
  /\ Typed \subseteq Secrets!Texts /\ Secrets!Blank \in Secrets!Texts /\ Secrets!Mask \in Secrets!Texts /\ Secrets!Lookalike \in Secrets!Texts
  /\ Secrets!Blank # Secrets!Lookalike /\ Secrets!Blank # Secrets!Mask /\ Secrets!Keep \notin Secrets!Texts /\ "no config" \notin Secrets!Texts
  /\ Secrets!Entries \subseteq Secrets!Texts
  BY SecretsAssumption DEF Secrets!Texts, Secrets!Entries, Secrets!Blank, Secrets!Mask, Secrets!Lookalike,
                           Secrets!Keep

LEMMA PlainTexts ==
  ASSUME NEW t
  PROVE  /\ Secrets!Plain(t).text = t /\ Secrets!Plain(t).depth = 0
         /\ t \in Secrets!Texts => Secrets!Plain(t) \in Secrets!Secret /\ Secrets!Plain(t) # Secrets!NoConfig /\ Secrets!Plain(t) # Secrets!Kept
  <1>1. Secrets!Plain(t).text = t /\ Secrets!Plain(t).depth = 0
    BY DEF Secrets!Plain
  <1>2. Secrets!NoConfig.text = "no config" /\ Secrets!Kept.text = Secrets!Keep
    BY DEF Secrets!NoConfig, Secrets!Kept, Secrets!Plain
  <1>3. t \in Secrets!Texts => Secrets!Plain(t) \in Secrets!Secret
    BY DEF Secrets!Plain, Secrets!Secret
  <1>4. t \in Secrets!Texts => t # "no config" /\ t # Secrets!Keep
    BY TextsApart
  <1> QED BY <1>1, <1>2, <1>3, <1>4

LEMMA SecretsApart ==
  ASSUME NEW x \in Secrets!Secret
  PROVE  x.text \in Secrets!Texts /\ x.depth \in 0 .. 2 /\ x # Secrets!NoConfig /\ x # Secrets!Kept
  <1>1. x.text \in Secrets!Texts /\ x.depth \in 0 .. 2
    BY DEF Secrets!Secret
  <1>2. Secrets!NoConfig.text = "no config" /\ Secrets!Kept.text = Secrets!Keep
    BY DEF Secrets!NoConfig, Secrets!Kept, Secrets!Plain
  <1> QED BY <1>1, <1>2, TextsApart

\* What is encrypted once, or not yet, rests encrypted afterwards.
LEMMA EncryptedRests ==
  ASSUME NEW x \in Secrets!Secret, AtRest(x) \/ x.depth = 0
  PROVE  AtRest(Secrets!Encrypted(x)) /\ Secrets!Encrypted(x) \in Secrets!Secret /\ Secrets!Encrypted(x).text = x.text
  <1>1. x.text \in Secrets!Texts /\ x.depth \in 0 .. 2
    BY SecretsApart
  <1>2. CASE x.text = Secrets!Blank \/ Secrets!IsEncrypted(x)
    <2>1. Secrets!Encrypted(x) = x
      BY <1>2 DEF Secrets!Encrypted
    <2>2. AtRest(x)
      <3>1. CASE AtRest(x)
        BY <3>1
      <3>2. CASE x.depth = 0
        <4>1. x.text \in {Secrets!Blank, Secrets!Lookalike}
          BY <1>2, <3>2 DEF Secrets!IsEncrypted
        <4> QED BY <3>2, <4>1 DEF AtRest
      <3> QED BY <3>1, <3>2
    <2> QED BY <2>1, <2>2
  <1>3. CASE ~(x.text = Secrets!Blank \/ Secrets!IsEncrypted(x))
    <2>1. x.depth = 0 /\ x.text # Secrets!Lookalike /\ x.text # Secrets!Blank
      BY <1>1, <1>3 DEF Secrets!IsEncrypted
    <2>2. Secrets!Encrypted(x) = [x EXCEPT !.depth = x.depth + 1]
      BY <1>3 DEF Secrets!Encrypted
    <2>3. PICK y : y = [x EXCEPT !.depth = 1]
      OBVIOUS
    <2>4. Secrets!Encrypted(x) = y
      BY <2>1, <2>2, <2>3
    <2>5. y \in Secrets!Secret /\ y.text = x.text /\ y.depth = 1
      BY <1>1, <2>3 DEF Secrets!Secret
    <2> QED BY <2>1, <2>4, <2>5 DEF AtRest
  <1> QED BY <1>2, <1>3

LEMMA ModelEncrypted ==
  ASSUME NEW c \in Secrets!ModelRows, AtRest(c.apiKey) \/ c.apiKey.depth = 0,
         c.credentials # Secrets!NoConfig => AtRest(c.credentials) \/ c.credentials.depth = 0
  PROVE  /\ SoundModel(Secrets!EncryptSensitive(c))
         /\ Secrets!EncryptSensitive(c).apiKey.text = c.apiKey.text
         /\ IF c.credentials = Secrets!NoConfig THEN Secrets!EncryptSensitive(c).credentials = Secrets!NoConfig
            ELSE /\ Secrets!EncryptSensitive(c).credentials # Secrets!NoConfig
                 /\ Secrets!EncryptSensitive(c).credentials.text = c.credentials.text
  <1>1. c.apiKey \in Secrets!Secret /\ c.credentials \in Secrets!Secret \cup {Secrets!NoConfig}
    BY DEF Secrets!ModelRows
  <1>2. PICK a : a = Secrets!Encrypted(c.apiKey)
    OBVIOUS
  <1>3. PICK b : b = IF c.credentials = Secrets!NoConfig THEN Secrets!NoConfig ELSE Secrets!Encrypted(c.credentials)
    OBVIOUS
  <1>4. Secrets!EncryptSensitive(c) = [apiKey |-> a, credentials |-> b]
    BY <1>2, <1>3 DEF Secrets!EncryptSensitive, Secrets!Fields
  <1>5. a \in Secrets!Secret /\ AtRest(a) /\ a.text = c.apiKey.text
    BY <1>1, <1>2, EncryptedRests
  <1>6. c.credentials # Secrets!NoConfig => b \in Secrets!Secret /\ AtRest(b) /\ b.text = c.credentials.text /\ b # Secrets!NoConfig
    BY <1>1, <1>3, EncryptedRests, SecretsApart
  <1>7. PICK d : d = [apiKey |-> a, credentials |-> b]
    OBVIOUS
  <1>8. d.apiKey = a /\ d.credentials = b
    BY <1>7
  <1>9. d \in Secrets!ModelRows
    BY <1>3, <1>5, <1>6, <1>7 DEF Secrets!ModelRows
  <1> QED BY <1>3, <1>4, <1>5, <1>6, <1>7, <1>8, <1>9 DEF SoundModel

NoModel == [apiKey |-> Secrets!Plain(Secrets!Blank), credentials |-> Secrets!NoConfig]

LEMMA NoModelIsSound == SoundModel(NoModel) /\ NoModel.apiKey.text = Secrets!Blank /\ NoModel.credentials = Secrets!NoConfig
  <1>1. NoModel.apiKey = Secrets!Plain(Secrets!Blank) /\ NoModel.credentials = Secrets!NoConfig
    BY DEF NoModel
  <1>2. Secrets!Plain(Secrets!Blank) \in Secrets!Secret /\ Secrets!Plain(Secrets!Blank).text = Secrets!Blank /\ Secrets!Plain(Secrets!Blank).depth = 0
    BY TextsApart, PlainTexts
  <1>3. NoModel \in Secrets!ModelRows
    BY <1>2 DEF NoModel, Secrets!ModelRows
  <1> QED BY <1>1, <1>2, <1>3 DEF SoundModel, AtRest

LEMMA ModelBodyTypes ==
  ASSUME NEW b \in Secrets!ModelBodies
  PROVE  /\ b.apiKey \in Secrets!Secret /\ b.apiKey.depth = 0 /\ b # Secrets!NameOnly
         /\ \/ b.credentials \in {Secrets!NoConfig, Secrets!Kept}
            \/ /\ b.credentials \in Secrets!Secret /\ b.credentials.depth = 0
               /\ b.credentials # Secrets!NoConfig /\ b.credentials # Secrets!Kept
  <1>1. /\ b.apiKey \in {Secrets!Plain(t) : t \in Secrets!Texts}
        /\ b.credentials \in {Secrets!NoConfig, Secrets!Kept} \cup {Secrets!Plain(t) : t \in Secrets!Entries}
    BY DEF Secrets!ModelBodies
  <1>2. b.apiKey \in Secrets!Secret /\ b.apiKey.depth = 0 /\ b.apiKey # Secrets!Kept
    BY <1>1, PlainTexts
  <1>3. Secrets!NameOnly.apiKey = Secrets!Kept
    BY DEF Secrets!NameOnly
  <1>4. CASE b.credentials \in {Secrets!Plain(t) : t \in Secrets!Entries}
    <2>1. PICK t \in Secrets!Texts : b.credentials = Secrets!Plain(t)
      BY <1>4, TextsApart
    <2> QED BY <1>2, <1>3, <2>1, PlainTexts
  <1> QED BY <1>1, <1>2, <1>3, <1>4

\* A row after a save whose body was b: sound, and as up to date as the copy.
LEMMA ModelMerged ==
  ASSUME NEW old, SoundModel(old), NEW b \in Secrets!ModelBodies, latest \in Entered,
         NEW row, row = Secrets!EncryptSensitive(Secrets!MergeForUpdate(old, b))
  PROVE  /\ SoundModel(row)
         /\ Secrets!EnteredModel(b) \in Entered /\ Secrets!EnteredModel(b).sections = latest.sections
         /\ row.apiKey.text = Secrets!EnteredModel(b).apiKey
         /\ (IF old.credentials = Secrets!NoConfig THEN latest.credentials = Secrets!Blank
             ELSE old.credentials.text = latest.credentials)
            => IF row.credentials = Secrets!NoConfig THEN Secrets!EnteredModel(b).credentials = Secrets!Blank
               ELSE row.credentials.text = Secrets!EnteredModel(b).credentials
  <1>1. /\ b.apiKey \in Secrets!Secret /\ b.apiKey.depth = 0
        /\ \/ b.credentials \in {Secrets!NoConfig, Secrets!Kept}
           \/ /\ b.credentials \in Secrets!Secret /\ b.credentials.depth = 0
              /\ b.credentials # Secrets!NoConfig /\ b.credentials # Secrets!Kept
    BY ModelBodyTypes
  <1>2. old.credentials \in Secrets!Secret \cup {Secrets!NoConfig} /\ (old.credentials # Secrets!NoConfig => AtRest(old.credentials))
    BY DEF SoundModel, Secrets!ModelRows
  <1>3. PICK k :
          k = IF b.credentials = Secrets!NoConfig THEN old.credentials
              ELSE IF b.credentials # Secrets!Kept THEN b.credentials
              ELSE IF old.credentials = Secrets!NoConfig THEN Secrets!Plain(Secrets!Blank)
              ELSE old.credentials
    OBVIOUS
  <1>4. Secrets!Plain(Secrets!Blank) \in Secrets!Secret /\ Secrets!Plain(Secrets!Blank).text = Secrets!Blank /\ Secrets!Plain(Secrets!Blank).depth = 0 /\ Secrets!Plain(Secrets!Blank) # Secrets!NoConfig
    BY TextsApart, PlainTexts
  <1>5. PICK m : m = [apiKey |-> b.apiKey, credentials |-> k]
    OBVIOUS
  <1>6. Secrets!MergeForUpdate(old, b) = m
    BY <1>3, <1>5 DEF Secrets!MergeForUpdate
  <1>7. m.apiKey = b.apiKey /\ m.credentials = k
    BY <1>5
  <1>8. k \in Secrets!Secret \cup {Secrets!NoConfig} /\ (k # Secrets!NoConfig => AtRest(k) \/ k.depth = 0)
    BY <1>1, <1>2, <1>3, <1>4
  <1>9. m \in Secrets!ModelRows
    BY <1>1, <1>5, <1>8 DEF Secrets!ModelRows
  <1>10. /\ SoundModel(row) /\ row.apiKey.text = b.apiKey.text
         /\ IF k = Secrets!NoConfig THEN row.credentials = Secrets!NoConfig
            ELSE row.credentials # Secrets!NoConfig /\ row.credentials.text = k.text
    BY <1>1, <1>6, <1>7, <1>8, <1>9, ModelEncrypted
  <1>11. PICK after : after = Secrets!EnteredModel(b)
    OBVIOUS
  <1>12. /\ after \in Entered /\ after.sections = latest.sections /\ after.apiKey = b.apiKey.text
         /\ after.credentials = IF b.credentials \in {Secrets!NoConfig, Secrets!Kept} THEN latest.credentials
                                ELSE b.credentials.text
    <2>1. PICK t : t = IF b.credentials \in {Secrets!NoConfig, Secrets!Kept} THEN latest.credentials
                       ELSE b.credentials.text
      OBVIOUS
    <2>2. t \in Secrets!Texts /\ b.apiKey.text \in Secrets!Texts
      BY <1>1, <2>1, SecretsApart DEF Entered
    <2>3. after = [latest EXCEPT !.apiKey = b.apiKey.text, !.credentials = t]
      BY <1>11, <2>1 DEF Secrets!EnteredModel
    <2>4. /\ after \in Entered /\ after.sections = latest.sections
          /\ after.apiKey = b.apiKey.text /\ after.credentials = t
      BY <2>2, <2>3 DEF Entered
    <2> QED BY <2>1, <2>4
  <1>13. ASSUME IF old.credentials = Secrets!NoConfig THEN latest.credentials = Secrets!Blank
                ELSE old.credentials.text = latest.credentials
         PROVE  IF row.credentials = Secrets!NoConfig THEN after.credentials = Secrets!Blank
                ELSE row.credentials.text = after.credentials
    <2>1. CASE b.credentials = Secrets!NoConfig
      BY <1>3, <1>10, <1>12, <1>13, <2>1
    <2>2. CASE b.credentials = Secrets!Kept
      <3>1. Secrets!Kept # Secrets!NoConfig
        BY DEF Secrets!Kept, Secrets!NoConfig, Secrets!Plain, Secrets!Keep
      <3> QED BY <1>2, <1>3, <1>4, <1>10, <1>12, <1>13, <2>2, <3>1
    <2>3. CASE b.credentials \notin {Secrets!NoConfig, Secrets!Kept}
      BY <1>3, <1>10, <1>12, <2>3
    <2> QED BY <2>1, <2>2, <2>3
  <1> QED BY <1>10, <1>11, <1>12, <1>13

\* What others do leaves the models as sound and as up to date as they were.
LEMMA ModelsStay ==
  ASSUME ModelsSound, model' = model, latest'.apiKey = latest.apiKey,
         latest'.credentials = latest.credentials,
         "model" \in secretOvertaken => "model" \in secretOvertaken', rowsMade \subseteq rowsMade',
         "model" \in rowsMade' => "model" \in rowsMade
  PROVE  ModelsSound'
  BY DEF ModelsSound, ModelUpToDate, SoundModel, AtRest, Secrets!Fields

LEMMA SourcesStay ==
  ASSUME SourcesSound, datasource' = datasource, latest'.sections = latest.sections,
         "source" \in secretOvertaken => "source" \in secretOvertaken'
  PROVE  SourcesSound'
  BY DEF SourcesSound, SourceUpToDate, SoundSource

LEMMA RequestsStay ==
  ASSUME RequestsSound, DOMAIN secretRequest' = Editors, rowsMade \subseteq rowsMade', NEW e \in Editors,
         \A d \in Editors \ {e} : secretRequest'[d] = secretRequest[d],
         \A r \in secretRequest'[e] : SoundRequest(r) /\ (r.kind = "model" => "model" \in rowsMade')
  PROVE  RequestsSound'
  <1> SUFFICES ASSUME NEW d \in Editors, NEW r \in secretRequest'[d]
               PROVE  SoundRequest(r) /\ (r.kind = "model" => "model" \in rowsMade')
    BY DEF RequestsSound, SoundRequest, SoundModel, SoundSource, AtRest
  <1>1. CASE d = e
    BY <1>1
  <1>2. CASE d # e
    BY <1>2 DEF RequestsSound
  <1> QED BY <1>1, <1>2

LEMMA AskCounts ==
  ASSUME CountsSound, NEW e \in Editors, Secrets!Ask(e)
  PROVE  requests' \in 0 .. MaxRequests
  <1>1. MaxRequests \in Nat
    BY SecretsAssumption
  <1>2. requests \in 0 .. MaxRequests /\ requests < MaxRequests /\ requests' = requests + 1
    BY DEF Secrets!Ask, CountsSound
  <1> QED BY <1>1, <1>2

LEMMA SecretInitInv ==
  ASSUME Secrets!Init
  PROVE  SecretInv
  <1>1. ModelsSound
    BY DEF Secrets!Init, ModelsSound
  <1>2. SourcesSound
    BY DEF Secrets!Init, SourcesSound
  <1>3. RequestsSound
    BY DEF Secrets!Init, RequestsSound
  <1>4. latest \in Entered
    <2>1. <<>> \in [{} -> Secrets!Texts]
      OBVIOUS
    <2>2. <<>> \in UNION {[S -> Secrets!Texts] : S \in SUBSET Secrets!Sections}
      BY <2>1
    <2> QED BY <2>2, TextsApart DEF Secrets!Init, Entered
  <1>5. CountsSound
    <2>1. 0 \in 0 .. MaxRequests
      <3>1. MaxRequests \in Nat
        BY SecretsAssumption
      <3> QED BY <3>1
    <2> QED BY <1>4, <2>1 DEF Secrets!Init, CountsSound
  <1> QED BY <1>1, <1>2, <1>3, <1>5 DEF SecretInv

LEMMA CreateModelInv ==
  ASSUME SecretInv, NEW e \in Editors, NEW b \in Secrets!ModelBodies, Secrets!CreateModel(e, b)
  PROVE  SecretInv'
  <1>1. PICK row : row = Secrets!EncryptSensitive(Secrets!MergeForUpdate(NoModel, b))
    OBVIOUS
  <1>2. /\ model' = {row} /\ latest' = Secrets!EnteredModel(b) /\ rowsMade' = rowsMade \cup {"model"}
        /\ UNCHANGED <<datasource, secretRequest, secretOvertaken>>
    BY <1>1 DEF Secrets!CreateModel, Secrets!MergeForCreate, NoModel
  <1>3. latest.credentials = Secrets!Blank /\ latest \in Entered
    BY DEF SecretInv, ModelsSound, CountsSound, Secrets!CreateModel
  <1>4. /\ SoundModel(row)
        /\ latest' \in Entered /\ latest'.sections = latest.sections
        /\ row.apiKey.text = latest'.apiKey
        /\ IF row.credentials = Secrets!NoConfig THEN latest'.credentials = Secrets!Blank
           ELSE row.credentials.text = latest'.credentials
    BY <1>1, <1>2, <1>3, NoModelIsSound, ModelMerged
  <1>5. row \in Secrets!ModelRows
    BY <1>4 DEF SoundModel
  <1>6. ModelsSound'
    BY <1>2, <1>4, <1>5 DEF ModelsSound, ModelUpToDate, SoundModel, AtRest
  <1>7. SourcesSound'
    BY <1>2, <1>4, SourcesStay DEF SecretInv
  <1>8. RequestsSound'
    BY <1>2, RequestsStay DEF SecretInv, RequestsSound
  <1>9. CountsSound'
    BY <1>2, <1>4, AskCounts DEF Secrets!CreateModel, SecretInv, CountsSound
  <1> QED BY <1>6, <1>7, <1>8, <1>9 DEF SecretInv

LEMMA LoadModelInv ==
  ASSUME SecretInv, NEW e \in Editors, NEW op \in {"update", "remove"},
         Secrets!LoadModel(e, op)
  PROVE  SecretInv'
  <1>1. UNCHANGED <<model, datasource, rowsMade, latest, secretOvertaken>>
    BY DEF Secrets!LoadModel
  <1>2. PICK row \in model :
          secretRequest' = [secretRequest EXCEPT ![e] =
            {[kind |-> "model", op |-> op, copy |-> row]}]
    BY DEF Secrets!LoadModel
  <1>3. PICK r : r = [kind |-> "model", op |-> op, copy |-> row]
    OBVIOUS
  <1>4. SoundModel(row) /\ row \in Secrets!ModelRows /\ "model" \in rowsMade
    BY DEF SecretInv, ModelsSound, SoundModel
  <1>5. r \in ModelRequest /\ r.copy = row
    BY <1>3, <1>4 DEF ModelRequest
  <1>6. SoundRequest(r)
    BY <1>4, <1>5 DEF SoundRequest
  <1>7. DOMAIN secretRequest' = Editors /\ secretRequest'[e] = {r} /\ \A d \in Editors \ {e} : secretRequest'[d] = secretRequest[d]
    BY <1>2, <1>3 DEF SecretInv, RequestsSound
  <1>8. RequestsSound'
    BY <1>1, <1>4, <1>6, <1>7, RequestsStay DEF SecretInv
  <1>9. ModelsSound' /\ SourcesSound'
    BY <1>1, ModelsStay, SourcesStay DEF SecretInv
  <1>10. CountsSound'
    BY <1>1, AskCounts DEF Secrets!LoadModel, SecretInv, CountsSound
  <1> QED BY <1>8, <1>9, <1>10 DEF SecretInv

\* A request that ends leaves the others as they are.
LEMMA FinishRequests ==
  ASSUME SecretInv, NEW e \in Editors, Secrets!Finish(e)
  PROVE  RequestsSound' /\ requests' = requests /\ rowsMade' = rowsMade
  <1>1. requests' = requests /\ rowsMade' = rowsMade /\ secretRequest' = [secretRequest EXCEPT ![e] = {}]
    BY DEF Secrets!Finish
  <1>2. DOMAIN secretRequest' = Editors /\ secretRequest'[e] = {} /\ \A d \in Editors \ {e} : secretRequest'[d] = secretRequest[d]
    BY <1>1 DEF SecretInv, RequestsSound
  <1> QED BY <1>1, <1>2, RequestsStay DEF SecretInv

LEMMA HeldModel ==
  ASSUME SecretInv, NEW e \in Editors, NEW op, NEW r \in Secrets!Under(e, "model", op)
  PROVE  r \in ModelRequest /\ SoundModel(r.copy) /\ "model" \in rowsMade
  BY DEF SecretInv, RequestsSound, SoundRequest, SourceRequest, Secrets!Under

LEMMA HeldSource ==
  ASSUME SecretInv, NEW e \in Editors, NEW op, NEW r \in Secrets!Under(e, "source", op)
  PROVE  r \in SourceRequest /\ SoundSource(r.copy)
  BY DEF SecretInv, RequestsSound, SoundRequest, ModelRequest, Secrets!Under

LEMMA SaveModelInv ==
  ASSUME SecretInv, NEW e \in Editors,
         NEW body \in Secrets!ModelBodies \cup {Secrets!NameOnly}, Secrets!SaveModel(e, body)
  PROVE  SecretInv'
  <1>1. PICK r \in Secrets!Under(e, "model", "update") :
          /\ model' = {Secrets!Saved(r.copy, body)}
          /\ latest' = IF body = Secrets!NameOnly THEN latest ELSE Secrets!EnteredModel(body)
          /\ secretOvertaken' = IF model = {r.copy} THEN secretOvertaken ELSE secretOvertaken \cup {"model"}
          /\ Secrets!Finish(e) /\ UNCHANGED datasource
    BY DEF Secrets!SaveModel
  <1>2. r \in ModelRequest /\ SoundModel(r.copy) /\ "model" \in rowsMade
    BY HeldModel
  <1>3. RequestsSound' /\ requests' = requests /\ rowsMade' = rowsMade
    BY <1>1, FinishRequests
  <1>4. latest \in Entered
    BY DEF SecretInv, CountsSound
  <1>5. PICK old : old = r.copy
    OBVIOUS
  <1>6. PICK row : row = Secrets!Saved(r.copy, body)
    OBVIOUS
  <1>7. ASSUME "model" \notin secretOvertaken' PROVE ModelUpToDate(old)
    BY <1>1, <1>5, <1>7 DEF SecretInv, ModelsSound
  <1>8. /\ SoundModel(row) /\ latest' \in Entered /\ latest'.sections = latest.sections
        /\ ModelUpToDate(old) =>
             /\ row.apiKey.text = latest'.apiKey
             /\ IF row.credentials = Secrets!NoConfig THEN latest'.credentials = Secrets!Blank
                ELSE row.credentials.text = latest'.credentials
    <2>1. CASE body = Secrets!NameOnly
      BY <1>1, <1>2, <1>4, <1>5, <1>6, <2>1 DEF Secrets!Saved, ModelUpToDate
    <2>2. CASE body # Secrets!NameOnly
      <3>1. body \in Secrets!ModelBodies /\ row = Secrets!EncryptSensitive(Secrets!MergeForUpdate(old, body))
            /\ latest' = Secrets!EnteredModel(body)
        BY <1>1, <1>2, <1>5, <1>6, <2>2 DEF Secrets!Saved
      <3>2. SoundModel(old)
        BY <1>2, <1>5
      <3> QED BY <1>4, <3>1, <3>2, ModelMerged DEF ModelUpToDate
    <2> QED BY <2>1, <2>2
  <1>9. row \in Secrets!ModelRows
    BY <1>8 DEF SoundModel
  <1>10. ModelsSound'
    BY <1>1, <1>2, <1>3, <1>6, <1>7, <1>8, <1>9 DEF ModelsSound, ModelUpToDate, SoundModel, AtRest
  <1>11. SourcesSound'
    BY <1>1, <1>8, SourcesStay DEF SecretInv
  <1>12. CountsSound'
    BY <1>1, <1>3, <1>8 DEF SecretInv, CountsSound
  <1> QED BY <1>3, <1>10, <1>11, <1>12 DEF SecretInv

LEMMA RemoveModelInv ==
  ASSUME SecretInv, NEW e \in Editors, Secrets!RemoveModel(e)
  PROVE  SecretInv'
  <1>1. PICK r \in Secrets!Under(e, "model", "remove") : TRUE
    BY DEF Secrets!RemoveModel
  <1>2. model' = {} /\ Secrets!Finish(e) /\ UNCHANGED <<datasource, latest, secretOvertaken>>
    BY DEF Secrets!RemoveModel
  <1>3. RequestsSound' /\ requests' = requests /\ rowsMade' = rowsMade
    BY <1>2, FinishRequests
  <1>4. "model" \in rowsMade
    BY <1>1, HeldModel
  <1>5. ModelsSound'
    BY <1>2, <1>3, <1>4 DEF ModelsSound
  <1>6. SourcesSound' /\ CountsSound'
    BY <1>2, <1>3, SourcesStay DEF SecretInv, CountsSound
  <1> QED BY <1>3, <1>5, <1>6 DEF SecretInv

\* The parts of a config, of a body or of a row.
LEMMA ConfigParts ==
  ASSUME NEW config \in Secrets!Configs
  PROVE  DOMAIN config \subseteq Secrets!Sections /\ \A s \in DOMAIN config : config[s] \in Secrets!Secret
  BY DEF Secrets!Configs

LEMMA IsConfig ==
  ASSUME NEW config, NEW S \in SUBSET Secrets!Sections, config \in [S -> Secrets!Secret]
  PROVE  config \in Secrets!Configs
  BY DEF Secrets!Configs

LEMMA EmptyConfig == <<>> \in Secrets!Configs /\ DOMAIN <<>> = {}
  <1>1. <<>> \in [{} -> Secrets!Secret] /\ DOMAIN <<>> = {}
    OBVIOUS
  <1> QED BY <1>1, IsConfig

LEMMA SectionsRead ==
  ASSUME NEW src \in Secrets!Sources
  PROVE  Secrets!SectionOf[src] \in Secrets!Sections /\ src \in {"clickhouse", "tempo", "custom_api"} /\ src # Secrets!Keep
  BY DEF Secrets!Sources, Secrets!SectionOf, Secrets!Sections, Secrets!Keep

LEMMA SourceBodyTypes ==
  ASSUME NEW b \in Secrets!SourceBodies
  PROVE  /\ b.source \in Secrets!Sources \cup {Secrets!Keep} /\ b.url \in {Secrets!Keep, "given", "none"}
         /\ b.config \in Secrets!Configs
         /\ \A s \in DOMAIN b.config : b.config[s].depth = 0
         /\ DOMAIN b.config = {} => b.config = <<>>
  <1>1. /\ b.source \in Secrets!Sources \cup {Secrets!Keep} /\ b.url \in {Secrets!Keep, "given", "none"}
        /\ b.config = <<>> \/ \E s \in Secrets!Sections : b.config \in [{s} -> {Secrets!Plain(t) : t \in Secrets!Entries}]
    BY DEF Secrets!SourceBodies
  <1>2. CASE b.config = <<>>
    BY <1>1, <1>2, EmptyConfig
  <1>3. ASSUME NEW s \in Secrets!Sections, b.config \in [{s} -> {Secrets!Plain(t) : t \in Secrets!Entries}]
        PROVE  /\ b.config \in Secrets!Configs /\ DOMAIN b.config = {s}
               /\ b.config[s].depth = 0
    <2>1. PICK t \in Secrets!Entries : b.config[s] = Secrets!Plain(t)
      BY <1>3
    <2>2. b.config[s] \in Secrets!Secret /\ b.config[s].depth = 0
      BY <2>1, PlainTexts, TextsApart
    <2>3. b.config \in [{s} -> Secrets!Secret] /\ DOMAIN b.config = {s}
      BY <1>3, <2>2
    <2> QED BY <2>2, <2>3, IsConfig
  <1> QED BY <1>1, <1>2, <1>3

\* The sections of a config after its source's section was encrypted.
LEMMA ConfigEncrypted ==
  ASSUME NEW src \in Secrets!Sources, NEW config \in Secrets!Configs, NEW c, c = Secrets!EncryptConfig(src, config),
         \A s \in DOMAIN config : AtRest(config[s]) \/ config[s].depth = 0
  PROVE  /\ c \in Secrets!Configs /\ DOMAIN c = DOMAIN config
         /\ \A s \in DOMAIN config :
              /\ c[s].text = config[s].text /\ (AtRest(c[s]) \/ c[s].depth = 0)
              /\ AtRest(config[s]) \/ s = Secrets!SectionOf[src] => AtRest(c[s])
  <1>1. DOMAIN config \subseteq Secrets!Sections /\ \A s \in DOMAIN config : config[s] \in Secrets!Secret
    BY ConfigParts
  <1>2. DOMAIN c = DOMAIN config
    BY DEF Secrets!EncryptConfig
  <1>3. ASSUME NEW s \in DOMAIN config
        PROVE  /\ c[s] \in Secrets!Secret /\ c[s].text = config[s].text /\ (AtRest(c[s]) \/ c[s].depth = 0)
               /\ AtRest(config[s]) \/ s = Secrets!SectionOf[src] => AtRest(c[s])
    <2>1. PICK x \in Secrets!Secret : x = config[s]
      BY <1>1
    <2>2. c[s] = IF s = Secrets!SectionOf[src] THEN Secrets!Encrypted(x) ELSE x
      BY <2>1 DEF Secrets!EncryptConfig
    <2>3. AtRest(x) \/ x.depth = 0
      BY <2>1
    <2>4. AtRest(Secrets!Encrypted(x)) /\ Secrets!Encrypted(x) \in Secrets!Secret /\ Secrets!Encrypted(x).text = x.text
      BY <2>3, EncryptedRests
    <2> QED BY <2>1, <2>2, <2>3, <2>4
  <1>4. c \in [DOMAIN config -> Secrets!Secret]
    BY <1>2, <1>3 DEF Secrets!EncryptConfig
  <1>5. c \in Secrets!Configs
    BY <1>1, <1>4, IsConfig
  <1> QED BY <1>2, <1>3, <1>5

\* The sections of the new config, and for the rest those of the old one.
MergesTo(c, old, new) ==
  /\ c \in Secrets!Configs /\ DOMAIN c = DOMAIN old \cup DOMAIN new
  /\ \A s \in DOMAIN new : c[s] = new[s]
  /\ \A s \in DOMAIN old \ DOMAIN new : c[s] = old[s]

LEMMA ConfigMerged ==
  ASSUME NEW old \in Secrets!Configs, NEW new \in Secrets!Configs
  PROVE  MergesTo(Secrets!MergeConfig(old, new), old, new)
  <1> PICK c : c = Secrets!MergeConfig(old, new)
    OBVIOUS
  <1>1. /\ DOMAIN old \subseteq Secrets!Sections /\ \A s \in DOMAIN old : old[s] \in Secrets!Secret
        /\ DOMAIN new \subseteq Secrets!Sections /\ \A s \in DOMAIN new : new[s] \in Secrets!Secret
    BY ConfigParts
  <1>2. DOMAIN c = DOMAIN old \cup DOMAIN new
    BY DEF Secrets!MergeConfig
  <1>3. c \in [DOMAIN old \cup DOMAIN new -> Secrets!Secret]
    BY <1>1 DEF Secrets!MergeConfig
  <1>4. c \in Secrets!Configs
    BY <1>1, <1>3, IsConfig
  <1>5. MergesTo(c, old, new)
    BY <1>2, <1>4 DEF Secrets!MergeConfig, MergesTo
  <1> QED BY <1>5, Zenon

\* The texts after a save whose config was given.
LEMMA ConfigEntered ==
  ASSUME latest \in Entered, NEW config \in Secrets!Configs,
         NEW after, after = Secrets!EnteredConfig(config)
  PROVE  /\ after \in Entered /\ after.apiKey = latest.apiKey /\ after.credentials = latest.credentials
         /\ DOMAIN after.sections = DOMAIN latest.sections \cup DOMAIN config
         /\ \A s \in DOMAIN config : after.sections[s] = config[s].text
         /\ \A s \in DOMAIN latest.sections \ DOMAIN config : after.sections[s] = latest.sections[s]
  <1>1. PICK was : was = latest.sections
    OBVIOUS
  <1>2. DOMAIN was \subseteq Secrets!Sections /\ \A s \in DOMAIN was : was[s] \in Secrets!Texts
    BY <1>1 DEF Entered
  <1>3. DOMAIN config \subseteq Secrets!Sections /\ \A s \in DOMAIN config : config[s].text \in Secrets!Texts
    BY ConfigParts, SecretsApart
  <1>4. PICK is : is = [s \in DOMAIN was \cup DOMAIN config |->
                          IF s \in DOMAIN config THEN config[s].text ELSE was[s]]
    OBVIOUS
  <1>5. is \in [DOMAIN was \cup DOMAIN config -> Secrets!Texts]
    BY <1>2, <1>3, <1>4
  <1>6. is \in UNION {[S -> Secrets!Texts] : S \in SUBSET Secrets!Sections}
    BY <1>2, <1>3, <1>5
  <1>7. after = [latest EXCEPT !.sections = is]
    BY <1>1, <1>4 DEF Secrets!EnteredConfig
  <1>8. after \in Entered /\ after.apiKey = latest.apiKey /\ after.credentials = latest.credentials
        /\ after.sections = is
    BY <1>6, <1>7 DEF Entered
  <1> QED BY <1>1, <1>4, <1>8

\* A source that has what it needs still does with more sections.
LEMMA ValidWithMore ==
  ASSUME NEW src \in Secrets!Sources, NEW url, NEW c, NEW d, DOMAIN c \subseteq DOMAIN d,
         Secrets!ValidSource(src, url, c)
  PROVE  Secrets!ValidSource(src, url, d)
  <1>1. src \in {"clickhouse", "tempo", "custom_api"}
    BY SectionsRead
  <1> QED BY <1>1 DEF Secrets!ValidSource

LEMMA CreateSourceInv ==
  ASSUME SecretInv, NEW e \in Editors, NEW b \in Secrets!SourceBodies, Secrets!CreateSource(e, b)
  PROVE  SecretInv'
  <1>1. /\ b.source \in Secrets!Sources \cup {Secrets!Keep} /\ b.url \in {Secrets!Keep, "given", "none"}
        /\ b.config \in Secrets!Configs
        /\ \A s \in DOMAIN b.config : b.config[s].depth = 0
    BY SourceBodyTypes
  <1>2. b.source \in Secrets!Sources
    BY <1>1 DEF Secrets!CreateSource
  <1>3. PICK url : url = IF b.url = Secrets!Keep THEN "none" ELSE b.url
    OBVIOUS
  <1>4. PICK c : c = Secrets!EncryptConfig(b.source, b.config)
    OBVIOUS
  <1>5. PICK astray : astray = Secrets!Astray(b.source, {}, b.config)
    OBVIOUS
  <1>6. PICK row : row = [source |-> b.source, url |-> url, config |-> c, unchecked |-> FALSE,
                          astray |-> astray]
    OBVIOUS
  <1>7. /\ datasource' = {row} /\ latest' = Secrets!EnteredConfig(b.config) /\ rowsMade' = rowsMade \cup {"source"}
        /\ Secrets!ValidSource(b.source, url, b.config)
        /\ UNCHANGED <<model, secretRequest, secretOvertaken>>
    BY <1>3, <1>4, <1>5, <1>6 DEF Secrets!CreateSource
  <1>8. /\ c \in Secrets!Configs /\ DOMAIN c = DOMAIN b.config
        /\ \A s \in DOMAIN c :
             /\ c[s].text = b.config[s].text /\ (AtRest(c[s]) \/ c[s].depth = 0)
             /\ s = Secrets!SectionOf[b.source] => AtRest(c[s])
    BY <1>1, <1>2, <1>4, ConfigEncrypted
  <1>9. astray = DOMAIN b.config \ {Secrets!SectionOf[b.source]} /\ DOMAIN b.config \subseteq Secrets!Sections
    BY <1>1, <1>5, ConfigParts DEF Secrets!Astray
  <1>10. url \in {"given", "none"}
    BY <1>1, <1>3
  <1>11. /\ row.source = b.source /\ row.url = url /\ row.config = c /\ row.astray = astray
         /\ row.unchecked = FALSE
    BY <1>6
  <1>12. row \in Secrets!SourceRows
    BY <1>2, <1>6, <1>8, <1>9, <1>10 DEF Secrets!SourceRows, Secrets!SourceRowsWith
  <1>13. Secrets!ValidSource(row.source, row.url, row.config)
    BY <1>2, <1>7, <1>8, <1>11, ValidWithMore
  <1>14. SoundSource(row)
    BY <1>1, <1>8, <1>9, <1>11, <1>12, <1>13 DEF SoundSource
  <1>15. latest \in Entered
    BY DEF SecretInv, CountsSound
  <1>16. /\ latest' \in Entered /\ latest'.apiKey = latest.apiKey
         /\ latest'.credentials = latest.credentials
         /\ DOMAIN latest'.sections = DOMAIN latest.sections \cup DOMAIN b.config
         /\ \A s \in DOMAIN b.config : latest'.sections[s] = b.config[s].text
    BY <1>1, <1>7, <1>15, ConfigEntered
  <1>17. SourcesSound'
    BY <1>7, <1>8, <1>11, <1>12, <1>14, <1>16 DEF SourcesSound, SourceUpToDate, SoundSource, AtRest
  <1>18. ModelsSound'
    BY <1>7, <1>16, ModelsStay DEF SecretInv
  <1>19. RequestsSound'
    BY <1>7, RequestsStay DEF SecretInv, RequestsSound
  <1>20. CountsSound'
    BY <1>7, <1>16, AskCounts DEF Secrets!CreateSource, SecretInv, CountsSound
  <1> QED BY <1>17, <1>18, <1>19, <1>20 DEF SecretInv

LEMMA LoadSourceInv ==
  ASSUME SecretInv, NEW e \in Editors, NEW op \in {"update", "remove"},
         Secrets!LoadSource(e, op)
  PROVE  SecretInv'
  <1>1. UNCHANGED <<model, datasource, rowsMade, latest, secretOvertaken>>
    BY DEF Secrets!LoadSource
  <1>2. PICK row \in datasource :
          secretRequest' = [secretRequest EXCEPT ![e] =
            {[kind |-> "source", op |-> op, copy |-> row]}]
    BY DEF Secrets!LoadSource
  <1>3. PICK r : r = [kind |-> "source", op |-> op, copy |-> row]
    OBVIOUS
  <1>4. SoundSource(row) /\ row \in Secrets!SourceRows
    BY DEF SecretInv, SourcesSound, SoundSource
  <1>5. r \in SourceRequest /\ r.copy = row /\ r.kind = "source"
    BY <1>3, <1>4 DEF SourceRequest
  <1>6. SoundRequest(r)
    BY <1>4, <1>5 DEF SoundRequest
  <1>7. DOMAIN secretRequest' = Editors /\ secretRequest'[e] = {r} /\ \A d \in Editors \ {e} : secretRequest'[d] = secretRequest[d]
    BY <1>2, <1>3 DEF SecretInv, RequestsSound
  <1>8. RequestsSound'
    BY <1>1, <1>5, <1>6, <1>7, RequestsStay DEF SecretInv
  <1>9. ModelsSound' /\ SourcesSound'
    BY <1>1, ModelsStay, SourcesStay DEF SecretInv
  <1>10. CountsSound'
    BY <1>1, AskCounts DEF Secrets!LoadSource, SecretInv, CountsSound
  <1> QED BY <1>8, <1>9, <1>10 DEF SecretInv

\* What a request that is accepted saves: sound, with the texts of its body and
\* for the rest those of the copy.
RowAfter(r) ==
  [source |-> Secrets!SourceAfter(r), url |-> Secrets!UrlAfter(r), config |-> Secrets!ConfigAfter(r),
   unchecked |-> IF Secrets!Validated(r) THEN FALSE ELSE r.copy.unchecked \/ r.body.source # Secrets!Keep,
   astray |-> IF r.body.config = <<>> THEN r.copy.astray
              ELSE Secrets!Astray(Secrets!SourceAfter(r), r.copy.astray, r.body.config)]

SavesTo(row, r) ==
  /\ SoundSource(row)
  /\ DOMAIN row.config = DOMAIN r.copy.config \cup DOMAIN r.body.config
  /\ \A s \in DOMAIN r.body.config : row.config[s].text = r.body.config[s].text
  /\ \A s \in DOMAIN r.copy.config \ DOMAIN r.body.config :
       row.config[s].text = r.copy.config[s].text

LEMMA SourceMerged ==
  ASSUME NEW r \in SourceCall, SoundSource(r.copy), Secrets!Acceptable(r),
         NEW row, row = RowAfter(r)
  PROVE  SavesTo(row, r)
  <1>1. PICK b : b = r.body
    OBVIOUS
  <1>2. PICK old : old = r.copy
    OBVIOUS
  <1>3. /\ b.source \in Secrets!Sources \cup {Secrets!Keep} /\ b.url \in {Secrets!Keep, "given", "none"}
        /\ b.config \in Secrets!Configs
        /\ \A s \in DOMAIN b.config : b.config[s].depth = 0
        /\ DOMAIN b.config = {} => b.config = <<>>
    BY <1>1, SourceBodyTypes DEF SourceCall
  <1>4. /\ old \in Secrets!SourceRows /\ old.source \in Secrets!Sources /\ old.url \in {"given", "none"}
        /\ old.config \in Secrets!Configs /\ old.unchecked \in BOOLEAN /\ old.astray \subseteq Secrets!Sections
        /\ \A s \in DOMAIN old.config : AtRest(old.config[s]) \/ old.config[s].depth = 0
        /\ \A s \in DOMAIN old.config \ old.astray : AtRest(old.config[s])
        /\ ~old.unchecked => Secrets!ValidSource(old.source, old.url, old.config)
    BY <1>2 DEF SoundSource, Secrets!SourceRows, Secrets!SourceRowsWith
  <1>5. PICK src : src = IF b.source = Secrets!Keep THEN old.source ELSE b.source
    OBVIOUS
  <1>6. PICK url : url = IF b.url = Secrets!Keep THEN old.url ELSE b.url
    OBVIOUS
  <1>7. PICK given : given = (b.url # Secrets!Keep \/ b.config # <<>>)
    OBVIOUS
  <1>8. PICK merged : merged = Secrets!MergeConfig(old.config, b.config)
    OBVIOUS
  <1>9. PICK c : c = IF b.config = <<>> THEN old.config ELSE Secrets!EncryptConfig(src, merged)
    OBVIOUS
  <1>10. PICK astray : astray = IF b.config = <<>> THEN old.astray
                                ELSE Secrets!Astray(src, old.astray, b.config)
    OBVIOUS
  <1>11. PICK unchecked : unchecked = IF given THEN FALSE ELSE old.unchecked \/ b.source # Secrets!Keep
    OBVIOUS
  <1>a. PICK z : z = [source |-> src, url |-> url, config |-> c, unchecked |-> unchecked,
                      astray |-> astray]
    OBVIOUS
  <1>12. row = z
    BY <1>a, <1>1, <1>2, <1>5, <1>6, <1>7, <1>8, <1>9, <1>10, <1>11
       DEF RowAfter, Secrets!SourceAfter, Secrets!UrlAfter, Secrets!ConfigAfter, Secrets!Validated
  <1>13. given => Secrets!ValidSource(src, url, IF b.config = <<>> THEN old.config ELSE b.config)
    BY <1>1, <1>2, <1>5, <1>6, <1>7 DEF Secrets!Acceptable, Secrets!SourceAfter, Secrets!UrlAfter,
       Secrets!Validated
  <1>14. src \in Secrets!Sources /\ url \in {"given", "none"} /\ unchecked \in BOOLEAN
    BY <1>3, <1>4, <1>5, <1>6, <1>11
  <1>15. /\ merged \in Secrets!Configs /\ DOMAIN merged = DOMAIN old.config \cup DOMAIN b.config
         /\ \A s \in DOMAIN b.config : merged[s] = b.config[s]
         /\ \A s \in DOMAIN old.config \ DOMAIN b.config : merged[s] = old.config[s]
    <2>1. old.config \in Secrets!Configs /\ b.config \in Secrets!Configs
      BY <1>3, <1>4
    <2>2. MergesTo(merged, old.config, b.config)
      BY <1>8, <2>1, ConfigMerged, Zenon
    <2> QED BY <2>2 DEF MergesTo
  <1>16. \A s \in DOMAIN merged : AtRest(merged[s]) \/ merged[s].depth = 0
    BY <1>3, <1>4, <1>15
  <1>17. /\ c \in Secrets!Configs /\ DOMAIN c = DOMAIN old.config \cup DOMAIN b.config
         /\ \A s \in DOMAIN b.config : c[s].text = b.config[s].text
         /\ \A s \in DOMAIN old.config \ DOMAIN b.config :
              c[s].text = old.config[s].text /\ (AtRest(old.config[s]) => AtRest(c[s]))
         /\ b.config # <<>> /\ Secrets!SectionOf[src] \in DOMAIN c => AtRest(c[Secrets!SectionOf[src]])
         /\ \A s \in DOMAIN c : AtRest(c[s]) \/ c[s].depth = 0
    <2>1. CASE b.config = <<>>
      <3>1. DOMAIN b.config = {}
        BY <2>1, EmptyConfig
      <3> QED BY <1>4, <1>9, <2>1, <3>1
    <2>2. CASE b.config # <<>>
      <3>1. /\ c \in Secrets!Configs /\ DOMAIN c = DOMAIN merged
            /\ \A s \in DOMAIN merged :
                 /\ c[s].text = merged[s].text /\ (AtRest(c[s]) \/ c[s].depth = 0)
                 /\ AtRest(merged[s]) \/ s = Secrets!SectionOf[src] => AtRest(c[s])
        BY <1>9, <1>14, <1>15, <1>16, <2>2, ConfigEncrypted
      <3> QED BY <1>15, <3>1
    <2> QED BY <2>1, <2>2
  <1>18. astray \subseteq Secrets!Sections
    BY <1>3, <1>4, <1>10, ConfigParts DEF Secrets!Astray
  <1>19. \A s \in DOMAIN c \ astray : AtRest(c[s])
    <2> TAKE s \in DOMAIN c \ astray
    <2>1. CASE b.config = <<>>
      BY <1>4, <1>9, <1>10, <2>1
    <2>2. CASE b.config # <<>>
      <3>1. astray = (old.astray \ {Secrets!SectionOf[src]}) \cup (DOMAIN b.config \ {Secrets!SectionOf[src]})
        BY <1>10, <2>2 DEF Secrets!Astray
      <3>2. CASE s = Secrets!SectionOf[src]
        BY <1>17, <2>2, <3>2
      <3>3. CASE s # Secrets!SectionOf[src]
        <4>1. s \in DOMAIN old.config \ DOMAIN b.config /\ s \notin old.astray
          BY <1>17, <3>1, <3>3
        <4> QED BY <1>4, <1>17, <4>1
      <3> QED BY <3>2, <3>3
    <2> QED BY <2>1, <2>2
  <1>20. ~unchecked => Secrets!ValidSource(src, url, c)
    <2>1. CASE given
      <3>1. PICK d : d = IF b.config = <<>> THEN old.config ELSE b.config
        OBVIOUS
      <3>2. DOMAIN d \subseteq DOMAIN c /\ Secrets!ValidSource(src, url, d)
        BY <1>13, <1>17, <2>1, <3>1
      <3> QED BY <1>14, <3>2, ValidWithMore
    <2>2. CASE ~given
      <3>1. b.url = Secrets!Keep /\ b.config = <<>> /\ url = old.url /\ c = old.config
        BY <1>6, <1>7, <1>9, <2>2
      <3>2. ~unchecked => ~old.unchecked /\ src = old.source
        BY <1>5, <1>11, <2>2
      <3> QED BY <1>4, <3>1, <3>2
    <2> QED BY <2>1, <2>2
  <1>b. /\ z.source = src /\ z.url = url /\ z.config = c /\ z.unchecked = unchecked
        /\ z.astray = astray
    BY <1>a
  <1>c. z \in Secrets!SourceRows
    BY <1>a, <1>14, <1>17, <1>18 DEF Secrets!SourceRows, Secrets!SourceRowsWith
  <1>21. /\ row.source = src /\ row.url = url /\ row.config = c /\ row.unchecked = unchecked
         /\ row.astray = astray
    BY <1>b, <1>12, Zenon
  <1>22. row \in Secrets!SourceRows
    BY <1>c, <1>12, Zenon
  <1>24. SoundSource(row)
    BY <1>17, <1>19, <1>20, <1>21, <1>22 DEF SoundSource
  <1> QED BY <1>1, <1>2, <1>17, <1>21, <1>24 DEF SavesTo

LEMMA SaveSourceInv ==
  ASSUME SecretInv, NEW e \in Editors, NEW body \in Secrets!SourceBodies, Secrets!SaveSource(e, body)
  PROVE  SecretInv'
  <1>1. PICK r \in Secrets!Calls(e, body) :
          /\ Secrets!Acceptable(r)
          /\ datasource' = {RowAfter(r)}
          /\ latest' = Secrets!EnteredConfig(r.body.config)
          /\ secretOvertaken' = IF datasource = {r.copy} THEN secretOvertaken ELSE secretOvertaken \cup {"source"}
          /\ Secrets!Finish(e) /\ UNCHANGED model
    BY DEF Secrets!SaveSource, RowAfter
  <1>2. r \in SourceCall /\ SoundSource(r.copy)
    <2>1. PICK taken \in Secrets!Under(e, "source", "update") : r = [copy |-> taken.copy, body |-> body]
      BY DEF Secrets!Calls
    <2>2. taken.copy \in Secrets!SourceRows /\ SoundSource(taken.copy)
      BY HeldSource DEF SourceRequest
    <2>3. r.copy = taken.copy
      BY <2>1
    <2> QED BY <2>1, <2>2, <2>3 DEF SourceCall
  <1>3. RequestsSound' /\ requests' = requests /\ rowsMade' = rowsMade
    BY <1>1, FinishRequests
  <1>4. latest \in Entered
    BY DEF SecretInv, CountsSound
  <1>5. PICK row : row = RowAfter(r)
    OBVIOUS
  <1>6. /\ SoundSource(row)
        /\ DOMAIN row.config = DOMAIN r.copy.config \cup DOMAIN r.body.config
        /\ \A s \in DOMAIN r.body.config : row.config[s].text = r.body.config[s].text
        /\ \A s \in DOMAIN r.copy.config \ DOMAIN r.body.config :
             row.config[s].text = r.copy.config[s].text
    BY <1>1, <1>2, <1>5, SourceMerged, Zenon DEF SavesTo
  <1>7. datasource' = {row}
    BY <1>1, <1>5, Zenon
  <1>8. PICK config : config = r.body.config
    OBVIOUS
  <1>9. config \in Secrets!Configs
    BY <1>2, <1>8, SourceBodyTypes DEF SourceCall
  <1>10. /\ latest' \in Entered /\ latest'.apiKey = latest.apiKey
         /\ latest'.credentials = latest.credentials
         /\ DOMAIN latest'.sections = DOMAIN latest.sections \cup DOMAIN config
         /\ \A s \in DOMAIN config : latest'.sections[s] = config[s].text
         /\ \A s \in DOMAIN latest.sections \ DOMAIN config :
              latest'.sections[s] = latest.sections[s]
    <2>1. latest' = Secrets!EnteredConfig(config)
      BY <1>1, <1>8, Zenon
    <2> QED BY <1>4, <1>9, <2>1, ConfigEntered
  <1>11. ASSUME "source" \notin secretOvertaken' PROVE SourceUpToDate(r.copy) /\ "source" \notin secretOvertaken
    <2>1. datasource = {r.copy} /\ "source" \notin secretOvertaken
      BY <1>1, <1>11
    <2> QED BY <2>1 DEF SecretInv, SourcesSound
  <1>12. ASSUME "source" \notin secretOvertaken', NEW s \in DOMAIN row.config
         PROVE  s \in DOMAIN latest'.sections /\ row.config[s].text = latest'.sections[s]
    <2>1. CASE s \in DOMAIN config
      BY <1>6, <1>8, <1>10, <2>1
    <2>2. CASE s \notin DOMAIN config
      <3>1. s \in DOMAIN r.copy.config \ DOMAIN r.body.config
        BY <1>6, <1>8, <1>12, <2>2
      <3>2. s \in DOMAIN latest.sections /\ r.copy.config[s].text = latest.sections[s]
        BY <1>11, <1>12, <3>1 DEF SourceUpToDate
      <3> QED BY <1>6, <1>10, <2>2, <3>1, <3>2
    <2> QED BY <2>1, <2>2
  <1>13. row \in Secrets!SourceRows
    BY <1>6 DEF SoundSource
  <1>14. SourcesSound'
    BY <1>6, <1>7, <1>12, <1>13 DEF SourcesSound, SourceUpToDate, SoundSource, AtRest
  <1>15. ModelsSound'
    BY <1>1, <1>3, <1>10, ModelsStay DEF SecretInv
  <1>16. CountsSound'
    BY <1>1, <1>3, <1>10 DEF SecretInv, CountsSound
  <1> QED BY <1>3, <1>14, <1>15, <1>16 DEF SecretInv

\* A request that is refused, or removes the row.
LEMMA EndSourceInv ==
  ASSUME SecretInv, NEW e \in Editors, (\E b \in Secrets!SourceBodies : Secrets!RefuseSource(e, b)) \/ Secrets!RemoveSource(e)
  PROVE  SecretInv'
  <1>1. Secrets!Finish(e) /\ UNCHANGED <<model, latest, secretOvertaken>> /\ (datasource' = datasource \/ datasource' = {})
    BY DEF Secrets!RefuseSource, Secrets!RemoveSource
  <1>2. RequestsSound' /\ requests' = requests /\ rowsMade' = rowsMade
    BY <1>1, FinishRequests
  <1>3. ModelsSound' /\ CountsSound'
    BY <1>1, <1>2, ModelsStay DEF SecretInv, CountsSound
  <1>4. CASE datasource' = datasource
    BY <1>1, <1>2, <1>3, <1>4, SourcesStay DEF SecretInv
  <1>5. CASE datasource' = {}
    BY <1>2, <1>3, <1>5 DEF SecretInv, SourcesSound
  <1> QED BY <1>1, <1>4, <1>5

LEMMA SecretNextInv ==
  ASSUME SecretInv, [Secrets!Next]_(Secrets!vars)
  PROVE  SecretInv'
  <1>1. CASE UNCHANGED Secrets!vars
    <2>1. UNCHANGED <<model, datasource, secretRequest, requests, rowsMade, latest, secretOvertaken>>
      BY <1>1 DEF Secrets!vars
    <2>2. RequestsSound'
      BY <2>1 DEF SecretInv, RequestsSound, SoundRequest, SoundModel, SoundSource, AtRest
    <2> QED BY <2>1, <2>2, ModelsStay, SourcesStay DEF SecretInv, CountsSound
  <1>2. ASSUME NEW e \in Editors,
               \/ \E b \in Secrets!ModelBodies : Secrets!CreateModel(e, b)
               \/ \E op \in {"update", "remove"} : Secrets!LoadModel(e, op)
               \/ \E b \in Secrets!ModelBodies \cup {Secrets!NameOnly} : Secrets!SaveModel(e, b)
               \/ Secrets!RemoveModel(e)
        PROVE  SecretInv'
    BY <1>2, CreateModelInv, LoadModelInv, SaveModelInv, RemoveModelInv
  <1>3. ASSUME NEW e \in Editors,
               \/ \E b \in Secrets!SourceBodies : \/ Secrets!CreateSource(e, b)
                                               \/ Secrets!SaveSource(e, b) \/ Secrets!RefuseSource(e, b)
               \/ \E op \in {"update", "remove"} : Secrets!LoadSource(e, op)
               \/ Secrets!RemoveSource(e)
        PROVE  SecretInv'
    BY <1>3, CreateSourceInv, LoadSourceInv, SaveSourceInv, EndSourceInv
  <1> QED BY <1>1, <1>2, <1>3 DEF Secrets!Next

LEMMA SecretCardinality ==
  ASSUME NEW S
  PROVE  Secrets!Cardinality(S) = Cardinality(S)
  BY DEF Secrets!Cardinality, Cardinality

LEMMA SecretTypes ==
  ASSUME SecretInv
  PROVE  Secrets!TypeOK
  <1>1. \A S, x : S = {x} => Secrets!Cardinality(S) <= 1
    BY FS_Singleton, SecretCardinality
  <1>2. Secrets!Cardinality({}) <= 1
    BY FS_EmptySet, SecretCardinality
  <1>3. model \subseteq Secrets!ModelRows /\ Secrets!Cardinality(model) <= 1
    BY <1>1, <1>2 DEF SecretInv, ModelsSound
  <1>4. datasource \subseteq Secrets!SourceRows /\ Secrets!Cardinality(datasource) <= 1
    BY <1>1, <1>2 DEF SecretInv, SourcesSound
  <1>5. \A row \in datasource :
          \E S \in SUBSET Secrets!Sections : row \in Secrets!SourceRowsWith([S -> Secrets!Secret])
    BY <1>4 DEF Secrets!SourceRows, Secrets!SourceRowsWith, Secrets!Configs
  <1> QED BY <1>3, <1>4, <1>5 DEF Secrets!TypeOK, SecretInv, CountsSound

\* What a secret opens to, at rest or still in plain.
LEMMA SecretOpened ==
  ASSUME NEW x \in Secrets!Secret, AtRest(x) \/ x.depth = 0
  PROVE  Secrets!Decrypted(x) = Secrets!Readable(x.text)
  <1>1. x = [text |-> x.text, depth |-> x.depth] /\ x.text \in Secrets!Texts
    BY DEF Secrets!Secret
  <1>2. CASE x.depth = 0
    <2>1. x = Secrets!Plain(x.text)
      BY <1>1, <1>2 DEF Secrets!Plain
    <2>2. Secrets!IsEncrypted(x) <=> x.text = Secrets!Lookalike
      BY <1>2 DEF Secrets!IsEncrypted
    <2> QED BY <1>2, <2>1, <2>2 DEF Secrets!Decrypted, Secrets!Readable
  <1>3. CASE x.depth # 0
    <2>1. x.depth = 1 /\ x.text \notin {Secrets!Blank, Secrets!Lookalike}
      BY <1>3 DEF AtRest
    <2>2. Secrets!Decrypted(x) = [x EXCEPT !.depth = 0]
      BY <2>1 DEF Secrets!Decrypted, Secrets!IsEncrypted
    <2>3. [x EXCEPT !.depth = 0] = Secrets!Plain(x.text)
      BY <1>1 DEF Secrets!Plain
    <2> QED BY <2>1, <2>2, <2>3 DEF Secrets!Readable
  <1> QED BY <1>2, <1>3

\* What a model's secret is to a worker and to the lists.
LEMMA SecretSeen ==
  ASSUME NEW x, AtRest(x)
  PROVE  /\ Secrets!Decrypted(x) = Secrets!Readable(x.text)
         /\ IF x.text = Secrets!Blank THEN x = Secrets!Plain(Secrets!Blank) ELSE Secrets!MaskSecret(x) = Secrets!Hidden
         /\ Secrets!Decrypted(x) # Secrets!NoConfig /\ x # Secrets!NoConfig
  <1>1. x = [text |-> x.text, depth |-> x.depth] /\ x.text \in Secrets!Texts
    BY DEF AtRest, Secrets!Secret
  <1>2. x.depth = IF x.text \in {Secrets!Blank, Secrets!Lookalike} THEN 0 ELSE 1
    BY DEF AtRest
  <1>3. Secrets!Decrypted(x) = Secrets!Readable(x.text)
    BY SecretOpened DEF AtRest
  <1>4. IF x.text = Secrets!Blank THEN x = Secrets!Plain(Secrets!Blank) ELSE Secrets!MaskSecret(x) = Secrets!Hidden
    BY <1>1, <1>2 DEF Secrets!MaskSecret, Secrets!IsEncrypted, Secrets!Plain
  <1>5. x # Secrets!NoConfig
    BY SecretsApart DEF AtRest
  <1>6. Secrets!Unreadable # Secrets!NoConfig
    BY DEF Secrets!Unreadable, Secrets!NoConfig, Secrets!Plain
  <1> QED BY <1>1, <1>3, <1>4, <1>5, <1>6, PlainTexts DEF Secrets!Readable

LEMMA SecretInvImplies ==
  ASSUME SecretInv
  PROVE  Secrets!SecretSafety
  <1>1. Secrets!TypeOK
    BY SecretTypes
  <1>2. ASSUME NEW row \in model
        PROVE  /\ row \in Secrets!ModelRows
               /\ AtRest(row.apiKey) /\ (row.credentials # Secrets!NoConfig => AtRest(row.credentials))
               /\ "model" \notin secretOvertaken => ModelUpToDate(row)
    BY DEF SecretInv, ModelsSound, SoundModel
  <1>3. \A row \in model : \A f \in Secrets!Fields(row) : AtRest(row[f])
    BY <1>2 DEF Secrets!Fields
  <1>4. Secrets!ModelsRestEncrypted
    BY <1>3 DEF Secrets!ModelsRestEncrypted, AtRest
  <1>5. \A row \in model : "model" \notin secretOvertaken => \A f \in Secrets!Fields(row) : row[f].text = latest[f]
    BY <1>2 DEF Secrets!Fields, ModelUpToDate
  <1>6. ASSUME NEW row \in datasource
        PROVE  SoundSource(row) /\ ("source" \notin secretOvertaken => SourceUpToDate(row))
    BY DEF SecretInv, SourcesSound
  <1>7. Secrets!SectionsRestEncrypted
    BY <1>6 DEF Secrets!SectionsRestEncrypted, SoundSource, AtRest
  <1>8. Secrets!SourcesAreServed
    BY <1>6 DEF Secrets!SourcesAreServed, SoundSource
  <1>9. ASSUME NEW row \in model, NEW c, c = Secrets!DecryptSensitive(row), NEW f \in Secrets!Fields(c)
        PROVE  f \in Secrets!Fields(row) /\ c[f] = Secrets!Decrypted(row[f])
    <2>1. f \in {"apiKey", "credentials"}
      BY <1>9 DEF Secrets!Fields
    <2>2. c.credentials = IF row.credentials = Secrets!NoConfig THEN row.credentials ELSE Secrets!Decrypted(row.credentials)
      BY <1>9 DEF Secrets!DecryptSensitive, Secrets!Fields
    <2>3. f \in Secrets!Fields(row)
      BY <1>2, <1>9, <2>1, <2>2, SecretSeen DEF Secrets!Fields
    <2> QED BY <1>9, <2>1, <2>3 DEF Secrets!DecryptSensitive
  <1>10. ASSUME NEW row \in model, NEW c, c = Secrets!MaskSensitive(row), NEW f \in Secrets!Fields(c)
         PROVE  c[f] \in {Secrets!Hidden, Secrets!Plain(Secrets!Blank)}
    <2>1. f \in {"apiKey", "credentials"}
      BY <1>10 DEF Secrets!Fields
    <2>2. c.credentials = IF row.credentials # Secrets!NoConfig /\ row.credentials.text # Secrets!Blank
                          THEN Secrets!MaskSecret(row.credentials) ELSE row.credentials
      BY <1>10 DEF Secrets!MaskSensitive, Secrets!Fields
    <2>3. f \in Secrets!Fields(row)
      BY <1>2, <1>10, <2>1, <2>2 DEF Secrets!Fields
    <2>4. c[f] = IF row[f].text # Secrets!Blank THEN Secrets!MaskSecret(row[f]) ELSE row[f]
      BY <1>10, <2>1, <2>3 DEF Secrets!MaskSensitive
    <2> QED BY <1>3, <2>3, <2>4, SecretSeen
  <1>11. Secrets!ListsHideSecrets
    BY <1>10 DEF Secrets!ListsHideSecrets, Secrets!Listed
  <1>12. ASSUME "model" \notin secretOvertaken, NEW c \in Secrets!Opened, NEW f \in Secrets!Fields(c)
         PROVE  c[f] = Secrets!Readable(latest[f])
    <2>1. PICK row \in model : c = Secrets!DecryptSensitive(row)
      BY DEF Secrets!Opened
    <2>2. f \in Secrets!Fields(row) /\ c[f] = Secrets!Decrypted(row[f])
      BY <1>9, <2>1
    <2>3. AtRest(row[f]) /\ row[f].text = latest[f]
      BY <1>3, <1>5, <1>12, <2>2
    <2> QED BY <2>2, <2>3, SecretSeen
  <1>13. ASSUME "source" \notin secretOvertaken, NEW row \in datasource, NEW s, s = Secrets!SectionOf[row.source],
                s \in DOMAIN row.config
         PROVE  Secrets!Shown(row)[s] = Secrets!Readable(latest.sections[s])
    <2>1. PICK x : x = row.config[s]
      OBVIOUS
    <2>2. x.text = latest.sections[s] /\ (AtRest(x) \/ x.depth = 0)
      BY <1>6, <1>13, <2>1 DEF SourceUpToDate, SoundSource
    <2>3. x \in Secrets!Secret
      BY <1>6, <1>13, <2>1, ConfigParts DEF SoundSource, Secrets!SourceRows, Secrets!SourceRowsWith
    <2>4. Secrets!Shown(row)[s] = Secrets!Decrypted(x)
      BY <1>13, <2>1 DEF Secrets!Shown, Secrets!DecryptConfig
    <2> QED BY <2>2, <2>3, <2>4, SecretOpened
  <1>14. Secrets!OpensAsEntered
    BY <1>12, <1>13 DEF Secrets!OpensAsEntered
  <1> QED BY <1>1, <1>4, <1>7, <1>8, <1>11, <1>14 DEF Secrets!SecretSafety

(***************************************************************************)
(* However many requests overlap, and whatever secrets they give: those of *)
(* models, and those of the sections that data sources read unless entered *)
(* under another source, rest encrypted once, whatever merges they went    *)
(* through, or are empty or of the form of a cipher text and left as they  *)
(* are; what is opened is what was entered last, or cannot be opened at    *)
(* all when it was of that form, unless a save was computed from a row     *)
(* that another had replaced; the lists of models show stars only; and a   *)
(* data source has what its source needs unless its source was changed     *)
(* alone (ModelConfigurationService, DatasourceService,                    *)
(* DatasourceConfigEncryptionService, EncryptionService).                  *)
(***************************************************************************)
THEOREM SecretsAreSafe == Secrets!Spec => []SecretSafety
  <1>1. Secrets!Init => SecretInv
    BY SecretInitInv
  <1>2. SecretInv /\ [Secrets!Next]_(Secrets!vars) => SecretInv'
    BY SecretNextInv
  <1>3. SecretInv => SecretSafety
    BY SecretInvImplies DEF SecretSafety
  <1> QED BY <1>1, <1>2, <1>3, PTL DEF Secrets!Spec

-----------------------------------------------------------------------------
(***************************************************************************)
(* Traces.  What an operation has shown is still there when the next one   *)
(* looks: the trace only grows, and every search is for something that     *)
(* more spans cannot take away.  Each operation that showed the trace      *)
(* leaves such evidence behind, under the filter it was asked with, and    *)
(* the evidence is what the later operations find again.                   *)
(***************************************************************************)

Listing == {"search", "list", "conversation"}

\* The trace is there for a backend of this kind, and passes the filter.
Present(filtered) ==
  /\ trace # <<>>
  /\ Search!KeepsFull(IF source.kind = "jaeger" THEN Search!JaegerTrace ELSE Search!Stored, filtered)

\* Of Tempo, the trace has an alternative of the query before the last.
Beside(any) ==
  source.kind = "tempo" /\ \E i \in 1 .. Len(any) - 1 : any[i] \in Search!InSpans(Search!Stored)

\* A search by these alternatives finds the trace only there.
Found(any, filtered) == trace # <<>> /\ (Present(filtered) \/ (filtered /\ Beside(any)))

\* What an operation that showed the trace under this filter leaves behind.
Left(s, filtered) ==
  /\ s.op \in Listing /\ Found(s.any, filtered)
  /\ s.op = "list" => Search!Lists(filtered)
  /\ s.op = "conversation" => Present(filtered) /\ Search!InConversation(filtered)

Evidence(showing, filtered) == \A s \in showing : Left(s, filtered)

TraceTypes ==
  /\ source \in Backends /\ source \in Search!Source
  /\ stitching \in Seq(Search!Marks) /\ stitching # <<>>
  /\ trace \in Seq(Spans) /\ Len(trace) <= MaxSpans
  /\ filter \in BOOLEAN /\ known \subseteq Search!Showing
  /\ traceRequest \in [op : Search!Operations \cup {"none"}, at : {"idle", "search", "fetch"},
                  query : Search!Query, filter : BOOLEAN, known : SUBSET Search!Showing]

\* A request is at the step its operation has, asks what that operation asks,
\* and a conversation at its second step has found the trace at its first.
RequestFollows ==
  /\ traceRequest.at = "search" => traceRequest.op \in Listing
  /\ traceRequest.at = "fetch" => traceRequest.op \in {"open", "byIds", "conversation"}
  /\ traceRequest.op = "list" =>
       ~traceRequest.query.short /\ (source.kind = "tempo" => traceRequest.query.any = stitching)
  /\ traceRequest.op = "conversation" /\ traceRequest.at = "fetch" => Search!InConversation(traceRequest.filter)

TraceInv ==
  /\ TraceTypes /\ RequestFollows
  /\ Evidence(known, filter) /\ Evidence(traceRequest.known, traceRequest.filter)
  /\ Search!ShownTracesPass /\ Search!FoundTracesOpen /\ Search!ListsAgree

\* A step keeps the source and adds to what is stored.
Grows ==
  /\ source' = source /\ stitching' = stitching
  /\ Search!Stored \subseteq Search!Stored' /\ (trace # <<>> => trace' # <<>>)
  /\ trace' \in Seq(Spans) /\ Len(trace') <= MaxSpans

LEMMA InsertedAt ==
  ASSUME NEW R, NEW s \in Seq(R), NEW row \in R, NEW i \in 1 .. Len(s) + 1
  PROVE  /\ Search!InsertAt(s, i, row) \in Seq(R)
         /\ Len(Search!InsertAt(s, i, row)) = Len(s) + 1
         /\ Search!ToSet(s) \subseteq Search!ToSet(Search!InsertAt(s, i, row))
  <1> DEFINE first == SubSeq(s, 1, i - 1)
             rest == SubSeq(s, i, Len(s))
             all == Search!InsertAt(s, i, row)
  <1>1. Len(s) \in Nat /\ i \in Nat /\ i >= 1 /\ i <= Len(s) + 1
    OBVIOUS
  <1>2. /\ first \in Seq(R) /\ Len(first) = i - 1
        /\ \A k \in 1 .. i - 1 : first[k] = s[k]
    BY <1>1
  <1>3. /\ rest \in Seq(R) /\ Len(rest) = Len(s) - i + 1
        /\ \A k \in 1 .. Len(s) - i + 1 : rest[k] = s[i + k - 1]
    BY <1>1
  <1>4. all = (first \o <<row>>) \o rest
    BY DEF Search!InsertAt
  <1> HIDE DEF first, rest, all
  <1> DEFINE head == first \o <<row>>
  <1>5. /\ head \in Seq(R) /\ Len(head) = i
        /\ \A k \in 1 .. i - 1 : head[k] = s[k]
    BY <1>1, <1>2
  <1>6. all = head \o rest
    BY <1>4
  <1> HIDE DEF head
  <1>7. all \in Seq(R) /\ Len(all) = Len(s) + 1
    BY <1>1, <1>3, <1>5, <1>6
  <1>8. \A k \in 1 .. i - 1 : all[k] = s[k]
    BY <1>1, <1>3, <1>5, <1>6
  <1>9. \A k \in i .. Len(s) : all[k + 1] = s[k]
    <2> SUFFICES ASSUME NEW k \in i .. Len(s) PROVE all[k + 1] = s[k]
      OBVIOUS
    <2>1. k + 1 - i \in 1 .. Len(s) - i + 1 /\ k + 1 \in 1 .. i + (Len(s) - i + 1) /\ k + 1 > i
      BY <1>1
    <2>2. all[k + 1] = rest[k + 1 - i]
      BY <1>1, <1>3, <1>5, <1>6, <2>1
    <2>3. i + (k + 1 - i) - 1 = k
      BY <1>1
    <2> QED BY <1>3, <2>1, <2>2, <2>3
  <1>10. \A k \in 1 .. Len(s) : \E l \in 1 .. Len(all) : all[l] = s[k]
    <2> SUFFICES ASSUME NEW k \in 1 .. Len(s) PROVE \E l \in 1 .. Len(all) : all[l] = s[k]
      OBVIOUS
    <2>1. CASE k < i
      <3>1. k \in 1 .. i - 1 /\ k \in 1 .. Len(all)
        BY <1>1, <1>7, <2>1
      <3> QED BY <1>8, <3>1
    <2>2. CASE k >= i
      <3>1. k \in i .. Len(s) /\ k + 1 \in 1 .. Len(all)
        BY <1>1, <1>7, <2>2
      <3> QED BY <1>9, <3>1
    <2> QED BY <1>1, <2>1, <2>2
  <1>11. Search!ToSet(s) \subseteq Search!ToSet(all)
    BY <1>10 DEF Search!ToSet
  <1> QED BY <1>7, <1>11 DEF all

\* Whatever a step does, it keeps what the evidence is about.
LEMMA StepGrows == ASSUME TraceInv, [Search!Next]_(Search!traceVars) PROVE Grows
  <1> USE DEF TraceInv, TraceTypes
  <1>1. CASE Search!Arrive
    <2>1. PICK row \in Spans, i \in 1 .. Len(trace) + 1 : trace' = Search!InsertAt(trace, i, row)
      BY <1>1 DEF Search!Arrive
    <2>2. /\ trace' \in Seq(Spans) /\ Len(trace') = Len(trace) + 1
          /\ Search!ToSet(trace) \subseteq Search!ToSet(trace')
      BY <2>1, InsertedAt
    <2>3. Len(trace) \in Nat /\ Len(trace') <= MaxSpans
      BY <1>1, <2>2, SpansAssumption DEF Search!Arrive
    <2>4. trace' # <<>>
      BY <2>2, <2>3
    <2> QED BY <1>1, <2>2, <2>3, <2>4 DEF Search!Arrive, Grows, Search!Stored
  <1>2. CASE UNCHANGED <<source, stitching, trace>>
    BY <1>2 DEF Grows, Search!Stored
  <1>3. Search!Next => Search!Arrive \/ UNCHANGED <<source, stitching, trace>>
    BY DEF Search!Next, Search!AskSearch, Search!AskTrace, Search!AskConversations, Search!Ask,
           Search!RefuseSearch, Search!Search,
           Search!SearchInVain, Search!Fetch, Search!Fail, Search!Give, Search!UpdateProject
  <1> QED BY <1>1, <1>2, <1>3 DEF Search!traceVars

LEMMA MoreRows ==
  ASSUME NEW old, NEW new, old \subseteq new
  PROVE  Search!All(old) \subseteq Search!All(new) /\ Search!InSpans(old) \subseteq Search!InSpans(new) /\ Search!InSpans(old) \subseteq Search!All(old)
  BY DEF Search!All, Search!InSpans, Search!At

LEMMA SpansStored ==
  ASSUME TraceTypes
  PROVE  /\ Search!Stored \subseteq Search!Span /\ Search!JaegerTrace \subseteq Search!Stored
         /\ Search!All(Search!ClickHouseTrace) = trace[1].resource \cup Search!InSpans(Search!Stored) \/ trace = <<>>
         /\ Search!All(Search!ClickHouseTrace) \subseteq Search!All(Search!Stored)
  <1>1. \A i \in 1 .. Len(trace) : trace[i] \in Search!Span /\ trace[i] \in Search!Stored
    BY SpansAssumption DEF TraceTypes, Search!Stored, Search!ToSet
  <1>2. Search!Stored \subseteq Search!Span /\ Search!JaegerTrace \subseteq Search!Stored
    BY <1>1 DEF Search!Stored, Search!ToSet, Search!JaegerTrace
  <1> DEFINE bare(i) == [trace[i] EXCEPT !.resource = {}]
             given(i) == IF i = 1 THEN trace[i] ELSE bare(i)
  <1>3. \A i \in 1 .. Len(trace) : Search!At(bare(i)) = trace[i].span /\ Search!At(bare(i)) \subseteq Search!At(trace[i])
    BY <1>1 DEF Search!At, Search!Span
  <1>4. Search!ClickHouseTrace = {given(i) : i \in 1 .. Len(trace)}
    BY DEF Search!ClickHouseTrace
  <1> HIDE DEF bare
  <1>5. \A i \in 1 .. Len(trace) : Search!At(given(i)) \subseteq Search!At(trace[i])
    BY <1>3
  <1>6. Search!All(Search!ClickHouseTrace) \subseteq Search!All(Search!Stored)
    BY <1>1, <1>4, <1>5 DEF Search!All
  <1>7. Search!All(Search!ClickHouseTrace) = trace[1].resource \cup Search!InSpans(Search!Stored) \/ trace = <<>>
    <2> SUFFICES ASSUME trace # <<>> PROVE Search!All(Search!ClickHouseTrace) = trace[1].resource \cup Search!InSpans(Search!Stored)
      OBVIOUS
    <2>1. 1 \in 1 .. Len(trace)
      BY DEF TraceTypes
    <2>2. Search!All(Search!ClickHouseTrace) = UNION {Search!At(given(i)) : i \in 1 .. Len(trace)}
      BY <1>4 DEF Search!All
    <2>3. Search!InSpans(Search!Stored) = UNION {trace[i].span : i \in 1 .. Len(trace)}
      BY DEF Search!InSpans, Search!Stored, Search!ToSet
    <2>4. Search!At(given(1)) = trace[1].resource \cup trace[1].span
      BY DEF Search!At
    <2>5. \A i \in 1 .. Len(trace) : i # 1 => Search!At(given(i)) = trace[i].span
      BY <1>3
    <2> HIDE DEF given
    <2> QED BY <2>1, <2>2, <2>3, <2>4, <2>5
  <1> QED BY <1>2, <1>6, <1>7

\* What the queries for lists and for conversations ask.
AsksList(query) ==
  /\ query \in Search!Query /\ ~query.short /\ query.all = {} /\ query.also = {}
  /\ query.any = IF source.kind = "tempo" THEN stitching ELSE <<>>
  /\ source.kind # "custom" => query.exists = {}
  /\ query.exists \subseteq Search!Stitched

AsksConversation(query) ==
  /\ query \in Search!Query /\ query.also = {} /\ query.exists = {}
  /\ query.any = IF source.kind \in {"tempo", "clickhouse"} THEN stitching ELSE <<>>
  /\ query.all = IF source.kind = "custom" /\ source.byAttributes THEN Search!Stitched ELSE {}

LEMMA StitchedMarks ==
  ASSUME TraceTypes PROVE Search!Stitched \subseteq Search!Marks /\ Search!Stitched # {}
  <1>1. Len(stitching) \in Nat /\ Len(stitching) >= 1 /\ \A i \in 1 .. Len(stitching) : stitching[i] \in Search!Marks
    BY DEF TraceTypes
  <1>2. 1 \in 1 .. Len(stitching)
    BY <1>1
  <1>3. stitching[1] \in Search!Stitched
    BY <1>2 DEF Search!Stitched, Search!ToSet
  <1>4. Search!Stitched \subseteq Search!Marks
    BY <1>1 DEF Search!Stitched, Search!ToSet
  <1> QED BY <1>3, <1>4

LEMMA Everywhere == Search!Everything \in Search!Query /\ Search!Everything.any = <<>> /\ Search!Everything.also = {}
                    /\ Search!Everything.all = {} /\ Search!Everything.exists = {} /\ Search!Everything.short = TRUE
  BY DEF Search!Everything, Search!Query, Search!Marks

LEMMA ChatAndUser ==
  /\ <<"chat">> \in Seq(Search!Marks) /\ <<"chat">> # <<>>
  /\ <<"chat", "user">> \in Seq(Search!Marks) /\ <<"chat", "user">> # <<>>
  /\ {"user"} \in SUBSET Search!Marks
  <1>1. \A a, b \in Search!Marks : <<a>> \in Seq(Search!Marks) /\ <<a, b>> \in Seq(Search!Marks)
    OBVIOUS
  <1>2. "chat" \in Search!Marks /\ "user" \in Search!Marks
    BY DEF Search!Marks
  <1>3. Len(<<"chat">>) = 1 /\ Len(<<"chat", "user">>) = 2 /\ Len(<<>>) = 0
    OBVIOUS
  <1> QED BY <1>1, <1>2, <1>3

LEMMA ListAsks == ASSUME TraceTypes PROVE AsksList(Search!ListQuery)
  <1> USE Everywhere DEF TraceTypes, AsksList, Search!Query
  <1>1. CASE source.kind = "tempo"
    <2>1. Search!ListQuery = [Search!Everything EXCEPT !.any = stitching, !.short = FALSE]
      BY <1>1 DEF Search!ListQuery
    <2> QED BY <1>1, <2>1
  <1>2. CASE source.kind = "custom" /\ source.byExistence
    <2>1. Search!ListQuery = [Search!Everything EXCEPT !.exists = Search!Stitched, !.short = FALSE]
      BY <1>2 DEF Search!ListQuery
    <2> QED BY <1>2, <2>1, StitchedMarks
  <1>3. CASE source.kind # "tempo" /\ ~(source.kind = "custom" /\ source.byExistence)
    <2>1. Search!ListQuery = [Search!Everything EXCEPT !.short = FALSE]
      BY <1>3 DEF Search!ListQuery
    <2> QED BY <1>3, <2>1
  <1> QED BY <1>1, <1>2, <1>3

LEMMA ConversationAsks == ASSUME TraceTypes PROVE AsksConversation(Search!ConversationQuery)
  <1> USE Everywhere DEF TraceTypes, AsksConversation, Search!Query
  <1>1. CASE source.kind \in {"tempo", "clickhouse"}
    <2>1. Search!ConversationQuery = [Search!Everything EXCEPT !.any = stitching]
      BY <1>1 DEF Search!ConversationQuery
    <2> QED BY <1>1, <2>1
  <1>2. CASE source.kind = "custom" /\ source.byAttributes
    <2>1. Search!ConversationQuery = [Search!Everything EXCEPT !.all = Search!Stitched, !.short = FALSE]
      BY <1>2 DEF Search!ConversationQuery
    <2> QED BY <1>2, <2>1, StitchedMarks
  <1>3. CASE source.kind \notin {"tempo", "clickhouse"} /\ ~(source.kind = "custom" /\ source.byAttributes)
    <2>1. Search!ConversationQuery = [Search!Everything EXCEPT !.short = FALSE]
      BY <1>3 DEF Search!ConversationQuery
    <2> QED BY <1>3, <2>1
  <1> QED BY <1>1, <1>2, <1>3

LEMMA KindsOf ==
  ASSUME TraceTypes, NEW query, NEW filtered
  PROVE  /\ source.kind \in {"tempo", "clickhouse", "jaeger", "custom"}
         /\ source.kind = "tempo"      =>
              /\ Search!Finds(query, filtered) <=> Search!TempoFinds(query, filtered)
              /\ Search!Lists(filtered) <=> Search!TempoFinds(Search!ListQuery, filtered)
              /\ Search!Opens(filtered) <=> Search!TempoOpens(filtered)
         /\ source.kind = "clickhouse" =>
              /\ Search!Finds(query, filtered) <=> Search!ClickHouseFinds(query, filtered)
              /\ Search!Lists(filtered) <=> Search!ClickHouseLists(filtered)
              /\ Search!Opens(filtered) <=> Search!ClickHouseOpens(filtered)
         /\ source.kind = "jaeger"     =>
              /\ Search!Finds(query, filtered) <=> Search!JaegerFinds(filtered)
              /\ ~Search!Lists(filtered) /\ ~Search!InConversation(filtered)
              /\ Search!Opens(filtered) <=> Search!JaegerOpens(filtered)
         /\ source.kind = "custom"     =>
              /\ Search!Finds(query, filtered) <=> Search!CustomFinds(query, filtered)
              /\ Search!Lists(filtered) <=> Search!CustomLists(filtered)
              /\ Search!Opens(filtered) <=> Search!CustomOpens(filtered)
         /\ source.kind = "custom" /\ ~source.byAttributes =>
              (Search!InConversation(filtered) <=> Search!CustomLists(filtered))
         /\ source.kind \in {"tempo", "clickhouse"} \/ (source.kind = "custom" /\ source.byAttributes) =>
              (Search!InConversation(filtered) <=> Search!Finds(Search!ConversationQuery, filtered))
  <1>1. source.kind \in {"tempo", "clickhouse", "jaeger", "custom"} /\ source.byAttributes \in BOOLEAN
    BY DEF TraceTypes, Search!Source, Search!Kinds
  <1>2. /\ source.kind = "tempo"      => Search!Finds(query, filtered) = Search!TempoFinds(query, filtered)
        /\ source.kind = "clickhouse" => Search!Finds(query, filtered) = Search!ClickHouseFinds(query, filtered)
        /\ source.kind = "jaeger"     => Search!Finds(query, filtered) = Search!JaegerFinds(filtered)
        /\ source.kind = "custom"     => Search!Finds(query, filtered) = Search!CustomFinds(query, filtered)
    BY DEF Search!Finds
  <1>3. /\ source.kind = "tempo"      => Search!Lists(filtered) = Search!TempoLists(filtered)
        /\ source.kind = "clickhouse" => Search!Lists(filtered) = Search!ClickHouseLists(filtered)
        /\ source.kind = "jaeger"     => Search!Lists(filtered) = Search!JaegerLists(filtered)
        /\ source.kind = "custom"     => Search!Lists(filtered) = Search!CustomLists(filtered)
    BY DEF Search!Lists
  <1>4. /\ source.kind = "tempo"      => Search!Opens(filtered) = Search!TempoOpens(filtered)
        /\ source.kind = "clickhouse" => Search!Opens(filtered) = Search!ClickHouseOpens(filtered)
        /\ source.kind = "jaeger"     => Search!Opens(filtered) = Search!JaegerOpens(filtered)
        /\ source.kind = "custom"     => Search!Opens(filtered) = Search!CustomOpens(filtered)
    BY DEF Search!Opens
  <1>5. /\ source.kind = "jaeger" => Search!InConversation(filtered) = FALSE
        /\ source.kind = "custom" /\ ~source.byAttributes => Search!InConversation(filtered) = Search!CustomLists(filtered)
        /\ source.kind # "jaeger" /\ ~(source.kind = "custom" /\ ~source.byAttributes) =>
             Search!InConversation(filtered) = Search!Finds(Search!ConversationQuery, filtered)
    BY DEF Search!InConversation
  <1>6. Search!TempoLists(filtered) = Search!TempoFinds(Search!ListQuery, filtered) /\ Search!JaegerLists(filtered) = FALSE
    BY DEF Search!TempoLists, Search!JaegerLists
  <1> QED BY <1>1, <1>2, <1>3, <1>4, <1>5, <1>6, ZenonT(30)

\* The filter joins the attributes, or the last alternative of q.
LEMMA TempoMerges ==
  ASSUME NEW query \in Search!Query, NEW filtered \in BOOLEAN
  PROVE  /\ Search!TempoMerged(query, filtered).any = query.any
         /\ filtered => "project" \in IF query.any # <<>> THEN Search!TempoMerged(query, filtered).also
                                       ELSE Search!TempoMerged(query, filtered).all
  BY DEF Search!TempoMerged, Search!Query

LEMMA ClickHouseMerges ==
  ASSUME NEW query \in Search!Query, NEW filtered \in BOOLEAN
  PROVE  /\ Search!ClickHouseMerged(query, filtered).any = query.any
         /\ Search!ClickHouseMerged(query, filtered).all = query.all \cup IF filtered THEN {"project"} ELSE {}
  BY DEF Search!ClickHouseMerged, Search!Query

LEMMA CustomMerges ==
  ASSUME NEW query \in Search!Query, NEW filtered \in BOOLEAN
  PROVE  /\ Search!CustomMerged(query, filtered).any = query.any
         /\ Search!CustomMerged(query, filtered).exists = query.exists
         /\ Search!CustomMerged(query, filtered).all =
              query.all \cup IF filtered /\ source.byAttributes THEN {"project"} ELSE {}
  BY DEF Search!CustomMerged, Search!Query

\* What a search finds is there, and passes the filter or escapes it.
LEMMA FoundPresent ==
  ASSUME TraceTypes, NEW query \in Search!Query, NEW filtered \in BOOLEAN, Search!Finds(query, filtered)
  PROVE  Found(query.any, filtered)
  <1> USE DEF Found
  <1>0. trace \in Seq(Spans)
    BY DEF TraceTypes
  <1>1. Search!Stored # {} => trace # <<>>
    BY DEF Search!Stored, Search!ToSet
  <1>2. CASE source.kind = "tempo"
    <2>0. PICK merged : merged = Search!TempoMerged(query, filtered)
      OBVIOUS
    <2>1. PICK row \in Search!Stored :
            /\ merged.all \subseteq Search!At(row)
            /\ Len(merged.any) > 0 => \E i \in 1 .. Len(merged.any) :
                 merged.any[i] \in row.span /\ (i = Len(merged.any) => merged.also \subseteq Search!At(row))
      BY <1>2, <2>0, KindsOf, Zenon DEF Search!TempoFinds
    <2>2. merged.any = query.any
          /\ (filtered => "project" \in IF query.any # <<>> THEN merged.also ELSE merged.all)
      BY <2>0, TempoMerges
    <2>3. query.any \in Seq(Search!Marks)
      BY DEF Search!Query
    <2>4. CASE filtered => "project" \in Search!At(row)
      BY <1>1, <1>2, <2>1, <2>4 DEF Present, Search!KeepsFull, Search!All
    <2>5. CASE filtered /\ "project" \notin Search!At(row)
      <3>1. query.any # <<>> /\ "project" \in merged.also
        BY <2>1, <2>2, <2>5
      <3>2. Len(query.any) \in Nat /\ Len(query.any) > 0
        BY <2>3, <3>1
      <3>3. PICK i \in 1 .. Len(query.any) :
              query.any[i] \in row.span /\ (i = Len(query.any) => merged.also \subseteq Search!At(row))
        BY <2>1, <2>2, <3>2
      <3>4. i # Len(query.any)
        BY <2>5, <3>1, <3>3
      <3>5. i \in 1 .. Len(query.any) - 1
        BY <3>2, <3>3, <3>4
      <3>6. query.any[i] \in Search!InSpans(Search!Stored)
        BY <2>1, <3>3 DEF Search!InSpans
      <3>7. Beside(query.any)
        BY <1>2, <3>5, <3>6 DEF Beside
      <3> QED BY <1>1, <2>1, <2>5, <3>7
    <2> QED BY <2>4, <2>5
  <1>3. CASE source.kind = "clickhouse"
    <2>1. PICK row \in Search!Stored : Search!ClickHouseMerged(query, filtered).all \subseteq Search!At(row)
      BY <1>3, KindsOf DEF Search!ClickHouseFinds
    <2>2. filtered => "project" \in Search!At(row)
      BY <2>1, ClickHouseMerges
    <2> QED BY <1>1, <1>3, <2>1, <2>2 DEF Present, Search!KeepsFull, Search!All
  <1>4. CASE source.kind = "jaeger"
    <2>1. Search!JaegerTrace # {} /\ Search!KeepsSummary(Search!All(Search!JaegerTrace), filtered)
      BY <1>4, KindsOf DEF Search!JaegerFinds
    <2>2. Search!Stored # {}
      BY <2>1 DEF Search!JaegerTrace
    <2> QED BY <1>1, <1>4, <2>1, <2>2 DEF Present, Search!KeepsFull, Search!KeepsSummary
  <1>5. CASE source.kind = "custom"
    <2>1. /\ trace # <<>> /\ Search!CustomMerged(query, filtered).all \subseteq Search!All(Search!Stored)
          /\ source.byAttributes \/ Search!KeepsSummary(Search!InSpans(Search!Stored), filtered)
      BY <1>5, KindsOf DEF Search!CustomFinds
    <2>2. CASE source.byAttributes
      <3>1. filtered => "project" \in Search!All(Search!Stored)
        BY <2>1, <2>2, CustomMerges
      <3> QED BY <1>5, <2>1, <3>1 DEF Present, Search!KeepsFull
    <2>3. CASE ~source.byAttributes
      <3>1. filtered => "project" \in Search!InSpans(Search!Stored)
        BY <2>1, <2>3 DEF Search!KeepsSummary
      <3>2. Search!InSpans(Search!Stored) \subseteq Search!All(Search!Stored)
        BY MoreRows
      <3> QED BY <1>5, <2>1, <3>1, <3>2 DEF Present, Search!KeepsFull
    <2> QED BY <2>2, <2>3
  <1> QED BY <1>2, <1>3, <1>4, <1>5, KindsOf

\* So is what a list or a conversation shows.
LEMMA ListedPresent ==
  ASSUME TraceTypes, NEW filtered \in BOOLEAN, Search!Lists(filtered) \/ Search!InConversation(filtered)
  PROVE  Found(stitching, filtered)
  <1>0. PICK asked : asked = Search!ListQuery
    OBVIOUS
  <1>1. PICK sought : sought = Search!ConversationQuery
    OBVIOUS
  <1>2. asked \in Search!Query /\ sought \in Search!Query
    BY <1>0, <1>1, ListAsks, ConversationAsks DEF AsksList, AsksConversation
  <1>3. \A query \in Search!Query :
          Search!Finds(query, filtered) =>
            Found(query.any, filtered) /\ (source.kind # "tempo" => Found(stitching, filtered))
    BY FoundPresent DEF Found, Beside
  <1>4. CASE source.kind = "tempo"
    <2>1. asked.any = stitching /\ sought.any = stitching
      BY <1>0, <1>1, <1>4, ListAsks, ConversationAsks DEF AsksList, AsksConversation
    <2>2. Search!Finds(asked, filtered) \/ Search!Finds(sought, filtered)
      BY <1>0, <1>1, <1>4, KindsOf
    <2> QED BY <1>2, <1>3, <2>1, <2>2
  <1>5. CASE source.kind = "clickhouse"
    <2>1. CASE Search!Lists(filtered)
      <3>1. PICK row \in Search!Stored : filtered => "project" \in Search!At(row)
        BY <1>5, <2>1, KindsOf DEF Search!ClickHouseLists
      <3>2. trace # <<>>
        BY <3>1 DEF Search!Stored, Search!ToSet, TraceTypes
      <3> QED BY <1>5, <3>1, <3>2 DEF Found, Present, Search!KeepsFull, Search!All
    <2>2. CASE Search!InConversation(filtered)
      BY <1>1, <1>2, <1>3, <1>5, <2>2, KindsOf
    <2> QED BY <2>1, <2>2
  <1>6. CASE source.kind = "jaeger"
    BY <1>6, KindsOf
  <1>7. CASE source.kind = "custom"
    <2>1. Search!CustomLists(filtered) => Search!Finds(Search!ListQuery, filtered)
      BY <1>7, KindsOf DEF Search!CustomLists
    <2>2. Search!InConversation(filtered) => Search!CustomLists(filtered) \/ Search!Finds(Search!ConversationQuery, filtered)
      BY <1>7, KindsOf
    <2> QED BY <1>0, <1>1, <1>2, <1>3, <1>7, <2>1, <2>2, KindsOf
  <1> QED BY <1>4, <1>5, <1>6, <1>7, KindsOf

\* What an operation found it would find again after any step.
LEMMA FindsMore ==
  ASSUME TraceTypes, Grows, NEW query \in Search!Query, NEW filtered \in BOOLEAN
  PROVE  /\ Search!TempoFinds(query, filtered) => Search!TempoFinds(query, filtered)'
         /\ Search!ClickHouseFinds(query, filtered) => Search!ClickHouseFinds(query, filtered)'
         /\ Search!JaegerFinds(filtered) => Search!JaegerFinds(filtered)'
         /\ Search!CustomFinds(query, filtered) => Search!CustomFinds(query, filtered)'
         /\ Search!ClickHouseLists(filtered) => Search!ClickHouseLists(filtered)'
         /\ Search!InSpans(Search!Stored) \subseteq Search!InSpans(Search!Stored')
  <1>0. /\ source' = source /\ stitching' = stitching /\ Search!Stored \subseteq Search!Stored'
        /\ trace # <<>> => trace' # <<>>
    BY DEF Grows
  <1>1. /\ Search!InSpans(Search!Stored) \subseteq Search!InSpans(Search!Stored') /\ Search!All(Search!Stored) \subseteq Search!All(Search!Stored')
    BY <1>0, MoreRows
  <1>2. Search!TempoFinds(query, filtered) => Search!TempoFinds(query, filtered)'
    BY <1>0, Zenon DEF Search!TempoFinds
  <1>3. Search!ClickHouseFinds(query, filtered) => Search!ClickHouseFinds(query, filtered)'
    BY <1>0, Zenon DEF Search!ClickHouseFinds
  <1>4. Search!ClickHouseLists(filtered) => Search!ClickHouseLists(filtered)'
    BY <1>0 DEF Search!ClickHouseLists, Search!Stitched
  <1>5. Search!JaegerTrace \subseteq Search!JaegerTrace'
    BY <1>0 DEF Search!JaegerTrace
  <1>6. Search!All(Search!JaegerTrace) \subseteq Search!All(Search!JaegerTrace')
    BY <1>5, MoreRows
  <1>7. Search!JaegerFinds(filtered) => Search!JaegerFinds(filtered)'
    BY <1>5, <1>6 DEF Search!JaegerFinds, Search!KeepsSummary
  <1>8. Search!CustomFinds(query, filtered) => Search!CustomFinds(query, filtered)'
    <2>1. PICK asked : asked = Search!CustomMerged(query, filtered)
      OBVIOUS
    <2>2. Search!CustomMerged(query, filtered)' = asked
      BY <1>0, <2>1 DEF Search!CustomMerged
    <2>3. Search!CustomFinds(query, filtered) =
            (/\ trace # <<>>
             /\ asked.any # <<>> => Search!ToSet(asked.any) \cap Search!All(Search!Stored) # {}
             /\ asked.exists # {} => asked.exists \cap Search!All(Search!Stored) # {}
             /\ asked.all \subseteq Search!All(Search!Stored)
             /\ source.byAttributes \/ Search!KeepsSummary(Search!InSpans(Search!Stored), filtered))
      BY <2>1, Zenon DEF Search!CustomFinds
    <2>4. Search!CustomFinds(query, filtered)' =
            (/\ trace' # <<>>
             /\ asked.any # <<>> => Search!ToSet(asked.any) \cap Search!All(Search!Stored') # {}
             /\ asked.exists # {} => asked.exists \cap Search!All(Search!Stored') # {}
             /\ asked.all \subseteq Search!All(Search!Stored')
             /\ source'.byAttributes \/ Search!KeepsSummary(Search!InSpans(Search!Stored'), filtered))
      BY <2>2, Zenon DEF Search!CustomFinds
    <2> HIDE DEF Search!Stored
    <2> QED BY <1>0, <1>1, <2>3, <2>4 DEF Search!KeepsSummary
  <1> QED BY <1>1, <1>2, <1>3, <1>4, <1>7, <1>8

LEMMA ListsMore ==
  ASSUME TraceTypes, TraceTypes', Grows, NEW filtered \in BOOLEAN
  PROVE  /\ Search!Lists(filtered) => Search!Lists(filtered)'
         /\ Search!InConversation(filtered) => Search!InConversation(filtered)'
  <1>0. source' = source /\ stitching' = stitching
    BY DEF Grows
  <1>1. PICK asked, sought : asked = Search!ListQuery /\ sought = Search!ConversationQuery
    OBVIOUS
  <1>2. Search!ListQuery' = asked /\ Search!ConversationQuery' = sought
    BY <1>0, <1>1 DEF Search!ListQuery, Search!ConversationQuery, Search!Stitched
  <1>3. asked \in Search!Query /\ sought \in Search!Query
    BY <1>1, ListAsks, ConversationAsks DEF AsksList, AsksConversation
  <1>4. \A query \in Search!Query :
          /\ Search!TempoFinds(query, filtered) => Search!TempoFinds(query, filtered)'
          /\ Search!ClickHouseFinds(query, filtered) => Search!ClickHouseFinds(query, filtered)'
          /\ Search!JaegerFinds(filtered) => Search!JaegerFinds(filtered)'
          /\ Search!CustomFinds(query, filtered) => Search!CustomFinds(query, filtered)'
    BY FindsMore
  <1>5. /\ Search!ClickHouseLists(filtered) => Search!ClickHouseLists(filtered)'
        /\ Search!InSpans(Search!Stored) \subseteq Search!InSpans(Search!Stored')
    <2>1. Search!Everything \in Search!Query
      BY Everywhere
    <2> QED BY <2>1, FindsMore
  <1>6. Search!CustomLists(filtered) => Search!CustomLists(filtered)'
    <2>1. Search!CustomLists(filtered) =>
            Search!CustomFinds(asked, filtered) /\ Search!Stitched \cap Search!InSpans(Search!Stored) # {}
      BY <1>1 DEF Search!CustomLists
    <2>2. Search!CustomFinds(asked, filtered)' /\ Search!Stitched \cap Search!InSpans(Search!Stored') # {} =>
            Search!CustomLists(filtered)'
      BY <1>0, <1>2 DEF Search!CustomLists, Search!Stitched
    <2> HIDE DEF Search!Stored
    <2> QED BY <1>0, <1>3, <1>4, <1>5, <2>1, <2>2
  <1>7. Search!Finds(sought, filtered) => Search!Finds(sought, filtered)'
    <2>1. /\ source.kind = "tempo"      => Search!Finds(sought, filtered) = Search!TempoFinds(sought, filtered)
          /\ source.kind = "clickhouse" => Search!Finds(sought, filtered) = Search!ClickHouseFinds(sought, filtered)
          /\ source.kind = "jaeger"     => Search!Finds(sought, filtered) = Search!JaegerFinds(filtered)
          /\ source.kind = "custom"     => Search!Finds(sought, filtered) = Search!CustomFinds(sought, filtered)
      BY DEF Search!Finds
    <2>2. /\ source.kind = "tempo"      => Search!Finds(sought, filtered)' = Search!TempoFinds(sought, filtered)'
          /\ source.kind = "clickhouse" => Search!Finds(sought, filtered)' = Search!ClickHouseFinds(sought, filtered)'
          /\ source.kind = "jaeger"     => Search!Finds(sought, filtered)' = Search!JaegerFinds(filtered)'
          /\ source.kind = "custom"     => Search!Finds(sought, filtered)' = Search!CustomFinds(sought, filtered)'
      BY <1>0 DEF Search!Finds
    <2>3. source.kind \in {"tempo", "clickhouse", "jaeger", "custom"}
      BY KindsOf
    <2> QED BY <1>3, <1>4, <2>1, <2>2, <2>3, Zenon
  <1>8. Search!Lists(filtered) => Search!Lists(filtered)'
    <2>1. Search!TempoLists(filtered) => Search!TempoLists(filtered)'
      BY <1>1, <1>2, <1>3, <1>4 DEF Search!TempoLists
    <2>2. Search!JaegerLists(filtered)' = Search!JaegerLists(filtered)
      BY DEF Search!JaegerLists
    <2>3. source.kind \in {"tempo", "clickhouse", "jaeger", "custom"}
      BY KindsOf
    <2>4. CASE source.kind = "tempo"
      BY <1>0, <2>1, <2>4 DEF Search!Lists
    <2>5. CASE source.kind = "clickhouse"
      BY <1>0, <1>5, <2>5 DEF Search!Lists
    <2>6. CASE source.kind = "jaeger"
      BY <2>6, KindsOf
    <2>7. CASE source.kind = "custom"
      BY <1>0, <1>6, <2>7 DEF Search!Lists
    <2> QED BY <2>3, <2>4, <2>5, <2>6, <2>7
  <1>9. Search!InConversation(filtered) => Search!InConversation(filtered)'
    <2>1. Search!InConversation(filtered) =
            CASE source.kind = "jaeger" -> FALSE
              [] source.kind = "custom" /\ ~source.byAttributes -> Search!CustomLists(filtered)
              [] OTHER -> Search!Finds(sought, filtered)
      BY <1>1 DEF Search!InConversation
    <2>2. Search!InConversation(filtered)' =
            CASE source.kind = "jaeger" -> FALSE
              [] source.kind = "custom" /\ ~source.byAttributes -> Search!CustomLists(filtered)'
              [] OTHER -> Search!Finds(sought, filtered)'
      BY <1>0, <1>2 DEF Search!InConversation
    <2> QED BY <1>6, <1>7, <2>1, <2>2
  <1> QED BY <1>8, <1>9

LEMMA PresentMore ==
  ASSUME TraceTypes, Grows, NEW filtered, Present(filtered)
  PROVE  Present(filtered)'
  <1>0. /\ source' = source /\ Search!Stored \subseteq Search!Stored'
        /\ trace # <<>> => trace' # <<>>
    BY DEF Grows
  <1>1. Search!JaegerTrace \subseteq Search!JaegerTrace'
    BY <1>0 DEF Search!JaegerTrace
  <1>2. Search!All(Search!JaegerTrace) \subseteq Search!All(Search!JaegerTrace') /\ Search!All(Search!Stored) \subseteq Search!All(Search!Stored')
    BY <1>0, <1>1, MoreRows
  <1> QED BY <1>0, <1>2 DEF Present, Search!KeepsFull

LEMMA BesideMore ==
  ASSUME Grows, NEW any, Beside(any) PROVE Beside(any)'
  <1>1. Search!InSpans(Search!Stored) \subseteq Search!InSpans(Search!Stored') /\ source' = source
    BY MoreRows DEF Grows
  <1> QED BY <1>1 DEF Beside

LEMMA EvidenceStays ==
  ASSUME TraceTypes, TraceTypes', Grows, NEW showing, NEW filtered \in BOOLEAN, Evidence(showing, filtered)
  PROVE  Evidence(showing, filtered)'
  <1>1. trace # <<>> => trace' # <<>>
    BY DEF Grows
  <1>2. \A s : Found(s.any, filtered) => Found(s.any, filtered)'
    BY <1>1, PresentMore, BesideMore DEF Found
  <1>3. \A s : Left(s, filtered) => Left(s, filtered)'
    BY <1>2, PresentMore, ListsMore DEF Left
  <1> QED BY <1>3 DEF Evidence

\* What shows the trace in a list finds it for the conversation, and the other
\* way round, but at a custom API that searches by attributes.
LEMMA ListsMeetConversations ==
  ASSUME TraceTypes, NEW filtered \in BOOLEAN
  PROVE  /\ Search!InConversation(filtered) /\ ~Search!Lists(filtered) => source.kind = "custom" /\ source.byAttributes
         /\ Search!Lists(filtered) /\ ~Search!InConversation(filtered) =>
              source.kind = "custom" /\ source.byAttributes /\ ~(Search!Stitched \subseteq Search!All(Search!Stored))
  <1>1. PICK asked, sought : asked = Search!ListQuery /\ sought = Search!ConversationQuery
    OBVIOUS
  <1>2. AsksList(asked) /\ AsksConversation(sought) /\ asked \in Search!Query /\ sought \in Search!Query
    BY <1>1, ListAsks, ConversationAsks DEF AsksList, AsksConversation
  <1>3. CASE source.kind = "tempo"
    <2>1. /\ Search!Lists(filtered) <=> Search!TempoFinds(asked, filtered)
          /\ Search!InConversation(filtered) <=> Search!TempoFinds(sought, filtered)
      BY <1>1, <1>3, KindsOf
    <2>2. /\ asked.any = sought.any /\ asked.also = sought.also /\ asked.all = sought.all
      BY <1>2, <1>3 DEF AsksList, AsksConversation
    <2>3. /\ Search!TempoMerged(asked, filtered).any = Search!TempoMerged(sought, filtered).any
          /\ Search!TempoMerged(asked, filtered).also = Search!TempoMerged(sought, filtered).also
          /\ Search!TempoMerged(asked, filtered).all = Search!TempoMerged(sought, filtered).all
      BY <1>2, <2>2 DEF Search!TempoMerged, Search!Query
    <2>4. Search!TempoFinds(asked, filtered) <=> Search!TempoFinds(sought, filtered)
      BY <2>3 DEF Search!TempoFinds
    <2> QED BY <2>1, <2>4
  <1>4. CASE source.kind = "clickhouse"
    <2>1. /\ Search!Lists(filtered) <=> Search!ClickHouseLists(filtered)
          /\ Search!InConversation(filtered) <=> Search!ClickHouseFinds(sought, filtered)
      BY <1>1, <1>4, KindsOf
    <2>2. sought.any = stitching /\ sought.all = {} /\ stitching # <<>>
      BY <1>2, <1>4 DEF AsksConversation, TraceTypes
    <2>3. PICK merged : merged = Search!ClickHouseMerged(sought, filtered)
      OBVIOUS
    <2>4. merged.any = stitching /\ merged.all = IF filtered THEN {"project"} ELSE {}
      BY <1>2, <2>2, <2>3, ClickHouseMerges
    <2>5. Search!ClickHouseFinds(sought, filtered) <=>
            \E row \in Search!Stored :
              /\ merged.any # <<>> => Search!ToSet(merged.any) \cap Search!At(row) # {}
              /\ merged.all \subseteq Search!At(row)
      BY <2>3, Zenon DEF Search!ClickHouseFinds
    <2>6. Search!ClickHouseFinds(sought, filtered) <=> Search!ClickHouseLists(filtered)
      <3>1. \A row \in Search!Stored : (merged.all \subseteq Search!At(row)) <=> (filtered => "project" \in Search!At(row))
        BY <2>4
      <3> QED BY <2>2, <2>4, <2>5, <3>1 DEF Search!ClickHouseLists, Search!Stitched
    <2> QED BY <2>1, <2>6
  <1>5. CASE source.kind = "jaeger"
    BY <1>5, KindsOf
  <1>6. CASE source.kind = "custom" /\ ~source.byAttributes
    BY <1>6, KindsOf
  <1>7. CASE source.kind = "custom" /\ source.byAttributes
    <2>1. Search!Lists(filtered) => Search!CustomFinds(asked, filtered)
      BY <1>1, <1>7, KindsOf DEF Search!CustomLists
    <2>2. Search!InConversation(filtered) <=> Search!CustomFinds(sought, filtered)
      BY <1>1, <1>7, KindsOf
    <2>3. /\ sought.any = <<>> /\ sought.exists = {} /\ sought.all = Search!Stitched
      BY <1>2, <1>7 DEF AsksConversation
    <2>4. PICK first, second : first = Search!CustomMerged(asked, filtered) /\ second = Search!CustomMerged(sought, filtered)
      OBVIOUS
    <2>5. /\ second.any = <<>> /\ second.exists = {}
          /\ second.all = Search!Stitched \cup IF filtered THEN {"project"} ELSE {}
          /\ filtered => "project" \in first.all
      <3>1. /\ second.any = sought.any /\ second.exists = sought.exists
            /\ second.all = sought.all \cup IF filtered /\ source.byAttributes THEN {"project"} ELSE {}
        BY <1>2, <2>4, CustomMerges
      <3>2. first.all = asked.all \cup IF filtered /\ source.byAttributes THEN {"project"} ELSE {}
        BY <1>2, <2>4, CustomMerges
      <3> QED BY <1>7, <2>3, <3>1, <3>2
    <2>6. Search!CustomFinds(asked, filtered) => trace # <<>> /\ first.all \subseteq Search!All(Search!Stored)
      BY <2>4, Zenon DEF Search!CustomFinds
    <2>7. /\ trace # <<>> /\ (second.any # <<>> => Search!ToSet(second.any) \cap Search!All(Search!Stored) # {})
          /\ (second.exists # {} => second.exists \cap Search!All(Search!Stored) # {})
          /\ second.all \subseteq Search!All(Search!Stored) /\ source.byAttributes
          => Search!CustomFinds(sought, filtered)
      BY <2>4, Zenon DEF Search!CustomFinds
    <2>8. Search!CustomFinds(asked, filtered) /\ Search!Stitched \subseteq Search!All(Search!Stored) => Search!CustomFinds(sought, filtered)
      BY <1>7, <2>5, <2>6, <2>7
    <2> QED BY <1>7, <2>1, <2>2, <2>8
  <1> QED BY <1>3, <1>4, <1>5, <1>6, <1>7, KindsOf

LEMMA OpensWhen ==
  ASSUME TraceTypes, NEW filtered \in BOOLEAN
  PROVE  Search!Opens(filtered) <=>
           /\ trace # <<>>
           /\ filtered => "project" \in IF source.kind = "clickhouse" THEN Search!All(Search!ClickHouseTrace)
                                        ELSE IF source.kind = "jaeger" THEN Search!All(Search!JaegerTrace)
                                        ELSE Search!All(Search!Stored)
  <1>1. CASE source.kind = "tempo"
    BY <1>1 DEF Search!Opens, Search!TempoOpens, Search!KeepsFull
  <1>2. CASE source.kind = "clickhouse"
    BY <1>2 DEF Search!Opens, Search!ClickHouseOpens, Search!KeepsFull
  <1>3. CASE source.kind = "jaeger"
    BY <1>3 DEF Search!Opens, Search!JaegerOpens, Search!KeepsFull
  <1>4. CASE source.kind = "custom"
    BY <1>4 DEF Search!Opens, Search!CustomOpens, Search!KeepsFull
  <1> QED BY <1>1, <1>2, <1>3, <1>4 DEF TraceTypes, Search!Source, Search!Kinds

\* A trace that is there and passes the filter opens, but for ClickHouse's
\* exceptions; what is opened passes the filter.
LEMMA PresentOpens ==
  ASSUME TraceTypes, NEW filtered \in BOOLEAN
  PROVE  /\ Present(filtered) /\ ~Search!Opens(filtered) =>
              /\ source.kind = "clickhouse" /\ filtered
              /\ "project" \notin trace[1].resource \cup Search!InSpans(Search!Stored)
         /\ Present(filtered) => Search!Opens(Search!FetchFilters("conversation", filtered))
         /\ Search!Opens(filtered) /\ filtered => "project" \in Search!All(Search!Stored)
         /\ Present(filtered) /\ filtered => "project" \in Search!All(Search!Stored)
         /\ source.kind # "clickhouse" /\ Present(filtered) => Search!Opens(filtered)
         /\ Present(filtered) => Search!Opens(FALSE)
  <1>1. /\ Search!All(Search!ClickHouseTrace) = trace[1].resource \cup Search!InSpans(Search!Stored) \/ trace = <<>>
        /\ Search!All(Search!ClickHouseTrace) \subseteq Search!All(Search!Stored) /\ Search!JaegerTrace \subseteq Search!Stored
    BY SpansStored
  <1>2. Search!All(Search!JaegerTrace) \subseteq Search!All(Search!Stored)
    BY <1>1, MoreRows
  <1>4. \A f \in BOOLEAN :
          Search!Opens(f) <=>
            /\ trace # <<>>
            /\ f => "project" \in IF source.kind = "clickhouse" THEN Search!All(Search!ClickHouseTrace)
                                  ELSE IF source.kind = "jaeger" THEN Search!All(Search!JaegerTrace)
                                  ELSE Search!All(Search!Stored)
    BY OpensWhen
  <1>5. Present(filtered) <=>
          /\ trace # <<>>
          /\ filtered => "project" \in IF source.kind = "jaeger" THEN Search!All(Search!JaegerTrace) ELSE Search!All(Search!Stored)
    BY DEF Present, Search!KeepsFull
  <1>6. Search!FetchFilters("conversation", filtered) = (filtered /\ source.kind # "clickhouse")
    BY DEF Search!FetchFilters
  <1>7. Search!FetchFilters("conversation", filtered) \in BOOLEAN
    BY DEF Search!FetchFilters
  <1> QED BY <1>1, <1>2, <1>4, <1>5, <1>6, <1>7

LEMMA TraceInitInv == Search!Init => TraceInv
  <1> SUFFICES ASSUME Search!Init PROVE TraceInv
    OBVIOUS
  <1> USE DEF Search!Init, Search!NoRequest, Search!NoAnswer
  <1>1. TraceTypes
    <2>1. traceRequest \in [op : Search!Operations \cup {"none"}, at : {"idle", "search", "fetch"},
                       query : Search!Query, filter : BOOLEAN, known : SUBSET Search!Showing]
      BY Everywhere
    <2>2. source \in Backends /\ source \in Search!Source /\ stitching \in Seq(Search!Marks) /\ stitching # <<>>
      BY SpansAssumption, ChatAndUser
    <2>3. trace \in Seq(Spans) /\ Len(trace) <= MaxSpans
      BY SpansAssumption
    <2> QED BY <2>1, <2>2, <2>3 DEF TraceTypes
  <1>2. RequestFollows
    BY DEF RequestFollows, Listing
  <1>3. Evidence(known, filter) /\ Evidence(traceRequest.known, traceRequest.filter)
    BY DEF Evidence
  <1>4. Search!ShownTracesPass /\ Search!FoundTracesOpen /\ Search!ListsAgree
    BY DEF Search!ShownTracesPass, Search!FoundTracesOpen, Search!ListsAgree, Search!Showed
  <1> QED BY <1>1, <1>2, <1>3, <1>4 DEF TraceInv

LEMMA StepKeepsTypes == ASSUME TraceInv, [Search!Next]_(Search!traceVars) PROVE TraceTypes'
  <1> USE DEF TraceInv, TraceTypes
  <1>0. /\ source' = source /\ stitching' = stitching /\ trace' \in Seq(Spans) /\ Len(trace') <= MaxSpans
    BY StepGrows DEF Grows
  <1>1. ASSUME NEW op \in Search!Operations, NEW query \in Search!Query, Search!Ask(op, query)
        PROVE  TraceTypes'
    BY <1>0, <1>1 DEF Search!Ask
  <1>2. ASSUME NEW seen, NEW cut, NEW failed, Search!Give(seen, cut, failed), traceRequest.op # "none"
        PROVE  TraceTypes'
    <2>1. [op |-> traceRequest.op, any |-> traceRequest.query.any] \in Search!Showing
      BY <1>2 DEF Search!Showing, Search!Query
    <2>2. known' \subseteq Search!Showing
      BY <1>2, <2>1 DEF Search!Give
    <2>3. filter' = filter /\ traceRequest' = Search!NoRequest
      BY <1>2 DEF Search!Give
    <2>4. Search!NoRequest \in [op : Search!Operations \cup {"none"}, at : {"idle", "search", "fetch"},
                  query : Search!Query, filter : BOOLEAN, known : SUBSET Search!Showing]
      BY Everywhere DEF Search!NoRequest
    <2> QED BY <1>0, <2>2, <2>3, <2>4
  <1>3. Search!ListQuery \in Search!Query /\ Search!ConversationQuery \in Search!Query /\ Search!Everything \in Search!Query
    BY ListAsks, ConversationAsks, Everywhere DEF AsksList, AsksConversation
  <1>4. \A query \in Search!Searches : query \in Search!Query
    <2>1. [Search!Everything EXCEPT !.any = <<"chat", "user">>] \in Search!Query /\ [Search!Everything EXCEPT !.all = {"user"}] \in Search!Query
      BY Everywhere, ChatAndUser DEF Search!Query
    <2> QED BY <1>3, <2>1 DEF Search!Searches
  <1>5. CASE Search!AskSearch \/ Search!AskTrace \/ Search!AskConversations
    BY <1>1, <1>3, <1>4, <1>5 DEF Search!AskSearch, Search!AskTrace, Search!AskConversations,
       Search!Operations
  <1>6. CASE Search!RefuseSearch \/ Search!Search \/ Search!SearchInVain \/ Search!Fetch \/ Search!Fail
    <2>1. traceRequest.at \in {"search", "fetch"} \/ traceRequest.op = "search"
      BY <1>6 DEF Search!RefuseSearch, Search!Search, Search!SearchInVain, Search!Fetch, Search!Fail
    <2>2. traceRequest.op # "none"
      BY <2>1 DEF RequestFollows, Listing
    <2>3. (\E seen, cut, failed : Search!Give(seen, cut, failed))
          \/ (traceRequest' = [traceRequest EXCEPT !.at = "fetch"] /\ filter' = filter /\ known' = known)
      BY <1>6, Zenon DEF Search!RefuseSearch, Search!Search, Search!SearchInVain, Search!Fetch,
                         Search!Fail
    <2> QED BY <1>0, <1>2, <2>2, <2>3
  <1>7. CASE Search!Arrive \/ Search!UpdateProject \/ UNCHANGED Search!traceVars
    BY <1>0, <1>7 DEF Search!Arrive, Search!UpdateProject, Search!traceVars
  <1> QED BY <1>5, <1>6, <1>7 DEF Search!Next

\* What may be answered: a trace shown passes the filter or escapes it, and
\* leaves evidence behind, and one not shown is among the exceptions.
Justified(seen, cut, failed) ==
  /\ seen /\ traceRequest.op \notin {"open", "byIds"}
     => Left([op |-> traceRequest.op, any |-> traceRequest.query.any], traceRequest.filter)
  /\ seen /\ traceRequest.filter
     => "project" \in Search!All(Search!Stored) \/ Search!Escapes(traceRequest.op, traceRequest.query.any)
  /\ traceRequest.op \in {"open", "byIds"} /\ ~seen /\ ~failed /\ traceRequest.known # {}
     => /\ traceRequest.filter
        /\ \/ /\ source.kind = "clickhouse"
              /\ traceRequest.op = "byIds" \/ "project" \notin trace[1].resource \cup Search!InSpans(Search!Stored)
           \/ \A s \in traceRequest.known : Search!Escapes(s.op, s.any)
  /\ traceRequest.op = "conversation" /\ ~seen /\ ~failed /\ (\E s \in traceRequest.known : s.op = "list")
     => \/ cut
        \/ source.kind = "custom" /\ source.byAttributes /\ ~(Search!Stitched \subseteq Search!All(Search!Stored))
        \/ traceRequest.filter /\ "project" \notin Search!All(Search!Stored) /\ Search!Escapes("list", stitching)
  /\ traceRequest.op = "list" /\ ~seen /\ ~failed /\ (\E s \in traceRequest.known : s.op = "conversation")
     => source.kind = "custom" /\ source.byAttributes

LEMMA EvidenceStepsOn ==
  ASSUME TraceInv, [Search!Next]_(Search!traceVars)
  PROVE  /\ TraceTypes' /\ Grows
         /\ \A ops : \A filtered \in BOOLEAN : Evidence(ops, filtered) => Evidence(ops, filtered)'
         /\ \A filtered \in BOOLEAN : Search!InConversation(filtered) => Search!InConversation(filtered)'
  <1>1. TraceTypes /\ TraceTypes' /\ Grows
    BY StepKeepsTypes, StepGrows DEF TraceInv
  <1>2. \A ops : \A filtered \in BOOLEAN : Evidence(ops, filtered) => Evidence(ops, filtered)'
    BY <1>1, EvidenceStays
  <1>3. \A filtered \in BOOLEAN : Search!InConversation(filtered) => Search!InConversation(filtered)'
    BY <1>1, ListsMore
  <1> QED BY <1>1, <1>2, <1>3

LEMMA GiveKeepsInv ==
  ASSUME TraceInv, [Search!Next]_(Search!traceVars), NEW seen, NEW cut, NEW failed,
         Search!Give(seen, cut, failed), Justified(seen, cut, failed), traceRequest.op # "none"
  PROVE  TraceInv'
  <1>1. /\ source' = source /\ stitching' = stitching /\ trace' = trace /\ filter' = filter
        /\ traceRequest' = Search!NoRequest /\ Search!Stored' = Search!Stored
    BY DEF Search!Give, Search!Stored
  <1>2. TraceTypes' /\ TraceTypes
    BY EvidenceStepsOn DEF TraceInv
  <1>3. RequestFollows'
    BY <1>1 DEF RequestFollows, Search!NoRequest, Listing
  <1>4. Evidence(traceRequest.known, traceRequest.filter)'
    BY <1>1 DEF Evidence, Search!NoRequest
  <1>5. Evidence(known, filter)'
    <2>1. PICK ops, filtered : filtered = filter /\ ops = known'
      OBVIOUS
    <2>2. filtered \in BOOLEAN
      BY <1>2, <2>1 DEF TraceTypes
    <2>3. Evidence(ops, filtered)
      <3>1. CASE known' = known
        BY <2>1, <3>1, Zenon DEF TraceInv
      <3>2. CASE known' # known
        <4>0. PICK s : s = [op |-> traceRequest.op, any |-> traceRequest.query.any]
          OBVIOUS
        <4>1. seen /\ traceRequest.op \notin {"open", "byIds"} /\ traceRequest.filter = filter
              /\ known' = {s}
          BY <3>2, <4>0 DEF Search!Give
        <4>2. Left(s, filtered)
          BY <2>1, <4>0, <4>1, Zenon DEF Justified
        <4> QED BY <2>1, <4>1, <4>2 DEF Evidence
      <3> QED BY <3>1, <3>2
    <2>4. Evidence(ops, filtered)'
      BY <2>2, <2>3, EvidenceStepsOn
    <2>5. ops = known' /\ filtered = filter'
      BY <1>1, <2>1
    <2> QED BY <2>4, <2>5, Zenon DEF Evidence
  <1>6. answer' = [op |-> traceRequest.op, any |-> traceRequest.query.any, shown |-> seen,
                   filter |-> traceRequest.filter, known |-> traceRequest.known, cut |-> cut, failed |-> failed]
    BY DEF Search!Give
  <1>7. /\ answer'.op = traceRequest.op /\ answer'.any = traceRequest.query.any /\ answer'.shown = seen /\ answer'.filter = traceRequest.filter
        /\ answer'.known = traceRequest.known /\ answer'.cut = cut /\ answer'.failed = failed
    BY <1>6
  <1>8. Search!ShownTracesPass'
    BY <1>1, <1>7, Zenon DEF Search!ShownTracesPass, Search!Escapes, Justified
  <1>9. Search!FoundTracesOpen'
    BY <1>1, <1>7, Zenon DEF Search!FoundTracesOpen, Search!Escapes, Justified
  <1>10. Search!ListsAgree'
    BY <1>1, <1>7, Zenon DEF Search!ListsAgree, Search!Escapes, Search!Showed, Search!Stitched, Justified
  <1> QED BY <1>2, <1>3, <1>4, <1>5, <1>8, <1>9, <1>10 DEF TraceInv

\* A step that gives no answer: what was answered stays right or is forgotten.
LEMMA AskKeepsInv ==
  ASSUME TraceInv, [Search!Next]_(Search!traceVars), NEW op \in Search!Operations, NEW query, Search!Ask(op, query),
         op = "list" => ~query.short /\ (source.kind = "tempo" => query.any = stitching)
  PROVE  TraceInv'
  <1>1. /\ filter' = filter /\ known' = known /\ answer' = Search!NoAnswer
        /\ traceRequest' = [op |-> op, query |-> query, filter |-> filter, known |-> known,
                       at |-> IF op \in {"open", "byIds"} THEN "fetch" ELSE "search"]
    BY DEF Search!Ask
  <1>2. TraceTypes' /\ filter \in BOOLEAN
    BY EvidenceStepsOn DEF TraceInv, TraceTypes
  <1>3. RequestFollows'
    <2>1. source' = source /\ stitching' = stitching
      BY DEF Search!Ask
    <2> QED BY <1>1, <2>1 DEF RequestFollows, Search!Operations, Listing
  <1>4. PICK ops, filtered : filtered = filter /\ ops = known
    OBVIOUS
  <1>5. Evidence(ops, filtered)
    BY <1>4, Zenon DEF TraceInv
  <1>6. Evidence(ops, filtered)'
    BY <1>2, <1>4, <1>5, EvidenceStepsOn
  <1>7. known' = ops /\ filter' = filtered /\ traceRequest'.known = ops /\ traceRequest'.filter = filtered
    BY <1>1, <1>4
  <1>8. Evidence(known, filter)' /\ Evidence(traceRequest.known, traceRequest.filter)'
    BY <1>6, <1>7, Zenon DEF Evidence
  <1>9. Search!ShownTracesPass' /\ Search!FoundTracesOpen' /\ Search!ListsAgree'
    BY <1>1 DEF Search!ShownTracesPass, Search!FoundTracesOpen, Search!ListsAgree, Search!Showed, Search!NoAnswer
  <1> QED BY <1>2, <1>3, <1>8, <1>9 DEF TraceInv

LEMMA SearchKeepsInv == ASSUME TraceInv, [Search!Next]_(Search!traceVars), Search!Search PROVE TraceInv'
  <1>1. /\ traceRequest.at = "search" /\ traceRequest.op \in Listing /\ traceRequest.filter \in BOOLEAN
        /\ traceRequest.query \in Search!Query /\ traceRequest.op # "none" /\ TraceTypes
    BY DEF Search!Search, TraceInv, RequestFollows, TraceTypes, Listing
  <1>2. Search!Found
    BY DEF Search!Search
  <1>3. /\ traceRequest.op # "conversation" => Found(traceRequest.query.any, traceRequest.filter)
        /\ (traceRequest.op = "list" => Search!Lists(traceRequest.filter))
        /\ (traceRequest.op = "conversation" => Search!InConversation(traceRequest.filter))
    <2>1. PICK query, filtered : query = traceRequest.query /\ filtered = traceRequest.filter
      OBVIOUS
    <2>2. CASE traceRequest.op = "search"
      <3>1. Search!Finds(query, filtered)
        BY <1>2, <2>1, <2>2 DEF Search!Found
      <3>2. query \in Search!Query /\ filtered \in BOOLEAN
        BY <1>1, <2>1
      <3> QED BY <1>1, <2>1, <2>2, <3>1, <3>2, FoundPresent
    <2>3. CASE traceRequest.op = "list"
      <3>1. Search!Lists(filtered)
        BY <1>2, <2>1, <2>3 DEF Search!Found
      <3>2. filtered \in BOOLEAN
        BY <1>1, <2>1
      <3>3. Found(stitching, filtered)
        BY <1>1, <3>1, <3>2, ListedPresent
      <3>4. source.kind = "tempo" => query.any = stitching
        BY <2>1, <2>3 DEF TraceInv, RequestFollows
      <3>5. Found(query.any, filtered)
        BY <3>3, <3>4 DEF Found, Beside
      <3> QED BY <2>1, <2>3, <3>1, <3>5
    <2>4. CASE traceRequest.op = "conversation"
      <3>1. Search!InConversation(filtered)
        BY <1>2, <2>1, <2>4 DEF Search!Found
      <3> QED BY <2>1, <2>4, <3>1
    <2> QED BY <1>1, <2>2, <2>3, <2>4 DEF Listing
  <1>4. CASE traceRequest.op = "conversation"
    <2>1. /\ traceRequest' = [traceRequest EXCEPT !.at = "fetch"]
          /\ UNCHANGED <<source, stitching, trace, filter, answer, known>>
      BY <1>4 DEF Search!Search
    <2>2. /\ traceRequest'.op = traceRequest.op /\ traceRequest'.at = "fetch" /\ traceRequest'.filter = traceRequest.filter
          /\ traceRequest'.known = traceRequest.known /\ Search!Stored' = Search!Stored
      BY <2>1 DEF TraceInv, TraceTypes, Search!Stored
    <2>3. PICK ops, asked, filtered, current :
            /\ filtered = traceRequest.filter /\ ops = traceRequest.known /\ asked = known /\ current = filter
      OBVIOUS
    <2>4. filtered \in BOOLEAN /\ current \in BOOLEAN
      BY <2>3 DEF TraceInv, TraceTypes
    <2>5. Evidence(ops, filtered) /\ Evidence(asked, current) /\ Search!InConversation(filtered)
      BY <1>3, <1>4, <2>3, Zenon DEF TraceInv
    <2>6. Evidence(ops, filtered)' /\ Evidence(asked, current)' /\ Search!InConversation(filtered)'
      BY <2>4, <2>5, EvidenceStepsOn
    <2>7. /\ traceRequest'.filter = filtered /\ traceRequest'.known = ops /\ known' = asked /\ filter' = current
      BY <2>1, <2>2, <2>3
    <2>8. Evidence(known, filter)' /\ Evidence(traceRequest.known, traceRequest.filter)'
      BY <2>6, <2>7, Zenon DEF Evidence
    <2>9. Search!InConversation(traceRequest.filter)'
      BY <2>6, <2>7, Zenon
    <2>10. RequestFollows'
      BY <1>4, <2>2, <2>9 DEF RequestFollows, Listing
    <2>11. Search!ShownTracesPass' /\ Search!FoundTracesOpen' /\ Search!ListsAgree'
      BY <2>1, <2>2, Zenon DEF TraceInv, Search!ShownTracesPass, Search!FoundTracesOpen,
         Search!ListsAgree, Search!Escapes, Search!Showed, Search!Stitched
    <2> QED BY <2>8, <2>10, <2>11, EvidenceStepsOn DEF TraceInv
  <1>5. CASE traceRequest.op # "conversation"
    <2>1. Search!Give(TRUE, FALSE, FALSE)
      BY <1>5 DEF Search!Search
    <2>2. PICK filtered : filtered = traceRequest.filter
      OBVIOUS
    <2>3. Found(traceRequest.query.any, filtered) /\ filtered \in BOOLEAN /\ traceRequest.op \in {"search", "list"}
      BY <1>1, <1>3, <1>5, <2>2 DEF Listing
    <2>4. filtered => "project" \in Search!All(Search!Stored) \/ Search!Escapes(traceRequest.op, traceRequest.query.any)
      <3>1. Present(filtered) /\ filtered => "project" \in Search!All(Search!Stored)
        BY <1>1, <2>3, PresentOpens
      <3> QED BY <2>3, <3>1 DEF Found, Beside, Search!Escapes
    <2>5. Left([op |-> traceRequest.op, any |-> traceRequest.query.any], filtered)
      BY <1>1, <1>3, <1>5, <2>2, <2>3 DEF Left
    <2>6. Justified(TRUE, FALSE, FALSE)
      BY <2>2, <2>4, <2>5 DEF Justified
    <2> QED BY <1>1, <2>1, <2>6, GiveKeepsInv
  <1> QED BY <1>4, <1>5

LEMMA SearchInVainKeepsInv == ASSUME TraceInv, [Search!Next]_(Search!traceVars), Search!SearchInVain PROVE TraceInv'
  <1>1. /\ traceRequest.at = "search" /\ traceRequest.op \in Listing /\ traceRequest.filter \in BOOLEAN
        /\ traceRequest.op # "none" /\ traceRequest.op \notin {"open", "byIds"} /\ TraceTypes
    BY DEF Search!SearchInVain, TraceInv, RequestFollows, TraceTypes, Listing
  <1>2. PICK filtered : filtered = traceRequest.filter
    OBVIOUS
  <1>3. Evidence(traceRequest.known, filtered)
    BY <1>2, Zenon DEF TraceInv
  <1>4. CASE ~Search!Found /\ Search!Give(FALSE, FALSE, FALSE)
    <2>1. traceRequest.op = "list" => ~Search!Lists(filtered)
      BY <1>2, <1>4 DEF Search!Found
    <2>2. traceRequest.op = "conversation" => ~Search!InConversation(filtered)
      BY <1>2, <1>4 DEF Search!Found
    <2>3. /\ Search!InConversation(filtered) /\ ~Search!Lists(filtered) => source.kind = "custom" /\ source.byAttributes
          /\ Search!Lists(filtered) /\ ~Search!InConversation(filtered) =>
               source.kind = "custom" /\ source.byAttributes /\ ~(Search!Stitched \subseteq Search!All(Search!Stored))
      BY <1>1, <1>2, ListsMeetConversations
    <2>4. Justified(FALSE, FALSE, FALSE)
      BY <1>1, <1>3, <2>1, <2>2, <2>3 DEF Justified, Evidence, Left
    <2> QED BY <1>1, <1>4, <2>4, GiveKeepsInv
  <1>5. CASE Search!Found /\ traceRequest.query.short /\ Search!Give(FALSE, TRUE, FALSE)
    <2>1. traceRequest.op # "list"
      BY <1>5 DEF TraceInv, RequestFollows
    <2>2. Justified(FALSE, TRUE, FALSE)
      BY <1>1, <2>1 DEF Justified
    <2> QED BY <1>1, <1>5, <2>2, GiveKeepsInv
  <1> QED BY <1>4, <1>5 DEF Search!SearchInVain

LEMMA FetchKeepsInv == ASSUME TraceInv, [Search!Next]_(Search!traceVars), Search!Fetch PROVE TraceInv'
  <1>1. /\ traceRequest.at = "fetch" /\ traceRequest.op \in {"open", "byIds", "conversation"}
        /\ traceRequest.filter \in BOOLEAN /\ traceRequest.op # "none" /\ TraceTypes
    BY DEF Search!Fetch, TraceInv, RequestFollows, TraceTypes
  <1>2. PICK op, filtered : op = traceRequest.op /\ filtered = traceRequest.filter
    OBVIOUS
  <1>3. filtered \in BOOLEAN
    BY <1>1, <1>2
  <1>4. PICK seen : seen = (Search!Opens(Search!FetchFilters(op, filtered)) /\ ~Search!FilterAfter(op, filtered))
    OBVIOUS
  <1>5. Search!Give(seen, FALSE, FALSE)
    BY <1>2, <1>4, Zenon DEF Search!Fetch
  <1>6. /\ Evidence(traceRequest.known, filtered)
        /\ \/ traceRequest.known = {} \/ Present(filtered)
           \/ filtered /\ \A s \in traceRequest.known : Search!Escapes(s.op, s.any)
    <2>1. Evidence(traceRequest.known, filtered)
      BY <1>2, Zenon DEF TraceInv
    <2>2. \A s \in traceRequest.known : Present(filtered) \/ (filtered /\ Search!Escapes(s.op, s.any))
      BY <2>1 DEF Evidence, Left, Listing, Found, Beside, Search!Escapes
    <2> QED BY <2>1, <2>2
  <1>7. /\ Present(filtered) /\ ~Search!Opens(filtered) =>
             /\ source.kind = "clickhouse" /\ filtered
             /\ "project" \notin trace[1].resource \cup Search!InSpans(Search!Stored)
        /\ Present(filtered) => Search!Opens(Search!FetchFilters("conversation", filtered))
        /\ Search!Opens(filtered) /\ filtered => "project" \in Search!All(Search!Stored)
        /\ Present(filtered) /\ filtered => "project" \in Search!All(Search!Stored)
        /\ source.kind # "clickhouse" /\ Present(filtered) => Search!Opens(filtered)
        /\ Present(filtered) => Search!Opens(FALSE)
    BY <1>1, <1>3, PresentOpens
  <1>8. CASE op = "conversation"
    <2>1. Search!InConversation(filtered)
      BY <1>1, <1>2, <1>8 DEF TraceInv, RequestFollows
    <2>2. Found(stitching, filtered)
      BY <1>1, <1>3, <2>1, ListedPresent
    <2>3. Search!FilterAfter(op, filtered) = FALSE
      BY <1>8 DEF Search!FilterAfter
    <2>4. seen = Search!Opens(Search!FetchFilters(op, filtered))
      <3>1. Search!Opens(Search!FetchFilters(op, filtered)) \in BOOLEAN
        BY <1>1, Zenon DEF TraceTypes, Search!Source, Search!Kinds, Search!Opens, Search!TempoOpens, Search!ClickHouseOpens, Search!JaegerOpens, Search!CustomOpens
      <3> QED BY <1>4, <2>3, <3>1
    <2>5. CASE Present(filtered)
      <3>1. seen
        BY <1>7, <1>8, <2>4, <2>5
      <3>2. Left([op |-> traceRequest.op, any |-> traceRequest.query.any], traceRequest.filter)
        BY <1>2, <1>8, <2>1, <2>2, <2>5 DEF Left, Listing, Found
      <3>3. Justified(seen, FALSE, FALSE)
        BY <1>2, <1>7, <1>8, <2>5, <3>1, <3>2 DEF Justified
      <3> QED BY <1>1, <1>5, <3>3, GiveKeepsInv
    <2>6. CASE ~Present(filtered)
      <3>1. filtered /\ Beside(stitching) /\ source.kind = "tempo" /\ trace # <<>>
        BY <2>2, <2>6 DEF Found, Beside
      <3>2. "project" \notin Search!All(Search!Stored)
        BY <2>6, <3>1 DEF Present, Search!KeepsFull
      <3>3. Search!FetchFilters(op, filtered) = filtered
        BY <1>3, <3>1 DEF Search!FetchFilters
      <3>4. ~seen
        BY <1>7, <2>4, <3>1, <3>2, <3>3
      <3>5. Search!Escapes("list", stitching)
        BY <3>1 DEF Search!Escapes, Beside
      <3>6. Justified(seen, FALSE, FALSE)
        BY <1>2, <1>8, <3>1, <3>2, <3>4, <3>5 DEF Justified
      <3> QED BY <1>1, <1>5, <3>6, GiveKeepsInv
    <2> QED BY <2>5, <2>6
  <1>9. CASE op \in {"open", "byIds"}
    <2>1. Search!FetchFilters(op, filtered) = (filtered /\ ~(source.kind = "clickhouse" /\ op = "byIds"))
      BY <1>9 DEF Search!FetchFilters
    <2>2. Search!FilterAfter(op, filtered) = (filtered /\ source.kind = "clickhouse" /\ op = "byIds")
      BY DEF Search!FilterAfter
    <2>3. CASE source.kind = "clickhouse" /\ op = "byIds"
      <3>1. Search!FetchFilters(op, filtered) = FALSE
        BY <2>1, <2>3
      <3>2. seen = (Search!Opens(FALSE) /\ ~filtered)
        BY <1>4, <2>2, <2>3, <3>1
      <3>3. Justified(seen, FALSE, FALSE)
        BY <1>2, <1>6, <1>7, <2>3, <3>2 DEF Justified
      <3> QED BY <1>1, <1>5, <3>3, GiveKeepsInv
    <2>4. CASE ~(source.kind = "clickhouse" /\ op = "byIds")
      <3>1. Search!FetchFilters(op, filtered) = filtered /\ Search!FilterAfter(op, filtered) = FALSE
        BY <1>3, <2>1, <2>2, <2>4
      <3>2. seen = (Search!Opens(filtered) /\ ~FALSE)
        BY <1>4, <3>1
      <3>3. Justified(seen, FALSE, FALSE)
        BY <1>2, <1>6, <1>7, <1>9, <2>4, <3>2 DEF Justified
      <3> QED BY <1>1, <1>5, <3>3, GiveKeepsInv
    <2> QED BY <2>3, <2>4
  <1> QED BY <1>1, <1>2, <1>8, <1>9

LEMMA TraceNextInv == TraceInv /\ [Search!Next]_(Search!traceVars) => TraceInv'
  <1> SUFFICES ASSUME TraceInv, [Search!Next]_(Search!traceVars) PROVE TraceInv'
    OBVIOUS
  <1>1. CASE Search!AskSearch
    <2>1. PICK query \in Search!Searches : Search!Ask("search", query)
      BY <1>1 DEF Search!AskSearch
    <2> QED BY <2>1, AskKeepsInv DEF Search!Operations
  <1>2. CASE Search!AskTrace
    <2>1. PICK query : query = Search!Everything
      OBVIOUS
    <2>2. Search!Ask("open", query) \/ Search!Ask("byIds", query)
      BY <1>2, <2>1 DEF Search!AskTrace
    <2> QED BY <2>2, AskKeepsInv DEF Search!Operations
  <1>3. CASE Search!AskConversations
    <2>1. PICK asked, sought : asked = Search!ListQuery /\ sought = Search!ConversationQuery
      OBVIOUS
    <2>2. Search!Ask("list", asked) \/ Search!Ask("conversation", sought)
      BY <1>3, <2>1 DEF Search!AskConversations
    <2>3. ~asked.short /\ (source.kind = "tempo" => asked.any = stitching)
      BY <2>1, ListAsks DEF AsksList, TraceInv
    <2> QED BY <2>2, <2>3, AskKeepsInv DEF Search!Operations
  <1>4. CASE Search!RefuseSearch
    <2>1. traceRequest.op = "search" /\ Search!Give(FALSE, FALSE, TRUE)
      BY <1>4 DEF Search!RefuseSearch
    <2>2. Justified(FALSE, FALSE, TRUE)
      BY DEF Justified
    <2> QED BY <2>1, <2>2, GiveKeepsInv
  <1>5. CASE Search!Fail
    <2>1. traceRequest.op # "none" /\ Search!Give(FALSE, FALSE, TRUE)
      BY <1>5 DEF Search!Fail, TraceInv, RequestFollows, Listing
    <2>2. Justified(FALSE, FALSE, TRUE)
      BY DEF Justified
    <2> QED BY <2>1, <2>2, GiveKeepsInv
  <1>6. CASE Search!Arrive \/ Search!UpdateProject \/ UNCHANGED Search!traceVars
    <2>1. /\ traceRequest' = traceRequest
          /\ known' = {} \/ (known' = known /\ filter' = filter)
          /\ source' = source /\ stitching' = stitching
          /\ \/ answer' = Search!NoAnswer
             \/ answer' = answer /\ trace' = trace /\ source' = source /\ stitching' = stitching
      BY <1>6 DEF Search!Arrive, Search!UpdateProject, Search!traceVars
    <2>2. PICK ops, asked, filtered, current :
            /\ filtered = traceRequest.filter /\ ops = traceRequest.known /\ asked = known /\ current = filter
      OBVIOUS
    <2>3. filtered \in BOOLEAN /\ current \in BOOLEAN
      BY <2>2 DEF TraceInv, TraceTypes
    <2>4. /\ Evidence(ops, filtered) /\ Evidence(asked, current)
          /\ traceRequest.op = "conversation" /\ traceRequest.at = "fetch" => Search!InConversation(filtered)
      BY <2>2, Zenon DEF TraceInv, RequestFollows
    <2>5. /\ Evidence(ops, filtered)' /\ Evidence(asked, current)'
          /\ traceRequest.op = "conversation" /\ traceRequest.at = "fetch" => Search!InConversation(filtered)'
      BY <2>3, <2>4, EvidenceStepsOn
    <2>6. Evidence(traceRequest.known, traceRequest.filter)'
      BY <2>1, <2>2, <2>5, Zenon
    <2>7. Evidence(known, filter)'
      <3>1. CASE known' = {}
        BY <3>1 DEF Evidence
      <3>2. CASE known' = known /\ filter' = filter
        BY <2>2, <2>5, <3>2, Zenon
      <3> QED BY <2>1, <3>1, <3>2
    <2>8. RequestFollows'
      <3>1. traceRequest.op = "conversation" /\ traceRequest.at = "fetch" => Search!InConversation(traceRequest.filter)'
        BY <2>1, <2>2, <2>5, Zenon
      <3> QED BY <2>1, <3>1 DEF TraceInv, RequestFollows
    <2>9. Search!ShownTracesPass' /\ Search!FoundTracesOpen' /\ Search!ListsAgree'
      <3>1. CASE answer' = Search!NoAnswer
        BY <3>1 DEF Search!ShownTracesPass, Search!FoundTracesOpen, Search!ListsAgree,
                    Search!Showed, Search!NoAnswer
      <3>2. CASE answer' = answer /\ trace' = trace /\ source' = source /\ stitching' = stitching
        BY <3>2, Zenon DEF TraceInv, Search!ShownTracesPass, Search!FoundTracesOpen,
                           Search!ListsAgree, Search!Stored, Search!Escapes, Search!Showed, Search!Stitched
      <3> QED BY <2>1, <3>1, <3>2
    <2> QED BY <2>6, <2>7, <2>8, <2>9, EvidenceStepsOn DEF TraceInv
  <1> QED BY <1>1, <1>2, <1>3, <1>4, <1>5, <1>6, SearchKeepsInv, SearchInVainKeepsInv, FetchKeepsInv
         DEF Search!Next

LEMMA TraceInvImplies == TraceInv => Search!TraceSafety
  <1> SUFFICES ASSUME TraceInv PROVE Search!TraceSafety
    OBVIOUS
  <1>1. Search!TypeOK
    BY SpansAssumption, StitchedMarks DEF Search!TypeOK, TraceInv, TraceTypes
  <1> QED BY <1>1 DEF TraceInv, Search!TraceSafety

(***************************************************************************)
(* Whichever of four repositories is asked, by whichever list of           *)
(* capabilities, stitching attributes and q, and whatever arrives or is    *)
(* changed meanwhile: a trace shown under the project's filter passes it,  *)
(* one that was found opens by its identifier, and lists and conversations *)
(* hold the same, but for the exceptions that the three properties name,   *)
(* the alternatives of a q that Tempo's filter does not join among them;   *)
(* and an answer heeds the visibility rules (the trace and conversation    *)
(* repositories, TraceFilterUtil, AttributeVisibilityService).             *)
(***************************************************************************)
THEOREM TracesAreSafe == Search!Spec /\ Rules!Spec => []TraceSafety
  <1>1. Search!Init => TraceInv
    BY TraceInitInv
  <1>2. TraceInv /\ [Search!Next]_(Search!traceVars) => TraceInv'
    BY TraceNextInv
  <1>3. TraceInv => Search!TraceSafety
    BY TraceInvImplies
  <1>4. Search!TraceSafety /\ Rules!RuleSafety => TraceSafety
    BY DEF TraceSafety
  <1> QED BY <1>1, <1>2, <1>3, <1>4, RulesAreHeeded, PTL DEF Search!Spec

-----------------------------------------------------------------------------
(***************************************************************************)
(* Who is served.  The permissions of roles only add up, and whoever       *)
(* created a project stays among its users.                                *)
(***************************************************************************)

LEMMA PermissionsAddUp ==
  ASSUME NEW few, NEW many, few \subseteq many, NEW permission,
         Access!HasPermission(few, permission)
  PROVE  Access!HasPermission(many, permission)
  <1>1. CASE \E r \in many : Access!PermissionsOf[r] = {<<"*">>}
    BY <1>1 DEF Access!HasPermission, Access!AggregatePermissions
  <1>2. CASE ~\E r \in many : Access!PermissionsOf[r] = {<<"*">>}
    <2>1. /\ Access!AggregatePermissions(few) = UNION {Access!PermissionsOf[r] : r \in few}
          /\ Access!AggregatePermissions(many) = UNION {Access!PermissionsOf[r] : r \in many}
      BY <1>2 DEF Access!AggregatePermissions
    <2>2. Access!AggregatePermissions(few) \subseteq Access!AggregatePermissions(many)
      BY <2>1
    <2> QED BY <2>2 DEF Access!HasPermission
  <1> QED BY <1>1, <1>2

AccessInv ==
  /\ Access!TypeOK /\ held \in [Accounts -> SUBSET Access!Existing]
  /\ Access!ListedProjectsAreJoined
  /\ \A p \in orphaned : creator[p] # "nobody"

LEMMA AccessInitInv ==
  ASSUME Access!Init
  PROVE  AccessInv
  BY AccessAssumption
     DEF Access!Init, AccessInv, Access!TypeOK, Access!Existing, Access!ListedProjectsAreJoined,
         Access!OrgRoles

LEMMA ExistingRoles ==
  /\ Access!OrgRoles \subseteq Access!Existing
  /\ \A p \in OwnProjects : Access!ProjectRoles(p) \subseteq Access!Existing
  /\ \A given \in Access!Named : given \subseteq Access!Existing
  /\ DOMAIN Access!PermissionsOf = Access!Existing
  BY DEF Access!Existing, Access!Named, Access!PermissionsOf

\* Whatever role is given in the place of another, there is such a role.
LEMMA RolesReplaced ==
  ASSUME held \in [Accounts -> SUBSET Access!Existing], NEW u \in Accounts,
         NEW given \in SUBSET Access!Existing, NEW scope,
         Access!Replace(u, scope, given) \/ Access!Hold(u, held[u] \union given)
  PROVE  held' \in [Accounts -> SUBSET Access!Existing]
  <1>1. PICK roles \in SUBSET Access!Existing : held' = [held EXCEPT ![u] = roles]
    BY DEF Access!Replace, Access!Hold
  <1> QED BY <1>1

LEMMA AccessNext ==
  ASSUME AccessInv, [Access!Next]_(Access!accessVars)
  PROVE  AccessInv'
  <1> SUFFICES ASSUME Access!Next PROVE AccessInv'
    BY DEF Access!accessVars, AccessInv, Access!TypeOK, Access!ListedProjectsAreJoined,
           Access!Existing
  <1>0. /\ seated \subseteq Accounts /\ creator \in [OwnProjects -> Accounts \union {"nobody"}]
        /\ joined \in [OwnProjects -> SUBSET Accounts]
        /\ held \in [Accounts -> SUBSET Access!Existing]
        /\ orphaned \subseteq OwnProjects
        /\ \A u \in Accounts, p \in OwnProjects :
             creator[p] = u => (u \in joined[p] <=> p \notin orphaned)
        /\ \A p \in orphaned : creator[p] # "nobody"
    BY DEF AccessInv, Access!TypeOK, Access!ListedProjectsAreJoined
  <1>1. ASSUME /\ seated' \subseteq Accounts
               /\ creator' \in [OwnProjects -> Accounts \union {"nobody"}]
               /\ joined' \in [OwnProjects -> SUBSET Accounts]
               /\ held' \in [Accounts -> SUBSET Access!Existing]
               /\ orphaned' \subseteq OwnProjects
               /\ \A u \in Accounts, p \in OwnProjects :
                    creator'[p] = u => (u \in joined'[p] <=> p \notin orphaned')
               /\ \A p \in orphaned' : creator'[p] # "nobody"
        PROVE  AccessInv'
    BY <1>1 DEF AccessInv, Access!TypeOK, Access!ListedProjectsAreJoined, Access!Existing
  <1>2. ASSUME NEW a \in Accounts, NEW u \in Accounts, Access!RemoveFromOrganisation(a, u)
        PROVE  AccessInv'
    BY <1>0, <1>1, <1>2 DEF Access!RemoveFromOrganisation
  <1>3. ASSUME NEW a \in Accounts, NEW u \in Accounts,
               Access!AddUser(a, u) \/ Access!AssignOrganisationRole(a, u)
        PROVE  AccessInv'
    <2>1. held' \in [Accounts -> SUBSET Access!Existing]
      <3>1. \/ held' = held
            \/ \E role \in Access!OrgRoles : Access!Replace(u, Access!OrgRoles, {role})
            \/ \E given \in Access!Named : Access!Replace(u, Access!OrgRoles, given)
        BY <1>3 DEF Access!AddUser, Access!AssignOrganisationRole
      <3>2. \A role \in Access!OrgRoles : {role} \in SUBSET Access!Existing
        BY ExistingRoles
      <3> QED BY <3>1, <3>2, <1>0, ExistingRoles, RolesReplaced
    <2>2. UNCHANGED <<creator, joined, orphaned>> /\ seated' \subseteq Accounts
      BY <1>0, <1>3 DEF Access!AddUser, Access!AssignOrganisationRole
    <2> QED BY <1>0, <1>1, <2>1, <2>2
  <1>4. ASSUME NEW a \in Accounts, NEW u \in Accounts, NEW p \in OwnProjects,
               Access!RemoveUser(a, p, u)
        PROVE  AccessInv'
    BY <1>0, <1>1, <1>4 DEF Access!RemoveUser
  <1>5. ASSUME NEW a \in Accounts, NEW u \in Accounts, NEW p \in OwnProjects,
               Access!RemoveProjectRole(a, p, u) \/ Access!AssignProjectRole(a, p, u)
        PROVE  AccessInv'
    <2>1. /\ UNCHANGED <<seated, creator, joined, orphaned>>
          /\ \/ Access!Replace(u, Access!ProjectRoles(p), {})
             \/ \E given \in Access!Named : Access!Replace(u, Access!ProjectRoles(p), given)
      BY <1>5 DEF Access!RemoveProjectRole, Access!AssignProjectRole
    <2>2. held' \in [Accounts -> SUBSET Access!Existing]
      BY <1>0, <2>1, ExistingRoles, RolesReplaced
    <2> QED BY <1>0, <1>1, <2>1, <2>2
  <1>6. ASSUME NEW a \in Accounts, NEW u \in Accounts, NEW p \in OwnProjects,
               Access!InviteUser(a, p, u)
        PROVE  AccessInv'
    <2>1. /\ joined' = [joined EXCEPT ![p] = @ \union {u}]
          /\ \E given \in Access!Named : Access!Hold(u, held[u] \union given)
          /\ orphaned' = IF creator[p] = u THEN orphaned \ {p} ELSE orphaned
          /\ UNCHANGED <<seated, creator>>
      BY <1>6 DEF Access!InviteUser
    <2>2. held' \in [Accounts -> SUBSET Access!Existing]
      BY <1>0, <2>1, ExistingRoles, RolesReplaced
    <2>3. joined' \in [OwnProjects -> SUBSET Accounts] /\ orphaned' \subseteq OwnProjects
      BY <1>0, <2>1
    <2>4. \A v \in Accounts, q \in OwnProjects :
            creator'[q] = v => (v \in joined'[q] <=> q \notin orphaned')
      BY <1>0, <2>1
    <2> QED BY <1>0, <1>1, <2>1, <2>2, <2>3, <2>4
  <1>7. ASSUME NEW a \in Accounts, NEW u \in Accounts, Access!RemoveUserFromSystem(a, u)
        PROVE  AccessInv'
    <2>1. /\ joined' = [p \in OwnProjects |-> joined[p] \ {u}]
          /\ held' = [held EXCEPT ![u] = {}]
          /\ orphaned' = orphaned \union {p \in OwnProjects : creator[p] = u}
          /\ creator' = creator /\ seated' = seated \ {u}
      BY <1>7 DEF Access!RemoveUserFromSystem
    <2>2. \A v \in Accounts, q \in OwnProjects :
            creator'[q] = v => (v \in joined'[q] <=> q \notin orphaned')
      BY <1>0, <2>1
    <2>3. \A q \in orphaned' : creator'[q] # "nobody"
      BY <1>0, <2>1, AccessAssumption
    <2> QED BY <1>0, <1>1, <2>1, <2>2, <2>3
  <1>8. ASSUME NEW a \in Accounts, NEW p \in OwnProjects, Access!CreateProject(a, p)
        PROVE  AccessInv'
    <2>1. PICK role : role = Access!Role("Project Admin", p)
      OBVIOUS
    <2>2. role \in Access!Existing
      BY <2>1, ExistingRoles DEF Access!ProjectRoles
    <2>3. /\ creator' = [creator EXCEPT ![p] = a] /\ joined' = [joined EXCEPT ![p] = {a}]
          /\ held' = [held EXCEPT ![a] = @ \union {role}] /\ seated' = seated
          /\ orphaned' = orphaned /\ p \notin orphaned
      BY <1>0, <1>8, <2>1 DEF Access!CreateProject, Access!Exists
    <2>4. /\ held' \in [Accounts -> SUBSET Access!Existing]
          /\ joined' \in [OwnProjects -> SUBSET Accounts]
          /\ creator' \in [OwnProjects -> Accounts \union {"nobody"}]
      BY <1>0, <2>2, <2>3
    <2>5. \A v \in Accounts, q \in OwnProjects :
            creator'[q] = v => (v \in joined'[q] <=> q \notin orphaned')
      BY <1>0, <2>3
    <2> QED BY <1>0, <1>1, <2>3, <2>4, <2>5
  <1>9. ASSUME NEW a \in Accounts, NEW p \in OwnProjects, Access!RemoveProject(a, p)
        PROVE  AccessInv'
    <2>1. /\ creator' = [creator EXCEPT ![p] = "nobody"] /\ joined' = [joined EXCEPT ![p] = {}]
          /\ held' = [u \in Accounts |-> held[u] \ Access!ProjectRoles(p)] /\ seated' = seated
          /\ orphaned' = orphaned \ {p}
      BY <1>9 DEF Access!RemoveProject
    <2>2. /\ held' \in [Accounts -> SUBSET Access!Existing]
          /\ joined' \in [OwnProjects -> SUBSET Accounts]
          /\ creator' \in [OwnProjects -> Accounts \union {"nobody"}]
      BY <1>0, <2>1
    <2>3. \A u \in Accounts, q \in OwnProjects :
            creator'[q] = u => (u \in joined'[q] <=> q \notin orphaned')
      BY <1>0, <2>1, AccessAssumption
    <2> QED BY <1>0, <1>1, <2>1, <2>2, <2>3
  <1> QED BY <1>2, <1>3, <1>4, <1>5, <1>6, <1>7, <1>8, <1>9 DEF Access!Next

(***************************************************************************)
(* What follows of the doors.                                              *)
(***************************************************************************)
LEMMA CreatorRepairs ==
  ASSUME AccessInv
  PROVE  Access!CreatorCanRepair
  <1>1. \A door \in Access!ProjectRolesController : door.creator
    BY DEF Access!ProjectRolesController, Access!Controller
  <1> QED BY <1>1 DEF Access!CreatorCanRepair, Access!OrgProjectPermissionGuard,
                      Access!CreatorFallback

\* One set of each kind, together.
Combined(I, O, Q) == {i \union o \union q : i \in I, o \in O, q \in Q}

LEMMA CombinedParts ==
  ASSUME NEW I, NEW O, NEW Q, NEW x \in Combined(I, O, Q)
  PROVE  \E i \in I, o \in O, q \in Q : x = i \union o \union q
  BY DEF Combined

LEMMA GuardsDoAgree ==
  ASSUME AccessInv
  PROVE  Access!GuardsAgree
  <1> SUFFICES ASSUME NEW u \in seated, NEW p \in OwnProjects, NEW door, door.permission # <<>>,
                      NEW roles \in Access!UserRoles(u, p),
                      Access!HasPermission(roles, door.permission)
               PROVE  \E some \in Access!UserRoles(u, "none") :
                        Access!OrgPermissionGuard(u, door, some)
    BY DEF Access!GuardsAgree
  <1>1. p # "none"
    BY AccessAssumption
  <1>2. roles \in Combined(Access!AnyOf(held[u] \intersect {Access!Owner}),
                          Access!AnyOf(held[u] \intersect Access!OrgRoles),
                          Access!AnyOf(held[u] \intersect Access!ProjectRoles(p)))
    <2>1. PICK third : third = IF p = "none" THEN {{}}
                               ELSE Access!AnyOf(held[u] \intersect Access!ProjectRoles(p))
      OBVIOUS
    <2>2. Access!UserRoles(u, p) =
            Combined(Access!AnyOf(held[u] \intersect {Access!Owner}),
                     Access!AnyOf(held[u] \intersect Access!OrgRoles), third)
      BY <2>1 DEF Access!UserRoles, Combined
    <2>3. third = Access!AnyOf(held[u] \intersect Access!ProjectRoles(p))
      BY <1>1, <2>1
    <2> QED BY <2>2, <2>3, Zenon
  <1>3. PICK i, o, q : /\ i \in Access!AnyOf(held[u] \intersect {Access!Owner})
                       /\ o \in Access!AnyOf(held[u] \intersect Access!OrgRoles)
                       /\ q \in Access!AnyOf(held[u] \intersect Access!ProjectRoles(p))
                       /\ roles = i \union o \union q
    BY <1>2, CombinedParts
  <1>4. PICK some : some = i \union o \union {}
    OBVIOUS
  <1>5. some \in Access!UserRoles(u, "none")
    BY <1>3, <1>4 DEF Access!UserRoles
  <1>6. q \subseteq held[u] \intersect Access!ProjectRoles(p)
    BY <1>3 DEF Access!AnyOf
  <1>7. roles \subseteq Access!WithProjectRoles(u, "none", some)
    BY <1>3, <1>4, <1>6 DEF Access!WithProjectRoles
  <1>8. Access!HasPermission(Access!WithProjectRoles(u, "none", some), door.permission)
    BY <1>7, PermissionsAddUp
  <1> QED BY <1>5, <1>8 DEF Access!OrgPermissionGuard

\* Doors have the fields that the guards look at.
Explicit(d) ==
  \E n, g, c, asked : d = [name |-> n, guards |-> g, creator |-> c, permission |-> asked]

LEMMA ControllersAreExplicit ==
  /\ \A guards, resource, opens, handlers :
        \A d \in Access!Controller(guards, resource, opens, handlers) : Explicit(d)
  /\ \A handlers : \A d \in Access!InstanceController(handlers) : Explicit(d)
  BY DEF Access!Controller, Access!InstanceController, Explicit

LEMMA DoorsAreExplicit == \A d \in Access!SessionDoors : Explicit(d)
  <1>1. \A d \in Access!DatasetsController \union Access!DatasetsByIdController \union
               Access!ExperimentsController \union Access!EvaluationsController \union
               Access!EvaluationsByIdController \union Access!EvaluationStatisticsController :
          Explicit(d)
    BY ControllersAreExplicit DEF Access!DatasetsController, Access!DatasetsByIdController,
       Access!ExperimentsController, Access!EvaluationsController,
       Access!EvaluationsByIdController, Access!EvaluationStatisticsController
  <1>2. \A d \in Access!ScoresController \union Access!PromptsController \union
               Access!PromptVersionsController \union Access!AnnotationQueueController \union
               Access!AnnotationController \union Access!QueueTraceController :
          Explicit(d)
    BY ControllersAreExplicit DEF Access!ScoresController, Access!PromptsController,
       Access!PromptVersionsController, Access!AnnotationQueueController,
       Access!AnnotationController, Access!QueueTraceController
  <1>3. \A d \in Access!QueueConversationController \union Access!TracesController \union
               Access!TraceController \union Access!ConversationsController \union
               Access!DatasourcesController \union Access!DatasourceByIdController :
          Explicit(d)
    BY ControllersAreExplicit DEF Access!QueueConversationController, Access!TracesController,
       Access!TraceController, Access!ConversationsController, Access!DatasourcesController,
       Access!DatasourceByIdController
  <1>4. \A d \in Access!EntitiesController \union Access!ConversationConfigController \union
               Access!ConversationConfigByIdController \union
               Access!ModelConfigurationController \union Access!RolesController \union
               Access!ProjectsController :
          Explicit(d)
    BY ControllersAreExplicit DEF Access!EntitiesController, Access!ConversationConfigController,
       Access!ConversationConfigByIdController, Access!ModelConfigurationController,
       Access!RolesController, Access!ProjectsController
  <1>5. \A d \in Access!ProjectMembersController \union Access!ProjectRolesController \union
               Access!ApiKeysController \union Access!AttributeVisibilityRuleController \union
               Access!RetentionController \union Access!ProjectRetentionController :
          Explicit(d)
    BY ControllersAreExplicit DEF Access!ProjectMembersController, Access!ProjectRolesController,
       Access!ApiKeysController, Access!AttributeVisibilityRuleController,
       Access!RetentionController, Access!ProjectRetentionController
  <1>6. \A d \in Access!OrganisationsController \union Access!OrganisationMembersController \union
               Access!SessionOnly :
          Explicit(d)
    BY ControllersAreExplicit DEF Access!OrganisationsController,
       Access!OrganisationMembersController, Access!SessionOnly
  <1>7. \A d \in Access!AdminController \union Access!AdminUsersController \union
               Access!InstanceOwnerController :
          Explicit(d)
    BY ControllersAreExplicit DEF Access!AdminController, Access!AdminUsersController,
       Access!InstanceOwnerController
  <1> QED BY <1>1, <1>2, <1>3, <1>4, <1>5, <1>6, <1>7 DEF Access!SessionDoors

Relabelled(d, n, g) == [d EXCEPT !.name = n, !.guards = g]
AsksAlike(d, e) == e.permission = d.permission /\ e.creator = d.creator

LEMMA RelabelledDoors ==
  ASSUME NEW d, Explicit(d), NEW n, NEW g
  PROVE  AsksAlike(d, Relabelled(d, n, g))
  BY DEF Explicit, Relabelled, AsksAlike

LEMMA MenuIsTrue ==
  ASSUME AccessInv
  PROVE  Access!MenuMatchesDoors
  <1> DEFINE Offers(menu, door) == door.permission \in menu \/ <<"*">> \in menu
  <1>1. ASSUME NEW guard, NEW door \in Access!AskingDoors(guard)
        PROVE  door.permission # <<>> /\ ~door.creator
    <2>1. PICK d \in {e \in Access!SessionDoors :
                     guard \in e.guards /\ e.permission # <<>> /\ ~e.creator} :
            door = [d EXCEPT !.name = "any", !.guards = {guard}]
      BY DEF Access!AskingDoors
    <2>2. Explicit(d) /\ d.permission # <<>> /\ ~d.creator
      BY DoorsAreExplicit
    <2>3. door = Relabelled(d, "any", {guard})
      BY <2>1, Zenon DEF Relabelled
    <2>4. AsksAlike(d, Relabelled(d, "any", {guard}))
      BY <2>2, RelabelledDoors, Zenon
    <2>5. AsksAlike(d, door)
      BY <2>3, <2>4, Zenon
    <2> QED BY <2>2, <2>5 DEF AsksAlike
  <1>2. ASSUME NEW u \in seated, NEW roles, NEW door \in Access!OrgDoors
        PROVE  Offers(Access!Menu(u, "none", roles), door)
               <=> Access!OrgPermissionGuard(u, door, roles)
    BY <1>1 DEF Access!OrgDoors, Access!Menu, Access!OrgPermissionGuard, Access!HasPermission
  <1>3. ASSUME NEW u \in seated, NEW p \in OwnProjects, u \in joined[p], NEW roles,
               NEW door \in Access!ProjectDoors
        PROVE  Offers(Access!Menu(u, p, roles), door)
               <=> Access!OrgProjectPermissionGuard(u, p, door, roles)
    <2>1. p # "none" /\ ~door.creator /\ door.permission # <<>>
      BY <1>1, AccessAssumption DEF Access!ProjectDoors
    <2> QED BY <1>3, <2>1
            DEF Access!Menu, Access!WithProjectRoles, Access!OrgProjectPermissionGuard,
                Access!CreatorFallback, Access!HasPermission
  <1> QED BY <1>2, <1>3 DEF Access!MenuMatchesDoors

(***************************************************************************)
(* What is said of the seeds and of the doors alone.                       *)
(***************************************************************************)
LEMMA RanksDoOrder == Access!RanksAreOrdered
  <1>1. \A r \in Access!Data \union {"organisations"} \union Access!Settings :
          "read" \in Access!Verbs[r]
    BY DEF Access!Data, Access!Settings, Access!Verbs, Access!CRUD
  <1>2. "results:read" \in Access!Verbs["evaluations"]
    BY DEF Access!Verbs
  <1>3. Access!ViewerPermissions \subseteq Access!MemberPermissions
    BY <1>1, <1>2 DEF Access!ViewerPermissions, Access!MemberPermissions, Access!AllOf,
                      Access!ReadOf, Access!Data
  <1>4. Access!MemberPermissions \subseteq Access!ProjectAdminPermissions
    BY DEF Access!MemberPermissions, Access!ProjectAdminPermissions, Access!ReadOf
  <1>5. Access!OrganisationMemberPermissions \subseteq Access!OrganisationAdminPermissions
    BY <1>1 DEF Access!OrganisationMemberPermissions, Access!OrganisationAdminPermissions,
                Access!AllOf, Access!ReadOf
  <1> QED BY <1>3, <1>4, <1>5 DEF Access!RanksAreOrdered

\* A door through which rows of a resource are looked at.
Opens(controller, resource, verb) == \E d \in controller : d.permission = <<resource, verb>>

LEMMA HandlersOpen ==
  ASSUME NEW guards, NEW resource, NEW opens, NEW handlers, NEW verb, verb # "none",
         NEW h \in DOMAIN handlers, handlers[h] = verb
  PROVE  Opens(Access!Controller(guards, resource, opens, handlers), resource, verb)
  <1>1. PICK d : d = [name |-> h, guards |-> guards, creator |-> opens,
                      permission |-> IF handlers[h] = "none" THEN <<>>
                                    ELSE <<resource, handlers[h]>>]
    OBVIOUS
  <1>2. d \in Access!Controller(guards, resource, opens, handlers)
    BY <1>1, Zenon DEF Access!Controller
  <1>3. d.permission = <<resource, verb>>
    BY <1>1
  <1> QED BY <1>2, <1>3, Zenon DEF Opens

LEMMA ReadingDoors ==
  /\ \A r \in (Access!Data \ {"annotations"}) \union Access!Settings
              \union {"projects", "organisations"} :
       Opens(Access!SessionDoors, r, "read")
  /\ Opens(Access!SessionDoors, "organisations", "roles:read")
  <1>1. Opens(Access!DatasourcesController, "datasources", "read")
    BY HandlersOpen DEF Access!DatasourcesController
  <1>2. Opens(Access!DatasetsController, "datasets", "read")
    BY HandlersOpen DEF Access!DatasetsController
  <1>3. Opens(Access!TracesController, "traces", "read")
    BY HandlersOpen DEF Access!TracesController
  <1>4. Opens(Access!ConversationsController, "conversations", "read")
    BY HandlersOpen DEF Access!ConversationsController
  <1>5. Opens(Access!PromptsController, "prompts", "read")
    BY HandlersOpen DEF Access!PromptsController
  <1>6. Opens(Access!ExperimentsController, "experiments", "read")
    BY HandlersOpen DEF Access!ExperimentsController
  <1>7. Opens(Access!EvaluationsController, "evaluations", "read")
    BY HandlersOpen DEF Access!EvaluationsController
  <1>8. Opens(Access!ScoresController, "scores", "read")
    BY HandlersOpen DEF Access!ScoresController
  <1>9. Opens(Access!AnnotationQueueController, "annotation-queues", "read")
    BY HandlersOpen DEF Access!AnnotationQueueController
  <1>10. Opens(Access!EntitiesController, "entities", "read")
    BY HandlersOpen DEF Access!EntitiesController
  <1>11. Opens(Access!ConversationConfigController, "conversation-configurations", "read")
    BY HandlersOpen DEF Access!ConversationConfigController
  <1>12. Opens(Access!ModelConfigurationController, "model-configurations", "read")
    BY HandlersOpen DEF Access!ModelConfigurationController
  <1>13. Opens(Access!RetentionController, "organisations", "read")
    BY HandlersOpen DEF Access!RetentionController
  <1>14. Opens(Access!ProjectRetentionController, "projects", "read")
    BY HandlersOpen DEF Access!ProjectRetentionController
  <1>15. Opens(Access!RolesController, "organisations", "roles:read")
    <2>1. Opens(Access!Controller({"org"}, "organisations", FALSE,
                              [findAll |-> "roles:read", findOne |-> "roles:read"]),
                "organisations", "roles:read")
      BY HandlersOpen
    <2> QED BY <2>1 DEF Access!RolesController, Opens
  <1> QED BY <1>1, <1>2, <1>3, <1>4, <1>5, <1>6, <1>7, <1>8, <1>9, <1>10, <1>11, <1>12, <1>13,
             <1>14, <1>15 DEF Access!SessionDoors, Access!Data, Access!Settings, Opens

LEMMA KeysDoRead == Access!KeysOnlyReadSettings
  <1> DEFINE writes == {"create", "addRow", "importScoreResults", "createResult"}
  <1>1. \A door \in Access!KeyDoors["datasources"] \union Access!KeyDoors["entities"]
                    \union Access!KeyDoors["prompts"]
                    \union Access!KeyDoors["model-configurations"] : door.name \notin writes
    BY DEF Access!KeyDoors, Access!PublicDatasourcesController, Access!PublicEntitiesController,
           Access!PublicPromptsController, Access!PromptsInternalController,
           Access!ModelConfigurationInternalController, Access!KeyController
  <1>2. {"datasets", "evaluations", "experiments", "traces"}
          \subseteq Access!Data \ {"datasources", "prompts", "scores"}
    BY DEF Access!Data
  <1>3. DOMAIN Access!KeyDoors = {"datasets", "datasources", "entities", "prompts", "evaluations",
                                  "experiments", "traces", "model-configurations"}
    BY DEF Access!KeyDoors
  <1> QED BY <1>1, <1>2, <1>3 DEF Access!KeysOnlyReadSettings

LEMMA FiveLists ==
  ASSUME NEW role \in Access!Existing \ {Access!Owner}
  PROVE  Access!PermissionsOf[role] \in
           {Access!OrganisationAdminPermissions, Access!OrganisationMemberPermissions,
            Access!ProjectAdminPermissions, Access!MemberPermissions, Access!ViewerPermissions}
  <1>1. role \in Access!OrgRoles \/ \E p \in OwnProjects : role \in Access!ProjectRoles(p)
    BY DEF Access!Existing
  <1>2. \E n \in {"Organisation Admin", "Organisation Member", "Project Admin", "Member",
                  "Viewer"} :
          \E where : role = Access!Role(n, where)
    BY <1>1, Zenon DEF Access!OrgRoles, Access!ProjectRoles
  <1>3. PICK n \in {"Organisation Admin", "Organisation Member", "Project Admin", "Member",
                     "Viewer"} :
          \E where : role = Access!Role(n, where)
    BY <1>2, Zenon
  <1>4. PICK where : role = Access!Role(n, where)
    BY <1>3, Zenon
  <1>5. role.name = n
    BY <1>4, Zenon DEF Access!Role
  <1> QED BY <1>3, <1>5, ExistingRoles DEF Access!PermissionsOf, Access!Existing

LEMMA PermissionsArePairs ==
  ASSUME NEW role \in Access!Existing \ {Access!Owner}, NEW perm \in Access!PermissionsOf[role]
  PROVE  \E r, v : perm = <<r, v>>
  <1>1. \A resources : \A x \in Access!AllOf(resources) \union Access!ReadOf(resources) :
          \E r, v : x = <<r, v>>
    BY DEF Access!AllOf, Access!ReadOf
  <1>2. \A S, T : \A x \in S \X T : \E r, v : x = <<r, v>>
    OBVIOUS
  <1>3. \A x \in Access!OrganisationAdminPermissions \union Access!OrganisationMemberPermissions :
          \E r, v : x = <<r, v>>
    BY <1>1, <1>2 DEF Access!OrganisationAdminPermissions, Access!OrganisationMemberPermissions
  <1>4. \A x \in Access!ProjectAdminPermissions \union Access!MemberPermissions :
          \E r, v : x = <<r, v>>
    BY <1>1, <1>2 DEF Access!ProjectAdminPermissions, Access!MemberPermissions
  <1>5. ASSUME NEW x \in Access!ViewerPermissions PROVE \E r, v : x = <<r, v>>
    <2>1. x \in Access!ReadOf(Access!Data \union Access!Settings \union {"projects"})
            \/ x = <<"evaluations", "results:read">>
      BY DEF Access!ViewerPermissions
    <2> QED BY <1>1, <2>1
  <1> QED BY <1>3, <1>4, <1>5, FiveLists

\* What each role may change, and the verb it looks with.
LEMMA RolesLook ==
  ASSUME NEW role \in Access!Existing \ {Access!Owner}, NEW r, NEW v,
         <<r, v>> \in Access!PermissionsOf[role]
  PROVE  LET family == IF r = "annotations" THEN "annotation-queues" ELSE r
         IN \/ /\ <<family, "read">> \in Access!PermissionsOf[role]
               /\ family \in (Access!Data \ {"annotations"}) \union Access!Settings
                             \union {"projects", "organisations"}
            \/ /\ family = "organisations"
               /\ <<"organisations", "roles:read">> \in Access!PermissionsOf[role]
  <1> DEFINE family == IF r = "annotations" THEN "annotation-queues" ELSE r
  <1> DEFINE Looks(permissions) ==
        \/ /\ <<family, "read">> \in permissions
           /\ family \in (Access!Data \ {"annotations"}) \union Access!Settings
                         \union {"projects", "organisations"}
        \/ /\ family = "organisations" /\ <<"organisations", "roles:read">> \in permissions
  <1>1. \A x \in Access!Data \union Access!Settings \union {"organisations"} :
          "read" \in Access!Verbs[x]
    BY DEF Access!Data, Access!Settings, Access!Verbs, Access!CRUD
  <1>2. ASSUME <<r, v>> \in Access!ViewerPermissions PROVE Looks(Access!ViewerPermissions)
    <2>1. r \in Access!Data \union Access!Settings \union {"projects"}
      BY <1>2 DEF Access!ViewerPermissions, Access!ReadOf, Access!Data
    <2> QED BY <2>1 DEF Access!ViewerPermissions, Access!ReadOf, Access!Data, Access!Settings
  <1>3. ASSUME <<r, v>> \in Access!MemberPermissions PROVE Looks(Access!MemberPermissions)
    <2>1. r \in Access!Data \union Access!Settings \union {"projects"}
      BY <1>3 DEF Access!MemberPermissions, Access!AllOf, Access!ReadOf
    <2> QED BY <1>1, <2>1 DEF Access!MemberPermissions, Access!AllOf, Access!ReadOf, Access!Data,
               Access!Settings
  <1>4. ASSUME <<r, v>> \in Access!ProjectAdminPermissions
        PROVE  Looks(Access!ProjectAdminPermissions)
    <2>1. r \in Access!Data \union Access!Settings \union {"projects", "organisations"}
      BY <1>4 DEF Access!ProjectAdminPermissions, Access!AllOf, Access!ReadOf
    <2> QED BY <1>1, <2>1 DEF Access!ProjectAdminPermissions, Access!AllOf, Access!ReadOf,
               Access!Data, Access!Settings
  <1>5. ASSUME <<r, v>> \in Access!OrganisationMemberPermissions
        PROVE  Looks(Access!OrganisationMemberPermissions)
    <2>1. r \in Access!Settings \union {"organisations"}
      BY <1>5 DEF Access!OrganisationMemberPermissions, Access!ReadOf
    <2> QED BY <2>1 DEF Access!OrganisationMemberPermissions, Access!ReadOf, Access!Settings
  <1>6. ASSUME <<r, v>> \in Access!OrganisationAdminPermissions
        PROVE  Looks(Access!OrganisationAdminPermissions)
    <2>1. r \in Access!Data \union Access!Settings \union {"projects", "organisations"}
      BY <1>6 DEF Access!OrganisationAdminPermissions, Access!AllOf
    <2> QED BY <1>1, <2>1 DEF Access!OrganisationAdminPermissions, Access!AllOf, Access!CRUD,
               Access!Data, Access!Settings
  <1>7. Access!PermissionsOf[role] \in
          {Access!OrganisationAdminPermissions, Access!OrganisationMemberPermissions,
           Access!ProjectAdminPermissions, Access!MemberPermissions, Access!ViewerPermissions}
    BY FiveLists
  <1> HIDE DEF Looks
  <1>8. Looks(Access!PermissionsOf[role])
    BY <1>2, <1>3, <1>4, <1>5, <1>6, <1>7
  <1> QED BY <1>8 DEF Looks

LEMMA ChangersDoLook == Access!ChangersCanLook
  <1> DEFINE reads == {"read", "results:read", "members:read", "roles:read"}
  <1> DEFINE Family(resource) == IF resource = "annotations" THEN "annotation-queues" ELSE resource
  <1> DEFINE Served(role) ==
        {d.permission : d \in Access!SessionDoors} \intersect Access!PermissionsOf[role]
  <1> DEFINE visible(role) == {perm[1] : perm \in {q \in Served(role) : q[2] \in reads}}
  <1> SUFFICES ASSUME NEW role \in Access!Existing \ {Access!Owner}, NEW perm \in Served(role)
               PROVE  Family(perm[1]) \in visible(role)
    BY ExistingRoles DEF Access!ChangersCanLook
  <1>1. PICK r, v : perm = <<r, v>>
    BY PermissionsArePairs
  <1>2. \E x \in {"read", "roles:read"} :
          /\ <<Family(r), x>> \in Access!PermissionsOf[role]
          /\ Opens(Access!SessionDoors, Family(r), x)
    BY <1>1, RolesLook, ReadingDoors
  <1>3. PICK x \in {"read", "roles:read"} : /\ <<Family(r), x>> \in Access!PermissionsOf[role]
                                           /\ Opens(Access!SessionDoors, Family(r), x)
    BY <1>2
  <1>4. PICK q : q = <<Family(r), x>>
    OBVIOUS
  <1>5. q \in {d.permission : d \in Access!SessionDoors}
    BY <1>3, <1>4 DEF Opens
  <1>6. q \in {y \in Served(role) : y[2] \in reads} /\ q[1] = Family(r)
    BY <1>3, <1>4, <1>5
  <1> QED BY <1>1, <1>6

(***************************************************************************)
(* However many people and projects there are, whatever requests have      *)
(* changed memberships and roles, roles of any scope given by their ids    *)
(* and people removed from the system: who created a project can repair    *)
(* its roles, and is among its users exactly unless removed from the       *)
(* system and not invited since; the outer guard of a project's door lets  *)
(* in whom the inner one does, and the menu offers what the doors enforce; *)
(* the seeded roles are ordered, change nothing they may not look at, and  *)
(* keys write no settings (the guards, RbacPermissionService and           *)
(* AdminUserManagementService).                                            *)
(***************************************************************************)
THEOREM AccessIsSafe == Access!Spec => []AccessSafety
  <1>1. Access!Init => AccessInv
    BY AccessInitInv
  <1>2. AccessInv /\ [Access!Next]_(Access!accessVars) => AccessInv'
    BY AccessNext
  <1>3. AccessInv => AccessSafety
    BY CreatorRepairs, GuardsDoAgree, MenuIsTrue, RanksDoOrder, ChangersDoLook, KeysDoRead
       DEF AccessInv, AccessSafety, Access!AccessSafety
  <1> QED BY <1>1, <1>2, <1>3, PTL DEF Access!Spec
==============================================================================
