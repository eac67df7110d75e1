---------------------------- MODULE Workbench_proofs ----------------------------
(***************************************************************************)
(* What the services people work with in a project promise, for any number *)
(* of requests at a time and any amount of data.                           *)
(***************************************************************************)
EXTENDS Workbench, FiniteSetTheorems, SequenceTheorems, WellFoundedInduction, TLAPS

-----------------------------------------------------------------------------
(***************************************************************************)
(* Prompts and their versions.                                             *)
(***************************************************************************)

\* A request holds a copy of a prompt from here on, and looks for one there.
HoldsACopy ==
  {"describe", "count", "saveVersion", "promoteFirst", "checkName", "save", "checkVersion",
   "promote", "remove", "findPromoted", "findNewest", "answered"}
HoldsNone == {"idle", "findForCreate", "insertPrompt", "findById", "findByName"}
PromptPurposes == {"none", "update", "describe", "promote", "remove", "latest"}

PromptCopyType ==
  [id : PromptIds \cup {"none"}, name : PromptNames \cup {"none"}, promoted : 0 .. MaxVersions]

PromptRequestType ==
  [pc : HoldsACopy \cup HoldsNone, copy : PromptCopyType, read : 0 .. MaxVersions,
   want : PromptNames \cup PromptIds \cup {"none"}, version : Nat, new : BOOLEAN,
   purpose : PromptPurposes]

\* v is a version of p, or is gone.
OwnOrGone(v, p) ==
  v \in 0 .. used.versions /\ (v \in DOMAIN versions => versions[v].prompt = p)

\* A copy is one of a prompt that was made; what it says is promoted is its own
\* or gone, and is changed by promotions only; an answered version is its own
\* while the prompt has not come back.
PromptSound(q) ==
  /\ q \in PromptRequestType
  /\ q.pc \in {"findForCreate", "insertPrompt", "checkName"} => q.want \in PromptNames
  /\ q.pc \in {"findById", "findByName"} => q.purpose # "none"
  /\ q.pc \in HoldsACopy =>
       /\ q.copy.id \in used.ids /\ q.copy.name \in PromptNames
       /\ OwnOrGone(q.copy.promoted, q.copy.id)
  /\ q.pc \in {"describe", "checkName", "save"} => q.copy.promoted = q.read
  /\ q.new =>
       q.pc \in {"count", "saveVersion", "promoteFirst"} /\ q.read = 0 /\ q.copy.promoted = 0
  /\ q.pc = "promoteFirst" => q.new /\ OwnOrGone(q.version, q.copy.id)
  /\ q.pc = "answered" /\ q.copy.id \in DOMAIN prompts \ stale =>
       q.version \in Prompts!VersionsOf(q.copy.id)

PromptRequestsSound ==
  /\ promptRequest \in [Requests -> PromptRequestType]
  /\ \A r \in Requests, q \in PromptRequestType : q = promptRequest[r] => PromptSound(q)

PromptTables ==
  /\ used \in [ids : SUBSET PromptIds, versions : 0 .. MaxVersions, calls : Nat]
  /\ promised \in [PromptIds -> Nat]
  /\ Prompts!TypeOK
  /\ DOMAIN versions \subseteq 1 .. used.versions

PromotedIsOwn ==
  \A p \in DOMAIN prompts : prompts[p].promoted # 0 => prompts[p].promoted \in Prompts!VersionsOf(p)

NothingPromisedYet == \A p \in PromptIds \ used.ids : promised[p] = 0

\* Who has counted the versions of a prompt is alone, and right.
CountIsRight ==
  \A r \in Requests :
    Prompts!At(r, "saveVersion") /\ promptRequest[r].copy.id \in DOMAIN prompts \ promptOverlap =>
      /\ promptRequest[r].version
           = Prompts!Cardinality(Prompts!VersionsOf(promptRequest[r].copy.id))
      /\ \A q \in Requests :
           Prompts!At(q, "saveVersion")
             /\ promptRequest[q].copy.id = promptRequest[r].copy.id => q = r

PromptsInv ==
  /\ PromptTables /\ PromptRequestsSound /\ PromotedIsOwn /\ NothingPromisedYet /\ CountIsRight
  /\ Prompts!PromotionIsKept /\ Prompts!VersionsAreNumbered

-----------------------------------------------------------------------------
LEMMA PromptsCardinality ==
  ASSUME NEW S
  PROVE  Prompts!Cardinality(S) = Cardinality(S)
  BY DEF Prompts!Cardinality, Cardinality

LEMMA IdleIsSound ==
  ASSUME PromptsInv
  PROVE  Prompts!Idle \in PromptRequestType /\ PromptSound(Prompts!Idle) /\ Prompts!Idle.pc = "idle"
  <1>1. Prompts!Idle \in PromptRequestType
    BY VersionsAssumption DEF Prompts!Idle, Prompts!None, PromptRequestType, PromptCopyType,
       HoldsNone, PromptPurposes
  <1> QED BY <1>1 DEF PromptSound, Prompts!Idle, Prompts!None, HoldsACopy

LEMMA PromptsInitInv ==
  ASSUME Prompts!Init
  PROVE  PromptsInv
  <1>1. DOMAIN prompts = {} /\ DOMAIN versions = {}
    BY DEF Prompts!Init
  <1>2. PromptTables
    BY <1>1, VersionsAssumption DEF Prompts!Init, PromptTables, Prompts!TypeOK
  <1>3. Prompts!Idle \in PromptRequestType
    BY VersionsAssumption DEF Prompts!Idle, Prompts!None, PromptRequestType, PromptCopyType,
       HoldsNone, PromptPurposes
  <1>4. PromptRequestsSound
    <2>1. PromptSound(Prompts!Idle)
      BY <1>3 DEF PromptSound, Prompts!Idle, Prompts!None, HoldsACopy
    <2> QED BY <1>3, <2>1 DEF Prompts!Init, PromptRequestsSound
  <1>5. NothingPromisedYet /\ PromotedIsOwn /\ Prompts!PromotionIsKept
    BY <1>1 DEF Prompts!Init, NothingPromisedYet, PromotedIsOwn, Prompts!PromotionIsKept
  <1>6. CountIsRight /\ Prompts!VersionsAreNumbered
    BY <1>1 DEF CountIsRight, Prompts!VersionsAreNumbered
  <1> QED BY <1>2, <1>4, <1>5, <1>6 DEF PromptsInv

\* The versions of a prompt are finitely many, and those of no prompt none.
LEMMA VersionsFinite ==
  ASSUME PromptsInv, NEW p
  PROVE  /\ IsFiniteSet(Prompts!VersionsOf(p)) /\ Prompts!Cardinality(Prompts!VersionsOf(p)) \in Nat
         /\ Prompts!VersionsOf(p) \subseteq 1 .. used.versions
         /\ p \notin DOMAIN prompts => Prompts!VersionsOf(p) = {}
  <1>1. Prompts!VersionsOf(p) \subseteq 1 .. used.versions /\ used.versions \in Nat
    BY DEF PromptsInv, PromptTables, Prompts!VersionsOf
  <1>2. IsFiniteSet(Prompts!VersionsOf(p))
    <2>1. IsFiniteSet(1 .. used.versions)
      BY <1>1, FS_Interval
    <2> QED BY <1>1, <2>1, FS_Subset
  <1>3. p \notin DOMAIN prompts => Prompts!VersionsOf(p) = {}
    BY DEF PromptsInv, PromptTables, Prompts!TypeOK, Prompts!VersionsOf
  <1> QED BY <1>1, <1>2, <1>3, FS_CardinalityType, PromptsCardinality

\* What keeps a sound request sound.
LEMMA PromptSoundStays ==
  ASSUME PromptsInv, NEW q, PromptSound(q),
         used.ids \subseteq used'.ids, used'.versions \in Nat, used.versions <= used'.versions,
         \A v \in DOMAIN versions' \cap 0 .. used.versions :
           v \in DOMAIN versions /\ versions'[v].prompt = versions[v].prompt,
         \A p \in used.ids : p \in DOMAIN prompts' \ stale' =>
           p \in DOMAIN prompts \ stale /\ Prompts!VersionsOf(p) \subseteq Prompts!VersionsOf(p)'
  PROVE  PromptSound(q)'
  <1>1. \A v, p : OwnOrGone(v, p) => OwnOrGone(v, p)'
    BY DEF OwnOrGone, PromptsInv, PromptTables
  <1>2. q.pc \in HoldsACopy => q.copy.id \in used'.ids
    BY DEF PromptSound
  <1>3. q.pc = "answered" /\ q.copy.id \in DOMAIN prompts' \ stale' =>
          q.version \in Prompts!VersionsOf(q.copy.id)'
    BY DEF PromptSound, HoldsACopy
  <1> QED BY <1>1, <1>2, <1>3 DEF PromptSound

\* The request r goes on to a sound one.
LEMMA PromptRequestsStay ==
  ASSUME PromptsInv, NEW r \in Requests, NEW to \in PromptRequestType,
         promptRequest' = [promptRequest EXCEPT ![r] = to],
         PromptSound(to)', \A q \in PromptRequestType : PromptSound(q) => PromptSound(q)'
  PROVE  PromptRequestsSound'
  <1>1. promptRequest' \in [Requests -> PromptRequestType]
    BY DEF PromptsInv, PromptRequestsSound
  <1>2. ASSUME NEW s \in Requests, NEW q \in PromptRequestType, q = promptRequest'[s]
        PROVE  PromptSound(q)'
    BY <1>2 DEF PromptsInv, PromptRequestsSound
  <1> QED BY <1>1, <1>2 DEF PromptRequestsSound

\* A step that reads the tables at most: the request goes on to a sound one.
LEMMA PromptReadInv ==
  ASSUME PromptsInv, NEW r \in Requests, NEW to \in PromptRequestType, Prompts!Goto(r, to),
         PromptSound(to),
         to.pc # "saveVersion", UNCHANGED <<prompts, versions, Prompts!histories>>,
         UNCHANGED used \/ Prompts!Called
  PROVE  PromptsInv'
  <1>1. /\ promptRequest' = [promptRequest EXCEPT ![r] = to]
        /\ UNCHANGED <<prompts, versions, promised, stale, promptOverlap>>
    BY DEF Prompts!Goto, Prompts!histories
  <1>2. /\ used' \in [ids : SUBSET PromptIds, versions : 0 .. MaxVersions, calls : Nat]
        /\ used'.ids = used.ids /\ used'.versions = used.versions
    BY DEF Prompts!Called, PromptsInv, PromptTables
  <1>3. \A p : Prompts!VersionsOf(p)' = Prompts!VersionsOf(p)
    BY <1>1 DEF Prompts!VersionsOf
  <1>4. \A q \in PromptRequestType : PromptSound(q) => PromptSound(q)'
    BY <1>1, <1>2 DEF PromptSound, OwnOrGone, Prompts!VersionsOf
  <1>5. PromptRequestsSound'
    BY <1>1, <1>4, PromptRequestsStay
  <1>6. PromptTables' /\ PromotedIsOwn' /\ NothingPromisedYet' /\ Prompts!PromotionIsKept'
    BY <1>1, <1>2, <1>3 DEF PromptsInv, PromptTables, Prompts!TypeOK, PromotedIsOwn,
                            NothingPromisedYet, Prompts!PromotionIsKept
  <1>7. Prompts!VersionsAreNumbered'
    BY <1>1, <1>3 DEF PromptsInv, Prompts!VersionsAreNumbered
  <1>8. CountIsRight'
    <2>1. \A q \in Requests :
            Prompts!At(q, "saveVersion")' => Prompts!At(q, "saveVersion")
              /\ promptRequest'[q] = promptRequest[q]
      BY <1>1 DEF PromptsInv, PromptRequestsSound, Prompts!At
    <2> QED BY <1>1, <1>3, <2>1 DEF PromptsInv, CountIsRight
  <1> QED BY <1>2, <1>5, <1>6, <1>7, <1>8 DEF PromptsInv

-----------------------------------------------------------------------------
\* What is saved: a copy of a prompt that was made.
LEMMA PromptSaveInv ==
  ASSUME PromptsInv, NEW r \in Requests, ~Prompts!At(r, "saveVersion"), UNCHANGED <<versions,
                                                                                    used>>,
         NEW copy \in PromptCopyType, copy.id \in used.ids, copy.name \in PromptNames,
         OwnOrGone(copy.promoted, copy.id),
         NEW next \in PromptRequestType, PromptSound(next), next.pc \notin {"saveVersion",
         "answered"},
         Prompts!Save(r, copy, next),
         promised' \in [PromptIds -> Nat],
         \A p \in PromptIds \ {copy.id} : promised'[p] = promised[p],
         Prompts!Refused(copy) => promised' = promised,
         ~Prompts!Refused(copy) /\ copy.id \in DOMAIN prompts
           /\ promised[copy.id] = promptRequest[r].read =>
           promised'[copy.id] = copy.promoted
  PROVE  PromptsInv'
  <1>1. CASE Prompts!Refused(copy)
    <2>1. Prompts!Goto(r, Prompts!Idle) /\ UNCHANGED <<prompts, versions, Prompts!histories, used>>
      BY <1>1 DEF Prompts!Save, Prompts!histories
    <2> QED BY <2>1, IdleIsSound, PromptReadInv
  <1>2. CASE ~Prompts!Refused(copy)
    <2>1. /\ prompts' = [p \in DOMAIN prompts \union {copy.id} |->
                           IF p = copy.id THEN [name |-> copy.name, promoted |-> copy.promoted]
                           ELSE prompts[p]]
          /\ promptRequest' = [promptRequest EXCEPT ![r] = next]
          /\ stale' = IF copy.id \notin DOMAIN prompts
               \/ prompts[copy.id].promoted # promptRequest[r].read
                      THEN stale \union {copy.id} ELSE stale
          /\ promptOverlap' = IF copy.id \notin DOMAIN prompts /\ Prompts!Creating(copy.id) # {}
                           THEN promptOverlap \union {copy.id} ELSE promptOverlap
      BY <1>2 DEF Prompts!Save, Prompts!Goto
    <2>2. ~Prompts!Taken(copy) /\ (copy.promoted # 0 => copy.promoted \in DOMAIN versions)
      BY <1>2 DEF Prompts!Refused
    <2>3. \A p : Prompts!VersionsOf(p)' = Prompts!VersionsOf(p)
      BY DEF Prompts!VersionsOf
    <2>4. copy.id \in PromptIds /\ copy.promoted \in 0 .. MaxVersions
      BY DEF PromptCopyType, PromptsInv, PromptTables
    <2>5. /\ DOMAIN prompts' = DOMAIN prompts \union {copy.id}
          /\ \A p \in DOMAIN prompts \ {copy.id} : prompts'[p] = prompts[p]
          /\ prompts'[copy.id].name = copy.name /\ prompts'[copy.id].promoted = copy.promoted
      BY <2>1
    <2>6. PromptTables'
      <3>1. \A p \in DOMAIN prompts' : prompts'[p].name \in PromptNames
              /\ prompts'[p].promoted \in 0 .. MaxVersions
        BY <2>4, <2>5 DEF PromptsInv, PromptTables, Prompts!TypeOK
      <3>2. \A p, q \in DOMAIN prompts' : prompts'[p].name = prompts'[q].name => p = q
        BY <2>2, <2>5 DEF PromptsInv, PromptTables, Prompts!TypeOK, Prompts!Taken
      <3>3. DOMAIN prompts' \subseteq used'.ids /\ stale' \union promptOverlap' \subseteq PromptIds
        BY <2>1, <2>4, <2>5 DEF PromptsInv, PromptTables, Prompts!TypeOK
      <3>4. \A v \in DOMAIN versions' : versions'[v].prompt \in DOMAIN prompts'
        BY <2>5 DEF PromptsInv, PromptTables, Prompts!TypeOK
      <3> QED BY <3>1, <3>2, <3>3, <3>4 DEF PromptsInv, PromptTables, Prompts!TypeOK
    <2>7. PromptRequestsSound'
      <3>1. \A q \in PromptRequestType : PromptSound(q) => PromptSound(q)'
        <4>1. \A p \in used.ids : p \in DOMAIN prompts' \ stale' =>
                p \in DOMAIN prompts \ stale
                  /\ Prompts!VersionsOf(p) \subseteq Prompts!VersionsOf(p)'
          BY <2>1, <2>3, <2>5
        <4>2. used'.versions \in Nat /\ used.versions <= used'.versions
          BY DEF PromptsInv, PromptTables
        <4> QED BY <4>1, <4>2, PromptSoundStays
      <3> QED BY <2>1, <3>1, PromptRequestsStay
    <2>8. PromotedIsOwn'
      BY <2>2, <2>3, <2>5 DEF PromptsInv, PromotedIsOwn, OwnOrGone, Prompts!VersionsOf
    <2>9. NothingPromisedYet' /\ Prompts!PromotionIsKept'
      <3>1. NothingPromisedYet'
        BY DEF PromptsInv, NothingPromisedYet
      <3>2. ASSUME NEW p \in DOMAIN prompts' \ stale'
            PROVE  prompts'[p].promoted = promised'[p]
        <4>1. p \in DOMAIN prompts \ stale /\ prompts[p].promoted = promised[p] /\ p \in PromptIds
          BY <2>1, <2>5, <3>2 DEF PromptsInv, Prompts!PromotionIsKept, PromptTables, Prompts!TypeOK
        <4>2. p = copy.id => promised[p] = promptRequest[r].read
          BY <2>1, <3>2, <4>1
        <4> QED BY <1>2, <2>5, <4>1, <4>2
      <3> QED BY <3>1, <3>2 DEF Prompts!PromotionIsKept
    <2>10. Prompts!VersionsAreNumbered'
      <3>1. ASSUME NEW p \in DOMAIN prompts' \ promptOverlap'
            PROVE  {versions[v].number : v \in Prompts!VersionsOf(p)}
                     = 0 .. Prompts!Cardinality(Prompts!VersionsOf(p)) - 1
        <4>1. CASE p \in DOMAIN prompts
          BY <2>1, <3>1, <4>1 DEF PromptsInv, Prompts!VersionsAreNumbered
        <4>2. CASE p \notin DOMAIN prompts
          <5>1. Prompts!VersionsOf(p) = {}
            BY <4>2, VersionsFinite
          <5> QED BY <5>1, FS_EmptySet, PromptsCardinality
        <4> QED BY <4>1, <4>2
      <3> QED BY <2>3, <3>1 DEF Prompts!VersionsAreNumbered
    <2>11. CountIsRight'
      <3>1. \A q \in Requests :
              Prompts!At(q, "saveVersion")' => Prompts!At(q, "saveVersion")
                /\ promptRequest'[q] = promptRequest[q]
        BY <2>1 DEF PromptsInv, PromptRequestsSound, Prompts!At
      <3>2. ASSUME NEW q \in Requests, Prompts!At(q, "saveVersion"),
                   promptRequest[q].copy.id \in DOMAIN prompts' \ promptOverlap'
            PROVE  promptRequest[q].copy.id \in DOMAIN prompts \ promptOverlap
        <4>1. q \in Prompts!Creating(promptRequest[q].copy.id)
          BY <3>2 DEF Prompts!Creating
        <4> QED BY <2>1, <2>5, <3>2, <4>1
      <3> QED BY <2>3, <3>1, <3>2 DEF PromptsInv, CountIsRight
    <2> QED BY <2>6, <2>7, <2>8, <2>9, <2>10, <2>11 DEF PromptsInv
  <1> QED BY <1>1, <1>2

-----------------------------------------------------------------------------
\* Where a request is held, it holds a copy that can be saved.
LEMMA HeldCopy ==
  ASSUME PromptsInv, NEW r \in Requests, promptRequest[r].pc \in HoldsACopy
  PROVE  /\ promptRequest[r] \in PromptRequestType /\ PromptSound(promptRequest[r])
         /\ promptRequest[r].copy \in PromptCopyType /\ promptRequest[r].copy.id \in used.ids
         /\ promptRequest[r].copy.name \in PromptNames /\ promptRequest[r].copy.id \in PromptIds
         /\ OwnOrGone(promptRequest[r].copy.promoted, promptRequest[r].copy.id)
  <1>1. promptRequest[r] \in PromptRequestType /\ PromptSound(promptRequest[r])
    BY DEF PromptsInv, PromptRequestsSound
  <1>2. used.ids \subseteq PromptIds
    BY DEF PromptsInv, PromptTables
  <1> QED BY <1>1, <1>2 DEF PromptSound, PromptRequestType

LEMMA DescribeInv ==
  ASSUME PromptsInv, NEW r \in Requests, Prompts!Describe(r)
  PROVE  PromptsInv'
  <1> DEFINE next == [promptRequest[r] EXCEPT !.pc = "count"]
  <1>1. /\ promptRequest[r].pc = "describe" /\ Prompts!Save(r, promptRequest[r].copy, next)
        /\ UNCHANGED <<versions, used, promised>>
    BY DEF Prompts!Describe, Prompts!At
  <1>2. promptRequest[r].pc \in HoldsACopy
    BY <1>1 DEF HoldsACopy
  <1>3. promptRequest[r] \in PromptRequestType /\ PromptSound(promptRequest[r])
          /\ promptRequest[r].copy \in PromptCopyType
        /\ promptRequest[r].copy.id \in used.ids /\ promptRequest[r].copy.name \in PromptNames
        /\ OwnOrGone(promptRequest[r].copy.promoted, promptRequest[r].copy.id)
    BY <1>2, HeldCopy
  <1>4. promptRequest[r].copy.promoted = promptRequest[r].read /\ ~promptRequest[r].new
    BY <1>1, <1>3 DEF PromptSound
  <1>5. next \in PromptRequestType /\ next.pc = "count"
    BY <1>3 DEF PromptRequestType, HoldsACopy
  <1>6. PromptSound(next)
    <2>1. /\ next.copy = promptRequest[r].copy /\ ~next.new
      BY <1>3, <1>4 DEF PromptRequestType
    <2> QED BY <1>3, <1>5, <2>1 DEF PromptSound
  <1>7. ~Prompts!At(r, "saveVersion")
    BY <1>1 DEF Prompts!At
  <1> HIDE DEF next
  <1> QED BY <1>1, <1>3, <1>4, <1>5, <1>6, <1>7, PromptSaveInv DEF PromptsInv, PromptTables

LEMMA UpdateSaveInv ==
  ASSUME PromptsInv, NEW r \in Requests, Prompts!UpdateSave(r)
  PROVE  PromptsInv'
  <1>1. /\ promptRequest[r].pc = "save" /\ Prompts!Save(r, promptRequest[r].copy, Prompts!Idle)
        /\ UNCHANGED <<versions, used, promised>>
    BY DEF Prompts!UpdateSave, Prompts!At
  <1>2. promptRequest[r].pc \in HoldsACopy /\ ~Prompts!At(r, "saveVersion")
    BY <1>1 DEF HoldsACopy, Prompts!At
  <1>3. promptRequest[r] \in PromptRequestType /\ PromptSound(promptRequest[r])
          /\ promptRequest[r].copy \in PromptCopyType
        /\ promptRequest[r].copy.id \in used.ids /\ promptRequest[r].copy.name \in PromptNames
        /\ OwnOrGone(promptRequest[r].copy.promoted, promptRequest[r].copy.id)
    BY <1>2, HeldCopy
  <1>4. promptRequest[r].copy.promoted = promptRequest[r].read
    BY <1>1, <1>3 DEF PromptSound
  <1> QED BY <1>1, <1>2, <1>3, <1>4, IdleIsSound, PromptSaveInv DEF PromptsInv, PromptTables

LEMMA PromoteFirstInv ==
  ASSUME PromptsInv, NEW r \in Requests, Prompts!PromoteFirst(r)
  PROVE  PromptsInv'
  <1> DEFINE copy == [promptRequest[r].copy EXCEPT !.promoted = promptRequest[r].version]
  <1>1. /\ promptRequest[r].pc = "promoteFirst" /\ Prompts!Save(r, copy, Prompts!Idle)
        /\ UNCHANGED <<versions, used>>
        /\ promised' = [promised EXCEPT ![copy.id] = IF @ = 0
             /\ ~Prompts!Refused(copy) THEN copy.promoted ELSE @]
    BY DEF Prompts!PromoteFirst, Prompts!At
  <1>2. promptRequest[r].pc \in HoldsACopy /\ ~Prompts!At(r, "saveVersion")
    BY <1>1 DEF HoldsACopy, Prompts!At
  <1>3. promptRequest[r] \in PromptRequestType /\ PromptSound(promptRequest[r])
          /\ promptRequest[r].copy \in PromptCopyType
        /\ promptRequest[r].copy.id \in used.ids /\ promptRequest[r].copy.name \in PromptNames
        /\ promptRequest[r].copy.id \in PromptIds
    BY <1>2, HeldCopy
  <1>4. OwnOrGone(promptRequest[r].version, promptRequest[r].copy.id) /\ promptRequest[r].read = 0
    BY <1>1, <1>3 DEF PromptSound
  <1>5. promptRequest[r].version \in 0 .. MaxVersions
    BY <1>4, VersionsAssumption DEF OwnOrGone, PromptsInv, PromptTables
  <1>6. /\ copy \in PromptCopyType /\ copy.id = promptRequest[r].copy.id
        /\ copy.name = promptRequest[r].copy.name
        /\ copy.promoted = promptRequest[r].version
    BY <1>3, <1>5 DEF PromptCopyType
  <1> HIDE DEF copy
  <1>7. promised \in [PromptIds -> Nat] /\ copy.id \in PromptIds /\ copy.promoted \in Nat
    BY <1>3, <1>5, <1>6, VersionsAssumption DEF PromptsInv, PromptTables
  <1>8. /\ promised' \in [PromptIds -> Nat]
        /\ \A p \in PromptIds \ {copy.id} : promised'[p] = promised[p]
        /\ Prompts!Refused(copy) => promised' = promised
        /\ ~Prompts!Refused(copy) /\ promised[copy.id] = 0 => promised'[copy.id] = copy.promoted
    BY <1>1, <1>7
  <1>9. OwnOrGone(copy.promoted, copy.id)
    BY <1>4, <1>6
  <1> QED BY <1>1, <1>2, <1>3, <1>4, <1>6, <1>8, <1>9, IdleIsSound, PromptSaveInv

LEMMA PromoteVersionInv ==
  ASSUME PromptsInv, NEW r \in Requests, Prompts!PromoteVersion(r)
  PROVE  PromptsInv'
  <1> DEFINE copy == promptRequest[r].copy
  <1>1. /\ promptRequest[r].pc = "promote" /\ Prompts!Save(r, copy, Prompts!Idle)
        /\ UNCHANGED <<versions, used>>
        /\ promised' = IF Prompts!Refused(copy) THEN promised
                       ELSE [promised EXCEPT ![copy.id] = copy.promoted]
    BY DEF Prompts!PromoteVersion, Prompts!At
  <1>2. promptRequest[r].pc \in HoldsACopy /\ ~Prompts!At(r, "saveVersion")
    BY <1>1 DEF HoldsACopy, Prompts!At
  <1>3. copy \in PromptCopyType /\ copy.id \in used.ids /\ copy.name \in PromptNames
        /\ copy.id \in PromptIds /\ OwnOrGone(copy.promoted, copy.id)
    BY <1>2, HeldCopy
  <1> HIDE DEF copy
  <1>4. promised \in [PromptIds -> Nat] /\ copy.promoted \in Nat
    BY <1>3, VersionsAssumption DEF PromptsInv, PromptTables, PromptCopyType
  <1>5. /\ promised' \in [PromptIds -> Nat]
        /\ \A p \in PromptIds \ {copy.id} : promised'[p] = promised[p]
        /\ Prompts!Refused(copy) => promised' = promised
        /\ ~Prompts!Refused(copy) => promised'[copy.id] = copy.promoted
    BY <1>1, <1>3, <1>4
  <1> QED BY <1>1, <1>2, <1>3, <1>5, IdleIsSound, PromptSaveInv

\* A new prompt, whose identifier was never used.
LEMMA InsertPromptInv ==
  ASSUME PromptsInv, NEW r \in Requests, NEW p \in PromptIds, Prompts!InsertPrompt(r, p)
  PROVE  PromptsInv'
  <1> DEFINE copy == [id |-> p, name |-> promptRequest[r].want, promoted |-> 0]
             next == [Prompts!Idle EXCEPT !.pc = "count", !.copy = copy, !.new = TRUE]
  <1>1. Prompts!At(r, "insertPrompt") /\ p \notin used.ids /\ UNCHANGED <<versions,
                                                                          Prompts!histories>>
    BY DEF Prompts!InsertPrompt
  <1>2. CASE Prompts!Taken(copy)
    <2>1. Prompts!Goto(r, Prompts!Idle) /\ UNCHANGED <<prompts, used>>
      BY <1>2 DEF Prompts!InsertPrompt
    <2> QED BY <1>1, <2>1, IdleIsSound, PromptReadInv
  <1>3. CASE ~Prompts!Taken(copy)
    <2>1. /\ prompts' = [q \in DOMAIN prompts \union {p} |->
                           IF q = p THEN [name |-> copy.name, promoted |-> 0] ELSE prompts[q]]
          /\ used' = [used EXCEPT !.ids = @ \union {p}]
          /\ promptRequest' = [promptRequest EXCEPT ![r] = next]
          /\ UNCHANGED <<versions, promised, stale, promptOverlap>>
      BY <1>1, <1>3 DEF Prompts!InsertPrompt, Prompts!Goto, Prompts!histories
    <2>2. promptRequest[r].want \in PromptNames
      BY <1>1 DEF PromptsInv, PromptRequestsSound, PromptSound, Prompts!At
    <2>3. /\ used' \in [ids : SUBSET PromptIds, versions : 0 .. MaxVersions, calls : Nat]
          /\ used'.ids = used.ids \union {p} /\ used'.versions = used.versions
      BY <2>1 DEF PromptsInv, PromptTables
    <2>4. /\ DOMAIN prompts' = DOMAIN prompts \union {p}
          /\ p \notin DOMAIN prompts
          /\ \A q \in DOMAIN prompts : prompts'[q] = prompts[q]
          /\ prompts'[p].name = promptRequest[r].want /\ prompts'[p].promoted = 0
      BY <1>1, <2>1 DEF PromptsInv, PromptTables, Prompts!TypeOK
    <2>5. (\A q : Prompts!VersionsOf(q)' = Prompts!VersionsOf(q)) /\ Prompts!VersionsOf(p) = {}
      BY <2>1, <2>4, VersionsFinite DEF Prompts!VersionsOf
    <2>6. PromptTables'
      <3>1. \A q \in DOMAIN prompts' : prompts'[q].name \in PromptNames
              /\ prompts'[q].promoted \in 0 .. MaxVersions
        BY <2>2, <2>4, VersionsAssumption DEF PromptsInv, PromptTables, Prompts!TypeOK
      <3>2. \A q \in DOMAIN prompts : prompts[q].name # promptRequest[r].want
        BY <1>3, <2>4 DEF Prompts!Taken
      <3>3. \A q, s \in DOMAIN prompts' : prompts'[q].name = prompts'[s].name => q = s
        BY <2>4, <3>2 DEF PromptsInv, PromptTables, Prompts!TypeOK
      <3>4. \A v \in DOMAIN versions' : versions'[v].prompt \in DOMAIN prompts'
        BY <2>1, <2>4 DEF PromptsInv, PromptTables, Prompts!TypeOK
      <3> QED BY <2>1, <2>3, <2>4, <3>1, <3>3, <3>4 DEF PromptsInv, PromptTables, Prompts!TypeOK
    <2>7. PICK to \in PromptRequestType :
            to = next /\ to.pc = "count" /\ to.copy = copy /\ to.read = 0 /\ to.new
      <3>1. Prompts!Idle \in PromptRequestType /\ Prompts!Idle.read = 0
        BY IdleIsSound DEF Prompts!Idle
      <3>2. copy \in PromptCopyType
        BY <2>2, VersionsAssumption DEF PromptCopyType
      <3> HIDE DEF copy
      <3>3. next \in PromptRequestType /\ next.pc = "count" /\ next.copy = copy
              /\ next.read = 0 /\ next.new
        BY <3>1, <3>2 DEF PromptRequestType, HoldsACopy
      <3> HIDE DEF next
      <3> QED BY <3>3
    <2>8. PromptRequestsSound'
      <3>1. \A q \in PromptRequestType : PromptSound(q) => PromptSound(q)'
        <4>1. \A q \in used.ids : q \in DOMAIN prompts' \ stale' =>
                q \in DOMAIN prompts \ stale
                  /\ Prompts!VersionsOf(q) \subseteq Prompts!VersionsOf(q)'
          BY <1>1, <2>1, <2>4, <2>5
        <4>2. used'.versions \in Nat /\ used.versions <= used'.versions
          BY <2>3 DEF PromptsInv, PromptTables
        <4>3. \A v \in DOMAIN versions' \cap 0 .. used.versions :
                v \in DOMAIN versions /\ versions'[v].prompt = versions[v].prompt
          BY <2>1
        <4> QED BY <2>3, <4>1, <4>2, <4>3, PromptSoundStays
      <3>2. PromptSound(to)'
        <4>1. OwnOrGone(0, p)'
          BY <2>1, <2>3 DEF OwnOrGone, PromptsInv, PromptTables
        <4>2. to.copy.id \in used'.ids /\ to.copy.name \in PromptNames /\ to.copy.promoted = 0
              /\ to.copy.id = p
          BY <2>2, <2>3, <2>7
        <4> HIDE DEF next
        <4> QED BY <2>7, <4>1, <4>2 DEF PromptSound
      <3> HIDE DEF next
      <3> QED BY <2>1, <2>7, <3>1, <3>2, PromptRequestsStay
    <2>9. PromotedIsOwn' /\ NothingPromisedYet' /\ Prompts!PromotionIsKept'
      <3>1. promised[p] = 0
        BY <1>1 DEF PromptsInv, NothingPromisedYet
      <3> QED BY <2>1, <2>3, <2>4, <2>5, <3>1 DEF PromptsInv, PromotedIsOwn, NothingPromisedYet,
                 Prompts!PromotionIsKept
    <2>10. Prompts!VersionsAreNumbered'
      <3>1. ASSUME NEW q \in DOMAIN prompts' \ promptOverlap'
            PROVE  {versions[v].number : v \in Prompts!VersionsOf(q)}
                     = 0 .. Prompts!Cardinality(Prompts!VersionsOf(q)) - 1
        <4>1. CASE q \in DOMAIN prompts
          BY <2>1, <3>1, <4>1 DEF PromptsInv, Prompts!VersionsAreNumbered
        <4>2. CASE q = p
          BY <2>5, <4>2, FS_EmptySet, PromptsCardinality
        <4> QED BY <2>4, <4>1, <4>2
      <3> QED BY <2>1, <2>5, <3>1 DEF Prompts!VersionsAreNumbered
    <2>11. CountIsRight'
      <3> HIDE DEF next
      <3>1. \A q \in Requests :
              Prompts!At(q, "saveVersion")' => Prompts!At(q, "saveVersion")
                /\ promptRequest'[q] = promptRequest[q]
        BY <2>1, <2>7 DEF PromptsInv, PromptRequestsSound, Prompts!At
      <3>2. \A q \in Requests : Prompts!At(q, "saveVersion") => promptRequest[q].copy.id # p
        BY <1>1 DEF PromptsInv, PromptRequestsSound, PromptSound, Prompts!At, HoldsACopy
      <3> QED BY <2>1, <2>4, <2>5, <3>1, <3>2 DEF PromptsInv, CountIsRight
    <2> QED BY <2>6, <2>8, <2>9, <2>10, <2>11 DEF PromptsInv
  <1> QED BY <1>2, <1>3

\* The count is taken: with nobody else between its count and its save, it is
\* the number of the versions until the request saves its own.
LEMMA CountVersionsInv ==
  ASSUME PromptsInv, NEW r \in Requests, Prompts!CountVersions(r)
  PROVE  PromptsInv'
  <1> PICK p : p = promptRequest[r].copy.id
    OBVIOUS
  <1> PICK count : count = Prompts!Cardinality(Prompts!VersionsOf(p))
    OBVIOUS
  <1> DEFINE next == [promptRequest[r] EXCEPT !.pc = "saveVersion", !.version = count]
  <1>1. /\ promptRequest[r].pc = "count" /\ promptRequest' = [promptRequest EXCEPT ![r] = next]
        /\ promptOverlap' =
             IF Prompts!Creating(p) = {} THEN promptOverlap ELSE promptOverlap \union {p}
        /\ UNCHANGED <<prompts, versions, used, promised, stale>>
    BY DEF Prompts!CountVersions, Prompts!Goto, Prompts!At, Prompts!tables
  <1>2. promptRequest[r].pc \in HoldsACopy
    BY <1>1 DEF HoldsACopy
  <1>3. promptRequest[r] \in PromptRequestType /\ PromptSound(promptRequest[r])
          /\ p \in used.ids /\ p \in PromptIds
    BY <1>2, HeldCopy
  <1>4. count \in Nat
    BY VersionsFinite
  <1>5. PICK to \in PromptRequestType :
          /\ to = next /\ to.pc = "saveVersion" /\ to.version = count
          /\ to.copy = promptRequest[r].copy /\ to.read = promptRequest[r].read
          /\ to.new = promptRequest[r].new
    <2>1. next \in PromptRequestType /\ next.pc = "saveVersion" /\ next.version = count
      BY <1>3, <1>4 DEF PromptRequestType, HoldsACopy
    <2>2. next.copy = promptRequest[r].copy /\ next.read = promptRequest[r].read
      BY <1>3 DEF PromptRequestType
    <2>3. next.new = promptRequest[r].new
      BY <1>3 DEF PromptRequestType
    <2> HIDE DEF next
    <2> QED BY <2>1, <2>2, <2>3
  <1> HIDE DEF next
  <1>6. PromptSound(to)
    BY <1>1, <1>3, <1>5 DEF PromptSound, HoldsACopy
  <1>7. \A q : Prompts!VersionsOf(q)' = Prompts!VersionsOf(q)
    BY <1>1 DEF Prompts!VersionsOf
  <1>8. PromptRequestsSound'
    <2>1. \A q \in PromptRequestType : PromptSound(q) => PromptSound(q)'
      BY <1>1, <1>7 DEF PromptSound, OwnOrGone, Prompts!VersionsOf
    <2> QED BY <1>1, <1>5, <1>6, <2>1, PromptRequestsStay
  <1>9. PromptTables' /\ PromotedIsOwn' /\ NothingPromisedYet' /\ Prompts!PromotionIsKept'
    BY <1>1, <1>3, <1>7 DEF PromptsInv, PromptTables, Prompts!TypeOK, PromotedIsOwn,
                            NothingPromisedYet, Prompts!PromotionIsKept
  <1>10. Prompts!VersionsAreNumbered'
    BY <1>1, <1>7 DEF PromptsInv, Prompts!VersionsAreNumbered
  <1>11. CountIsRight'
    <2>1. /\ promptRequest'[r] = to
          /\ \A q \in Requests \ {r} : promptRequest'[q] = promptRequest[q]
      BY <1>1, <1>5 DEF PromptsInv, PromptRequestsSound
    <2>2. p \notin promptOverlap' => \A q \in Requests : Prompts!At(q, "saveVersion")
            => promptRequest[q].copy.id # p
      BY <1>1 DEF Prompts!Creating
    <2>3. \A q \in Requests \ {r} : Prompts!At(q, "saveVersion")' = Prompts!At(q, "saveVersion")
      BY <2>1 DEF Prompts!At
    <2>4. ASSUME NEW q \in Requests, Prompts!At(q, "saveVersion")',
                 promptRequest'[q].copy.id \in DOMAIN prompts' \ promptOverlap'
          PROVE 
            /\ promptRequest'[q].version
                 = Prompts!Cardinality(Prompts!VersionsOf(promptRequest'[q].copy.id))
            /\ \A s \in Requests :
                      Prompts!At(s, "saveVersion")'
                        /\ promptRequest'[s].copy.id = promptRequest'[q].copy.id => s = q
      <3>1. CASE q = r
        BY <1>5, <2>1, <2>2, <2>3, <2>4, <3>1
      <3>2. CASE q # r
        <4>1. Prompts!At(q, "saveVersion") /\ promptRequest'[q] = promptRequest[q]
          BY <2>1, <2>3, <2>4, <3>2
        <4>2. promptRequest[q].copy.id \in DOMAIN prompts \ promptOverlap
          BY <1>1, <2>4, <4>1
        <4>3. promptRequest[q].copy.id # p
          BY <2>2, <2>4, <4>1
        <4>4. /\ promptRequest[q].version
                   = Prompts!Cardinality(Prompts!VersionsOf(promptRequest[q].copy.id))
              /\ \A s \in Requests :
                   Prompts!At(s, "saveVersion")
                     /\ promptRequest[s].copy.id = promptRequest[q].copy.id => s = q
          BY <4>1, <4>2 DEF PromptsInv, CountIsRight
        <4> QED BY <1>5, <2>1, <2>3, <4>1, <4>3, <4>4
      <3> QED BY <3>1, <3>2
    <2> QED BY <1>7, <2>4 DEF CountIsRight
  <1> QED BY <1>8, <1>9, <1>10, <1>11 DEF PromptsInv

\* A version is saved under the number its request counted.
LEMMA SaveVersionInv ==
  ASSUME PromptsInv, NEW r \in Requests, Prompts!SaveVersion(r)
  PROVE  PromptsInv'
  <1> PICK v : v = used.versions + 1
    OBVIOUS
  <1> PICK p : p = promptRequest[r].copy.id
    OBVIOUS
  <1> DEFINE saved == [prompt |-> p, number |-> promptRequest[r].version]
             next == [promptRequest[r] EXCEPT !.pc = "promoteFirst", !.version = v]
  <1>1. promptRequest[r].pc = "saveVersion" /\ v <= MaxVersions /\ UNCHANGED <<prompts,
                                                                               Prompts!histories>>
    BY DEF Prompts!SaveVersion, Prompts!At
  <1>2. promptRequest[r].pc \in HoldsACopy
    BY <1>1 DEF HoldsACopy
  <1>3. promptRequest[r] \in PromptRequestType /\ PromptSound(promptRequest[r])
          /\ p \in used.ids /\ p \in PromptIds
    BY <1>2, HeldCopy
  <1>4. CASE Prompts!Goto(r, Prompts!Idle) /\ UNCHANGED <<versions, used>>
    BY <1>1, <1>4, IdleIsSound, PromptReadInv
  <1>5. CASE /\ p \in DOMAIN prompts
             /\ versions' = [w \in DOMAIN versions \union {v} |->
                             IF w = v THEN saved ELSE versions[w]]
             /\ used' = [used EXCEPT !.versions = v]
             /\ Prompts!Goto(r, IF promptRequest[r].new THEN next ELSE Prompts!Idle)
    <2>1. used.versions \in Nat /\ v \notin DOMAIN versions /\ v \in 1 .. MaxVersions
      BY <1>1, VersionsAssumption DEF PromptsInv, PromptTables
    <2>2. /\ used' \in [ids : SUBSET PromptIds, versions : 0 .. MaxVersions, calls : Nat]
          /\ used'.ids = used.ids /\ used'.versions = v
      BY <1>5, <2>1 DEF PromptsInv, PromptTables
    <2>3. /\ DOMAIN versions' = DOMAIN versions \union {v} /\ versions'[v] = saved
          /\ \A w \in DOMAIN versions : versions'[w] = versions[w]
      BY <1>5, <2>1
    <2>4. Prompts!VersionsOf(p)' = Prompts!VersionsOf(p) \union {v}
            /\ \A q : q # p => Prompts!VersionsOf(q)' = Prompts!VersionsOf(q)
      BY <2>1, <2>3 DEF Prompts!VersionsOf
    <2>5. UNCHANGED <<prompts, promised, stale, promptOverlap>>
      BY <1>1 DEF Prompts!histories
    <2>6. PromptTables'
      <3>1. DOMAIN versions' \subseteq 1 .. used'.versions
        BY <2>1, <2>2, <2>3 DEF PromptsInv, PromptTables
      <3>2. \A w \in DOMAIN versions' : versions'[w].prompt \in DOMAIN prompts'
        BY <1>5, <2>3, <2>5 DEF PromptsInv, PromptTables, Prompts!TypeOK
      <3> QED BY <2>2, <2>5, <3>1, <3>2 DEF PromptsInv, PromptTables, Prompts!TypeOK
    <2>7. PICK to \in PromptRequestType :
            to = (IF promptRequest[r].new THEN next ELSE Prompts!Idle) /\ PromptSound(to)'
              /\ to.pc # "saveVersion"
      <3>1. CASE promptRequest[r].new
        <4>1. PICK to \in PromptRequestType :
                /\ to = next /\ to.pc = "promoteFirst" /\ to.version = v /\ to.new
                /\ to.copy = promptRequest[r].copy /\ to.read = promptRequest[r].read
          <5>1. next \in PromptRequestType /\ next.pc = "promoteFirst" /\ next.version = v
            <6>1. v \in Nat
              BY <2>1, VersionsAssumption
            <6> QED BY <1>3, <6>1 DEF PromptRequestType, HoldsACopy
          <5>2. next.copy = promptRequest[r].copy /\ next.read = promptRequest[r].read /\ next.new
            BY <1>3, <3>1 DEF PromptRequestType
          <5> HIDE DEF next
          <5> QED BY <5>1, <5>2
        <4> HIDE DEF next
        <4>2. promptRequest[r].read = 0 /\ promptRequest[r].copy.promoted = 0
                /\ promptRequest[r].copy.name \in PromptNames
          BY <1>2, <1>3, <3>1 DEF PromptSound
        <4>3. OwnOrGone(v, p)' /\ OwnOrGone(0, p)'
          BY <2>1, <2>2, <2>3 DEF OwnOrGone, PromptsInv, PromptTables
        <4>4. PromptSound(to)'
          BY <1>3, <2>2, <4>1, <4>2, <4>3 DEF PromptSound
        <4> QED BY <3>1, <4>1, <4>4
      <3>2. CASE ~promptRequest[r].new
        <4>1. PICK to \in PromptRequestType : to = Prompts!Idle /\ to.pc = "idle" /\ ~to.new
          BY IdleIsSound DEF Prompts!Idle
        <4>2. PromptSound(to)'
          BY <4>1 DEF PromptSound, HoldsACopy
        <4> QED BY <3>2, <4>1, <4>2
      <3> QED BY <3>1, <3>2
    <2> HIDE DEF next
    <2>8. promptRequest' = [promptRequest EXCEPT ![r] = to]
      BY <1>5, <2>7 DEF Prompts!Goto
    <2>9. PromptRequestsSound'
      <3>1. \A q \in PromptRequestType : PromptSound(q) => PromptSound(q)'
        <4>1. used.ids \subseteq used'.ids /\ used'.versions \in Nat
                /\ used.versions <= used'.versions
          BY <2>1, <2>2
        <4>2. \A w \in DOMAIN versions' \cap 0 .. used.versions :
                w \in DOMAIN versions /\ versions'[w].prompt = versions[w].prompt
          BY <2>1, <2>3
        <4>3. \A q : Prompts!VersionsOf(q) \subseteq Prompts!VersionsOf(q)'
          BY <2>4
        <4> QED BY <2>5, <4>1, <4>2, <4>3, PromptSoundStays
      <3> QED BY <2>7, <2>8, <3>1, PromptRequestsStay
    <2>10. PromotedIsOwn' /\ NothingPromisedYet' /\ Prompts!PromotionIsKept'
      BY <2>2, <2>4, <2>5 DEF PromptsInv, PromotedIsOwn, NothingPromisedYet, Prompts!PromotionIsKept
    <2>11. Prompts!VersionsAreNumbered'
      <3>1. ASSUME NEW q \in DOMAIN prompts \ promptOverlap
            PROVE  {versions'[w].number : w \in Prompts!VersionsOf(q)'}
                     = 0 .. Prompts!Cardinality(Prompts!VersionsOf(q)') - 1
        <4>1. {versions[w].number : w \in Prompts!VersionsOf(q)}
                = 0 .. Prompts!Cardinality(Prompts!VersionsOf(q)) - 1
          BY <3>1 DEF PromptsInv, Prompts!VersionsAreNumbered
        <4>2. \A w \in Prompts!VersionsOf(q) : versions'[w] = versions[w]
          BY <2>3 DEF Prompts!VersionsOf
        <4>3. CASE q # p
          BY <2>4, <4>1, <4>2, <4>3
        <4>4. CASE q = p
          <5>1. promptRequest[r].version = Prompts!Cardinality(Prompts!VersionsOf(p))
            BY <1>1, <3>1, <4>4 DEF PromptsInv, CountIsRight, Prompts!At
          <5>2. v \notin Prompts!VersionsOf(p)
            BY <2>1 DEF Prompts!VersionsOf
          <5>3. Prompts!Cardinality(Prompts!VersionsOf(p)')
                  = Prompts!Cardinality(Prompts!VersionsOf(p)) + 1
                    /\ Prompts!Cardinality(Prompts!VersionsOf(p)) \in Nat
            BY <2>4, <5>2, VersionsFinite, FS_AddElement, PromptsCardinality
          <5>4. {versions'[w].number : w \in Prompts!VersionsOf(p)'}
                  = {versions[w].number : w \in Prompts!VersionsOf(p)}
                    \union {Prompts!Cardinality(Prompts!VersionsOf(p))}
            BY <2>3, <2>4, <4>2, <4>4, <5>1
          <5> QED BY <4>1, <4>4, <5>3, <5>4
        <4> QED BY <4>3, <4>4
      <3> QED BY <2>5, <3>1 DEF Prompts!VersionsAreNumbered
    <2>12. CountIsRight'
      <3>1. \A q \in Requests :
              Prompts!At(q, "saveVersion")' => Prompts!At(q, "saveVersion")
                /\ promptRequest'[q] = promptRequest[q] /\ q # r
        BY <2>7, <2>8 DEF PromptsInv, PromptRequestsSound, Prompts!At
      <3>2. \A q \in Requests :
              Prompts!At(q, "saveVersion") /\ q # r
                /\ p \notin promptOverlap => promptRequest[q].copy.id # p
        BY <1>1, <1>5 DEF PromptsInv, CountIsRight, Prompts!At
      <3>3. ASSUME NEW q \in Requests, Prompts!At(q, "saveVersion")',
                   promptRequest'[q].copy.id \in DOMAIN prompts' \ promptOverlap'
            PROVE 
              /\ promptRequest'[q].version
                   = Prompts!Cardinality(Prompts!VersionsOf(promptRequest[q].copy.id)')
              /\ \A s \in Requests :
                        Prompts!At(s, "saveVersion")'
                          /\ promptRequest'[s].copy.id = promptRequest'[q].copy.id => s = q
        <4>1. Prompts!At(q, "saveVersion") /\ promptRequest'[q] = promptRequest[q] /\ q # r
          BY <3>1, <3>3
        <4>2. promptRequest[q].copy.id \in DOMAIN prompts \ promptOverlap
                /\ promptRequest[q].copy.id # p
          BY <2>5, <3>2, <3>3, <4>1
        <4>3. /\ promptRequest[q].version
                   = Prompts!Cardinality(Prompts!VersionsOf(promptRequest[q].copy.id))
              /\ \A s \in Requests :
                   Prompts!At(s, "saveVersion")
                     /\ promptRequest[s].copy.id = promptRequest[q].copy.id => s = q
          BY <4>1, <4>2 DEF PromptsInv, CountIsRight
        <4>4. PICK of : of = promptRequest[q].copy.id
          OBVIOUS
        <4>5. Prompts!VersionsOf(of)' = Prompts!VersionsOf(of)
          BY <2>4, <4>2, <4>4
        <4>6. promptRequest'[q].version = Prompts!Cardinality(Prompts!VersionsOf(of)')
          BY <4>1, <4>3, <4>4, <4>5
        <4> QED BY <3>1, <4>1, <4>3, <4>4, <4>6
      <3> QED BY <3>3 DEF CountIsRight
    <2> QED BY <2>6, <2>9, <2>10, <2>11, <2>12 DEF PromptsInv
  <1> QED BY <1>4, <1>5 DEF Prompts!SaveVersion

\* A prompt goes, and its versions with it.
LEMMA RemovePromptInv ==
  ASSUME PromptsInv, NEW r \in Requests, Prompts!Remove(r)
  PROVE  PromptsInv'
  <1> PICK p : p = promptRequest[r].copy.id
    OBVIOUS
  <1>1. /\ prompts' = Prompts!Restrict(prompts, DOMAIN prompts \ {p})
        /\ versions' = Prompts!Restrict(versions, DOMAIN versions \ Prompts!VersionsOf(p))
        /\ promptRequest' = [promptRequest EXCEPT ![r] = Prompts!Idle]
        /\ UNCHANGED <<used, promised, stale, promptOverlap>>
    BY DEF Prompts!Remove, Prompts!Goto, Prompts!histories
  <1>2. /\ DOMAIN prompts' = DOMAIN prompts \ {p}
        /\ \A q \in DOMAIN prompts' : prompts'[q] = prompts[q]
    BY <1>1 DEF Prompts!Restrict
  <1>3. /\ DOMAIN versions' = DOMAIN versions \ Prompts!VersionsOf(p)
        /\ \A v \in DOMAIN versions' : versions'[v] = versions[v]
    BY <1>1 DEF Prompts!Restrict
  <1>4. \A q : q # p => Prompts!VersionsOf(q)' = Prompts!VersionsOf(q)
    BY <1>3 DEF Prompts!VersionsOf
  <1>5. PromptTables'
    <2>1. \A v \in DOMAIN versions' : versions'[v].prompt \in DOMAIN prompts'
      BY <1>2, <1>3 DEF PromptsInv, PromptTables, Prompts!TypeOK, Prompts!VersionsOf
    <2>2. /\ \A q \in DOMAIN prompts' : prompts'[q].name \in PromptNames
               /\ prompts'[q].promoted \in 0 .. MaxVersions
          /\ \A q, s \in DOMAIN prompts' : prompts'[q].name = prompts'[s].name => q = s
      BY <1>2 DEF PromptsInv, PromptTables, Prompts!TypeOK
    <2>3. DOMAIN prompts' \subseteq used'.ids /\ DOMAIN versions' \subseteq 1 .. used'.versions
      BY <1>1, <1>2, <1>3 DEF PromptsInv, PromptTables, Prompts!TypeOK
    <2> QED BY <1>1, <2>1, <2>2, <2>3 DEF PromptsInv, PromptTables, Prompts!TypeOK
  <1>6. PromptRequestsSound'
    <2>1. \A q \in PromptRequestType : PromptSound(q) => PromptSound(q)'
      <3>1. used'.versions \in Nat /\ used.versions <= used'.versions
        BY <1>1 DEF PromptsInv, PromptTables
      <3> QED BY <1>1, <1>2, <1>3, <1>4, <3>1, PromptSoundStays
    <2>2. PICK to \in PromptRequestType : to = Prompts!Idle /\ PromptSound(to)
      BY IdleIsSound
    <2> QED BY <1>1, <2>1, <2>2, PromptRequestsStay
  <1>7. PromotedIsOwn' /\ NothingPromisedYet' /\ Prompts!PromotionIsKept'
    <2>1. PromotedIsOwn'
      BY <1>2, <1>4 DEF PromptsInv, PromotedIsOwn
    <2>2. NothingPromisedYet' /\ Prompts!PromotionIsKept'
      BY <1>1, <1>2 DEF PromptsInv, NothingPromisedYet, Prompts!PromotionIsKept
    <2> QED BY <2>1, <2>2
  <1>8. Prompts!VersionsAreNumbered'
    <2>1. ASSUME NEW q \in DOMAIN prompts' \ promptOverlap'
          PROVE  {versions'[v].number : v \in Prompts!VersionsOf(q)'}
                   = 0 .. Prompts!Cardinality(Prompts!VersionsOf(q)') - 1
      <3>1. q \in DOMAIN prompts \ promptOverlap /\ Prompts!VersionsOf(q)' = Prompts!VersionsOf(q)
        BY <1>1, <1>2, <1>4, <2>1
      <3>2. \A v \in Prompts!VersionsOf(q) : versions'[v] = versions[v]
        BY <1>3, <3>1 DEF Prompts!VersionsOf
      <3>3. {versions[v].number : v \in Prompts!VersionsOf(q)}
              = 0 .. Prompts!Cardinality(Prompts!VersionsOf(q)) - 1
        BY <3>1 DEF PromptsInv, Prompts!VersionsAreNumbered
      <3> QED BY <3>1, <3>2, <3>3
    <2> QED BY <2>1 DEF Prompts!VersionsAreNumbered
  <1>9. CountIsRight'
    <2>1. \A q \in Requests :
            Prompts!At(q, "saveVersion")' => Prompts!At(q, "saveVersion")
              /\ promptRequest'[q] = promptRequest[q]
      BY <1>1, IdleIsSound DEF PromptsInv, PromptRequestsSound, Prompts!At
    <2> QED BY <1>1, <1>2, <1>4, <2>1 DEF PromptsInv, CountIsRight
  <1> QED BY <1>5, <1>6, <1>7, <1>8, <1>9 DEF PromptsInv

-----------------------------------------------------------------------------
\* What a request holds when it has found the prompt p.
LEMMA HoldingIsSound ==
  ASSUME PromptsInv, NEW p \in DOMAIN prompts
  PROVE  /\ Prompts!Holding(p) \in PromptRequestType
    /\ Prompts!Holding(p).copy = Prompts!Copy(p)
    /\ Prompts!Holding(p).read = Prompts!Copy(p).promoted
    /\ Prompts!Holding(p).new = FALSE
    /\ Prompts!Copy(p).id \in used.ids /\ Prompts!Copy(p).name \in PromptNames
    /\ OwnOrGone(Prompts!Copy(p).promoted, Prompts!Copy(p).id)
  <1>1. /\ Prompts!Copy(p).id = p /\ Prompts!Copy(p).name = prompts[p].name
        /\ Prompts!Copy(p).promoted = prompts[p].promoted
        /\ Prompts!Copy(p) = [id |-> p, name |-> prompts[p].name, promoted |-> prompts[p].promoted]
    BY DEF Prompts!Copy
  <1>2. /\ p \in PromptIds /\ prompts[p].name \in PromptNames
        /\ prompts[p].promoted \in 0 .. MaxVersions
        /\ p \in used.ids
    BY DEF PromptsInv, PromptTables, Prompts!TypeOK
  <1>3. Prompts!Copy(p) \in PromptCopyType
    BY <1>1, <1>2 DEF PromptCopyType
  <1>4. Prompts!Idle \in PromptRequestType /\ Prompts!Idle.new = FALSE
    BY IdleIsSound DEF Prompts!Idle
  <1>5. /\ Prompts!Holding(p) \in PromptRequestType
        /\ Prompts!Holding(p).copy = Prompts!Copy(p)
        /\ Prompts!Holding(p).read = prompts[p].promoted /\ Prompts!Holding(p).new = FALSE
    BY <1>2, <1>3, <1>4 DEF Prompts!Holding, PromptRequestType
  <1>6. OwnOrGone(Prompts!Copy(p).promoted, p)
    <2>1. prompts[p].promoted # 0 => prompts[p].promoted \in Prompts!VersionsOf(p)
      BY DEF PromptsInv, PromotedIsOwn
    <2>2. 0 \notin DOMAIN versions /\ used.versions \in Nat
      BY DEF PromptsInv, PromptTables
    <2> QED BY <1>1, <1>2, <2>1, <2>2 DEF OwnOrGone, Prompts!VersionsOf, PromptsInv, PromptTables
  <1> QED BY <1>1, <1>2, <1>5, <1>6

LEMMA FoundIsSound ==
  ASSUME PromptsInv, NEW p \in DOMAIN prompts, NEW to \in PromptRequestType,
         to.pc \in HoldsACopy \ {"saveVersion", "promoteFirst", "answered"},
         to.copy = Prompts!Copy(p), to.read = Prompts!Copy(p).promoted, ~to.new,
         to.pc = "checkName" => to.want \in PromptNames
  PROVE  PromptSound(to)
  BY HoldingIsSound DEF PromptSound, HoldsACopy

LEMMA CreatePromptInv ==
  ASSUME PromptsInv, NEW r \in Requests, NEW name \in PromptNames, Prompts!Create(r, name)
  PROVE  PromptsInv'
  <1> DEFINE to == [Prompts!Idle EXCEPT !.pc = "findForCreate", !.want = name]
  <1>1. Prompts!Idle \in PromptRequestType /\ Prompts!Idle.new = FALSE
    BY IdleIsSound DEF Prompts!Idle
  <1>2. to \in PromptRequestType /\ to.pc = "findForCreate" /\ to.want = name /\ ~to.new
    BY <1>1 DEF PromptRequestType, HoldsNone
  <1>3. Prompts!Goto(r, to) /\ UNCHANGED <<prompts, versions, Prompts!histories>> /\ Prompts!Called
    BY DEF Prompts!Create
  <1> HIDE DEF to
  <1>4. PromptSound(to)
    BY <1>2 DEF PromptSound, HoldsACopy
  <1> QED BY <1>2, <1>3, <1>4, PromptReadInv

LEMMA AddressInv ==
  ASSUME PromptsInv, NEW r \in Requests, NEW p \in PromptIds,
         NEW purpose \in {"update", "describe", "promote", "remove", "latest"},
         Prompts!Address(r, p, purpose)
  PROVE  PromptsInv'
  <1> DEFINE to == [Prompts!Idle EXCEPT !.pc = "findById", !.want = p, !.purpose = purpose]
  <1>1. Prompts!Idle \in PromptRequestType /\ Prompts!Idle.new = FALSE
    BY IdleIsSound DEF Prompts!Idle
  <1>2. to \in PromptRequestType /\ to.pc = "findById" /\ to.purpose # "none" /\ ~to.new
    BY <1>1 DEF PromptRequestType, HoldsNone, PromptPurposes
  <1>3. Prompts!Goto(r, to) /\ UNCHANGED <<prompts, versions, Prompts!histories>> /\ Prompts!Called
    BY DEF Prompts!Address
  <1> HIDE DEF to
  <1>4. PromptSound(to)
    BY <1>2 DEF PromptSound, HoldsACopy
  <1> QED BY <1>2, <1>3, <1>4, PromptReadInv

LEMMA FindForCreateInv ==
  ASSUME PromptsInv, NEW r \in Requests, Prompts!FindForCreate(r)
  PROVE  PromptsInv'
  <1>1. /\ promptRequest[r].pc = "findForCreate" /\ promptRequest[r] \in PromptRequestType
        /\ PromptSound(promptRequest[r])
        /\ UNCHANGED <<prompts, versions, Prompts!histories, used>>
    BY DEF Prompts!FindForCreate, Prompts!At, Prompts!tables, PromptsInv, PromptRequestsSound
  <1>2. CASE Prompts!Goto(r, [promptRequest[r] EXCEPT !.pc = "insertPrompt"])
    <2> DEFINE to == [promptRequest[r] EXCEPT !.pc = "insertPrompt"]
    <2>1. to \in PromptRequestType /\ to.pc = "insertPrompt"
            /\ to.want = promptRequest[r].want /\ to.new = promptRequest[r].new
      BY <1>1 DEF PromptRequestType, HoldsNone
    <2>2. Prompts!Goto(r, to)
      BY <1>2
    <2> HIDE DEF to
    <2>3. PromptSound(to)
      BY <1>1, <2>1 DEF PromptSound, HoldsACopy
    <2> QED BY <1>1, <2>1, <2>2, <2>3, PromptReadInv
  <1>3. ASSUME NEW p \in Prompts!Named(promptRequest[r].want), NEW next \in {"describe", "count"},
               Prompts!Goto(r, [Prompts!Holding(p) EXCEPT !.pc = next])
        PROVE  PromptsInv'
    <2> DEFINE to == [Prompts!Holding(p) EXCEPT !.pc = next]
    <2>0. p \in DOMAIN prompts
      BY DEF Prompts!Named
    <2>1. /\ Prompts!Holding(p) \in PromptRequestType
          /\ Prompts!Holding(p).copy = Prompts!Copy(p)
                    /\ Prompts!Holding(p).read = Prompts!Copy(p).promoted
          /\ Prompts!Holding(p).new = FALSE
      BY <2>0, HoldingIsSound
    <2>2. /\ to \in PromptRequestType /\ to.pc = next /\ to.copy = Prompts!Copy(p)
          /\ to.read = Prompts!Copy(p).promoted
          /\ ~to.new
      BY <2>1 DEF PromptRequestType, HoldsACopy
    <2>3. Prompts!Goto(r, to)
      BY <1>3
    <2> HIDE DEF to
    <2>4. PromptSound(to)
      BY <2>0, <2>2, FoundIsSound DEF HoldsACopy
    <2> QED BY <1>1, <2>2, <2>3, <2>4, PromptReadInv
  <1> QED BY <1>2, <1>3 DEF Prompts!FindForCreate

\* What a request does with the prompt that it addressed.
LEMMA FoundPromptInv ==
  ASSUME PromptsInv, NEW r \in Requests, promptRequest[r].pc \in {"findById", "findByName"},
         NEW p \in DOMAIN prompts, Prompts!Found(r, p), UNCHANGED <<Prompts!tables,
                                                                    Prompts!histories>>
  PROVE  PromptsInv'
  <1>1. /\ Prompts!Holding(p) \in PromptRequestType
        /\ Prompts!Holding(p).copy = Prompts!Copy(p)
                  /\ Prompts!Holding(p).read = Prompts!Copy(p).promoted
        /\ Prompts!Holding(p).new = FALSE
    BY HoldingIsSound
  <1>2. UNCHANGED <<prompts, versions, Prompts!histories, used>>
    BY DEF Prompts!tables
  <1>3. ASSUME NEW name \in PromptNames,
               Prompts!Goto(r, [Prompts!Holding(p) EXCEPT !.pc = "checkName", !.want = name])
        PROVE  PromptsInv'
    <2> DEFINE to == [Prompts!Holding(p) EXCEPT !.pc = "checkName", !.want = name]
    <2>1. /\ to \in PromptRequestType /\ to.pc = "checkName" /\ to.want = name
          /\ to.copy = Prompts!Copy(p) /\ to.read = Prompts!Copy(p).promoted /\ ~to.new
      BY <1>1 DEF PromptRequestType, HoldsACopy
    <2>2. Prompts!Goto(r, to)
      BY <1>3
    <2> HIDE DEF to
    <2>3. PromptSound(to)
      BY <2>1, FoundIsSound DEF HoldsACopy
    <2> QED BY <1>2, <2>1, <2>2, <2>3, PromptReadInv
  <1>4. ASSUME NEW v \in 1 .. used.versions,
               Prompts!Goto(r, [Prompts!Holding(p) EXCEPT !.pc = "checkVersion", !.version = v])
        PROVE  PromptsInv'
    <2> DEFINE to == [Prompts!Holding(p) EXCEPT !.pc = "checkVersion", !.version = v]
    <2>0. v \in Nat
      BY DEF PromptsInv, PromptTables
    <2>1. /\ to \in PromptRequestType /\ to.pc = "checkVersion"
          /\ to.copy = Prompts!Copy(p) /\ to.read = Prompts!Copy(p).promoted /\ ~to.new
      BY <1>1, <2>0 DEF PromptRequestType, HoldsACopy
    <2>2. Prompts!Goto(r, to)
      BY <1>4
    <2> HIDE DEF to
    <2>3. PromptSound(to)
      BY <2>1, FoundIsSound DEF HoldsACopy
    <2> QED BY <1>2, <2>1, <2>2, <2>3, PromptReadInv
  <1>5. ASSUME NEW pc \in {"save", "remove", "findPromoted"},
               Prompts!Goto(r, [Prompts!Holding(p) EXCEPT !.pc = pc])
        PROVE  PromptsInv'
    <2> DEFINE to == [Prompts!Holding(p) EXCEPT !.pc = pc]
    <2>1. /\ to \in PromptRequestType /\ to.pc = pc
          /\ to.copy = Prompts!Copy(p) /\ to.read = Prompts!Copy(p).promoted /\ ~to.new
      BY <1>1 DEF PromptRequestType, HoldsACopy
    <2>2. Prompts!Goto(r, to)
      BY <1>5
    <2> HIDE DEF to
    <2>3. PromptSound(to)
      BY <2>1, FoundIsSound DEF HoldsACopy
    <2> QED BY <1>2, <2>1, <2>2, <2>3, PromptReadInv
  <1>6. promptRequest[r].purpose \in PromptPurposes \ {"none"}
    BY DEF PromptsInv, PromptRequestsSound, PromptRequestType, PromptSound
  <1>7. CASE promptRequest[r].purpose = "update"
    <2>1. \E name \in PromptNames :
            Prompts!Goto(r, [Prompts!Holding(p) EXCEPT !.pc = "checkName", !.want = name])
      BY <1>7, Zenon DEF Prompts!Found
    <2> QED BY <1>3, <2>1, Zenon
  <1>8. CASE promptRequest[r].purpose = "promote"
    <2>1. \E v \in 1 .. used.versions :
            Prompts!Goto(r, [Prompts!Holding(p) EXCEPT !.pc = "checkVersion", !.version = v])
      BY <1>8, Zenon DEF Prompts!Found
    <2> QED BY <1>4, <2>1, Zenon
  <1>9. CASE promptRequest[r].purpose = "describe"
    BY <1>5, <1>9 DEF Prompts!Found
  <1>10. CASE promptRequest[r].purpose = "remove"
    BY <1>5, <1>10 DEF Prompts!Found
  <1>11. CASE promptRequest[r].purpose = "latest"
    BY <1>5, <1>11 DEF Prompts!Found
  <1> QED BY <1>6, <1>7, <1>8, <1>9, <1>10, <1>11 DEF PromptPurposes

LEMMA FindPromptInv ==
  ASSUME PromptsInv, NEW r \in Requests, Prompts!FindById(r) \/ Prompts!FindByName(r)
  PROVE  PromptsInv'
  <1>1. /\ promptRequest[r].pc \in {"findById", "findByName"}
        /\ promptRequest[r] \in PromptRequestType /\ PromptSound(promptRequest[r])
        /\ UNCHANGED <<Prompts!tables, Prompts!histories>>
    BY DEF Prompts!FindById, Prompts!FindByName, Prompts!At, PromptsInv, PromptRequestsSound
  <1>2. UNCHANGED <<prompts, versions, Prompts!histories, used>>
    BY <1>1 DEF Prompts!tables
  <1>3. ASSUME NEW p \in DOMAIN prompts, Prompts!Found(r, p)
        PROVE  PromptsInv'
    BY <1>1, <1>3, FoundPromptInv
  <1>4. CASE Prompts!Goto(r, [promptRequest[r] EXCEPT !.pc = "findByName"])
    <2> DEFINE to == [promptRequest[r] EXCEPT !.pc = "findByName"]
    <2>1. to \in PromptRequestType /\ to.pc = "findByName" /\ to.purpose = promptRequest[r].purpose
          /\ (to.new => promptRequest[r].new)
      BY <1>1 DEF PromptRequestType, HoldsNone
    <2>2. Prompts!Goto(r, to)
      BY <1>4
    <2> HIDE DEF to
    <2>3. PromptSound(to)
      BY <1>1, <2>1 DEF PromptSound, HoldsACopy
    <2> QED BY <1>2, <2>1, <2>2, <2>3, PromptReadInv
  <1>5. CASE Prompts!Goto(r, Prompts!Idle)
    BY <1>2, <1>5, IdleIsSound, PromptReadInv
  <1>6. CASE Prompts!FindById(r)
    BY <1>3, <1>4, <1>6 DEF Prompts!FindById
  <1>7. CASE Prompts!FindByName(r)
    BY <1>3, <1>5, <1>7 DEF Prompts!FindByName, Prompts!Named
  <1> QED BY <1>6, <1>7

\* A request that holds a copy goes on with it, or ends.
LEMMA PromptHolderInv ==
  ASSUME PromptsInv, NEW r \in Requests,
         \/ Prompts!CheckName(r) \/ Prompts!CheckVersion(r) \/ Prompts!FindPromoted(r)
              \/ Prompts!FindNewest(r) \/ Prompts!Answer(r)
  PROVE  PromptsInv'
  <1>1. /\ promptRequest[r].pc \in {"checkName", "checkVersion", "findPromoted", "findNewest",
             "answered"}
        /\ UNCHANGED <<Prompts!tables, Prompts!histories>>
    <2>1. Prompts!CheckName(r) => Prompts!At(r, "checkName") /\ UNCHANGED <<Prompts!tables,
                                                                            Prompts!histories>>
      BY Zenon DEF Prompts!CheckName
    <2>2. Prompts!CheckVersion(r) => Prompts!At(r, "checkVersion")
            /\ UNCHANGED <<Prompts!tables, Prompts!histories>>
      BY Zenon DEF Prompts!CheckVersion
    <2>3. Prompts!FindPromoted(r) => Prompts!At(r, "findPromoted")
            /\ UNCHANGED <<Prompts!tables, Prompts!histories>>
      BY Zenon DEF Prompts!FindPromoted
    <2>4. Prompts!FindNewest(r) => Prompts!At(r, "findNewest") /\ UNCHANGED <<Prompts!tables,
                                                                              Prompts!histories>>
      BY Zenon DEF Prompts!FindNewest
    <2>5. Prompts!Answer(r) => Prompts!At(r, "answered") /\ UNCHANGED <<Prompts!tables,
                                                                        Prompts!histories>>
      BY Zenon DEF Prompts!Answer
    <2> QED BY <2>1, <2>2, <2>3, <2>4, <2>5 DEF Prompts!At
  <1>0. UNCHANGED <<prompts, versions, Prompts!histories, used>>
    BY <1>1 DEF Prompts!tables
  <1>2. /\ promptRequest[r] \in PromptRequestType /\ PromptSound(promptRequest[r])
        /\ promptRequest[r].copy \in PromptCopyType /\ promptRequest[r].copy.id \in used.ids
        /\ promptRequest[r].copy.name \in PromptNames
        /\ OwnOrGone(promptRequest[r].copy.promoted, promptRequest[r].copy.id)
    BY <1>1, HeldCopy DEF HoldsACopy
  <1>3. ~promptRequest[r].new
    BY <1>1, <1>2 DEF PromptSound
  <1>4. CASE Prompts!Goto(r, Prompts!Idle)
    BY <1>0, <1>4, IdleIsSound, PromptReadInv
  <1>5. ASSUME NEW to \in PromptRequestType, Prompts!Goto(r, to), PromptSound(to),
               to.pc # "saveVersion"
        PROVE  PromptsInv'
    BY <1>0, <1>5, PromptReadInv
  <1>6. CASE Prompts!CheckName(r)
    <2> DEFINE copy == [promptRequest[r].copy EXCEPT !.name = promptRequest[r].want]
               to   == [promptRequest[r] EXCEPT !.pc = "save", !.copy = copy, !.want = "none"]
    <2>1. Prompts!Goto(r, Prompts!Idle) \/ Prompts!Goto(r, to)
      BY <1>6 DEF Prompts!CheckName
    <2>2. promptRequest[r].want \in PromptNames
            /\ promptRequest[r].copy.promoted = promptRequest[r].read
      BY <1>2, <1>6 DEF Prompts!CheckName, Prompts!At, PromptSound
    <2>3. /\ copy \in PromptCopyType /\ copy.id = promptRequest[r].copy.id
          /\ copy.name \in PromptNames
          /\ copy.promoted = promptRequest[r].copy.promoted
      BY <1>2, <2>2 DEF PromptCopyType
    <2> HIDE DEF copy
    <2>4. to \in PromptRequestType /\ to.pc = "save" /\ to.copy = copy
            /\ to.read = promptRequest[r].read /\ ~to.new
      BY <1>2, <1>3, <2>3 DEF PromptRequestType, HoldsACopy
    <2> HIDE DEF to
    <2>5. PromptSound(to)
      BY <1>2, <2>2, <2>3, <2>4 DEF PromptSound, HoldsACopy
    <2> QED BY <1>4, <1>5, <2>1, <2>4, <2>5
  <1>7. CASE Prompts!CheckVersion(r)
    <2> DEFINE copy == [promptRequest[r].copy EXCEPT !.promoted = promptRequest[r].version]
               to   == [promptRequest[r] EXCEPT !.pc = "promote",
                 !.copy.promoted = promptRequest[r].version, !.version = 0]
    <2>1. Prompts!Goto(r, Prompts!Idle)
            \/ (promptRequest[r].version \in Prompts!VersionsOf(promptRequest[r].copy.id)
                 /\ Prompts!Goto(r, to))
      BY <1>7 DEF Prompts!CheckVersion
    <2> SUFFICES ASSUME promptRequest[r].version \in Prompts!VersionsOf(promptRequest[r].copy.id),
                        Prompts!Goto(r, to)
                 PROVE  PromptsInv'
      BY <1>4, <2>1
    <2>2. OwnOrGone(promptRequest[r].version, promptRequest[r].copy.id)
            /\ promptRequest[r].version \in 0 .. MaxVersions
      BY VersionsAssumption DEF Prompts!VersionsOf, OwnOrGone, PromptsInv, PromptTables
    <2>3. /\ copy \in PromptCopyType /\ copy.id = promptRequest[r].copy.id
          /\ copy.name = promptRequest[r].copy.name
          /\ copy.promoted = promptRequest[r].version
      BY <1>2, <2>2 DEF PromptCopyType
    <2>4. to \in PromptRequestType /\ to.pc = "promote" /\ to.copy = copy /\ ~to.new
      BY <1>2, <1>3, <2>2, <2>3 DEF PromptRequestType, HoldsACopy
    <2> HIDE DEF to, copy
    <2>5. PromptSound(to)
      BY <1>2, <2>2, <2>3, <2>4 DEF PromptSound, HoldsACopy
    <2> QED BY <1>5, <2>4, <2>5
  <1>8. ASSUME NEW v \in Prompts!VersionsOf(promptRequest[r].copy.id),
               Prompts!Goto(r, [promptRequest[r] EXCEPT !.pc = "answered", !.version = v])
        PROVE  PromptsInv'
    <2> DEFINE to == [promptRequest[r] EXCEPT !.pc = "answered", !.version = v]
    <2>1. v \in Nat
      BY DEF Prompts!VersionsOf, PromptsInv, PromptTables
    <2>2. to \in PromptRequestType /\ to.pc = "answered" /\ to.copy = promptRequest[r].copy
            /\ to.version = v /\ ~to.new
      BY <1>2, <1>3, <2>1 DEF PromptRequestType, HoldsACopy
    <2>3. Prompts!Goto(r, to)
      BY <1>8
    <2> HIDE DEF to
    <2>4. PromptSound(to)
      BY <1>2, <2>2 DEF PromptSound, HoldsACopy
    <2> QED BY <1>5, <2>2, <2>3, <2>4
  <1>9. CASE Prompts!FindPromoted(r)
    <2> DEFINE to == [promptRequest[r] EXCEPT !.pc = "findNewest"]
    <2> PICK v : v = promptRequest[r].copy.promoted
      OBVIOUS
    <2>1. CASE v \in Prompts!VersionsOf(promptRequest[r].copy.id)
      <3>1. Prompts!Goto(r, [promptRequest[r] EXCEPT !.pc = "answered", !.version = v])
        BY <1>9, <2>1 DEF Prompts!FindPromoted
      <3> QED BY <1>8, <2>1, <3>1, Zenon
    <2> SUFFICES ASSUME v \notin Prompts!VersionsOf(promptRequest[r].copy.id)
                 PROVE  PromptsInv'
      BY <2>1
    <2>4. Prompts!Goto(r, to)
      BY <1>9 DEF Prompts!FindPromoted
    <2>2. to \in PromptRequestType /\ to.pc = "findNewest"
            /\ to.copy = promptRequest[r].copy /\ ~to.new
      BY <1>2, <1>3 DEF PromptRequestType, HoldsACopy
    <2> HIDE DEF to
    <2>3. PromptSound(to)
      BY <1>2, <2>2 DEF PromptSound, HoldsACopy
    <2> QED BY <1>5, <2>2, <2>3, <2>4
  <1>10. CASE Prompts!FindNewest(r)
    <2> DEFINE mine == Prompts!VersionsOf(promptRequest[r].copy.id)
    <2>1. \/ Prompts!Goto(r, Prompts!Idle)
          \/ \E v \in mine :
               Prompts!Goto(r, [promptRequest[r] EXCEPT !.pc = "answered", !.version = v])
      <3>1. \/ mine = {} /\ Prompts!Goto(r, Prompts!Idle)
            \/ \E v \in mine : /\ \A w \in mine : w <= v
                               /\ Prompts!Goto(r,
                                    [promptRequest[r] EXCEPT !.pc = "answered", !.version = v])
        BY <1>10, Zenon DEF Prompts!FindNewest
      <3> HIDE DEF mine
      <3> QED BY <3>1, Zenon
    <2>2. CASE Prompts!Goto(r, Prompts!Idle)
      BY <1>4, <2>2
    <2>3. CASE \E v \in mine :
                 Prompts!Goto(r, [promptRequest[r] EXCEPT !.pc = "answered", !.version = v])
      <3>1. PICK v \in mine : Prompts!Goto(r,
                   [promptRequest[r] EXCEPT !.pc = "answered", !.version = v])
        BY <2>3, Zenon
      <3> QED BY <1>8, <3>1, Zenon
    <2> QED BY <2>1, <2>2, <2>3, Zenon
  <1>11. CASE Prompts!Answer(r)
    BY <1>4, <1>11 DEF Prompts!Answer
  <1> QED BY <1>6, <1>7, <1>9, <1>10, <1>11

LEMMA PromptsNextInv ==
  ASSUME PromptsInv, [Prompts!Next]_(Prompts!promptVars)
  PROVE  PromptsInv'
  <1>1. ASSUME NEW r \in Requests,
               \/ \E name \in PromptNames : Prompts!Create(r, name)
               \/ Prompts!FindForCreate(r) \/ Prompts!Describe(r)
                    \/ Prompts!CountVersions(r) \/ Prompts!SaveVersion(r) \/ Prompts!PromoteFirst(r)
               \/ \E p \in PromptIds : Prompts!InsertPrompt(r, p)
               \/ \E p \in PromptIds, purpose \in {"update", "describe", "promote", "remove",
                    "latest"} :
                    Prompts!Address(r, p, purpose)
               \/ Prompts!FindById(r) \/ Prompts!FindByName(r) \/ Prompts!CheckName(r)
                    \/ Prompts!UpdateSave(r) \/ Prompts!CheckVersion(r)
               \/ Prompts!PromoteVersion(r) \/ Prompts!Remove(r) \/ Prompts!FindPromoted(r)
                    \/ Prompts!FindNewest(r) \/ Prompts!Answer(r)
        PROVE  PromptsInv'
    BY <1>1, CreatePromptInv, FindForCreateInv, DescribeInv, CountVersionsInv, SaveVersionInv,
       PromoteFirstInv,
       InsertPromptInv, AddressInv, FindPromptInv, UpdateSaveInv, PromoteVersionInv,
       RemovePromptInv, PromptHolderInv
  <1>2. CASE UNCHANGED Prompts!promptVars
    <2>1. UNCHANGED <<prompts, versions, used, promptRequest, promised, stale, promptOverlap>>
      BY <1>2 DEF Prompts!promptVars
    <2>2. PromptTables' /\ PromotedIsOwn' /\ NothingPromisedYet' /\ Prompts!PromotionIsKept'
      BY <2>1 DEF PromptsInv, PromptTables, Prompts!TypeOK, PromotedIsOwn, NothingPromisedYet,
                  Prompts!PromotionIsKept, Prompts!VersionsOf
    <2>3. PromptRequestsSound'
      BY <2>1 DEF PromptsInv, PromptRequestsSound, PromptSound, OwnOrGone, Prompts!VersionsOf
    <2>4. CountIsRight' /\ Prompts!VersionsAreNumbered'
      <3>1. \A p : Prompts!VersionsOf(p)' = Prompts!VersionsOf(p)
        BY <2>1 DEF Prompts!VersionsOf
      <3> QED BY <2>1, <3>1 DEF PromptsInv, CountIsRight, Prompts!VersionsAreNumbered, Prompts!At
    <2> QED BY <2>2, <2>3, <2>4 DEF PromptsInv
  <1> QED BY <1>1, <1>2 DEF Prompts!Next

LEMMA PromptsInvImplies ==
  ASSUME PromptsInv
  PROVE  Prompts!PromptSafety
  <1>1. ASSUME NEW r \in Requests, Prompts!At(r, "answered"),
               promptRequest[r].copy.id \in DOMAIN prompts,
               promptRequest[r].copy.id \notin stale
        PROVE  promptRequest[r].version \in Prompts!VersionsOf(promptRequest[r].copy.id)
    BY <1>1 DEF PromptsInv, PromptRequestsSound, PromptSound, Prompts!At
  <1> QED BY <1>1 DEF PromptsInv, PromptTables, Prompts!PromptSafety, Prompts!PromotedBelongs,
                      PromotedIsOwn

(***************************************************************************)
(* However many requests create, edit, promote and remove prompts at once, *)
(* the promoted version of a prompt is one of its own, and the one         *)
(* promoted last unless an older copy of the prompt was saved; versions    *)
(* are numbered without a gap unless two were being created at once, or    *)
(* the prompt was removed and came back meanwhile (PromptsService.create,  *)
(* update and remove, PromptVersionsService.promoteVersion).               *)
(***************************************************************************)
THEOREM PromptsAreSafe == Prompts!Spec => []PromptSafety
  <1>1. Prompts!Init => PromptsInv
    BY PromptsInitInv
  <1>2. PromptsInv /\ [Prompts!Next]_(Prompts!promptVars) => PromptsInv'
    BY PromptsNextInv
  <1>3. PromptsInv => PromptSafety
    BY PromptsInvImplies DEF PromptSafety
  <1> QED BY <1>1, <1>2, <1>3, PTL DEF Prompts!Spec

-----------------------------------------------------------------------------
(***************************************************************************)
(* The statistics of a score.                                              *)
(***************************************************************************)
\* What a request holds.
ReaderType ==
  [pc : {"idle", "get", "load", "count", "aggregate", "stream", "set"},
   scored : SUBSET Statistics!Ids, skip : Nat, queried : BOOLEAN,
     counted : SUBSET Statistics!Ids, from : SUBSET Statistics!Ids]

\* The rows are numbered as they come, and those with a value can be read.
RowsNumbered ==
  /\ order \in Seq(Statistics!Ids)
  /\ Len(order) <= MaxScores
  /\ \A k \in 1 .. Len(order) : order[k] \in 1 .. Len(order)
  /\ \A k, l \in 1 .. Len(order) : order[k] = order[l] => k = l
  /\ done \subseteq {order[k] : k \in 1 .. Len(order)}

\* What may have happened to a result that statistics do not know.
Explained == settled \union entering \union overtaken

\* What a request that has read its first page knows of those rows: they are
\* counted up to the offset, and no insertion puts one below it.
Covers(q) ==
  /\ q.from \subseteq done
  /\ done \ q.from \subseteq Explained
  /\ scoring = "ordinal" => q.scored \subseteq q.from
  /\ q.pc = "stream" =>
       \A k \in 1 .. Len(order) : k <= q.skip /\ order[k] \in q.from => order[k] \in q.counted
  /\ q.pc # "stream" => q.from \subseteq q.counted

\* A request at its label.
ReaderSound(q) ==
  /\ q.pc # "idle" => scoring # "none"
  /\ q.skip <= MaxScores + StreamBatch
  /\ q.pc = "stream" => q.skip <= MaxScores
  /\ q.pc = "set" => q.skip > 0
  /\ q.pc = "aggregate" => scoring = "ordinal"
  /\ q.pc = "count" => scoring \in {"ordinal", "numeric"} /\ (q.skip = 0 <=> scoring = "ordinal")
  /\ q.pc \in {"idle", "get", "load", "aggregate"} => q.skip = 0
  /\ q.pc = "set" /\ scoring = "nominal" => q.scored = q.counted
  /\ ~deleted /\ q.skip = 0 /\ q.pc \in {"aggregate", "stream"} /\ scoring = "ordinal"
       => q.scored \subseteq done
  /\ ~deleted /\ q.skip > 0 => Covers(q)

ReadersSound == \A r \in Readers : \A q \in ReaderType : q = reader[r] => ReaderSound(q)

\* What is cached.
EntrySound ==
  /\ entry = {} \/ \E s \in [scored : SUBSET Statistics!Ids,
       counted : SUBSET Statistics!Ids] : entry = {s}
  /\ \A s \in entry :
       /\ scoring # "none"
       /\ ~deleted /\ scoring # "numeric" => s.scored \subseteq s.counted
       /\ ~deleted => done \ s.counted \subseteq Explained

StatInv ==
  /\ scoring \in {"none", "nominal", "ordinal", "numeric"}
  /\ deleted \in BOOLEAN
  /\ entering \subseteq Statistics!Ids /\ settled \subseteq Statistics!Ids
  /\ overtaken \subseteq Statistics!Ids
  /\ reader \in [Readers -> ReaderType]
  /\ RowsNumbered /\ ReadersSound /\ EntrySound

LEMMA IdleReaderIsSound == Statistics!Idle \in ReaderType /\ ReaderSound(Statistics!Idle)
  <1> USE StreamAssumption
  <1>1. Statistics!Idle \in ReaderType
    BY DEF Statistics!Idle, ReaderType
  <1>2. ReaderSound(Statistics!Idle)
    BY DEF Statistics!Idle, ReaderSound
  <1> QED BY <1>1, <1>2

LEMMA StatInitInv ==
  ASSUME Statistics!Init
  PROVE  StatInv
  <1>1. reader \in [Readers -> ReaderType]
    BY IdleReaderIsSound DEF Statistics!Init
  <1>2. RowsNumbered
    BY StreamAssumption DEF Statistics!Init, RowsNumbered
  <1>3. ReadersSound
    <2> SUFFICES ASSUME NEW r \in Readers, NEW q \in ReaderType, q = reader[r]
                 PROVE  ReaderSound(q)
      BY DEF ReadersSound
    <2>1. q = Statistics!Idle
      BY DEF Statistics!Init
    <2> QED BY <2>1, IdleReaderIsSound
  <1>4. EntrySound
    BY DEF Statistics!Init, EntrySound
  <1> QED BY <1>1, <1>2, <1>3, <1>4 DEF Statistics!Init, StatInv

\* Row i is put at some place, and what comes after it moves up by one.
LEMMA InsertedRows ==
  ASSUME RowsNumbered, NEW i \in Statistics!Ids, Statistics!Inserted(i)
  PROVE  /\ i = Len(order) + 1 /\ Len(order') = i
         /\ order' \in Seq(Statistics!Ids)
         /\ \E at \in 1 .. i :
              \A k \in 1 .. i :
                order'[k] = IF k < at THEN order[k] ELSE IF k = at THEN i ELSE order[k - 1]
  <1> USE StreamAssumption
  <1>1. PICK at \in 1 .. i : i = Len(order) + 1 /\ order' = Statistics!InsertAt(order, at, i)
    BY DEF Statistics!Inserted
  <1>2. order \in Seq(Statistics!Ids) /\ Len(order) \in Nat /\ i \in Nat /\ at \in Nat /\ at <= i
    BY <1>1 DEF RowsNumbered, Statistics!Ids
  <1> DEFINE first == SubSeq(order, 1, at - 1)
             rest == SubSeq(order, at, Len(order))
  <1>3. /\ first \in Seq(Statistics!Ids) /\ Len(first) = at - 1
        /\ \A k \in 1 .. at - 1 : first[k] = order[k]
    BY <1>1, <1>2
  <1>4. /\ rest \in Seq(Statistics!Ids) /\ Len(rest) = i - at
        /\ \A k \in 1 .. i - at : rest[k] = order[at + k - 1]
    BY <1>1, <1>2
  <1>5. order' = (first \o <<i>>) \o rest
    BY <1>1 DEF Statistics!InsertAt
  <1> HIDE DEF first, rest
  <1> DEFINE head == first \o <<i>>
  <1>6. /\ head \in Seq(Statistics!Ids) /\ Len(head) = at
        /\ \A k \in 1 .. at - 1 : head[k] = order[k]
        /\ head[at] = i
    BY <1>3
  <1> HIDE DEF head
  <1>7. order' = head \o rest
    BY <1>5 DEF head
  <1>8. order' \in Seq(Statistics!Ids) /\ Len(order') = i
    <2>0. head \in Seq(Statistics!Ids) /\ rest \in Seq(Statistics!Ids)
      BY <1>4, <1>6
    <2>1. head \o rest \in Seq(Statistics!Ids) /\ Len(head \o rest) = Len(head) + Len(rest)
      BY <2>0
    <2>2. Len(head) + Len(rest) = i
      BY <1>2, <1>4, <1>6
    <2> QED BY <1>7, <2>1, <2>2
  <1>9. \A k \in 1 .. i :
          order'[k] = IF k < at THEN order[k] ELSE IF k = at THEN i ELSE order[k - 1]
    <2> SUFFICES ASSUME NEW k \in 1 .. i
                 PROVE  order'[k] = IF k < at THEN order[k] ELSE IF k = at THEN i ELSE order[k - 1]
      OBVIOUS
    <2>1. CASE k <= at
      BY <1>2, <1>4, <1>6, <1>7, <2>1
    <2>2. CASE k > at
      <3>1. order'[k] = rest[k - at] /\ k - at \in 1 .. i - at
        BY <1>2, <1>4, <1>6, <1>7, <2>2
      <3>2. rest[k - at] = order[k - 1]
        BY <1>2, <1>4, <3>1
      <3> QED BY <2>2, <3>1, <3>2
    <2> QED BY <2>1, <2>2
  <1> QED BY <1>1, <1>8, <1>9

\* The rows of the page at an offset, and what its length says.
LEMMA PageRows ==
  ASSUME RowsNumbered, NEW skip \in Nat
  PROVE  /\ \A k \in 1 .. Len(order) :
              skip < k /\ k <= skip + StreamBatch
                /\ order[k] \in done => order[k] \in Statistics!Scored(Statistics!Page(skip))
         /\ Statistics!Scored(Statistics!Page(skip)) \subseteq done
         /\ Len(Statistics!Page(skip)) < StreamBatch => Len(order) < skip + StreamBatch
         /\ ~(Len(Statistics!Page(skip)) < StreamBatch) => skip + StreamBatch <= Len(order)
  <1> USE StreamAssumption
  <1> DEFINE last == IF skip + StreamBatch <= Len(order) THEN skip + StreamBatch ELSE Len(order)
  <1>1. order \in Seq(Statistics!Ids) /\ Len(order) \in Nat
    BY DEF RowsNumbered
  <1>2. Statistics!Min({skip + StreamBatch, Len(order)}) = last
    <2>1. last \in {skip + StreamBatch, Len(order)} /\ \A y \in {skip + StreamBatch,
            Len(order)} : last <= y
      BY <1>1
    <2>2. \A x \in {skip + StreamBatch, Len(order)} :
            (\A y \in {skip + StreamBatch, Len(order)} : x <= y) => x = last
      BY <1>1
    <2> HIDE DEF last
    <2> QED BY <2>1, <2>2 DEF Statistics!Min
  <1>3. Statistics!Page(skip) = SubSeq(order, skip + 1, last)
    BY <1>2 DEF Statistics!Page
  <1>4. Len(Statistics!Page(skip)) = IF skip + 1 <= last THEN last - skip ELSE 0
    BY <1>1, <1>3
  <1>5. \A k \in 1 .. Len(order) : skip < k
          /\ k <= skip + StreamBatch => order[k] \in Statistics!ToSet(Statistics!Page(skip))
    <2> SUFFICES ASSUME NEW k \in 1 .. Len(order), skip < k, k <= skip + StreamBatch
                 PROVE  order[k] \in Statistics!ToSet(Statistics!Page(skip))
      OBVIOUS
    <2>1. k <= last /\ k - skip \in 1 .. last - skip
      BY <1>1
    <2>2. k - skip \in DOMAIN Statistics!Page(skip) /\ Statistics!Page(skip)[k - skip] = order[k]
      <3> HIDE DEF last
      <3>0. last \in Nat /\ last <= Len(order)
        BY <1>1 DEF last
      <3> QED BY <1>1, <1>3, <1>4, <2>1, <3>0
    <2> QED BY <2>2 DEF Statistics!ToSet
  <1>6. Len(Statistics!Page(skip)) < StreamBatch => Len(order) < skip + StreamBatch
    BY <1>1, <1>4
  <1>7. ~(Len(Statistics!Page(skip)) < StreamBatch) => skip + StreamBatch <= Len(order)
    BY <1>1, <1>4
  <1> QED BY <1>5, <1>6, <1>7 DEF Statistics!Scored

\* Rows and values that are added are explained, and no row is put before one
\* that was read.
LEMMA StatGrowthInv ==
  ASSUME StatInv, RowsNumbered', reader' = reader, entry' = entry,
         scoring' = scoring, deleted' = deleted,
         done \subseteq done', done' \ done \subseteq Explained', Explained \subseteq Explained',
         \A k \in 1 .. Len(order') :
           order'[k] \in done => \E l \in 1 .. Len(order) : l <= k /\ order'[k] = order[l]
  PROVE  ReadersSound' /\ EntrySound'
  <1> USE StreamAssumption
  <1>1. ReadersSound'
    <2> SUFFICES ASSUME NEW r \in Readers, NEW q \in ReaderType, q = reader[r]
                 PROVE  ReaderSound(q)'
      BY DEF ReadersSound
    <2>1. ReaderSound(q)
      BY DEF StatInv, ReadersSound
    <2>2. ASSUME ~deleted, q.skip > 0 PROVE Covers(q)'
      <3>1. Covers(q)
        BY <2>1, <2>2 DEF ReaderSound
      <3>2. q.from \subseteq done'
        BY <3>1 DEF Covers
      <3>3. done' \ q.from \subseteq Explained'
        BY <3>1 DEF Covers
      <3>4. scoring' = "ordinal" => q.scored \subseteq q.from
        BY <3>1 DEF Covers
      <3>5. ASSUME q.pc = "stream", NEW k \in 1 .. Len(order'), k <= q.skip, order'[k] \in q.from
            PROVE  order'[k] \in q.counted
        <4>1. order'[k] \in done
          BY <3>1, <3>5 DEF Covers
        <4>2. PICK l \in 1 .. Len(order) : l <= k /\ order'[k] = order[l]
          BY <4>1
        <4>3. l <= q.skip
          <5>1. l \in Nat /\ k \in Nat /\ q.skip \in Nat
            BY DEF ReaderType
          <5> QED BY <3>5, <4>2, <5>1
        <4> QED BY <3>1, <3>5, <4>2, <4>3 DEF Covers
      <3>6. q.pc # "stream" => q.from \subseteq q.counted
        BY <3>1 DEF Covers
      <3> QED BY <3>2, <3>3, <3>4, <3>5, <3>6 DEF Covers
    <2>3. ~deleted /\ q.skip = 0 /\ q.pc \in {"aggregate", "stream"} /\ scoring = "ordinal"
            => q.scored \subseteq done'
      BY <2>1 DEF ReaderSound
    <2> QED BY <2>1, <2>2, <2>3 DEF ReaderSound
  <1>2. EntrySound'
    <2>1. EntrySound
      BY DEF StatInv
    <2>2. \A s \in entry : ~deleted => done' \ s.counted \subseteq Explained'
      BY <2>1 DEF EntrySound
    <2> QED BY <2>1, <2>2 DEF EntrySound
  <1> QED BY <1>1, <1>2

LEMMA StatInsertInv ==
  ASSUME StatInv, NEW i \in Statistics!Ids, Statistics!Inserted(i)
  PROVE  /\ done' = done => RowsNumbered'
         /\ done' = done \union {i} => RowsNumbered'
         /\ \A k \in 1 .. Len(order') :
              order'[k] \in done => \E l \in 1 .. Len(order) : l <= k /\ order'[k] = order[l]
  <1> USE StreamAssumption
  <1>1. RowsNumbered
    BY DEF StatInv
  <1>2. /\ order \in Seq(Statistics!Ids) /\ Len(order) \in Nat /\ i \in Nat /\ i <= MaxScores
    BY <1>1 DEF RowsNumbered, Statistics!Ids
  <1>3. i = Len(order) + 1 /\ Len(order') = i /\ order' \in Seq(Statistics!Ids)
    BY <1>1, InsertedRows
  <1>4. PICK at \in 1 .. i :
          \A k \in 1 .. i :
            order'[k] = IF k < at THEN order[k] ELSE IF k = at THEN i ELSE order[k - 1]
    BY <1>1, InsertedRows
  <1>5. at \in Nat /\ at <= i /\ at >= 1
    BY <1>2
  <1>6. \A k \in 1 .. i : k < at => k \in 1 .. Len(order) /\ order'[k] = order[k]
    BY <1>2, <1>3, <1>4, <1>5
  <1>7. \A k \in 1 .. i : k > at => k - 1 \in 1 .. Len(order) /\ order'[k] = order[k - 1]
    BY <1>2, <1>3, <1>4, <1>5
  <1>8. order'[at] = i
    BY <1>4, <1>5
  <1>9. \A k \in 1 .. Len(order) : order[k] \in 1 .. Len(order) /\ order[k] # i
    BY <1>1, <1>2, <1>3 DEF RowsNumbered
  <1>10. \A k \in 1 .. Len(order') : order'[k] \in 1 .. Len(order')
    <2> SUFFICES ASSUME NEW k \in 1 .. i PROVE order'[k] \in 1 .. i
      BY <1>3
    <2>1. CASE k < at
      BY <1>2, <1>3, <1>6, <1>9, <2>1
    <2>2. CASE k = at
      BY <1>2, <1>3, <1>8, <2>2
    <2>3. CASE k > at
      BY <1>2, <1>3, <1>7, <1>9, <2>3
    <2> QED BY <1>5, <2>1, <2>2, <2>3
  <1>11. \A k, l \in 1 .. Len(order') : order'[k] = order'[l] => k = l
    <2> SUFFICES ASSUME NEW k \in 1 .. i, NEW l \in 1 .. i, order'[k] = order'[l] PROVE k = l
      BY <1>3
    <2>0. \A m, n \in 1 .. Len(order) : order[m] = order[n] => m = n
      BY <1>1 DEF RowsNumbered
    <2>1. CASE k < at /\ l < at
      BY <1>6, <2>0, <2>1
    <2>2. CASE k > at /\ l > at
      <3>1. k - 1 = l - 1
        BY <1>7, <2>0, <2>2
      <3> QED BY <3>1
    <2>3. CASE k < at /\ l > at
      <3>1. k = l - 1
        BY <1>6, <1>7, <2>0, <2>3
      <3> QED BY <1>5, <2>3, <3>1
    <2>4. CASE k > at /\ l < at
      <3>1. k - 1 = l
        BY <1>6, <1>7, <2>0, <2>4
      <3> QED BY <1>5, <2>4, <3>1
    <2>5. CASE k = at \/ l = at
      <3>1. ASSUME NEW m \in 1 .. i, order'[m] = i PROVE m = at
        <4>1. CASE m < at
          BY <1>6, <1>9, <3>1, <4>1
        <4>2. CASE m > at
          BY <1>7, <1>9, <3>1, <4>2
        <4> QED BY <1>5, <4>1, <4>2
      <3> QED BY <1>8, <2>5, <3>1
    <2> QED BY <1>5, <2>1, <2>2, <2>3, <2>4, <2>5
  <1>12. \A j \in 1 .. Len(order) : \E k \in 1 .. i : order'[k] = order[j]
    <2> SUFFICES ASSUME NEW j \in 1 .. Len(order) PROVE \E k \in 1 .. i : order'[k] = order[j]
      OBVIOUS
    <2>1. CASE j < at
      <3>1. j \in 1 .. i
        BY <1>2, <1>3
      <3> QED BY <1>6, <2>1, <3>1
    <2>2. CASE j >= at
      <3>1. j + 1 \in 1 .. i /\ j + 1 > at /\ (j + 1) - 1 = j
        BY <1>2, <1>3, <1>5, <2>2
      <3> QED BY <1>7, <3>1
    <2> QED BY <1>5, <2>1, <2>2
  <1>13. done \union {i} \subseteq {order'[k] : k \in 1 .. Len(order')}
    <2>1. done \subseteq {order[k] : k \in 1 .. Len(order)}
      BY <1>1 DEF RowsNumbered
    <2>2. at \in 1 .. i
      BY <1>5
    <2> QED BY <1>3, <1>8, <1>12, <2>1, <2>2
  <1>14. \A k \in 1 .. Len(order') :
           order'[k] \in done => \E l \in 1 .. Len(order) : l <= k /\ order'[k] = order[l]
    <2> SUFFICES ASSUME NEW k \in 1 .. i, order'[k] \in done
                 PROVE  \E l \in 1 .. Len(order) : l <= k /\ order'[k] = order[l]
      BY <1>3
    <2>1. order'[k] # i
      BY <1>1, <1>9 DEF RowsNumbered
    <2>2. CASE k < at
      BY <1>6, <2>2
    <2>3. CASE k > at
      <3>1. k - 1 <= k
        OBVIOUS
      <3> QED BY <1>7, <2>3, <3>1
    <2> QED BY <1>5, <1>8, <2>1, <2>2, <2>3
  <1>15. Len(order') <= MaxScores
    BY <1>2, <1>3
  <1>16. ASSUME done' = done PROVE RowsNumbered'
    BY <1>3, <1>10, <1>11, <1>13, <1>15, <1>16 DEF RowsNumbered
  <1>17. ASSUME done' = done \union {i} PROVE RowsNumbered'
    BY <1>3, <1>10, <1>11, <1>13, <1>15, <1>17 DEF RowsNumbered
  <1> QED BY <1>14, <1>16, <1>17

LEMMA StatInsertPendingInv ==
  ASSUME StatInv, NEW i \in Statistics!Ids, Statistics!InsertPending(i)
  PROVE  StatInv'
  <1> USE DEF Statistics!InsertPending
  <1>1. RowsNumbered'
    BY StatInsertInv
  <1>2. \A k \in 1 .. Len(order') :
          order'[k] \in done => \E l \in 1 .. Len(order) : l <= k /\ order'[k] = order[l]
    BY StatInsertInv
  <1>3. Explained' = Explained
    BY DEF Explained
  <1>4. ReadersSound' /\ EntrySound'
    BY <1>1, <1>2, <1>3, StatGrowthInv
  <1> QED BY <1>1, <1>4 DEF StatInv

LEMMA StatSettleInv ==
  ASSUME StatInv, NEW i \in Statistics!Ids, Statistics!SettleByWorker(i)
  PROVE  StatInv'
  <1> USE DEF Statistics!SettleByWorker
  <1>0. RowsNumbered
    BY DEF StatInv
  <1>1. RowsNumbered'
    BY <1>0 DEF RowsNumbered, Statistics!ToSet
  <1>2. \A k \in 1 .. Len(order') :
          order'[k] \in done => \E l \in 1 .. Len(order) : l <= k /\ order'[k] = order[l]
    BY <1>0 DEF RowsNumbered
  <1>3. Explained \subseteq Explained' /\ done' \ done \subseteq Explained'
    BY DEF Explained
  <1>4. ReadersSound' /\ EntrySound'
    BY <1>1, <1>2, <1>3, StatGrowthInv
  <1> QED BY <1>1, <1>4 DEF StatInv

LEMMA StatEnterInv ==
  ASSUME StatInv, NEW i \in Statistics!Ids, Statistics!Enter(i)
  PROVE  StatInv'
  <1>0. RowsNumbered
    BY DEF StatInv
  <1>1. done' = done \union {i} /\ entering' = entering \union {i}
        /\ UNCHANGED <<scoring, deleted, entry, reader, settled, overtaken>>
    BY DEF Statistics!Enter
  <1>2. CASE i \in Statistics!ToSet(order) \ done /\ UNCHANGED order
    <2>1. RowsNumbered'
      BY <1>0, <1>1, <1>2 DEF RowsNumbered, Statistics!ToSet
    <2>2. \A k \in 1 .. Len(order') :
            order'[k] \in done => \E l \in 1 .. Len(order) : l <= k /\ order'[k] = order[l]
      BY <1>0, <1>2 DEF RowsNumbered
    <2>3. Explained \subseteq Explained' /\ done' \ done \subseteq Explained'
      BY <1>1 DEF Explained
    <2>4. ReadersSound' /\ EntrySound'
      BY <1>1, <2>1, <2>2, <2>3, StatGrowthInv
    <2> QED BY <1>1, <2>1, <2>4 DEF StatInv
  <1>3. CASE Statistics!Inserted(i)
    <2>1. RowsNumbered'
      BY <1>1, <1>3, StatInsertInv
    <2>2. \A k \in 1 .. Len(order') :
            order'[k] \in done => \E l \in 1 .. Len(order) : l <= k /\ order'[k] = order[l]
      BY <1>3, StatInsertInv
    <2>3. Explained \subseteq Explained' /\ done' \ done \subseteq Explained'
      BY <1>1 DEF Explained
    <2>4. ReadersSound' /\ EntrySound'
      BY <1>1, <2>1, <2>2, <2>3, StatGrowthInv
    <2> QED BY <1>1, <2>1, <2>4 DEF StatInv
  <1> QED BY <1>2, <1>3 DEF Statistics!Enter

LEMMA StatInvalidateInv ==
  ASSUME StatInv, NEW i \in Statistics!Ids, Statistics!Invalidate(i)
  PROVE  StatInv'
  <1> USE StreamAssumption DEF Statistics!Invalidate
  <1>1. RowsNumbered'
    BY DEF StatInv, RowsNumbered
  <1>2. EntrySound'
    BY DEF EntrySound
  <1>3. ReadersSound'
    <2> SUFFICES ASSUME NEW r \in Readers, NEW q \in ReaderType, q = reader[r]
                 PROVE  ReaderSound(q)'
      BY DEF ReadersSound
    <2>1. ReaderSound(q)
      BY DEF StatInv, ReadersSound
    <2>2. ASSUME q.skip > 0 PROVE Explained \subseteq Explained'
      <3>1. q.skip # 0
        BY <2>2 DEF ReaderType
      <3>2. Statistics!Reading
        BY <2>1, <3>1 DEF ReaderSound, Statistics!Reading
      <3> QED BY <3>2 DEF Explained
    <2>3. ~deleted /\ q.skip > 0 => Covers(q)'
      BY <2>1, <2>2 DEF ReaderSound, Covers
    <2> QED BY <2>1, <2>3 DEF ReaderSound
  <1> QED BY <1>1, <1>2, <1>3 DEF StatInv

LEMMA StatCreateInv ==
  ASSUME StatInv, NEW type \in {"nominal", "ordinal", "numeric"}, Statistics!Create(type)
  PROVE  StatInv'
  <1> USE StreamAssumption DEF Statistics!Create
  <1>1. RowsNumbered'
    BY DEF StatInv, RowsNumbered
  <1>2. EntrySound'
    BY DEF StatInv, EntrySound
  <1>3. ReadersSound'
    <2> SUFFICES ASSUME NEW r \in Readers, NEW q \in ReaderType, q = reader[r]
                 PROVE  ReaderSound(q)'
      BY DEF ReadersSound
    <2>1. ReaderSound(q)
      BY DEF StatInv, ReadersSound
    <2>2. q.pc = "idle" /\ q.skip = 0
      BY <2>1 DEF ReaderSound
    <2> QED BY <2>2 DEF ReaderSound
  <1> QED BY <1>1, <1>2, <1>3 DEF StatInv

LEMMA StatDeleteInv ==
  ASSUME StatInv, Statistics!Delete
  PROVE  StatInv'
  <1> USE StreamAssumption DEF Statistics!Delete
  <1>1. RowsNumbered'
    BY DEF RowsNumbered
  <1>2. EntrySound'
    BY DEF StatInv, EntrySound
  <1>3. ReadersSound'
    <2> SUFFICES ASSUME NEW r \in Readers, NEW q \in ReaderType, q = reader[r]
                 PROVE  ReaderSound(q)'
      BY DEF ReadersSound
    <2>1. ReaderSound(q)
      BY DEF StatInv, ReadersSound
    <2> QED BY <2>1 DEF ReaderSound
  <1> QED BY <1>1, <1>2, <1>3 DEF StatInv

LEMMA StatExpireInv ==
  ASSUME StatInv, Statistics!Expire
  PROVE  StatInv'
  <1> USE DEF Statistics!Expire, Statistics!tables
  <1>1. RowsNumbered'
    BY DEF StatInv, RowsNumbered
  <1>2. EntrySound'
    BY DEF EntrySound
  <1>3. ReadersSound'
    BY DEF StatInv, ReadersSound, ReaderSound, Covers, Explained
  <1> QED BY <1>1, <1>2, <1>3 DEF StatInv

\* A request goes on: nothing changes but what it holds.
LEMMA ReaderGoesOn ==
  ASSUME StatInv, UNCHANGED <<Statistics!tables, entry>>, NEW r \in Readers, NEW to \in ReaderType,
         ReaderSound(to), reader' = [reader EXCEPT ![r] = to]
  PROVE  StatInv'
  <1> USE DEF Statistics!tables
  <1>1. RowsNumbered'
    BY DEF StatInv, RowsNumbered
  <1>2. EntrySound'
    BY DEF StatInv, EntrySound, Explained
  <1>3. \A q \in ReaderType : ReaderSound(q)' = ReaderSound(q)
    BY DEF ReaderSound, Covers, Explained
  <1>4. reader' \in [Readers -> ReaderType]
    BY DEF StatInv
  <1>5. ReadersSound'
    <2> SUFFICES ASSUME NEW o \in Readers, NEW q \in ReaderType, q = reader'[o]
                 PROVE  ReaderSound(q)
      BY <1>3 DEF ReadersSound
    <2>1. CASE o = r
      BY <2>1 DEF StatInv
    <2>2. CASE o # r
      BY <2>2 DEF StatInv, ReadersSound
    <2> QED BY <2>1, <2>2
  <1> QED BY <1>1, <1>2, <1>4, <1>5 DEF StatInv

LEMMA StatRequestInv ==
  ASSUME StatInv, NEW r \in Readers, Statistics!Request(r)
  PROVE  StatInv'
  <1> USE StreamAssumption DEF Statistics!Request, Statistics!Step
  <1> DEFINE to == [Statistics!Idle EXCEPT !.pc = "get"]
  <1>1. to \in ReaderType
    BY DEF Statistics!Idle, ReaderType
  <1>2. ReaderSound(to)
    BY DEF Statistics!Idle, ReaderSound
  <1> QED BY <1>1, <1>2, ReaderGoesOn

LEMMA StatGetInv ==
  ASSUME StatInv, NEW r \in Readers, Statistics!Get(r)
  PROVE  StatInv'
  <1> USE StreamAssumption DEF Statistics!Get, Statistics!Step
  <1> PICK q : q = reader[r]
    OBVIOUS
  <1> DEFINE to == [q EXCEPT !.pc = IF entry # {} THEN "idle" ELSE "load"]
  <1>1. q \in ReaderType /\ ReaderSound(q) /\ q.pc = "get"
    BY DEF StatInv, ReadersSound
  <1>2. to \in ReaderType
    BY <1>1 DEF ReaderType
  <1>3. ReaderSound(to)
    BY <1>1 DEF ReaderType, ReaderSound
  <1> QED BY <1>2, <1>3, ReaderGoesOn

LEMMA StatLoadInv ==
  ASSUME StatInv, NEW r \in Readers, Statistics!Load(r)
  PROVE  StatInv'
  <1> USE StreamAssumption DEF Statistics!Load, Statistics!Step
  <1> PICK q : q = reader[r]
    OBVIOUS
  <1>1. q \in ReaderType /\ ReaderSound(q) /\ q.pc = "load"
    BY DEF StatInv, ReadersSound
  <1>2. CASE deleted
    BY <1>2, IdleReaderIsSound, ReaderGoesOn
  <1>3. CASE ~deleted
    <2> DEFINE next == IF scoring = "ordinal" THEN "count" ELSE "stream"
               to == [q EXCEPT !.pc = next]
    <2>1. to \in ReaderType
      BY <1>1 DEF ReaderType
    <2>2. ReaderSound(to)
      BY <1>1 DEF StatInv, ReaderType, ReaderSound
    <2> QED BY <1>3, <2>1, <2>2, ReaderGoesOn
  <1> QED BY <1>2, <1>3

LEMMA StatCountBesideInv ==
  ASSUME StatInv, NEW r \in Readers, Statistics!CountBeside(r)
  PROVE  StatInv'
  <1> USE StreamAssumption DEF Statistics!CountBeside, Statistics!Step
  <1> PICK q : q = reader[r]
    OBVIOUS
  <1>1. q \in ReaderType /\ ReaderSound(q) /\ q.pc = "stream" /\ scoring = "numeric"
          /\ done \subseteq Statistics!Ids
    BY DEF StatInv, ReadersSound, RowsNumbered
  <1> DEFINE to == [q EXCEPT !.scored = done, !.queried = TRUE]
  <1>2. to \in ReaderType
    BY <1>1 DEF ReaderType
  <1>3. ReaderSound(to)
    <2>1. /\ to.pc = q.pc /\ to.skip = q.skip /\ to.counted = q.counted /\ to.from = q.from
      BY <1>1 DEF ReaderType
    <2>2. ~deleted /\ to.skip > 0 => Covers(to)
      BY <1>1, <2>1 DEF ReaderSound, Covers
    <2> HIDE DEF to
    <2> QED BY <1>1, <2>1, <2>2 DEF ReaderSound
  <1> QED BY <1>2, <1>3, ReaderGoesOn

LEMMA StatCountInv ==
  ASSUME StatInv, NEW r \in Readers, Statistics!Count(r)
  PROVE  StatInv'
  <1> USE StreamAssumption DEF Statistics!Count, Statistics!Step
  <1> PICK q : q = reader[r]
    OBVIOUS
  <1>1. q \in ReaderType /\ ReaderSound(q) /\ q.pc = "count" /\ done \subseteq Statistics!Ids
    BY DEF StatInv, ReadersSound, RowsNumbered
  <1>2. scoring \in {"ordinal", "numeric"} /\ (q.skip = 0 <=> scoring = "ordinal")
    BY <1>1 DEF ReaderSound
  <1> DEFINE next == IF scoring # "ordinal" THEN "set"
                     ELSE IF done = {} THEN "stream" ELSE "aggregate"
             to == [q EXCEPT !.scored = done, !.queried = TRUE, !.pc = next]
  <1>3. next \in {"set", "stream", "aggregate"} /\ (next = "set" <=> scoring # "ordinal")
    OBVIOUS
  <1> HIDE DEF next
  <1>4. to \in ReaderType
    BY <1>1, <1>3 DEF ReaderType
  <1>5. /\ to.pc = next /\ to.skip = q.skip /\ to.counted = q.counted /\ to.from = q.from
        /\ to.scored = done /\ q.skip \in Nat
    BY <1>1 DEF ReaderType
  <1>6. ~deleted /\ to.skip > 0 => Covers(to)
    BY <1>1, <1>2, <1>3, <1>5 DEF ReaderSound, Covers
  <1>7. ReaderSound(to)
    <2> HIDE DEF to
    <2> QED BY <1>1, <1>2, <1>3, <1>5, <1>6 DEF ReaderSound
  <1> QED BY <1>4, <1>7, ReaderGoesOn DEF next

LEMMA StatAggregateInv ==
  ASSUME StatInv, NEW r \in Readers, Statistics!Aggregate(r)
  PROVE  StatInv'
  <1> USE StreamAssumption DEF Statistics!Aggregate, Statistics!Step
  <1> PICK q : q = reader[r]
    OBVIOUS
  <1>1. q \in ReaderType /\ ReaderSound(q) /\ q.pc = "aggregate"
    BY DEF StatInv, ReadersSound
  <1> DEFINE to == [q EXCEPT !.pc = "stream"]
  <1>2. to \in ReaderType
    BY <1>1 DEF ReaderType
  <1>3. ReaderSound(to)
    BY <1>1 DEF ReaderType, ReaderSound
  <1> QED BY <1>2, <1>3, ReaderGoesOn

LEMMA StatSetInv ==
  ASSUME StatInv, NEW r \in Readers, Statistics!Set(r)
  PROVE  StatInv'
  <1> USE StreamAssumption DEF Statistics!Set, Statistics!Step
  <1> PICK q : q = reader[r]
    OBVIOUS
  <1>1. q \in ReaderType /\ ReaderSound(q) /\ q.pc = "set" /\ q.skip > 0 /\ scoring # "none"
    BY DEF StatInv, ReadersSound, ReaderSound
  <1> PICK s : s = Statistics!Statistics(q)
    OBVIOUS
  <1>2. s \in [scored : SUBSET Statistics!Ids, counted : SUBSET Statistics!Ids]
          /\ s.scored = q.scored /\ s.counted = q.counted
    BY <1>1 DEF Statistics!Statistics, ReaderType
  <1>3. ~deleted => Covers(q)
    BY <1>1 DEF ReaderSound
  <1>4. ~deleted /\ scoring # "numeric" => s.scored \subseteq s.counted
    <2>1. scoring \in {"ordinal", "nominal", "numeric"}
      BY <1>1 DEF StatInv
    <2> QED BY <1>1, <1>2, <1>3, <2>1 DEF ReaderSound, Covers
  <1>5. ~deleted => done \ s.counted \subseteq Explained
    BY <1>1, <1>2, <1>3 DEF Covers
  <1>6. entry' = {s} /\ reader' = [reader EXCEPT ![r] = Statistics!Idle]
          /\ UNCHANGED Statistics!tables
    OBVIOUS
  <1>7. EntrySound'
    BY <1>1, <1>2, <1>4, <1>5, <1>6 DEF EntrySound, Statistics!tables, Explained
  <1>8. RowsNumbered'
    BY <1>6 DEF StatInv, RowsNumbered, Statistics!tables
  <1>9. \A p \in ReaderType : ReaderSound(p)' = ReaderSound(p)
    BY <1>6 DEF ReaderSound, Covers, Explained, Statistics!tables
  <1>10. reader' \in [Readers -> ReaderType]
    BY <1>6, IdleReaderIsSound DEF StatInv
  <1>11. ReadersSound'
    <2> SUFFICES ASSUME NEW o \in Readers, NEW p \in ReaderType, p = reader'[o]
                 PROVE  ReaderSound(p)
      BY <1>9 DEF ReadersSound
    <2>1. CASE o = r
      BY <1>6, <2>1, IdleReaderIsSound DEF StatInv
    <2>2. CASE o # r
      BY <1>6, <2>2 DEF StatInv, ReadersSound
    <2> QED BY <2>1, <2>2
  <1> QED BY <1>6, <1>7, <1>8, <1>10, <1>11 DEF StatInv, Statistics!tables

\* A page is added to what is counted; after the last one all is.
LEMMA StatStreamInv ==
  ASSUME StatInv, NEW r \in Readers, Statistics!Stream(r)
  PROVE  StatInv'
  <1> USE StreamAssumption
  <1> PICK q : q = reader[r]
    OBVIOUS
  <1>1. q \in ReaderType /\ ReaderSound(q) /\ q.pc = "stream" /\ q.skip \in Nat
          /\ UNCHANGED <<Statistics!tables, entry>>
    <2>1. q \in ReaderType /\ q.skip \in Nat
      BY DEF StatInv, ReaderType
    <2>2. ReaderSound(q)
      BY <2>1 DEF StatInv, ReadersSound
    <2>3. q.pc = "stream" /\ UNCHANGED <<Statistics!tables, entry>>
      BY DEF Statistics!Stream, Statistics!Step
    <2> QED BY <2>1, <2>2, <2>3
  <1>2. RowsNumbered /\ done \subseteq Statistics!Ids /\ Len(order) \in Nat
    <2>1. RowsNumbered
      BY DEF StatInv
    <2>2. Len(order) \in Nat /\ \A k \in 1 .. Len(order) : order[k] \in Statistics!Ids
      BY <2>1 DEF RowsNumbered
    <2>3. done \subseteq {order[k] : k \in 1 .. Len(order)}
      BY <2>1 DEF RowsNumbered
    <2> QED BY <2>1, <2>2, <2>3
  <1> PICK page : page = Statistics!Page(q.skip)
    OBVIOUS
  <1> PICK more : more = Statistics!Scored(page)
    OBVIOUS
  <1>3. /\ \A k \in 1 .. Len(order) :
             q.skip < k /\ k <= q.skip + StreamBatch /\ order[k] \in done => order[k] \in more
        /\ more \subseteq done
        /\ Len(page) < StreamBatch => Len(order) < q.skip + StreamBatch
        /\ ~(Len(page) < StreamBatch) => q.skip + StreamBatch <= Len(order)
    BY <1>1, <1>2, PageRows
  <1> DEFINE first == IF q.skip = 0 THEN done ELSE q.from
             rows == [q EXCEPT !.counted = @ \union more, !.skip = @ + StreamBatch, !.from = first]
  <1>4. Statistics!Step(r, "stream",
          IF Len(page) < StreamBatch THEN Statistics!AfterStream(r, rows) ELSE rows)
    BY DEF Statistics!Stream
  <1>5. /\ rows \in ReaderType /\ rows.pc = "stream" /\ rows.skip = q.skip + StreamBatch
        /\ rows.counted = q.counted \union more /\ rows.from = first
        /\ rows.scored = q.scored /\ rows.queried = q.queried
    <2>1. first \subseteq Statistics!Ids /\ q.counted \union more \subseteq Statistics!Ids
            /\ q.skip + StreamBatch \in Nat
      BY <1>1, <1>2, <1>3 DEF ReaderType
    <2> HIDE DEF first
    <2> QED BY <1>1, <2>1 DEF ReaderType
  <1>6. /\ rows.skip > 0 /\ rows.skip \in Nat /\ rows.skip <= MaxScores + StreamBatch
        /\ scoring # "none"
    BY <1>1, <1>5 DEF ReaderSound
  <1>7. ASSUME ~deleted
        PROVE  /\ rows.from \subseteq done
               /\ done \ rows.from \subseteq Explained
               /\ scoring = "ordinal" => rows.scored \subseteq rows.from
               /\ \A k \in 1 .. Len(order) :
                    k <= rows.skip /\ order[k] \in rows.from => order[k] \in rows.counted
    <2>1. CASE q.skip = 0
      <3>1. rows.from = done
        BY <1>5, <2>1
      <3>2. scoring = "ordinal" => rows.scored \subseteq rows.from
        BY <1>1, <1>5, <1>7, <2>1, <3>1 DEF ReaderSound
      <3>3. \A k \in 1 .. Len(order) : k <= rows.skip
              /\ order[k] \in rows.from => order[k] \in rows.counted
        BY <1>3, <1>5, <2>1, <3>1
      <3> HIDE DEF rows
      <3> QED BY <3>1, <3>2, <3>3
    <2>2. CASE q.skip # 0
      <3>1. rows.from = q.from /\ Covers(q)
        BY <1>1, <1>5, <1>7, <2>2 DEF ReaderSound
      <3>2. ASSUME NEW k \in 1 .. Len(order), k <= rows.skip, order[k] \in q.from
            PROVE  order[k] \in rows.counted
        <4> HIDE DEF rows
        <4>1. CASE k <= q.skip
          BY <1>1, <1>5, <3>1, <3>2, <4>1 DEF Covers
        <4>2. CASE q.skip < k
          <5>1. order[k] \in done /\ k <= q.skip + StreamBatch
            BY <1>5, <3>1, <3>2 DEF Covers
          <5> QED BY <1>3, <1>5, <4>2, <5>1
        <4> QED BY <1>1, <4>1, <4>2
      <3> HIDE DEF rows
      <3> QED BY <1>5, <3>1, <3>2 DEF Covers
    <2> QED BY <2>1, <2>2
  <1> HIDE DEF rows
  <1>8. CASE ~(Len(page) < StreamBatch)
    <2>1. rows.skip <= MaxScores
      BY <1>1, <1>2, <1>3, <1>5, <1>8 DEF RowsNumbered
    <2>2. ~deleted => Covers(rows)
      BY <1>5, <1>7 DEF Covers
    <2>3. ReaderSound(rows)
      BY <1>5, <1>6, <2>1, <2>2 DEF ReaderSound
    <2>4. reader' = [reader EXCEPT ![r] = rows]
      BY <1>4, <1>8 DEF Statistics!Step
    <2> QED BY <1>1, <1>5, <2>3, <2>4, ReaderGoesOn
  <1>9. CASE Len(page) < StreamBatch
    <2>1. ~deleted => rows.from \subseteq rows.counted
      <3> SUFFICES ASSUME ~deleted, NEW i \in rows.from PROVE i \in rows.counted
        OBVIOUS
      <3>1. PICK k \in 1 .. Len(order) : order[k] = i
        BY <1>2, <1>7 DEF RowsNumbered
      <3>2. k <= rows.skip
        BY <1>1, <1>2, <1>3, <1>5, <1>9, <3>1
      <3> QED BY <1>7, <3>1, <3>2
    <2> PICK to : to = Statistics!AfterStream(r, rows)
      OBVIOUS
    <2>2. reader' = [reader EXCEPT ![r] = to]
      BY <1>4, <1>9 DEF Statistics!Step
    <2>3. CASE scoring = "numeric" /\ ~rows.queried
      <3>1. to = [rows EXCEPT !.pc = "count"]
        BY <2>3 DEF Statistics!AfterStream
      <3>2. /\ to \in ReaderType /\ to.pc = "count" /\ to.skip = rows.skip /\ to.from = rows.from
            /\ to.counted = rows.counted /\ to.scored = rows.scored
        BY <1>5, <3>1 DEF ReaderType
      <3>3. ~deleted => Covers(to)
        BY <1>7, <2>1, <2>3, <3>2 DEF Covers
      <3>4. ReaderSound(to)
        BY <1>6, <2>3, <3>2, <3>3 DEF ReaderSound
      <3> QED BY <1>1, <2>2, <3>2, <3>4, ReaderGoesOn
    <2>4. CASE ~(scoring = "numeric" /\ ~rows.queried)
      <3>1. to = [rows EXCEPT !.pc = "set",
                              !.scored = IF scoring = "nominal" THEN rows.counted ELSE rows.scored]
        BY <2>4 DEF Statistics!AfterStream
      <3>2. /\ to \in ReaderType /\ to.pc = "set" /\ to.skip = rows.skip /\ to.from = rows.from
            /\ to.counted = rows.counted
            /\ to.scored = IF scoring = "nominal" THEN rows.counted ELSE rows.scored
        BY <1>5, <3>1 DEF ReaderType
      <3>3. ~deleted => Covers(to)
        BY <1>7, <2>1, <3>2 DEF Covers
      <3>4. ReaderSound(to)
        BY <1>6, <3>2, <3>3 DEF ReaderSound
      <3> QED BY <1>1, <2>2, <3>2, <3>4, ReaderGoesOn
    <2> QED BY <2>3, <2>4
  <1> QED BY <1>8, <1>9

LEMMA StatNextInv ==
  ASSUME StatInv, [Statistics!Next]_(Statistics!statVars)
  PROVE  StatInv'
  <1>1. CASE \E type \in {"nominal", "ordinal", "numeric"} : Statistics!Create(type)
    BY <1>1, StatCreateInv
  <1>2. CASE \E i \in Statistics!Ids : Statistics!InsertPending(i)
          \/ Statistics!SettleByWorker(i) \/ Statistics!Enter(i) \/ Statistics!Invalidate(i)
    BY <1>2, StatInsertPendingInv, StatSettleInv, StatEnterInv, StatInvalidateInv
  <1>3. CASE Statistics!Delete \/ Statistics!Expire
    BY <1>3, StatDeleteInv, StatExpireInv
  <1>4. ASSUME NEW r \in Readers, Statistics!Request(r) \/ Statistics!Get(r)
               \/ Statistics!Load(r) \/ Statistics!CountBeside(r)
        PROVE  StatInv'
    BY <1>4, StatRequestInv, StatGetInv, StatLoadInv, StatCountBesideInv
  <1>5. ASSUME NEW r \in Readers, Statistics!Count(r) \/ Statistics!Aggregate(r)
               \/ Statistics!Stream(r) \/ Statistics!Set(r)
        PROVE  StatInv'
    BY <1>5, StatCountInv, StatAggregateInv, StatStreamInv, StatSetInv
  <1>6. CASE UNCHANGED Statistics!statVars
    <2> USE <1>6 DEF Statistics!statVars
    <2>1. \A q \in ReaderType : ReaderSound(q)' = ReaderSound(q)
      BY DEF ReaderSound, Covers, Explained
    <2>2. ReadersSound'
      BY <2>1 DEF StatInv, ReadersSound
    <2>3. RowsNumbered' /\ EntrySound'
      BY DEF StatInv, RowsNumbered, EntrySound, Explained
    <2> QED BY <2>2, <2>3 DEF StatInv
  <1> QED BY <1>1, <1>2, <1>3, <1>4, <1>5, <1>6 DEF Statistics!Next

LEMMA StatCardinality ==
  ASSUME NEW S
  PROVE  Statistics!Cardinality(S) = Cardinality(S)
  BY DEF Statistics!Cardinality, Cardinality

LEMMA StatInvImplies ==
  ASSUME StatInv
  PROVE  Statistics!StatisticsSafety
  <1> USE StreamAssumption
  <1>1. Statistics!TypeOK
    <2>1. Statistics!ToSet(order) \subseteq Statistics!Ids /\ Statistics!IsInjective(order)
            /\ done \subseteq Statistics!ToSet(order)
      BY DEF StatInv, RowsNumbered, Statistics!ToSet, Statistics!IsInjective
    <2>2. Statistics!Cardinality(entry) <= 1
      <3>1. CASE entry = {}
        BY <3>1, FS_EmptySet, StatCardinality
      <3>2. CASE \E s \in [scored : SUBSET Statistics!Ids,
              counted : SUBSET Statistics!Ids] : entry = {s}
        BY <3>2, FS_Singleton, StatCardinality
      <3> QED BY <3>1, <3>2 DEF StatInv, EntrySound
    <2>3. \A r \in Readers :
            /\ reader[r].pc \in {"idle", "get", "load", "count", "aggregate", "stream", "set"}
            /\ reader[r].skip <= MaxScores + StreamBatch
      <3> SUFFICES ASSUME NEW r \in Readers, NEW q \in ReaderType, q = reader[r]
                   PROVE  /\ q.pc \in {"idle", "get", "load", "count", "aggregate", "stream", "set"}
                          /\ q.skip <= MaxScores + StreamBatch
        BY DEF StatInv
      <3>1. ReaderSound(q)
        BY DEF StatInv, ReadersSound
      <3> QED BY <3>1 DEF ReaderType, ReaderSound
    <2> QED BY <2>1, <2>2, <2>3 DEF StatInv, Statistics!TypeOK
  <1>2. ASSUME NEW r \in Readers, NEW q \in ReaderType, q = reader[r], q.pc = "set", ~deleted
        PROVE  /\ scoring # "numeric" => q.scored \subseteq q.counted
               /\ q.from \subseteq q.counted
    <2>1. ReaderSound(q) /\ Covers(q) /\ scoring # "none"
      BY <1>2 DEF StatInv, ReadersSound, ReaderSound
    <2>2. scoring \in {"nominal", "ordinal", "numeric"}
      BY <2>1 DEF StatInv
    <2> QED BY <1>2, <2>1, <2>2 DEF ReaderSound, Covers
  <1>3. Statistics!CountsCoverScored
    <2>1. \A s \in entry : scoring # "numeric" /\ ~deleted => s.scored \subseteq s.counted
      BY DEF StatInv, EntrySound
    <2>2. \A r \in Readers : reader[r] \in ReaderType
      BY DEF StatInv
    <2> QED BY <1>2, <2>1, <2>2 DEF Statistics!CountsCoverScored
  <1>4. Statistics!NothingSkipped
    <2>2. \A r \in Readers : reader[r] \in ReaderType
      BY DEF StatInv
    <2> QED BY <1>2, <2>2 DEF Statistics!NothingSkipped
  <1>5. Statistics!StaleIsExplained
    BY DEF StatInv, EntrySound, Statistics!StaleIsExplained, Explained
  <1> QED BY <1>1, <1>3, <1>4, <1>5 DEF Statistics!StatisticsSafety

(***************************************************************************)
(* However many requests compute statistics at once, page by page, while   *)
(* results are entered, settled and inserted among those that were read:   *)
(* what is counted covers what was scored, no row is skipped, and a result *)
(* the cache does not know was settled by the worker, is about to be       *)
(* reported, or was reported while the entry was being computed            *)
(* (EvaluationStatisticsService, the stream and the cache).                *)
(***************************************************************************)
THEOREM StatisticsAreSafe == Statistics!Spec => []StatisticsSafety
  <1>1. Statistics!Init => StatInv
    BY StatInitInv
  <1>2. StatInv /\ [Statistics!Next]_(Statistics!statVars) => StatInv'
    BY StatNextInv
  <1>3. StatInv => StatisticsSafety
    BY StatInvImplies DEF StatisticsSafety
  <1> QED BY <1>1, <1>2, <1>3, PTL DEF Statistics!Spec

-----------------------------------------------------------------------------
(***************************************************************************)
(* Annotation queues.  Between the DELETE and the save of an update the    *)
(* annotation has no answers and one request holds it; a second request    *)
(* that comes between marks it disturbed.                                  *)
(***************************************************************************)

Steps == {"idle", "exists", "saveRow", "findExisting", "saveRows", "findRow", "removeRow",
          "findQueue", "saveQueue", "saveNote", "delete", "load", "write", "removeNote"}
Answer == [note : 1 .. MaxNotes, call : 1 .. MaxQueueCalls]
Bulks  == UNION {[places -> Items] : places \in SUBSET (1 .. 2)}

QueueRequest ==
  [pc : Steps, call : 0 .. MaxQueueCalls, row : 0 .. MaxQueued, note : 0 .. MaxNotes,
   item : Items \union {"none"}, source : TraceSources \union {"none"}, bulk : Bulks,
   template : Nat, found : SUBSET Answer]

\* A request holds what its step needs, and only of what there has been.
Holds(q, n, t) ==
  /\ q \in QueueRequest
  /\ q.pc # "idle" => q.call \in 1 .. MaxQueueCalls
  /\ q.pc \in {"exists", "saveRow"} => q.item \in Items
  /\ q.pc \in {"delete", "load", "write", "removeNote"} => q.note \in 1 .. n
  /\ q.template <= t

RowsSound ==
  /\ sources \subseteq TraceSources
  /\ DOMAIN queued \subseteq 1 .. given.rows
  /\ \A q \in DOMAIN queued : queued[q] \in [item : Items, source : sources \union {"null"}]
  /\ Annotations!QueuedOnce

NotesSound ==
  /\ DOMAIN notes \subseteq 1 .. given.notes
  /\ \A n \in DOMAIN notes : notes[n] \in DOMAIN queued
  /\ Annotations!IsInjective(notes)
  /\ noteAnswers \subseteq Answer
  /\ \A a \in noteAnswers : a.note \in DOMAIN notes
  /\ accepted \in [1 .. MaxNotes -> 0 .. MaxQueueCalls]

CallsSound ==
  /\ given \in [rows : 0 .. MaxQueued, notes : 0 .. MaxNotes, templates : Nat,
       calls : 0 .. MaxQueueCalls]
  /\ template \in 0 .. given.templates
  /\ asking \in [Requests -> QueueRequest]
  /\ \A r \in Requests : Holds(asking[r], given.notes, given.templates)

\* Whoever deleted the answers of an annotation is alone between the deletion
\* and the save, and they stay deleted.
AloneMidway ==
  \A n \in 1 .. MaxNotes :
    n \notin disturbed =>
      /\ \A r, s \in Annotations!Midway(n) : r = s
      /\ Annotations!Midway(n) # {} => \A a \in noteAnswers : a.note # n

NoteInv == CallsSound /\ RowsSound /\ NotesSound /\ AloneMidway /\ Annotations!AnswersAreKept

LEMMA IdleHolds ==
  ASSUME NEW n \in Nat, NEW t \in Nat
  PROVE  Holds(Annotations!Idle, n, t)
  <1>1. <<>> \in [{} -> Items]
    OBVIOUS
  <1>2. <<>> \in Bulks
    BY <1>1 DEF Bulks
  <1> QED BY <1>2, QueueAssumption DEF Holds, QueueRequest, Annotations!Idle, Steps

LEMMA NoteInitInv == Annotations!Init => NoteInv
  <1> SUFFICES ASSUME Annotations!Init PROVE NoteInv
    OBVIOUS
  <1> USE QueueAssumption DEF Annotations!Init
  <1>1. /\ given.rows = 0 /\ given.notes = 0 /\ given.templates = 1
        /\ given \in [rows : 0 .. MaxQueued, notes : 0 .. MaxNotes, templates : Nat,
             calls : 0 .. MaxQueueCalls]
    OBVIOUS
  <1>2. Holds(Annotations!Idle, 0, 1) /\ Annotations!Idle \in QueueRequest
    BY IdleHolds DEF Holds
  <1>3. CallsSound
    BY <1>1, <1>2 DEF CallsSound
  <1>4. DOMAIN queued = {} /\ DOMAIN notes = {}
    OBVIOUS
  <1>5. RowsSound
    BY <1>1, <1>4 DEF RowsSound, Annotations!QueuedOnce
  <1>6. NotesSound
    BY <1>1, <1>4 DEF NotesSound, Annotations!IsInjective
  <1>7. AloneMidway
    BY DEF AloneMidway, Annotations!Midway, Annotations!Idle
  <1>8. Annotations!AnswersAreKept
    BY <1>4 DEF Annotations!AnswersAreKept
  <1> QED BY <1>3, <1>5, <1>6, <1>7, <1>8 DEF NoteInv

\* A step of a request that touches no row, annotation or answer, and neither
\* comes to an annotation midway nor leaves one.
LEMMA QuietStep ==
  ASSUME NoteInv, NEW r \in Requests, NEW to, Holds(to, given'.notes, given'.templates),
         Annotations!Goto(r, to),
         to.pc \in {"load", "write"} <=> asking[r].pc \in {"load", "write"},
         to.pc \in {"load", "write"} => to.note = asking[r].note,
         given' \in [rows : 0 .. MaxQueued, notes : 0 .. MaxNotes, templates : Nat,
           calls : 0 .. MaxQueueCalls],
         given'.notes = given.notes, given'.templates >= given.templates
  PROVE  /\ asking' \in [Requests -> QueueRequest]
         /\ \A s \in Requests : Holds(asking'[s], given'.notes, given'.templates)
         /\ \A n : Annotations!Midway(n)' = Annotations!Midway(n)
  <1>1. asking \in [Requests -> QueueRequest] /\ to \in QueueRequest
    BY DEF NoteInv, CallsSound, Holds
  <1>2. asking' = [asking EXCEPT ![r] = to]
    BY DEF Annotations!Goto
  <1>3. asking' \in [Requests -> QueueRequest]
    BY <1>1, <1>2
  <1>4. asking'[r] = to /\ \A s \in Requests \ {r} : asking'[s] = asking[s]
    BY <1>1, <1>2
  <1>5. \A s \in Requests : Holds(asking'[s], given'.notes, given'.templates)
    <2> SUFFICES ASSUME NEW s \in Requests PROVE Holds(asking'[s], given'.notes, given'.templates)
      OBVIOUS
    <2>1. CASE s = r
      BY <1>4, <2>1
    <2>2. CASE s # r
      <3>1. Holds(asking[s], given.notes, given.templates) /\ asking'[s] = asking[s]
        BY <1>4, <2>2 DEF NoteInv, CallsSound
      <3>2. asking[s].template \in Nat /\ given.templates \in Nat /\ given'.templates \in Nat
        BY <1>1 DEF QueueRequest, NoteInv, CallsSound
      <3> QED BY <3>1, <3>2 DEF Holds
    <2> QED BY <2>1, <2>2
  <1>6. \A n : Annotations!Midway(n)' = Annotations!Midway(n)
    BY <1>4 DEF Annotations!Midway
  <1> QED BY <1>3, <1>5, <1>6

\* Who is midway and what was accepted stay; annotations may go, with their answers.
LEMMA AnswersStay ==
  ASSUME NoteInv, NEW lost,
         \A n : Annotations!Midway(n)' = Annotations!Midway(n),
         accepted' = accepted, disturbed' = disturbed,
         DOMAIN notes' = DOMAIN notes \ lost,
         noteAnswers' = {a \in noteAnswers : a.note \notin lost}
  PROVE  AloneMidway' /\ Annotations!AnswersAreKept'
  <1>1. AloneMidway'
    BY DEF NoteInv, AloneMidway
  <1>2. Annotations!AnswersAreKept'
    <2> SUFFICES ASSUME NEW n \in DOMAIN notes', n \notin disturbed, Annotations!Midway(n)' = {}
                 PROVE  {a.call : a \in {b \in noteAnswers' : b.note = n}} = {accepted[n]}
      BY DEF Annotations!AnswersAreKept
    <2>1. n \in DOMAIN notes \ disturbed /\ n \notin lost /\ Annotations!Midway(n) = {}
      OBVIOUS
    <2>2. {a.call : a \in {b \in noteAnswers : b.note = n}} = {accepted[n]}
      BY <2>1 DEF NoteInv, Annotations!AnswersAreKept
    <2>3. {b \in noteAnswers' : b.note = n} = {b \in noteAnswers : b.note = n}
      BY <2>1
    <2> QED BY <2>2, <2>3
  <1> QED BY <1>1, <1>2

LEMMA NotesStay ==
  ASSUME NoteInv, UNCHANGED <<notes, noteAnswers, accepted, disturbed>>,
         \A n : Annotations!Midway(n)' = Annotations!Midway(n)
  PROVE  AloneMidway' /\ Annotations!AnswersAreKept'
  <1>1. PICK lost : lost = {}
    OBVIOUS
  <1>2. /\ DOMAIN notes' = DOMAIN notes \ lost
        /\ noteAnswers' = {a \in noteAnswers : a.note \notin lost}
        /\ accepted' = accepted /\ disturbed' = disturbed
    BY <1>1
  <1> QED BY <1>2, AnswersStay

\* Rows go with their annotations and the answers of these.
LEMMA DropKeeps ==
  ASSUME NoteInv, NEW gone, Annotations!DropRows(gone), sources' = sources, accepted' = accepted,
         disturbed' = disturbed, given' = given,
           \A n : Annotations!Midway(n)' = Annotations!Midway(n)
  PROVE  RowsSound' /\ NotesSound' /\ AloneMidway' /\ Annotations!AnswersAreKept'
  <1> DEFINE lost == {n \in DOMAIN notes : notes[n] \in gone}
  <1>1. /\ queued' = [q \in DOMAIN queued \ gone |-> queued[q]]
        /\ notes' = [n \in DOMAIN notes \ lost |-> notes[n]]
        /\ noteAnswers' = {a \in noteAnswers : a.note \notin lost}
    BY DEF Annotations!DropRows, Annotations!Restrict
  <1>2. RowsSound'
    BY <1>1 DEF NoteInv, RowsSound, Annotations!QueuedOnce
  <1>3. NotesSound'
    <2>1. \A n \in DOMAIN notes' : notes'[n] \in DOMAIN queued'
      BY <1>1 DEF NoteInv, NotesSound
    <2>2. Annotations!IsInjective(notes)'
      BY <1>1 DEF NoteInv, NotesSound, Annotations!IsInjective
    <2>3. \A a \in noteAnswers' : a.note \in DOMAIN notes'
      BY <1>1 DEF NoteInv, NotesSound
    <2> QED BY <1>1, <2>1, <2>2, <2>3 DEF NoteInv, NotesSound
  <1> HIDE DEF lost
  <1>4. DOMAIN notes' = DOMAIN notes \ lost
    BY <1>1
  <1>5. AloneMidway' /\ Annotations!AnswersAreKept'
    BY <1>1, <1>4, AnswersStay
  <1> QED BY <1>2, <1>3, <1>5

LEMMA RowsStay ==
  ASSUME NoteInv, UNCHANGED <<queued, notes, noteAnswers, accepted, sources>>,
         given'.rows = given.rows, given'.notes = given.notes
  PROVE  RowsSound' /\ NotesSound'
  BY DEF NoteInv, RowsSound, NotesSound, Annotations!QueuedOnce

LEMMA HighestRow ==
  ASSUME NEW last \in Nat, NEW places \in SUBSET (1 .. 2)
  PROVE  LET added == {last + i : i \in places} IN
         /\ Annotations!Max({last} \union added) \in Nat
         /\ Annotations!Max({last} \union added) >= last
         /\ \A q \in added : q > last /\ q <= Annotations!Max({last} \union added)
         /\ Annotations!Max({last} \union added) \in {last} \union added
  <1> DEFINE all == {last} \union {last + i : i \in places}
  <1>1. \E x \in all : \A y \in all : x >= y
    <2>1. CASE 2 \in places
      <3>1. last + 2 \in all /\ \A y \in all : last + 2 >= y
        BY <2>1
      <3> QED BY <3>1
    <2>2. CASE 2 \notin places /\ 1 \in places
      <3>1. last + 1 \in all /\ \A y \in all : last + 1 >= y
        BY <2>2
      <3> QED BY <3>1
    <2>3. CASE 2 \notin places /\ 1 \notin places
      <3>1. last \in all /\ \A y \in all : last >= y
        BY <2>3
      <3> QED BY <3>1
    <2> QED BY <2>1, <2>2, <2>3
  <1>2. Annotations!Max(all) \in all /\ \A y \in all : Annotations!Max(all) >= y
    BY <1>1 DEF Annotations!Max
  <1>3. PICK top : top = Annotations!Max(all)
    OBVIOUS
  <1>4. top \in all /\ \A y \in all : top >= y
    BY <1>2, <1>3
  <1>5. top \in Nat /\ top >= last /\ \A i \in places : last + i > last /\ last + i <= top
    BY <1>4
  <1>6. Annotations!Max({last} \union {last + i : i \in places}) = top
    BY <1>3
  <1> QED BY <1>4, <1>5, <1>6

\* The rows that are added are new, and not of a trace that is there.
LEMMA SaveKeepsRows ==
  ASSUME NoteInv, NEW r \in Requests, NEW places \in SUBSET (1 .. 2),
         NEW items \in [places -> Items],
         NEW at \in TraceSources \union {"none"}, Annotations!SaveRows(r, items, at)
  PROVE  /\ RowsSound' /\ NotesSound'
         /\ given' \in [rows : 0 .. MaxQueued, notes : 0 .. MaxNotes, templates : Nat,
              calls : 0 .. MaxQueueCalls]
         /\ given'.notes = given.notes /\ given'.templates = given.templates
         /\ UNCHANGED <<notes, noteAnswers, Annotations!others>>
         /\ Annotations!Goto(r, Annotations!Idle)
  <1>1. UNCHANGED <<notes, noteAnswers, Annotations!others>>
          /\ Annotations!Goto(r, Annotations!Idle)
    BY DEF Annotations!SaveRows
  <1>2. given \in [rows : 0 .. MaxQueued, notes : 0 .. MaxNotes, templates : Nat,
          calls : 0 .. MaxQueueCalls]
    BY DEF NoteInv, CallsSound
  <1> DEFINE added == {given.rows + i : i \in places}
  <1>3. added \subseteq 1 .. MaxQueued
    BY DEF Annotations!SaveRows
  <1>4. CASE UNCHANGED <<queued, given>>
    <2>1. RowsSound' /\ NotesSound'
      BY <1>1, <1>4, RowsStay DEF Annotations!others
    <2> QED BY <1>1, <1>2, <1>4, <2>1
  <1>5. CASE ~UNCHANGED <<queued, given>>
    <2>1. /\ at \in sources /\ Annotations!IsInjective(items)
          /\ \A i \in places : ~Annotations!IsDuplicate(items[i], at)
          /\ queued' = [q \in DOMAIN queued \union added |->
                          IF q \in DOMAIN queued THEN queued[q]
                          ELSE [item |-> items[q - given.rows], source |-> at]]
          /\ given' = [given EXCEPT !.rows = Annotations!Max({given.rows} \union added)]
      BY <1>5 DEF Annotations!SaveRows
    <2>2. PICK last : last = given.rows
      OBVIOUS
    <2>3. last \in Nat /\ last <= MaxQueued
      BY <1>2, <2>2, QueueAssumption
    <2>4. PICK top : top = Annotations!Max({last} \union {last + i : i \in places})
      OBVIOUS
    <2>5. /\ top \in Nat /\ top >= last /\ \A q \in added : q > last /\ q <= top
          /\ top \in {last} \union added
      BY <2>2, <2>3, <2>4, HighestRow
    <2>6. given' = [given EXCEPT !.rows = top] /\ top <= MaxQueued
      BY <1>3, <2>1, <2>2, <2>3, <2>4, <2>5, QueueAssumption
    <2>7. /\ given' \in [rows : 0 .. MaxQueued, notes : 0 .. MaxNotes, templates : Nat,
               calls : 0 .. MaxQueueCalls]
          /\ given'.notes = given.notes /\ given'.templates = given.templates /\ given'.rows = top
      BY <1>2, <2>3, <2>5, <2>6, QueueAssumption
    <2>8. DOMAIN queued \subseteq 1 .. last
      BY <2>2 DEF NoteInv, RowsSound
    <2>9. \A q \in added : q \notin DOMAIN queued /\ q \in 1 .. top
      BY <1>3, <2>3, <2>5, <2>8
    <2>10. /\ DOMAIN queued' = DOMAIN queued \union added
           /\ \A q \in DOMAIN queued : queued'[q] = queued[q]
           /\ \A q \in added : queued'[q] = [item |-> items[q - last], source |-> at]
      BY <2>1, <2>2, <2>9
    <2>11. \A q \in added : q - last \in places /\ q = last + (q - last)
      <3>1. \A i \in places : (last + i) - last = i
        BY <2>3
      <3> QED BY <2>2, <3>1
    <2>12. DOMAIN queued' \subseteq 1 .. given'.rows
      BY <2>3, <2>5, <2>7, <2>8, <2>9, <2>10
    <2>13. \A q \in DOMAIN queued' : queued'[q] \in [item : Items, source : sources \union {"null"}]
      BY <2>1, <2>10, <2>11 DEF NoteInv, RowsSound
    <2>14. Annotations!QueuedOnce'
      <3> SUFFICES ASSUME NEW p \in DOMAIN queued', NEW q \in DOMAIN queued',
                          queued'[p] = queued'[q], p # q
                   PROVE  queued'[p].source = "null"
        BY DEF Annotations!QueuedOnce
      <3>0. \A x, y : [item |-> x, source |-> at] = [item |-> y, source |-> at] => x = y
        OBVIOUS
      <3>1. CASE p \in DOMAIN queued /\ q \in DOMAIN queued
        BY <2>10, <3>1 DEF NoteInv, RowsSound, Annotations!QueuedOnce
      <3>2. ASSUME NEW o \in DOMAIN queued, NEW m \in added, queued'[o] = queued'[m]
            PROVE  queued'[o].source = "null"
        <4>1. queued[o] = [item |-> items[m - last], source |-> at] /\ queued'[o] = queued[o]
          BY <2>10, <3>2
        <4>2. ~Annotations!IsDuplicate(items[m - last], at)
          BY <2>1, <2>11
        <4>3. at = "null"
          BY <4>1, <4>2 DEF Annotations!IsDuplicate
        <4> QED BY <4>1, <4>3
      <3>3. CASE p \in added /\ q \in added
        <4>0. /\ queued'[p] = [item |-> items[p - last], source |-> at]
              /\ queued'[q] = [item |-> items[q - last], source |-> at]
          BY <2>10, <3>3
        <4>1. items[p - last] = items[q - last]
          BY <3>0, <4>0
        <4>2. p - last = q - last
          BY <2>1, <2>11, <3>3, <4>1 DEF Annotations!IsInjective
        <4> QED BY <2>11, <3>3, <4>2
      <3> QED BY <2>10, <3>1, <3>2, <3>3
    <2>15. RowsSound'
      BY <1>1, <2>12, <2>13, <2>14 DEF RowsSound, NoteInv, Annotations!others
    <2>16. NotesSound'
      BY <1>1, <2>7, <2>10 DEF NotesSound, NoteInv, Annotations!others
    <2> QED BY <1>1, <2>7, <2>15, <2>16
  <1> QED BY <1>4, <1>5

LEMMA CallsAfter ==
  ASSUME NoteInv,
         given' \in [rows : 0 .. MaxQueued, notes : 0 .. MaxNotes, templates : Nat,
           calls : 0 .. MaxQueueCalls],
         template' \in 0 .. given'.templates,
         asking' \in [Requests -> QueueRequest],
         \A s \in Requests : Holds(asking'[s], given'.notes, given'.templates)
  PROVE  CallsSound'
  BY DEF CallsSound

\* A step that only goes on to what the request does next.
LEMMA QuietKeeps ==
  ASSUME NoteInv, NEW r \in Requests, NEW to, Holds(to, given'.notes, given'.templates),
         Annotations!Goto(r, to),
         asking[r].pc \notin {"load", "write"}, to.pc \notin {"load", "write"},
         UNCHANGED <<queued, notes, noteAnswers, Annotations!others>>,
         given' \in [rows : 0 .. MaxQueued, notes : 0 .. MaxNotes, templates : Nat,
           calls : 0 .. MaxQueueCalls],
         given'.rows = given.rows, given'.notes = given.notes, given'.templates >= given.templates
  PROVE  NoteInv'
  <1>1. /\ asking' \in [Requests -> QueueRequest]
        /\ \A s \in Requests : Holds(asking'[s], given'.notes, given'.templates)
        /\ \A n : Annotations!Midway(n)' = Annotations!Midway(n)
    BY QuietStep
  <1>2. /\ UNCHANGED <<queued, notes, noteAnswers, accepted, sources>> /\ template' = template
        /\ UNCHANGED <<notes, noteAnswers, accepted, disturbed>>
    BY DEF Annotations!others
  <1>3. template' \in 0 .. given'.templates
    BY <1>2 DEF NoteInv, CallsSound
  <1>4. CallsSound'
    BY <1>1, <1>3, CallsAfter
  <1>5. RowsSound' /\ NotesSound'
    BY <1>2, RowsStay
  <1>6. AloneMidway' /\ Annotations!AnswersAreKept'
    BY <1>1, <1>2, NotesStay
  <1> QED BY <1>4, <1>5, <1>6 DEF NoteInv

\* What a call may ask.
Askable(q) ==
  /\ q \in QueueRequest /\ q.pc \notin {"load", "write"} /\ q.template = 0
  /\ q.pc \in {"exists", "saveRow"} => q.item \in Items
  /\ q.pc \in {"delete", "removeNote"} => q.note \in 1 .. given.notes

LEMMA CallKeeps ==
  ASSUME NoteInv, NEW r \in Requests, NEW request, Askable(request), Annotations!Call(r, request)
  PROVE  NoteInv'
  <1> DEFINE to == [request EXCEPT !.call = given.calls + 1]
  <1>1. given \in [rows : 0 .. MaxQueued, notes : 0 .. MaxNotes, templates : Nat,
          calls : 0 .. MaxQueueCalls]
    BY DEF NoteInv, CallsSound
  <1>2. /\ Annotations!Goto(r, to) /\ given' = [given EXCEPT !.calls = @ + 1]
        /\ given.calls < MaxQueueCalls
        /\ UNCHANGED <<queued, notes, noteAnswers, Annotations!others>> /\ asking[r].pc = "idle"
    BY DEF Annotations!Call, Annotations!At
  <1>3. given.calls + 1 \in 1 .. MaxQueueCalls
    BY <1>1, <1>2, QueueAssumption
  <1>4. /\ given' \in [rows : 0 .. MaxQueued, notes : 0 .. MaxNotes, templates : Nat,
             calls : 0 .. MaxQueueCalls]
        /\ given'.rows = given.rows /\ given'.notes = given.notes
        /\ given'.templates = given.templates
    BY <1>1, <1>2, <1>3
  <1>5. request \in QueueRequest
    BY DEF Askable
  <1>6. /\ to \in QueueRequest /\ to.call \in 1 .. MaxQueueCalls /\ to.pc = request.pc
        /\ to.item = request.item /\ to.note = request.note /\ to.template = request.template
    BY <1>3, <1>5, QueueAssumption DEF QueueRequest
  <1> HIDE DEF to
  <1>7. given.templates \in Nat /\ given'.templates >= given.templates
    BY <1>1, <1>4
  <1>8. Holds(to, given'.notes, given'.templates)
    BY <1>4, <1>6, <1>7 DEF Holds, Askable
  <1>9. to.pc \notin {"load", "write"}
    BY <1>6 DEF Askable
  <1> QED BY <1>2, <1>4, <1>7, <1>8, <1>9, QuietKeeps

LEMMA IdleIs ==
  /\ Annotations!Idle \in QueueRequest /\ Annotations!Idle.pc = "idle"
  /\ Annotations!Idle.template = 0
  /\ \A i, j \in Items : <<i, j>> \in Bulks
  <1>1. Annotations!Idle \in QueueRequest
    BY IdleHolds DEF Holds
  <1>2. \A i, j \in Items : <<i, j>> \in Bulks
    <2> SUFFICES ASSUME NEW i \in Items, NEW j \in Items PROVE <<i, j>> \in Bulks
      OBVIOUS
    <2>1. <<i, j>> \in [1 .. 2 -> Items]
      OBVIOUS
    <2> QED BY <2>1 DEF Bulks
  <1> QED BY <1>1, <1>2 DEF Annotations!Idle

LEMMA CallsKeep ==
  ASSUME NoteInv, NEW r \in Requests,
         \/ \E item \in Items, s \in sources : Annotations!AddTrace(r, item, s)
         \/ \E i, j \in Items, s \in sources : Annotations!AddTraces(r, <<i, j>>, s)
         \/ Annotations!RemoveTrace(r) \/ Annotations!Update(r)
              \/ Annotations!CreateAnnotation(r) \/ Annotations!UpdateAnnotation(r)
         \/ Annotations!RemoveAnnotation(r)
  PROVE  NoteInv'
  <1>1. /\ sources \subseteq TraceSources
        /\ \A q \in DOMAIN queued : q \in 0 .. MaxQueued
        /\ \A n \in DOMAIN notes : n \in 0 .. MaxNotes /\ n \in 1 .. given.notes
             /\ notes[n] \in 0 .. MaxQueued
    <2>1. given.rows \in 0 .. MaxQueued /\ given.notes \in 0 .. MaxNotes
      BY DEF NoteInv, CallsSound
    <2>2. /\ sources \subseteq TraceSources /\ DOMAIN queued \subseteq 1 .. given.rows
          /\ DOMAIN notes \subseteq 1 .. given.notes
          /\ \A n \in DOMAIN notes : notes[n] \in DOMAIN queued
      BY DEF NoteInv, RowsSound, NotesSound
    <2>3. \A k \in 1 .. given.rows : k \in 0 .. MaxQueued
      BY <2>1, QueueAssumption
    <2>4. \A k \in 1 .. given.notes : k \in 0 .. MaxNotes
      BY <2>1, QueueAssumption
    <2> QED BY <2>2, <2>3, <2>4
  <1>2. ASSUME NEW item \in Items, NEW s \in sources, Annotations!AddTrace(r, item, s)
        PROVE NoteInv'
    <2>1. PICK q : q = [Annotations!Idle EXCEPT !.pc = "exists", !.item = item, !.source = s]
      OBVIOUS
    <2>2. Askable(q)
      BY <1>1, <2>1, IdleIs DEF Askable, QueueRequest, Steps
    <2> QED BY <1>2, <2>1, <2>2, CallKeeps DEF Annotations!AddTrace
  <1>3. ASSUME NEW i \in Items, NEW j \in Items, NEW s \in sources,
               Annotations!AddTraces(r, <<i, j>>, s)
        PROVE  NoteInv'
    <2>1. PICK bulk : bulk = <<i, j>>
      OBVIOUS
    <2>2. PICK q : q = [Annotations!Idle EXCEPT !.pc = "findExisting", !.bulk = bulk, !.source = s]
      OBVIOUS
    <2>3. bulk \in Bulks
      BY <2>1, IdleIs
    <2>4. Askable(q)
      BY <1>1, <2>2, <2>3, IdleIs DEF Askable, QueueRequest, Steps
    <2> QED BY <1>3, <2>1, <2>2, <2>4, CallKeeps DEF Annotations!AddTraces
  <1>4. CASE Annotations!RemoveTrace(r)
    <2>1. ASSUME NEW k \in DOMAIN queued,
                 Annotations!Call(r, [Annotations!Idle EXCEPT !.pc = "findRow", !.row = k])
          PROVE  NoteInv'
      <3>1. PICK q : q = [Annotations!Idle EXCEPT !.pc = "findRow", !.row = k]
        OBVIOUS
      <3>2. Askable(q)
        BY <1>1, <3>1, IdleIs DEF Askable, QueueRequest, Steps
      <3> QED BY <2>1, <3>1, <3>2, CallKeeps
    <2>2. ASSUME NEW item \in Items,
                 Annotations!Call(r, [Annotations!Idle EXCEPT !.pc = "findRow", !.item = item])
          PROVE  NoteInv'
      <3>1. PICK q : q = [Annotations!Idle EXCEPT !.pc = "findRow", !.item = item]
        OBVIOUS
      <3>2. Askable(q)
        BY <1>1, <3>1, IdleIs DEF Askable, QueueRequest, Steps
      <3> QED BY <2>2, <3>1, <3>2, CallKeeps
    <2> QED BY <1>4, <2>1, <2>2 DEF Annotations!RemoveTrace
  <1>5. CASE Annotations!Update(r)
    <2>1. PICK q : q = [Annotations!Idle EXCEPT !.pc = "findQueue"]
      OBVIOUS
    <2>2. Askable(q)
      BY <2>1, IdleIs DEF Askable, QueueRequest, Steps
    <2> QED BY <1>5, <2>1, <2>2, CallKeeps DEF Annotations!Update
  <1>6. CASE Annotations!CreateAnnotation(r)
    <2>1. PICK k \in DOMAIN queued :
                 Annotations!Call(r, [Annotations!Idle EXCEPT !.pc = "saveNote", !.row = k])
      BY <1>6 DEF Annotations!CreateAnnotation
    <2>2. PICK q : q = [Annotations!Idle EXCEPT !.pc = "saveNote", !.row = k]
      OBVIOUS
    <2>3. Askable(q)
      BY <1>1, <2>2, IdleIs DEF Askable, QueueRequest, Steps
    <2> QED BY <2>1, <2>2, <2>3, CallKeeps
  <1>7. CASE Annotations!UpdateAnnotation(r)
    <2>1. PICK n \in DOMAIN notes :
                 Annotations!Call(r,
                   [Annotations!Idle EXCEPT !.pc = "delete", !.note = n, !.row = notes[n]])
      BY <1>7 DEF Annotations!UpdateAnnotation
    <2>2. PICK q : q = [Annotations!Idle EXCEPT !.pc = "delete", !.note = n, !.row = notes[n]]
      OBVIOUS
    <2>3. Askable(q)
      BY <1>1, <2>2, IdleIs DEF Askable, QueueRequest, Steps
    <2> QED BY <2>1, <2>2, <2>3, CallKeeps
  <1>8. CASE Annotations!RemoveAnnotation(r)
    <2>1. PICK n \in DOMAIN notes :
                 Annotations!Call(r, [Annotations!Idle EXCEPT !.pc = "removeNote", !.note = n])
      BY <1>8 DEF Annotations!RemoveAnnotation
    <2>2. PICK q : q = [Annotations!Idle EXCEPT !.pc = "removeNote", !.note = n]
      OBVIOUS
    <2>3. Askable(q)
      BY <1>1, <2>2, IdleIs DEF Askable, QueueRequest, Steps
    <2> QED BY <2>1, <2>2, <2>3, CallKeeps
  <1> QED BY <1>2, <1>3, <1>4, <1>5, <1>6, <1>7, <1>8

\* What a request holds after one field of it changed.
LEMMA GoesOn ==
  ASSUME NoteInv, NEW r \in Requests
  PROVE  /\ Holds(Annotations!Idle, given.notes, given.templates) /\ Annotations!Idle.pc = "idle"
         /\ asking[r] \in QueueRequest /\ Holds(asking[r], given.notes, given.templates)
         /\ given \in [rows : 0 .. MaxQueued, notes : 0 .. MaxNotes, templates : Nat,
              calls : 0 .. MaxQueueCalls]
         /\ given.notes \in Nat /\ given.templates \in Nat /\ given.rows \in Nat
         /\ given.rows <= MaxQueued /\ given.notes <= MaxNotes
  <1>1. given \in [rows : 0 .. MaxQueued, notes : 0 .. MaxNotes, templates : Nat,
          calls : 0 .. MaxQueueCalls]
        /\ asking[r] \in QueueRequest /\ Holds(asking[r], given.notes, given.templates)
    BY DEF NoteInv, CallsSound
  <1>2. given.notes \in Nat /\ given.templates \in Nat /\ given.rows \in Nat
        /\ given.rows <= MaxQueued /\ given.notes <= MaxNotes
    BY <1>1, QueueAssumption
  <1> QED BY <1>1, <1>2, IdleHolds DEF Annotations!Idle

LEMMA ReadsKeep ==
  ASSUME NoteInv, NEW r \in Requests, Annotations!Exists(r) \/ Annotations!FindExisting(r)
         \/ Annotations!FindRow(r) \/ Annotations!CreateTemplate(r)
  PROVE  NoteInv'
  <1> DEFINE q == asking[r]
  <1>1. /\ q \in QueueRequest /\ Holds(q, given.notes, given.templates)
        /\ given \in [rows : 0 .. MaxQueued, notes : 0 .. MaxNotes, templates : Nat,
             calls : 0 .. MaxQueueCalls]
        /\ given.templates \in Nat /\ given.templates >= given.templates
    BY GoesOn
  <1>2. UNCHANGED <<queued, notes, noteAnswers, Annotations!others>> /\ q.pc \notin {"load",
          "write"} /\ q.pc # "idle"
    BY DEF Annotations!Exists, Annotations!FindExisting, Annotations!FindRow,
           Annotations!CreateTemplate, Annotations!At
  <1>3. ASSUME Annotations!Goto(r, Annotations!Idle), given' = given PROVE NoteInv'
    <2>1. Holds(Annotations!Idle, given'.notes, given'.templates) /\ Annotations!Idle.pc = "idle"
      BY <1>3, GoesOn
    <2> QED BY <1>1, <1>2, <1>3, <2>1, QuietKeeps
  <1>4. ASSUME NEW to, Annotations!Goto(r, to), given' = given, to \in QueueRequest,
               to.call = q.call,
               to.pc \in {"saveRow", "saveRows", "removeRow"},
               to.pc = "saveRow" => q.pc = "exists" /\ to.item = q.item, to.template = q.template
        PROVE  NoteInv'
    <2>1. Holds(to, given'.notes, given'.templates)
      BY <1>1, <1>2, <1>4 DEF Holds
    <2>2. to.pc \notin {"load", "write"}
      BY <1>4
    <2> QED BY <1>1, <1>2, <1>4, <2>1, <2>2, QuietKeeps
  <1>5. CASE Annotations!Exists(r)
    <2>1. PICK to : to = [q EXCEPT !.pc = "saveRow"]
      OBVIOUS
    <2>2. to \in QueueRequest /\ to.call = q.call /\ to.pc = "saveRow" /\ to.item = q.item
          /\ to.template = q.template
      BY <1>1, <2>1 DEF QueueRequest, Steps
    <2>3. (Annotations!Goto(r, Annotations!Idle) \/ Annotations!Goto(r, to))
            /\ given' = given /\ q.pc = "exists"
      BY <1>5, <2>1 DEF Annotations!Exists, Annotations!At
    <2> QED BY <1>3, <1>4, <2>2, <2>3
  <1>6. CASE Annotations!FindExisting(r)
    <2>1. PICK kept : Annotations!Goto(r,
                 [q EXCEPT !.pc = "saveRows",
                   !.bulk = Annotations!Restrict(q.bulk,
                     {i \in DOMAIN q.bulk : q.bulk[i] \notin kept}) ])
      BY <1>6 DEF Annotations!FindExisting
    <2>2. PICK bulk : bulk = Annotations!Restrict(q.bulk,
                 {i \in DOMAIN q.bulk : q.bulk[i] \notin kept})
      OBVIOUS
    <2>3. bulk \in Bulks
      <3>1. PICK places \in SUBSET (1 .. 2) : q.bulk \in [places -> Items]
        BY <1>1 DEF QueueRequest, Bulks
      <3>2. PICK stay : stay = {i \in DOMAIN q.bulk : q.bulk[i] \notin kept}
        OBVIOUS
      <3>3. stay \in SUBSET (1 .. 2) /\ stay \subseteq places
        BY <3>1, <3>2
      <3>4. bulk = [i \in stay |-> q.bulk[i]]
        BY <2>2, <3>2 DEF Annotations!Restrict
      <3>5. bulk \in [stay -> Items]
        BY <3>1, <3>3, <3>4
      <3> QED BY <3>3, <3>5 DEF Bulks
    <2>4. PICK to : to = [q EXCEPT !.pc = "saveRows", !.bulk = bulk]
      OBVIOUS
    <2>5. to \in QueueRequest /\ to.call = q.call /\ to.pc = "saveRows" /\ to.template = q.template
      BY <1>1, <2>3, <2>4 DEF QueueRequest, Steps
    <2>6. Annotations!Goto(r, to) /\ given' = given
      BY <1>6, <2>1, <2>2, <2>4 DEF Annotations!FindExisting
    <2> QED BY <1>4, <2>5, <2>6
  <1>7. CASE Annotations!FindRow(r)
    <2>1. given' = given /\ (Annotations!Goto(r, Annotations!Idle)
            \/ \E k \in DOMAIN queued :
                 Annotations!Goto(r, [q EXCEPT !.pc = "removeRow", !.row = k]))
      BY <1>7 DEF Annotations!FindRow
    <2>2. ASSUME NEW k \in DOMAIN queued,
                 Annotations!Goto(r, [q EXCEPT !.pc = "removeRow", !.row = k])
          PROVE  NoteInv'
      <3>1. PICK to : to = [q EXCEPT !.pc = "removeRow", !.row = k]
        OBVIOUS
      <3>2. k \in 0 .. MaxQueued
        <4>1. k \in 1 .. given.rows
          BY DEF NoteInv, RowsSound
        <4> QED BY <4>1, GoesOn, QueueAssumption
      <3>3. to \in QueueRequest /\ to.call = q.call /\ to.pc = "removeRow"
              /\ to.template = q.template
        BY <1>1, <3>1, <3>2 DEF QueueRequest, Steps
      <3> QED BY <1>4, <2>1, <2>2, <3>1, <3>3
    <2> QED BY <1>3, <2>1, <2>2
  <1>8. CASE Annotations!CreateTemplate(r)
    <2>1. CASE template = 0
      <3>1. Annotations!Goto(r, Annotations!Idle) /\ given' = given
        BY <1>8, <2>1 DEF Annotations!CreateTemplate
      <3> QED BY <1>3, <3>1
    <2>2. CASE template # 0
      <3>0. PICK made : made = given.templates + 1
        OBVIOUS
      <3>1. PICK to : to = [q EXCEPT !.pc = "saveQueue", !.template = made]
        OBVIOUS
      <3>2. Annotations!Goto(r, to) /\ given' = [given EXCEPT !.templates = @ + 1]
        BY <1>8, <2>2, <3>0, <3>1 DEF Annotations!CreateTemplate
      <3>3. /\ given' \in [rows : 0 .. MaxQueued, notes : 0 .. MaxNotes, templates : Nat,
                 calls : 0 .. MaxQueueCalls]
            /\ given'.rows = given.rows /\ given'.notes = given.notes
            /\ given'.templates = given.templates + 1 /\ given'.templates >= given.templates
        BY <1>1, <3>2
      <3>4. /\ to \in QueueRequest /\ to.call = q.call /\ to.pc = "saveQueue"
            /\ to.template = made
        <4>1. made \in Nat
          BY <1>1, <3>0
        <4> QED BY <1>1, <3>1, <4>1 DEF QueueRequest, Steps
      <3>5. Holds(to, given'.notes, given'.templates)
        BY <1>1, <1>2, <3>0, <3>3, <3>4 DEF Holds
      <3>6. to.pc \notin {"load", "write"}
        BY <3>4
      <3> QED BY <1>2, <3>2, <3>3, <3>5, <3>6, QuietKeeps
    <2> QED BY <2>1, <2>2
  <1> QED BY <1>5, <1>6, <1>7, <1>8

LEMMA SavesKeep ==
  ASSUME NoteInv, NEW r \in Requests, Annotations!SaveRow(r) \/ Annotations!SaveBulk(r)
  PROVE  NoteInv'
  <1> DEFINE q == asking[r]
  <1>1. q \in QueueRequest /\ Holds(q, given.notes, given.templates)
    BY GoesOn
  <1>2. \E places \in SUBSET (1 .. 2) : \E items \in [places -> Items] :
          Annotations!SaveRows(r, items, q.source)
    <2>1. CASE Annotations!SaveRow(r)
      <3>1. q.item \in Items
        BY <1>1, <2>1 DEF Annotations!SaveRow, Annotations!At, Holds
      <3>2. <<q.item>> \in [{1} -> Items] /\ {1} \in SUBSET (1 .. 2)
        BY <3>1
      <3> QED BY <2>1, <3>2 DEF Annotations!SaveRow
    <2>2. CASE Annotations!SaveBulk(r)
      <3>1. \E places \in SUBSET (1 .. 2) : q.bulk \in [places -> Items]
        BY <1>1 DEF QueueRequest, Bulks
      <3> QED BY <2>2, <3>1 DEF Annotations!SaveBulk
    <2> QED BY <2>1, <2>2
  <1>3. PICK places \in SUBSET (1 .. 2) : \E items \in [places -> Items] :
               Annotations!SaveRows(r, items, q.source)
    BY <1>2
  <1>3a. PICK items \in [places -> Items] : Annotations!SaveRows(r, items, q.source)
    BY <1>3
  <1>4. PICK at : at = q.source
    OBVIOUS
  <1>5. at \in TraceSources \union {"none"} /\ Annotations!SaveRows(r, items, at)
    BY <1>1, <1>3a, <1>4 DEF QueueRequest
  <1>6. /\ RowsSound' /\ NotesSound'
        /\ given' \in [rows : 0 .. MaxQueued, notes : 0 .. MaxNotes, templates : Nat,
             calls : 0 .. MaxQueueCalls]
        /\ given'.notes = given.notes /\ given'.templates = given.templates
        /\ UNCHANGED <<notes, noteAnswers, Annotations!others>>
        /\ Annotations!Goto(r, Annotations!Idle)
    BY <1>5, SaveKeepsRows
  <1>7. asking[r].pc \notin {"load", "write"}
    BY DEF Annotations!SaveRow, Annotations!SaveBulk, Annotations!At
  <1>8. Holds(Annotations!Idle, given'.notes, given'.templates)
          /\ Annotations!Idle.pc = "idle" /\ given'.templates >= given.templates
    BY <1>6, GoesOn
  <1>9. /\ asking' \in [Requests -> QueueRequest]
        /\ \A s \in Requests : Holds(asking'[s], given'.notes, given'.templates)
        /\ \A n : Annotations!Midway(n)' = Annotations!Midway(n)
    BY <1>6, <1>7, <1>8, QuietStep
  <1>10. /\ template' \in 0 .. given'.templates
         /\ UNCHANGED <<notes, noteAnswers, accepted, disturbed>>
    BY <1>6 DEF Annotations!others, NoteInv, CallsSound
  <1>11. CallsSound'
    BY <1>6, <1>9, <1>10, CallsAfter
  <1>12. AloneMidway' /\ Annotations!AnswersAreKept'
    BY <1>9, <1>10, NotesStay
  <1> QED BY <1>6, <1>11, <1>12 DEF NoteInv

\* A request is done: it was not midway.
LEMMA DoneStep ==
  ASSUME NoteInv, NEW r \in Requests, Annotations!Goto(r, Annotations!Idle),
         asking[r].pc \notin {"load", "write"}, given' = given,
         template' \in 0 .. given.templates
  PROVE  CallsSound' /\ \A n : Annotations!Midway(n)' = Annotations!Midway(n)
  <1>1. /\ Holds(Annotations!Idle, given'.notes, given'.templates) /\ Annotations!Idle.pc = "idle"
        /\ given' \in [rows : 0 .. MaxQueued, notes : 0 .. MaxNotes, templates : Nat,
             calls : 0 .. MaxQueueCalls]
        /\ given'.templates >= given.templates
    BY GoesOn
  <1>2. /\ asking' \in [Requests -> QueueRequest]
        /\ \A s \in Requests : Holds(asking'[s], given'.notes, given'.templates)
        /\ \A n : Annotations!Midway(n)' = Annotations!Midway(n)
    BY <1>1, QuietStep
  <1> QED BY <1>1, <1>2, CallsAfter

LEMMA RemovalsKeep ==
  ASSUME NoteInv, NEW r \in Requests, Annotations!RemoveRow(r) \/ Annotations!RemoveNote(r)
         \/ Annotations!SaveQueue(r)
  PROVE  NoteInv'
  <1>1. template \in 0 .. given.templates
    BY DEF NoteInv, CallsSound
  <1>2. CASE Annotations!RemoveRow(r)
    <2>1. /\ Annotations!DropRows({asking[r].row}) /\ Annotations!Goto(r, Annotations!Idle)
          /\ given' = given
          /\ sources' = sources /\ accepted' = accepted /\ disturbed' = disturbed
          /\ template' = template /\ asking[r].pc = "removeRow"
      BY <1>2 DEF Annotations!RemoveRow, Annotations!At, Annotations!others
    <2>2. CallsSound' /\ \A n : Annotations!Midway(n)' = Annotations!Midway(n)
      BY <1>1, <2>1, DoneStep
    <2>3. RowsSound' /\ NotesSound' /\ AloneMidway' /\ Annotations!AnswersAreKept'
      BY <2>1, <2>2, DropKeeps
    <2> QED BY <2>2, <2>3 DEF NoteInv
  <1>3. CASE Annotations!RemoveNote(r)
    <2>1. PICK lost : lost = {asking[r].note}
      OBVIOUS
    <2>2. /\ notes' = [n \in DOMAIN notes \ lost |-> notes[n]]
          /\ noteAnswers' = {a \in noteAnswers : a.note \notin lost}
          /\ Annotations!Goto(r, Annotations!Idle) /\ given' = given /\ queued' = queued
          /\ sources' = sources /\ accepted' = accepted /\ disturbed' = disturbed
          /\ template' = template /\ asking[r].pc = "removeNote"
      BY <1>3, <2>1 DEF Annotations!RemoveNote, Annotations!At, Annotations!others,
                        Annotations!Restrict
    <2>3. CallsSound' /\ \A n : Annotations!Midway(n)' = Annotations!Midway(n)
      BY <1>1, <2>2, DoneStep
    <2>4. RowsSound'
      BY <2>2 DEF NoteInv, RowsSound, Annotations!QueuedOnce
    <2>5. NotesSound'
      BY <2>2 DEF NoteInv, NotesSound, Annotations!IsInjective
    <2>6. DOMAIN notes' = DOMAIN notes \ lost
      BY <2>2
    <2>7. AloneMidway' /\ Annotations!AnswersAreKept'
      BY <2>2, <2>3, <2>6, AnswersStay
    <2> QED BY <2>3, <2>4, <2>5, <2>7 DEF NoteInv
  <1>4. CASE Annotations!SaveQueue(r)
    <2>1. /\ template' = asking[r].template /\ Annotations!Goto(r, Annotations!Idle)
          /\ asking[r].pc = "saveQueue"
          /\ UNCHANGED <<queued, notes, noteAnswers, sources, given, accepted, disturbed>>
      BY <1>4 DEF Annotations!SaveQueue, Annotations!At
    <2>2. template' \in 0 .. given.templates
      <3>1. asking[r].template \in Nat /\ asking[r].template <= given.templates
              /\ given.templates \in Nat
        BY GoesOn DEF QueueRequest, Holds
      <3> QED BY <2>1, <3>1
    <2>3. CallsSound' /\ \A n : Annotations!Midway(n)' = Annotations!Midway(n)
      BY <2>1, <2>2, DoneStep
    <2>4. RowsSound' /\ NotesSound'
      BY <2>1, RowsStay
    <2>5. AloneMidway' /\ Annotations!AnswersAreKept'
      BY <2>1, <2>3, NotesStay
    <2> QED BY <2>3, <2>4, <2>5 DEF NoteInv
  <1> QED BY <1>2, <1>3, <1>4

LEMMA OutsideKeep ==
  ASSUME NoteInv, Annotations!RemoveQueue \/ \E s \in TraceSources : Annotations!DeleteSource(s)
  PROVE  NoteInv'
  <1>1. asking' = asking /\ given' = given /\ accepted' = accepted /\ disturbed' = disturbed
    BY DEF Annotations!RemoveQueue, Annotations!DeleteSource
  <1>2. \A n : Annotations!Midway(n)' = Annotations!Midway(n)
    BY <1>1 DEF Annotations!Midway
  <1>3. CASE Annotations!RemoveQueue
    <2>1. Annotations!DropRows(DOMAIN queued) /\ sources' = sources /\ template' = 0
      BY <1>3 DEF Annotations!RemoveQueue
    <2>2. CallsSound'
      <3>1. 0 \in 0 .. given.templates
        BY DEF NoteInv, CallsSound
      <3> QED BY <1>1, <2>1, <3>1 DEF NoteInv, CallsSound
    <2>3. PICK gone : gone = DOMAIN queued
      OBVIOUS
    <2>4. RowsSound' /\ NotesSound' /\ AloneMidway' /\ Annotations!AnswersAreKept'
      BY <1>1, <1>2, <2>1, <2>3, DropKeeps
    <2> QED BY <2>2, <2>4 DEF NoteInv
  <1>4. ASSUME NEW s \in TraceSources, Annotations!DeleteSource(s) PROVE NoteInv'
    <2>1. /\ sources' = sources \ {s}
          /\ queued' = [q \in DOMAIN queued |->
                          IF queued[q].source = s THEN [queued[q] EXCEPT !.source = "null"]
                          ELSE queued[q]]
          /\ UNCHANGED <<notes, noteAnswers, accepted, disturbed>> /\ template' = template
      BY <1>4 DEF Annotations!DeleteSource
    <2>2. CallsSound'
      BY <1>1, <2>1 DEF NoteInv, CallsSound
    <2>3. \A q \in DOMAIN queued : queued[q] \in [item : Items, source : sources \union {"null"}]
      BY DEF NoteInv, RowsSound
    <2>4. /\ DOMAIN queued' = DOMAIN queued
          /\ \A q \in DOMAIN queued :
               /\ queued'[q] \in [item : Items, source : sources' \union {"null"}]
               /\ queued'[q].source = "null" \/ queued'[q] = queued[q]
      BY <2>1, <2>3
    <2>5. RowsSound'
      BY <1>1, <2>1, <2>4 DEF NoteInv, RowsSound, Annotations!QueuedOnce
    <2>6. NotesSound'
      BY <1>1, <2>1, <2>4 DEF NoteInv, NotesSound
    <2>7. AloneMidway' /\ Annotations!AnswersAreKept'
      BY <1>2, <2>1, NotesStay
    <2> QED BY <2>2, <2>5, <2>6, <2>7 DEF NoteInv
  <1> QED BY <1>3, <1>4

\* A new annotation is nobody's, and has the answers of its call.
LEMMA SaveAnnotationKeeps ==
  ASSUME NoteInv, NEW r \in Requests, Annotations!SaveAnnotation(r)
  PROVE  NoteInv'
  <1> DEFINE q == asking[r]
  <1>1. /\ q \in QueueRequest /\ Holds(q, given.notes, given.templates)
        /\ given \in [rows : 0 .. MaxQueued, notes : 0 .. MaxNotes, templates : Nat,
             calls : 0 .. MaxQueueCalls]
        /\ given.notes \in Nat /\ given.templates \in Nat
        /\ Holds(Annotations!Idle, given.notes, given.templates) /\ Annotations!Idle.pc = "idle"
    BY GoesOn
  <1>2. /\ q.pc = "saveNote" /\ Annotations!Goto(r, Annotations!Idle) /\ UNCHANGED <<queued,
                                                                                     template,
                                                                                       sources,
                                                                                         disturbed>>
        /\ given.notes + 1 <= MaxNotes
    BY DEF Annotations!SaveAnnotation, Annotations!At
  <1>3. q.call \in 1 .. MaxQueueCalls
    BY <1>1, <1>2 DEF Holds
  <1>4. CASE UNCHANGED <<notes, noteAnswers, accepted, given>>
    <2>1. UNCHANGED <<queued, notes, noteAnswers, Annotations!others>>
            /\ given.templates >= given.templates
      BY <1>1, <1>2, <1>4 DEF Annotations!others
    <2> QED BY <1>1, <1>2, <1>4, <2>1, QuietKeeps
  <1>5. CASE ~UNCHANGED <<notes, noteAnswers, accepted, given>>
    <2>1. PICK n : n = given.notes + 1
      OBVIOUS
    <2>2. /\ q.row \in DOMAIN queued /\ \A m \in DOMAIN notes : notes[m] # q.row
          /\ notes' = [m \in DOMAIN notes \union {n} |-> IF m = n THEN q.row ELSE notes[m]]
          /\ noteAnswers' = noteAnswers \union {[note |-> n, call |-> q.call]}
          /\ accepted' = [accepted EXCEPT ![n] = q.call]
          /\ given' = [given EXCEPT !.notes = n]
      BY <1>5, <2>1 DEF Annotations!SaveAnnotation, Annotations!Range
    <2>3. /\ n \in Nat /\ n \in 1 .. MaxNotes /\ n > given.notes
          /\ \A m \in DOMAIN notes : m # n
          /\ \A m \in 1 .. given.notes : m \in 1 .. n /\ m # n
      BY <1>1, <1>2, <2>1, QueueAssumption DEF NoteInv, NotesSound
    <2>4. /\ given' \in [rows : 0 .. MaxQueued, notes : 0 .. MaxNotes, templates : Nat,
               calls : 0 .. MaxQueueCalls]
          /\ given'.notes = n /\ given'.templates = given.templates /\ given'.rows = given.rows
      BY <1>1, <2>2, <2>3
    <2>5. asking \in [Requests -> QueueRequest] /\ asking' = [asking EXCEPT ![r] = Annotations!Idle]
          /\ Annotations!Idle \in QueueRequest
      BY <1>1, <1>2 DEF NoteInv, CallsSound, Annotations!Goto, Holds
    <2>6. /\ asking' \in [Requests -> QueueRequest] /\ asking'[r] = Annotations!Idle
          /\ \A s \in Requests \ {r} : asking'[s] = asking[s]
      BY <2>5
    <2>7. \A s \in Requests : Holds(asking'[s], n, given.templates)
      <3> SUFFICES ASSUME NEW s \in Requests PROVE Holds(asking'[s], n, given.templates)
        OBVIOUS
      <3>1. CASE s = r
        BY <1>1, <2>3, <2>6, <3>1 DEF Holds
      <3>2. CASE s # r
        <4>1. Holds(asking[s], given.notes, given.templates) /\ asking'[s] = asking[s]
          BY <2>6, <3>2 DEF NoteInv, CallsSound
        <4> QED BY <2>3, <4>1 DEF Holds
      <3> QED BY <3>1, <3>2
    <2>8. CallsSound'
      <3>1. template' \in 0 .. given'.templates
        BY <1>2, <2>4 DEF NoteInv, CallsSound
      <3> QED BY <2>4, <2>6, <2>7, <3>1 DEF CallsSound
    <2>9. RowsSound'
      BY <1>2, <2>4 DEF NoteInv, RowsSound, Annotations!QueuedOnce
    <2>10. DOMAIN notes' = DOMAIN notes \union {n} /\ notes'[n] = q.row
           /\ \A m \in DOMAIN notes : notes'[m] = notes[m]
      BY <2>2, <2>3
    <2>11. NotesSound'
      <3>1. DOMAIN notes' \subseteq 1 .. given'.notes
        BY <2>3, <2>4, <2>10 DEF NoteInv, NotesSound
      <3>2. \A m \in DOMAIN notes' : notes'[m] \in DOMAIN queued'
        BY <1>2, <2>2, <2>10 DEF NoteInv, NotesSound
      <3>3. Annotations!IsInjective(notes)'
        BY <2>2, <2>10 DEF NoteInv, NotesSound, Annotations!IsInjective
      <3>4. noteAnswers' \subseteq Answer /\ \A a \in noteAnswers' : a.note \in DOMAIN notes'
        BY <1>3, <2>2, <2>3, <2>10 DEF NoteInv, NotesSound, Answer
      <3>5. accepted' \in [1 .. MaxNotes -> 0 .. MaxQueueCalls]
        <4>1. PICK c : c = q.call
          OBVIOUS
        <4>2. c \in 0 .. MaxQueueCalls /\ accepted' = [accepted EXCEPT ![n] = c]
          BY <1>3, <2>2, <4>1, QueueAssumption
        <4> QED BY <4>2 DEF NoteInv, NotesSound
      <3> QED BY <3>1, <3>2, <3>3, <3>4, <3>5 DEF NotesSound
    <2>12. \A m : Annotations!Midway(m)' = Annotations!Midway(m)
      BY <1>1, <1>2, <2>6 DEF Annotations!Midway
    <2>13. Annotations!Midway(n) = {}
      <3>1. \A s \in Requests : asking[s].pc \in {"load",
              "write"} => asking[s].note \in 1 .. given.notes
        BY DEF NoteInv, CallsSound, Holds
      <3> QED BY <2>3, <3>1 DEF Annotations!Midway
    <2>14. \A a \in noteAnswers : a.note # n
      BY <2>3 DEF NoteInv, NotesSound
    <2>15. AloneMidway'
      BY <1>2, <2>2, <2>12, <2>13 DEF NoteInv, AloneMidway
    <2>16. Annotations!AnswersAreKept'
      <3> SUFFICES ASSUME NEW m \in DOMAIN notes', m \notin disturbed, Annotations!Midway(m)' = {}
                   PROVE  {a.call : a \in {b \in noteAnswers' : b.note = m}} = {accepted'[m]}
        BY <1>2 DEF Annotations!AnswersAreKept
      <3>0. accepted \in [1 .. MaxNotes -> 0 .. MaxQueueCalls]
        BY DEF NoteInv, NotesSound
      <3>1. CASE m = n
        <4>0. PICK added : added = [note |-> n, call |-> q.call]
          OBVIOUS
        <4>1. {b \in noteAnswers' : b.note = m} = {added}
          BY <2>2, <2>14, <3>1, <4>0
        <4>2. accepted'[m] = added.call
          BY <2>2, <2>3, <3>0, <3>1, <4>0
        <4>3. {a.call : a \in {added}} = {added.call}
          OBVIOUS
        <4> QED BY <4>1, <4>2, <4>3
      <3>2. CASE m # n
        <4>1. m \in DOMAIN notes /\ Annotations!Midway(m) = {}
          BY <2>10, <2>12, <3>2
        <4>2. {b \in noteAnswers' : b.note = m} = {b \in noteAnswers : b.note = m}
          BY <2>2, <3>2
        <4>3. accepted'[m] = accepted[m]
          BY <2>2, <3>0, <3>2
        <4>4. {a.call : a \in {b \in noteAnswers : b.note = m}} = {accepted[m]}
          BY <4>1 DEF NoteInv, Annotations!AnswersAreKept
        <4> QED BY <4>2, <4>3, <4>4
      <3> QED BY <3>1, <3>2
    <2> QED BY <2>8, <2>9, <2>11, <2>15, <2>16 DEF NoteInv
  <1> QED BY <1>4, <1>5

\* The steps of an update of answers.
LEMMA MidwayStep ==
  ASSUME NoteInv, NEW r \in Requests, NEW to \in QueueRequest, Annotations!Goto(r, to),
         given' = given, template' = template,
         Holds(to, given.notes, given.templates)
  PROVE  /\ CallsSound'
         /\ asking'[r] = to /\ \A s \in Requests \ {r} : asking'[s] = asking[s]
  <1>1. asking \in [Requests -> QueueRequest] /\ asking' = [asking EXCEPT ![r] = to]
    BY DEF NoteInv, CallsSound, Annotations!Goto
  <1>2. /\ asking' \in [Requests -> QueueRequest]
        /\ asking'[r] = to /\ \A s \in Requests \ {r} : asking'[s] = asking[s]
    BY <1>1
  <1>3. \A s \in Requests : Holds(asking'[s], given.notes, given.templates)
    BY <1>2 DEF NoteInv, CallsSound
  <1> QED BY <1>2, <1>3 DEF NoteInv, CallsSound

LEMMA DeleteAnswersKeeps ==
  ASSUME NoteInv, NEW r \in Requests, Annotations!DeleteAnswers(r)
  PROVE  NoteInv'
  <1>1. PICK q, n : q = asking[r] /\ n = asking[r].note
    OBVIOUS
  <1>2. q \in QueueRequest /\ Holds(q, given.notes, given.templates) /\ given.notes <= MaxNotes
        /\ given.notes \in Nat
    BY <1>1, GoesOn
  <1>3. /\ noteAnswers' = {a \in noteAnswers : a.note # n}
        /\ disturbed' = IF Annotations!Midway(n) = {} THEN disturbed ELSE disturbed \union {n}
        /\ Annotations!Goto(r, [q EXCEPT !.pc = "load"]) /\ q.pc = "delete" /\ q.note = n
        /\ UNCHANGED <<queued, notes, template, sources, given, accepted>>
    BY <1>1 DEF Annotations!DeleteAnswers, Annotations!At
  <1>4. PICK to : to = [q EXCEPT !.pc = "load"]
    OBVIOUS
  <1>5. /\ to \in QueueRequest /\ to.pc = "load" /\ to.note = n /\ to.call = q.call
        /\ to.template = q.template
    BY <1>2, <1>3, <1>4 DEF QueueRequest, Steps
  <1>6. n \in 1 .. given.notes /\ n \in 1 .. MaxNotes
    BY <1>2, <1>3, QueueAssumption DEF Holds
  <1>7. Holds(to, given.notes, given.templates)
    BY <1>2, <1>3, <1>5, <1>6 DEF Holds
  <1>8. /\ CallsSound'
        /\ asking'[r] = to /\ \A s \in Requests \ {r} : asking'[s] = asking[s]
    BY <1>3, <1>4, <1>5, <1>7, MidwayStep
  <1>9. RowsSound'
    BY <1>3 DEF NoteInv, RowsSound, Annotations!QueuedOnce
  <1>10. NotesSound'
    BY <1>3 DEF NoteInv, NotesSound
  <1>11. Annotations!Midway(n)' = Annotations!Midway(n) \union {r}
           /\ \A m : m # n => Annotations!Midway(m)' = Annotations!Midway(m)
    BY <1>1, <1>3, <1>5, <1>8 DEF Annotations!Midway
  <1>12. AloneMidway'
    BY <1>3, <1>11 DEF NoteInv, AloneMidway
  <1>13. Annotations!AnswersAreKept'
    <2> SUFFICES ASSUME NEW m \in DOMAIN notes, m \notin disturbed', Annotations!Midway(m)' = {}
                 PROVE  {a.call : a \in {b \in noteAnswers' : b.note = m}} = {accepted[m]}
      BY <1>3 DEF Annotations!AnswersAreKept
    <2>1. m # n /\ Annotations!Midway(m) = {} /\ m \notin disturbed
      BY <1>3, <1>11
    <2>2. {b \in noteAnswers' : b.note = m} = {b \in noteAnswers : b.note = m}
      BY <1>3, <2>1
    <2>3. {a.call : a \in {b \in noteAnswers : b.note = m}} = {accepted[m]}
      BY <2>1 DEF NoteInv, Annotations!AnswersAreKept
    <2> QED BY <2>2, <2>3
  <1> QED BY <1>8, <1>9, <1>10, <1>12, <1>13 DEF NoteInv

LEMMA LoadAnswersKeeps ==
  ASSUME NoteInv, NEW r \in Requests, Annotations!LoadAnswers(r)
  PROVE  NoteInv'
  <1>1. PICK q, found : q = asking[r] /\ found = {a \in noteAnswers : a.note = q.note}
    OBVIOUS
  <1>2. q \in QueueRequest /\ Holds(q, given.notes, given.templates)
    BY <1>1, GoesOn
  <1>3. /\ Annotations!Goto(r, [q EXCEPT !.pc = "write", !.found = found]) /\ q.pc = "load"
        /\ UNCHANGED <<queued, notes, noteAnswers, given, accepted, disturbed, sources>>
        /\ template' = template
    BY <1>1 DEF Annotations!LoadAnswers, Annotations!At, Annotations!others
  <1>4. PICK to : to = [q EXCEPT !.pc = "write", !.found = found]
    OBVIOUS
  <1>5. found \in SUBSET Answer
    BY <1>1 DEF NoteInv, NotesSound
  <1>6. /\ to \in QueueRequest /\ to.pc = "write" /\ to.note = q.note /\ to.call = q.call
        /\ to.template = q.template
    BY <1>2, <1>4, <1>5 DEF QueueRequest, Steps
  <1>7. Holds(to, given.notes, given.templates)
    BY <1>2, <1>3, <1>6 DEF Holds
  <1>8. /\ CallsSound'
        /\ asking'[r] = to /\ \A s \in Requests \ {r} : asking'[s] = asking[s]
    BY <1>3, <1>4, <1>6, <1>7, MidwayStep
  <1>9. \A n : Annotations!Midway(n)' = Annotations!Midway(n)
    BY <1>1, <1>3, <1>6, <1>8 DEF Annotations!Midway
  <1>10. RowsSound' /\ NotesSound'
    BY <1>3, RowsStay
  <1>11. AloneMidway' /\ Annotations!AnswersAreKept'
    BY <1>3, <1>9, NotesStay
  <1> QED BY <1>8, <1>10, <1>11 DEF NoteInv

LEMMA WriteAnswersKeeps ==
  ASSUME NoteInv, NEW r \in Requests, Annotations!WriteAnswers(r)
  PROVE  NoteInv'
  <1>1. PICK q, n, c : q = asking[r] /\ n = asking[r].note /\ c = asking[r].call
    OBVIOUS
  <1>2. /\ q \in QueueRequest /\ Holds(q, given.notes, given.templates) /\ given.notes <= MaxNotes
        /\ given.notes \in Nat /\ Annotations!Idle \in QueueRequest
        /\ Holds(Annotations!Idle, given.notes, given.templates)
        /\ Annotations!Idle.pc = "idle"
    BY <1>1, GoesOn DEF Holds
  <1>3. /\ q.pc = "write" /\ q.note = n /\ q.call = c /\ Annotations!Goto(r, Annotations!Idle)
        /\ UNCHANGED <<queued, template, sources, given>>
    BY <1>1 DEF Annotations!WriteAnswers, Annotations!At
  <1>4. n \in 1 .. given.notes /\ n \in 1 .. MaxNotes /\ c \in 1 .. MaxQueueCalls
          /\ c \in 0 .. MaxQueueCalls
    BY <1>2, <1>3, QueueAssumption DEF Holds
  <1>5. /\ CallsSound'
        /\ asking'[r] = Annotations!Idle /\ \A s \in Requests \ {r} : asking'[s] = asking[s]
    BY <1>2, <1>3, MidwayStep
  <1>6. RowsSound'
    BY <1>3 DEF NoteInv, RowsSound, Annotations!QueuedOnce
  <1>7. Annotations!Midway(n)' = Annotations!Midway(n) \ {r} /\ r \in Annotations!Midway(n)
          /\ \A m : m # n => Annotations!Midway(m)' = Annotations!Midway(m)
    BY <1>1, <1>2, <1>3, <1>5 DEF Annotations!Midway
  <1>8. CASE disturbed' = disturbed \union {n} /\ UNCHANGED <<notes, noteAnswers, accepted>>
    <2>1. NotesSound'
      BY <1>3, <1>8 DEF NoteInv, NotesSound
    <2>2. AloneMidway'
      BY <1>7, <1>8 DEF NoteInv, AloneMidway
    <2>3. Annotations!AnswersAreKept'
      BY <1>7, <1>8 DEF NoteInv, Annotations!AnswersAreKept
    <2> QED BY <1>5, <1>6, <2>1, <2>2, <2>3 DEF NoteInv
  <1>9. CASE ~(disturbed' = disturbed \union {n} /\ UNCHANGED <<notes, noteAnswers, accepted>>)
    <2>1. PICK added : added = [note |-> n, call |-> c]
      OBVIOUS
    <2>2. /\ q.row \in DOMAIN queued
          /\ \A m \in DOMAIN notes \ {n} : notes[m] # q.row
          /\ notes' = [m \in DOMAIN notes \union {n} |-> IF m = n THEN q.row ELSE notes[m]]
          /\ noteAnswers' = noteAnswers \union {added}
          /\ accepted' = [accepted EXCEPT ![n] = c]
          /\ disturbed' = disturbed
      BY <1>1, <1>9, <2>1 DEF Annotations!WriteAnswers
    <2>3. added.note = n /\ added.call = c /\ added \in Answer
      BY <1>4, <2>1 DEF Answer
    <2>4. NotesSound'
      <3>1. DOMAIN notes' \subseteq 1 .. given'.notes
        BY <1>3, <1>4, <2>2 DEF NoteInv, NotesSound
      <3>2. \A m \in DOMAIN notes' : notes'[m] \in DOMAIN queued'
        BY <1>3, <2>2 DEF NoteInv, NotesSound
      <3>3. Annotations!IsInjective(notes)'
        BY <2>2 DEF NoteInv, NotesSound, Annotations!IsInjective
      <3>4. noteAnswers' \subseteq Answer /\ \A a \in noteAnswers' : a.note \in DOMAIN notes'
        BY <2>2, <2>3 DEF NoteInv, NotesSound
      <3>5. accepted' \in [1 .. MaxNotes -> 0 .. MaxQueueCalls]
        BY <1>4, <2>2 DEF NoteInv, NotesSound
      <3> QED BY <3>1, <3>2, <3>3, <3>4, <3>5 DEF NotesSound
    <2>5. n \notin disturbed => Annotations!Midway(n) = {r} /\ \A a \in noteAnswers : a.note # n
      BY <1>4, <1>7 DEF NoteInv, AloneMidway
    <2>6. AloneMidway'
      <3> SUFFICES ASSUME NEW m \in 1 .. MaxNotes, m \notin disturbed
                   PROVE  /\ \A s, t \in Annotations!Midway(m)' : s = t
                          /\ Annotations!Midway(m)' # {} => \A a \in noteAnswers' : a.note # m
        BY <2>2 DEF AloneMidway
      <3>1. CASE m = n
        BY <1>7, <2>5, <3>1
      <3>2. CASE m # n
        BY <1>7, <2>2, <2>3, <3>2 DEF NoteInv, AloneMidway
      <3> QED BY <3>1, <3>2
    <2>7. Annotations!AnswersAreKept'
      <3> SUFFICES ASSUME NEW m \in DOMAIN notes', m \notin disturbed, Annotations!Midway(m)' = {}
                   PROVE  {a.call : a \in {b \in noteAnswers' : b.note = m}} = {accepted'[m]}
        BY <2>2 DEF Annotations!AnswersAreKept
      <3>0. accepted \in [1 .. MaxNotes -> 0 .. MaxQueueCalls]
        BY DEF NoteInv, NotesSound
      <3>1. CASE m = n
        <4>1. {b \in noteAnswers' : b.note = m} = {added}
          BY <2>2, <2>3, <2>5, <3>1
        <4>2. accepted'[m] = added.call
          BY <1>4, <2>2, <2>3, <3>0, <3>1
        <4>3. {a.call : a \in {added}} = {added.call}
          OBVIOUS
        <4> QED BY <4>1, <4>2, <4>3
      <3>2. CASE m # n
        <4>1. m \in DOMAIN notes /\ Annotations!Midway(m) = {}
          BY <1>7, <2>2, <3>2
        <4>2. {b \in noteAnswers' : b.note = m} = {b \in noteAnswers : b.note = m}
          BY <2>2, <2>3, <3>2
        <4>3. accepted'[m] = accepted[m]
          BY <2>2, <3>0, <3>2
        <4>4. {a.call : a \in {b \in noteAnswers : b.note = m}} = {accepted[m]}
          BY <4>1 DEF NoteInv, Annotations!AnswersAreKept
        <4> QED BY <4>2, <4>3, <4>4
      <3> QED BY <3>1, <3>2
    <2> QED BY <1>5, <1>6, <2>4, <2>6, <2>7 DEF NoteInv
  <1> QED BY <1>8, <1>9

LEMMA NoteNextInv == NoteInv /\ [Annotations!Next]_(Annotations!annotationVars) => NoteInv'
  <1> SUFFICES ASSUME NoteInv, [Annotations!Next]_(Annotations!annotationVars) PROVE NoteInv'
    OBVIOUS
  <1>1. ASSUME UNCHANGED Annotations!annotationVars PROVE NoteInv'
    <2>1. UNCHANGED <<queued, notes, noteAnswers, template, sources, given, asking, accepted,
                      disturbed>>
      BY <1>1 DEF Annotations!annotationVars
    <2>2. \A n : Annotations!Midway(n)' = Annotations!Midway(n)
      BY <2>1 DEF Annotations!Midway
    <2>3. CallsSound'
      BY <2>1 DEF NoteInv, CallsSound
    <2>4. RowsSound' /\ NotesSound'
      BY <2>1, RowsStay
    <2>5. AloneMidway' /\ Annotations!AnswersAreKept'
      BY <2>1, <2>2, NotesStay
    <2> QED BY <2>3, <2>4, <2>5 DEF NoteInv
  <1>2. ASSUME NEW r \in Requests,
               \/ \E item \in Items, s \in sources : Annotations!AddTrace(r, item, s)
               \/ \E i, j \in Items, s \in sources : Annotations!AddTraces(r, <<i, j>>, s)
               \/ Annotations!Exists(r) \/ Annotations!SaveRow(r)
                    \/ Annotations!FindExisting(r) \/ Annotations!SaveBulk(r)
               \/ Annotations!RemoveTrace(r) \/ Annotations!FindRow(r) \/ Annotations!RemoveRow(r)
               \/ Annotations!Update(r) \/ Annotations!CreateTemplate(r) \/ Annotations!SaveQueue(r)
               \/ Annotations!CreateAnnotation(r) \/ Annotations!SaveAnnotation(r)
               \/ Annotations!UpdateAnnotation(r) \/ Annotations!DeleteAnswers(r)
                    \/ Annotations!LoadAnswers(r) \/ Annotations!WriteAnswers(r)
               \/ Annotations!RemoveAnnotation(r) \/ Annotations!RemoveNote(r)
        PROVE  NoteInv'
    BY <1>2, CallsKeep, ReadsKeep, SavesKeep, RemovalsKeep, SaveAnnotationKeeps, DeleteAnswersKeeps,
       LoadAnswersKeeps, WriteAnswersKeeps, Zenon
  <1> QED BY <1>1, <1>2, OutsideKeep, Zenon DEF Annotations!Next

LEMMA NoteInvImplies == NoteInv => Annotations!AnnotationSafety
  <1> SUFFICES ASSUME NoteInv PROVE Annotations!AnnotationSafety
    OBVIOUS
  <1>1. given.rows \in 0 .. MaxQueued /\ given.notes \in 0 .. MaxNotes
    BY DEF NoteInv, CallsSound
  <1>2. DOMAIN queued \subseteq 1 .. MaxQueued /\ DOMAIN notes \subseteq 1 .. MaxNotes
    BY <1>1, QueueAssumption DEF NoteInv, RowsSound, NotesSound
  <1>3. Annotations!TypeOK
    BY <1>2 DEF Annotations!TypeOK, NoteInv, CallsSound, RowsSound, NotesSound, Answer
  <1> QED BY <1>3 DEF NoteInv, RowsSound, Annotations!AnnotationSafety

(***************************************************************************)
(* Whatever requests queue, annotate and remove at once: an annotation has *)
(* the answers of the call that was accepted last and no others, unless an *)
(* update of it is under way, failed after it had deleted the answers or   *)
(* met another; and a trace is queued once as long as its source exists    *)
(* (QueuedTraceService, AnnotationService).                                *)
(***************************************************************************)
THEOREM AnnotationsAreSafe == Annotations!Spec => []AnnotationSafety
  <1>1. Annotations!Init => NoteInv
    BY NoteInitInv
  <1>2. NoteInv /\ [Annotations!Next]_(Annotations!annotationVars) => NoteInv'
    BY NoteNextInv
  <1>3. NoteInv => AnnotationSafety
    BY NoteInvImplies DEF AnnotationSafety
  <1> QED BY <1>1, <1>2, <1>3, PTL DEF Annotations!Spec

-----------------------------------------------------------------------------
(***************************************************************************)
(* Retention.  What a project lost is split between what its report counts *)
(* and what each run of the job has deleted and not yet reported.          *)
(***************************************************************************)

Days  == {"unset", "short", "default"}
Purgeable == Evaluations \union Experiments
PolicyOne == {"findEvaluations", "deleteEvaluations", "recordEvaluations"}
PolicyTwo == {"findExperiments", "findReferring", "deleteReferring", "batchExperiments",
              "deleteExperiments", "recordExperiments"}

JobState ==
  [pc : {"asleep", "done"} \union PolicyOne \union PolicyTwo, at : Nat,
   days : {<<>>} \union [Policies!Projects -> Days], listed : SUBSET Experiments,
   batch : SUBSET Purgeable, batchDeleted : Nat, evaluationsDeleted : Nat, failed : BOOLEAN]

\* A row whose time has come in the project a run is at.
Due(q, x) == ProjectOf[x] = q.at /\ Policies!Reached(q.days[q.at], AgeOf[x])

\* A run of the job at its label.
RunSound(q) ==
  /\ q \in JobState
  /\ q.pc \in PolicyOne \union PolicyTwo => q.at \in Policies!Projects
       /\ q.days \in [Policies!Projects -> Days]
  /\ q.pc \in PolicyOne => q.evaluationsDeleted = 0
  /\ q.pc \in {"deleteEvaluations", "deleteReferring"} => q.batch \subseteq Evaluations
  /\ q.pc \in {"findReferring", "deleteReferring"} => \A x \in q.listed : Due(q, x)
  /\ q.pc = "deleteReferring" => \A v \in q.batch : About[v] \intersect q.listed # {}
  /\ q.pc = "deleteExperiments" => q.batch \subseteq Experiments
  /\ q.pc \in {"deleteEvaluations", "deleteExperiments"} => \A r \in q.batch : Due(q, r)
  /\ q.failed => q.pc = "done"

RetTypes ==
  /\ evaluationDays \in [Policies!Projects -> Days]
  /\ experimentDays \in [Policies!Projects -> Days]
  /\ evaluations \subseteq Evaluations
  /\ experiments \subseteq Experiments
  /\ entered \subseteq evaluations
  /\ report \in [Policies!Projects -> Nat]
  /\ purged \in [Policies!Projects -> SUBSET Purgeable]
  /\ job \in [Jobs -> JobState]

RunsSound == \A j \in Jobs : RunSound(job[j])

\* Who deleted an evaluation before its time is after an experiment of it.
Pursued(c) ==
  \/ About[c.row] \ experiments # {}
  \/ job[c.job].failed
  \/ /\ job[c.job].pc \in {"batchExperiments", "deleteExperiments"}
     /\ \E x \in About[c.row] : Due(job[c.job], x)

CollateralPursued ==
  \A c \in collateral :
    c.job \in Jobs /\ c.policy = "experiments" /\ c.row \in Evaluations /\ Pursued(c)

\* What a run has deleted in a project and not yet reported.
Owed(q, p) ==
  IF q.pc \in {"asleep", "done"} \/ q.at # p THEN 0 ELSE q.batchDeleted + q.evaluationsDeleted

OwedBy(p) == [j \in Jobs |-> Owed(job[j], p)]

Covered(gone, reported, owed) ==
  \E R \in SUBSET Purgeable, U \in [Jobs -> SUBSET Purgeable] :
    /\ gone \subseteq R \union UNION {U[j] : j \in Jobs}
    /\ Cardinality(R) <= reported
    /\ \A j \in Jobs : Cardinality(U[j]) <= owed[j]

Unfailed == \A j \in Jobs : ~job[j].failed

Accounted == Unfailed => \A p \in Policies!Projects : Covered(purged[p], report[p], OwedBy(p))

RetInv ==
  /\ RetTypes /\ RunsSound /\ CollateralPursued /\ Accounted

LEMMA PurgeableFinite ==
  ASSUME NEW S \in SUBSET Purgeable
  PROVE  IsFiniteSet(S) /\ Cardinality(S) \in Nat
  <1>1. IsFiniteSet(Purgeable)
    BY RetentionAssumption, FS_Union DEF Purgeable
  <1> QED BY <1>1, FS_Subset, FS_CardinalityType

\* A run deletes more and owes it.
LEMMA CoverMore ==
  ASSUME NEW gone, NEW reported \in Nat, NEW owed \in [Jobs -> Nat],
         Covered(gone, reported, owed), NEW k \in Jobs, NEW more \in SUBSET Purgeable,
         NEW owes \in [Jobs -> Nat],
         \A j \in Jobs : j # k => owes[j] = owed[j],
         owes[k] >= owed[k] + Cardinality(more)
  PROVE  Covered(gone \union more, reported, owes)
  <1>1. PICK R \in SUBSET Purgeable, U \in [Jobs -> SUBSET Purgeable] :
          /\ gone \subseteq R \union UNION {U[j] : j \in Jobs}
          /\ Cardinality(R) <= reported
          /\ \A j \in Jobs : Cardinality(U[j]) <= owed[j]
    BY DEF Covered
  <1>2. PICK V : V = [U EXCEPT ![k] = @ \union more]
    OBVIOUS
  <1>3. V \in [Jobs -> SUBSET Purgeable] /\ V[k] = U[k] \union more
    BY <1>2
  <1>4. \A j \in Jobs : j # k => V[j] = U[j]
    BY <1>2
  <1>5. Cardinality(U[k] \union more) <= Cardinality(U[k]) + Cardinality(more)
    <2>1. IsFiniteSet(U[k]) /\ IsFiniteSet(more) /\ Cardinality(U[k]) \in Nat
            /\ Cardinality(more) \in Nat
      BY PurgeableFinite
    <2>2. Cardinality(U[k] \intersect more) \in Nat
      BY PurgeableFinite
    <2>3. Cardinality(U[k] \union more)
            = Cardinality(U[k]) + Cardinality(more) - Cardinality(U[k] \intersect more)
      BY <2>1, FS_Union
    <2> QED BY <2>1, <2>2, <2>3
  <1>6. \A j \in Jobs : Cardinality(V[j]) <= owes[j]
    <2> SUFFICES ASSUME NEW j \in Jobs PROVE Cardinality(V[j]) <= owes[j]
      OBVIOUS
    <2>1. CASE j = k
      <3>1. Cardinality(V[k]) \in Nat /\ Cardinality(U[k]) \in Nat /\ Cardinality(more) \in Nat
        BY <1>3, PurgeableFinite
      <3>2. owes[k] \in Nat /\ owed[k] \in Nat /\ Cardinality(U[k]) <= owed[k]
        BY <1>1
      <3> QED BY <2>1, <3>1, <3>2, <1>3, <1>5
    <2>2. CASE j # k
      BY <2>2, <1>1, <1>4
    <2> QED BY <2>1, <2>2
  <1>7. gone \union more \subseteq R \union UNION {V[j] : j \in Jobs}
    <2> SUFFICES ASSUME NEW x \in gone \union more, x \notin R
                 PROVE  \E j \in Jobs : x \in V[j]
      OBVIOUS
    <2>1. CASE x \in more
      BY <2>1, <1>3
    <2>2. CASE x \in gone
      <3>1. PICK j \in Jobs : x \in U[j]
        BY <2>2, <1>1
      <3> QED BY <3>1, <1>3, <1>4
    <2> QED BY <2>1, <2>2
  <1> QED BY <1>1, <1>3, <1>6, <1>7 DEF Covered

\* A run reports what it owes.
LEMMA CoverReported ==
  ASSUME NEW gone, NEW reported \in Nat, NEW owed \in [Jobs -> Nat],
         Covered(gone, reported, owed), NEW k \in Jobs, NEW owes \in [Jobs -> Nat],
         \A j \in Jobs : j # k => owes[j] = owed[j]
  PROVE  Covered(gone, reported + owed[k], owes)
  <1>1. PICK R \in SUBSET Purgeable, U \in [Jobs -> SUBSET Purgeable] :
          /\ gone \subseteq R \union UNION {U[j] : j \in Jobs}
          /\ Cardinality(R) <= reported
          /\ \A j \in Jobs : Cardinality(U[j]) <= owed[j]
    BY DEF Covered
  <1>2. PICK V : V = [U EXCEPT ![k] = {}]
    OBVIOUS
  <1>3. V \in [Jobs -> SUBSET Purgeable] /\ V[k] = {}
    BY <1>2
  <1>4. \A j \in Jobs : j # k => V[j] = U[j]
    BY <1>2
  <1>5. PICK S \in SUBSET Purgeable : S = R \union U[k]
    OBVIOUS
  <1>6. Cardinality(S) <= reported + owed[k]
    <2>1. IsFiniteSet(U[k]) /\ IsFiniteSet(R) /\ Cardinality(U[k]) \in Nat /\ Cardinality(R) \in Nat
      BY PurgeableFinite
    <2>2. Cardinality(R \intersect U[k]) \in Nat
      BY PurgeableFinite
    <2>3. Cardinality(S) = Cardinality(R) + Cardinality(U[k]) - Cardinality(R \intersect U[k])
      BY <2>1, <1>5, FS_Union
    <2>4. Cardinality(U[k]) <= owed[k] /\ owed[k] \in Nat /\ Cardinality(R) <= reported
      BY <1>1
    <2> QED BY <2>1, <2>2, <2>3, <2>4
  <1>7. \A j \in Jobs : Cardinality(V[j]) <= owes[j]
    <2> SUFFICES ASSUME NEW j \in Jobs PROVE Cardinality(V[j]) <= owes[j]
      OBVIOUS
    <2>1. CASE j = k
      BY <2>1, <1>3, FS_EmptySet
    <2>2. CASE j # k
      BY <2>2, <1>1, <1>4
    <2> QED BY <2>1, <2>2
  <1>8. gone \subseteq S \union UNION {V[j] : j \in Jobs}
    <2> SUFFICES ASSUME NEW x \in gone, x \notin S
                 PROVE  \E j \in Jobs : x \in V[j]
      OBVIOUS
    <2>1. PICK j \in Jobs : x \in U[j]
      BY <1>1, <1>5
    <2> QED BY <2>1, <1>4, <1>5
  <1> QED BY <1>3, <1>6, <1>7, <1>8 DEF Covered

\* What is owed is a number.
LEMMA OwedNat ==
  ASSUME NEW q \in JobState, NEW p
  PROVE  Owed(q, p) \in Nat
  BY DEF Owed, JobState

\* Policies counts as the modules here do.
LEMMA PoliciesCount ==
  ASSUME NEW S
  PROVE  Policies!Cardinality(S) = Cardinality(S)
  BY DEF Policies!Cardinality, Cardinality

LEMMA RetInit == Policies!Init => RetInv
  <1> SUFFICES ASSUME Policies!Init PROVE RetInv
    OBVIOUS
  <1>1. Policies!Asleep \in JobState /\ Policies!Asleep.pc = "asleep" /\ ~Policies!Asleep.failed
    BY DEF Policies!Asleep, JobState, PolicyOne, PolicyTwo
  <1>2. RetTypes
    BY <1>1 DEF Policies!Init, RetTypes, Days
  <1>3. RunsSound
    BY <1>1 DEF Policies!Init, RunsSound, RunSound, PolicyOne, PolicyTwo
  <1>4. CollateralPursued
    BY DEF Policies!Init, CollateralPursued
  <1>5. Accounted
    <2> SUFFICES ASSUME NEW p \in Policies!Projects PROVE Covered(purged[p], report[p], OwedBy(p))
      BY DEF Accounted
    <2>1. purged[p] = {} /\ report[p] = 0
      BY DEF Policies!Init
    <2>2. \A j \in Jobs : OwedBy(p)[j] = 0
      BY <1>1 DEF Policies!Init, OwedBy, Owed
    <2>3. PICK U : U = [j \in Jobs |-> {}]
      OBVIOUS
    <2>4. Cardinality({}) = 0
      BY FS_EmptySet
    <2> QED BY <2>1, <2>2, <2>3, <2>4 DEF Covered
  <1> QED BY <1>2, <1>3, <1>4, <1>5 DEF RetInv

\* A step of a run leaves the others as they are.
LEMMA RunStep ==
  ASSUME RetInv, NEW k \in Jobs, NEW q, job' = [job EXCEPT ![k] = q],
         RunSound(q)
  PROVE  /\ RunsSound' /\ job' \in [Jobs -> JobState]
         /\ job'[k] = q /\ \A j \in Jobs : j # k => job'[j] = job[j]
  <1>1. job \in [Jobs -> JobState] /\ q \in JobState
    BY DEF RetInv, RetTypes, RunSound
  <1>2. job' \in [Jobs -> JobState] /\ job'[k] = q /\ \A j \in Jobs : j # k => job'[j] = job[j]
    BY <1>1
  <1>3. \A j \in Jobs : RunSound(job[j])
    BY DEF RetInv, RunsSound
  <1>4. \A j \in Jobs : RunSound(job'[j])
    BY <1>2, <1>3
  <1>5. RunsSound'
    BY <1>4 DEF RunsSound
  <1> QED BY <1>2, <1>5

\* Nor does it give up an experiment before it is gone.
LEMMA PursuitStep ==
  ASSUME RetInv, NEW k \in Jobs, NEW q,
         job'[k] = q, \A j \in Jobs : j # k => job'[j] = job[j],
         experiments' \subseteq experiments,
         ~job[k].failed,
         job[k].pc \in {"batchExperiments", "deleteExperiments"} =>
           \/ q.failed
           \/ /\ q.pc \in {"batchExperiments", "deleteExperiments"}
              /\ q.at = job[k].at /\ q.days = job[k].days
           \/ \A x \in experiments' : ~Due(job[k], x),
         \A c \in collateral' : c \in collateral \/
           /\ c.job = k /\ q.pc = "batchExperiments"
           /\ c.policy = "experiments" /\ c.row \in Evaluations
           /\ \E x \in About[c.row] : Due(q, x)
  PROVE  CollateralPursued'
  <1> SUFFICES ASSUME NEW c \in collateral'
               PROVE  c.job \in Jobs /\ c.policy = "experiments" /\ c.row \in Evaluations
                        /\ Pursued(c)'
    BY DEF CollateralPursued
  <1>1. CASE c \notin collateral
    BY <1>1 DEF Pursued
  <1>2. CASE c \in collateral
    <2>1. c.job \in Jobs /\ c.policy = "experiments" /\ c.row \in Evaluations /\ Pursued(c)
      BY <1>2 DEF RetInv, CollateralPursued
    <2>2. CASE c.job # k
      BY <2>1, <2>2 DEF Pursued
    <2>3. CASE c.job = k
      <3>1. CASE About[c.row] \ experiments # {}
        BY <3>1, <2>1, <2>3 DEF Pursued
      <3>2. CASE /\ job[k].pc \in {"batchExperiments", "deleteExperiments"}
                 /\ \E x \in About[c.row] : Due(job[k], x)
        <4>1. PICK x \in About[c.row] : Due(job[k], x)
          BY <3>2
        <4>2. CASE q.failed
          BY <4>2, <2>1, <2>3 DEF Pursued
        <4>3. CASE /\ q.pc \in {"batchExperiments", "deleteExperiments"}
                   /\ q.at = job[k].at /\ q.days = job[k].days
          <5>1. Due(q, x)
            BY <4>1, <4>3 DEF Due
          <5> QED BY <4>1, <4>3, <5>1, <2>1, <2>3 DEF Pursued
        <4>4. CASE \A y \in experiments' : ~Due(job[k], y)
          <5>1. x \notin experiments'
            BY <4>1, <4>4
          <5> QED BY <4>1, <5>1, <2>1, <2>3 DEF Pursued
        <4> QED BY <3>2, <4>2, <4>3, <4>4
      <3> QED BY <2>1, <2>3, <3>1, <3>2 DEF Pursued
    <2> QED BY <2>2, <2>3
  <1> QED BY <1>1, <1>2

\* What a run deletes it owes.
LEMMA OwesStep ==
  ASSUME RetInv, NEW k \in Jobs, NEW q \in JobState,
         job'[k] = q, \A j \in Jobs : j # k => job'[j] = job[j],
         job' \in [Jobs -> JobState],
         report' = report, ~job[k].failed,
         \A p \in Policies!Projects : \E more \in SUBSET Purgeable :
           /\ purged'[p] = purged[p] \union more
           /\ Owed(q, p) >= Owed(job[k], p) + Cardinality(more)
  PROVE  Accounted'
  <1> SUFFICES ASSUME Unfailed', NEW p \in Policies!Projects'
               PROVE  Covered(purged[p], report[p], OwedBy(p))'
    BY DEF Accounted
  <1>1. Unfailed
    BY DEF Unfailed
  <1>2. p \in Policies!Projects /\ report[p] \in Nat
    BY DEF RetInv, RetTypes, Policies!Projects
  <1>3. Covered(purged[p], report[p], OwedBy(p))
    BY <1>1, <1>2 DEF RetInv, Accounted
  <1>4. PICK more \in SUBSET Purgeable :
          /\ purged'[p] = purged[p] \union more
          /\ Owed(q, p) >= Owed(job[k], p) + Cardinality(more)
    BY <1>2
  <1>5. PICK owed : owed = OwedBy(p)
    OBVIOUS
  <1>6. PICK owes : owes = OwedBy(p)'
    OBVIOUS
  <1>7. owed \in [Jobs -> Nat] /\ \A j \in Jobs : owed[j] = Owed(job[j], p)
    BY <1>5, OwedNat DEF OwedBy, RetInv, RetTypes
  <1>8. owes \in [Jobs -> Nat] /\ \A j \in Jobs : owes[j] = Owed(job'[j], p)
    <2>1. \A j \in Jobs : Owed(job'[j], p) \in Nat
      BY OwedNat
    <2> QED BY <1>6, <2>1 DEF OwedBy
  <1>9. owes[k] >= owed[k] + Cardinality(more)
    BY <1>4, <1>7, <1>8
  <1>10. \A j \in Jobs : j # k => owes[j] = owed[j]
    BY <1>7, <1>8
  <1>11. Covered(purged[p] \union more, report[p], owes)
    <2>1. Covered(purged[p], report[p], owed)
      BY <1>3, <1>5
    <2> QED BY <2>1, <1>2, <1>7, <1>8, <1>9, <1>10, CoverMore
  <1>12. Covered(purged'[p], report'[p], OwedBy(p)')
    BY <1>4, <1>6, <1>11
  <1> QED BY <1>12 DEF Covered, OwedBy

\* What a run reports it owes no longer.
LEMMA ReportStep ==
  ASSUME RetInv, NEW k \in Jobs, NEW q \in JobState,
         job'[k] = q, \A j \in Jobs : j # k => job'[j] = job[j],
         job' \in [Jobs -> JobState],
         purged' = purged, ~job[k].failed, job[k].at \in Policies!Projects,
         \A p \in Policies!Projects :
           report'[p] = report[p] + (IF p = job[k].at THEN Owed(job[k], p) ELSE 0)
  PROVE  Accounted'
  <1> SUFFICES ASSUME Unfailed', NEW p \in Policies!Projects'
               PROVE  Covered(purged[p], report[p], OwedBy(p))'
    BY DEF Accounted
  <1>1. Unfailed
    BY DEF Unfailed
  <1>2. p \in Policies!Projects /\ report[p] \in Nat
    BY DEF RetInv, RetTypes, Policies!Projects
  <1>3. Covered(purged[p], report[p], OwedBy(p))
    BY <1>1, <1>2 DEF RetInv, Accounted
  <1>5. PICK owed : owed = OwedBy(p)
    OBVIOUS
  <1>6. PICK owes : owes = OwedBy(p)'
    OBVIOUS
  <1>7. owed \in [Jobs -> Nat] /\ \A j \in Jobs : owed[j] = Owed(job[j], p)
    BY <1>5, OwedNat DEF OwedBy, RetInv, RetTypes
  <1>8. owes \in [Jobs -> Nat] /\ \A j \in Jobs : owes[j] = Owed(job'[j], p)
    <2>1. \A j \in Jobs : Owed(job'[j], p) \in Nat
      BY OwedNat
    <2> QED BY <1>6, <2>1 DEF OwedBy
  <1>9. report'[p] = report[p] + owed[k]
    <2>1. CASE p = job[k].at
      BY <2>1, <1>2, <1>7
    <2>2. CASE p # job[k].at
      <3>1. Owed(job[k], p) = 0
        BY <2>2 DEF Owed
      <3> QED BY <3>1, <2>2, <1>2, <1>7
    <2> QED BY <2>1, <2>2
  <1>10. \A j \in Jobs : j # k => owes[j] = owed[j]
    BY <1>7, <1>8
  <1>11. Covered(purged[p], report[p] + owed[k], owes)
    <2>1. Covered(purged[p], report[p], owed)
      BY <1>3, <1>5
    <2> QED BY <2>1, <1>2, <1>7, <1>8, <1>10, CoverReported
  <1>12. Covered(purged'[p], report'[p], OwedBy(p)')
    BY <1>9, <1>6, <1>11
  <1> QED BY <1>12 DEF Covered, OwedBy

\* The first of the projects found is one of them.
LEMMA FirstFound ==
  ASSUME Policies!WithSetting # {}
  PROVE  (CHOOSE p \in Policies!WithSetting : \A q \in Policies!WithSetting : p <= q)
           \in Policies!WithSetting
  <1>1. Policies!WithSetting \subseteq Nat
    BY RetentionAssumption DEF Policies!WithSetting, Policies!Projects
  <1>2. PICK p \in Policies!WithSetting :
          \A q \in Policies!WithSetting : ~(<<q, p>> \in OpToRel(<, Nat))
    BY <1>1, NatLessThanWellFounded, WFMin
  <1>3. \A q \in Policies!WithSetting : ~(q < p)
    BY <1>1, <1>2 DEF OpToRel
  <1>4. \A q \in Policies!WithSetting : p <= q
    BY <1>1, <1>3
  <1> QED BY <1>4

\* A step that deletes and reports nothing.
LEMMA QuietRun ==
  ASSUME RetInv, NEW k \in Jobs, NEW q, job' = [job EXCEPT ![k] = q],
         RunSound(q), ~job[k].failed, ~q.failed,
         Policies!tablesOfRetention' = Policies!tablesOfRetention, report' = report,
           purged' = purged,
         collateral' = collateral,
         job[k].pc \in {"batchExperiments", "deleteExperiments"} =>
           \/ /\ q.pc \in {"batchExperiments", "deleteExperiments"}
              /\ q.at = job[k].at /\ q.days = job[k].days
           \/ \A x \in experiments : ~Due(job[k], x),
         \A p \in Policies!Projects : Owed(q, p) >= Owed(job[k], p)
  PROVE  RetInv'
  <1>1. /\ RunsSound' /\ job' \in [Jobs -> JobState]
        /\ job'[k] = q /\ \A j \in Jobs : j # k => job'[j] = job[j]
    BY RunStep
  <1>2. q \in JobState /\ job[k] \in JobState
    BY DEF RunSound, RetInv, RetTypes
  <1>3. experiments' = experiments
    BY DEF Policies!tablesOfRetention
  <1>4. CollateralPursued'
    BY <1>1, <1>3, PursuitStep
  <1>5. Accounted'
    <2>1. \A p \in Policies!Projects : \E more \in SUBSET Purgeable :
            /\ purged'[p] = purged[p] \union more
            /\ Owed(q, p) >= Owed(job[k], p) + Cardinality(more)
      <3> SUFFICES ASSUME NEW p \in Policies!Projects
                   PROVE  /\ purged'[p] = purged[p] \union {}
                          /\ Owed(q, p) >= Owed(job[k], p) + Cardinality({})
        OBVIOUS
      <3>1. Cardinality({}) = 0
        BY FS_EmptySet
      <3>2. Owed(q, p) \in Nat /\ Owed(job[k], p) \in Nat
        BY <1>2, OwedNat
      <3> QED BY <3>1, <3>2
    <2> QED BY <1>1, <1>2, <2>1, OwesStep
  <1>6. RetTypes'
    BY <1>1 DEF RetInv, RetTypes, Policies!tablesOfRetention, Policies!WithSetting,
                Policies!Projects
  <1> QED BY <1>1, <1>4, <1>5, <1>6 DEF RetInv

LEMMA StartEvaluationsKeeps ==
  ASSUME RetInv, NEW k \in Jobs, Policies!StartEvaluations(k)
  PROVE  RetInv'
  <1>1. PICK q : q = [Policies!Asleep EXCEPT !.pc = "findEvaluations", !.at = 1,
          !.days = evaluationDays]
    OBVIOUS
  <1>2. /\ job[k].pc = "asleep" /\ job' = [job EXCEPT ![k] = q]
        /\ Policies!tablesOfRetention' = Policies!tablesOfRetention /\ report' = report
        /\ purged' = purged
        /\ collateral' = collateral
    BY <1>1 DEF Policies!StartEvaluations, Policies!Running, Policies!Goto
  <1>3. /\ q.pc = "findEvaluations" /\ q.at = 1 /\ q.days = evaluationDays /\ q.listed = {}
        /\ q.batch = {} /\ q.batchDeleted = 0 /\ q.evaluationsDeleted = 0 /\ ~q.failed
        /\ q = [pc |-> "findEvaluations", at |-> 1, days |-> evaluationDays, listed |-> {},
                batch |-> {}, batchDeleted |-> 0, evaluationsDeleted |-> 0, failed |-> FALSE]
    BY <1>1 DEF Policies!Asleep
  <1>4. evaluationDays \in [Policies!Projects -> Days] /\ 1 \in Policies!Projects
    BY RetentionAssumption DEF RetInv, RetTypes, Policies!Projects
  <1>5. q \in JobState
    BY <1>3, <1>4 DEF JobState, PolicyOne
  <1>6. RunSound(q)
    BY <1>3, <1>4, <1>5 DEF RunSound, PolicyOne, PolicyTwo
  <1>7. RunSound(job[k])
    BY DEF RetInv, RunsSound
  <1>8. ~job[k].failed
    BY <1>2, <1>7 DEF RunSound
  <1>9. \A p \in Policies!Projects : Owed(q, p) >= Owed(job[k], p)
    <2>1. \A p \in Policies!Projects : Owed(job[k], p) = 0
      BY <1>2 DEF Owed
    <2>2. \A p \in Policies!Projects : Owed(q, p) = 0
      BY <1>3 DEF Owed
    <2> QED BY <2>1, <2>2
  <1> QED BY <1>2, <1>3, <1>6, <1>8, <1>9, QuietRun

LEMMA FindEvaluationsKeeps ==
  ASSUME RetInv, NEW k \in Jobs, Policies!FindEvaluations(k)
  PROVE  RetInv'
  <1>1. PICK old : old = {v \in evaluations :
          ProjectOf[v] = job[k].at /\ Policies!Reached(job[k].days[job[k].at], AgeOf[v])}
    OBVIOUS
  <1>2. PICK q : /\ job' = [job EXCEPT ![k] = q]
                 /\ \/ q = [job[k] EXCEPT !.pc = "recordEvaluations"]
                    \/ \E batch \in SUBSET old : q = [job[k] EXCEPT !.pc = "deleteEvaluations",
                         !.batch = batch]
    <2>1. \/ Policies!Goto(k, [job[k] EXCEPT !.pc = "recordEvaluations"])
          \/ \E batch \in SUBSET old :
               Policies!Goto(k, [job[k] EXCEPT !.pc = "deleteEvaluations", !.batch = batch])
      BY <1>1 DEF Policies!FindEvaluations
    <2>2. CASE Policies!Goto(k, [job[k] EXCEPT !.pc = "recordEvaluations"])
      BY <2>2 DEF Policies!Goto
    <2>3. CASE \E batch \in SUBSET old :
                 Policies!Goto(k, [job[k] EXCEPT !.pc = "deleteEvaluations", !.batch = batch])
      <3>1. PICK batch \in SUBSET old :
                   Policies!Goto(k, [job[k] EXCEPT !.pc = "deleteEvaluations", !.batch = batch])
        BY <2>3
      <3> QED BY <3>1 DEF Policies!Goto
    <2> QED BY <2>1, <2>2, <2>3
  <1>3. /\ job[k].pc = "findEvaluations"
        /\ Policies!tablesOfRetention' = Policies!tablesOfRetention /\ report' = report
        /\ purged' = purged
        /\ collateral' = collateral
    BY DEF Policies!FindEvaluations, Policies!Running
  <1>4. RunSound(job[k]) /\ job[k] \in JobState
    BY DEF RetInv, RunsSound, RunSound
  <1>5. old \subseteq Evaluations /\ \A v \in old : Due(job[k], v)
    BY <1>1 DEF RetInv, RetTypes, Due
  <1>6. /\ q \in JobState /\ q.pc \in {"recordEvaluations", "deleteEvaluations"}
        /\ q.at = job[k].at /\ q.days = job[k].days /\ q.batchDeleted = job[k].batchDeleted
        /\ q.evaluationsDeleted = job[k].evaluationsDeleted /\ q.failed = job[k].failed
        /\ q.pc = "deleteEvaluations" =>
             q.batch \subseteq Evaluations /\ \A v \in q.batch : Due(job[k], v)
    <2>1. CASE q = [job[k] EXCEPT !.pc = "recordEvaluations"]
      BY <2>1, <1>4 DEF JobState, PolicyOne
    <2>2. CASE \E batch \in SUBSET old : q = [job[k] EXCEPT !.pc = "deleteEvaluations",
            !.batch = batch]
      <3>1. PICK batch \in SUBSET old : q = [job[k] EXCEPT !.pc = "deleteEvaluations",
              !.batch = batch]
        BY <2>2
      <3>2. /\ batch \in SUBSET Purgeable /\ batch \subseteq Evaluations
            /\ \A v \in batch : Due(job[k], v)
        BY <1>5 DEF Purgeable
      <3> QED BY <3>1, <3>2, <1>4 DEF JobState, PolicyOne
    <2> QED BY <1>2, <2>1, <2>2
  <1>7. RunSound(q)
    BY <1>3, <1>4, <1>6 DEF RunSound, PolicyOne, PolicyTwo, Due
  <1>8. ~job[k].failed
    BY <1>3, <1>4 DEF RunSound
  <1>9. \A p \in Policies!Projects : Owed(q, p) = Owed(job[k], p)
    BY <1>3, <1>6 DEF Owed
  <1>10. \A p \in Policies!Projects : Owed(q, p) >= Owed(job[k], p)
    BY <1>4, <1>9, OwedNat
  <1> QED BY <1>2, <1>3, <1>6, <1>7, <1>8, <1>10, QuietRun

LEMMA FindExperimentsKeeps ==
  ASSUME RetInv, NEW k \in Jobs, Policies!FindExperiments(k)
  PROVE  RetInv'
  <1>1. PICK old : old = Policies!OldExperiments(k)
    OBVIOUS
  <1>2. PICK q : q = [job[k] EXCEPT !.listed = old,
                        !.pc = IF old = {} THEN "batchExperiments" ELSE "findReferring"]
    OBVIOUS
  <1>3. /\ job[k].pc = "findExperiments" /\ job' = [job EXCEPT ![k] = q]
        /\ Policies!tablesOfRetention' = Policies!tablesOfRetention /\ report' = report
        /\ purged' = purged
        /\ collateral' = collateral
    BY <1>1, <1>2 DEF Policies!FindExperiments, Policies!Running, Policies!Goto
  <1>4. RunSound(job[k]) /\ job[k] \in JobState
    BY DEF RetInv, RunsSound, RunSound
  <1>5. old \in SUBSET Experiments /\ \A x \in old : Due(job[k], x)
    BY <1>1 DEF RetInv, RetTypes, Policies!OldExperiments, Due
  <1>6. /\ q \in JobState /\ q.pc \in {"batchExperiments", "findReferring"} /\ q.listed = old
        /\ q.at = job[k].at /\ q.days = job[k].days /\ q.batchDeleted = job[k].batchDeleted
        /\ q.evaluationsDeleted = job[k].evaluationsDeleted /\ q.failed = job[k].failed
    <2>1. CASE old = {}
      <3>1. q = [job[k] EXCEPT !.listed = old, !.pc = "batchExperiments"]
        BY <1>2, <2>1
      <3> QED BY <3>1, <1>4, <1>5 DEF JobState, PolicyTwo
    <2>2. CASE old # {}
      <3>1. q = [job[k] EXCEPT !.listed = old, !.pc = "findReferring"]
        BY <1>2, <2>2
      <3> QED BY <3>1, <1>4, <1>5 DEF JobState, PolicyTwo
    <2> QED BY <2>1, <2>2
  <1>7. \A x \in q.listed : Due(q, x)
    BY <1>5, <1>6 DEF Due
  <1>8. RunSound(q)
    BY <1>3, <1>4, <1>6, <1>7 DEF RunSound, PolicyOne, PolicyTwo
  <1>9. ~job[k].failed
    BY <1>3, <1>4 DEF RunSound
  <1>10. \A p \in Policies!Projects : Owed(q, p) = Owed(job[k], p)
    BY <1>3, <1>6 DEF Owed
  <1>11. \A p \in Policies!Projects : Owed(q, p) >= Owed(job[k], p)
    BY <1>4, <1>10, OwedNat
  <1> QED BY <1>3, <1>6, <1>8, <1>9, <1>11, QuietRun

LEMMA FindReferringKeeps ==
  ASSUME RetInv, NEW k \in Jobs, Policies!FindReferring(k)
  PROVE  RetInv'
  <1>1. PICK refer : refer = {v \in evaluations :
          ProjectOf[v] = job[k].at /\ About[v] \intersect job[k].listed # {}}
    OBVIOUS
  <1>2. PICK q : q = [job[k] EXCEPT !.batch = refer,
                        !.pc = IF refer = {} THEN "batchExperiments" ELSE "deleteReferring"]
    OBVIOUS
  <1>3. /\ job[k].pc = "findReferring" /\ job' = [job EXCEPT ![k] = q]
        /\ Policies!tablesOfRetention' = Policies!tablesOfRetention /\ report' = report
        /\ purged' = purged
        /\ collateral' = collateral
    BY <1>1, <1>2 DEF Policies!FindReferring, Policies!Running, Policies!Goto
  <1>4. RunSound(job[k]) /\ job[k] \in JobState
    BY DEF RetInv, RunsSound, RunSound
  <1>5. refer \subseteq Evaluations /\ \A v \in refer : About[v] \intersect job[k].listed # {}
    BY <1>1 DEF RetInv, RetTypes
  <1>6. /\ q \in JobState /\ q.pc \in {"batchExperiments", "deleteReferring"} /\ q.batch = refer
        /\ q.listed = job[k].listed
        /\ q.at = job[k].at /\ q.days = job[k].days /\ q.batchDeleted = job[k].batchDeleted
        /\ q.evaluationsDeleted = job[k].evaluationsDeleted /\ q.failed = job[k].failed
    <2>0. refer \in SUBSET Purgeable
      BY <1>5 DEF Purgeable
    <2>1. CASE refer = {}
      <3>1. q = [job[k] EXCEPT !.batch = refer, !.pc = "batchExperiments"]
        BY <1>2, <2>1
      <3> QED BY <3>1, <2>0, <1>4 DEF JobState, PolicyTwo
    <2>2. CASE refer # {}
      <3>1. q = [job[k] EXCEPT !.batch = refer, !.pc = "deleteReferring"]
        BY <1>2, <2>2
      <3> QED BY <3>1, <2>0, <1>4 DEF JobState, PolicyTwo
    <2> QED BY <2>1, <2>2
  <1>7. \A x \in q.listed : Due(q, x)
    <2>1. \A x \in job[k].listed : Due(job[k], x)
      BY <1>3, <1>4 DEF RunSound
    <2> QED BY <2>1, <1>6 DEF Due
  <1>8. RunSound(q)
    BY <1>3, <1>4, <1>5, <1>6, <1>7 DEF RunSound, PolicyOne, PolicyTwo
  <1>9. ~job[k].failed
    BY <1>3, <1>4 DEF RunSound
  <1>10. \A p \in Policies!Projects : Owed(q, p) = Owed(job[k], p)
    BY <1>3, <1>6 DEF Owed
  <1>11. \A p \in Policies!Projects : Owed(q, p) >= Owed(job[k], p)
    BY <1>4, <1>10, OwedNat
  <1> QED BY <1>3, <1>6, <1>8, <1>9, <1>11, QuietRun

LEMMA BatchExperimentsKeeps ==
  ASSUME RetInv, NEW k \in Jobs, Policies!BatchExperiments(k)
  PROVE  RetInv'
  <1>1. PICK old : old = Policies!OldExperiments(k)
    OBVIOUS
  <1>2. PICK q : /\ job' = [job EXCEPT ![k] = q]
                 /\ \/ old = {} /\ q = [job[k] EXCEPT !.pc = "recordExperiments"]
                    \/ \E batch \in SUBSET old : q = [job[k] EXCEPT !.pc = "deleteExperiments",
                         !.batch = batch]
    <2>1. \/ old = {} /\ Policies!Goto(k, [job[k] EXCEPT !.pc = "recordExperiments"])
          \/ \E batch \in SUBSET old :
               Policies!Goto(k, [job[k] EXCEPT !.pc = "deleteExperiments", !.batch = batch])
      BY <1>1 DEF Policies!BatchExperiments
    <2>2. CASE old = {} /\ Policies!Goto(k, [job[k] EXCEPT !.pc = "recordExperiments"])
      BY <2>2 DEF Policies!Goto
    <2>3. CASE \E batch \in SUBSET old :
                 Policies!Goto(k, [job[k] EXCEPT !.pc = "deleteExperiments", !.batch = batch])
      <3>1. PICK batch \in SUBSET old :
                   Policies!Goto(k, [job[k] EXCEPT !.pc = "deleteExperiments", !.batch = batch])
        BY <2>3
      <3> QED BY <3>1 DEF Policies!Goto
    <2> QED BY <2>1, <2>2, <2>3
  <1>3. /\ job[k].pc = "batchExperiments"
        /\ Policies!tablesOfRetention' = Policies!tablesOfRetention /\ report' = report
        /\ purged' = purged
        /\ collateral' = collateral
    BY DEF Policies!BatchExperiments, Policies!Running
  <1>4. RunSound(job[k]) /\ job[k] \in JobState
    BY DEF RetInv, RunsSound, RunSound
  <1>5. /\ old \in SUBSET Experiments /\ \A x \in old : Due(job[k], x)
        /\ \A x \in experiments : Due(job[k], x) => x \in old
    BY <1>1 DEF RetInv, RetTypes, Policies!OldExperiments, Due
  <1>6. /\ q \in JobState
        /\ \/ q.pc = "recordExperiments" /\ old = {}
           \/ /\ q.pc = "deleteExperiments" /\ q.batch \subseteq Experiments
              /\ \A x \in q.batch : Due(job[k], x)
        /\ q.at = job[k].at /\ q.days = job[k].days /\ q.batchDeleted = job[k].batchDeleted
        /\ q.evaluationsDeleted = job[k].evaluationsDeleted /\ q.failed = job[k].failed
    <2>1. CASE old = {} /\ q = [job[k] EXCEPT !.pc = "recordExperiments"]
      BY <2>1, <1>4 DEF JobState, PolicyTwo
    <2>2. CASE \E batch \in SUBSET old : q = [job[k] EXCEPT !.pc = "deleteExperiments",
            !.batch = batch]
      <3>1. PICK batch \in SUBSET old : q = [job[k] EXCEPT !.pc = "deleteExperiments",
              !.batch = batch]
        BY <2>2
      <3>2. /\ batch \in SUBSET Purgeable /\ batch \subseteq Experiments
            /\ \A x \in batch : Due(job[k], x)
        BY <1>5 DEF Purgeable
      <3> QED BY <3>1, <3>2, <1>4 DEF JobState, PolicyTwo
    <2> QED BY <1>2, <2>1, <2>2
  <1>7. RunSound(q)
    BY <1>3, <1>4, <1>6 DEF RunSound, PolicyOne, PolicyTwo, Due
  <1>8. ~job[k].failed
    BY <1>3, <1>4 DEF RunSound
  <1>9. \A p \in Policies!Projects : Owed(q, p) = Owed(job[k], p)
    BY <1>3, <1>6 DEF Owed
  <1>10. \A p \in Policies!Projects : Owed(q, p) >= Owed(job[k], p)
    BY <1>4, <1>9, OwedNat
  <1>11. \/ /\ q.pc \in {"batchExperiments", "deleteExperiments"}
            /\ q.at = job[k].at /\ q.days = job[k].days
         \/ \A x \in experiments : ~Due(job[k], x)
    BY <1>5, <1>6
  <1>12. ~q.failed
    BY <1>6, <1>8
  <1> QED BY <1>2, <1>3, <1>7, <1>8, <1>10, <1>11, <1>12, QuietRun

\* What a step of a run at project p leaves of tables and histories.
LEMMA DeletingRun ==
  ASSUME RetInv, NEW k \in Jobs, NEW q, job' = [job EXCEPT ![k] = q],
         RunSound(q), ~job[k].failed, report' = report,
         NEW p, p = job[k].at, p \in Policies!Projects,
         NEW more \in SUBSET Purgeable, purged' = [purged EXCEPT ![p] = @ \union more],
         Owed(q, p) >= Owed(job[k], p) + Cardinality(more), q.at = p
  PROVE  Accounted' /\ RunsSound' /\ job' \in [Jobs -> JobState]
         /\ purged' \in [Policies!Projects -> SUBSET Purgeable]
         /\ job'[k] = q /\ \A j \in Jobs : j # k => job'[j] = job[j]
  <1>1. /\ RunsSound' /\ job' \in [Jobs -> JobState]
        /\ job'[k] = q /\ \A j \in Jobs : j # k => job'[j] = job[j]
    BY RunStep
  <1>2. q \in JobState
    BY DEF RunSound
  <1>3. /\ purged \in [Policies!Projects -> SUBSET Purgeable]
        /\ purged'[p] = purged[p] \union more
        /\ \A o \in Policies!Projects : o # p => purged'[o] = purged[o]
    BY DEF RetInv, RetTypes
  <1>4. Accounted'
    <2>1. \A o \in Policies!Projects : \E m \in SUBSET Purgeable :
            /\ purged'[o] = purged[o] \union m
            /\ Owed(q, o) >= Owed(job[k], o) + Cardinality(m)
      <3> SUFFICES ASSUME NEW o \in Policies!Projects
                   PROVE  \E m \in SUBSET Purgeable :
                            /\ purged'[o] = purged[o] \union m
                            /\ Owed(q, o) >= Owed(job[k], o) + Cardinality(m)
        OBVIOUS
      <3>1. CASE o = p
        BY <3>1, <1>3
      <3>2. CASE o # p
        <4>1. Owed(q, o) = 0 /\ Owed(job[k], o) = 0 /\ Cardinality({}) = 0
          BY <3>2, FS_EmptySet DEF Owed
        <4>2. purged'[o] = purged[o] \union {}
          BY <3>2, <1>3
        <4> QED BY <4>1, <4>2
      <3> QED BY <3>1, <3>2
    <2> QED BY <1>1, <1>2, <2>1, OwesStep
  <1>5. purged' \in [Policies!Projects -> SUBSET Purgeable]
    <2>1. purged[p] \union more \in SUBSET Purgeable
      BY <1>3
    <2> QED BY <2>1, <1>3
  <1> QED BY <1>1, <1>4, <1>5

\* What a run found by its age does not go before its time.
LEMMA NothingEarly ==
  ASSUME NEW k \in Jobs, NEW policy, NEW gone, \A r \in gone : Due(job[k], r),
         Policies!Early(k, policy, job[k].days, gone)
  PROVE  collateral' = collateral
  <1>1. {x \in gone : ~Policies!Reached(job[k].days[job[k].at], AgeOf[x])} = {}
    BY DEF Due
  <1> QED BY <1>1 DEF Policies!Early

LEMMA DeleteEvaluationsKeeps ==
  ASSUME RetInv, NEW k \in Jobs, Policies!DeleteEvaluations(k)
  PROVE  RetInv'
  <1>1. PICK q : q = [job[k] EXCEPT !.pc = "findEvaluations",
                                   !.batchDeleted = @ + Cardinality(job[k].batch)]
    OBVIOUS
  <1>2. PICK p : p = job[k].at
    OBVIOUS
  <1>3. PICK batch : batch = job[k].batch
    OBVIOUS
  <1>4. PICK more : more = batch \intersect evaluations
    OBVIOUS
  <1>5. /\ job[k].pc = "deleteEvaluations" /\ job' = [job EXCEPT ![k] = q]
        /\ evaluations' = evaluations \ batch /\ entered' = entered \ batch
        /\ purged' = [purged EXCEPT ![p] = @ \union more]
        /\ Policies!Early(k, "evaluations", job[k].days, more)
        /\ UNCHANGED <<evaluationDays, experimentDays, experiments, report>>
    BY <1>1, <1>2, <1>3, <1>4, PoliciesCount DEF Policies!DeleteEvaluations, Policies!Running,
       Policies!Goto, Policies!Purge
  <1>6. RunSound(job[k]) /\ job[k] \in JobState
    BY DEF RetInv, RunsSound, RunSound
  <1>7. /\ p \in Policies!Projects /\ batch \subseteq Evaluations /\ batch \in SUBSET Purgeable
        /\ job[k].evaluationsDeleted = 0 /\ ~job[k].failed
    BY <1>2, <1>3, <1>5, <1>6 DEF RunSound, PolicyOne, Purgeable
  <1>8. PICK n : n = Cardinality(batch)
    OBVIOUS
  <1>9. n \in Nat
    BY <1>7, <1>8, PurgeableFinite
  <1>10. /\ q \in JobState /\ q.pc = "findEvaluations" /\ q.at = p /\ q.days = job[k].days
         /\ q.batchDeleted = job[k].batchDeleted + n /\ q.evaluationsDeleted = 0 /\ ~q.failed
    <2>1. q = [job[k] EXCEPT !.pc = "findEvaluations", !.batchDeleted = job[k].batchDeleted + n]
      BY <1>1, <1>3, <1>6, <1>8 DEF JobState
    <2>2. job[k].batchDeleted + n \in Nat
      BY <1>6, <1>9 DEF JobState
    <2> QED BY <2>1, <2>2, <1>2, <1>6, <1>7 DEF JobState, PolicyOne
  <1>11. RunSound(q)
    BY <1>5, <1>6, <1>10, <1>2 DEF RunSound, PolicyOne, PolicyTwo
  <1>12. Owed(q, p) >= Owed(job[k], p) + Cardinality(more)
    <2>1. IsFiniteSet(batch) /\ Cardinality(more) \in Nat /\ Cardinality(more) <= n
      <3>1. IsFiniteSet(batch)
        BY <1>7, PurgeableFinite
      <3>2. more \in SUBSET batch /\ more \in SUBSET Purgeable
        BY <1>4, <1>7
      <3> QED BY <3>1, <3>2, <1>8, FS_Subset, PurgeableFinite
    <2>2. Owed(q, p) = job[k].batchDeleted + n + 0
      BY <1>9, <1>10, <1>6 DEF Owed, JobState
    <2>3. Owed(job[k], p) = job[k].batchDeleted + 0
      BY <1>2, <1>5, <1>7 DEF Owed
    <2>4. job[k].batchDeleted \in Nat
      BY <1>6 DEF JobState
    <2> QED BY <2>1, <2>2, <2>3, <2>4, <1>9
  <1>13. /\ Accounted' /\ RunsSound'
         /\ job' \in [Jobs -> JobState]
         /\ purged' \in [Policies!Projects -> SUBSET Purgeable]
         /\ job'[k] = q /\ \A j \in Jobs : j # k => job'[j] = job[j]
    <2>1. more \in SUBSET Purgeable /\ more \subseteq Evaluations
      BY <1>4, <1>7
    <2>2. report' = report
      BY <1>5
    <2> QED BY <2>1, <2>2, <1>2, <1>5, <1>7, <1>10, <1>11, <1>12, DeletingRun
  <1>14. CollateralPursued'
    <2>0. \A r \in more : Due(job[k], r)
      BY <1>3, <1>4, <1>5, <1>6 DEF RunSound
    <2>1. experiments' \subseteq experiments /\ collateral' = collateral
      BY <2>0, <1>5, NothingEarly
    <2> QED BY <2>1, <1>5, <1>7, <1>13, PursuitStep
  <1>15. RetTypes'
    BY <1>5, <1>13 DEF RetInv, RetTypes, Policies!WithSetting, Policies!Projects
  <1> QED BY <1>13, <1>14, <1>15 DEF RetInv

LEMMA DeleteReferringKeeps ==
  ASSUME RetInv, NEW k \in Jobs, Policies!DeleteReferring(k)
  PROVE  RetInv'
  <1>1. PICK q : q = [job[k] EXCEPT !.pc = "batchExperiments",
                                   !.evaluationsDeleted = @ + Cardinality(job[k].batch)]
    OBVIOUS
  <1>2. PICK p : p = job[k].at
    OBVIOUS
  <1>3. PICK batch : batch = job[k].batch
    OBVIOUS
  <1>4. PICK more : more = batch \intersect evaluations
    OBVIOUS
  <1>5. /\ job[k].pc = "deleteReferring" /\ job' = [job EXCEPT ![k] = q]
        /\ evaluations' = evaluations \ more /\ entered' = entered \ more
        /\ purged' = [purged EXCEPT ![p] = @ \union more]
        /\ Policies!Early(k, "experiments", evaluationDays, more)
        /\ UNCHANGED <<evaluationDays, experimentDays, experiments, report>>
    BY <1>1, <1>2, <1>3, <1>4, PoliciesCount DEF Policies!DeleteReferring, Policies!Running,
       Policies!Goto, Policies!Purge
  <1>6. RunSound(job[k]) /\ job[k] \in JobState
    BY DEF RetInv, RunsSound, RunSound
  <1>7. /\ p \in Policies!Projects /\ batch \subseteq Evaluations /\ batch \in SUBSET Purgeable
        /\ ~job[k].failed
    BY <1>2, <1>3, <1>5, <1>6 DEF RunSound, PolicyTwo, Purgeable
  <1>8. PICK n : n = Cardinality(batch)
    OBVIOUS
  <1>9. n \in Nat
    BY <1>7, <1>8, PurgeableFinite
  <1>10. /\ q \in JobState /\ q.pc = "batchExperiments" /\ q.at = p /\ q.days = job[k].days
         /\ q.evaluationsDeleted = job[k].evaluationsDeleted + n
         /\ q.batchDeleted = job[k].batchDeleted /\ ~q.failed
    <2>1. q = [job[k] EXCEPT !.pc = "batchExperiments",
            !.evaluationsDeleted = job[k].evaluationsDeleted + n]
      BY <1>1, <1>3, <1>6, <1>8 DEF JobState
    <2>2. job[k].evaluationsDeleted + n \in Nat
      BY <1>6, <1>9 DEF JobState
    <2> QED BY <2>1, <2>2, <1>2, <1>6, <1>7 DEF JobState, PolicyTwo
  <1>11. RunSound(q)
    BY <1>5, <1>6, <1>10, <1>2 DEF RunSound, PolicyOne, PolicyTwo
  <1>12. Owed(q, p) >= Owed(job[k], p) + Cardinality(more)
    <2>1. IsFiniteSet(batch) /\ Cardinality(more) \in Nat /\ Cardinality(more) <= n
      <3>1. IsFiniteSet(batch)
        BY <1>7, PurgeableFinite
      <3>2. more \in SUBSET batch /\ more \in SUBSET Purgeable
        BY <1>4, <1>7
      <3> QED BY <3>1, <3>2, <1>8, FS_Subset, PurgeableFinite
    <2>2. Owed(q, p) = job[k].batchDeleted + (job[k].evaluationsDeleted + n)
      BY <1>10 DEF Owed
    <2>3. Owed(job[k], p) = job[k].batchDeleted + job[k].evaluationsDeleted
      BY <1>2, <1>5 DEF Owed
    <2>4. job[k].batchDeleted \in Nat /\ job[k].evaluationsDeleted \in Nat
      BY <1>6 DEF JobState
    <2> QED BY <2>1, <2>2, <2>3, <2>4, <1>9
  <1>13. /\ Accounted' /\ RunsSound'
         /\ job' \in [Jobs -> JobState]
         /\ purged' \in [Policies!Projects -> SUBSET Purgeable]
         /\ job'[k] = q /\ \A j \in Jobs : j # k => job'[j] = job[j]
    <2>1. more \in SUBSET Purgeable /\ more \subseteq Evaluations
      BY <1>4, <1>7
    <2>2. report' = report
      BY <1>5
    <2> QED BY <2>1, <2>2, <1>2, <1>5, <1>7, <1>10, <1>11, <1>12, DeletingRun
  <1>14. CollateralPursued'
    <2>1. \A c \in collateral' : c \in collateral \/
            /\ c.job = k /\ q.pc = "batchExperiments"
            /\ c.policy = "experiments" /\ c.row \in Evaluations
            /\ \E x \in About[c.row] : Due(q, x)
      <3> SUFFICES ASSUME NEW c \in collateral', c \notin collateral
                   PROVE  /\ c.job = k /\ c.policy = "experiments" /\ c.row \in Evaluations
                          /\ \E x \in About[c.row] : Due(q, x)
        BY <1>10
      <3>1. PICK v \in more : c = [row |-> v, job |-> k, policy |-> "experiments"]
        BY <1>5 DEF Policies!Early
      <3>2. /\ v \in batch /\ c.row = v /\ c.job = k
            /\ c.policy = "experiments" /\ c.row \in Evaluations
        BY <3>1, <1>4, <1>7
      <3>3. PICK x \in About[v] : x \in job[k].listed
        BY <3>2, <1>3, <1>5, <1>6 DEF RunSound
      <3>4. Due(job[k], x)
        BY <3>3, <1>5, <1>6 DEF RunSound
      <3>5. Due(q, x)
        BY <3>4, <1>2, <1>10 DEF Due
      <3> QED BY <3>2, <3>3, <3>5
    <2>2. experiments' \subseteq experiments
      BY <1>5
    <2> QED BY <2>1, <2>2, <1>5, <1>7, <1>13, PursuitStep
  <1>15. RetTypes'
    <2>1. evaluations' \subseteq Evaluations /\ entered' \subseteq evaluations'
      BY <1>5 DEF RetInv, RetTypes
    <2> QED BY <2>1, <1>5, <1>13 DEF RetInv, RetTypes, Policies!WithSetting, Policies!Projects
  <1> QED BY <1>13, <1>14, <1>15 DEF RetInv

LEMMA DeleteExperimentsKeeps ==
  ASSUME RetInv, NEW k \in Jobs, Policies!DeleteExperiments(k)
  PROVE  RetInv'
  <1>1. PICK p : p = job[k].at
    OBVIOUS
  <1>2. PICK batch : batch = job[k].batch
    OBVIOUS
  <1>3. PICK more : more = batch \intersect experiments
    OBVIOUS
  <1>4. /\ job[k].pc = "deleteExperiments"
        /\ UNCHANGED <<evaluationDays, experimentDays, settings, evaluations, entered, report>>
    BY DEF Policies!DeleteExperiments, Policies!Running
  <1>5. RunSound(job[k]) /\ job[k] \in JobState
    BY DEF RetInv, RunsSound, RunSound
  <1>6. /\ p \in Policies!Projects /\ batch \subseteq Experiments /\ batch \in SUBSET Purgeable
        /\ ~job[k].failed
    BY <1>1, <1>2, <1>4, <1>5 DEF RunSound, PolicyTwo, Purgeable
  <1>7. CASE /\ Policies!Goto(k, [job[k] EXCEPT !.pc = "done", !.failed = TRUE])
             /\ UNCHANGED <<experiments, purged, collateral>>
    <2>1. PICK q : q = [job[k] EXCEPT !.pc = "done", !.failed = TRUE]
      OBVIOUS
    <2>2. job' = [job EXCEPT ![k] = q]
      BY <2>1, <1>7 DEF Policies!Goto
    <2>3. q \in JobState /\ q.pc = "done" /\ q.failed
      BY <2>1, <1>5 DEF JobState
    <2>4. RunSound(q)
      BY <2>3 DEF RunSound, PolicyOne, PolicyTwo
    <2>5. /\ RunsSound' /\ job' \in [Jobs -> JobState]
          /\ job'[k] = q /\ \A j \in Jobs : j # k => job'[j] = job[j]
      BY <2>2, <2>4, <1>4, RunStep
    <2>6. CollateralPursued'
      <3>1. experiments' \subseteq experiments /\ collateral' = collateral
        BY <1>4, <1>7
      <3> QED BY <3>1, <2>3, <2>5, <1>6, PursuitStep
    <2>7. Accounted'
      BY <2>3, <2>5 DEF Accounted, Unfailed
    <2>8. RetTypes'
      BY <1>4, <1>7, <2>5 DEF RetInv, RetTypes, Policies!WithSetting, Policies!Projects
    <2> QED BY <2>5, <2>6, <2>7, <2>8 DEF RetInv
  <1>8. CASE /\ experiments' = experiments \ batch
             /\ Policies!Purge(job[k].at, batch \intersect experiments)
             /\ Policies!Early(k, "experiments", job[k].days, batch \intersect experiments)
             /\ Policies!Goto(k,
                  [job[k] EXCEPT !.pc = "batchExperiments",
                    !.batchDeleted = @ + Cardinality(batch)])
    <2>1. PICK q : q = [job[k] EXCEPT !.pc = "batchExperiments",
            !.batchDeleted = @ + Cardinality(batch)]
      OBVIOUS
    <2>2. /\ job' = [job EXCEPT ![k] = q]
          /\ purged' = [purged EXCEPT ![p] = @ \union more]
      BY <2>1, <1>1, <1>2, <1>3, <1>8 DEF Policies!Goto, Policies!Purge
    <2>3. PICK n : n = Cardinality(batch)
      OBVIOUS
    <2>4. n \in Nat
      BY <1>6, <2>3, PurgeableFinite
    <2>5. /\ q \in JobState /\ q.pc = "batchExperiments" /\ q.at = p /\ q.days = job[k].days
          /\ q.batchDeleted = job[k].batchDeleted + n
          /\ q.evaluationsDeleted = job[k].evaluationsDeleted /\ ~q.failed
      <3>1. q = [job[k] EXCEPT !.pc = "batchExperiments", !.batchDeleted = job[k].batchDeleted + n]
        BY <2>1, <2>3, <1>5 DEF JobState
      <3>2. job[k].batchDeleted + n \in Nat
        BY <1>5, <2>4 DEF JobState
      <3> QED BY <3>1, <3>2, <1>1, <1>5, <1>6 DEF JobState, PolicyTwo
    <2>6. RunSound(q)
      BY <1>4, <1>5, <2>5, <1>1 DEF RunSound, PolicyOne, PolicyTwo
    <2>7. Owed(q, p) >= Owed(job[k], p) + Cardinality(more)
      <3>1. Cardinality(more) \in Nat /\ Cardinality(more) <= n
        <4>1. IsFiniteSet(batch)
          BY <1>6, PurgeableFinite
        <4>2. more \in SUBSET batch /\ more \in SUBSET Purgeable
          BY <1>3, <1>6
        <4> QED BY <4>1, <4>2, <2>3, FS_Subset, PurgeableFinite
      <3>2. Owed(q, p) = (job[k].batchDeleted + n) + job[k].evaluationsDeleted
        BY <2>5 DEF Owed
      <3>3. Owed(job[k], p) = job[k].batchDeleted + job[k].evaluationsDeleted
        BY <1>1, <1>4 DEF Owed
      <3>4. job[k].batchDeleted \in Nat /\ job[k].evaluationsDeleted \in Nat
        BY <1>5 DEF JobState
      <3> QED BY <3>1, <3>2, <3>3, <3>4, <2>4
    <2>8. /\ Accounted' /\ RunsSound'
          /\ job' \in [Jobs -> JobState]
          /\ purged' \in [Policies!Projects -> SUBSET Purgeable]
          /\ job'[k] = q /\ \A j \in Jobs : j # k => job'[j] = job[j]
      <3>1. more \in SUBSET Purgeable
        BY <1>3, <1>6
      <3>2. report' = report
        BY <1>4
      <3> QED BY <3>1, <3>2, <2>2, <2>5, <2>6, <2>7, <1>1, <1>6, DeletingRun
    <2>9. CollateralPursued'
      <3>0. \A r \in batch \intersect experiments : Due(job[k], r)
        BY <1>2, <1>4, <1>5 DEF RunSound
      <3>1. experiments' \subseteq experiments /\ collateral' = collateral
        BY <3>0, <1>8, NothingEarly
      <3>2. q.at = job[k].at /\ q.days = job[k].days /\ q.pc \in {"batchExperiments",
              "deleteExperiments"}
        BY <1>1, <2>5
      <3> QED BY <3>1, <3>2, <2>8, <1>6, PursuitStep
    <2>10. RetTypes'
      BY <1>4, <1>8, <2>8 DEF RetInv, RetTypes, Policies!WithSetting, Policies!Projects
    <2> QED BY <2>8, <2>9, <2>10 DEF RetInv
  <1> QED BY <1>2, <1>7, <1>8, PoliciesCount DEF Policies!DeleteExperiments

LEMMA RecordEvaluationsKeeps ==
  ASSUME RetInv, NEW k \in Jobs, Policies!RecordEvaluations(k)
  PROVE  RetInv'
  <1>1. PICK p : p = job[k].at
    OBVIOUS
  <1>2. PICK q : q = IF p < LastProject THEN Policies!Turn(k, "findEvaluations",
               p + 1) ELSE Policies!StartExperiments(k)
    OBVIOUS
  <1>3. /\ job[k].pc = "recordEvaluations" /\ job' = [job EXCEPT ![k] = q]
        /\ report' = [report EXCEPT ![p] = @ + job[k].batchDeleted]
        /\ UNCHANGED <<Policies!tablesOfRetention, purged, collateral>>
    BY <1>1, <1>2 DEF Policies!RecordEvaluations, Policies!Running, Policies!Goto
  <1>4. RunSound(job[k]) /\ job[k] \in JobState
    BY DEF RetInv, RunsSound, RunSound
  <1>5. /\ p \in Policies!Projects /\ p \in Nat /\ p <= LastProject
        /\ job[k].days \in [Policies!Projects -> Days] /\ job[k].evaluationsDeleted = 0
        /\ ~job[k].failed
    BY <1>1, <1>3, <1>4, RetentionAssumption DEF RunSound, PolicyOne, Policies!Projects
  <1>6. /\ experimentDays \in [Policies!Projects -> Days] /\ report \in [Policies!Projects -> Nat]
    BY DEF RetInv, RetTypes
  <1>7. RunSound(q)
    <2>1. CASE p < LastProject
      <3>1. q = [job[k] EXCEPT !.pc = "findEvaluations", !.at = p + 1, !.batchDeleted = 0]
        BY <1>2, <2>1 DEF Policies!Turn
      <3>2. p + 1 \in Policies!Projects /\ p + 1 \in Nat
        BY <1>5, <2>1, RetentionAssumption DEF Policies!Projects
      <3>3. /\ q \in JobState /\ q.pc = "findEvaluations" /\ q.at = p + 1 /\ q.days = job[k].days
            /\ q.evaluationsDeleted = 0 /\ ~q.failed
        BY <3>1, <3>2, <1>4, <1>5 DEF JobState, PolicyOne
      <3> QED BY <3>2, <3>3, <1>5 DEF RunSound, PolicyOne, PolicyTwo
    <2>2. CASE ~(p < LastProject) /\ Policies!WithSetting = {}
      <3>1. q = [job[k] EXCEPT !.pc = "done"]
        BY <1>2, <2>2 DEF Policies!StartExperiments
      <3>2. q \in JobState /\ q.pc = "done"
        BY <3>1, <1>4 DEF JobState
      <3> QED BY <3>2 DEF RunSound, PolicyOne, PolicyTwo
    <2>3. CASE ~(p < LastProject) /\ Policies!WithSetting # {}
      <3>1. PICK first : first = CHOOSE o \in Policies!WithSetting :
                   \A r \in Policies!WithSetting : o <= r
        OBVIOUS
      <3>2. first \in Policies!WithSetting
        BY <2>3, <3>1, FirstFound
      <3>3. first \in Policies!Projects /\ first \in Nat
        BY <3>2, <1>6, RetentionAssumption DEF Policies!WithSetting, Policies!Projects
      <3>4. q = [job[k] EXCEPT !.pc = "findExperiments", !.batchDeleted = 0,
              !.days = experimentDays,
                               !.at = first]
        BY <1>2, <2>3, <3>1 DEF Policies!StartExperiments
      <3>5. /\ q \in JobState /\ q.pc = "findExperiments" /\ q.at = first /\ q.days = experimentDays
            /\ ~q.failed
        BY <3>3, <3>4, <1>4, <1>5, <1>6 DEF JobState, PolicyTwo
      <3> QED BY <3>3, <3>5, <1>6 DEF RunSound, PolicyOne, PolicyTwo
    <2> QED BY <2>1, <2>2, <2>3
  <1>8. /\ RunsSound' /\ job' \in [Jobs -> JobState]
        /\ job'[k] = q /\ \A j \in Jobs : j # k => job'[j] = job[j]
    BY <1>3, <1>7, RunStep
  <1>9. CollateralPursued'
    <2>1. experiments' \subseteq experiments /\ collateral' = collateral
      BY <1>3 DEF Policies!tablesOfRetention
    <2> QED BY <2>1, <1>3, <1>5, <1>8, PursuitStep
  <1>10. job[k].batchDeleted \in Nat
    BY <1>4 DEF JobState
  <1>11. Accounted'
    <2>1. q \in JobState
      BY <1>7 DEF RunSound
    <2>2. Owed(job[k], p) = job[k].batchDeleted
      BY <1>1, <1>3, <1>5, <1>10 DEF Owed
    <2>3. \A o \in Policies!Projects :
            report'[o] = report[o] + (IF o = job[k].at THEN Owed(job[k], o) ELSE 0)
      <3> SUFFICES ASSUME NEW o \in Policies!Projects
                   PROVE  report'[o] = report[o] + (IF o = p THEN Owed(job[k], p) ELSE 0)
        BY <1>1
      <3>1. report[o] \in Nat
        BY <1>6
      <3> QED BY <3>1, <2>2, <1>3, <1>6, <1>10
    <2>4. purged' = purged /\ job[k].at \in Policies!Projects
      BY <1>1, <1>3, <1>5
    <2> QED BY <2>1, <2>3, <2>4, <1>5, <1>8, ReportStep
  <1>12. RetTypes'
    <2>1. report' \in [Policies!Projects -> Nat]
      <3>1. report[p] + job[k].batchDeleted \in Nat
        BY <1>5, <1>6, <1>10
      <3>2. report' = [report EXCEPT ![p] = report[p] + job[k].batchDeleted]
        BY <1>3
      <3> QED BY <3>1, <3>2, <1>6
    <2> QED BY <2>1, <1>3, <1>8 DEF RetInv, RetTypes, Policies!tablesOfRetention,
               Policies!WithSetting, Policies!Projects
  <1> QED BY <1>8, <1>9, <1>11, <1>12 DEF RetInv

LEMMA RecordExperimentsKeeps ==
  ASSUME RetInv, NEW k \in Jobs, Policies!RecordExperiments(k)
  PROVE  RetInv'
  <1>1. PICK p : p = job[k].at
    OBVIOUS
  <1>2. PICK found : found = {o \in Policies!Projects : job[k].days[o] # "unset"}
    OBVIOUS
  <1>3. PICK q : /\ job' = [job EXCEPT ![k] = q]
                 /\ \/ q = [job[k] EXCEPT !.pc = "done"]
                    \/ \E o \in found : q = Policies!Turn(k, "findExperiments", o)
    <2>1. \/ Policies!Goto(k, [job[k] EXCEPT !.pc = "done"])
          \/ \E o \in found : Policies!Goto(k, Policies!Turn(k, "findExperiments", o))
      BY <1>1, <1>2 DEF Policies!RecordExperiments, Policies!NextProject
    <2>2. CASE Policies!Goto(k, [job[k] EXCEPT !.pc = "done"])
      BY <2>2 DEF Policies!Goto
    <2>3. CASE \E o \in found : Policies!Goto(k, Policies!Turn(k, "findExperiments", o))
      BY <2>3 DEF Policies!Goto
    <2> QED BY <2>1, <2>2, <2>3
  <1>4. /\ job[k].pc = "recordExperiments"
        /\ report' = [report EXCEPT ![p] = @ + job[k].batchDeleted + job[k].evaluationsDeleted]
        /\ UNCHANGED <<Policies!tablesOfRetention, purged, collateral>>
    BY <1>1 DEF Policies!RecordExperiments, Policies!Running
  <1>5. RunSound(job[k]) /\ job[k] \in JobState
    BY DEF RetInv, RunsSound, RunSound
  <1>6. /\ p \in Policies!Projects /\ job[k].days \in [Policies!Projects -> Days] /\ ~job[k].failed
    BY <1>1, <1>4, <1>5 DEF RunSound, PolicyTwo
  <1>7. RunSound(q)
    <2>1. CASE q = [job[k] EXCEPT !.pc = "done"]
      <3>1. q \in JobState /\ q.pc = "done"
        BY <2>1, <1>5 DEF JobState
      <3> QED BY <3>1 DEF RunSound, PolicyOne, PolicyTwo
    <2>2. CASE \E o \in found : q = Policies!Turn(k, "findExperiments", o)
      <3>1. PICK o \in found : q = [job[k] EXCEPT !.pc = "findExperiments", !.at = o,
              !.batchDeleted = 0]
        BY <2>2 DEF Policies!Turn
      <3>2. o \in Policies!Projects /\ o \in Nat
        BY <1>2, <1>6, RetentionAssumption DEF Policies!Projects
      <3>3. /\ q \in JobState /\ q.pc = "findExperiments" /\ q.at = o /\ q.days = job[k].days
            /\ ~q.failed
        BY <3>1, <3>2, <1>5, <1>6 DEF JobState, PolicyTwo
      <3> QED BY <3>2, <3>3, <1>6 DEF RunSound, PolicyOne, PolicyTwo
    <2> QED BY <1>3, <2>1, <2>2
  <1>8. /\ RunsSound' /\ job' \in [Jobs -> JobState]
        /\ job'[k] = q /\ \A j \in Jobs : j # k => job'[j] = job[j]
    BY <1>3, <1>4, <1>7, RunStep
  <1>9. CollateralPursued'
    <2>1. experiments' \subseteq experiments /\ collateral' = collateral
      BY <1>4 DEF Policies!tablesOfRetention
    <2> QED BY <2>1, <1>4, <1>6, <1>8, PursuitStep
  <1>10. /\ job[k].batchDeleted \in Nat /\ job[k].evaluationsDeleted \in Nat
         /\ report \in [Policies!Projects -> Nat]
    BY <1>5 DEF JobState, RetInv, RetTypes
  <1>11. Accounted'
    <2>1. q \in JobState
      BY <1>7 DEF RunSound
    <2>2. Owed(job[k], p) = job[k].batchDeleted + job[k].evaluationsDeleted
      BY <1>1, <1>4 DEF Owed
    <2>3. \A o \in Policies!Projects :
            report'[o] = report[o] + (IF o = job[k].at THEN Owed(job[k], o) ELSE 0)
      <3> SUFFICES ASSUME NEW o \in Policies!Projects
                   PROVE  report'[o] = report[o] + (IF o = p THEN Owed(job[k], p) ELSE 0)
        BY <1>1
      <3>1. report[o] \in Nat
        BY <1>10
      <3> QED BY <3>1, <2>2, <1>4, <1>10
    <2>4. purged' = purged /\ job[k].at \in Policies!Projects
      BY <1>1, <1>4, <1>6
    <2> QED BY <2>1, <2>3, <2>4, <1>6, <1>8, ReportStep
  <1>12. RetTypes'
    <2>1. report' \in [Policies!Projects -> Nat]
      <3>1. PICK sum : sum = report[p] + job[k].batchDeleted + job[k].evaluationsDeleted
        OBVIOUS
      <3>2. report[p] \in Nat
        BY <1>6, <1>10
      <3>3. sum \in Nat
        BY <3>1, <3>2, <1>10
      <3>4. report' = [report EXCEPT ![p] = sum]
        BY <3>1, <1>4
      <3> QED BY <3>3, <3>4, <1>10
    <2> QED BY <2>1, <1>4, <1>8 DEF RetInv, RetTypes, Policies!tablesOfRetention,
               Policies!WithSetting, Policies!Projects
  <1> QED BY <1>8, <1>9, <1>11, <1>12 DEF RetInv

\* A request does not touch what the job holds, and deletes no experiment.
LEMMA RequestKeeps ==
  ASSUME RetInv,
         \/ \E o \in Policies!Projects, days \in Days : Policies!UpdateProjectRetention(o, days)
         \/ \E v \in Evaluations : Policies!CreateEvaluation(v) \/ Policies!EnterResult(v)
  PROVE  RetInv'
  <1>1. UNCHANGED <<experiments, job, report, purged, collateral>>
    BY DEF Policies!UpdateProjectRetention, Policies!CreateEvaluation, Policies!EnterResult
  <1>2. RetTypes'
    <2>1. evaluations' \subseteq Evaluations /\ entered' \subseteq evaluations'
      BY DEF Policies!UpdateProjectRetention, Policies!CreateEvaluation, Policies!EnterResult,
             RetInv, RetTypes
    <2>2. evaluationDays' \in [Policies!Projects -> Days]
            /\ experimentDays' \in [Policies!Projects -> Days]
      BY DEF Policies!UpdateProjectRetention, Policies!CreateEvaluation, Policies!EnterResult,
             RetInv, RetTypes
    <2> QED BY <2>1, <2>2, <1>1 DEF RetInv, RetTypes, Policies!Projects
  <1>3. RunsSound'
    BY <1>1 DEF RetInv, RunsSound
  <1>4. CollateralPursued'
    BY <1>1 DEF RetInv, CollateralPursued, Pursued
  <1>5. Accounted'
    BY <1>1 DEF RetInv, Accounted, Unfailed, OwedBy, Covered, Policies!Projects
  <1> QED BY <1>2, <1>3, <1>4, <1>5 DEF RetInv

LEMMA RetNext == RetInv /\ [Policies!Next]_(Policies!retentionVars) => RetInv'
  <1> SUFFICES ASSUME RetInv, [Policies!Next]_(Policies!retentionVars) PROVE RetInv'
    OBVIOUS
  <1>1. CASE \E o \in Policies!Projects, days \in Days : Policies!UpdateProjectRetention(o, days)
    BY <1>1, RequestKeeps
  <1>2. CASE \E v \in Evaluations : Policies!CreateEvaluation(v) \/ Policies!EnterResult(v)
    BY <1>2, RequestKeeps
  <1>3. CASE UNCHANGED Policies!retentionVars
    BY <1>3 DEF Policies!retentionVars, Policies!tablesOfRetention, RetInv, RetTypes, RunsSound,
                RunSound, CollateralPursued,
                Pursued, Accounted, Unfailed, OwedBy, Covered,
                Policies!WithSetting, Policies!Projects
  <1>4. ASSUME NEW k \in Jobs,
               \/ Policies!StartEvaluations(k) \/ Policies!FindEvaluations(k)
                    \/ Policies!DeleteEvaluations(k) \/ Policies!RecordEvaluations(k)
               \/ Policies!FindExperiments(k) \/ Policies!FindReferring(k)
                    \/ Policies!DeleteReferring(k)
               \/ Policies!BatchExperiments(k) \/ Policies!DeleteExperiments(k)
                    \/ Policies!RecordExperiments(k)
        PROVE  RetInv'
    BY <1>4, StartEvaluationsKeeps, FindEvaluationsKeeps, DeleteEvaluationsKeeps,
       RecordEvaluationsKeeps,
       FindExperimentsKeeps, FindReferringKeeps, DeleteReferringKeeps, BatchExperimentsKeeps,
       DeleteExperimentsKeeps, RecordExperimentsKeeps
  <1> QED BY <1>1, <1>2, <1>3, <1>4 DEF Policies!Next, Days

LEMMA RetInvImplies == RetInv => Policies!RetentionSafety
  <1> SUFFICES ASSUME RetInv PROVE Policies!RetentionSafety
    OBVIOUS
  <1>1. Policies!TypeOK
    BY DEF RetInv, RetTypes, Policies!TypeOK, JobState, Days, Purgeable
  <1>2. Policies!YoungGoWithTheirExperiments
    BY DEF RetInv, CollateralPursued, Pursued, Policies!YoungGoWithTheirExperiments
  <1>3. Policies!NothingUnrecorded
    <2> SUFFICES ASSUME NEW p \in Policies!Projects,
                        \A j \in Jobs : job[j].pc \in {"asleep", "done"} /\ ~job[j].failed
                 PROVE  report[p] >= Cardinality(purged[p])
      BY PoliciesCount DEF Policies!NothingUnrecorded
    <2>1. Covered(purged[p], report[p], OwedBy(p))
      BY DEF RetInv, Accounted, Unfailed
    <2>2. \A j \in Jobs : OwedBy(p)[j] = 0
      BY DEF OwedBy, Owed
    <2>3. PICK R \in SUBSET Purgeable, U \in [Jobs -> SUBSET Purgeable] :
            /\ purged[p] \subseteq R \union UNION {U[j] : j \in Jobs}
            /\ Cardinality(R) <= report[p]
            /\ \A j \in Jobs : Cardinality(U[j]) <= OwedBy(p)[j]
      BY <2>1 DEF Covered
    <2>4. \A j \in Jobs : U[j] = {}
      <3> SUFFICES ASSUME NEW j \in Jobs PROVE U[j] = {}
        OBVIOUS
      <3>1. IsFiniteSet(U[j]) /\ Cardinality(U[j]) \in Nat /\ Cardinality(U[j]) <= 0
        BY <2>2, <2>3, PurgeableFinite
      <3> QED BY <3>1, FS_EmptySet
    <2>5. purged[p] \subseteq R
      BY <2>3, <2>4
    <2>6. IsFiniteSet(R) /\ Cardinality(R) \in Nat
      BY PurgeableFinite
    <2>7. Cardinality(purged[p]) <= Cardinality(R)
      BY <2>5, <2>6, FS_Subset
    <2>8. IsFiniteSet(purged[p]) /\ Cardinality(purged[p]) \in Nat /\ report[p] \in Nat
      <3>1. purged[p] \in SUBSET Purgeable
        BY <2>5
      <3> QED BY <3>1, PurgeableFinite DEF RetInv, RetTypes
    <2> QED BY <2>3, <2>6, <2>7, <2>8
  <1> QED BY <1>1, <1>2, <1>3 DEF RetInv, Policies!RetentionSafety

(***************************************************************************)
(* However many runs of the retention job overlap, whatever settings they  *)
(* found and whatever requests come between their finds and their deletes: *)
(* nothing goes before its time but an evaluation, by the policy for       *)
(* experiments and with an experiment whose time has come, and what the    *)
(* runs deleted they have reported once they are done, unless one failed   *)
(* (RetentionService).                                                     *)
(***************************************************************************)
THEOREM RetentionIsSafe == Policies!Spec => []RetentionSafety
  <1>1. Policies!Init => RetInv
    BY RetInit
  <1>2. RetInv /\ [Policies!Next]_(Policies!retentionVars) => RetInv'
    BY RetNext
  <1>3. RetInv => RetentionSafety
    BY RetInvImplies DEF RetentionSafety
  <1> QED BY <1>1, <1>2, <1>3, PTL DEF Policies!Spec

-----------------------------------------------------------------------------
(***************************************************************************)
(* Datasets.  A row has below it, in the order of the pages, as many rows  *)
(* as were shown before it; rows that come only push it on.                *)
(***************************************************************************)

Key(sort, r) == IF sort = "id" THEN r.id ELSE r.value
Lower(sort, S, r) == {q \in S : Key(sort, q) < Key(sort, r)}
Below(sort, S, r) == Cardinality(Lower(sort, S, r))
Orderly(sort, S) == \A r, q \in S : Key(sort, r) = Key(sort, q) => r = q

\* Data counts as the modules here do.
LEMMA DataCount ==
  ASSUME NEW S
  PROVE  Data!Cardinality(S) = Cardinality(S)
  BY DEF Data!Cardinality, Cardinality

LEMMA KeyNat ==
  ASSUME NEW sort, NEW r \in Data!DatasetRow
  PROVE  Key(sort, r) \in Nat
  BY DatasetsAssumption DEF Key, Data!DatasetRow

LEMMA BelowNat ==
  ASSUME NEW sort, NEW S, IsFiniteSet(S), NEW r
  PROVE  /\ IsFiniteSet(Lower(sort, S, r)) /\ Below(sort, S, r) \in Nat
         /\ r \in S /\ S \subseteq Data!DatasetRow => Below(sort, S, r) < Cardinality(S)
  <1>1. Lower(sort, S, r) \subseteq S
    BY DEF Lower
  <1>2. IsFiniteSet(Lower(sort, S, r)) /\ Below(sort, S, r) \in Nat
    BY <1>1, FS_Subset, FS_CardinalityType DEF Below
  <1>3. ASSUME r \in S, S \subseteq Data!DatasetRow
        PROVE  Below(sort, S, r) < Cardinality(S)
    <2>1. r \notin Lower(sort, S, r)
      BY <1>3, KeyNat DEF Lower
    <2>2. Below(sort, S, r) <= Cardinality(S) /\ Below(sort, S, r) # Cardinality(S)
      BY <1>1, <1>3, <2>1, FS_Subset DEF Below
    <2> QED BY <1>2, <2>2, FS_CardinalityType
  <1> QED BY <1>2, <1>3

LEMMA BelowGrows ==
  ASSUME NEW sort, NEW S, NEW T, S \subseteq T, IsFiniteSet(T), NEW r
  PROVE  Below(sort, S, r) <= Below(sort, T, r)
  <1>1. Lower(sort, S, r) \in SUBSET Lower(sort, T, r)
    BY DEF Lower
  <1>2. IsFiniteSet(Lower(sort, T, r))
    BY BelowNat
  <1> QED BY <1>1, <1>2, FS_Subset DEF Below

\* A list has every row of its set, at the place after those below it.
LEMMA Places ==
  ASSUME NEW sort \in {"id", "column"}, NEW S, S \subseteq Data!DatasetRow, IsFiniteSet(S),
         Orderly(sort, S),
         NEW s \in Data!Lists(S), Data!InOrder(s, sort)
  PROVE  /\ DOMAIN s = 1 .. Cardinality(S)
         /\ \A i \in 1 .. Cardinality(S) : s[i] \in S /\ Below(sort, S, s[i]) = i - 1
         /\ \A r \in S : \E i \in 1 .. Cardinality(S) : s[i] = r
  <1>1. PICK n : n = Cardinality(S)
    OBVIOUS
  <1>2. n \in Nat
    BY <1>1, FS_CardinalityType
  <1>3. s \in [1 .. n -> S] /\ \A i, j \in 1 .. n : s[i] = s[j] => i = j
    BY <1>1, DataCount DEF Data!Lists
  <1>4. \A r \in S : \E i \in 1 .. n : s[i] = r
    <2>1. s \in Injection(1 .. n, S)
      BY <1>3 DEF Injection, IsInjective
    <2>2. Cardinality(1 .. n) = n /\ IsFiniteSet(1 .. n)
      BY <1>2, FS_Interval
    <2>3. s \in Surjection(1 .. n, S)
      BY <1>1, <2>1, <2>2, FS_Injection
    <2> QED BY <2>3 DEF Surjection
  <1>5. \A i, j \in 1 .. n : i < j => Key(sort, s[i]) < Key(sort, s[j])
    <2> SUFFICES ASSUME NEW i \in 1 .. n, NEW j \in 1 .. n, i < j
                 PROVE  Key(sort, s[i]) < Key(sort, s[j])
      OBVIOUS
    <2>1. s[i] \in Data!DatasetRow /\ s[j] \in Data!DatasetRow /\ s[i] # s[j] /\ s[i] \in S
            /\ s[j] \in S
      BY <1>3, <1>2
    <2>2. Key(sort, s[i]) # Key(sort, s[j])
      BY <2>1 DEF Orderly
    <2>3. Key(sort, s[i]) <= Key(sort, s[j])
      <3>1. IF sort = "id" THEN s[i].id < s[j].id ELSE s[i].value <= s[j].value
        BY <1>3 DEF Data!InOrder
      <3>2. s[i].id \in Nat /\ s[j].id \in Nat
        BY <2>1, DatasetsAssumption DEF Data!DatasetRow
      <3> QED BY <3>1, <3>2 DEF Key
    <2> QED BY <2>1, <2>2, <2>3, KeyNat
  <1>6. ASSUME NEW i \in 1 .. n
        PROVE  Below(sort, S, s[i]) = i - 1
    <2>1. \A r \in S : Key(sort, r) < Key(sort, s[i]) <=> \E j \in 1 .. (i - 1) : s[j] = r
      <3> SUFFICES ASSUME NEW r \in S
                   PROVE  Key(sort, r) < Key(sort, s[i]) <=> \E j \in 1 .. (i - 1) : s[j] = r
        OBVIOUS
      <3>1. PICK k \in 1 .. n : s[k] = r
        BY <1>4
      <3>2. Key(sort, r) \in Nat /\ Key(sort, s[i]) \in Nat
        BY <1>3, KeyNat
      <3>3. CASE k < i
        BY <3>1, <3>3, <1>2, <1>5
      <3>4. CASE k = i
        <4>1. ~(Key(sort, r) < Key(sort, s[i]))
          BY <3>1, <3>2, <3>4
        <4>2. \A j \in 1 .. (i - 1) : s[j] # r
          BY <3>1, <3>4, <1>2, <1>3
        <4> QED BY <4>1, <4>2
      <3>5. CASE i < k
        <4>1. Key(sort, s[i]) < Key(sort, r)
          BY <3>1, <3>5, <1>5
        <4>2. \A j \in 1 .. (i - 1) : s[j] # r
          BY <3>1, <3>5, <1>2, <1>3
        <4> QED BY <3>2, <4>1, <4>2
      <3> QED BY <1>2, <3>3, <3>4, <3>5
    <2>2. PICK f : f = [j \in 1 .. (i - 1) |-> s[j]]
      OBVIOUS
    <2>3. PICK L : L = Lower(sort, S, s[i])
      OBVIOUS
    <2>4. \A j \in 1 .. (i - 1) : s[j] \in L
      <3> SUFFICES ASSUME NEW j \in 1 .. (i - 1) PROVE s[j] \in L
        OBVIOUS
      <3>1. j \in 1 .. n /\ j < i
        BY <1>2
      <3> QED BY <3>1, <2>3, <1>3, <1>5 DEF Lower
    <2>5. f \in Surjection(1 .. (i - 1), L)
      <3>1. f \in [1 .. (i - 1) -> L]
        BY <2>2, <2>4
      <3>2. \A r \in L : \E j \in 1 .. (i - 1) : f[j] = r
        BY <2>1, <2>2, <2>3 DEF Lower
      <3> QED BY <3>1, <3>2 DEF Surjection
    <2>6. f \in Injection(1 .. (i - 1), L)
      <3>1. \A j, k \in 1 .. (i - 1) : f[j] = f[k] => j = k
        BY <2>2, <1>2, <1>3
      <3> QED BY <3>1, <2>5 DEF Injection, Surjection, IsInjective
    <2>7. ExistsBijection(1 .. (i - 1), L)
      BY <2>5, <2>6 DEF ExistsBijection, Bijection
    <2>8. i - 1 \in Nat
      BY <1>2
    <2> QED BY <2>3, <2>7, <2>8, FS_CountingElements DEF Below
  <1>7. DOMAIN s = 1 .. n /\ \A i \in 1 .. n : s[i] \in S
    BY <1>3
  <1> QED BY <1>1, <1>4, <1>6, <1>7

\* What a reader of S has seen and may rely on.
PagesOf(q, S) ==
  Orderly(q.sort, S) =>
    /\ q.at = "turning" =>
         /\ \A r \in q.began : r \in q.seen \/ Below(q.sort, S, r) >= q.page * PageLimit
         /\ q.grew \/ (~q.again /\ \A r \in q.seen : Below(q.sort, S, r) < q.page * PageLimit)
    /\ q.at = "counted" =>
         /\ \A r \in q.began : r \in q.seen \/ Below(q.sort, S, r) >= (q.page - 1) * PageLimit
         /\ q.grew \/ (~q.again /\ \A r \in q.seen : Below(q.sort, S, r) < (q.page - 1) * PageLimit)
         /\ q.slipped \/ q.total = Cardinality(S)
    /\ q.at = "done" =>
         /\ q.slipped \/ q.began \subseteq q.seen
         /\ q.grew \/ ~q.again

Turner ==
  [id : DatasetIds \cup {0}, page : Nat, sort : {"id", "column"}, total : Nat,
   at : {"turning", "counted", "done"}, began : SUBSET Data!DatasetRow,
     seen : SUBSET Data!DatasetRow,
   again : BOOLEAN, grew : BOOLEAN, slipped : BOOLEAN, gone : BOOLEAN]

\* A reader of a dataset that is there: S are its rows.
TurnerSound(q, S) ==
  /\ q.at = "counted" => q.page \in Nat \ {0}
  /\ q.began \subseteq S /\ q.seen \subseteq S
  /\ PagesOf(q, S)

\* What becomes of a reader in each of its steps.
Grows(q) == [q EXCEPT !.grew = TRUE, !.slipped = @ \/ q.at = "counted"]
Counts(q, n) == [q EXCEPT !.at = "counted", !.page = @ + 1, !.total = n]
Shows(q, more, met, next) == [q EXCEPT !.seen = more, !.again = met, !.at = next]

SameReader(q, g) ==
  g \in Turner /\ g.id = q.id /\ g.gone = q.gone /\ g.sort = q.sort /\ g.began = q.began
NowGrown(q, g) ==
  /\ g.at = q.at /\ g.page = q.page /\ g.seen = q.seen /\ g.grew = TRUE
  /\ g.at = "counted" => g.slipped = TRUE
NowCounted(q, n, g) ==
  /\ g.at = "counted" /\ g.page = q.page + 1 /\ g.seen = q.seen /\ g.grew = q.grew
  /\ g.again = q.again /\ g.total = n
NowShown(q, more, met, next, g) ==
  /\ g.at = next /\ g.page = q.page /\ g.seen = more /\ g.grew = q.grew
  /\ g.again = met /\ g.slipped = q.slipped

LEMMA GrownTyped ==
  ASSUME NEW q \in Turner, NEW g, g = Grows(q)
  PROVE  SameReader(q, g) /\ NowGrown(q, g)
  BY DEF Turner, Grows, SameReader, NowGrown

LEMMA CountTyped ==
  ASSUME NEW q \in Turner, NEW n \in Nat, NEW g, g = Counts(q, n)
  PROVE  SameReader(q, g) /\ NowCounted(q, n, g)
  <1>1. PICK m \in Nat : m = q.page + 1
    BY DEF Turner
  <1>2. g = [q EXCEPT !.at = "counted", !.page = m, !.total = n]
    BY <1>1 DEF Counts
  <1>3. g.at = "counted" /\ g.page = m /\ g.total = n
    BY <1>2 DEF Turner
  <1> QED BY <1>1, <1>2, <1>3 DEF Turner, SameReader, NowCounted

LEMMA ShownTyped ==
  ASSUME NEW q \in Turner, NEW more \in SUBSET Data!DatasetRow, NEW met \in BOOLEAN,
         NEW next \in {"turning", "done"}, NEW g, g = Shows(q, more, met, next)
  PROVE  SameReader(q, g) /\ NowShown(q, more, met, next, g)
  <1>1. g \in Turner
    BY DEF Turner, Shows
  <1> QED BY <1>1 DEF Turner, Shows, SameReader, NowShown

\* Rows that come push others on.
LEMMA TurnerGrown ==
  ASSUME NEW q \in Turner, NEW S, NEW T, S \subseteq T, T \subseteq Data!DatasetRow, IsFiniteSet(T),
         TurnerSound(q, S), q.at # "done",
         NEW g, g = Grows(q)
  PROVE  TurnerSound(g, T)
  <1>1. /\ g \in Turner /\ g.at = q.at /\ g.page = q.page /\ g.sort = q.sort
        /\ g.began = q.began /\ g.seen = q.seen /\ g.grew = TRUE
        /\ g.at = "counted" => g.slipped = TRUE
    BY GrownTyped DEF SameReader, NowGrown
  <1>2. Orderly(g.sort, T) => Orderly(q.sort, S)
    BY <1>1 DEF Orderly
  <1>3. IsFiniteSet(S)
    BY FS_Subset
  <1>4. ASSUME NEW r, NEW n \in Nat, Below(q.sort, S, r) >= n
        PROVE  Below(g.sort, T, r) >= n
    <2>1. Below(q.sort, S, r) <= Below(q.sort, T, r)
      BY BelowGrows
    <2>2. Below(q.sort, S, r) \in Nat /\ Below(q.sort, T, r) \in Nat
      BY <1>3, BelowNat
    <2> QED BY <1>1, <1>4, <2>1, <2>2
  <1>5. PagesOf(g, T)
    <2> SUFFICES ASSUME Orderly(g.sort, T), q.at = "turning" \/ q.at = "counted"
                 PROVE  /\ q.at = "turning" =>
                             \A r \in q.began : r \in q.seen
                               \/ Below(g.sort, T, r) >= q.page * PageLimit
                        /\ q.at = "counted" =>
                             \A r \in q.began : r \in q.seen
                               \/ Below(g.sort, T, r) >= (q.page - 1) * PageLimit
      BY <1>1 DEF PagesOf, Turner
    <2>1. ASSUME q.at = "turning", NEW r \in q.began
          PROVE  r \in q.seen \/ Below(g.sort, T, r) >= q.page * PageLimit
      <3>1. q.page * PageLimit \in Nat
        BY DatasetsAssumption DEF Turner
      <3>2. r \in q.seen \/ Below(q.sort, S, r) >= q.page * PageLimit
        BY <1>2, <2>1 DEF TurnerSound, PagesOf
      <3> QED BY <3>1, <3>2, <1>4
    <2>2. ASSUME q.at = "counted", NEW r \in q.began
          PROVE  r \in q.seen \/ Below(g.sort, T, r) >= (q.page - 1) * PageLimit
      <3>1. q.page - 1 \in Nat
        BY <2>2 DEF TurnerSound
      <3>2. (q.page - 1) * PageLimit \in Nat
        BY <3>1, DatasetsAssumption
      <3>3. r \in q.seen \/ Below(q.sort, S, r) >= (q.page - 1) * PageLimit
        BY <1>2, <2>2 DEF TurnerSound, PagesOf
      <3> QED BY <3>2, <3>3, <1>4
    <2> QED BY <2>1, <2>2
  <1> QED BY <1>1, <1>5 DEF TurnerSound

\* Nothing that is done is undone by rows that come later.
LEMMA TurnerDone ==
  ASSUME NEW q \in Turner, NEW S, NEW T, S \subseteq T, TurnerSound(q, S), q.at = "done"
  PROVE  TurnerSound(q, T)
  <1>1. Orderly(q.sort, T) => Orderly(q.sort, S)
    BY DEF Orderly
  <1> QED BY <1>1 DEF TurnerSound, PagesOf

\* The first page is yet to come.
LEMMA UnreadTyped ==
  /\ Data!Unread \in Turner /\ Data!Unread.gone
  /\ Data!Unread.page = 0 /\ Data!Unread.seen = {} /\ ~Data!Unread.again
  <1>1. PICK none \in SUBSET Data!DatasetRow : none = {}
    OBVIOUS
  <1>2. PICK q : q = Data!Unread
    OBVIOUS
  <1>3. q = [id |-> 0, page |-> 0, sort |-> "id", total |-> 0, at |-> "done", began |-> none,
             seen |-> none, again |-> FALSE, grew |-> FALSE, slipped |-> FALSE, gone |-> TRUE]
    BY <1>1, <1>2 DEF Data!Unread
  <1>4. q \in Turner
    BY <1>3 DEF Turner
  <1>5. q.gone /\ q.page = 0 /\ q.seen = {} /\ ~q.again
    BY <1>1, <1>3
  <1> QED BY <1>2, <1>4, <1>5

Starts(u, id, sort, S) ==
  [u EXCEPT !.id = id, !.at = "turning", !.sort = sort, !.began = S, !.gone = FALSE]

LEMMA TurnerBegins ==
  ASSUME NEW S, S \subseteq Data!DatasetRow, IsFiniteSet(S), NEW id \in DatasetIds,
         NEW sort \in {"id", "column"},
         NEW u \in Turner, u.page = 0, u.seen = {}, ~u.again, NEW q, q = Starts(u, id, sort, S)
  PROVE  q \in Turner /\ TurnerSound(q, S) /\ q.id = id
  <1>1. S \in SUBSET Data!DatasetRow /\ id \in DatasetIds \cup {0}
    OBVIOUS
  <1>2. q \in Turner
    BY <1>1 DEF Turner, Starts
  <1>3. q.id = id /\ q.at = "turning" /\ q.sort = sort /\ q.began = S
    BY <1>1 DEF Turner, Starts
  <1>4. q.seen = {} /\ q.page = 0 /\ ~q.again
    BY <1>1 DEF Turner, Starts
  <1>5. q.page * PageLimit = 0
    BY <1>4, DatasetsAssumption
  <1>6. \A r \in S : Below(sort, S, r) >= 0
    BY BelowNat
  <1> QED BY <1>2, <1>3, <1>4, <1>5, <1>6 DEF TurnerSound, PagesOf

\* The rows are counted.
LEMMA TurnerCounts ==
  ASSUME NEW q \in Turner, NEW S, IsFiniteSet(S), TurnerSound(q, S), q.at = "turning", NEW g,
         g = Counts(q, Cardinality(S))
  PROVE  TurnerSound(g, S)
  <1>1. PICK n \in Nat : n = Cardinality(S)
    BY FS_CardinalityType
  <1>2. /\ g \in Turner /\ g.at = "counted" /\ g.page = q.page + 1 /\ g.sort = q.sort /\ g.id = q.id
        /\ g.began = q.began /\ g.seen = q.seen /\ g.grew = q.grew /\ g.again = q.again
        /\ g.total = Cardinality(S)
    BY <1>1, CountTyped DEF SameReader, NowCounted
  <1>3. g.page - 1 = q.page /\ g.page \in Nat \ {0}
    BY <1>2 DEF Turner
  <1>4. (g.page - 1) * PageLimit = q.page * PageLimit
    BY <1>3
  <1> QED BY <1>2, <1>3, <1>4 DEF TurnerSound, PagesOf

\* A page shows the rows of its places, whatever of equal rows comes first.
LEMMA TurnerShows ==
  ASSUME NEW q \in Turner, NEW S, S \subseteq Data!DatasetRow, IsFiniteSet(S), TurnerSound(q, S),
         q.at = "counted",
         NEW s \in Data!Lists(S), Data!InOrder(s, q.sort),
         NEW shown, shown = {s[i] : i \in {k \in DOMAIN s :
                               (q.page - 1) * PageLimit < k
                                 /\ k <= (q.page - 1) * PageLimit + PageLimit}},
         NEW more, more = q.seen \cup shown,
         NEW met \in BOOLEAN, met = (q.again \/ shown \cap q.seen # {}),
         NEW next \in {"turning", "done"},
           next = IF Data!HasNext(q.page, q.total) THEN "turning" ELSE "done",
         NEW g, g = Shows(q, more, met, next)
  PROVE  TurnerSound(g, S)
  <1>1. PICK n : n = Cardinality(S)
    OBVIOUS
  <1>2. n \in Nat /\ q.page \in Nat \ {0} /\ q.page - 1 \in Nat
    BY <1>1, FS_CardinalityType DEF TurnerSound
  <1>3. PICK low : low = (q.page - 1) * PageLimit
    OBVIOUS
  <1>4. PICK high : high = q.page * PageLimit
    OBVIOUS
  <1>5. low \in Nat /\ high \in Nat /\ high = low + PageLimit
    BY <1>2, <1>3, <1>4, DatasetsAssumption
  <1>6. shown = {s[i] : i \in {k \in DOMAIN s : low < k /\ k <= high}}
    BY <1>3, <1>5
  <1>7. shown \subseteq S
    BY <1>6 DEF Data!Lists
  <1>8. more \in SUBSET Data!DatasetRow
    BY <1>7 DEF Turner
  <1>9. SameReader(q, g) /\ NowShown(q, more, met, next, g)
    BY <1>8, ShownTyped, Zenon
  <1>12. /\ g \in Turner /\ g.at = next /\ g.page = q.page /\ g.sort = q.sort /\ g.id = q.id
         /\ g.began = q.began /\ g.seen = q.seen \cup shown /\ g.grew = q.grew /\ g.again = met
         /\ g.slipped = q.slipped
    BY <1>9 DEF SameReader, NowShown
  <1>13. ASSUME Orderly(q.sort, S)
         PROVE  /\ \A r \in q.began : r \in g.seen \/ Below(q.sort, S, r) >= high
                /\ q.grew \/ (~met /\ \A r \in g.seen : Below(q.sort, S, r) < high)
                /\ q.slipped \/ q.total = n
    <2>1. q.sort \in {"id", "column"}
      BY DEF Turner
    <2>2. /\ DOMAIN s = 1 .. n
          /\ \A i \in 1 .. n : s[i] \in S /\ Below(q.sort, S, s[i]) = i - 1
          /\ \A r \in S : \E i \in 1 .. n : s[i] = r
      BY <1>1, <1>13, <2>1, Places
    <2>3. /\ \A r \in q.began : r \in q.seen \/ Below(q.sort, S, r) >= low
          /\ q.grew \/ (~q.again /\ \A r \in q.seen : Below(q.sort, S, r) < low)
          /\ q.slipped \/ q.total = n
      BY <1>1, <1>3, <1>13 DEF TurnerSound, PagesOf
    <2>4. ASSUME NEW r \in q.began
          PROVE  r \in g.seen \/ Below(q.sort, S, r) >= high
      <3>1. PICK i \in 1 .. n : s[i] = r
        BY <2>2 DEF TurnerSound
      <3>2. Below(q.sort, S, r) = i - 1
        BY <2>2, <3>1
      <3>3. CASE r \in q.seen
        BY <3>3, <1>12
      <3>4. CASE i - 1 >= low /\ i <= high
        <4>1. i \in DOMAIN s /\ low < i /\ i <= high
          BY <3>4, <2>2, <1>2, <1>5
        <4>2. r \in shown
          BY <4>1, <3>1, <1>6
        <4> QED BY <4>2, <1>12
      <3>5. CASE i > high
        BY <3>2, <3>5, <1>2, <1>5
      <3> QED BY <2>3, <3>2, <3>3, <3>4, <3>5, <1>2, <1>5
    <2>5. \A r \in shown : low <= Below(q.sort, S, r) /\ Below(q.sort, S, r) < high
      <3> SUFFICES ASSUME NEW r \in shown
                   PROVE  low <= Below(q.sort, S, r) /\ Below(q.sort, S, r) < high
        OBVIOUS
      <3>1. PICK i \in DOMAIN s : low < i /\ i <= high /\ r = s[i]
        BY <1>6
      <3>2. i \in 1 .. n /\ Below(q.sort, S, r) = i - 1
        BY <2>2, <3>1
      <3> QED BY <3>1, <3>2, <1>2, <1>5
    <2>6. ASSUME ~q.grew
          PROVE  ~met /\ \A r \in g.seen : Below(q.sort, S, r) < high
      <3>1. ~q.again /\ \A r \in q.seen : Below(q.sort, S, r) < low
        BY <2>3, <2>6
      <3>2. \A r \in q.seen \cup shown : Below(q.sort, S, r) \in Nat
        BY BelowNat
      <3>3. shown \cap q.seen = {}
        <4> SUFFICES ASSUME NEW r \in shown, r \in q.seen PROVE FALSE
          OBVIOUS
        <4> QED BY <2>5, <3>1, <3>2, <1>5
      <3>4. \A r \in g.seen : Below(q.sort, S, r) < high
        <4> SUFFICES ASSUME NEW r \in q.seen \cup shown PROVE Below(q.sort, S, r) < high
          BY <1>12
        <4>1. low <= high
          BY <1>5, DatasetsAssumption
        <4> QED BY <4>1, <2>5, <3>1, <3>2, <1>5
      <3> QED BY <3>1, <3>3, <3>4
    <2>7. q.grew \/ (~met /\ \A r \in g.seen : Below(q.sort, S, r) < high)
      BY <2>6
    <2> QED BY <2>3, <2>4, <2>7
  <1>14. ASSUME Orderly(q.sort, S), next = "done", ~q.slipped
         PROVE  q.began \subseteq g.seen
    <2>1. ~(q.page * PageLimit < q.total)
      BY <1>14 DEF Data!HasNext
    <2>2. q.total = n
      BY <1>13, <1>14
    <2>3. n <= high
      BY <1>2, <1>4, <1>5, <2>1, <2>2
    <2> SUFFICES ASSUME NEW r \in q.began PROVE r \in g.seen
      OBVIOUS
    <2>4. r \in S
      BY DEF TurnerSound
    <2>5. Below(q.sort, S, r) \in Nat /\ Below(q.sort, S, r) < n
      BY <1>1, <2>4, BelowNat
    <2>6. ~(Below(q.sort, S, r) >= high)
      BY <1>2, <1>5, <2>3, <2>5
    <2> QED BY <1>13, <1>14, <2>6
  <1>15. PagesOf(g, S)
    <2>1. CASE next = "turning"
      BY <2>1, <1>4, <1>12, <1>13 DEF PagesOf
    <2>2. CASE next = "done"
      BY <2>2, <1>12, <1>13, <1>14 DEF PagesOf
    <2> QED BY <2>1, <2>2
  <1>16. g.at # "counted" /\ g.began \subseteq S /\ g.seen \subseteq S
    BY <1>7, <1>12 DEF TurnerSound
  <1> QED BY <1>12, <1>15, <1>16 DEF TurnerSound

(***************************************************************************)
(* The invariant, in parts.                                                *)
(***************************************************************************)
HasDataset(id) == \E d \in datasets : d.id = id
Has(id, header) == \E d \in datasets : d.id = id /\ d.header = header

DataTypes ==
  /\ idsUsed \subseteq DatasetIds \cup RowIds
  /\ removedDatasets \subseteq DatasetIds /\ lostImports \subseteq DatasetIds
  /\ logged \subseteq DatasetIds

\* A dataset has one row, and a copy that waits to be saved agrees with it.
DatasetsSound ==
  /\ datasets \subseteq Data!Dataset
  /\ \A d \in datasets : d.id \in idsUsed
  /\ \A d, e \in datasets : d.id = e.id => d = e
  /\ \A s, t \in saving : s = t
  /\ \A s \in saving : s.copy \in Data!Dataset /\ s.copy.id \in idsUsed
  /\ \A s \in saving, d \in datasets : d.id = s.copy.id => d = s.copy

DataRowsSound ==
  /\ datasetRows \subseteq Data!DatasetRow /\ IsFiniteSet(datasetRows)
  /\ \A r \in datasetRows : r.id \in idsUsed
  /\ \A r, q \in datasetRows : r.id = q.id => r = q
  /\ Data!RowsFitTheHeader

\* What an import has read of its file is not in the database yet.
Pending(i) == i.staged \cup i.batch
Import ==
  [at : {"reading", "recorded"}, id : DatasetIds, header : Headers, records : Seq(Nat),
   staged : SUBSET Data!DatasetRow, batch : SUBSET Data!DatasetRow, widths : Seq(Nat)]
ReadSoFar(i) ==
  /\ i \in Import /\ Data!ValidHeader(i.header)
  /\ IsFiniteSet(Pending(i))
  /\ Cardinality(Pending(i)) + Len(i.records) = Len(i.widths)
  /\ \A r \in Pending(i) : r.of = i.id /\ r.width = Len(i.header)
  /\ \A r, q \in Pending(i) : r.id = q.id => r = q
  /\ i.at = "recorded" => i.batch = {} /\ i.records = <<>>
Unseen(i) ==
  /\ i.id \in idsUsed /\ i.id \notin DOMAIN files
  /\ i.id \in logged => i.at = "recorded"
  /\ \A d \in datasets : d.id # i.id
  /\ \A s \in saving : s.copy.id # i.id
  /\ \A r \in datasetRows : r.of # i.id
  /\ \A r \in Pending(i) : r.id \in idsUsed /\ \A q \in datasetRows : q.id # r.id
ImportSound == import = Data!NoImport \/ (ReadSoFar(import) /\ Unseen(import))

\* What was imported is there until it is removed.
FilesSound ==
  /\ DOMAIN files \subseteq idsUsed
  /\ \A id \in DOMAIN files : files[id] \in Seq(Nat)
  /\ \A id \in DOMAIN files \ removedDatasets :
       HasDataset(id) /\ Cardinality(Data!RowsOf(id)) >= Len(files[id])
  /\ \A d \in datasets : d.id \in DOMAIN files => Data!ValidHeader(d.header)
  /\ \A s \in saving : s.copy.id \in DOMAIN files => Data!ValidHeader(s.copy.header)

LogSound == logged \subseteq idsUsed /\ Data!LoggedImportsExist

PageReaderSound ==
  /\ turner \in Turner
  /\ ~turner.gone => HasDataset(turner.id) /\ TurnerSound(turner, Data!RowsOf(turner.id))

DataInv ==
  /\ DataTypes /\ DatasetsSound /\ DataRowsSound /\ ImportSound /\ FilesSound /\ LogSound
  /\ PageReaderSound

(***************************************************************************)
(* What a step leaves alone, it keeps.                                     *)
(***************************************************************************)
LEMMA KeptDatasets ==
  ASSUME DatasetsSound, UNCHANGED <<datasets, saving>>, idsUsed \subseteq idsUsed'
  PROVE  DatasetsSound'
  BY DEF DatasetsSound

LEMMA KeptRows ==
  ASSUME DataRowsSound, UNCHANGED <<datasets, datasetRows>>, idsUsed \subseteq idsUsed'
  PROVE  DataRowsSound'
  BY DEF DataRowsSound, Data!RowsFitTheHeader, Data!Width

LEMMA KeptImport ==
  ASSUME ImportSound, UNCHANGED <<import, datasets, datasetRows, saving, files, logged>>,
         idsUsed \subseteq idsUsed'
  PROVE  ImportSound'
  <1>1. CASE import = Data!NoImport
    BY <1>1 DEF ImportSound, Data!NoImport
  <1>2. CASE ReadSoFar(import) /\ Unseen(import)
    BY <1>2 DEF ImportSound, ReadSoFar, Unseen, Pending, Data!ValidHeader, Import, Data!DatasetRow
  <1> QED BY <1>1, <1>2 DEF ImportSound

LEMMA KeptFiles ==
  ASSUME FilesSound, UNCHANGED <<datasets, datasetRows, saving, files, removedDatasets>>,
         idsUsed \subseteq idsUsed'
  PROVE  FilesSound'
  BY DEF FilesSound, HasDataset, Data!RowsOf, Data!ValidHeader

LEMMA KeptLog ==
  ASSUME LogSound, UNCHANGED <<logged, import, files, lostImports>>, idsUsed \subseteq idsUsed'
  PROVE  LogSound'
  BY DEF LogSound, Data!LoggedImportsExist

LEMMA KeptReader ==
  ASSUME PageReaderSound, UNCHANGED <<turner, datasetRows, datasets>>
  PROVE  PageReaderSound'
  BY DEF PageReaderSound, HasDataset, Data!RowsOf

LEMMA DataInit ==
  ASSUME Data!Init
  PROVE  DataInv
  <1>1. DataTypes /\ DatasetsSound
    BY DEF Data!Init, DataTypes, DatasetsSound
  <1>2. DataRowsSound
    BY FS_EmptySet DEF Data!Init, DataRowsSound, Data!RowsFitTheHeader
  <1>3. ImportSound
    BY DEF Data!Init, ImportSound
  <1>4. FilesSound /\ LogSound
    BY DEF Data!Init, FilesSound, LogSound, Data!LoggedImportsExist
  <1>5. PageReaderSound
    BY UnreadTyped DEF Data!Init, PageReaderSound
  <1> QED BY <1>1, <1>2, <1>3, <1>4, <1>5 DEF DataInv

LEMMA CreateSound ==
  ASSUME DataInv, NEW id \in DatasetIds, NEW header \in Headers, Data!Create(id, header)
  PROVE  DataInv'
  <1>1. PICK new \in Data!Dataset : new = [id |-> id, header |-> header] /\ new.id = id
    <2>1. PICK n : n = [id |-> id, header |-> header]
      OBVIOUS
    <2>2. n \in Data!Dataset /\ n.id = id
      BY <2>1 DEF Data!Dataset
    <2> QED BY <2>1, <2>2
  <1>2. /\ datasets' = datasets \cup {new} /\ idsUsed' = idsUsed \cup {id} /\ id \notin idsUsed
        /\ UNCHANGED <<datasetRows, saving, import, logged, files, lostImports,
                       removedDatasets, turner>>
    BY <1>1 DEF Data!Create, Data!Fresh
  <1>3. DataTypes'
    BY <1>2 DEF DataInv, DataTypes
  <1>4. DatasetsSound'
    BY <1>1, <1>2 DEF DataInv, DatasetsSound
  <1>5. DataRowsSound'
    BY <1>1, <1>2 DEF DataInv, DataRowsSound, Data!RowsFitTheHeader, Data!Width
  <1>6. ImportSound'
    <2>1. CASE import = Data!NoImport
      BY <2>1, <1>2 DEF ImportSound, Data!NoImport
    <2>2. CASE ReadSoFar(import) /\ Unseen(import)
      <3>1. ReadSoFar(import)'
        BY <2>2, <1>2 DEF ReadSoFar, Pending, Data!ValidHeader, Import, Data!DatasetRow
      <3>2. Unseen(import)'
        BY <2>2, <1>1, <1>2 DEF Unseen, Pending
      <3> QED BY <3>1, <3>2 DEF ImportSound
    <2> QED BY <2>1, <2>2 DEF DataInv, ImportSound
  <1>7. FilesSound'
    BY <1>1, <1>2 DEF DataInv, FilesSound, HasDataset, Data!RowsOf, Data!ValidHeader
  <1>8. LogSound'
    BY <1>2, KeptLog DEF DataInv
  <1>9. PageReaderSound'
    BY <1>1, <1>2 DEF DataInv, PageReaderSound, HasDataset, Data!RowsOf
  <1> QED BY <1>3, <1>4, <1>5, <1>6, <1>7, <1>8, <1>9 DEF DataInv

LEMMA ReadSound ==
  ASSUME DataInv, NEW op, Data!Read(op)
  PROVE  DataInv'
  <1>1. /\ saving = {} /\ UNCHANGED <<datasets, datasetRows, idsUsed, import, logged, files,
                                      lostImports, removedDatasets, turner>>
    BY DEF Data!Read
  <1>2. PICK d, s : d \in datasets /\ s = [op |-> op, copy |-> d] /\ saving' = {s}
    BY DEF Data!Read
  <1>3. s.copy = d
    BY <1>2
  <1>4. DatasetsSound'
    BY <1>1, <1>2, <1>3 DEF DataInv, DatasetsSound
  <1>5. DataTypes' /\ DataRowsSound' /\ LogSound' /\ PageReaderSound'
    BY <1>1, KeptRows, KeptLog, KeptReader DEF DataInv, DataTypes
  <1>6. ImportSound'
    <2>1. CASE import = Data!NoImport
      BY <2>1, <1>1 DEF ImportSound, Data!NoImport
    <2>2. CASE ReadSoFar(import) /\ Unseen(import)
      <3>1. ReadSoFar(import)'
        BY <2>2, <1>1 DEF ReadSoFar, Pending, Data!ValidHeader, Import, Data!DatasetRow
      <3>2. Unseen(import)'
        BY <2>2, <1>1, <1>2, <1>3 DEF Unseen, Pending
      <3> QED BY <3>1, <3>2 DEF ImportSound
    <2> QED BY <2>1, <2>2 DEF DataInv, ImportSound
  <1>7. FilesSound'
    <2>1. d.id \in DOMAIN files => Data!ValidHeader(d.header)
      BY <1>2 DEF DataInv, FilesSound
    <2>2. \A t \in saving' : t.copy.id \in DOMAIN files => Data!ValidHeader(t.copy.header)
      BY <1>2, <1>3, <2>1, Zenon
    <2>3. (\A id \in DOMAIN files \ removedDatasets :
             HasDataset(id) /\ Cardinality(Data!RowsOf(id)) >= Len(files[id]))'
      BY <1>1 DEF DataInv, FilesSound, HasDataset, Data!RowsOf
    <2> QED BY <1>1, <2>2, <2>3 DEF DataInv, FilesSound, Data!ValidHeader
  <1> QED BY <1>4, <1>5, <1>6, <1>7 DEF DataInv

LEMMA UpdateSound ==
  ASSUME DataInv, Data!Update
  PROVE  DataInv'
  <1>1. PICK s \in saving : datasets' = datasets \cup {s.copy} /\ saving' = {}
                            /\ UNCHANGED <<datasetRows, idsUsed, import, logged, files,
                                           lostImports, removedDatasets, turner>>
    BY DEF Data!Update
  <1>2. PICK new \in Data!Dataset : new = s.copy
    BY DEF DataInv, DatasetsSound
  <1>3. datasets' = datasets \cup {new} /\ new.id \in idsUsed
          /\ \A d \in datasets : d.id = new.id => d = new
    BY <1>1, <1>2 DEF DataInv, DatasetsSound
  <1>4. DatasetsSound'
    BY <1>1, <1>3 DEF DataInv, DatasetsSound
  <1>5. DataRowsSound'
    BY <1>1, <1>3 DEF DataInv, DataRowsSound, Data!RowsFitTheHeader, Data!Width
  <1>6. DataTypes' /\ LogSound'
    BY <1>1, KeptLog DEF DataInv, DataTypes
  <1>7. ImportSound'
    <2>1. CASE import = Data!NoImport
      BY <2>1, <1>1 DEF ImportSound, Data!NoImport
    <2>2. CASE ReadSoFar(import) /\ Unseen(import)
      <3>1. ReadSoFar(import)'
        BY <2>2, <1>1 DEF ReadSoFar, Pending, Data!ValidHeader, Import, Data!DatasetRow
      <3>2. new.id # import.id
        BY <2>2, <1>2 DEF Unseen
      <3>3. Unseen(import)'
        BY <2>2, <1>1, <1>3, <3>2 DEF Unseen, Pending
      <3> QED BY <3>1, <3>3 DEF ImportSound
    <2> QED BY <2>1, <2>2 DEF DataInv, ImportSound
  <1>8. FilesSound'
    <2>1. new.id \in DOMAIN files => Data!ValidHeader(new.header)
      BY <1>2 DEF DataInv, FilesSound
    <2> QED BY <1>1, <1>3, <2>1 DEF DataInv, FilesSound, HasDataset, Data!RowsOf, Data!ValidHeader
  <1>9. PageReaderSound'
    BY <1>1, <1>3 DEF DataInv, PageReaderSound, HasDataset, Data!RowsOf
  <1> QED BY <1>4, <1>5, <1>6, <1>7, <1>8, <1>9 DEF DataInv

LEMMA RemoveSound ==
  ASSUME DataInv, NEW id \in DatasetIds, Data!RemoveDataset(id)
  PROVE  DataInv'
  <1>1. /\ datasets' = {d \in datasets : d.id # id} /\ datasetRows' = datasetRows \ Data!RowsOf(id)
        /\ removedDatasets' = removedDatasets \cup {id}
        /\ turner' = IF id = turner.id THEN [turner EXCEPT !.gone = TRUE] ELSE turner
        /\ UNCHANGED <<idsUsed, saving, import, logged, files, lostImports>>
    BY DEF Data!RemoveDataset
  <1>2. \A k : k # id => Data!RowsOf(k)' = Data!RowsOf(k)
    BY <1>1 DEF Data!RowsOf
  <1>3. \A k : k # id /\ HasDataset(k) => HasDataset(k)'
    BY <1>1 DEF HasDataset
  <1>4. DatasetsSound'
    BY <1>1 DEF DataInv, DatasetsSound
  <1>5. DataRowsSound'
    <2>1. IsFiniteSet(datasetRows') /\ datasetRows' \subseteq datasetRows
      BY <1>1, FS_Subset DEF DataInv, DataRowsSound
    <2>2. Data!RowsFitTheHeader'
      BY <1>1 DEF DataInv, DataRowsSound, Data!RowsFitTheHeader, Data!RowsOf, Data!Width
    <2> QED BY <1>1, <2>1, <2>2 DEF DataInv, DataRowsSound
  <1>6. DataTypes' /\ LogSound'
    BY <1>1, KeptLog DEF DataInv, DataTypes
  <1>7. ImportSound'
    <2>1. CASE import = Data!NoImport
      BY <2>1, <1>1 DEF ImportSound, Data!NoImport
    <2>2. CASE ReadSoFar(import) /\ Unseen(import)
      <3>1. ReadSoFar(import)'
        BY <2>2, <1>1 DEF ReadSoFar, Pending, Data!ValidHeader, Import, Data!DatasetRow
      <3>2. Unseen(import)'
        BY <2>2, <1>1 DEF Unseen, Pending
      <3> QED BY <3>1, <3>2 DEF ImportSound
    <2> QED BY <2>1, <2>2 DEF DataInv, ImportSound
  <1>8. FilesSound'
    <2>1. \A k \in DOMAIN files' \ removedDatasets' :
            HasDataset(k)' /\ Cardinality(Data!RowsOf(k))' >= Len(files'[k])
      BY <1>1, <1>2, <1>3 DEF DataInv, FilesSound
    <2> QED BY <1>1, <2>1 DEF DataInv, FilesSound, Data!ValidHeader
  <1>9. PageReaderSound'
    <2>1. CASE id = turner.id
      BY <2>1, <1>1 DEF DataInv, PageReaderSound, Turner
    <2>2. CASE id # turner.id
      <3>1. turner' = turner
        BY <2>2, <1>1
      <3>2. turner' \in Turner
        BY <3>1 DEF DataInv, PageReaderSound, Turner
      <3>3. ASSUME ~turner.gone PROVE HasDataset(turner.id)'
                     /\ TurnerSound(turner', Data!RowsOf(turner.id)')
        BY <3>1, <3>3, <2>2, <1>2, <1>3 DEF DataInv, PageReaderSound
      <3> QED BY <3>1, <3>2, <3>3 DEF PageReaderSound
    <2> QED BY <2>1, <2>2
  <1> QED BY <1>4, <1>5, <1>6, <1>7, <1>8, <1>9 DEF DataInv

\* A row comes to a dataset that is there.
LEMMA RowComes ==
  ASSUME DataInv, NEW copy \in datasets, NEW new \in Data!DatasetRow,
         new.of = copy.id, new.width = Data!Width(copy), new.id \notin idsUsed,
         datasetRows' = datasetRows \cup {new}, idsUsed' = idsUsed \cup {new.id},
           turner' = Data!Grown(copy.id),
         saving' = {}, UNCHANGED <<datasets, import, logged, files, lostImports, removedDatasets>>
  PROVE  DataInv'
  <1>1. idsUsed \subseteq idsUsed' /\ new.id \in RowIds
    BY DEF Data!DatasetRow
  <1>2. \A k : Data!RowsOf(k) \subseteq Data!RowsOf(k)'
          /\ (k # copy.id => Data!RowsOf(k)' = Data!RowsOf(k))
    BY DEF Data!RowsOf
  <1>3. IsFiniteSet(datasetRows') /\ datasetRows' \subseteq Data!DatasetRow
    BY FS_AddElement DEF DataInv, DataRowsSound
  <1>4. \A k : IsFiniteSet(Data!RowsOf(k)') /\ Data!RowsOf(k)' \subseteq Data!DatasetRow
    <2> SUFFICES ASSUME NEW k PROVE IsFiniteSet(Data!RowsOf(k)')
                        /\ Data!RowsOf(k)' \subseteq Data!DatasetRow
      OBVIOUS
    <2>1. Data!RowsOf(k)' \subseteq datasetRows'
      BY DEF Data!RowsOf
    <2> QED BY <2>1, <1>3, FS_Subset
  <1>5. DataTypes'
    BY <1>1 DEF DataInv, DataTypes
  <1>6. DatasetsSound'
    BY <1>1 DEF DataInv, DatasetsSound
  <1>7. DataRowsSound'
    BY <1>1, <1>3 DEF DataInv, DataRowsSound, Data!RowsFitTheHeader, Data!Width
  <1>8. ImportSound'
    <2>1. CASE import = Data!NoImport
      BY <2>1 DEF ImportSound, Data!NoImport
    <2>2. CASE ReadSoFar(import) /\ Unseen(import)
      <3>1. ReadSoFar(import)'
        BY <2>2 DEF ReadSoFar, Pending, Data!ValidHeader, Import, Data!DatasetRow
      <3>2. Unseen(import)'
        BY <2>2, <1>1 DEF Unseen, Pending
      <3> QED BY <3>1, <3>2 DEF ImportSound
    <2> QED BY <2>1, <2>2 DEF DataInv, ImportSound
  <1>9. FilesSound'
    <2>1. ASSUME NEW k \in DOMAIN files, k \notin removedDatasets
          PROVE  HasDataset(k)' /\ Cardinality(Data!RowsOf(k)') >= Len(files[k])
      <3>1. HasDataset(k)' /\ Cardinality(Data!RowsOf(k)) >= Len(files[k]) /\ Len(files[k]) \in Nat
        BY <2>1 DEF DataInv, FilesSound, HasDataset
      <3>2. Data!RowsOf(k) \in SUBSET Data!RowsOf(k)'
        BY <1>2
      <3>3. IsFiniteSet(Data!RowsOf(k))
              /\ Cardinality(Data!RowsOf(k)) <= Cardinality(Data!RowsOf(k)')
        BY <3>2, <1>4, FS_Subset
      <3>4. Cardinality(Data!RowsOf(k)) \in Nat /\ Cardinality(Data!RowsOf(k)') \in Nat
        BY <3>3, <1>4, FS_CardinalityType
      <3> QED BY <3>1, <3>3, <3>4
    <2>2. \A k \in (DOMAIN files \ removedDatasets)' : (HasDataset(k)
            /\ Cardinality(Data!RowsOf(k)) >= Len(files[k]))'
      BY <2>1
    <2> QED BY <1>1, <2>2 DEF DataInv, FilesSound, Data!ValidHeader
  <1>10. LogSound'
    BY <1>1, KeptLog DEF DataInv
  <1>11. PageReaderSound'
    <2>1. turner \in Turner
      BY DEF DataInv, PageReaderSound
    <2>2. \A k : HasDataset(k) => HasDataset(k)'
      BY DEF HasDataset
    <2>3. CASE copy.id # turner.id
      <3>1. turner' = turner /\ Data!RowsOf(turner.id)' = Data!RowsOf(turner.id)
        BY <2>3, <1>2 DEF Data!Grown
      <3> QED BY <3>1, <2>2 DEF DataInv, PageReaderSound, Turner, Data!DatasetRow
    <2>4. CASE turner.at = "done"
      <3>1. turner' = turner
        BY <2>4 DEF Data!Grown
      <3>2. PICK S, T : S = Data!RowsOf(turner.id) /\ T = Data!RowsOf(turner.id)'
        OBVIOUS
      <3>3. S \subseteq T
        BY <3>1, <3>2, <1>2
      <3>4. ASSUME ~turner.gone PROVE TurnerSound(turner, T)
        <4>1. TurnerSound(turner, S)
          BY <3>2, <3>4 DEF DataInv, PageReaderSound
        <4> QED BY <2>1, <2>4, <3>3, <4>1, TurnerDone
      <3>5. turner' \in Turner'
        BY <2>1, <3>1 DEF Turner, Data!DatasetRow
      <3>6. ~turner.gone => HasDataset(turner.id)'
        BY <3>1, <2>2 DEF DataInv, PageReaderSound
      <3> QED BY <3>1, <3>2, <3>4, <3>5, <3>6 DEF PageReaderSound
    <2>5. CASE copy.id = turner.id /\ turner.at # "done"
      <3>1. PICK g : g = turner'
        OBVIOUS
      <3>2. g = Grows(turner)
        BY <2>5, <3>1 DEF Data!Grown, Grows
      <3>3. SameReader(turner, g)
        BY <2>1, <3>2, GrownTyped
      <3>4. g \in Turner /\ g.id = turner.id /\ g.gone = turner.gone
        BY <3>3 DEF SameReader
      <3>5. PICK S, T : S = Data!RowsOf(turner.id) /\ T = Data!RowsOf(turner.id)'
        OBVIOUS
      <3>6. S \subseteq T /\ T \subseteq Data!DatasetRow /\ IsFiniteSet(T)
        BY <3>1, <3>4, <3>5, <1>2, <1>4
      <3>7. ASSUME ~turner.gone PROVE TurnerSound(g, T)
        <4>1. TurnerSound(turner, S)
          BY <3>5, <3>7 DEF DataInv, PageReaderSound
        <4> QED BY <2>1, <2>5, <3>2, <3>6, <4>1, TurnerGrown
      <3>8. ~turner.gone => HasDataset(turner.id)'
        BY <3>1, <3>4, <2>2 DEF DataInv, PageReaderSound
      <3> QED BY <3>1, <3>4, <3>5, <3>7, <3>8 DEF PageReaderSound
    <2> QED BY <2>3, <2>4, <2>5
  <1> QED BY <1>5, <1>6, <1>7, <1>8, <1>9, <1>10, <1>11 DEF DataInv

LEMMA UpsertSound ==
  ASSUME DataInv, NEW width \in Nat, NEW value \in Values, Data!UpsertRow(width, value)
  PROVE  DataInv'
  <1>1. PICK s \in saving :
          /\ saving' = {}
          /\ IF Data!Fits(width, s.copy) /\ s.copy \in datasets
               THEN \E r \in Data!Fresh(RowIds) :
                      /\ datasetRows' = datasetRows \cup {[id |-> r, of |-> s.copy.id,
                           width |-> width, value |-> value]}
                      /\ idsUsed' = idsUsed \cup {r}
                      /\ turner' = Data!Grown(s.copy.id)
               ELSE UNCHANGED <<datasetRows, idsUsed, turner>>
          /\ UNCHANGED <<datasets, import, logged, files, lostImports, removedDatasets>>
    BY DEF Data!UpsertRow
  <1>2. CASE Data!Fits(width, s.copy) /\ s.copy \in datasets
    <2>1. PICK r, new :
            /\ r \in Data!Fresh(RowIds)
            /\ new = [id |-> r, of |-> s.copy.id, width |-> width, value |-> value]
            /\ datasetRows' = datasetRows \cup {new} /\ idsUsed' = idsUsed \cup {r}
            /\ turner' = Data!Grown(s.copy.id)
      BY <1>1, <1>2
    <2>2. s.copy.id \in DatasetIds
      BY <1>2 DEF DataInv, DatasetsSound, Data!Dataset
    <2>3. new \in Data!DatasetRow /\ new.id = r /\ new.of = s.copy.id /\ new.width = width
      BY <2>1, <2>2 DEF Data!DatasetRow, Data!Fresh
    <2>4. width = Data!Width(s.copy) /\ r \notin idsUsed
      BY <1>2, <2>1 DEF Data!Fits, Data!Fresh
    <2> QED BY <1>1, <1>2, <2>1, <2>3, <2>4, RowComes
  <1>3. CASE ~(Data!Fits(width, s.copy) /\ s.copy \in datasets)
    <2>1. saving' = {} /\ UNCHANGED <<datasets, datasetRows, idsUsed, import, logged, files,
                                      lostImports, removedDatasets, turner>>
      BY <1>1, <1>3
    <2>2. DatasetsSound'
      BY <2>1 DEF DataInv, DatasetsSound
    <2>3. DataTypes' /\ DataRowsSound' /\ LogSound' /\ PageReaderSound'
      BY <2>1, KeptRows, KeptLog, KeptReader DEF DataInv, DataTypes
    <2>4. ImportSound'
      <3>1. CASE import = Data!NoImport
        BY <3>1, <2>1 DEF ImportSound, Data!NoImport
      <3>2. CASE ReadSoFar(import) /\ Unseen(import)
        <4>1. ReadSoFar(import)'
          BY <3>2, <2>1 DEF ReadSoFar, Pending, Data!ValidHeader, Import, Data!DatasetRow
        <4>2. Unseen(import)'
          BY <3>2, <2>1 DEF Unseen, Pending
        <4> QED BY <4>1, <4>2 DEF ImportSound
      <3> QED BY <3>1, <3>2 DEF DataInv, ImportSound
    <2>5. FilesSound'
      BY <2>1 DEF DataInv, FilesSound, HasDataset, Data!RowsOf, Data!ValidHeader
    <2> QED BY <2>2, <2>3, <2>4, <2>5 DEF DataInv
  <1> QED BY <1>2, <1>3

(***************************************************************************)
(* The steps of an import.                                                 *)
(***************************************************************************)
\* The database stays as it is while an import reads its file.
LEMMA OnlyImport ==
  ASSUME DataInv, UNCHANGED <<datasets, datasetRows, saving, files, removedDatasets, turner>>,
         idsUsed \subseteq idsUsed',
         ImportSound', LogSound', DataTypes'
  PROVE  DataInv'
  BY KeptDatasets, KeptRows, KeptFiles, KeptReader DEF DataInv

LEMMA ReadsOn ==
  ASSUME NEW i, ReadSoFar(i), import' = i
  PROVE  ReadSoFar(import)'
  BY DEF ReadSoFar, Pending, Data!ValidHeader, Import, Data!DatasetRow

LEMMA HeaderLen ==
  ASSUME NEW h \in Headers
  PROVE  h \in Seq(STRING) /\ Len(h) \in Nat /\ DOMAIN h = 1 .. Len(h)
  <1>1. h \in Seq(STRING)
    BY DatasetsAssumption
  <1> QED BY <1>1

LEMMA BeginImportSound ==
  ASSUME DataInv, NEW id \in DatasetIds, NEW header \in Headers, NEW records \in Seq(Nat),
         Data!BeginImport(id, header, records)
  PROVE  DataInv'
  <1>1. /\ import = Data!NoImport /\ id \notin idsUsed
        /\ UNCHANGED <<datasets, datasetRows, saving, logged, files, lostImports,
                       removedDatasets, turner>>
    BY DEF Data!BeginImport, Data!Fresh
  <1>2. CASE ~Data!ValidHeader(header)
    <2>1. UNCHANGED <<import, idsUsed>>
      BY <1>2 DEF Data!BeginImport
    <2>2. ImportSound' /\ LogSound' /\ DataTypes'
      BY <1>1, <2>1, KeptImport, KeptLog DEF DataInv, DataTypes
    <2> QED BY <1>1, <2>1, <2>2, OnlyImport
  <1>3. CASE Data!ValidHeader(header)
    <2>1. PICK none \in SUBSET Data!DatasetRow : none = {}
      OBVIOUS
    <2>2. PICK i : i = [at |-> "reading", id |-> id, header |-> header, records |-> records,
                        staged |-> none, batch |-> none, widths |-> records]
      OBVIOUS
    <2>3. import' = i /\ idsUsed' = idsUsed \cup {id}
      BY <1>3, <2>1, <2>2 DEF Data!BeginImport
    <2>4. i \in Import
      BY <2>2 DEF Import
    <2>5. /\ i.at = "reading" /\ i.id = id /\ i.header = header /\ i.records = records
          /\ i.staged = {} /\ i.batch = {} /\ i.widths = records
      BY <2>1, <2>2
    <2>6. Pending(i) = {} /\ IsFiniteSet(Pending(i)) /\ Cardinality(Pending(i)) = 0
      BY <2>5, FS_EmptySet DEF Pending
    <2>7. Len(records) \in Nat
      OBVIOUS
    <2>8. ReadSoFar(i)
      BY <1>3, <2>4, <2>5, <2>6, <2>7 DEF ReadSoFar
    <2>9. id \notin DOMAIN files /\ id \notin logged /\ (\A d \in datasets : d.id # id)
          /\ (\A s \in saving : s.copy.id # id)
      BY <1>1 DEF DataInv, FilesSound, LogSound, DatasetsSound
    <2>10. \A r \in datasetRows : r.of # id
      BY <2>9 DEF DataInv, DataRowsSound, Data!RowsFitTheHeader
    <2>11. (ReadSoFar(import) /\ Unseen(import))'
      BY <1>1, <2>3, <2>5, <2>6, <2>8, <2>9, <2>10
         DEF ReadSoFar, Unseen, Pending, Data!ValidHeader, Import, Data!DatasetRow
    <2>12. LogSound'
      BY <1>1, <2>3 DEF DataInv, LogSound, Data!LoggedImportsExist, Data!NoImport
    <2>13. ImportSound' /\ DataTypes'
      BY <1>1, <2>3, <2>11 DEF ImportSound, DataInv, DataTypes
    <2> QED BY <1>1, <2>3, <2>12, <2>13, OnlyImport
  <1> QED BY <1>2, <1>3

\* An import that is under way.
LEMMA UnderWay ==
  ASSUME DataInv, import.at \in {"reading", "recorded"}
  PROVE  ReadSoFar(import) /\ Unseen(import) /\ import \in Import
  BY DEF DataInv, ImportSound, Data!NoImport, ReadSoFar

LEMMA ReadRecordSound ==
  ASSUME DataInv, NEW value \in Values, Data!ReadRecord(value)
  PROVE  DataInv'
  <1>1. /\ import.at = "reading" /\ import.records # <<>>
        /\ Head(import.records) = Len(import.header)
        /\ UNCHANGED <<datasets, datasetRows, saving, logged, files, lostImports,
                       removedDatasets, turner>>
    BY DEF Data!ReadRecord
  <1>2. ReadSoFar(import) /\ Unseen(import) /\ import \in Import
    BY <1>1, UnderWay
  <1>3. PICK k, new :
          /\ k \in Data!Fresh(RowIds)
          /\ new = [id |-> k, of |-> import.id, width |-> Head(import.records), value |-> value]
          /\ import' = [import EXCEPT !.records = Tail(@), !.batch = @ \cup {new}]
          /\ idsUsed' = idsUsed \cup {k}
    BY DEF Data!ReadRecord
  <1>4. import.header \in Headers /\ Len(import.header) \in Nat /\ import.id \in DatasetIds
    BY <1>2, HeaderLen DEF Import
  <1>5. /\ new \in Data!DatasetRow /\ new.id = k /\ new.of = import.id
        /\ new.width = Len(import.header)
        /\ k \notin idsUsed /\ k \in RowIds
    BY <1>1, <1>3, <1>4 DEF Data!DatasetRow, Data!Fresh
  <1>6. PICK rest, more : rest = Tail(import.records) /\ more = import.batch \cup {new}
    OBVIOUS
  <1>7. import.records \in Seq(Nat) /\ import.widths \in Seq(Nat)
    BY <1>2 DEF Import
  <1>8. /\ rest \in Seq(Nat) /\ Len(rest) = Len(import.records) - 1
        /\ Len(import.records) \in Nat /\ Len(import.widths) \in Nat
    BY <1>1, <1>6, <1>7
  <1>9. more \in SUBSET Data!DatasetRow
    BY <1>2, <1>5, <1>6 DEF Import
  <1>10. PICK i : i = [import EXCEPT !.records = rest, !.batch = more]
    OBVIOUS
  <1>11. import' = i
    BY <1>3, <1>6, <1>10
  <1>12. /\ i \in Import /\ i.at = "reading" /\ i.id = import.id /\ i.header = import.header
         /\ i.records = rest /\ i.staged = import.staged /\ i.batch = more
         /\ i.widths = import.widths
    BY <1>1, <1>2, <1>8, <1>9, <1>10 DEF Import
  <1>13. Pending(i) = Pending(import) \cup {new}
    BY <1>6, <1>12 DEF Pending
  <1>14. new \notin Pending(import)
    BY <1>2, <1>5 DEF Unseen
  <1>15. /\ IsFiniteSet(Pending(i)) /\ Cardinality(Pending(i)) = Cardinality(Pending(import)) + 1
         /\ Cardinality(Pending(import)) \in Nat
    BY <1>2, <1>13, <1>14, FS_AddElement, FS_CardinalityType DEF ReadSoFar
  <1>16. Cardinality(Pending(i)) + Len(i.records) = Len(i.widths)
    <2>1. Cardinality(Pending(import)) + Len(import.records) = Len(import.widths)
      BY <1>2 DEF ReadSoFar
    <2>2. Len(i.records) = Len(import.records) - 1 /\ Len(i.widths) = Len(import.widths)
      BY <1>8, <1>12
    <2>3. PICK a, b, c, d : /\ a = Cardinality(Pending(import)) /\ b = Len(import.records)
                            /\ c = Len(import.widths) /\ d = Cardinality(Pending(i))
      OBVIOUS
    <2>4. a \in Nat /\ b \in Nat /\ c \in Nat /\ d = a + 1 /\ a + b = c
      BY <1>8, <1>15, <2>1, <2>3
    <2> QED BY <2>2, <2>3, <2>4
  <1>17. /\ \A r \in Pending(i) : r.of = i.id /\ r.width = Len(i.header)
         /\ \A r, q \in Pending(i) : r.id = q.id => r = q
    BY <1>2, <1>5, <1>12, <1>13 DEF ReadSoFar, Unseen
  <1>18. ReadSoFar(i)
    BY <1>2, <1>12, <1>15, <1>16, <1>17 DEF ReadSoFar
  <1>19. \A r \in Pending(i) : r.id \in idsUsed' /\ \A q \in datasetRows : q.id # r.id
    BY <1>2, <1>3, <1>5, <1>13 DEF Unseen, DataInv, DataRowsSound
  <1>20. ReadSoFar(import)' /\ Unseen(import)'
    <2>1. ReadSoFar(import)'
      BY <1>11, <1>18 DEF ReadSoFar, Pending, Data!ValidHeader, Import, Data!DatasetRow
    <2>2. Unseen(import)'
      BY <1>1, <1>2, <1>3, <1>11, <1>12, <1>19 DEF Unseen, Pending
    <2> QED BY <2>1, <2>2
  <1>21. LogSound'
    BY <1>1, <1>3, <1>11, <1>12 DEF DataInv, LogSound, Data!LoggedImportsExist
  <1>22. ImportSound' /\ DataTypes'
    BY <1>1, <1>3, <1>5, <1>20 DEF ImportSound, DataInv, DataTypes
  <1> QED BY <1>1, <1>3, <1>21, <1>22, OnlyImport

\* A batch is staged: by the loop when it is full, and at the end of the file.
LEMMA StagedSound ==
  ASSUME DataInv, import.at = "reading", NEW at \in {"reading", "recorded"},
         at = "recorded" => import.records = <<>>,
         NEW next, next = [import EXCEPT !.at = at, !.staged = @ \cup import.batch, !.batch = {}],
         import' = next, UNCHANGED <<datasets, datasetRows, idsUsed, saving, files,
                                     removedDatasets, turner>>,
         LogSound', DataTypes', at = "reading" => logged' = logged
  PROVE  DataInv'
  <1>1. ReadSoFar(import) /\ Unseen(import) /\ import \in Import
    BY UnderWay
  <1>2. PICK all, none : all = import.staged \cup import.batch /\ none = {}
    OBVIOUS
  <1>3. all \in SUBSET Data!DatasetRow /\ none \in SUBSET Data!DatasetRow
    BY <1>1, <1>2 DEF Import
  <1>4. next = [import EXCEPT !.at = at, !.staged = all, !.batch = none]
    BY <1>2
  <1>5. /\ next \in Import /\ next.at = at /\ next.id = import.id /\ next.header = import.header
        /\ next.records = import.records /\ next.staged = all /\ next.batch = none
        /\ next.widths = import.widths
    BY <1>1, <1>3, <1>4 DEF Import
  <1>6. Pending(next) = Pending(import)
    BY <1>2, <1>5 DEF Pending
  <1>7. ReadSoFar(next)
    BY <1>1, <1>2, <1>5, <1>6 DEF ReadSoFar
  <1>8. ReadSoFar(import)' /\ Unseen(import)'
    <2>1. ReadSoFar(import)'
      BY <1>7, ReadsOn
    <2>2. Unseen(import)'
      BY <1>1, <1>5, <1>6 DEF Unseen, Pending
    <2> QED BY <2>1, <2>2
  <1> QED BY <1>8, OnlyImport DEF ImportSound

LEMMA SaveBatchSound ==
  ASSUME DataInv, Data!SaveBatch
  PROVE  DataInv'
  <1>1. /\ import.at = "reading" /\ UNCHANGED <<datasets, datasetRows, idsUsed, saving, logged,
                                                files, lostImports, removedDatasets, turner>>
        /\ import' = [import EXCEPT !.staged = @ \cup import.batch, !.batch = {}]
    BY DEF Data!SaveBatch
  <1>2. import \in Import
    BY <1>1, UnderWay
  <1>3. PICK all, none : all = import.staged \cup import.batch /\ none = {}
    OBVIOUS
  <1>4. import' = [import EXCEPT !.at = "reading", !.staged = all, !.batch = none]
    BY <1>1, <1>2, <1>3 DEF Import
  <1>5. import'.at = "reading" /\ import'.id = import.id
    BY <1>1, <1>2 DEF Import
  <1>6. LogSound' /\ DataTypes'
    BY <1>1, <1>5 DEF DataInv, LogSound, Data!LoggedImportsExist, DataTypes
  <1>7. PICK at, next : at = "reading" /\ next = import'
    OBVIOUS
  <1> QED BY <1>1, <1>3, <1>4, <1>6, <1>7, StagedSound

LEMMA RecordImportSound ==
  ASSUME DataInv, Data!RecordImport
  PROVE  DataInv'
  <1>1. /\ import.at = "reading" /\ import.records = <<>>
        /\ UNCHANGED <<datasets, datasetRows, idsUsed, saving, files, lostImports,
                       removedDatasets, turner>>
        /\ import' = [import EXCEPT !.at = "recorded", !.staged = @ \cup import.batch, !.batch = {}]
        /\ logged' = logged \/ logged' = logged \cup {import.id}
    BY DEF Data!RecordImport
  <1>2. import \in Import /\ Unseen(import)
    BY <1>1, UnderWay
  <1>3. import'.at = "recorded" /\ import'.id = import.id
    BY <1>1, <1>2 DEF Import
  <1>4. import.id \in idsUsed /\ import.id \in DatasetIds
    BY <1>2 DEF Unseen, Import
  <1>5. LogSound' /\ DataTypes'
    BY <1>1, <1>3, <1>4 DEF DataInv, LogSound, Data!LoggedImportsExist, DataTypes
  <1>6. PICK at, next : at = "recorded" /\ next = import'
    OBVIOUS
  <1> QED BY <1>1, <1>5, <1>6, StagedSound

\* An import that ends without a commit leaves nothing.
LEMMA RollbackSound ==
  ASSUME DataInv, Data!Rollback, lostImports' = lostImports \/ (import.at = "recorded"
         /\ lostImports' = lostImports \cup {import.id}),
         import.at = "recorded" => lostImports' = lostImports \cup {import.id},
         import.at \in {"reading", "recorded"}
  PROVE  DataInv'
  <1>1. import' = Data!NoImport /\ UNCHANGED <<datasets, datasetRows, idsUsed, saving, logged,
                                               files, removedDatasets, turner>>
    BY DEF Data!Rollback
  <1>2. import.id \in DatasetIds /\ (import.id \in logged => import.at = "recorded")
    BY UnderWay DEF Unseen, Import
  <1>3. LogSound'
    BY <1>1, <1>2 DEF DataInv, LogSound, Data!LoggedImportsExist
  <1>4. ImportSound' /\ DataTypes'
    BY <1>1, <1>2 DEF ImportSound, Data!NoImport, DataInv, DataTypes
  <1> QED BY <1>1, <1>3, <1>4, OnlyImport

LEMMA RefuseRecordSound ==
  ASSUME DataInv, Data!RefuseRecord
  PROVE  DataInv'
  <1>1. import.at = "reading" /\ Data!Rollback /\ lostImports' = lostImports
    BY DEF Data!RefuseRecord
  <1> QED BY <1>1, RollbackSound

LEMMA FailImportSound ==
  ASSUME DataInv, Data!FailImport
  PROVE  DataInv'
  <1>1. import # Data!NoImport /\ Data!Rollback
        /\ lostImports' =
             IF import.at = "recorded" THEN lostImports \cup {import.id} ELSE lostImports
    BY DEF Data!FailImport
  <1>2. import.at \in {"reading", "recorded"}
    BY <1>1 DEF DataInv, ImportSound, ReadSoFar, Import
  <1> QED BY <1>1, <1>2, RollbackSound

\* The commit shows the dataset and all its rows.
LEMMA CommitSound ==
  ASSUME DataInv, Data!Commit
  PROVE  DataInv'
  <1>1. /\ import.at = "recorded" /\ import' = Data!NoImport
        /\ datasetRows' = datasetRows \cup import.staged
        /\ UNCHANGED <<idsUsed, saving, logged, lostImports, removedDatasets, turner>>
    BY DEF Data!Commit
  <1>2. ReadSoFar(import) /\ Unseen(import) /\ import \in Import
    BY <1>1, UnderWay
  <1>3. PICK id, header, staged, widths :
          id = import.id /\ header = import.header /\ staged = import.staged
            /\ widths = import.widths
    OBVIOUS
  <1>4. id \in DatasetIds /\ header \in Headers /\ staged \in SUBSET Data!DatasetRow
          /\ widths \in Seq(Nat)
    BY <1>2, <1>3 DEF Import
  <1>5. Pending(import) = staged
    BY <1>1, <1>2, <1>3 DEF ReadSoFar, Pending
  <1>6. /\ IsFiniteSet(staged) /\ Data!ValidHeader(header)
        /\ \A r \in staged : r.of = id /\ r.width = Len(header)
        /\ \A r, q \in staged : r.id = q.id => r = q
    BY <1>2, <1>3, <1>5 DEF ReadSoFar
  <1>7. Cardinality(staged) = Len(widths)
    <2>1. Cardinality(staged) + Len(import.records) = Len(widths) /\ import.records = <<>>
      BY <1>1, <1>2, <1>3, <1>5 DEF ReadSoFar
    <2>2. Len(import.records) = 0
      BY <2>1
    <2>3. Cardinality(staged) \in Nat
      BY <1>6, FS_CardinalityType
    <2> QED BY <2>1, <2>2, <2>3
  <1>8. /\ id \in idsUsed /\ id \notin DOMAIN files
        /\ \A d \in datasets : d.id # id
        /\ \A s \in saving : s.copy.id # id
        /\ \A r \in datasetRows : r.of # id
        /\ \A r \in staged : r.id \in idsUsed /\ \A q \in datasetRows : q.id # r.id
    BY <1>2, <1>3, <1>5 DEF Unseen
  <1>9. PICK new : new = [id |-> id, header |-> header]
    OBVIOUS
  <1>10. new \in Data!Dataset /\ new.id = id /\ new.header = header
    BY <1>4, <1>9 DEF Data!Dataset
  <1>11. datasets' = datasets \cup {new} /\ datasetRows' = datasetRows \cup staged
    BY <1>1, <1>3, <1>9 DEF Data!Commit
  <1>12. /\ DOMAIN files' = DOMAIN files \cup {id} /\ files'[id] = widths
         /\ \A k \in DOMAIN files : k # id => files'[k] = files[k]
    BY <1>3 DEF Data!Commit
  <1>13. DataTypes'
    BY <1>1 DEF DataInv, DataTypes
  <1>14. DatasetsSound'
    BY <1>1, <1>8, <1>10, <1>11 DEF DataInv, DatasetsSound
  <1>15. DataRowsSound'
    <2>1. datasetRows' \subseteq Data!DatasetRow /\ IsFiniteSet(datasetRows')
      BY <1>4, <1>6, <1>11, FS_Union DEF DataInv, DataRowsSound
    <2>2. Data!RowsFitTheHeader'
      BY <1>6, <1>10, <1>11 DEF DataInv, DataRowsSound, Data!RowsFitTheHeader, Data!Width
    <2>3. \A r \in datasetRows' : r.id \in idsUsed'
      BY <1>1, <1>8, <1>11 DEF DataInv, DataRowsSound
    <2>4. \A r, q \in datasetRows' : r.id = q.id => r = q
      BY <1>6, <1>8, <1>11 DEF DataInv, DataRowsSound
    <2> QED BY <2>1, <2>2, <2>3, <2>4 DEF DataRowsSound
  <1>16. ImportSound'
    BY <1>1 DEF ImportSound, Data!NoImport
  <1>17. Data!RowsOf(id)' = staged /\ \A k : k # id => Data!RowsOf(k)' = Data!RowsOf(k)
    BY <1>6, <1>8, <1>11 DEF Data!RowsOf
  <1>18. HasDataset(id)' /\ \A k : HasDataset(k) => HasDataset(k)'
    BY <1>10, <1>11 DEF HasDataset
  <1>19. FilesSound'
    <2>1. DOMAIN files' \subseteq idsUsed' /\ \A k \in DOMAIN files' : files'[k] \in Seq(Nat)
      BY <1>1, <1>4, <1>8, <1>12 DEF DataInv, FilesSound
    <2>2. ASSUME NEW k \in DOMAIN files', k \notin removedDatasets'
          PROVE  HasDataset(k)' /\ Cardinality(Data!RowsOf(k)') >= Len(files'[k])
      <3>1. CASE k = id
        <4>1. Len(widths) \in Nat
          BY <1>4
        <4>2. Cardinality(Data!RowsOf(k)') = Len(files'[k]) /\ Len(files'[k]) \in Nat
          BY <3>1, <4>1, <1>7, <1>12, <1>17
        <4> QED BY <3>1, <4>2, <1>18
      <3>2. CASE k # id
        <4>1. k \in DOMAIN files /\ k \notin removedDatasets /\ files'[k] = files[k]
                /\ Data!RowsOf(k)' = Data!RowsOf(k)
          BY <2>2, <3>2, <1>1, <1>12, <1>17
        <4> QED BY <4>1, <1>18 DEF DataInv, FilesSound
      <3> QED BY <3>1, <3>2
    <2>3. \A d \in datasets' : d.id \in DOMAIN files' => Data!ValidHeader(d.header)
      BY <1>6, <1>8, <1>10, <1>11, <1>12 DEF DataInv, FilesSound
    <2>4. \A s \in saving : s.copy.id \in DOMAIN files' => Data!ValidHeader(s.copy.header)
      BY <1>8, <1>12 DEF DataInv, FilesSound
    <2> QED BY <2>1, <2>2, <2>3, <2>4, <1>1 DEF FilesSound, Data!ValidHeader
  <1>20. LogSound'
    BY <1>1, <1>3, <1>12 DEF DataInv, LogSound, Data!LoggedImportsExist, Data!NoImport
  <1>21. PageReaderSound'
    <2>1. turner \in Turner' /\ turner' = turner
      BY <1>1 DEF DataInv, PageReaderSound, Turner, Data!DatasetRow
    <2>2. ASSUME ~turner.gone PROVE HasDataset(turner.id)'
                   /\ TurnerSound(turner, Data!RowsOf(turner.id))'
      <3>1. HasDataset(turner.id) /\ TurnerSound(turner, Data!RowsOf(turner.id))
        BY <2>2 DEF DataInv, PageReaderSound
      <3>2. turner.id # id
        BY <3>1, <1>8 DEF HasDataset
      <3>3. Data!RowsOf(turner.id)' = Data!RowsOf(turner.id)
        BY <2>1, <3>2, <1>17
      <3>4. HasDataset(turner.id)'
        BY <2>1, <3>1, <1>18
      <3> QED BY <2>1, <3>1, <3>3, <3>4
    <2> QED BY <2>1, <2>2 DEF PageReaderSound
  <1> QED BY <1>13, <1>14, <1>15, <1>16, <1>19, <1>20, <1>21 DEF DataInv

(***************************************************************************)
(* The steps of a reader.                                                  *)
(***************************************************************************)
LEMMA OnlyReader ==
  ASSUME DataInv, PageReaderSound',
         UNCHANGED <<datasets, datasetRows, idsUsed, saving, import, logged, files,
                     lostImports, removedDatasets>>
  PROVE  DataInv'
  <1>1. DataTypes' /\ DatasetsSound' /\ DataRowsSound' /\ ImportSound' /\ FilesSound' /\ LogSound'
    BY KeptDatasets, KeptRows, KeptImport, KeptFiles, KeptLog DEF DataInv, DataTypes
  <1> QED BY <1>1 DEF DataInv

\* The reader of a step, whose dataset is what it was.
LEMMA ReaderNow ==
  ASSUME NEW g, g \in Turner, g.id = turner.id, g.gone = turner.gone, turner' = g,
         UNCHANGED <<datasets, datasetRows>>,
         ~turner.gone => HasDataset(turner.id) /\ TurnerSound(g, Data!RowsOf(turner.id))
  PROVE  PageReaderSound'
  BY DEF PageReaderSound, HasDataset, Data!RowsOf, Turner, Data!DatasetRow

LEMMA RowsOfType ==
  ASSUME DataRowsSound, NEW k
  PROVE  Data!RowsOf(k) \subseteq Data!DatasetRow /\ IsFiniteSet(Data!RowsOf(k))
  <1>1. Data!RowsOf(k) \subseteq datasetRows
    BY DEF Data!RowsOf
  <1> QED BY <1>1, FS_Subset DEF DataRowsSound

LEMMA BeginReadingSound ==
  ASSUME DataInv, NEW sort \in {"id", "column"}, Data!BeginReading(sort)
  PROVE  DataInv'
  <1>1. UNCHANGED <<datasets, datasetRows, idsUsed, saving, import, logged, files, lostImports,
                    removedDatasets>>
    BY DEF Data!BeginReading
  <1>2. PICK d \in datasets :
          turner' = [Data!Unread EXCEPT !.id = d.id, !.at = "turning", !.sort = sort,
                                   !.began = Data!RowsOf(d.id), !.gone = FALSE]
    BY DEF Data!BeginReading
  <1>3. PICK id, S : id = d.id /\ S = Data!RowsOf(d.id)
    OBVIOUS
  <1>4. id \in DatasetIds /\ S \subseteq Data!DatasetRow /\ IsFiniteSet(S)
    BY <1>3, RowsOfType DEF DataInv, DatasetsSound, Data!Dataset
  <1>5. PICK u, g : u = Data!Unread /\ g = turner'
    OBVIOUS
  <1>6. g = Starts(u, id, sort, S)
    BY <1>2, <1>3, <1>5 DEF Starts
  <1>7. g \in Turner /\ TurnerSound(g, S) /\ g.id = id
    <2>1. u \in Turner /\ u.page = 0 /\ u.seen = {} /\ ~u.again
      BY <1>5, UnreadTyped
    <2> QED BY <1>4, <1>6, <2>1, TurnerBegins
  <1>8. HasDataset(id)
    BY <1>3 DEF HasDataset
  <1>9. PageReaderSound'
    BY <1>1, <1>3, <1>5, <1>7, <1>8 DEF PageReaderSound, HasDataset, Data!RowsOf, Turner,
       Data!DatasetRow
  <1> QED BY <1>1, <1>9, OnlyReader

LEMMA CountRowsSound ==
  ASSUME DataInv, Data!CountRows
  PROVE  DataInv'
  <1>1. /\ UNCHANGED <<datasets, datasetRows, idsUsed, saving, import, logged, files,
                       lostImports, removedDatasets>>
        /\ turner.at = "turning"
    BY DEF Data!CountRows
  <1>2. turner \in Turner
    BY DEF DataInv, PageReaderSound
  <1>3. CASE ~HasDataset(turner.id)
    <2>1. turner' = [turner EXCEPT !.at = "done", !.gone = TRUE]
      BY <1>3 DEF Data!CountRows, HasDataset
    <2>2. turner' \in Turner /\ turner'.gone
      BY <1>2, <2>1 DEF Turner
    <2>3. PageReaderSound'
      BY <2>2 DEF PageReaderSound, Turner, Data!DatasetRow
    <2> QED BY <1>1, <2>3, OnlyReader
  <1>4. CASE HasDataset(turner.id)
    <2>1. PICK S : S = Data!RowsOf(turner.id)
      OBVIOUS
    <2>2. IsFiniteSet(S) /\ Cardinality(S) \in Nat
      BY <2>1, RowsOfType, FS_CardinalityType DEF DataInv
    <2>3. PICK g : g = Counts(turner, Cardinality(S))
      OBVIOUS
    <2>4. turner' = g
      BY <1>4, <2>1, <2>3, DataCount DEF Data!CountRows, HasDataset, Counts
    <2>5. SameReader(turner, g)
      BY <1>2, <2>2, <2>3, CountTyped
    <2>6. g \in Turner /\ g.id = turner.id /\ g.gone = turner.gone
      BY <2>5 DEF SameReader
    <2>7. ~turner.gone => TurnerSound(g, S)
      BY <1>1, <1>2, <2>1, <2>2, <2>3, TurnerCounts DEF DataInv, PageReaderSound
    <2>8. PageReaderSound'
      BY <1>1, <1>4, <2>1, <2>4, <2>6, <2>7, ReaderNow
    <2> QED BY <1>1, <2>8, OnlyReader
  <1> QED BY <1>3, <1>4

LEMMA ShowPageSound ==
  ASSUME DataInv, Data!ShowPage
  PROVE  DataInv'
  <1>1. /\ UNCHANGED <<datasets, datasetRows, idsUsed, saving, import, logged, files,
                       lostImports, removedDatasets>>
        /\ turner.at = "counted"
    BY DEF Data!ShowPage
  <1>2. turner \in Turner
    BY DEF DataInv, PageReaderSound
  <1>3. PICK S : S = Data!RowsOf(turner.id)
    OBVIOUS
  <1>4. S \subseteq Data!DatasetRow /\ IsFiniteSet(S)
    BY <1>3, RowsOfType DEF DataInv
  <1>5. PICK s, shown :
          /\ s \in Data!Lists(S)
          /\ Data!InOrder(s, turner.sort)
          /\ shown = {s[i] : i \in {k \in DOMAIN s :
                               (turner.page - 1) * PageLimit < k
                                 /\ k <= (turner.page - 1) * PageLimit + PageLimit}}
          /\ turner' = [turner EXCEPT
               !.seen = @ \cup shown, !.again = @ \/ shown \cap turner.seen # {},
               !.at = IF Data!HasNext(turner.page, turner.total) THEN "turning" ELSE "done"]
    BY <1>3 DEF Data!ShowPage
  <1>6. PICK more, met, next :
          /\ more = turner.seen \cup shown
          /\ met = (turner.again \/ shown \cap turner.seen # {})
          /\ next = IF Data!HasNext(turner.page, turner.total) THEN "turning" ELSE "done"
    OBVIOUS
  <1>7. shown \subseteq S
    BY <1>5 DEF Data!Lists
  <1>8. more \in SUBSET Data!DatasetRow /\ met \in BOOLEAN /\ next \in {"turning", "done"}
    BY <1>2, <1>4, <1>6, <1>7 DEF Turner
  <1>9. PICK g : g = Shows(turner, more, met, next)
    OBVIOUS
  <1>10. turner' = g
    BY <1>5, <1>6, <1>9 DEF Shows
  <1>11. SameReader(turner, g)
    BY <1>2, <1>8, <1>9, ShownTyped
  <1>12. g \in Turner /\ g.id = turner.id /\ g.gone = turner.gone
    BY <1>11 DEF SameReader
  <1>13. ASSUME ~turner.gone PROVE HasDataset(turner.id) /\ TurnerSound(g, S)
    <2>1. HasDataset(turner.id) /\ TurnerSound(turner, S)
      BY <1>3, <1>13 DEF DataInv, PageReaderSound
    <2>2. TurnerSound(g, S)
      BY <1>1, <1>2, <1>4, <1>5, <1>6, <1>8, <1>9, <2>1, TurnerShows
    <2> QED BY <2>1, <2>2
  <1>14. PageReaderSound'
    BY <1>1, <1>3, <1>10, <1>12, <1>13, ReaderNow
  <1> QED BY <1>1, <1>14, OnlyReader

LEMMA DataNext ==
  ASSUME DataInv, [Data!Next]_(Data!datasetVars)
  PROVE  DataInv'
  <1>1. ASSUME NEW id \in DatasetIds, NEW h \in Headers, Data!Create(id, h) PROVE DataInv'
    BY <1>1, CreateSound
  <1>2. ASSUME NEW op \in {"update", "row"}, Data!Read(op) PROVE DataInv'
    BY <1>2, ReadSound
  <1>3. ASSUME NEW id \in DatasetIds, Data!RemoveDataset(id) PROVE DataInv'
    BY <1>3, RemoveSound
  <1>4. ASSUME NEW w \in {Len(h) : h \in Headers}, NEW v \in Values, Data!UpsertRow(w, v)
        PROVE DataInv'
    <2>1. w \in Nat
      BY HeaderLen
    <2> QED BY <1>4, <2>1, UpsertSound
  <1>5. ASSUME NEW id \in DatasetIds, NEW h \in Headers, NEW n \in 0 .. MaxRecords,
               NEW records \in [1 .. n -> {Len(g) : g \in Headers}],
                 Data!BeginImport(id, h, records)
        PROVE  DataInv'
    <2>1. n \in Nat
      BY DatasetsAssumption
    <2>2. records \in [1 .. n -> Nat]
      BY HeaderLen
    <2>3. records \in Seq(Nat)
      BY <2>1, <2>2
    <2> QED BY <1>5, <2>3, BeginImportSound
  <1>6. ASSUME NEW v \in Values, Data!ReadRecord(v) PROVE DataInv'
    BY <1>6, ReadRecordSound
  <1>7. ASSUME NEW sort \in {"id", "column"}, Data!BeginReading(sort) PROVE DataInv'
    BY <1>7, BeginReadingSound
  <1>8. CASE Data!Update \/ Data!SaveBatch \/ Data!RefuseRecord \/ Data!RecordImport
          \/ Data!Commit \/ Data!FailImport
    BY <1>8, UpdateSound, SaveBatchSound, RefuseRecordSound, RecordImportSound, CommitSound,
       FailImportSound
  <1>9. CASE Data!CountRows \/ Data!ShowPage
    BY <1>9, CountRowsSound, ShowPageSound
  <1>10. CASE UNCHANGED Data!datasetVars
    <2>1. UNCHANGED <<datasets, datasetRows, idsUsed, saving, import, logged, files,
                      lostImports, removedDatasets, turner>>
      BY <1>10 DEF Data!datasetVars
    <2>2. PageReaderSound'
      BY <2>1, KeptReader DEF DataInv
    <2> QED BY <2>1, <2>2, OnlyReader
  <1> QED BY <1>1, <1>2, <1>3, <1>4, <1>5, <1>6, <1>7, <1>8, <1>9, <1>10 DEF Data!Next

(***************************************************************************)
(* What the invariant says of datasets.                                    *)
(***************************************************************************)
LEMMA NamesDiffer ==
  ASSUME NEW h \in Headers, Data!ValidHeader(h)
  PROVE  Cardinality(Data!ToSet(h)) = Len(h) /\ "" \notin Data!ToSet(h)
  <1>1. PICK n, S : n \in Nat /\ n = Len(h) /\ S = Data!ToSet(h) /\ DOMAIN h = 1 .. n
          /\ h = [i \in 1 .. n |-> h[i]]
    BY HeaderLen
  <1>2. S = {h[i] : i \in 1 .. n}
    BY <1>1 DEF Data!ToSet
  <1>3. h \in Surjection(1 .. n, S)
    <2>1. h \in [1 .. n -> S]
      BY <1>1, <1>2
    <2> QED BY <2>1, <1>2 DEF Surjection
  <1>4. h \in Injection(1 .. n, S)
    BY <1>1, <1>3 DEF Data!ValidHeader, Injection, Surjection, IsInjective
  <1>5. ExistsBijection(1 .. n, S)
    BY <1>3, <1>4 DEF ExistsBijection, Bijection
  <1>6. Cardinality(S) = n
    BY <1>1, <1>5, FS_CountingElements
  <1>7. "" \notin S
    BY <1>1, <1>2 DEF Data!ValidHeader
  <1> QED BY <1>1, <1>6, <1>7

LEMMA DataSafe ==
  ASSUME DataInv
  PROVE  Data!DatasetSafety
  <1>1. Data!TypeOK
    <2>1. Cardinality(saving) <= 1
      <3>1. CASE saving = {}
        BY <3>1, FS_EmptySet
      <3>2. CASE saving # {}
        <4>1. PICK s : s \in saving
          BY <3>2
        <4>2. saving = {s}
          BY <4>1 DEF DataInv, DatasetsSound
        <4>3. Cardinality({s}) = 1
          BY FS_Singleton
        <4> QED BY <4>2, <4>3
      <3> QED BY <3>1, <3>2
    <2> QED BY <2>1, DataCount DEF DataInv, DataTypes, DatasetsSound, DataRowsSound, Data!TypeOK
  <1>2. Data!RowsFitTheHeader
    BY DEF DataInv, DataRowsSound
  <1>3. Data!ExportsFit
    <2> SUFFICES ASSUME NEW d \in datasets, NEW r \in Data!RowsOf(d.id)
                 PROVE r.width = Data!Width(d)
      BY DEF Data!ExportsFit, Data!Exported
    <2>1. r \in datasetRows /\ r.of = d.id
      BY DEF Data!RowsOf
    <2>2. PICK e \in datasets : e.id = d.id /\ r.width = Data!Width(e)
      BY <2>1, <1>2 DEF Data!RowsFitTheHeader
    <2> QED BY <2>2 DEF DataInv, DatasetsSound
  <1>4. Data!ImportIsWhole
    <2>1. \A id \in DOMAIN files \ removedDatasets :
            (\E d \in datasets : d.id = id) /\ Cardinality(Data!RowsOf(id)) >= Len(files[id])
      BY DEF DataInv, FilesSound, HasDataset
    <2>2. ASSUME import # Data!NoImport PROVE Data!RowsOf(import.id) = {}
                 /\ \A d \in datasets : d.id # import.id
      <3>1. Unseen(import)
        BY <2>2 DEF DataInv, ImportSound
      <3> QED BY <3>1 DEF Unseen, Data!RowsOf
    <2> QED BY <2>1, <2>2, DataCount DEF Data!ImportIsWhole
  <1>5. Data!ImportedNamesDiffer
    <2> SUFFICES ASSUME NEW d \in datasets, d.id \in DOMAIN files
                 PROVE  Cardinality(Data!ToSet(d.header)) = Len(d.header)
                   /\ "" \notin Data!ToSet(d.header)
      BY DataCount DEF Data!ImportedNamesDiffer
    <2>1. Data!ValidHeader(d.header) /\ d.header \in Headers
      BY DEF DataInv, FilesSound, DatasetsSound, Data!Dataset
    <2> QED BY <2>1, NamesDiffer
  <1>6. Data!LoggedImportsExist
    BY DEF DataInv, LogSound
  <1>7. Data!PagesShowEveryRow
    <2> SUFFICES ASSUME turner.at = "done", Data!Reliable
                 PROVE  /\ turner.slipped \/ turner.began \subseteq turner.seen
                        /\ turner.grew \/ ~turner.again
      BY DEF Data!PagesShowEveryRow
    <2>1. PICK S : S = Data!RowsOf(turner.id)
      OBVIOUS
    <2>2. TurnerSound(turner, S) /\ turner.sort \in {"id", "column"}
      BY <2>1 DEF Data!Reliable, DataInv, PageReaderSound, Turner
    <2>3. S \subseteq datasetRows /\ \A r \in S : r.of = turner.id
      BY <2>1 DEF Data!RowsOf
    <2>4. Orderly(turner.sort, S)
      <3>1. CASE turner.sort = "id"
        BY <3>1, <2>3 DEF Orderly, Key, DataInv, DataRowsSound
      <3>2. CASE turner.sort # "id"
        <4>1. Data!Distinct
          BY <3>2 DEF Data!Reliable
        <4> QED BY <3>2, <4>1, <2>3 DEF Orderly, Key, Data!Distinct
      <3> QED BY <3>1, <3>2
    <2> QED BY <2>2, <2>4 DEF TurnerSound, PagesOf
  <1> QED BY <1>1, <1>2, <1>3, <1>4, <1>5, <1>6, <1>7 DEF Data!DatasetSafety

(***************************************************************************)
(* Whatever requests and one import come between each other: every row     *)
(* fits the header of a dataset that is there, an import is seen whole or  *)
(* not at all and is in the audit log only if it was made, is about to     *)
(* commit or failed then, and who turns the pages to the last sees every   *)
(* row that was there at the start, but for the exceptions that            *)
(* PagesShowEveryRow names (DatasetsService).                              *)
(***************************************************************************)
THEOREM DatasetsAreSafe == Data!Spec => []DatasetSafety
  <1>1. Data!Init => DataInv
    BY DataInit
  <1>2. DataInv /\ [Data!Next]_(Data!datasetVars) => DataInv'
    BY DataNext
  <1>3. DataInv => DatasetSafety
    BY DataSafe DEF DatasetSafety
  <1> QED BY <1>1, <1>2, <1>3, PTL DEF Data!Spec

-----------------------------------------------------------------------------
(***************************************************************************)
(* The comparison of two experiments.                                      *)
(***************************************************************************)

\* It counts as the modules here do.
LEMMA ComparisonCount ==
  ASSUME NEW S
  PROVE  Paired!Cardinality(S) = Cardinality(S)
  BY DEF Paired!Cardinality, Cardinality

\* Induction on a finite set, by a smallest part of it that is not good.
LEMMA InductionOnSets ==
  ASSUME NEW S, IsFiniteSet(S), NEW Good, {} \in Good,
         \A T \in SUBSET S : \A x \in T : T \ {x} \in Good => T \in Good
  PROVE  S \in Good
  <1>1. SUFFICES ASSUME S \notin Good PROVE FALSE
    OBVIOUS
  <1> DEFINE Bad == {T \in SUBSET S : T \notin Good}
  <1>2. Bad \subseteq FiniteSubsetsOf(S) /\ Bad # {}
    BY <1>1, FS_FiniteSubsetsOfFinite
  <1>3. PICK T \in Bad : \A U \in Bad : ~(<<U, T>> \in StrictSubsetOrdering(S))
    <2>1. IsWellFoundedOn(StrictSubsetOrdering(S), FiniteSubsetsOf(S))
      BY FS_StrictSubsetOrderingWellFounded
    <2> HIDE DEF Bad
    <2> QED BY <1>2, <2>1, WFMin
  <1>4. PICK x : x \in T
    OBVIOUS
  <1>5. <<T \ {x}, T>> \in StrictSubsetOrdering(S)
    BY <1>4 DEF StrictSubsetOrdering
  <1>6. T \ {x} \in Good
    BY <1>3, <1>5
  <1> QED BY <1>4, <1>6

\* What SumOver counts.
Units(f, S) == UNION {{c} \X (1 .. f[c]) : c \in S}

LEMMA IntervalFrom1 ==
  ASSUME NEW n \in Nat
  PROVE  IsFiniteSet(1 .. n) /\ Cardinality(1 .. n) = n
  <1>1. IsFiniteSet(1 .. n) /\ Cardinality(1 .. n) = IF 1 > n THEN 0 ELSE n - 1 + 1
    BY FS_Interval
  <1> QED BY <1>1

\* Disjoint sets add up.
LEMMA DisjointAddUp ==
  ASSUME NEW P, NEW Q, IsFiniteSet(P), IsFiniteSet(Q), P \cap Q = {}
  PROVE  /\ IsFiniteSet(P \cup Q) /\ Cardinality(P) \in Nat /\ Cardinality(Q) \in Nat
         /\ Cardinality(P \cup Q) = Cardinality(P) + Cardinality(Q)
  <1>1. Cardinality(P \cup Q) = Cardinality(P) + Cardinality(Q) - Cardinality(P \cap Q)
    BY FS_Union
  <1>2. Cardinality(P) \in Nat /\ Cardinality(Q) \in Nat /\ Cardinality(P \cap Q) = 0
    BY FS_EmptySet, FS_CardinalityType
  <1> QED BY <1>1, <1>2, FS_Union

\* The units of x are apart from the others.
LEMMA UnitsSplit ==
  ASSUME NEW f, NEW S, NEW x \in S
  PROVE  /\ Units(f, S) = Units(f, S \ {x}) \cup ({x} \X (1 .. f[x]))
         /\ Units(f, S \ {x}) \cap ({x} \X (1 .. f[x])) = {}
  BY DEF Units

LEMMA UnitsFinite ==
  ASSUME NEW f, NEW S, IsFiniteSet(S), \A c \in S : f[c] \in Nat
  PROVE  IsFiniteSet(Units(f, S))
  <1> DEFINE Good == {T \in SUBSET S : IsFiniteSet(Units(f, T))}
  <1>1. {} \in Good
    <2>1. Units(f, {}) = {}
      BY DEF Units
    <2> QED BY <2>1, FS_EmptySet
  <1>2. ASSUME NEW T \in SUBSET S, NEW x \in T, T \ {x} \in Good
        PROVE  T \in Good
    <2>1. IsFiniteSet({x} \X (1 .. f[x]))
      <3>1. IsFiniteSet({x}) /\ IsFiniteSet(1 .. f[x])
        BY FS_Singleton, IntervalFrom1
      <3> QED BY <3>1, FS_Product
    <2>2. IsFiniteSet(Units(f, T \ {x}))
      BY <1>2
    <2>3. IsFiniteSet(Units(f, T \ {x}) \cup ({x} \X (1 .. f[x])))
      BY <2>1, <2>2, FS_Union
    <2> QED BY <2>3, UnitsSplit
  <1>3. S \in Good
    <2> HIDE DEF Good
    <2> QED BY <1>1, <1>2, InductionOnSets
  <1> QED BY <1>3

\* A sum is that of the others and of one.
LEMMA SumStep ==
  ASSUME NEW f, NEW S, IsFiniteSet(S), \A c \in S : f[c] \in Nat, NEW x \in S
  PROVE  /\ Paired!SumOver(f, S) \in Nat /\ Paired!SumOver(f, S \ {x}) \in Nat
         /\ Paired!SumOver(f, S) = Paired!SumOver(f, S \ {x}) + f[x]
  <1>1. IsFiniteSet(S \ {x})
    BY FS_RemoveElement
  <1>2. IsFiniteSet(Units(f, S)) /\ IsFiniteSet(Units(f, S \ {x}))
    BY <1>1, UnitsFinite
  <1>3. IsFiniteSet({x} \X (1 .. f[x])) /\ Cardinality({x} \X (1 .. f[x])) = f[x]
    <2>1. IsFiniteSet({x}) /\ Cardinality({x}) = 1
      BY FS_Singleton
    <2>2. IsFiniteSet(1 .. f[x]) /\ Cardinality(1 .. f[x]) = f[x]
      BY FS_Interval
    <2> QED BY <2>1, <2>2, FS_Product
  <1>4. Cardinality(Units(f, S)) = Cardinality(Units(f, S \ {x})) + f[x] - Cardinality({})
    BY <1>2, <1>3, UnitsSplit, FS_Union
  <1> QED BY <1>2, <1>4, FS_EmptySet, FS_CardinalityType, ComparisonCount
           DEF Paired!SumOver, Units

LEMMA SumOfNone ==
  ASSUME NEW f
  PROVE  Paired!SumOver(f, {}) = 0
  <1>1. UNION {{c} \X (1 .. f[c]) : c \in {}} = {}
    OBVIOUS
  <1> QED BY <1>1, FS_EmptySet, ComparisonCount DEF Paired!SumOver

\* Where a sequence holds a member of R.
PlacesOf(s, R) == {i \in DOMAIN s : s[i] \in R}

LEMMA PlacesFinite ==
  ASSUME NEW V, NEW s \in Seq(V), NEW P \in SUBSET (DOMAIN s)
  PROVE  IsFiniteSet(P) /\ Cardinality(P) \in Nat /\ Cardinality(P) <= Len(s)
  <1>1. DOMAIN s = 1 .. Len(s) /\ Len(s) \in Nat
    BY LenProperties
  <1>2. IsFiniteSet(1 .. Len(s)) /\ Cardinality(1 .. Len(s)) = Len(s)
    BY <1>1, IntervalFrom1
  <1> QED BY <1>1, <1>2, FS_Subset, FS_CardinalityType

\* Occurrences add up to the places that hold one of them.
LEMMA SumOfOccurrences ==
  ASSUME NEW V, NEW s \in Seq(V), NEW f, NEW R, IsFiniteSet(R),
         \A r \in R : f[r] = Paired!Occurrences(s, r)
  PROVE  Paired!SumOver(f, R) = Cardinality(PlacesOf(s, R))
  <1> DEFINE Good == {T \in SUBSET R : Paired!SumOver(f, T) = Cardinality(PlacesOf(s, T))}
  <1>1. {} \in Good
    <2>1. PlacesOf(s, {}) = {}
      BY DEF PlacesOf
    <2> QED BY <2>1, SumOfNone, FS_EmptySet
  <1>2. ASSUME NEW T \in SUBSET R, NEW x \in T, T \ {x} \in Good
        PROVE  T \in Good
    <2>1. IsFiniteSet(T) /\ \A c \in T : f[c] \in Nat
      <3>1. \A c : Paired!Occurrences(s, c) \in Nat
        BY PlacesFinite, ComparisonCount DEF Paired!Occurrences
      <3> QED BY <3>1, FS_Subset
    <2>2. Paired!SumOver(f, T) = Cardinality(PlacesOf(s, T \ {x})) + Paired!Occurrences(s, x)
      BY <1>2, <2>1, SumStep
    <2> DEFINE P == PlacesOf(s, T \ {x})
               Q == {i \in DOMAIN s : s[i] = x}
    <2>3. PlacesOf(s, T) = P \cup Q /\ P \cap Q = {}
      BY DEF PlacesOf
    <2>4. IsFiniteSet(P) /\ IsFiniteSet(Q) /\ Cardinality(P) \in Nat /\ Cardinality(Q) \in Nat
      <3>1. P \subseteq DOMAIN s /\ Q \subseteq DOMAIN s
        BY DEF PlacesOf
      <3> QED BY <3>1, PlacesFinite
    <2>5. Cardinality(PlacesOf(s, T)) = Cardinality(P) + Cardinality(Q)
      BY <2>3, <2>4, DisjointAddUp
    <2> QED BY <2>2, <2>5, ComparisonCount DEF Paired!Occurrences
  <1>3. R \in Good
    <2> HIDE DEF Good
    <2> QED BY <1>1, <1>2, InductionOnSets
  <1> QED BY <1>3
-----------------------------------------------------------------------------
\* The pairs of values that two experiments may have.
Tables == Seq(Codes \X Codes)

LEMMA OccurringFinite ==
  ASSUME NEW V, NEW s \in Seq(V)
  PROVE  IsFiniteSet(Paired!Occurring(s)) /\ Cardinality(Paired!Occurring(s)) \in Nat
  <1>1. s \in Surjection(DOMAIN s, Paired!Occurring(s))
    <2>1. s \in [DOMAIN s -> Paired!Occurring(s)]
      BY DEF Paired!Occurring
    <2> QED BY <2>1 DEF Surjection, Paired!Occurring
  <1>2. IsFiniteSet(DOMAIN s)
    BY PlacesFinite
  <1> QED BY <1>1, <1>2, FS_Surjection, FS_CardinalityType

\* The rows of the change table add up to the pairs they stand for.
LEMMA TableAddsUp ==
  ASSUME NEW ps \in Tables, NEW R \in SUBSET Paired!Occurring(ps)
  PROVE  Paired!SumOver(Paired!ChangeTable(ps), R) = Cardinality(PlacesOf(ps, R))
  <1>1. IsFiniteSet(R)
    BY OccurringFinite, FS_Subset DEF Tables
  <1>2. \A r \in R : Paired!ChangeTable(ps)[r] = Paired!Occurrences(ps, r)
    BY DEF Paired!ChangeTable
  <1> QED BY <1>1, <1>2, SumOfOccurrences DEF Tables

\* The pairs that a cell of the contingency table counts.
CellOf(ps, cat, inA, inB) ==
  {i \in DOMAIN ps : (ps[i][1] = cat) = inA /\ (ps[i][2] = cat) = inB}

LEMMA CellsArePlaces ==
  ASSUME NEW ps \in Tables, NEW cat
  PROVE  Paired!ContingencyCells(ps, cat) =
           [a |-> Cardinality(CellOf(ps, cat, TRUE, TRUE)),
            b |-> Cardinality(CellOf(ps, cat, TRUE, FALSE)),
            c |-> Cardinality(CellOf(ps, cat, FALSE, TRUE)),
            d |-> Cardinality(CellOf(ps, cat, FALSE, FALSE))]
  <1> DEFINE R(inA, inB) ==
        {row \in Paired!Occurring(ps) : (row[1] = cat) = inA /\ (row[2] = cat) = inB}
  <1>1. ASSUME NEW inA \in BOOLEAN, NEW inB \in BOOLEAN
        PROVE  Paired!SumOver(Paired!ChangeTable(ps), R(inA, inB))
                 = Cardinality(CellOf(ps, cat, inA, inB))
    <2>1. PlacesOf(ps, R(inA, inB)) = CellOf(ps, cat, inA, inB)
      BY DEF PlacesOf, CellOf, Paired!Occurring
    <2> QED BY <2>1, TableAddsUp
  <1> QED BY <1>1 DEF Paired!ContingencyCells

LEMMA CellsFinite ==
  ASSUME NEW ps \in Tables, NEW cat, NEW inA, NEW inB
  PROVE  /\ IsFiniteSet(CellOf(ps, cat, inA, inB))
         /\ Cardinality(CellOf(ps, cat, inA, inB)) \in Nat
  <1>1. CellOf(ps, cat, inA, inB) \subseteq DOMAIN ps
    BY DEF CellOf
  <1> QED BY <1>1, PlacesFinite DEF Tables

\* The counts of a category are those of its cells.
LEMMA CountsAreCells ==
  ASSUME NEW ps \in Tables, NEW cat
  PROVE  LET x == Paired!ContingencyCells(ps, cat) IN
         /\ x.a \in Nat /\ x.b \in Nat /\ x.c \in Nat /\ x.d \in Nat
         /\ Paired!Count(ps, 1, cat) = x.a + x.b /\ Paired!Count(ps, 2, cat) = x.a + x.c
  <1> DEFINE Cl(inA, inB) == CellOf(ps, cat, inA, inB)
             R(k) == {row \in Paired!Occurring(ps) : row[k] = cat}
  <1>1. ASSUME NEW k \in {1, 2}
        PROVE  Paired!Count(ps, k, cat) = Cardinality({i \in DOMAIN ps : ps[i][k] = cat})
    <2>1. PlacesOf(ps, R(k)) = {i \in DOMAIN ps : ps[i][k] = cat}
      BY DEF PlacesOf, Paired!Occurring
    <2> QED BY <2>1, TableAddsUp DEF Paired!Count
  <1>2. /\ {i \in DOMAIN ps : ps[i][1] = cat} = Cl(TRUE, TRUE) \cup Cl(TRUE, FALSE)
        /\ {i \in DOMAIN ps : ps[i][2] = cat} = Cl(TRUE, TRUE) \cup Cl(FALSE, TRUE)
        /\ Cl(TRUE, TRUE) \cap Cl(TRUE, FALSE) = {} /\ Cl(TRUE, TRUE) \cap Cl(FALSE, TRUE) = {}
    BY DEF CellOf
  <1> HIDE DEF Cl
  <1>3. \A inA, inB \in BOOLEAN : IsFiniteSet(Cl(inA, inB)) /\ Cardinality(Cl(inA, inB)) \in Nat
    BY CellsFinite DEF Cl
  <1>4. /\ Paired!Count(ps, 1, cat) = Cardinality(Cl(TRUE, TRUE)) + Cardinality(Cl(TRUE, FALSE))
        /\ Paired!Count(ps, 2, cat) = Cardinality(Cl(TRUE, TRUE)) + Cardinality(Cl(FALSE, TRUE))
    BY <1>1, <1>2, <1>3, DisjointAddUp
  <1> DEFINE both == Cardinality(Cl(TRUE, TRUE))
             left == Cardinality(Cl(TRUE, FALSE))
             came == Cardinality(Cl(FALSE, TRUE))
             none == Cardinality(Cl(FALSE, FALSE))
  <1>5. Paired!ContingencyCells(ps, cat) = [a |-> both, b |-> left, c |-> came, d |-> none]
    BY CellsArePlaces DEF Cl
  <1>6. both \in Nat /\ left \in Nat /\ came \in Nat /\ none \in Nat
    BY <1>3
  <1>7. Paired!Count(ps, 1, cat) = both + left /\ Paired!Count(ps, 2, cat) = both + came
    BY <1>4
  <1> HIDE DEF both, left, came, none
  <1> QED BY <1>5, <1>6, <1>7

\* The radicand is (a + d)(b + c) + 4bc.
LEMMA RadicandIsPositive ==
  ASSUME NEW a \in Nat, NEW b \in Nat, NEW c \in Nat, NEW d \in Nat
  PROVE  (a + b + c + d) * (b + c) - (c - b) * (c - b) >= 0
  <1>1. (a + b + c + d) * (b + c) - (c - b) * (c - b) = (a + d) * (b + c) + 4 * (b * c)
    OBVIOUS
  <1>2. (a + d) * (b + c) \in Nat /\ b * c \in Nat
    OBVIOUS
  <1> QED BY <1>1, <1>2

LEMMA IntervalsAreDefined ==
  ASSUME NEW ps \in Tables, NEW cat
  PROVE  LET x == Paired!ContingencyCells(ps, cat) IN
         /\ Paired!IntervalCentre(x) = Paired!Count(ps, 2, cat) - Paired!Count(ps, 1, cat)
         /\ Paired!IntervalRadicand(x) >= 0
  BY CountsAreCells, RadicandIsPositive DEF Paired!IntervalCentre, Paired!IntervalRadicand

-----------------------------------------------------------------------------
\* To swap the two experiments leaves a pair in each place.
LEMMA SwapIsATable ==
  ASSUME NEW ps \in Tables
  PROVE  /\ Paired!Swap(ps) \in Tables /\ DOMAIN Paired!Swap(ps) = DOMAIN ps
         /\ \A i \in DOMAIN ps : Paired!Swap(ps)[i] = <<ps[i][2], ps[i][1]>>
         /\ \A i \in DOMAIN ps : ps[i] = <<ps[i][1], ps[i][2]>> /\ ps[i] \in Codes \X Codes
         /\ Len(Paired!Swap(ps)) = Len(ps)
  <1>1. DOMAIN ps = 1 .. Len(ps) /\ Len(ps) \in Nat
    BY LenProperties DEF Tables
  <1>2. \A i \in DOMAIN ps : ps[i] \in Codes \X Codes
    BY ElementOfSeq, <1>1 DEF Tables
  <1>3. Paired!Swap(ps) \in [1 .. Len(ps) -> Codes \X Codes]
    BY <1>1, <1>2 DEF Paired!Swap
  <1>4. Paired!Swap(ps) \in Seq(Codes \X Codes)
    BY <1>1, <1>3, SeqDef
  <1>5. Len(Paired!Swap(ps)) \in Nat /\ DOMAIN Paired!Swap(ps) = 1 .. Len(Paired!Swap(ps))
    BY <1>4, LenProperties
  <1>6. DOMAIN Paired!Swap(ps) = DOMAIN ps
    BY DEF Paired!Swap
  <1>7. Len(Paired!Swap(ps)) = Len(ps)
    <2>1. /\ Cardinality(DOMAIN Paired!Swap(ps)) = Len(Paired!Swap(ps))
          /\ Cardinality(DOMAIN ps) = Len(ps)
      BY <1>1, <1>5, IntervalFrom1
    <2> QED BY <2>1, <1>6
  <1> QED BY <1>2, <1>4, <1>6, <1>7 DEF Tables, Paired!Swap

LEMMA SwappedCells ==
  ASSUME NEW ps \in Tables, NEW cat
  PROVE  Paired!IntervalCentre(Paired!ContingencyCells(Paired!Swap(ps), cat))
           = - Paired!IntervalCentre(Paired!ContingencyCells(ps, cat))
  <1>1. ASSUME NEW inA \in BOOLEAN, NEW inB \in BOOLEAN
        PROVE  CellOf(Paired!Swap(ps), cat, inA, inB) = CellOf(ps, cat, inB, inA)
    BY SwapIsATable DEF CellOf
  <1>2. \A inA, inB \in BOOLEAN : Cardinality(CellOf(ps, cat, inA, inB)) \in Nat
    BY CellsFinite
  <1> DEFINE both == Cardinality(CellOf(ps, cat, TRUE, TRUE))
             left == Cardinality(CellOf(ps, cat, TRUE, FALSE))
             came == Cardinality(CellOf(ps, cat, FALSE, TRUE))
             none == Cardinality(CellOf(ps, cat, FALSE, FALSE))
  <1>3. Paired!ContingencyCells(ps, cat) = [a |-> both, b |-> left, c |-> came, d |-> none]
    BY CellsArePlaces
  <1>4. Paired!ContingencyCells(Paired!Swap(ps), cat)
          = [a |-> both, b |-> came, c |-> left, d |-> none]
    <2>1. Paired!ContingencyCells(Paired!Swap(ps), cat) =
            [a |-> Cardinality(CellOf(Paired!Swap(ps), cat, TRUE, TRUE)),
             b |-> Cardinality(CellOf(Paired!Swap(ps), cat, TRUE, FALSE)),
             c |-> Cardinality(CellOf(Paired!Swap(ps), cat, FALSE, TRUE)),
             d |-> Cardinality(CellOf(Paired!Swap(ps), cat, FALSE, FALSE))]
      BY SwapIsATable, CellsArePlaces
    <2>2. /\ CellOf(Paired!Swap(ps), cat, TRUE, TRUE) = CellOf(ps, cat, TRUE, TRUE)
          /\ CellOf(Paired!Swap(ps), cat, TRUE, FALSE) = CellOf(ps, cat, FALSE, TRUE)
          /\ CellOf(Paired!Swap(ps), cat, FALSE, TRUE) = CellOf(ps, cat, TRUE, FALSE)
          /\ CellOf(Paired!Swap(ps), cat, FALSE, FALSE) = CellOf(ps, cat, FALSE, FALSE)
      BY <1>1
    <2> QED BY <2>1, <2>2
  <1>5. both \in Nat /\ left \in Nat /\ came \in Nat
    BY <1>2
  <1> HIDE DEF both, left, came, none
  <1> QED BY <1>3, <1>4, <1>5 DEF Paired!IntervalCentre
-----------------------------------------------------------------------------
\* The pairs that a row of the change table stands for.
RowsOf(ps, i, j) == {k \in DOMAIN ps : ps[k] = <<i, j>>}

LEMMA ChangedIsOccurrences ==
  ASSUME NEW ps \in Tables, NEW i, NEW j
  PROVE  /\ Paired!Changed(ps, i, j) = Cardinality(RowsOf(ps, i, j))
         /\ Paired!Changed(ps, i, j) \in Nat
         /\ IsFiniteSet(RowsOf(ps, i, j))
  <1>1. Cardinality(RowsOf(ps, i, j)) \in Nat /\ IsFiniteSet(RowsOf(ps, i, j))
    BY PlacesFinite DEF Tables, RowsOf
  <1>2. CASE <<i, j>> \in Paired!Occurring(ps)
    BY <1>1, <1>2, ComparisonCount
       DEF Paired!Changed, Paired!ChangeTable, Paired!Occurrences, RowsOf
  <1>3. CASE <<i, j>> \notin Paired!Occurring(ps)
    <2>1. RowsOf(ps, i, j) = {}
      BY <1>3 DEF Paired!Occurring, RowsOf
    <2> QED BY <1>1, <1>3, <2>1, FS_EmptySet DEF Paired!Changed, Paired!ChangeTable
  <1> QED BY <1>2, <1>3

\* Quotients of what divides the common denominator.
LEMMA DivisionBound ==
  ASSUME NEW a \in Nat, NEW b \in Nat, NEW n \in Nat \ {0}, a <= b * n
  PROVE  a \div n \in Nat /\ a \div n <= b
  <1>1. a = n * (a \div n) + (a % n) /\ a % n \in 0 .. n - 1 /\ a \div n \in Int
    OBVIOUS
  <1> DEFINE q == a \div n
  <1>2. a = n * q + (a % n) /\ q \in Int /\ a % n \in 0 .. n - 1
    BY <1>1
  <1> HIDE DEF q
  <1>3. q >= 0
    <2>1. SUFFICES ASSUME q <= -1 PROVE FALSE
      BY <1>2
    <2>2. n * q <= n * (-1)
      BY <1>2, <2>1
    <2> QED BY <1>2, <2>2
  <1>4. q <= b
    <2>1. SUFFICES ASSUME q >= b + 1 PROVE FALSE
      BY <1>2
    <2>2. n * q >= n * (b + 1)
      BY <1>2, <2>1
    <2>3. n * (b + 1) = b * n + n
      OBVIOUS
    <2> QED BY <1>2, <2>2, <2>3
  <1> QED BY <1>2, <1>3, <1>4 DEF q

\* A term counts no more than the pairs that changed.
LEMMA TermBound ==
  ASSUME NEW ps \in Tables, NEW i, NEW j
  PROVE  /\ Paired!BowkerTerm(ps, i, j) \in Nat
         /\ Paired!BowkerTerm(ps, i, j)
              <= Denominator * (Paired!Changed(ps, i, j) + Paired!Changed(ps, j, i))
  <1> DEFINE x == Paired!Changed(ps, i, j)
             y == Paired!Changed(ps, j, i)
  <1>1. x \in Nat /\ y \in Nat /\ Denominator \in Nat
    BY ChangedIsOccurrences, ComparisonAssumption
  <1>2. Paired!BowkerTerm(ps, i, j)
          = IF x + y = 0 THEN 0 ELSE (Denominator * ((x - y) * (x - y))) \div (x + y)
    BY DEF Paired!BowkerTerm
  <1> HIDE DEF x, y
  <1>3. CASE x + y = 0
    <2>1. x = 0 /\ y = 0 /\ Paired!BowkerTerm(ps, i, j) = 0
      BY <1>1, <1>2, <1>3
    <2>2. Denominator * (x + y) = 0
      BY <1>1, <1>3
    <2> QED BY <2>1, <2>2 DEF x, y
  <1>4. CASE x + y # 0
    <2>1. (x - y) * (x - y) \in Nat
      BY <1>1
    <2>2. (x - y) * (x - y) + 4 * (x * y) = (x + y) * (x + y) /\ x * y \in Nat
      BY <1>1
    <2>3. (x - y) * (x - y) <= (x + y) * (x + y)
      BY <2>1, <2>2, <1>1
    <2> DEFINE m == (x - y) * (x - y)
               n == x + y
    <2>4. m \in Nat /\ n \in Nat \ {0} /\ m <= n * n
      BY <1>1, <1>4, <2>1, <2>3
    <2> HIDE DEF m, n
    <2>5. /\ Denominator * m \in Nat /\ Denominator * n \in Nat
          /\ Denominator * m <= Denominator * (n * n)
      BY <1>1, <2>4
    <2>6. Denominator * (n * n) = (Denominator * n) * n
      BY <1>1, <2>4
    <2>7. (Denominator * m) \div n \in Nat /\ (Denominator * m) \div n <= Denominator * n
      BY <2>4, <2>5, <2>6, DivisionBound
    <2>8. Paired!BowkerTerm(ps, i, j) = (Denominator * m) \div n
      BY <1>2, <1>4 DEF m, n
    <2>9. Paired!BowkerTerm(ps, i, j) \in Nat /\ Paired!BowkerTerm(ps, i, j) <= Denominator * n
      BY <2>7, <2>8
    <2> QED BY <2>9 DEF n, x, y
  <1> QED BY <1>3, <1>4 DEF x, y

LEMMA CategoriesFinite ==
  ASSUME NEW ps \in Tables
  PROVE  /\ IsFiniteSet(Paired!Categories(ps)) /\ Cardinality(Paired!Categories(ps)) \in Nat
         /\ Paired!Categories(ps) = {ps[i][1] : i \in DOMAIN ps} \cup {ps[i][2] : i \in DOMAIN ps}
         /\ Paired!Categories(ps) \subseteq Codes
  <1>1. \A k \in {1, 2} : Paired!Side(ps, k) \in Seq(Codes) /\ DOMAIN Paired!Side(ps, k) = DOMAIN ps
    <2>1. DOMAIN ps = 1 .. Len(ps) /\ Len(ps) \in Nat
      BY LenProperties DEF Tables
    <2>2. \A i \in DOMAIN ps : ps[i][1] \in Codes /\ ps[i][2] \in Codes
      BY SwapIsATable
    <2> QED BY <2>1, <2>2, SeqDef DEF Paired!Side
  <1>2. IsFiniteSet(Paired!Categories(ps))
    BY <1>1, OccurringFinite, FS_Union DEF Paired!Categories
  <1>3. Paired!Categories(ps) = {ps[i][1] : i \in DOMAIN ps} \cup {ps[i][2] : i \in DOMAIN ps}
    BY DEF Paired!Categories, Paired!Occurring, Paired!Side
  <1> QED BY <1>2, <1>3, SwapIsATable, FS_CardinalityType

\* A code is the text of one number.
LEMMA ValuesOfCodes ==
  ASSUME NEW c \in Codes
  PROVE  /\ Paired!ValueOf(c) \in DOMAIN TextOf /\ Paired!ValueOf(c) \in Int
         /\ TextOf[Paired!ValueOf(c)] = c
         /\ \A v \in DOMAIN TextOf : TextOf[v] = c => v = Paired!ValueOf(c)
  BY ComparisonAssumption DEF Paired!ValueOf
-----------------------------------------------------------------------------
\* The pairs of categories that Bowker's test compares, and their terms.
Compared(ps) ==
  {p \in Paired!Categories(ps) \X Paired!Categories(ps) :
     Paired!ValueOf(p[1]) < Paired!ValueOf(p[2])}
Terms(ps) ==
  [p \in Paired!Categories(ps) \X Paired!Categories(ps) |-> Paired!BowkerTerm(ps, p[1], p[2])]

LEMMA ComparedFinite ==
  ASSUME NEW ps \in Tables
  PROVE  IsFiniteSet(Compared(ps)) /\ \A p \in Compared(ps) : Terms(ps)[p] \in Nat
  <1>1. IsFiniteSet(Paired!Categories(ps) \X Paired!Categories(ps))
    BY CategoriesFinite, FS_Product
  <1>2. Compared(ps) \subseteq Paired!Categories(ps) \X Paired!Categories(ps)
    BY DEF Compared
  <1>3. \A p \in Compared(ps) : Terms(ps)[p] = Paired!BowkerTerm(ps, p[1], p[2])
    BY <1>2 DEF Terms
  <1> QED BY <1>1, <1>2, <1>3, FS_Subset, TermBound

\* The pairs that changed between the categories of p, either way.
ChangesOf(ps, T) ==
  {k \in DOMAIN ps : \E p \in T : ps[k] = <<p[1], p[2]>> \/ ps[k] = <<p[2], p[1]>>}

\* Each pair is counted in one term at most: Cramer's V is at most one.
LEMMA BowkerBound ==
  ASSUME NEW ps \in Tables
  PROVE  Paired!Bowker(ps) \in Nat /\ Paired!Bowker(ps) <= Denominator * Len(ps)
  <1> DEFINE S == Compared(ps)
             f == Terms(ps)
             Good == {T \in SUBSET S :
                        Paired!SumOver(f, T) \in Nat
                          /\ Paired!SumOver(f, T) <= Denominator * Cardinality(ChangesOf(ps, T))}
  <1>1. {} \in Good
    <2>1. ChangesOf(ps, {}) = {}
      BY DEF ChangesOf
    <2>2. Paired!SumOver(f, {}) = 0 /\ Cardinality(ChangesOf(ps, {})) = 0
      BY <2>1, SumOfNone, FS_EmptySet
    <2>3. Denominator * 0 = 0
      BY ComparisonAssumption
    <2> HIDE DEF f
    <2> QED BY <2>2, <2>3
  <1>2. ASSUME NEW T \in SUBSET S, NEW x \in T, T \ {x} \in Good
        PROVE  T \in Good
    <2>1. IsFiniteSet(T) /\ \A p \in T : f[p] \in Nat
      BY ComparedFinite, FS_Subset
    <2>2. /\ Paired!SumOver(f, T) = Paired!SumOver(f, T \ {x}) + f[x]
          /\ Paired!SumOver(f, T) \in Nat
      BY <2>1, SumStep
    <2> DEFINE P == RowsOf(ps, x[1], x[2])
               Q == RowsOf(ps, x[2], x[1])
               O == ChangesOf(ps, T \ {x})
    <2>3. \A p \in T : /\ p = <<p[1], p[2]>> /\ p[1] \in Codes /\ p[2] \in Codes
                       /\ Paired!ValueOf(p[1]) \in Int /\ Paired!ValueOf(p[2]) \in Int
                       /\ Paired!ValueOf(p[1]) < Paired!ValueOf(p[2])
      BY CategoriesFinite, ValuesOfCodes DEF Compared
    <2>4. P \cap Q = {} /\ (P \cup Q) \cap O = {}
      BY <2>3 DEF ChangesOf, RowsOf
    <2>5. ChangesOf(ps, T) = (P \cup Q) \cup O
      BY DEF ChangesOf, RowsOf
    <2>6. IsFiniteSet(P) /\ IsFiniteSet(Q) /\ IsFiniteSet(O)
      <3>1. O \subseteq DOMAIN ps
        BY DEF ChangesOf
      <3> QED BY <3>1, PlacesFinite, ChangedIsOccurrences DEF Tables
    <2>7. f[x] <= Denominator * (Cardinality(P) + Cardinality(Q)) /\ f[x] \in Nat
      <3>1. f[x] = Paired!BowkerTerm(ps, x[1], x[2])
        BY DEF Terms, Compared
      <3>2. /\ Paired!Changed(ps, x[1], x[2]) = Cardinality(P)
            /\ Paired!Changed(ps, x[2], x[1]) = Cardinality(Q)
        BY ChangedIsOccurrences
      <3>3. Cardinality(P) \in Nat /\ Cardinality(Q) \in Nat
        BY <2>6, FS_CardinalityType
      <3> HIDE DEF P, Q
      <3> QED BY <3>1, <3>2, <3>3, TermBound
    <2> HIDE DEF P, Q, O, f
    <2>8. /\ Cardinality(ChangesOf(ps, T)) = Cardinality(P) + Cardinality(Q) + Cardinality(O)
          /\ Cardinality(P) \in Nat /\ Cardinality(Q) \in Nat /\ Cardinality(O) \in Nat
      <3>1. /\ IsFiniteSet(P \cup Q) /\ Cardinality(P \cup Q) = Cardinality(P) + Cardinality(Q)
            /\ Cardinality(P) \in Nat /\ Cardinality(Q) \in Nat
        BY <2>4, <2>6, DisjointAddUp
      <3>2. /\ Cardinality((P \cup Q) \cup O) = Cardinality(P \cup Q) + Cardinality(O)
            /\ Cardinality(O) \in Nat
        BY <2>4, <2>6, <3>1, DisjointAddUp
      <3> QED BY <2>5, <3>1, <3>2
    <2>9. /\ Paired!SumOver(f, T \ {x}) \in Nat
          /\ Paired!SumOver(f, T \ {x}) <= Denominator * Cardinality(O)
      BY <1>2 DEF O
    <2>10. Denominator * (Cardinality(P) + Cardinality(Q) + Cardinality(O))
             = Denominator * (Cardinality(P) + Cardinality(Q)) + Denominator * Cardinality(O)
      BY <2>8, ComparisonAssumption
    <2>11. /\ Denominator * (Cardinality(P) + Cardinality(Q)) \in Int
           /\ Denominator * Cardinality(O) \in Int
      BY <2>8, ComparisonAssumption
    <2>12. Paired!SumOver(f, T) <= Denominator * Cardinality(ChangesOf(ps, T))
      BY <2>2, <2>7, <2>8, <2>9, <2>10, <2>11
    <2> QED BY <2>2, <2>12
  <1>3. S \in Good
    <2>1. IsFiniteSet(S)
      BY ComparedFinite
    <2> HIDE DEF Good, S
    <2> QED BY <1>1, <1>2, <2>1, InductionOnSets
  <1>4. Paired!Bowker(ps) = Paired!SumOver(f, S)
    BY DEF Paired!Bowker, Terms, Compared
  <1>5. /\ Cardinality(ChangesOf(ps, S)) \in Nat /\ Cardinality(ChangesOf(ps, S)) <= Len(ps)
        /\ Len(ps) \in Nat
    <2>1. ChangesOf(ps, S) \subseteq DOMAIN ps
      BY DEF ChangesOf
    <2> QED BY <2>1, PlacesFinite, LenProperties DEF Tables
  <1>6. /\ Denominator * Cardinality(ChangesOf(ps, S)) <= Denominator * Len(ps)
        /\ Denominator * Len(ps) \in Nat /\ Denominator * Cardinality(ChangesOf(ps, S)) \in Nat
    <2>1. \A d, m, n \in Nat : m <= n => d * m <= d * n /\ d * m \in Nat /\ d * n \in Nat
      OBVIOUS
    <2> QED BY <1>5, <2>1, ComparisonAssumption
  <1> HIDE DEF S, f
  <1> QED BY <1>3, <1>4, <1>6

\* Something to compare takes two categories.
LEMMA BowkerNeedsCategories ==
  ASSUME NEW ps \in Tables, Paired!Bowker(ps) > 0
  PROVE  Paired!DegreesOfFreedom(ps) > 0
  <1>1. Compared(ps) # {}
    <2>1. SUFFICES ASSUME Compared(ps) = {} PROVE FALSE
      OBVIOUS
    <2>2. Paired!Bowker(ps) = 0
      BY <2>1, SumOfNone DEF Paired!Bowker, Compared
    <2> QED BY <2>2
  <1>2. PICK p \in Compared(ps) : TRUE
    BY <1>1
  <1>3. p[1] \in Paired!Categories(ps) /\ p[2] \in Paired!Categories(ps) /\ p[1] # p[2]
    BY CategoriesFinite, ValuesOfCodes DEF Compared
  <1> DEFINE n == Cardinality(Paired!Categories(ps))
  <1>4. n \in Nat /\ n >= 2
    <2>1. /\ IsFiniteSet({p[1]}) /\ IsFiniteSet({p[2]})
          /\ Cardinality({p[1]}) = 1 /\ Cardinality({p[2]}) = 1
      BY FS_Singleton
    <2> DEFINE A == {p[1]}
               B == {p[2]}
    <2>2. Cardinality(A \cup B) = 2
      <3>1. /\ A \cap B = {} /\ IsFiniteSet(A) /\ IsFiniteSet(B)
            /\ Cardinality(A) = 1 /\ Cardinality(B) = 1
        BY <1>3, <2>1
      <3> HIDE DEF A, B
      <3>2. Cardinality(A \cup B) = Cardinality(A) + Cardinality(B)
        BY <3>1, DisjointAddUp
      <3> QED BY <3>1, <3>2
    <2>3. {p[1]} \cup {p[2]} \subseteq Paired!Categories(ps)
      BY <1>3
    <2> QED BY <2>2, <2>3, CategoriesFinite, FS_Subset
  <1>5. Paired!DegreesOfFreedom(ps) = (n * (n - 1)) \div 2
    BY ComparisonCount DEF Paired!DegreesOfFreedom
  <1> HIDE DEF n
  <1>6. n * (n - 1) >= 2 /\ n * (n - 1) \in Nat
    BY <1>4
  <1> QED BY <1>5, <1>6

\* A term is the same either way.
LEMMA SwappedBowker ==
  ASSUME NEW ps \in Tables
  PROVE  Paired!Bowker(Paired!Swap(ps)) = Paired!Bowker(ps)
  <1>1. Paired!Categories(Paired!Swap(ps)) = Paired!Categories(ps)
    <2>1. Paired!Categories(Paired!Swap(ps))
            = {Paired!Swap(ps)[i][1] : i \in DOMAIN Paired!Swap(ps)}
                \cup {Paired!Swap(ps)[i][2] : i \in DOMAIN Paired!Swap(ps)}
      BY SwapIsATable, CategoriesFinite
    <2>2. Paired!Categories(ps) = {ps[i][1] : i \in DOMAIN ps} \cup {ps[i][2] : i \in DOMAIN ps}
      BY CategoriesFinite
    <2>3. \A i \in DOMAIN ps : Paired!Swap(ps)[i][1] = ps[i][2] /\ Paired!Swap(ps)[i][2] = ps[i][1]
      BY SwapIsATable
    <2> QED BY <2>1, <2>2, <2>3, SwapIsATable
  <1>2. ASSUME NEW i, NEW j
        PROVE  Paired!BowkerTerm(Paired!Swap(ps), i, j) = Paired!BowkerTerm(ps, i, j)
    <2>1. \A a, b : RowsOf(Paired!Swap(ps), a, b) = RowsOf(ps, b, a)
      BY SwapIsATable DEF RowsOf
    <2>2. \A a, b : Paired!Changed(Paired!Swap(ps), a, b) = Paired!Changed(ps, b, a)
      <3>1. Paired!Swap(ps) \in Tables
        BY SwapIsATable
      <3> QED BY <2>1, <3>1, ChangedIsOccurrences
    <2> DEFINE x == Paired!Changed(ps, i, j)
               y == Paired!Changed(ps, j, i)
    <2>3. x \in Nat /\ y \in Nat
      BY ChangedIsOccurrences
    <2>4. Paired!BowkerTerm(Paired!Swap(ps), i, j)
            = IF y + x = 0 THEN 0 ELSE (Denominator * ((y - x) * (y - x))) \div (y + x)
      BY <2>2 DEF Paired!BowkerTerm
    <2>5. Paired!BowkerTerm(ps, i, j)
            = IF x + y = 0 THEN 0 ELSE (Denominator * ((x - y) * (x - y))) \div (x + y)
      BY DEF Paired!BowkerTerm
    <2> HIDE DEF x, y
    <2>6. (x - y) * (x - y) = (y - x) * (y - x) /\ x + y = y + x
      BY <2>3
    <2> QED BY <2>4, <2>5, <2>6
  <1>3. Terms(Paired!Swap(ps)) = Terms(ps) /\ Compared(Paired!Swap(ps)) = Compared(ps)
    BY <1>1, <1>2 DEF Terms, Compared
  <1> QED BY <1>3 DEF Paired!Bowker, Terms, Compared
-----------------------------------------------------------------------------
LEMMA SidesOfTables ==
  ASSUME NEW ps \in Tables, NEW k \in {1, 2}
  PROVE  /\ Paired!Side(ps, k) \in Seq(Codes) /\ DOMAIN Paired!Side(ps, k) = DOMAIN ps
         /\ Len(Paired!Side(ps, k)) = Len(ps) /\ DOMAIN ps = 1 .. Len(ps) /\ Len(ps) \in Nat
         /\ \A i \in DOMAIN ps : Paired!Side(ps, k)[i] = ps[i][k] /\ ps[i][k] \in Codes
  <1>1. DOMAIN ps = 1 .. Len(ps) /\ Len(ps) \in Nat
    BY LenProperties DEF Tables
  <1>2. \A i \in DOMAIN ps : ps[i][k] \in Codes
    BY SwapIsATable
  <1>3. Paired!Side(ps, k) \in Seq(Codes)
    BY <1>1, <1>2, SeqDef DEF Paired!Side
  <1>4. DOMAIN Paired!Side(ps, k) = DOMAIN ps
    BY DEF Paired!Side
  <1>5. Len(Paired!Side(ps, k)) = Len(ps)
    <2>1. /\ DOMAIN Paired!Side(ps, k) = 1 .. Len(Paired!Side(ps, k))
          /\ Len(Paired!Side(ps, k)) \in Nat
      BY <1>3, LenProperties
    <2>2. /\ Cardinality(DOMAIN Paired!Side(ps, k)) = Len(Paired!Side(ps, k))
          /\ Cardinality(DOMAIN ps) = Len(ps)
      BY <1>1, <2>1, IntervalFrom1
    <2> QED BY <2>2, <1>4
  <1> QED BY <1>1, <1>2, <1>3, <1>4, <1>5 DEF Paired!Side

LEMMA SidesOfSwap ==
  ASSUME NEW ps \in Tables
  PROVE  /\ Paired!Side(Paired!Swap(ps), 1) = Paired!Side(ps, 2)
         /\ Paired!Side(Paired!Swap(ps), 2) = Paired!Side(ps, 1)
  <1>1. \A i \in DOMAIN ps : Paired!Swap(ps)[i][1] = ps[i][2] /\ Paired!Swap(ps)[i][2] = ps[i][1]
    BY SwapIsATable
  <1>2. DOMAIN Paired!Swap(ps) = DOMAIN ps
    BY SwapIsATable
  <1> QED BY <1>1, <1>2 DEF Paired!Side

LEMMA RanksFinite ==
  ASSUME NEW s \in Seq(Codes)
  PROVE  IsFiniteSet(DOMAIN Paired!Ranks(s))
  <1>1. Paired!KeptUpTo(s, Len(s)) \subseteq DOMAIN s
    BY DEF Paired!KeptUpTo
  <1>2. Cardinality(Paired!KeptUpTo(s, Len(s))) \in Nat
    BY <1>1, PlacesFinite
  <1>3. DOMAIN Paired!Ranks(s) = 1 .. Cardinality(Paired!KeptUpTo(s, Len(s)))
    BY ComparisonCount DEF Paired!Ranks
  <1> QED BY <1>2, <1>3, IntervalFrom1

\* Where b is above a, and where it is below.
LEMMA SwappedDominance ==
  ASSUME NEW ps \in Tables
  PROVE  Paired!Dominance(Paired!Swap(ps)) = - Paired!Dominance(ps)
  <1> DEFINE a == Paired!Ranks(Paired!Side(ps, 1))
             b == Paired!Ranks(Paired!Side(ps, 2))
             both == DOMAIN a \cap DOMAIN b
             up == {i \in both : b[i] > a[i]}
             down == {i \in both : b[i] < a[i]}
  <1>1. Paired!Dominance(ps) = Cardinality(up) - Cardinality(down)
    BY ComparisonCount DEF Paired!Dominance
  <1>2. Paired!Dominance(Paired!Swap(ps)) = Cardinality(down) - Cardinality(up)
    <2>1. Paired!Dominance(Paired!Swap(ps)) =
            Cardinality({i \in DOMAIN b \cap DOMAIN a : a[i] > b[i]})
                                  - Cardinality({i \in DOMAIN b \cap DOMAIN a : a[i] < b[i]})
      BY SidesOfSwap, ComparisonCount DEF Paired!Dominance
    <2>2. {i \in DOMAIN b \cap DOMAIN a : a[i] > b[i]} = down
      OBVIOUS
    <2>3. {i \in DOMAIN b \cap DOMAIN a : a[i] < b[i]} = up
      OBVIOUS
    <2> QED BY <2>1, <2>2, <2>3
  <1>3. Cardinality(up) \in Nat /\ Cardinality(down) \in Nat
    <2>1. IsFiniteSet(DOMAIN a)
      BY RanksFinite, SidesOfTables
    <2>2. up \subseteq DOMAIN a /\ down \subseteq DOMAIN a
      OBVIOUS
    <2> HIDE DEF a, b, both, up, down
    <2> QED BY <2>1, <2>2, FS_Subset, FS_CardinalityType
  <1> HIDE DEF up, down
  <1> QED BY <1>1, <1>2, <1>3

-----------------------------------------------------------------------------
\* A scale that has been entered.
Entered == scale \in Scales

LEMMA ScaleIsASequence ==
  ASSUME Entered
  PROVE  /\ DOMAIN scale = 1 .. Len(scale) /\ Len(scale) \in Nat \ {0} /\ DOMAIN scale # {}
         /\ IsFiniteSet(DOMAIN scale)
         /\ \A k \in DOMAIN scale : /\ scale[k].value \in DOMAIN TextOf
                                   /\ scale[k].value \in Int
  <1>1. scale \in Seq([label : STRING, value : DOMAIN TextOf]) /\ scale # <<>>
    BY ComparisonAssumption DEF Entered
  <1>2. DOMAIN scale = 1 .. Len(scale) /\ Len(scale) \in Nat /\ Len(scale) # 0
    BY <1>1, LenProperties, EmptySeq
  <1>3. \A k \in DOMAIN scale : scale[k] \in [label : STRING, value : DOMAIN TextOf]
    BY <1>1, <1>2, ElementOfSeq
  <1>4. DOMAIN scale # {}
    <2>1. 1 \in 1 .. Len(scale)
      BY <1>2
    <2> QED BY <2>1, <1>2
  <1> QED BY <1>2, <1>3, <1>4, IntervalFrom1, ComparisonAssumption

\* Sorted by value, and equal values as entered, the options are in a line.
LEMMA UpToIsALine ==
  ASSUME Entered
  PROVE  /\ \A k \in DOMAIN scale : Paired!UpTo(k) \subseteq DOMAIN scale /\ k \in Paired!UpTo(k)
         /\ \A j, k \in DOMAIN scale : j \in Paired!UpTo(k) \/ k \in Paired!UpTo(j)
         /\ \A j, k \in DOMAIN scale : j \in Paired!UpTo(k) => scale[j].value <= scale[k].value
         /\ \A i, j, k \in DOMAIN scale :
              i \in Paired!UpTo(j) /\ j \in Paired!UpTo(k) => i \in Paired!UpTo(k)
  <1>1. \A k \in DOMAIN scale : scale[k].value \in Int /\ k \in Int
    BY ScaleIsASequence
  <1> QED BY <1>1 DEF Paired!UpTo

\* Of some options there is a first and a last.
LEMMA FirstIsThere ==
  ASSUME Entered, NEW K \in SUBSET DOMAIN scale, K # {}
  PROVE  Paired!FirstOf(K) \in K /\ \A j \in K : Paired!FirstOf(K) \in Paired!UpTo(j)
  <1> DEFINE Good == {T \in SUBSET K : T # {} => \E k \in T : \A j \in T : k \in Paired!UpTo(j)}
  <1>1. IsFiniteSet(K)
    BY ScaleIsASequence, FS_Subset
  <1>2. {} \in Good
    OBVIOUS
  <1>3. ASSUME NEW T \in SUBSET K, NEW x \in T, T \ {x} \in Good
        PROVE  T \in Good
    <2>1. CASE T \ {x} = {}
      <3>1. T = {x} /\ x \in Paired!UpTo(x)
        BY <2>1, UpToIsALine
      <3> QED BY <3>1
    <2>2. CASE T \ {x} # {}
      <3>1. PICK m \in T \ {x} : \A j \in T \ {x} : m \in Paired!UpTo(j)
        BY <1>3, <2>2
      <3>2. CASE m \in Paired!UpTo(x)
        BY <3>1, <3>2
      <3>3. CASE x \in Paired!UpTo(m)
        <4>1. \A j \in T : x \in Paired!UpTo(j)
          BY <3>1, <3>3, UpToIsALine
        <4> QED BY <4>1
      <3> QED BY <3>2, <3>3, UpToIsALine
    <2> QED BY <2>1, <2>2
  <1>4. K \in Good
    <2> HIDE DEF Good
    <2> QED BY <1>1, <1>2, <1>3, InductionOnSets
  <1> QED BY <1>4 DEF Paired!FirstOf

LEMMA LastIsThere ==
  ASSUME Entered, NEW K \in SUBSET DOMAIN scale, K # {}
  PROVE  Paired!LastOf(K) \in K /\ \A j \in K : j \in Paired!UpTo(Paired!LastOf(K))
  <1> DEFINE Good == {T \in SUBSET K : T # {} => \E k \in T : \A j \in T : j \in Paired!UpTo(k)}
  <1>1. IsFiniteSet(K)
    BY ScaleIsASequence, FS_Subset
  <1>2. {} \in Good
    OBVIOUS
  <1>3. ASSUME NEW T \in SUBSET K, NEW x \in T, T \ {x} \in Good
        PROVE  T \in Good
    <2>1. CASE T \ {x} = {}
      <3>1. T = {x} /\ x \in Paired!UpTo(x)
        BY <2>1, UpToIsALine
      <3> QED BY <3>1
    <2>2. CASE T \ {x} # {}
      <3>1. PICK m \in T \ {x} : \A j \in T \ {x} : j \in Paired!UpTo(m)
        BY <1>3, <2>2
      <3>2. CASE x \in Paired!UpTo(m)
        BY <3>1, <3>2
      <3>3. CASE m \in Paired!UpTo(x)
        <4>1. \A j \in T : j \in Paired!UpTo(x)
          BY <3>1, <3>3, UpToIsALine
        <4> QED BY <4>1
      <3> QED BY <3>2, <3>3, UpToIsALine
    <2> QED BY <2>1, <2>2
  <1>4. K \in Good
    <2> HIDE DEF Good
    <2> QED BY <1>1, <1>2, <1>3, InductionOnSets
  <1> QED BY <1>4 DEF Paired!LastOf

\* On an unambiguous scale a code stands for the option of its value alone.
LEMMA OneOptionEach ==
  ASSUME Entered, Paired!Unambiguous, NEW c \in Codes
  PROVE  /\ \A k \in DOMAIN scale :
              Paired!IsOption(c, scale[k]) <=> scale[k].value = Paired!ValueOf(c)
         /\ Paired!OnScale(c) => Paired!RankOf(c) = Paired!ValueOf(c)
  <1>1. ASSUME NEW k \in DOMAIN scale
        PROVE  Paired!IsOption(c, scale[k]) <=> scale[k].value = Paired!ValueOf(c)
    <2>1. scale[k].label = c => TextOf[scale[k].value] = c
      BY DEF Paired!Unambiguous
    <2>2. scale[k].value \in DOMAIN TextOf
      BY ScaleIsASequence
    <2> QED BY <2>1, <2>2, ValuesOfCodes DEF Paired!IsOption
  <1>2. ASSUME Paired!OnScale(c)
        PROVE  Paired!RankOf(c) = Paired!ValueOf(c)
    <2>1. PICK k \in DOMAIN scale : Paired!IsOption(c, scale[k])
      BY <1>2 DEF Paired!OnScale
    <2>2. \A j \in DOMAIN scale : Paired!IsOption(c, scale[j]) => j = k
      BY <1>1, <2>1 DEF Paired!Unambiguous
    <2>3. k <= k
      BY ScaleIsASequence
    <2>4. Paired!FirstOption(c) = k
      BY <2>1, <2>2, <2>3 DEF Paired!FirstOption
    <2> QED BY <1>1, <2>1, <2>4 DEF Paired!RankOf
  <1> QED BY <1>1, <1>2
\* If nothing is off the scale, the n-th rank is that of the n-th value.
LEMMA RanksInPlace ==
  ASSUME Entered, Paired!Unambiguous,
         NEW s \in Seq(Codes), \A i \in DOMAIN s : Paired!OnScale(s[i])
  PROVE  /\ DOMAIN Paired!Ranks(s) = DOMAIN s
         /\ \A i \in DOMAIN s : Paired!Ranks(s)[i] = Paired!ValueOf(s[i])
  <1>1. DOMAIN s = 1 .. Len(s) /\ Len(s) \in Nat
    BY LenProperties
  <1>2. \A i \in DOMAIN s \cup {Len(s)} : Paired!KeptUpTo(s, i) = 1 .. i /\ Cardinality(1 .. i) = i
    <2>1. \A i \in 0 .. Len(s) : Paired!KeptUpTo(s, i) = 1 .. i
      BY <1>1 DEF Paired!KeptUpTo
    <2> QED BY <1>1, <2>1, IntervalFrom1
  <1>3. DOMAIN Paired!Ranks(s) = 1 .. Len(s)
    BY <1>2, ComparisonCount DEF Paired!Ranks
  <1>4. ASSUME NEW n \in DOMAIN s
        PROVE  Paired!Ranks(s)[n] = Paired!ValueOf(s[n])
    <2>1. (CHOOSE i \in Paired!KeptUpTo(s, Len(s)) : Cardinality(Paired!KeptUpTo(s, i)) = n) = n
      <3>1. Paired!KeptUpTo(s, Len(s)) = DOMAIN s
        BY <1>1, <1>2
      <3>2. \A i \in DOMAIN s : Cardinality(Paired!KeptUpTo(s, i)) = n <=> i = n
        BY <1>2
      <3> QED BY <3>1, <3>2
    <2>2. Paired!Ranks(s)[n] = Paired!RankOf(s[n])
      BY <1>1, <1>3, <2>1, ComparisonCount DEF Paired!Ranks
    <2>3. s[n] \in Codes
      BY <1>1, ElementOfSeq
    <2> QED BY <2>2, <2>3, OneOptionEach
  <1> QED BY <1>1, <1>3, <1>4

\* The ranks that meet are those of a pair.
LEMMA DominanceOfPairs ==
  ASSUME Entered, Paired!Unambiguous, Paired!AllOnScale, pairs \in Tables
  PROVE  Paired!Dominance(pairs) =
           Cardinality({i \in DOMAIN pairs :
                          Paired!ValueOf(pairs[i][2]) > Paired!ValueOf(pairs[i][1])})
             - Cardinality({i \in DOMAIN pairs :
                              Paired!ValueOf(pairs[i][2]) < Paired!ValueOf(pairs[i][1])})
  <1> DEFINE a == Paired!Ranks(Paired!Side(pairs, 1))
             b == Paired!Ranks(Paired!Side(pairs, 2))
  <1>1. ASSUME NEW k \in {1, 2}
        PROVE  /\ DOMAIN Paired!Ranks(Paired!Side(pairs, k)) = DOMAIN pairs
               /\ \A i \in DOMAIN pairs :
                    Paired!Ranks(Paired!Side(pairs, k))[i] = Paired!ValueOf(pairs[i][k])
    <2>1. \A i \in DOMAIN pairs : Paired!OnScale(pairs[i][k])
      BY CategoriesFinite DEF Paired!AllOnScale
    <2>2. Paired!Side(pairs, k) \in Seq(Codes) /\ DOMAIN Paired!Side(pairs, k) = DOMAIN pairs
      BY SidesOfTables
    <2>3. \A i \in DOMAIN pairs : Paired!Side(pairs, k)[i] = pairs[i][k]
      BY SidesOfTables
    <2> QED BY <2>1, <2>2, <2>3, RanksInPlace
  <1>2. /\ DOMAIN a = DOMAIN pairs /\ DOMAIN b = DOMAIN pairs
        /\ \A i \in DOMAIN pairs :
             a[i] = Paired!ValueOf(pairs[i][1]) /\ b[i] = Paired!ValueOf(pairs[i][2])
    BY <1>1
  <1>3. Paired!Dominance(pairs) = Cardinality({i \in DOMAIN a \cap DOMAIN b : b[i] > a[i]})
                             - Cardinality({i \in DOMAIN a \cap DOMAIN b : b[i] < a[i]})
    BY ComparisonCount DEF Paired!Dominance
  <1> HIDE DEF a, b
  <1>4. {i \in DOMAIN a \cap DOMAIN b : b[i] > a[i]}
          = {i \in DOMAIN pairs : Paired!ValueOf(pairs[i][2]) > Paired!ValueOf(pairs[i][1])}
    BY <1>2
  <1>5. {i \in DOMAIN a \cap DOMAIN b : b[i] < a[i]}
          = {i \in DOMAIN pairs : Paired!ValueOf(pairs[i][2]) < Paired!ValueOf(pairs[i][1])}
    BY <1>2
  <1> QED BY <1>3, <1>4, <1>5

-----------------------------------------------------------------------------
\* The places whose values are those of the options K, and those up to v.
HeldBy(s, K)   == {i \in DOMAIN s : \E k \in K : Paired!ValueOf(s[i]) = scale[k].value}
ValuedUpTo(s, v) == {i \in DOMAIN s : Paired!ValueOf(s[i]) <= v}

\* On an unambiguous scale an option counts the places that hold its value.
LEMMA OptionCountIs ==
  ASSUME Entered, Paired!Unambiguous, NEW s \in Seq(Codes), NEW k \in DOMAIN scale
  PROVE  /\ Paired!OptionCount(s, scale[k]) = Cardinality(HeldBy(s, {k}))
         /\ Paired!OptionCount(s, scale[k]) \in Nat
  <1>1. \A i \in DOMAIN s : s[i] \in Codes
    BY LenProperties, ElementOfSeq
  <1>2. scale[k].value \in DOMAIN TextOf
    BY ScaleIsASequence
  <1>3. HeldBy(s, {k}) = {i \in DOMAIN s : s[i] = TextOf[scale[k].value]}
    BY <1>1, <1>2, ValuesOfCodes DEF HeldBy
  <1>4. scale[k].label \in Paired!Occurring(s) => scale[k].label = TextOf[scale[k].value]
    BY <1>1 DEF Paired!Occurring, Paired!Unambiguous
  <1>5. Paired!OptionCount(s, scale[k]) = Paired!Occurrences(s, TextOf[scale[k].value])
    BY <1>4 DEF Paired!OptionCount
  <1>6. Cardinality(HeldBy(s, {k})) \in Nat
    <2>1. HeldBy(s, {k}) \subseteq DOMAIN s
      BY DEF HeldBy
    <2> QED BY <2>1, PlacesFinite
  <1> QED BY <1>3, <1>5, <1>6, ComparisonCount DEF Paired!Occurrences

LEMMA HeldFinite ==
  ASSUME NEW s \in Seq(Codes), NEW K
  PROVE  IsFiniteSet(HeldBy(s, K)) /\ Cardinality(HeldBy(s, K)) \in Nat
  <1>1. HeldBy(s, K) \subseteq DOMAIN s
    BY DEF HeldBy
  <1> QED BY <1>1, PlacesFinite

LEMMA SumOfOptions ==
  ASSUME Entered, Paired!Unambiguous, NEW s \in Seq(Codes), NEW K \in SUBSET DOMAIN scale
  PROVE  Paired!SumOver([j \in DOMAIN scale |-> Paired!OptionCount(s, scale[j])], K)
           = Cardinality(HeldBy(s, K))
  <1> DEFINE f == [j \in DOMAIN scale |-> Paired!OptionCount(s, scale[j])]
             Good == {T \in SUBSET K : Paired!SumOver(f, T) = Cardinality(HeldBy(s, T))}
  <1>1. IsFiniteSet(K)
    BY ScaleIsASequence, FS_Subset
  <1>2. {} \in Good
    <2>1. HeldBy(s, {}) = {}
      BY DEF HeldBy
    <2> QED BY <2>1, SumOfNone, FS_EmptySet
  <1>3. ASSUME NEW T \in SUBSET K, NEW x \in T, T \ {x} \in Good
        PROVE  T \in Good
    <2>1. IsFiniteSet(T) /\ \A c \in T : f[c] \in Nat
      BY <1>1, FS_Subset, OptionCountIs
    <2>2. /\ Paired!SumOver(f, T) = Paired!SumOver(f, T \ {x}) + f[x]
          /\ f[x] = Cardinality(HeldBy(s, {x}))
      BY <2>1, SumStep, OptionCountIs
    <2> DEFINE P == HeldBy(s, T \ {x})
               Q == HeldBy(s, {x})
    <2>3. HeldBy(s, T) = P \cup Q /\ P \cap Q = {}
      BY DEF HeldBy, Paired!Unambiguous
    <2>4. IsFiniteSet(P) /\ IsFiniteSet(Q)
      BY HeldFinite
    <2>5. Paired!SumOver(f, T \ {x}) = Cardinality(P)
      BY <1>3
    <2> HIDE DEF P, Q, f
    <2>6. Cardinality(HeldBy(s, T)) = Cardinality(P) + Cardinality(Q)
      BY <2>3, <2>4, DisjointAddUp
    <2> QED BY <2>2, <2>5, <2>6 DEF Q
  <1>4. K \in Good
    <2> HIDE DEF Good
    <2> QED BY <1>1, <1>2, <1>3, InductionOnSets
  <1> QED BY <1>4

\* The distribution at an option counts what is valued up to it.
LEMMA CdfIs ==
  ASSUME Entered, Paired!Unambiguous,
         NEW s \in Seq(Codes), \A i \in DOMAIN s : Paired!OnScale(s[i]),
         NEW k \in DOMAIN scale
  PROVE  Paired!Cdf(s, scale[k].label) = Cardinality(ValuedUpTo(s, scale[k].value))
  <1>1. {j \in DOMAIN scale : scale[j].label = scale[k].label} = {k}
    BY DEF Paired!Unambiguous
  <1>2. Paired!LastOf({k}) = k
    BY LastIsThere
  <1>3. HeldBy(s, Paired!UpTo(k)) = ValuedUpTo(s, scale[k].value)
    <2>1. ASSUME NEW i \in DOMAIN s
          PROVE  (\E j \in Paired!UpTo(k) : Paired!ValueOf(s[i]) = scale[j].value)
                   <=> Paired!ValueOf(s[i]) <= scale[k].value
      <3>1. s[i] \in Codes
        BY LenProperties, ElementOfSeq
      <3>2. PICK j \in DOMAIN scale : scale[j].value = Paired!ValueOf(s[i])
        BY <3>1, OneOptionEach DEF Paired!OnScale
      <3>3. Paired!ValueOf(s[i]) <= scale[k].value => j \in Paired!UpTo(k)
        <4>1. scale[j].value = scale[k].value => j = k
          BY DEF Paired!Unambiguous
        <4>2. scale[j].value \in Int /\ scale[k].value \in Int
          BY ScaleIsASequence
        <4> QED BY <3>2, <4>1, <4>2, UpToIsALine DEF Paired!UpTo
      <3> QED BY <3>2, <3>3, UpToIsALine
    <2> QED BY <2>1 DEF HeldBy, ValuedUpTo
  <1>4. Paired!UpTo(k) \subseteq DOMAIN scale
    BY UpToIsALine
  <1>5. Paired!Cumulative(s, k) = Cardinality(HeldBy(s, Paired!UpTo(k)))
    BY <1>4, SumOfOptions DEF Paired!Cumulative
  <1> QED BY <1>1, <1>2, <1>3, <1>5 DEF Paired!Cdf

\* At least half of the values are up to the median, and as many from it on.
LEMMA MedianIsInTheMiddle ==
  ASSUME Entered, Paired!Unambiguous,
         NEW s \in Seq(Codes), \A i \in DOMAIN s : Paired!OnScale(s[i])
  PROVE  LET median == scale[Paired!PercentileOption(s, 50)].value IN
         /\ 2 * Cardinality({i \in DOMAIN s : Paired!ValueOf(s[i]) <= median}) >= Len(s)
         /\ 2 * Cardinality({i \in DOMAIN s : Paired!ValueOf(s[i]) >= median}) >= Len(s)
  <1> DEFINE reach == {k \in DOMAIN scale : 100 * Paired!Cdf(s, scale[k].label) >= 50 * Len(s)}
             m == Paired!PercentileOption(s, 50)
             v == scale[m].value
             low == {i \in DOMAIN s : Paired!ValueOf(s[i]) < v}
             high == {i \in DOMAIN s : Paired!ValueOf(s[i]) >= v}
             n(k) == Cardinality(ValuedUpTo(s, scale[k].value))
  <1>1. DOMAIN s = 1 .. Len(s) /\ Len(s) \in Nat /\ \A i \in DOMAIN s : s[i] \in Codes
    BY LenProperties, ElementOfSeq
  <1>2. /\ \A i \in DOMAIN s : /\ Paired!ValueOf(s[i]) \in Int
                              /\ \E k \in DOMAIN scale : Paired!ValueOf(s[i]) = scale[k].value
        /\ \A k \in DOMAIN scale : scale[k].value \in Int
    BY <1>1, ValuesOfCodes, ScaleIsASequence, OneOptionEach DEF Paired!OnScale
  <1>3. \A k \in DOMAIN scale : n(k) \in Nat /\ (k \in reach <=> 2 * n(k) >= Len(s))
    <2>1. ASSUME NEW k \in DOMAIN scale
          PROVE  n(k) \in Nat /\ (k \in reach <=> 2 * n(k) >= Len(s))
      <3>1. n(k) \in Nat
        <4>1. ValuedUpTo(s, scale[k].value) \subseteq DOMAIN s
          BY DEF ValuedUpTo
        <4> QED BY <4>1, PlacesFinite
      <3>2. Paired!Cdf(s, scale[k].label) = n(k)
        BY CdfIs
      <3>3. k \in reach <=> 100 * n(k) >= 50 * Len(s)
        BY <3>2
      <3> HIDE DEF n, reach
      <3> QED BY <3>1, <3>3, <1>1
    <2> QED BY <2>1
  <1>4. Paired!LastOf(DOMAIN scale) \in reach
    <2> DEFINE z == Paired!LastOf(DOMAIN scale)
    <2>1. z \in DOMAIN scale /\ \A j \in DOMAIN scale : j \in Paired!UpTo(z)
      BY LastIsThere, ScaleIsASequence
    <2>2. ValuedUpTo(s, scale[z].value) = 1 .. Len(s)
      BY <1>1, <1>2, <2>1, UpToIsALine DEF ValuedUpTo
    <2>3. n(z) = Len(s)
      BY <2>2, <1>1, IntervalFrom1
    <2> HIDE DEF n, reach, z
    <2>4. 2 * n(z) >= Len(s)
      BY <2>3, <1>1
    <2>5. z \in reach
      BY <2>1, <2>4, <1>3
    <2> QED BY <2>5 DEF z
  <1>5. m \in reach /\ \A j \in reach : m \in Paired!UpTo(j)
    <2>1. m = Paired!FirstOf(reach)
      BY <1>4 DEF Paired!PercentileOption
    <2>2. reach \subseteq DOMAIN scale /\ reach # {}
      BY <1>4
    <2> HIDE DEF reach
    <2> QED BY <2>1, <2>2, FirstIsThere
  <1>6. m \in DOMAIN scale /\ v \in Int
    BY <1>2, <1>5
  <1>7. 2 * n(m) >= Len(s)
    <2> HIDE DEF n, reach, m
    <2> QED BY <1>3, <1>5, <1>6
  <1>8. 2 * Cardinality(low) <= Len(s) /\ Cardinality(low) \in Nat
    <2> DEFINE K == {k \in DOMAIN scale : scale[k].value < v}
    <2>1. CASE K = {}
      <3>1. low = {}
        BY <1>2, <2>1
      <3>2. Cardinality(low) = 0 /\ Len(s) \in Nat
        BY <1>1, <3>1, FS_EmptySet
      <3> HIDE DEF low
      <3> QED BY <3>2
    <2>2. CASE K # {}
      <3> DEFINE z == Paired!LastOf(K)
      <3>1. z \in K /\ \A j \in K : j \in Paired!UpTo(z)
        BY <2>2, LastIsThere
      <3>2. low = ValuedUpTo(s, scale[z].value)
        <4>1. ASSUME NEW i \in DOMAIN s
              PROVE  Paired!ValueOf(s[i]) < v <=> Paired!ValueOf(s[i]) <= scale[z].value
          <5>1. PICK k \in DOMAIN scale : Paired!ValueOf(s[i]) = scale[k].value
            BY <1>2
          <5>2. scale[z].value < v /\ scale[z].value \in Int /\ scale[k].value \in Int
            BY <1>2, <3>1
          <5>3. k \in K => scale[k].value <= scale[z].value
            BY <3>1, UpToIsALine
          <5> HIDE DEF v, z
          <5> QED BY <1>6, <5>1, <5>2, <5>3
        <4> QED BY <4>1 DEF ValuedUpTo
      <3>3. z \notin reach
        BY <1>2, <1>5, <1>6, <3>1, UpToIsALine
      <3>4. Cardinality(low) = n(z) /\ z \in DOMAIN scale
        BY <3>1, <3>2
      <3> HIDE DEF z, n, low, reach
      <3> QED BY <1>1, <1>3, <3>3, <3>4
    <2> QED BY <2>1, <2>2
  <1>9. Cardinality(low) + Cardinality(high) = Len(s) /\ Cardinality(high) \in Nat
    <2>1. low \cup high = 1 .. Len(s) /\ low \cap high = {}
      BY <1>1, <1>2, <1>6
    <2>2. IsFiniteSet(low) /\ IsFiniteSet(high)
      BY PlacesFinite
    <2>3. Cardinality(1 .. Len(s)) = Len(s)
      BY <1>1, IntervalFrom1
    <2> HIDE DEF low, high
    <2> QED BY <2>1, <2>2, <2>3, DisjointAddUp
  <1>10. 2 * Cardinality(high) >= Len(s)
    <2> HIDE DEF low, high
    <2> QED BY <1>1, <1>8, <1>9
  <1> QED BY <1>7, <1>10 DEF ValuedUpTo

-----------------------------------------------------------------------------
\* What holds of the scale and of the pairs whatever was scored.
ComparisonInv == scale \in Scales \cup {<<>>} /\ pairs \in Tables

LEMMA ComparisonInitInv ==
  ASSUME Paired!Init
  PROVE  ComparisonInv
  BY EmptySeq DEF Paired!Init, ComparisonInv, Tables

LEMMA ComparisonStep ==
  ASSUME ComparisonInv, [Paired!Next]_(Paired!comparisonVars)
  PROVE  ComparisonInv'
  <1>1. ASSUME NEW t \in Scales, Paired!CreateScore(t)
        PROVE  ComparisonInv'
    BY <1>1 DEF Paired!CreateScore, ComparisonInv
  <1>2. ASSUME NEW a \in Codes, NEW b \in Codes, Paired!Score(a, b)
        PROVE  ComparisonInv'
    <2>1. pairs' \in Tables
      BY <1>2, AppendProperties DEF Paired!Score, ComparisonInv, Tables
    <2> QED BY <1>2, <2>1 DEF Paired!Score, ComparisonInv
  <1>3. CASE UNCHANGED Paired!comparisonVars
    BY <1>3 DEF Paired!comparisonVars, ComparisonInv
  <1> QED BY <1>1, <1>2, <1>3 DEF Paired!Next

LEMMA ComparisonHolds ==
  ASSUME ComparisonInv
  PROVE  Paired!ComparisonSafety
  <1>1. Paired!MeasuresAreDefined
    <2>1. \A cat \in Codes :
            LET x == Paired!ContingencyCells(pairs, cat) IN
            /\ Paired!IntervalCentre(x) = Paired!Count(pairs, 2, cat) - Paired!Count(pairs, 1, cat)
            /\ Paired!IntervalRadicand(x) >= 0
      BY IntervalsAreDefined DEF ComparisonInv
    <2>2. Paired!Bowker(pairs) <= Denominator * Len(pairs)
      BY BowkerBound DEF ComparisonInv
    <2>3. Paired!Bowker(pairs) > 0 => Paired!DegreesOfFreedom(pairs) > 0
      BY BowkerNeedsCategories DEF ComparisonInv
    <2> QED BY <2>1, <2>2, <2>3 DEF Paired!MeasuresAreDefined
  <1>2. Paired!SwapTurnsItAround
    BY SwappedBowker, SwappedCells, SwappedDominance DEF Paired!SwapTurnsItAround, ComparisonInv
  <1>3. Paired!RanksFollowThePairs
    <2>1. SUFFICES
            ASSUME scale # <<>>, Paired!Unambiguous, Paired!AllOnScale
            PROVE  /\ Paired!Dominance(pairs) =
                        Cardinality({i \in DOMAIN pairs :
                                       Paired!ValueOf(pairs[i][2]) > Paired!ValueOf(pairs[i][1])})
                          - Cardinality({i \in DOMAIN pairs :
                              Paired!ValueOf(pairs[i][2]) < Paired!ValueOf(pairs[i][1])})
                   /\ \A k \in {1, 2} :
                        LET s == Paired!Side(pairs, k)
                            median == scale[Paired!PercentileOption(s, 50)].value
                            upTo == {i \in DOMAIN s : Paired!ValueOf(s[i]) <= median}
                            from == {i \in DOMAIN s : Paired!ValueOf(s[i]) >= median}
                        IN 2 * Cardinality(upTo) >= Len(s) /\ 2 * Cardinality(from) >= Len(s)
      BY ComparisonCount DEF Paired!RanksFollowThePairs
    <2>2. Entered /\ pairs \in Tables
      BY <2>1 DEF ComparisonInv, Entered
    <2>3. ASSUME NEW k \in {1, 2}
          PROVE  /\ Paired!Side(pairs, k) \in Seq(Codes)
                 /\ \A i \in DOMAIN Paired!Side(pairs, k) :
                      Paired!OnScale(Paired!Side(pairs, k)[i])
      <3>1. \A i \in DOMAIN pairs : Paired!OnScale(pairs[i][k])
        BY <2>1, <2>2, CategoriesFinite DEF Paired!AllOnScale
      <3> QED BY <2>2, <3>1, SidesOfTables
    <2> QED BY <2>1, <2>2, <2>3, DominanceOfPairs, MedianIsInTheMiddle
  <1> QED BY <1>1, <1>2, <1>3 DEF Paired!ComparisonSafety

(***************************************************************************)
(* Whatever the scale and however many pairs: each difference of           *)
(* proportions is the middle of its interval and the root there exists,    *)
(* Cramer's V is at most one, comparing B with A says the opposite of      *)
(* comparing A with B, and on a clear scale the paired differences are     *)
(* those of the pairs and a median has at least half of them on each side  *)
(* (calculateNominalComparisonStatistics and                               *)
(* calculateOrdinalComparisonStatistics).                                  *)
(***************************************************************************)
THEOREM ComparisonsAreSafe == Paired!Spec => []ComparisonSafety
  <1>1. Paired!Init => ComparisonInv
    BY ComparisonInitInv
  <1>2. ComparisonInv /\ [Paired!Next]_(Paired!comparisonVars) => ComparisonInv'
    BY ComparisonStep
  <1>3. ComparisonInv => ComparisonSafety
    BY ComparisonHolds DEF ComparisonSafety
  <1> QED BY <1>1, <1>2, <1>3, PTL DEF Paired!Spec
==============================================================================
