---------------------------- MODULE PromptVersions ----------------------------
(***************************************************************************)
(* The prompts of a project and their versions: requests that read a       *)
(* prompt, await other queries and save the copy they hold.  A save writes *)
(* the columns in which the copy differs from the row found at that moment *)
(* and inserts the row again when it is gone.  One action per await.       *)
(***************************************************************************)
EXTENDS Naturals, FiniteSets, Functions

CONSTANTS
  Requests,    \* requests under way at a time
  PromptIds,   \* identifiers, used once each
  PromptNames, \* names; one may have the form of an identifier
  MaxVersions, \* bound: the versions are 1 .. MaxVersions, in order of creation
  MaxCalls     \* bound: requests in all

VARIABLES
  prompts,     \* the table: identifier -> name and promoted version (0: none)
  versions,    \* the table: version -> its prompt and the number in its name
  used,        \* identifiers and versions that were given, and calls made
  request,     \* what each request holds
  promised,    \* history: the version that was promoted last, of each prompt
  stale,       \* history: prompts saved from a copy whose promotion was out of date
  overlapped   \* history: prompts two of whose versions were being created at once,
               \* or that came back after their removal while one was

promptVars == <<prompts, versions, used, request, promised, stale, overlapped>>

None == [id |-> "none", name |-> "none", promoted |-> 0]
Idle == [pc |-> "idle", copy |-> None, read |-> 0, want |-> "none", version |-> 0,
         new |-> FALSE, purpose |-> "none"]

Init ==
  /\ prompts = <<>>
  /\ versions = <<>>
  /\ used = [ids |-> {}, versions |-> 0, calls |-> 0]
  /\ request = [r \in Requests |-> Idle]
  /\ promised = [p \in PromptIds |-> 0]
  /\ stale = {}
  /\ overlapped = {}

histories == <<promised, stale, overlapped>>
tables == <<prompts, versions, used>>

VersionsOf(p) == {v \in DOMAIN versions : versions[v].prompt = p}
Named(name) == {p \in DOMAIN prompts : prompts[p].name = name}
Copy(p) == [id |-> p, name |-> prompts[p].name, promoted |-> prompts[p].promoted]

\* A call comes in.
Called == used.calls < MaxCalls /\ used' = [used EXCEPT !.calls = @ + 1]

At(r, pc) == request[r].pc = pc
Goto(r, to) == request' = [request EXCEPT ![r] = to]
Holding(p) == [Idle EXCEPT !.copy = Copy(p), !.read = prompts[p].promoted]

\* Another prompt has the name: the unique index refuses it.
Taken(copy) == \E p \in DOMAIN prompts \ {copy.id} : prompts[p].name = copy.name

\* The versions go with their prompt, and the foreign key refuses one that is gone.
Refused(copy) == Taken(copy) \/ (copy.promoted # 0 /\ copy.promoted \notin DOMAIN versions)

\* Requests that have counted the versions of a prompt and not saved theirs.
Creating(p) == {r \in Requests : At(r, "saveVersion") /\ request[r].copy.id = p}

\* save(prompt): the request goes on to next, or fails.
Save(r, copy, next) ==
  IF Refused(copy)
  THEN Goto(r, Idle) /\ UNCHANGED <<prompts, stale, overlapped>>
  ELSE /\ prompts' = [p \in DOMAIN prompts \union {copy.id} |->
                        IF p = copy.id THEN [name |-> copy.name, promoted |-> copy.promoted]
                        ELSE prompts[p]]
       /\ stale' = IF copy.id \notin DOMAIN prompts \/ prompts[copy.id].promoted # request[r].read
                   THEN stale \union {copy.id} ELSE stale
       /\ overlapped' = IF copy.id \notin DOMAIN prompts /\ Creating(copy.id) # {}
                        THEN overlapped \union {copy.id} ELSE overlapped
       /\ Goto(r, next)

-----------------------------------------------------------------------------
(***************************************************************************)
(* PromptsService.create: a prompt, or another version of it.              *)
(***************************************************************************)
\* The template is validated and the model configuration found.
Create(r, name) ==
  /\ At(r, "idle")
  /\ Called
  /\ Goto(r, [Idle EXCEPT !.pc = "findForCreate", !.want = name])
  /\ UNCHANGED <<prompts, versions, histories>>

\* The description is saved only if the request has one.
FindForCreate(r) ==
  /\ At(r, "findForCreate")
  /\ \/ /\ Named(request[r].want) = {}
        /\ Goto(r, [request[r] EXCEPT !.pc = "insertPrompt"])
     \/ \E p \in Named(request[r].want), next \in {"describe", "count"} :
          Goto(r, [Holding(p) EXCEPT !.pc = next])
  /\ UNCHANGED <<tables, histories>>

InsertPrompt(r, p) ==
  LET copy == [id |-> p, name |-> request[r].want, promoted |-> 0] IN
  /\ At(r, "insertPrompt")
  /\ p \notin used.ids
  /\ IF Taken(copy)
     THEN Goto(r, Idle) /\ UNCHANGED <<prompts, used>>
     ELSE /\ prompts' = [q \in DOMAIN prompts \union {p} |->
                           IF q = p THEN [name |-> copy.name, promoted |-> 0] ELSE prompts[q]]
          /\ used' = [used EXCEPT !.ids = @ \union {p}]
          /\ Goto(r, [Idle EXCEPT !.pc = "count", !.copy = copy, !.new = TRUE])
  /\ UNCHANGED <<versions, histories>>

Describe(r) ==
  /\ At(r, "describe")
  /\ Save(r, request[r].copy, [request[r] EXCEPT !.pc = "count"])
  /\ UNCHANGED <<versions, used, promised>>

\* Mutant: the versions of every prompt are counted.
CountVersionsOfAll(r) ==
  /\ At(r, "count")
  /\ Goto(r, [request[r] EXCEPT !.pc = "saveVersion", !.version = Cardinality(DOMAIN versions)])
  /\ UNCHANGED <<tables, promised, stale, overlapped>>

\* The name of the version is the count of those there are.
CountVersions(r) ==
  LET p == request[r].copy.id
  IN /\ At(r, "count")
     /\ Goto(r, [request[r] EXCEPT !.pc = "saveVersion", !.version = Cardinality(VersionsOf(p))])
     /\ overlapped' = IF Creating(p) = {} THEN overlapped ELSE overlapped \union {p}
     /\ UNCHANGED <<tables, promised, stale>>

\* Mutant: every version is promoted.
SaveVersionPromotes(r) ==
  LET v == used.versions + 1 IN
  /\ At(r, "saveVersion")
  /\ v <= MaxVersions
  /\ request[r].copy.id \in DOMAIN prompts
  /\ versions' = [w \in DOMAIN versions \union {v} |->
                    IF w = v THEN [prompt |-> request[r].copy.id, number |-> request[r].version]
                    ELSE versions[w]]
  /\ used' = [used EXCEPT !.versions = v]
  /\ Goto(r, [request[r] EXCEPT !.pc = "promoteFirst", !.version = v])
  /\ UNCHANGED <<prompts, histories>>

\* The prompt or the model configuration may be gone, and the request fails.
SaveVersion(r) ==
  LET v == used.versions + 1 IN
  /\ At(r, "saveVersion")
  /\ v <= MaxVersions
  /\ \/ /\ request[r].copy.id \in DOMAIN prompts
        /\ versions' = [w \in DOMAIN versions \union {v} |->
                          IF w = v THEN [prompt |-> request[r].copy.id, number |-> request[r].version]
                          ELSE versions[w]]
        /\ used' = [used EXCEPT !.versions = v]
        /\ Goto(r, IF request[r].new THEN [request[r] EXCEPT !.pc = "promoteFirst", !.version = v]
                   ELSE Idle)
     \/ Goto(r, Idle) /\ UNCHANGED <<versions, used>>
  /\ UNCHANGED <<prompts, histories>>

\* The prompt held since it was inserted is saved with its first version.
PromoteFirst(r) ==
  LET copy == [request[r].copy EXCEPT !.promoted = request[r].version] IN
  /\ At(r, "promoteFirst")
  /\ Save(r, copy, Idle)
  /\ promised' = [promised EXCEPT ![copy.id] = IF @ = 0 /\ ~Refused(copy) THEN copy.promoted ELSE @]
  /\ UNCHANGED <<versions, used>>

-----------------------------------------------------------------------------
(***************************************************************************)
(* Requests for a prompt given its identifier.                             *)
(***************************************************************************)
\* The column is a uuid: an identifier of another form is an error of the
\* database and never reaches the search by name.
Address(r, ident, purpose) ==
  /\ At(r, "idle")
  /\ Goto(r, [Idle EXCEPT !.pc = "findById", !.want = ident, !.purpose = purpose])
  /\ Called
  /\ UNCHANGED <<prompts, versions, histories>>

\* What a request does with the prompt it has found.
Found(r, p) ==
  CASE request[r].purpose = "update" ->
         \E name \in PromptNames : Goto(r, [Holding(p) EXCEPT !.pc = "checkName", !.want = name])
    [] request[r].purpose = "describe" -> Goto(r, [Holding(p) EXCEPT !.pc = "save"])
    [] request[r].purpose = "promote" ->
         \E v \in 1 .. used.versions : Goto(r, [Holding(p) EXCEPT !.pc = "checkVersion", !.version = v])
    [] request[r].purpose = "remove" -> Goto(r, [Holding(p) EXCEPT !.pc = "remove"])
    [] request[r].purpose = "latest" -> Goto(r, [Holding(p) EXCEPT !.pc = "findPromoted"])

FindById(r) ==
  /\ At(r, "findById")
  /\ IF request[r].want \in DOMAIN prompts THEN Found(r, request[r].want)
     ELSE Goto(r, [request[r] EXCEPT !.pc = "findByName"])
  /\ UNCHANGED <<tables, histories>>

FindByName(r) ==
  /\ At(r, "findByName")
  /\ IF Named(request[r].want) = {} THEN Goto(r, Idle)
     ELSE \E p \in Named(request[r].want) : Found(r, p)
  /\ UNCHANGED <<tables, histories>>

CheckName(r) ==
  LET copy == [request[r].copy EXCEPT !.name = request[r].want] IN
  /\ At(r, "checkName")
  /\ Goto(r, IF Taken(copy) THEN Idle ELSE [request[r] EXCEPT !.pc = "save", !.copy = copy, !.want = "none"])
  /\ UNCHANGED <<tables, histories>>

UpdateSave(r) ==
  /\ At(r, "save")
  /\ Save(r, request[r].copy, Idle)
  /\ UNCHANGED <<versions, used, promised>>

\* Mutant: a version of any prompt is accepted.
CheckAnyVersion(r) ==
  /\ At(r, "checkVersion")
  /\ Goto(r, IF request[r].version \notin DOMAIN versions THEN Idle
             ELSE [request[r] EXCEPT !.pc = "promote", !.copy.promoted = request[r].version, !.version = 0])
  /\ UNCHANGED <<tables, histories>>

CheckVersion(r) ==
  /\ At(r, "checkVersion")
  /\ Goto(r, IF request[r].version \notin VersionsOf(request[r].copy.id) THEN Idle
             ELSE [request[r] EXCEPT !.pc = "promote", !.copy.promoted = request[r].version, !.version = 0])
  /\ UNCHANGED <<tables, histories>>

\* The name goes back to what it was when the prompt was read; if the prompt
\* is gone, so is the version, and the save is refused.
PromoteVersion(r) ==
  /\ At(r, "promote")
  /\ Save(r, request[r].copy, Idle)
  /\ promised' = IF Refused(request[r].copy) THEN promised
                 ELSE [promised EXCEPT ![request[r].copy.id] = request[r].copy.promoted]
  /\ UNCHANGED <<versions, used>>

\* The versions go with their prompt.
Remove(r) ==
  LET p == request[r].copy.id IN
  /\ At(r, "remove")
  /\ prompts' = Restrict(prompts, DOMAIN prompts \ {p})
  /\ versions' = Restrict(versions, DOMAIN versions \ VersionsOf(p))
  /\ Goto(r, Idle)
  /\ UNCHANGED <<used, histories>>

\* getLatestVersionEntity: the promoted version, if it is one of the prompt's ...
FindPromoted(r) ==
  LET v == request[r].copy.promoted IN
  /\ At(r, "findPromoted")
  /\ Goto(r, IF v \in VersionsOf(request[r].copy.id)
             THEN [request[r] EXCEPT !.pc = "answered", !.version = v]
             ELSE [request[r] EXCEPT !.pc = "findNewest"])
  /\ UNCHANGED <<tables, histories>>

\* ... or the newest, or none.
FindNewest(r) ==
  LET mine == VersionsOf(request[r].copy.id) IN
  /\ At(r, "findNewest")
  /\ \/ mine = {} /\ Goto(r, Idle)
     \/ \E v \in mine : /\ \A w \in mine : w <= v
                        /\ Goto(r, [request[r] EXCEPT !.pc = "answered", !.version = v])
  /\ UNCHANGED <<tables, histories>>

Answer(r) ==
  /\ At(r, "answered")
  /\ Goto(r, Idle)
  /\ UNCHANGED <<tables, histories>>

Next ==
  \E r \in Requests :
    \/ \E name \in PromptNames : Create(r, name)
    \/ FindForCreate(r) \/ Describe(r) \/ CountVersions(r) \/ SaveVersion(r) \/ PromoteFirst(r)
    \/ \E p \in PromptIds : InsertPrompt(r, p)
    \/ \E p \in PromptIds, purpose \in {"update", "describe", "promote", "remove", "latest"} :
         Address(r, p, purpose)
    \/ FindById(r) \/ FindByName(r) \/ CheckName(r) \/ UpdateSave(r) \/ CheckVersion(r)
    \/ PromoteVersion(r) \/ Remove(r) \/ FindPromoted(r) \/ FindNewest(r) \/ Answer(r)

Spec == Init /\ [][Next]_promptVars

-----------------------------------------------------------------------------
(***************************************************************************)
(* Properties.                                                             *)
(***************************************************************************)
TypeOK ==
  /\ DOMAIN prompts \subseteq used.ids
  /\ \A p \in DOMAIN prompts : prompts[p].name \in PromptNames /\ prompts[p].promoted \in 0 .. MaxVersions
  /\ \A v \in DOMAIN versions : versions[v].prompt \in DOMAIN prompts
  /\ \A p, q \in DOMAIN prompts : prompts[p].name = prompts[q].name => p = q
  /\ used.ids \subseteq PromptIds /\ used.versions \in 0 .. MaxVersions
  /\ stale \union overlapped \subseteq PromptIds

\* The promoted version of a prompt, and the one that is answered while its
\* prompt is there, is one of the prompt's own, whatever is saved from
\* whatever copy.
PromotedBelongs ==
  /\ \A p \in DOMAIN prompts : prompts[p].promoted # 0 => prompts[p].promoted \in VersionsOf(p)
  /\ \A r \in Requests :
       At(r, "answered") /\ request[r].copy.id \in DOMAIN prompts /\ request[r].copy.id \notin stale
         => request[r].version \in VersionsOf(request[r].copy.id)

\* The version promoted last stays promoted; otherwise somebody saved a copy
\* of the prompt read before that promotion (a change of its description is
\* enough).
PromotionIsKept ==
  \A p \in DOMAIN prompts \ stale : prompts[p].promoted = promised[p]

\* The versions of a prompt are named v0, v1, v2 ... without gap or double,
\* unless two of them were being created at once, or the prompt was removed and
\* came back, saved from a copy, while one was.
VersionsAreNumbered ==
  \A p \in DOMAIN prompts \ overlapped :
    /\ {versions[v].number : v \in VersionsOf(p)} = 0 .. Cardinality(VersionsOf(p)) - 1

\* Promotions belong to their prompt and last, and versions are numbered.
PromptSafety == TypeOK /\ PromotedBelongs /\ PromotionIsKept /\ VersionsAreNumbered
=============================================================================
