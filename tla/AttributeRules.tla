----------------------------- MODULE AttributeRules -----------------------------
(***************************************************************************)
(* The visibility rule of an attribute of traces: administrators create    *)
(* it, add and remove the roles it is hidden from, and delete it; the      *)
(* obfuscation of an answer reads the rules first and the reader's roles   *)
(* after them: once for a search or a trace, and for every trace of a      *)
(* conversation anew.  One such reading is followed at a time.             *)
(***************************************************************************)
EXTENDS Naturals, FiniteSets

CONSTANTS
  MaxRules,      \* bound: rules ever made, for the one attribute considered
  Editors,       \* requests of administrators at a time
  OrgRole,       \* the role a reader holds in the organisation
  ProjectRole,   \* the role a reader may hold in the project
  MaxEdits       \* bound: requests of administrators

Roles == {OrgRole, ProjectRole}

VARIABLES
  rules,       \* rows of attribute_visibility_rules
  rulesMade,   \* rules made so far: the identifiers are 1, 2, ...
  editor,      \* of each editor, the request between its read and its write
  edits,       \* requests made
  inProject,   \* does the reader hold the role of the project?
  rolesCache,  \* user:roles:<reader>:<organisation>:<project>: {} or {the roles}
  projectCache, \* user:role:project:<project>:<reader>: {} or {the roles}
  context,     \* of the answer being obfuscated, what was read for it
  meant,       \* history: what the acknowledged edits amount to: {} or {roles}
  overlapped   \* history: were two edits under way at once?

ruleVars == <<rules, rulesMade, editor, edits, meant, overlapped>>
readerVars == <<inProject, rolesCache, projectCache>>
viewVars == <<inProject, rolesCache, projectCache, context>>

Rule == [id : 1..MaxRules, hidden : SUBSET Roles]
NoRequest == [op |-> "none", copy |-> {}, roles |-> {}]
Unasked ==
  [at |-> "idle", rules |-> {}, roles |-> {}, redacted |-> FALSE,
   hidden |-> TRUE, visible |-> TRUE, moved |-> {}, stale |-> FALSE]

\* The reader's roles; that of the organisation does not change.
InProject == IF inProject THEN {ProjectRole} ELSE {}
Held      == {OrgRole} \cup InProject

\* Mutant: an attribute is hidden only from somebody all of whose roles are.
HidesAll(rows, roles) == \E r \in rows : roles # {} /\ roles \subseteq r.hidden

\* obfuscateAttributes: one hidden role is enough.
Hides(rows, roles) == \E r \in rows : roles \cap r.hidden # {}

Init ==
  /\ rules \in {{}} \cup {{[id |-> 1, hidden |-> {role}]} : role \in Roles}
  /\ rulesMade = Cardinality(rules)
  /\ editor = [e \in Editors |-> NoRequest] /\ edits = 0
  /\ inProject \in BOOLEAN /\ rolesCache = {} /\ projectCache = {}
  /\ context = Unasked
  /\ meant = {r.hidden : r \in rules} /\ overlapped = FALSE

-----------------------------------------------------------------------------
(***************************************************************************)
(* What a reader in the middle of an answer lives through.                 *)
(***************************************************************************)
Asked == context.at \notin {"idle", "done"}

\* Ghosts of an answer asked for, when rules and roles become these.
Witnessed(what, newRules, newHeld) ==
  IF ~Asked THEN context
  ELSE [context EXCEPT
          !.moved = @ \cup {what},
          !.hidden = @ /\ \E r \in newRules : newHeld \cap r.hidden # {},
          !.visible = @ /\ \A r \in newRules : newHeld \cap r.hidden = {}]

RulesBecome(new) ==
  /\ rules' = new
  /\ context' = Witnessed("rules", new, Held)

-----------------------------------------------------------------------------
(***************************************************************************)
(* The rules.  Every edit reads a row, or that there is none, and writes   *)
(* what it makes of it.                                                    *)
(***************************************************************************)
Ask(e, request) ==
  /\ editor[e] = NoRequest /\ edits < MaxEdits
  /\ editor' = [editor EXCEPT ![e] = request]
  /\ edits' = edits + 1
  /\ overlapped' = (overlapped \/ \E f \in Editors \ {e} : editor[f] # NoRequest)
  /\ UNCHANGED <<rules, rulesMade, meant, readerVars, context>>

BeginCreate(e, hidden) ==
  /\ rules = {}
  /\ Ask(e, [op |-> "create", copy |-> {}, roles |-> hidden])

Load(e, op, roles) ==
  /\ rules # {}
  /\ \/ op # "add"
     \/ \E r \in rules : ~(roles \subseteq r.hidden)  \* else it returns at once
  /\ Ask(e, [op |-> op, copy |-> rules, roles |-> roles])

Finish(e) == editor' = [editor EXCEPT ![e] = NoRequest] /\ UNCHANGED <<edits, overlapped>>

\* The unique index refuses a second rule of the attribute.
SaveCreate(e) ==
  /\ editor[e].op = "create" /\ rulesMade < MaxRules
  /\ IF rules = {}
     THEN /\ RulesBecome({[id |-> rulesMade + 1, hidden |-> editor[e].roles]})
          /\ rulesMade' = rulesMade + 1
          /\ meant' = {editor[e].roles}
     ELSE UNCHANGED <<rules, rulesMade, meant, context>>
  /\ Finish(e) /\ UNCHANGED readerVars

\* Mutant: the roles asked for take the place of those that were hidden.
EditedReplaces(op, hidden, roles) ==
  IF op = "add" THEN roles ELSE hidden \ roles

Edited(op, hidden, roles) ==
  IF op = "add" THEN hidden \cup roles ELSE hidden \ roles

\* The whole list of the copy is written; a rule deleted meanwhile is inserted
\* again, unless another one of the attribute was created.
SaveRoles(e) ==
  /\ editor[e].op \in {"add", "remove"}
  /\ \E copy \in editor[e].copy :
       LET op  == editor[e].op
           row == [copy EXCEPT !.hidden = Edited(op, @, editor[e].roles)]
       IN IF \A r \in rules : r.id = copy.id
          THEN /\ RulesBecome({row})
               /\ meant' = {IF op = "add" THEN m \cup editor[e].roles
                            ELSE m \ editor[e].roles : m \in meant}
          ELSE UNCHANGED <<rules, meant, context>>
  /\ Finish(e) /\ UNCHANGED <<rulesMade, readerVars>>

DeleteRule(e) ==
  /\ editor[e].op = "delete"
  /\ RulesBecome(rules \ {r \in rules : \E copy \in editor[e].copy : r.id = copy.id})
  /\ meant' = {}
  /\ Finish(e) /\ UNCHANGED <<rulesMade, readerVars>>

-----------------------------------------------------------------------------
(***************************************************************************)
(* An answer is obfuscated.  The remote answer is there; what is redacted  *)
(* is the attribute wherever it stands: in resources, spans, events and    *)
(* links of a trace, in the spans of a search's summaries.                 *)
(***************************************************************************)
AskAnswer ==
  /\ context.at = "idle"
  /\ context' = [Unasked EXCEPT !.at = "rules",
                                !.hidden = \E r \in rules : Held \cap r.hidden # {},
                                !.visible = \A r \in rules : Held \cap r.hidden = {}]
  /\ UNCHANGED <<ruleVars, readerVars>>

\* Without a rule the roles are not read, and nothing is redacted.
ReadRules ==
  /\ context.at = "rules"
  /\ context' = [context EXCEPT !.at = IF rules = {} THEN "done" ELSE "roles", !.rules = rules]
  /\ UNCHANGED <<ruleVars, readerVars>>

\* getUserRoles: from its own entry, or role by role through the entry of
\* each, which no change of a role deletes; every read fills the entry it missed.
ReadCachedRoles ==
  /\ context.at = "roles"
  /\ IF rolesCache = {} THEN context' = [context EXCEPT !.at = "project"]
     ELSE \E roles \in rolesCache :
            context' = [context EXCEPT !.at = "done", !.stale = roles # Held,
                                       !.redacted = Hides(context.rules, roles)]
  /\ UNCHANGED <<ruleVars, readerVars>>

ReadProjectRole ==
  /\ context.at = "project"
  /\ IF projectCache = {}
     THEN context' = [context EXCEPT !.at = "fillProject", !.roles = InProject]
     ELSE \E roles \in projectCache :
            context' = [context EXCEPT !.at = "fill", !.roles = roles, !.stale = roles # InProject]
  /\ UNCHANGED <<ruleVars, readerVars>>

FillProjectCache ==
  /\ context.at = "fillProject"
  /\ projectCache' = {context.roles}
  /\ context' = [context EXCEPT !.at = "fill"]
  /\ UNCHANGED <<ruleVars, inProject, rolesCache>>

FillCache ==
  /\ context.at = "fill"
  /\ LET roles == context.roles \cup {OrgRole} IN
     /\ rolesCache' = {roles}
     /\ context' = [context EXCEPT !.at = "done", !.redacted = Hides(context.rules, roles)]
  /\ UNCHANGED <<ruleVars, inProject, projectCache>>

Answer ==
  /\ context.at = "done"
  /\ context' = Unasked
  /\ UNCHANGED <<ruleVars, readerVars>>

\* Elsewhere: the reader gets or loses the role of the project, which deletes
\* neither entry; entries expire.
ChangeRole ==
  /\ inProject' = ~inProject
  /\ context' = Witnessed("roles", rules, {OrgRole} \cup (IF inProject THEN {} ELSE {ProjectRole}))
  /\ UNCHANGED <<ruleVars, rolesCache, projectCache>>

Expire ==
  /\ \/ rolesCache # {} /\ rolesCache' = {} /\ UNCHANGED projectCache
     \/ projectCache # {} /\ projectCache' = {} /\ UNCHANGED rolesCache
  /\ UNCHANGED <<ruleVars, inProject, context>>

Next ==
  \/ \E e \in Editors :
       \/ \E hidden \in SUBSET Roles : BeginCreate(e, hidden)
       \/ \E op \in {"add", "remove"}, r \in Roles : Load(e, op, {r})
       \/ Load(e, "delete", {})
       \/ SaveCreate(e) \/ SaveRoles(e) \/ DeleteRule(e)
  \/ AskAnswer \/ ReadRules \/ ReadCachedRoles \/ ReadProjectRole
  \/ FillProjectCache \/ FillCache \/ Answer
  \/ ChangeRole \/ Expire

Spec == Init /\ [][Next]_<<ruleVars, viewVars>>

-----------------------------------------------------------------------------
TypeOK ==
  /\ rules \subseteq Rule /\ Cardinality(rules) <= 1 /\ rulesMade \in 0..MaxRules
  /\ edits \in 0..MaxEdits /\ Cardinality(rolesCache) <= 1 /\ Cardinality(projectCache) <= 1
  /\ context.at \in {"idle", "rules", "roles", "project", "fillProject", "fill", "done"}

\* One after another, the edits of administrators add up: a role is hidden from
\* when the last word on it was to add it.  Only edits that overlap, each saving
\* the whole list it has read, undo one another or bring a deleted rule back.
RulesFollowEdits == ~overlapped => {r.hidden : r \in rules} = meant

(***************************************************************************)
(* An attribute that was hidden from the reader all the time an answer     *)
(* took is redacted in it, and one that never was is not: although rules   *)
(* and roles are read one after the other.  The exceptions are a cached    *)
(* role that is out of date, and a change of both between the two reads.   *)
(***************************************************************************)
Excused == context.stale \/ context.moved = {"rules", "roles"}

AnswersHeedRules ==
  context.at = "done" /\ ~Excused =>
    (context.hidden => context.redacted) /\ (context.visible => ~context.redacted)

RuleSafety == TypeOK /\ RulesFollowEdits /\ AnswersHeedRules
=============================================================================
