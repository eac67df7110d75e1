------------------------------- MODULE Safeguards -------------------------------
(***************************************************************************)
(* The services that guard an organisation's data: the API keys of         *)
(* projects, the secrets of providers, the audit log, what of a trace is   *)
(* found, opened and hidden, and who is served at which door.  They share  *)
(* no state.                                                               *)
(***************************************************************************)
EXTENDS Naturals, OnePart

CONSTANTS
  \* ProjectKeys
  Admins, Clients, MaxKeys,
  \* ProviderSecrets and AttributeRules
  Editors, Typed, MaxRequests, MaxRules, MaxEdits, OrgRole, ProjectRole,
  \* AuditLog
  MaxEvents, MaxTime, Tick, AuditLimit,
  \* TraceSearch
  Backends, Spans, MaxSpans,
  \* AccessRules
  Accounts, Bosses, OwnProjects, Licensed, MaxHeld

ASSUME KeysAssumption == MaxKeys \in Nat
ASSUME AuditAssumption ==
  MaxEvents \in Nat /\ MaxTime \in Nat /\ Tick \in Nat \ {0} /\ AuditLimit \in Nat \ {0}
ASSUME RulesAssumption == MaxRules \in Nat \ {0} /\ MaxEdits \in Nat

VARIABLES
  keyRow, lastUsed, project, made, admin, client, shown, undone, dead,
  model, datasource, secretRequest, requests, rowsMade, latest, secretOvertaken,
  log, createdAt, now, page, lastTimes, expired,
  source, stitching, trace, filter, traceRequest, answer, known,
  rules, rulesMade, editor, edits, inProject, rolesCache, projectCache, context, meant, ruleOverlap,
  seated, creator, joined, held, orphaned

Keys == INSTANCE ProjectKeys

Secrets == INSTANCE ProviderSecrets WITH
  request <- secretRequest, made <- rowsMade, overtaken <- secretOvertaken

\* Ordinary secrets: not empty, not of the form of a cipher text, and not the
\* marks by which the model tells a field that was left out.
ASSUME SecretsAssumption ==
  /\ MaxRequests \in Nat
  /\ Typed \cap {Secrets!Blank, Secrets!Mask, Secrets!Lookalike, Secrets!Keep, "no config"} = {}

Audit == INSTANCE AuditLog WITH Limit <- AuditLimit

Search == INSTANCE TraceSearch WITH
  Sources <- Backends, Rows <- Spans, MaxRows <- MaxSpans, request <- traceRequest

ASSUME SpansAssumption ==
  Backends \subseteq Search!Source /\ Spans \subseteq Search!Span /\ MaxSpans \in Nat

Access == INSTANCE AccessRules WITH People <- Accounts, Projects <- OwnProjects

\* "nobody" and "none" are the model's marks, of no user and of no project.
ASSUME AccessAssumption ==
  Bosses \subseteq Accounts /\ "nobody" \notin Accounts /\ "none" \notin OwnProjects

Rules == INSTANCE AttributeRules WITH overlapped <- ruleOverlap

keyVars    == <<keyRow, lastUsed, project, made, admin, client, shown, undone, dead>>
secretVars == <<model, datasource, secretRequest, requests, rowsMade, latest, secretOvertaken>>
auditVars  == <<log, createdAt, now, page, lastTimes, expired>>
traceVars  == <<source, stitching, trace, filter, traceRequest, answer, known>>
accessVars == <<seated, creator, joined, held, orphaned>>
ruleVars   ==
  <<rules, rulesMade, editor, edits, inProject, rolesCache, projectCache, context, meant, ruleOverlap>>

-----------------------------------------------------------------------------
\* A project that regenerated its key and did not revoke it has one that was
\* returned, and a revoked key opens nothing (ProjectApiKeyService).
KeySafety == part = "keys" => Keys!KeySafety

\* Secrets rest encrypted unless they look so already, and open as they were
\* entered; those of models are hidden from readers, and a data source that was
\* validated can be served (ModelConfigurationService, DatasourceService).
SecretSafety == part = "secrets" => Secrets!SecretSafety

\* The pages of the audit log show an event once, and miss one only for sharing
\* its millisecond with the end of a page (AuditService.findAll).
AuditSafety == part = "audit" => Audit!AuditSafety

\* What is found of a trace passes the project's filter, unless it escapes
\* Tempo's, and opens, conversations hold what their lists count, and an answer
\* hides the attributes its reader may not see (the repositories of traces,
\* AttributeVisibilityService).
TraceSafety == (part = "traces" => Search!TraceSafety) /\ (part = "rules" => Rules!RuleSafety)

\* Who is served at which door follows from memberships and roles
\* (the guards and RbacPermissionService).
AccessSafety == part = "access" => Access!AccessSafety
=============================================================================
