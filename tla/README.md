# A TLA+ model of arcane-backend

arcane-backend is a NestJS server over PostgreSQL: an observability and evaluation backend for
LLM applications. Organisations contain projects; a project has prompts, datasets, experiments
(a prompt run over every row of a dataset), evaluations (scores over a dataset or over
experiments), annotation queues, and read access to trace stores. Experiments and evaluations
are run by external workers behind RabbitMQ or Kafka. Almost no operation uses a database
transaction, requests are served concurrently, and several caches stand before the tables, so
the correctness of the system is a matter of the order of its awaits. That is what these modules
model: **one action per `await`** that reads or writes shared state.

## 1. Inventory

| Component (under `src/src/`) | State | Operations | Talks to | What is hard |
|---|---|---|---|---|
| `experiments` | `experiments`, `experiment_results` (PENDING, DONE) | create, rerun, remove, createResult, paged dispatch, results processor | datasets, prompts, broker, worker | paging without an order, swallowed publication errors, find-then-save without a unique index, deletion under way |
| `common/message-broker` | exchanges, queues, consumers, a memoised producer | publish, subscribe, bootstrap, shutdown | RabbitMQ or Kafka | at-least-once delivery, requeue on every error, prefetch window of ten, a rejected connection that stays |
| `datasets` | `datasets`, `dataset_rows` | create, import and export CSV, upsertRow, remove | experiments and evaluations by cascade | rows added during a dispatch |
| `evaluations` (writer, orchestrator, results) | `evaluations`, `score_results` | create, rerun, remove, create and import results, results processor | experiments, scores, broker | as for experiments, with two scopes and score mappings |
| `evaluations/services/statistics`, `comparison`, `utils` | result caches | compute, cache, invalidate | database, cache | a fill that overtakes an invalidation; numeric edges |
| `rbac` | `roles`, `user_roles`; caches `user:roles:*`, `user:role:instance:*`, `user:role:org:*`, `user:role:project:*` | assign and remove roles, owners, permission checks, roles with reassignment | cache, all guards | check then act, caches that are not invalidated |
| `auth` (hooks) | the `user` table of the authentication library | sign-up and sign-on hooks, first user | rbac, organisations | counting to find the first user, three calls without a transaction |
| `organisations` | `organisations`, `organisation_users`, `organisation_invitations` | create, update, remove, add and remove users, invitations, purge of a user | rbac, auth, mail | stale copies saved, seats with pending invitations |
| `projects` | `projects`, `project_users`, `project_api_keys`, visibility rules; caches | create, members, roles, API keys | rbac, cache | role changes in two calls, regenerated keys |
| `prompts` | `prompts`, `prompt_versions` | create, versions, promote, run | model configurations | names from a count, stale saves |
| `annotation-queue` | queues, templates, queued traces and conversations, annotations, answers | queue, annotate, update, move | traces | answers deleted and saved again |
| `retention` | none of its own | scheduled deletion by policy | audit, evaluations, experiments, invitations | batches, partial failure |
| `model-configuration`, `datasources` | one table each, secrets encrypted | create, update, remove | encryption | stored and entered secrets merged, saves of stale copies |
| `scores`, `entities`, `conversation-configuration` | one table each | create, read, update, delete, YAML import | projects | little |
| `traces`, `conversations` | none of their own; visibility rules | search, one trace, lists of conversations, whole conversations; obfuscation | Tempo, Jaeger, ClickHouse, custom APIs; rbac caches | four ways to apply one filter; rules read before roles |
| controllers and `rbac/guards` | none | about 190 handlers behind five guards | rbac, licence | permissions, menu and guards must agree |
| `audit`, `license`, `health`, `common/cache`, `common/encryption`, `common/mailer` | audit rows, cache entries | append, page, expire | | a cursor cut to milliseconds |

What makes each of the modelled components correct:

- *Experiments*: a pair (experiment, row) has one result; nothing is in flight about a pair that
  has no row; a DONE result does not turn back; a deleted experiment shows nothing; a PENDING row
  is never forgotten, except by the losses the code accepts; every run comes to an end.
- *Evaluations*: what was there to be scored gets a row for every score, those nobody can judge
  automatically included; entering scores by hand, importing them and receiving them from the worker do not undo
  one another; nothing is in flight about a score without a row; what was scored can be deleted; every
  evaluation comes to an end.
- *Owners*: an instance keeps an owner; nobody becomes one except by an owner's request, or by a route that was
  asked for the role by its id; a revoked owner loses its rights; a purge spares owners.
- *Project roles*: a member has a role; assigning one in the project replaces the other; deleting one gives its
  holders the default; all of it although the role to replace is read through a cache that nobody invalidates, and
  although other routes give roles of the project without looking for the one held.
- *Onboarding*: the first user, and only the first, becomes Owner by signing up; a seat in an
  organisation was asked for, and has a role unless its request failed or died or its person was purged; an invitation
  is not used up by a death.
- *Evaluation statistics*: what is cached counts every scored row, and is out of date for known reasons only;
  a page read by offset skips nothing. *Comparisons*: the measures are defined, and turn round with their sides.
- *Retention*: each policy deletes only what its setting reaches; an evaluation that goes before its time goes with
  its experiment; what is deleted is recorded.
- *Prompts*: the promoted version is the prompt's own and stays promoted; versions are numbered without gaps.
- *Annotation queues*: an annotation has the answers accepted last; a trace is queued once.
- *API keys*: a project that regenerates has a key afterwards, and a key revoked before the call opens nothing.
- *Audit log*: turning its pages shows an event once and misses none, but for those of one millisecond.
- *Routes and roles*: the menu offers what the guards admit, creators can repair their project, the roles are
  ordered as their names say.
- *Secrets*: they rest encrypted, once, and open as they were entered, unless they look like a cipher text; lists of
  models show none.
- *Datasets*: rows fit the header, an import is whole or absent, pages show every row.
- *Traces*: what is shown under a filter passes it (a disjunction sent to Tempo apart), what is found opens, lists and
  conversations agree; what a rule hides from a reader is redacted.
- *Broker*: one producer, nothing left open by a start that failed or a shutdown, and answers that drain as long
  as the window has room.

## 2. Modules

| Module | Models |
|---|---|
| `ExperimentBoard` | the abstract specification: cells of an experiment go absent, pending, done, and a discarded experiment stays empty |
| `ExperimentRun` | the experiment services, the two queues, the worker and the results processor; `ImplementsBoard` maps it to `ExperimentBoard` |
| `ScoreBoard` | the abstract specification of an evaluation: scores go absent, pending, done; they vanish with their evaluation or their score, never with what they are about |
| `EvaluationRun` | the evaluation writer, orchestrator, mapping filler, results processor, imports and manual results, and the deletions that reach them; `ImplementsBoard` maps it to `ScoreBoard` |
| `InstanceOwners` | the Owner role, the routes that assign it by its id, the permission check with its two caches, and the purge of a user |
| `RoleAssignments` | the members and roles of a project: assignment, invitation, removal, deletion with reassignment, roles given from elsewhere, the purge of a user, the role cache |
| `Onboarding` | sign-up and sign-on hooks, the first user, invitations and seats, roles of the organisation, the purge of a user |
| `KafkaBroker` | the Kafka service: the memoised producer, the start of the consumers and its rollback, the shutdown |
| `AnswerQueue` | one queue of answers under the prefetch window, with messages that are given back for ever |
| `StatisticsCache` | a request for statistics query by query, the stream of pages, and the cache |
| `ScoreComparison` | the measures by which two experiments are compared |
| `Retention` | the retention job over evaluations and experiments |
| `PromptVersions` | prompts, their versions and promotions |
| `AnnotationQueue` | queues, queued traces, annotations and their answers |
| `ProjectKeys` | a project's API key and the clients that present one |
| `AuditLog` | the log, its pages and its retention |
| `Routes` | the table of all controllers: guards, resource and permission of every handler |
| `AccessRules` | the guards, the seeded roles, and the requests that change memberships and roles; EXTENDS `Routes` |
| `ProviderSecrets` | model configurations and data sources with their secrets |
| `Datasets` | datasets, CSV import and export, rows and their pages |
| `TraceSearch` | traces and conversations of the four backends under a project's filter |
| `AttributeRules` | visibility rules and the obfuscation of an answer |
| `OnePart` | the variable `part`, by which components that share nothing are composed |
| `Runtime` | EXTENDS `ExperimentRun`, with `KafkaBroker` and `AnswerQueue` beside it |
| `Workbench` | what people work with: `PromptVersions`, `AnnotationQueue`, `Datasets`, `StatisticsCache`, `ScoreComparison`, `Retention` |
| `Safeguards` | what is protected: `ProjectKeys`, `ProviderSecrets`, `AuditLog`, `TraceSearch`, `AttributeRules`, `AccessRules` |
| `Services` | EXTENDS `Onboarding`, `Workbench` and `Safeguards` |
| `*_proofs` | the theorems of `ExperimentRun`, `EvaluationRun`, `InstanceOwners`, `RoleAssignments`, `Onboarding`, `Runtime`, `Workbench` and `Safeguards` |
| `MC*` | instances of `ExperimentRun`, `EvaluationRun`, `InstanceOwners`, `RoleAssignments`, `Onboarding`, `Runtime` and `Services` for TLC |

`Runtime` and `Services` are hosts: `part`, chosen in the initial state, names the component that moves, and the others
stand still. An invariant of a component is asked where `part` is that component. Components that share
state are composed in one module instead (experiments with their queues, worker and datasets; evaluations with
experiments, datasets and scores; roles with members and caches; invitations with seats and roles).

A definition named `<Action><Something>` and commented *Mutant* is a plausible bug in the action it
precedes. No specification uses it; it documents what each property would catch, and `PROJECT.json`
names the property that catches it.

### ExperimentRun

`created` and `stored` are the experiments ever inserted and those in the table;
`results[<<e, r>>]` is the sequence of rows of `experiment_results` for experiment `e` and dataset row
`r`, a row being its status (its text is abstracted away). `dispatch`, `skip` and `todo` are the
program counter and the locals of `queueForExperiment`: `check` (the prompt version and the dataset are
looked up), `scan` (a page is read), `insert` (`createPendingResults`), `publish` (`addJobs`), and
`done` or `failed`. `jobs` and `answers` count messages: RabbitMQ keeps no order once messages are
requeued, so a bag is what a handler may rely on. Each handler is one delivery in
`processResult`: `Find` (findOne), then `SaveExisting` or `SaveNew`, then `Ack`; a save that throws
requeues. `lost` is a history variable: the jobs that publication errors or a death kept from the queue.

Choices that matter:

- A page is the rows of rank `skip .. skip + BatchSize - 1` in *some* order of `ScanOrders`, because the
  query has no ORDER BY. One order in `ScanOrders` is a database that scans stably, several are
  one that does not.
- A publication that throws may have reached the queue all the same (`PublishFails`).
- The foreign keys are modelled: a save for a deleted experiment throws.
- The worker is not in this repository. It answers a job and may answer again.
- Rows of a dataset are added (`UpsertRow` always inserts) and disappear only with the dataset, as in
  `DatasetsService`.
- Messages that cannot be parsed, and the fields of results, are left out.

### EvaluationRun

It follows `ExperimentRun`, with a cell `<<evaluation, score, target>>` in the place of a pair. A *target* is
what a score is about, a dataset row or an experiment result according to `scope`, and its *source* is the
dataset or the experiment it belongs to. `dispatch` is the program counter of `postEvaluationToQueue`:

| Label | Await | Code |
|---|---|---|
| `load` | the evaluation is read with its scores and experiments | `loadEvaluationOrFail` |
| `fill` | the rows of one source are read for the scores with a mapping | `fillScoreMappings` |
| `pair` | the rows of one source are read again for the other scores | `getRowResultPairsForScope` |
| `save` | the PENDING rows are saved, in one transaction | `createPendingScoreResults` |
| `resolve` | prompts and models are read; what has neither stays for a person | `resolvePromptVersionsAndConfigs` |
| `publish` | the messages are published together | `buildAndPostQueueMessages` |

`covers`, `uses` and `mapped` are the inputs of an evaluation, which `Rerun` copies. `left` is the set of
sources a loop has still to read; `filled` and `manual` are the two lists of specifications built so far. Choices:

- A row of `score_results` is its status and whether `dataset_row_id` is set. `processResult` looks a row up
  by its dataset row, so a row entered by hand for an experiment result, which has none, is invisible to it,
  and one entered for a dataset row is not: `findOne` may return either it or the PENDING row.
- `orphans` are the rows whose experiment result was deleted (`SET NULL`) and which a dataset row
  keeps in the table. Rows with neither reference are refused by the constraint `score_result_reference`:
  `RemoveExperiment` and `RemoveDataset` then change nothing and set `refused`.
- `ImportFind` and `ImportSave` are the two halves of `importScoreResults`; anything may come between.
- A mapping that cannot be filled from a row, and pagination inside a source, are abstracted: a source is read
  in one step. Values, reasons and score types are left out.
- The tables are those the migrations make (the constraint is not part of the entities).
- `lost` are cells whose job never reached the queue, `unqueued` those left to be entered by hand, `entered`
  those given a row by hand: history variables.

### InstanceOwners

A slot is a request under way; `check` says which of the permission checks it is in: the guard of the
controller, the check of the service on the requester, or, for a purge, the check on the target. Each check runs
`getUserRoles`: the composite cache (`roles`), the instance cache (`instance`), the table
(`read`), and the two fills (`setInstance`, `setRoles`). Then come `list`, `find`, `save` or `delete`,
`invalidate`, or `purge`. Owner is the only instance role that is seeded, so a cached value is `owner` or
`none` (the code caches null). One shared cache is assumed; per-replica memory caches would
be staler still. Entries expire at any time: the code passes a lifetime, and the memory store evicts when it
is full. `everOwner` is a history variable. The audit record at the end of each operation and the lookup of
the role Owner, which is never deleted, are left out.

Requests of kind `byId` are the other routes that reach `RbacAssignmentService.assignRole`: the assignment of a role in
an organisation (`organisations.controller.ts:143`, on which no guard reads the permission it names), the assignment
of a role in a project and the invitation to one. They take the id of a role, and `assignRole` looks it up by that id alone
(`rbac-assignment.service.ts:45-60`), so it may be Owner's. Their own guards ask for nothing that `InstanceOwners` keeps
and are not modelled here (`AccessRules` has them); the request starts at `find`. `OnlyOwnersChangeOwners` therefore says who changes
owners *apart from* such an assignment. The first owner, made by the hook of the first sign-up, is in `Onboarding`.

### RoleAssignments

A slot is a request under way about one user (`on`) and one role; a deletion is about a role and whoever holds
it, and its `on` is the one who asks. The labels follow the awaits: `get`, `read`, `set` (`getUserProjectRole`),
`findOld`, `remove` (`removeRole`), `findNew`, `findRole`, `save` (`assignRole`), `member`, `join`, `invited`,
`part` (`inviteUser`, `removeUser`), `load`, `list`, `reassign`, `deleteOnly` (`RolesService.delete`), `projects`,
`purge` (`removeUserFromSystem`) and `replace` (requests from elsewhere). Choices:

- No controller checks where a role belongs, so a request may name the organisation's role (`OrgMember`) for a
  project; a project's role may be deleted from the organisation's route, whose list shows it (TypeORM ignores
  `projectId: null`), and its holders then get `OrgMember`.
- A read returns any of the user's roles of the project: there is no ORDER BY.
- The transaction of a deletion is one step, at its commit. The list of holders is read before it. It aborts as a
  whole when the unique index on (user, role) is hit by somebody else (`ReassignAborts`).
- Permission checks are requests of kind `check`: they fill the cache.
- Requests of kind `elsewhere` are `OrganisationRbacService.assignRole`, and assignments and invitations of *other*
  projects, that name a role of this one: no scope is looked at. They replace the role the user has there
  (`ReplaceElsewhere`: of the roles modelled here, `OrgMember` at most), and then give the one named, whatever
  role of this project the user has.
- A purge lists the user's projects before the transaction that deletes memberships and roles; a user that becomes a
  member between the two stays one, without a role.
- Left out: creation and update of roles (one row that nothing here reads half-way), the guards' verdicts, the
  lookup of a user by address, deletion of the project.
- `dropped` and `misled` are history variables: who was left without a role, and about whom a request was wrong
  or from elsewhere gave one role more.

### Onboarding

A slot is a request under way: the hook of a sign-up or sign-on, `addUser`, or `checkInvite`. A person
is identified with a normalised e-mail address. `copy` is the invitation the request has read: TypeORM's `save` writes every
column in which that copy differs from the row, so a request writes back a state that may be
old. The partial unique index on pending invitations refuses the save of a second one. `asked` and
`everSeated` are history variables. `Sso` chooses between single sign-on, which runs the hook at
every sign-in and requires no invitation, and e-mail sign-up, which runs it once and does. The
authentication library inserts the account before the hook and is external. Tokens and mail are left out; retention
of invitations is not part of this module.

A seat has a role of its organisation or has none; which one is left out, and so is the deletion of roles.
`addExistingUserToOrganisation` saves the membership before it looks the role up (`organisations.service.ts:143-150`), so
that an id that is no role of the organisation leaves a member without a role, and its invitation pending
(`RefuseOrgRole`). `ChangeRole` is the assignment on its own route (label `newRole`): it removes the role of the
organisation that the person has (`TakeOrgRole`) and gives the one named (`AssignOrgRole`), which may fail after the removal or
be a role of elsewhere (`RefuseOrgRole`). `RemoveUserFromSystem` purges: the organisations are listed before the
transaction, so that a seat taken in between stays, without a role. `unroled` is a history variable, the members these
causes and deaths have left without a role; the next role that is given takes them out. `ownerRoles` are the people whom the *hook*
made Owner (others are made in `InstanceOwners`). With `Faults`, any request may die at any await, and the assignment of
the Owner role may fail.

### KafkaBroker and AnswerQueue

`memo` is the promise `getProducer` keeps: none, pending, resolved or rejected; who finds a pending one waits for
it, and a rejected one stays. `boot` runs through the subscriptions one consumer after another; a failure rolls
back those already open, each close of which may fail in turn (`stuck`). `shut` is `onApplicationShutdown`, the producer
first. A shutdown may come at any time after the start; in `src/main.ts` nothing enables shutdown hooks, so that it comes
only where an application is closed by its owner.
`AnswerQueue` is a queue from its consumer's side: `Deliver` fills the `Window` (`Prefetch` messages of a RabbitMQ
channel, one of a Kafka partition) with the oldest, `Handle` acknowledges or gives back to the old place,
`LoseConnection` gives all of them back; `Poison` are the messages whose handler throws whenever they come.
`MessageKinds` tells which they are: what cannot be parsed, has no fields or cannot be saved.

### StatisticsCache and ScoreComparison

A reader walks through the awaits of a request: the cache (`get`), the evaluation (`load`), the count query
(for a numeric score beside the stream), the other aggregates, the pages of the stream, and the fill of the cache.
A row becomes visible at any place of the order, since `created_at` is the start of its transaction.
`createResult` and `importScoreResults` save and then delete the entries; the worker's answers invalidate nothing
(`settled`), and neither does the deletion of an evaluation. Scores of the three types follow different paths;
the nominal and ordinal getters that no controller calls are left out.

`ScoreComparison` translates the pure functions over tables of pairs and keeps quotients as numerators over a common
`Denominator`. A score result is a number and is compared as its text (`TextOf`); an option is recognised by its label or
by the text of its value, which is what makes a scale ambiguous. Values off the scale are dropped from each side for
itself. A scale is kept as it was entered, since ranks look through it in that order; its stable sort by value, which the
distribution is accumulated along, is `UpTo` (the options up to one). A sum is the number of the units it counts
(`SumOver`), so that it needs no recursion; the table has rows for the pairs that occur only, as the code's has.

### Retention

`job[j]` is one run of the scheduled job, policy by policy, project by project, batch by batch: evaluations that
are old, then experiments that are old with the evaluations that refer to them, each find and delete an await of its own.
Two runs may overlap (two replicas). `collateral` records every row that went before its time, with the policy and
the run that deleted it: `YoungGoWithTheirExperiments` allows evaluations of experiments being deleted, and
nothing else. Two observations are in the transitions. The projects whose experiments are looked at are those with
`experimentRetentionDays: LessThan(999999)` (`retention.service.ts:205-207`), which is not true of NULL: a project that never set a
retention is not visited, although the line after (`?? DEFAULT_RETENTION.EXPERIMENTS`, 210-211),
`retention.controller.ts:182-183` and `test/retention/controllers/retention.controller.spec.ts:185-201` give it
the default of 90 days. The model has what the query does; no property claims it as intended or refutes it. And a deletion the
database refuses (a score entered by hand, see `evaluation_delete`) ends the policy for the projects
after it. `evaluationsDeleted` is not reset between projects, so a report may count too much.

### PromptVersions, AnnotationQueue, ProjectKeys, AuditLog

`PromptVersions` follows requests that hold a copy of a prompt: a save writes the columns in which the copy differs
from the row and inserts the row again when it is gone. A name may have the form of an identifier. A lookup by name
of something that is no identifier is a PostgreSQL error in the first query (the column is of type uuid), which
`prompt-versions.service.spec.ts` does not see because it mocks the repository.

In `AnnotationQueue` the answers of an annotation are deleted in one call; the save after it loads the answers that are
there and inserts its own. `disturbed` are annotations whose update failed half-way or met another. A
queue of conversations has the same operations. A deleted data source leaves NULL in the unique key.

`ProjectKeys` is the revoke and insert of a regeneration under the unique project, and a client's call, whose key is
looked up once. `AuditLog` has times finer than milliseconds (`Tick`), as PostgreSQL has; the cursor is cut to
milliseconds.

### Routes and AccessRules

`Routes` has one definition per controller (two where guards or base paths differ) with the guards, the
resource and the permission of every handler. `AccessRules` translates the three guards, the aggregation of
permissions with its wildcard, the context in which permissions are listed, and the seeded roles, and lets requests
change memberships and roles one at a time: races and caches of roles are those of `RoleAssignments` and
`InstanceOwners`. A request may name any role that exists, of whatever scope (`Named`, which has the request that names none as well:
the role held is removed by then). `RemoveUserFromSystem` takes somebody from all projects and
organisations and leaves `created_by_id`: if the person is seated again, the list of projects names one whose guard refuses its
creator, until an invitation to it. `orphaned` is a history variable that records these projects. What the tables show beyond the properties: a Project Admin is seeded with permissions on the
roles of the *organisation* and with none on those of its project, though the seed calls it "role management"; the
fallback for the creator on `assignProjectRole` and `removeProjectRole` has no effect, since the guard of the
organisation refuses first; `assignRole` and `getUserRole` of the organisations' controller name a permission no
guard reads; memberships and roles of projects stay behind when somebody leaves the organisation.

### ProviderSecrets

A secret is a text and how often it was encrypted; `Lookalike` is a text of the form hex:hex:hex, which `isEncrypted`
takes for encrypted. The two services load, merge, validate, encrypt and save; a save writes a stale copy. A
model's nested credentials keep the stored value where the request has none; for `apiKey` itself that
branch cannot be reached through HTTP, since the request is refused without one. A client that sends the stars of the mask back
stores the stars. The body of a data source has in each section an ordinary secret, none, or a `Lookalike`; the
latter stays in plain and decryption then throws (`datasource-config-encryption.service.ts:120-133`), in the model
`Unreadable`. The pages of data sources show a configuration decrypted (`datasource.mapper.ts:16-35`; its spec says
"should decrypt config instead of masking it"), the list of their names leaves it out; only lists of models are masked, so
`ListsHideSecrets` is about those.

### Datasets

`saving` is a request with a copy of a dataset; an import is one transaction whose rows nobody sees before
`Commit`, with an audit event outside it (`logged`), batch by batch while the file is read. `turner` (`reader` in
the module) turns pages: the count is read before the rows of a page. Identifiers are random, so a new row comes
anywhere in the order; a column has no tie-breaker. A dataset removed during a rename comes back without rows.

### TraceSearch and AttributeRules

Every operation treats each trace for itself, so `TraceSearch` follows one: its spans, with the attributes
of their resources, reduced to three marks (the one the project filters by and two that conversations are stitched
by). Each backend has its own operators for what a search finds, what opens and what a list shows, the
merging of the filter into the query, and what it refuses. `Sources` are kinds of backend with capabilities: a custom API may
be searched by query, by attributes, by the existence of attributes, or not. Conversations are stitched by one
attribute or by two, in any backend. What remote stores answer is external and stated with the
operator. What the translation showed: Tempo's filter is appended with `&&` to a query that may be a disjunction without
parentheses (`tempo.trace.repository.ts:69-72`), as the one for a list of conversations is
(`tempo.conversation.repository.ts:130-135`), and since `&&` binds tighter, it holds for the last alternative alone: a list
counts traces outside the filter that its conversation then does not hold; Jaeger's lists look for tags that its mapper never
sets, so they are empty; ClickHouse filters traces asked for by identifier by fields its answers do not have, so
none is left; it puts a trace together with the resource of its first row; conversations of Tempo and ClickHouse are cut
at the default limit of twenty where their lists take ten thousand; a custom API is asked for all stitching
attributes where its list takes any. `ShownTracesPass`, `FoundTracesOpen` and `ListsAgree` name exactly these exceptions
(`Escapes` is Tempo's).

`AttributeRules` follows one attribute and one reader. An edit reads a rule and saves its whole list. An answer is
obfuscated with rules read first and roles after them, through two cache entries that no change of a role
deletes. `meant` is what the acknowledged edits amount to, and `context` remembers what changed during the answer.

## 3. Runs

| Run | Instance | Properties |
|---|---|---|
| `experiment_stable` | 2 experiments, 2 rows, pages of 1, a stable scan, 2 handlers, deletions, 2 faults | `TypeOK`, `AtMostOneRow`, `PendingIsAccountedFor` |
| `experiment_open` | 1 experiment, 1 row and 1 added later, any scan, 2 API results, deletions, 2 faults | `AnswersFindTheirRow`, `DeletedAnswersNeverDrain`, `ImplementsBoard` |
| `evaluation_safe` | 1 evaluation of a dataset or of an experiment, 2 scores (one judged, one manual), 1 target and 1 added later, 2 handlers, 1 importer, 1 entry by hand, deletions, 1 fault | `TypeOK`, `AnswersFindTheirRow`, `OneRowUnlessEntered`, `PendingIsAccountedFor`, `SnapshotIsScored`, `ImplementsBoard` |
| `evaluation_live` | 2 evaluations of 2 experiments, 1 handler, no deletion, 1 fault, fairness | `EvaluationSettles` |
| `evaluation_delete` | 1 evaluation of an experiment, 1 score, entries by hand: **violated** | `DeletionsSucceed` |
| `owners_races` | 2 users, 2 requests at a time, every operation | `TypeOK`, `CachesNeverInvent`, `OnlyOwnersChangeOwners` |
| `owners_live` | 2 owners, 2 concurrent removals, 1 death, fairness | `RevocationTakesEffect` |
| `owners_last` | 2 owners, 2 concurrent removals: **violated** | `AnOwnerRemains` |
| `roles_races` | 1 user beside the creator, 3 roles of the project and 1 of the organisation, 2 requests at a time, every operation, 1 death | `TypeOK`, `MembersKeepARole`, `SecondRoleIsExplained` |
| `onboarding_first` | 2 first sign-ups at once: **violated** | `FirstUserOwns` |
| `runtime` | parts `experiments` (2 experiments, 2 rows, 1 fault), `kafka` (2 subscriptions, 2 publishers, 2 faults), `queue` (RabbitMQ, a window of 2, 3 messages, 1 lost connection), fairness | `RunSettles`, `BrokerSafety`, `BrokerProgress`, `WindowDecides` |
| `services` | part `members` (2 people, 1 organisation, 2 requests, 2 invitations, faults anywhere) and twelve parts with 2 requests each | `TypeOK`, `OneFirstOwner`, `SeatsWereAskedFor`, `AcceptedWereSeated`, `MembersHaveRoles` of the members, and of each other part one invariant that is the conjunction of its named properties |

The invariants of the parts of `services`, and the hazard each conjunct is aimed at:

| Invariant | Conjuncts |
|---|---|
| `RetentionSafety` | `YoungGoWithTheirExperiments`, `NothingUnrecorded`: a crash or refusal between two batches, settings changed under way, two replicas, a policy that overreaches |
| `KeySafety` | `RegenerationLeavesAKey`, `RevokedIsRefused`: regenerations that overlap, a call that overlaps a revocation |
| `AuditSafety` | `ShownOnce`, `MissedShareATime`: events recorded and deleted between two pages |
| `AccessSafety` | `CreatorCanRepair`, `ListedProjectsAreJoined`, `GuardsAgree`, `MenuMatchesDoors`, `RanksAreOrdered`, `ChangersCanLook`, `KeysOnlyReadSettings`: long sequences of legal changes, purges among them; the last three are about the tables alone |
| `SecretSafety` | `ModelsRestEncrypted`, `SectionsRestEncrypted`, `OpensAsEntered`, `ListsHideSecrets`, `SourcesAreServed`: merges of merges, stale copies, a change of source, texts that look encrypted |
| `PromptSafety` | `PromotedBelongs`, `PromotionIsKept`, `VersionsAreNumbered`: two requests on one prompt, one of them holding an old copy |
| `AnnotationSafety` | `AnswersAreKept`, `QueuedOnce`: an update between the two calls of another, two additions of one trace |
| `StatisticsSafety` | `CountsCoverScored`, `NothingSkipped`, `StaleIsExplained`: results that arrive while statistics are computed and cached |
| `ComparisonSafety` | `MeasuresAreDefined`, `SwapTurnsItAround`, `RanksFollowThePairs`: every table of up to three pairs over four scales (with a gap, out of order with a numeric label, of two options in falling order, with labels that are texts of other values) |
| `DatasetSafety` | `RowsFitTheHeader`, `ExportsFit`, `ImportIsWhole`, `ImportedNamesDiffer`, `LoggedImportsExist`, `PagesShowEveryRow`: removals, imports and pages under way at once |
| `TraceSafety` | `ShownTracesPass`, `FoundTracesOpen`, `ListsAgree` of `TraceSearch`; `RulesFollowEdits`, `AnswersHeedRules` of `AttributeRules`: spans that arrive, a filter, rules and roles that change between two calls |

**What they show.** With a stable scan and results from the queue alone, find-then-save never makes a second
row: `createPendingResults` comes before the jobs, so every answer finds a row, and the create branch
of `processResult` runs only for experiments that are gone, where the foreign key refuses it
(`AnswersFindTheirRow`). What the code does lose is exactly what `lost` records. An answer of a deleted experiment is requeued
for ever (`DeletedAnswersNeverDrain`). With any scan order or with results from the API a pair may have several
rows: `AtMostOneRow` is not claimed there, and neither is `PendingIsAccountedFor`, since an answer may then update the
other row of its pair. `WindowDecides` is what follows for the queue: as many such answers as the window holds (ten in the
code, two in the instance) stop every answer behind them for ever, one fewer does not.

For an evaluation the same holds with an exception: a cell gets a second row when a score is entered
by hand beside its PENDING row, and in the dataset scope the answer may then settle the entered row and leave the
PENDING one behind for ever. `OneRowUnlessEntered` and `PendingIsAccountedFor` say that nothing else does it. The
behaviours of e-mail sign-up are among those of single sign-on, so one instance stands for both.

For the roles of a project the surprise is what cannot go wrong: although an assignment removes a role it has
read from a stale cache, and in steps of its own, no interleaving of assignments and invitations leaves a member
without a role, because each ends by looking for the new role and saving it. What does leave a member without one
is on a list (`dropped`), and three entries of it deserve a look: a deletion loses whoever got the role after
the holders were read, a deletion from the organisation's route leaves no holder a role of the project, and an
invitation to a role that is gone makes a member whom a second invitation does not repair. A purge takes all roles, and with them that of a membership that came after
it had listed the projects. A second role, on the other hand, needs one stale entry, a removal and a return, or one
request to a route that is not the project's.

Of the owners, the run shows that no staleness of the caches and no race makes one; it does not say that only
owners do, since a role may be assigned by its id elsewhere (`kind = "byId"`). Of the
members of an organisation, it shows that the removal of a role and the gift of another, two steps each, never cancel
out, and that what leaves a member without one is a request that failed or died, or a purge that met a join.

The properties of the services are mostly of the form *this holds, except* followed by the behaviours of the code that break
it: a promotion is kept unless an older copy was saved, statistics are up to date unless the worker settled a row,
pages of the log miss events of one millisecond. Each exception is a behaviour TLC found when it was left
out, and each is traced to the code in the comment of its property.

**What is violated.** (1) Two owners removed at the same time leave an instance without an owner: the list
of owners is read before the role is deleted. (2) Two first sign-ups at once leave an instance that never
gets an owner. (3) A score entered by hand makes its experiment, and any score its dataset, impossible to
delete: the foreign key sets the reference to null and the check constraint refuses that. `PROJECT.json`,
under `findings`, quotes the line each of them contradicts. A fourth weakness has no run: a purge spares
owners by a cached role, so a user made owner while the stale entry lives is purged
(`invalidateUserRoleCaches` deletes the instance key only); in a model without time nothing bounds how long.

**Bounds.** Two experiments are needed for a rerun beside its source and two rows of one page each
for the offset to matter. Two handlers are all that find-then-save can tell apart: a third changes
no pair that the two do not. Two faults allow a loss and a repetition in one run. For owners and for
roles two requests are enough for a race, since every property relates one write to one check; the
roles of two users meet only in a deletion, which treats them alike, and the theorems of section 4 cover any
number of users, roles and requests. For evaluations, the manual score and the target that comes late are what the
two readings of the rows can tell apart; the one entry by hand may be a result or an import; a
second would repeat it on another row. Two sources are in the live run, where the loops over them
matter and nothing is deleted. Two invitations let one be replaced while the first is still in a
request's hands. The services have two requests at a time for the same reason, and three versions, keys or rows where
one has to come between two others; retention has two jobs, two projects and batches of one, so that a
batch, a project and a policy can each be overtaken; a page has one event, one row or one result. The trace has two
spans, so that one may carry what another lacks, from four that cover resource and span, with the filter's mark and without, and
Jaeger's own. Two attributes for stitching are what a disjunction needs, and seven sources cover the kinds and the
capabilities of a custom API. One reader of statistics meets every writer and every expiry; what two could tell apart is
the entry one of them fills, and the theorem covers any number. Retention sees one change of its settings, which a job may have read before or after; its theorem has no such bound. `Faults` of the onboarding switches faults on without a bound. `MaxFaults`, `MaxDeaths`, `MaxApiResults`, `MaxEntries`, `MaxInvites`, `MaxSettings`, `MaxKeys`,
`MaxEvents`, `MaxTime`, `MaxRequests`, `MaxVersions`, `MaxCalls`, `MaxQueueCalls`, `MaxHeld`, `MaxRows`, `MaxNotes`, `MaxPairs`, `MaxRecords`, `MaxRules`
and `MaxEdits` bound what would otherwise be unbounded. Handlers, slots and requests are symmetric, and
symmetry is used in safety runs only. `IdleView` leaves out of the fingerprint what an idle slot did last, which no action and no
property of `RoleAssignments` or `InstanceOwners` reads. `CHECK_DEADLOCK FALSE` stands where a system may have nothing left to do: every experiment
settled, every invitation sent.

**Fairness.** `ExperimentRun!Fairness` is weak fairness of each dispatch loop, of the worker for
each pair and of each handler: the event loop resumes an await, the worker consumes its queue, the
broker delivers to an idle consumer. Nothing is assumed of requests or failures. The live runs have no
deletions: with them, answers requeued for ever could occupy the handlers, which weak fairness of a
handler allows and the prefetch window makes real. `EvaluationRun!Fairness` is the same for its own
queues. `InstanceOwners!Fairness` is weak fairness of each request's awaits and of the expiry of
each entry, which the lifetime given to `set` justifies. In `runtime` the part of the experiments has its own fairness, the
producer's attempt to connect comes to an answer and a send ends (the client's timeouts), and the broker delivers and a
handler returns.

## 4. Proofs

`tlapm` checks these for every value of the constants, under the named assumptions of the modules
(`InitialRows` are rows, `BatchSize` is positive, there is an initial owner, and the like).

- `ExperimentRun_proofs!TypeCorrect`: `Spec => []TypeOK`. The type invariant says more than types: a
  handler that is not idle has a pair in hand, which the queue actions need.
- `AnswersFind`, `FlightHasRow` and `CreateBranch`: `AnswersFindTheirRow` is the conjunction of
  `NothingInFlightWithoutRow` and `CreateBranchOnlyWhenDeleted`; the first is not inductive. `IInv` adds
  `DispatchInv` (a page waiting to be published has its rows: it was inserted first) and `DeliveryInv`
  (what a handler holds was found, and the row it found is still at its place while the experiment exists).
  The proof goes by where things come from: `RowsKept` (rows of a stored experiment stay),
  `FlightSource`, `DispatchSource` and `DeliverySource` (what is in flight, published or in
  hand after a step was so before, or has just been made so by one action), then `InvNext`.
- `Refinement`: `Spec => ImplementsBoard`. `BoardInit` maps the initial state; `BoardNext` maps each action to
  `Open`, `Post`, `Settle`, `Discard` or a stutter under `IInv`; `CellSteps` says what each write does to a
  cell.
- `NeverDrain`: `[][Undrained \subseteq Undrained']_vars`. `OthersWait` is the heart of it: a delivery of an
  answer leaves the others where they are, and its own only back in the queue while the experiment is gone.
- `OneRowEach` and `PendingAccounted` are about runs as in `experiment_stable` and assume `ScanIsStable`: finitely many
  rows, all in the dataset from the start, one order in `ScanOrders`, no result from the API. Pages are then
  ranks in that order (`PageRanks`), and `PageInv` places every row that has results below the offset.
  `RowsSource` shows that only `CreatePendingResults` adds a row, `InsertedOnce` that it does so to a pair without
  one. For PENDING rows, `AckInv` says that a delivery to be acknowledged has left none; `AccountedStays` then
  goes through the actions.
- `InstanceOwners_proofs!NoInventedOwner` and `OwnersAnswerToOwners`: the inductive invariant `Honest` adds
  `FillsTrue` (a fill about to write `owner` read it of somebody who was one) and `PastGuard` (a
  request past its guard is a former owner's, unless it assigns by id). `HonestDecide` is the lemma about verdicts.
- `CacheCoherent`: if requests come one at a time, none dies and nobody is purged, an entry of the instance cache
  agrees with `user_roles` but between a write and its invalidation (`Coherent` adds the fill under way).
- `RoleAssignments_proofs`: `MembersKeep` is inductive once the kinds of request at each label are known
  (`KindAt`); `ExcusesKept` says that a step can take the excuse only of the user of its own request; `InTransit` is what a request is between the
  old role and the new.
  `SecondRole` rests on `Explained`: requests that could disturb one another have marked their user (`Alone`),
  and what a request knows of an unmarked user is true (`Fresh`, `Listing`), since by `NobodyElse` it is the
  only one that knows anything of it.
- `LastOwnerStays`: if requests come one at a time and none is a purge, an owner remains. The invariant
  `Spares` says that a removal past its list found somebody else. `owners_last` shows that the
  first hypothesis is needed; the stale check before a purge is why the second is made.
- `Onboarding_proofs`: `SeatsAsked` and `AcceptedSeated` come from one invariant, `Inv`: a request that holds
  the copy of an invitation holds the seat that invitation is about (`CopyInv`), that seat was asked for
  (`AskedInv`), and it is taken before a role is given or the invitation consumed (`SeatedInv`). What a
  step does to the locals is said once, in `EndKeeps` and `ContinueKeeps`. `OneFirst` needs `OwnerInv`:
  the owners and those about to be are one person at most, because who passes the second count has seen no
  account but its own. `MembersRoles` rests on where a request stands: one at `role` or `newRole` is about to give a role to
  its seat, and whichever step ends it otherwise puts the seat into `unroled`.

- `EvaluationRun_proofs`. `Typed` is `TypeOK` with the type of an import. `AnswersFind` rests on `IInv`: what is
  in flight, or about to be published, is `Good`, that is, about a cell that cannot come alive again once
  dead (`Known`: ids are used once, and a deleted source never returns) and that has a row naming its dataset
  row while it lives. `StepKeeps` says what every step leaves of cells and rows; `FlightSource`, `DispatchSource` and
  `InsertSource` say where things come from. `OneRow` adds `PostInv` (an evaluation is posted once, about its own
  cells) and `RowInv` (before that its cells have no rows but entered ones); `RowSource` shows that only posting
  and entries add rows, and needs `IInv`, since a delivery would add one if its create branch could succeed.
  `PendingAccounted` needs to know that the row an answer updates is the PENDING one: by `SoleInv` one row of a cell at
  most names its dataset row, unless one was entered (`Mistakable`), by `SpecInv` PENDING rows are those posting
  was to save, by `UpdateInv` what a delivery found is still at its place, and by `AckInv` a delivery to be
  acknowledged has left nothing PENDING. `ChangeSource` says what a step may do to the rows of a cell, and
  `HandlerSource` what to a delivery. `SnapshotScored` follows posting from source to source: `Reached` says at each
  stage where a cell that is `Due` must be by then, `InitialInv` that an initial target goes only with its source,
  and `DueBefore` that a cell does not become due under way.
  `Refinement` needs only the types: `ConcatCell` says what the board shows of a cell's rows and orphans, and
  each writing action is one of the board's under the foreign keys (`StandsAlive`).
- `Runtime_proofs!BrokerSafe`: `BrokerSafety` is inductive with `BrokerInv`, which says what the service
  knows at each label: the memo it holds is the producer it dialled, the consumers it lists are those opened since
  the start, and what a shutdown still has to close is among what is open. `RefusedForGood` is the action
  property that the same invariant gives: nothing but a new start of the process forgets a refused producer.
- `Runtime_proofs!Starved`: a message behind as many that cannot be handled as the window holds is never
  delivered. `Held` says that such messages are ready or unacknowledged, never gone; `NotDelivered` counts them: together
  they fill the window before the message's turn comes.
- `Safeguards_proofs!KeysAreSafe`: `KeySafety` is inductive with `WaitingKeysAreNew` (a key that waits to be
  saved is in no row, was never returned or deleted, and no other request holds it), `RowIsShown` (the key in the
  row was returned and never deleted), `KeyOnItsWay` (a project without a row has a request about to save one) and
  `RevokedAreDead` (a call that presents a revoked key presents one whose row was deleted).
- `Safeguards_proofs!RulesAreHeeded`: by `EditsApart`, while no two edits overlapped, the one under way knows the
  rule as it is; `RightNow`, `RightRules` and `RightRoles` say which rules and roles an answer may rely on before
  its first read, between its two reads and after them.
- `Workbench_proofs!PromptsAreSafe`: `PromptSound` says of each request at its label that the copy it holds is of
  a prompt that was made, and promotes a version of that prompt or one that is gone for good, which the foreign key
  refuses; `CountIsRight` that the count a request holds is the number of versions still, unless two were being created
  at once; `NothingPromisedYet` that a prompt without a promoted version was never promised one. The search for this
  invariant corrected the model and the property: with three requests a removed prompt may come back, saved from a copy,
  while a version of it is being created, and the versions are then misnumbered. `Save` now records it.

- `Workbench_proofs!StatisticsAreSafe`: `RowsNumbered` (rows become visible at any place of the order, but keep their
  numbers), `Covers` (of the rows that were scored when a reader read its first page, those up to its offset are
  counted, since a row that comes in between only pushes them on; rows scored later are `Explained`) and `Explained`
  (what an entry does not know has one of the reasons the property names, now or by the time the entry is filled).
  The rows counted are a set: the order of the aggregation does not matter.
- `Workbench_proofs!AnnotationsAreSafe`: of an annotation nobody disturbed, at most one request is between the
  DELETE of its answers and the save (`AloneMidway`), and until that save there are none (`AnswersAreKept`); `CallsSound`
  and `RowsSound` say what requests hold and that rows keep their identifiers.
- `Workbench_proofs!RetentionIsSafe`: `RunSound` says what a run of the job holds at each label, its batches among it: the
  old evaluations of its project, the old experiments, the evaluations about them, whose age nothing bounds. What is
  recorded in `collateral` can then come of the third alone, and `CollateralPursued` says that
  whoever put it there is still after an experiment of it, which is due, or failed. What
  is reported cannot be had by counting alone, since two runs may delete the same rows: `Covered` splits what
  a project lost between rows that its report counts and rows that each run still owes, and each step moves some
  from the one to the other (`CoverMore` and the lemmas after it).
- `Workbench_proofs!DatasetsAreSafe`: `ImportSound` says that what an import has read is in no table yet, and that its
  pending rows and the records unread make up the file; `DatasetsSound`, `DataRowsSound`, `FilesSound` and `LogSound` tie
  rows, files and the audit log to datasets whose identifiers were given out. `TurnerSound` is about the pages: of the
  rows that were there at the start, each was seen or has as many rows below it in the order as were skipped, until
  a removal lets rows slip (`Places`, `BelowGrows`).
- `Workbench_proofs!ComparisonsAreSafe`: its invariant is short (`ComparisonInv`: the scale is one that may be entered, the
  pairs are pairs of codes); what is hard is what the measures compute, for tables of any length. A sum over a finite set
  is the sum over the others and one summand (`SumStep`), and `InductionOnSets` goes from there: instead of an induction
  theorem with a predicate it takes the set of the parts that are good, and a smallest part that is not.
  `TableAddsUp` then says that rows of the change table add up to the places they stand for, which makes the cells those of
  the pairs (`CellsArePlaces`); `TermBound` and `BowkerBound` that a term counts no more than the pairs that moved between
  two categories, each pair in one term at most, so that Cramer's V is at most one. For the ranks, `OneOptionEach` says
  what an unambiguous scale is good for, `RanksInPlace` that nothing is dropped, `CdfIs` that the distribution at an option
  counts the values up to it, and `MedianIsInTheMiddle` follows. That a swap turns the dominance round needs no
  hypothesis on the scale (`SwappedDominance`), and the property no longer makes one.
- `Safeguards_proofs!AuditIsSafe`: the times of the pages decrease, and whatever was there at the start and was not
  shown lies behind the cursor, was deleted, or shares a millisecond with an end of a page.
- `Safeguards_proofs!SecretsAreSafe`: what a request has merged, validated or encrypted satisfies at each label the
  conditions that the row satisfies, a text that looks encrypted being in plain and every other secret encrypted once, and
  the texts of a row are the last ones entered unless a save wrote a copy that was
  older than the row.
- `Safeguards_proofs!TracesAreSafe`: `Evidence` says of each operation that showed the trace under a filter what it
  leaves behind (a span with the mark, a first row with the resource, an alternative that escapes the filter, no refusal), `Found` what it is
  that a search saw, and `StepGrows` that more spans cannot
  take it away. Together with `RulesAreHeeded` this is all that `TraceSafety` says. To be reasoned about, the spans of a
  trace are a set wherever their order does not matter to the code, and a batch saved by `AnnotationQueue` is a function
  of places rather than a filtered sequence.
- `Safeguards_proofs!AccessIsSafe`: the invariant of the requests is short (`AccessInv`: everybody holds seeded roles,
  and who created a project is among its users exactly unless it is orphaned); the rest follows of the tables. `PermissionsAddUp` makes the two
  guards agree, since the roles that the inner one reads are among those of the outer one. `DoorsAreExplicit` is what the
  menu needs; `RolesLook` and `ReadingDoors` go through the seeded roles and the controllers once for
  `ChangersCanLook`. The tables are those of the code, the people and the projects any.

Constants of the services are assumed to be what their code makes of them: `AuditAssumption` (a page has a positive limit
and a millisecond a positive number of ticks), `SecretsAssumption` (the ordinary secrets are told from the empty one, the
mask and a text of the form of a cipher text, which requests may send as well), `StreamAssumption` (a positive batch),
`SpansAssumption`, `QueueAssumption` and the like (bounds are numbers), `RetentionAssumption` (finitely many experiments and
evaluations, told apart, and at least one project), `DatasetsAssumption` (headers are sequences of names, identifiers
of rows are comparable as numbers are, a batch and a page hold at least one row), `ComparisonAssumption` (texts tell numbers apart, values that occur are
texts of numbers, since `score_results.value` is one, a scale has options, for without any the code compares no ranks, and
the denominator is a multiple of every number of pairs) and `AccessAssumption` (the model's
marks for no user and for no project name none).

Every safety invariant and every action property of the passing runs is stated by a theorem. Only model-checked is
liveness (`RunSettles`, `EvaluationSettles`, `RevocationTakesEffect`, `PublicationsEnd`, `AnswersDrain`), since fairness
and ENABLED are beyond the prover; and the theorems of `services` are about its components one by one, as they share
no state.

## 5. Not modelled, and the plan

Next:

1. `findById` of projects with its cache, and update and removal of an organisation with its own.
2. YAML import of entities and of conversation configurations, where one failing item of several matters.
3. Numeric comparison (Welch and Wilcoxon), up to the calls into the statistics library.

Left out for good: time ranges, durations and the texts of queries and of errors of the trace backends (wording and
formatting), attribute names and values, the SQL aggregates and floating-point statistics (outside TLC's
reach), mail and health (input and output), connection tests (a call without state), and the single-row
services (scores, entities, conversation configurations), where nothing interleaves. No module declares a recursive
operator: what is counted is a cardinality, and inductions over finite sets go by a smallest counterexample.
