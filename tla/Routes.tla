-------------------------------- MODULE Routes --------------------------------
(***************************************************************************)
(* The doors of the service: for every controller, its guards, the         *)
(* resource its permissions are about, and the verb each handler asks for. *)
(* A permission "datasets:rows:create" is <<"datasets", "rows:create">>.   *)
(* Guards: "org" OrgPermissionGuard, "project" OrgProjectPermissionGuard,  *)
(* "instance" InstancePermissionGuard, "license" EnterpriseLicenseGuard,   *)
(* "key" ProjectApiKeyGuard, "internal" ApiKeyGuard, "anyone"              *)
(* AllowAnonymous with none of those; with no guard, a session is enough.  *)
(***************************************************************************)
CRUD == {"create", "read", "update", "delete"}

\* permissions.ts: the verbs of every resource.
Verbs ==
  [resource \in {"datasources", "prompts", "scores", "annotations", "model-configurations",
                 "conversation-configurations", "entities", "organisations", "projects",
                 "projects:attribute-visibility", "projects:api-keys", "datasets", "traces",
                 "conversations", "experiments", "evaluations", "annotation-queues"} |->
     CASE resource = "organisations" ->
            {"read", "update", "delete", "members:read", "members:create", "members:update",
             "members:delete", "roles:read", "roles:create", "roles:update", "roles:delete",
             "configurations:read"}
       [] resource = "projects" ->
            CRUD \union {"members:read", "members:create", "members:delete", "roles:read",
                         "roles:create", "roles:update", "roles:delete", "roles:assign",
                         "roles:remove"}
       [] resource \in {"projects:attribute-visibility", "projects:api-keys"} -> {"read", "manage"}
       [] resource = "datasets" -> CRUD \union {"import", "export", "rows:create"}
       [] resource \in {"traces", "conversations"} -> {"read"}
       [] resource = "experiments" -> CRUD \union {"rerun"}
       [] resource = "evaluations" -> CRUD \union {"rerun", "results:read"}
       [] resource = "annotation-queues" ->
            CRUD \union {"traces:create", "traces:delete", "conversations:create",
                         "conversations:delete"}
       [] OTHER -> CRUD]

AllOf(resources) == UNION {{r} \X Verbs[r] : r \in resources}
ReadOf(resources) == resources \X {"read"}

\* The handlers of a controller that share their guards; creator: the decorator
\* says allowProjectCreator.
Controller(guards, resource, creator, handlers) ==
  {[name |-> h, guards |-> guards, creator |-> creator,
    permission |-> IF handlers[h] = "none" THEN <<>> ELSE <<resource, handlers[h]>>]
     : h \in DOMAIN handlers}

-----------------------------------------------------------------------------
\* Rows of one project

DatasetsController == Controller({"project"}, "datasets", FALSE,
  [importDataset |-> "import", create |-> "create", findAll |-> "read",
   upsertRow |-> "rows:create", findHeader |-> "none"])
DatasetsByIdController == Controller({"project"}, "datasets", FALSE,
  [export |-> "export", findOne |-> "read", update |-> "update", remove |-> "delete"])

ExperimentsController == Controller({"project"}, "experiments", FALSE,
  [create |-> "create", findAll |-> "read", findOne |-> "read", rerun |-> "rerun",
   remove |-> "delete", createResult |-> "create", listResults |-> "read"])

EvaluationsController == Controller({"project"}, "evaluations", FALSE,
  [create |-> "create", findAll |-> "read", getExperimentScores |-> "results:read",
   findOne |-> "read", rerun |-> "rerun"])
EvaluationsByIdController == Controller({"project"}, "evaluations", FALSE,
  [remove |-> "delete", createResult |-> "create", importScoreResults |-> "create",
   listResultsForDataset |-> "results:read", listResultsForExperiments |-> "results:read"])
EvaluationStatisticsController == Controller({"project"}, "evaluations", FALSE,
  [getStatisticsForDataset |-> "results:read", getStatisticsForExperiments |-> "results:read",
   compareExperiments |-> "results:read"])

\* Mutant: to look at a score is to change it.
ScoresControllerStrict == Controller({"project"}, "scores", FALSE,
  [create |-> "create", findAll |-> "update", findOne |-> "update", update |-> "update",
   remove |-> "delete"])

ScoresController == Controller({"project"}, "scores", FALSE,
  [create |-> "create", findAll |-> "read", findOne |-> "read", update |-> "update",
   remove |-> "delete"])

PromptsController == Controller({"project"}, "prompts", FALSE,
  [findAll |-> "none", findOne |-> "read", findVersions |-> "read",
   findLatestVersion |-> "read", create |-> "create", update |-> "update", run |-> "read",
   promoteVersion |-> "update", remove |-> "delete"])
PromptVersionsController == Controller({"project"}, "prompts", FALSE,
  [findVersionById |-> "read"])

AnnotationQueueController == Controller({"project"}, "annotation-queues", FALSE,
  [findAll |-> "read", create |-> "create", getTemplate |-> "read", findOne |-> "read",
   update |-> "update", remove |-> "delete"])
AnnotationController == Controller({"project"}, "annotations", FALSE,
  [createAnnotation |-> "create", updateAnnotation |-> "update", removeAnnotation |-> "delete"])
QueueTraceController == Controller({"project"}, "annotation-queues", FALSE,
  [addTraceToQueue |-> "traces:create", addTracesToQueueBulk |-> "traces:create",
   removeTraceFromQueueById |-> "traces:delete", removeTraceFromQueue |-> "traces:delete"])
QueueConversationController == Controller({"project"}, "annotation-queues", FALSE,
  [addConversationToQueue |-> "conversations:create",
   removeConversationFromQueue |-> "conversations:delete"])

TracesController == Controller({"project"}, "traces", FALSE,
  [search |-> "read", getAttributeValues |-> "read"])
TraceController == Controller({"project"}, "traces", FALSE,
  [getAttributeNames |-> "read", searchByTraceId |-> "read"])
ConversationsController == Controller({"project"}, "conversations", FALSE,
  [getConversationsByTraceIds |-> "read", getConversations |-> "read",
   getFullConversation |-> "read"])

-----------------------------------------------------------------------------
\* Settings of one organisation

DatasourcesController == Controller({"org"}, "datasources", FALSE,
  [create |-> "create", findAll |-> "read", findAllListItems |-> "read", update |-> "update"])
DatasourceByIdController == Controller({"org"}, "datasources", FALSE,
  [remove |-> "delete", testConnection |-> "create", testExistingConnection |-> "read"])

EntitiesController == Controller({"org"}, "entities", FALSE,
  [create |-> "create", findAll |-> "read", export |-> "read", import |-> "create",
   findOne |-> "read", update |-> "update", remove |-> "delete"])

ConversationConfigController == Controller({"org"}, "conversation-configurations", FALSE,
  [findAll |-> "read", export |-> "read", import |-> "create"])
ConversationConfigByIdController == Controller({"org"}, "conversation-configurations", FALSE,
  [create |-> "create", update |-> "update", remove |-> "delete"])

ModelConfigurationController == Controller({"org"}, "model-configurations", FALSE,
  [findAll |-> "read", findOne |-> "read", create |-> "create", update |-> "update",
   remove |-> "delete"])

RolesController ==
  Controller({"org"}, "organisations", FALSE, [findAll |-> "roles:read", findOne |-> "roles:read"])
  \union Controller({"org", "license"}, "organisations", FALSE,
    [create |-> "roles:create", update |-> "roles:update", delete |-> "roles:delete"])

-----------------------------------------------------------------------------
\* Projects, their members and their roles

\* Mounted under OrgPermissionGuard, which these handlers pass first.
ProjectsController ==
  Controller({"org"}, "projects", FALSE, [create |-> "create"])
  \union Controller({"org", "project"}, "projects", FALSE,
    [remove |-> "delete", update |-> "update", inviteUser |-> "members:create",
     removeUser |-> "none"])
ProjectMembersController ==
  Controller({"org"}, "projects", FALSE, [findAllProjects |-> "read"])
  \union Controller({"org", "project"}, "projects", TRUE,
    [assignProjectRole |-> "roles:assign", removeProjectRole |-> "roles:remove"])
  \union Controller({"org", "project"}, "projects", FALSE,
    [findOne |-> "read", getUserProjectRole |-> "members:read",
     getUsersWithRoles |-> "members:read", listAvailableUsers |-> "members:read"])
  \union Controller({"org", "project", "license"}, "projects", FALSE,
    [getProjectAuditLogs |-> "members:read"])

ProjectRolesController ==
  Controller({"project"}, "projects", TRUE,
    [findAllRoles |-> "roles:read", findOneRole |-> "roles:read"])
  \union Controller({"project", "license"}, "projects", TRUE,
    [createRole |-> "roles:create", updateRole |-> "roles:update", deleteRole |-> "roles:delete"])

ApiKeysController == Controller({"project"}, "projects:api-keys", FALSE,
  [getStatus |-> "read", createOrRegenerate |-> "manage", revoke |-> "manage"])
AttributeVisibilityRuleController ==
  Controller({"project", "license"}, "projects:attribute-visibility", FALSE,
    [create |-> "manage", findAll |-> "read", addRoles |-> "manage", removeRoles |-> "manage",
     delete |-> "manage"])

RetentionController ==
  Controller({"org"}, "organisations", FALSE,
    [getOrganisationRetention |-> "read", updateOrganisationRetention |-> "update"])
ProjectRetentionController ==
  Controller({"project"}, "projects", FALSE,
    [getProjectRetention |-> "read", updateProjectRetention |-> "update"])

-----------------------------------------------------------------------------
\* Organisations, the instance, and the doors without a session

OrganisationsController ==
  Controller({}, "organisations", FALSE, [create |-> "none", findAll |-> "none"])
  \union Controller({"org"}, "organisations", FALSE,
    [findOne |-> "none", update |-> "none", remove |-> "none", getUsers |-> "members:read",
     addUser |-> "none"])
\* assignRole and getUserRole name a permission and no guard that reads it.
OrganisationMembersController ==
  Controller({"org"}, "organisations", FALSE, [removeUser |-> "none"])
  \union Controller({}, "organisations", FALSE,
    [assignRole |-> "members:update", getUserRole |-> "members:read"])
  \union Controller({"org", "license"}, "organisations", FALSE, [getAuditLogs |-> "read"])

InstanceController(handlers) ==
  {[name |-> h, guards |-> {"instance"}, creator |-> FALSE, permission |-> <<"*">>]
     : h \in handlers}
AdminController == InstanceController({"findAll", "create", "remove", "getAuditLogs"})
AdminUsersController == InstanceController({"getAllUsers", "removeUser"})
InstanceOwnerController == InstanceController(
  {"assignOwnerRole", "removeOwnerRole", "listOwners", "getAuditLogs", "searchUsers"})

SessionOnly == Controller({}, "users", FALSE, [getPermissions |-> "none", getConfig |-> "none"])

KeyController(handlers) ==
  {[name |-> h, guards |-> {"key"}, creator |-> FALSE, permission |-> <<>>] : h \in handlers}
PublicDatasetsController == KeyController({"findAll", "findOne", "addRow"})
PublicDatasourcesController == KeyController({"findAll"})
\* Mutant: a project's key creates entities for the whole organisation.
PublicEntitiesControllerOpen == KeyController({"findAll", "findOne", "create"})

PublicEntitiesController == KeyController({"findAll", "findOne"})
PublicPromptsController == KeyController(
  {"findAll", "findOne", "findVersions", "findLatestVersion"})
PublicEvaluationsController == KeyController(
  {"findAll", "findOne", "listPendingScoreResults", "importScoreResults",
   "getExperimentScores", "create", "createResult"})
PublicExperimentsController == KeyController(
  {"findAll", "findOne", "listResults", "create", "createResult"})
PublicTracesController == KeyController(
  {"search", "getAttributeValues", "getAttributeNames", "searchByTraceId"})

\* The doors a session opens.
SessionDoors == UNION {
  DatasetsController, DatasetsByIdController, ExperimentsController, EvaluationsController,
  EvaluationsByIdController, EvaluationStatisticsController, ScoresController,
  PromptsController, PromptVersionsController, AnnotationQueueController,
  AnnotationController, QueueTraceController, QueueConversationController, TracesController,
  TraceController, ConversationsController, DatasourcesController, DatasourceByIdController,
  EntitiesController, ConversationConfigController, ConversationConfigByIdController,
  ModelConfigurationController, RolesController, ProjectsController,
  ProjectMembersController, ProjectRolesController, ApiKeysController,
  AttributeVisibilityRuleController, RetentionController, ProjectRetentionController,
  OrganisationsController, OrganisationMembersController, AdminController,
  AdminUsersController, InstanceOwnerController, SessionOnly}

ModelConfigurationInternalController ==
  {[name |-> "findOne", guards |-> {"internal"}, creator |-> FALSE, permission |-> <<>>]}
PromptsInternalController ==
  {[name |-> "getLatestVersion", guards |-> {"internal"}, creator |-> FALSE, permission |-> <<>>]}

\* The doors of a project's API key or of the worker's, by resource.
KeyDoors ==
  [resource \in {"datasets", "datasources", "entities", "prompts", "evaluations", "experiments",
                 "traces", "model-configurations"} |->
     CASE resource = "datasets" -> PublicDatasetsController
       [] resource = "datasources" -> PublicDatasourcesController
       [] resource = "entities" -> PublicEntitiesController
       [] resource = "prompts" -> PublicPromptsController \union PromptsInternalController
       [] resource = "evaluations" -> PublicEvaluationsController
       [] resource = "experiments" -> PublicExperimentsController
       [] resource = "traces" -> PublicTracesController
       [] resource = "model-configurations" -> ModelConfigurationInternalController]

Door(controller, handler) == CHOOSE d \in controller : d.name = handler
=============================================================================
