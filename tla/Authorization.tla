--------------------------- MODULE Authorization ---------------------------
(***************************************************************************)
(* What a request must be allowed to do before a route of the API calls    *)
(* its service, and which route every method of the client library calls.  *)
(* Parsing of bodies, the answers and the calls of the services themselves *)
(* are the subject of the other modules.  A route is named by its verb and *)
(* its path below /api/v1; what it asks for is the set of the actions it   *)
(* passes to authorize(), or one of the words                              *)
(*   "home", "settings"          a screen the Studio context shows         *)
(*   "identity administration"   a role that administers identities        *)
(*   "recent sign-in"            a session that need not be renewed yet    *)
(*   "directory credential"      the bearer token of a directory           *)
(*   "preview token"             the token of a preview grant.             *)
(* The same table shape gives the operations a method of the Studio needs, *)
(* at the end, after the decision over roles and grants.                   *)
(***************************************************************************)
EXTENDS TLC

\* Every name of the set asks for the same things.
Asks(demands, names) == [name \in names |-> demands]

-----------------------------------------------------------------------------
(* The routes of the server.                                               *)

PlatformRoutes ==
     Asks({}, {"GET /health", "GET /ready", "GET /studio/context"})
  @@ Asks({"content.read"}, {"GET /context"})
  @@ Asks({"home"}, {"GET /editorial/overview"})
  @@ Asks({"settings"}, {"GET /configuration/inventory"})

SchemaRoutes ==
     Asks({"schema.read"}, {"GET /schemas"})
  @@ Asks({"component.read"}, {"GET /components", "GET /components/:id/usage",
       "GET /components/:id/migration", "GET /components/:id/visual-regression",
       "GET /design-system"})
  @@ Asks({"content.draft.update"}, {"POST /content/:id/components/:componentId/migrate"})

AssetRoutes ==
     Asks({"asset.read"}, {"GET /assets", "POST /assets/:id/delivery", "GET /assets/:id",
       "GET /assets/:id/usage"})
  @@ Asks({"asset.create"}, {"POST /assets/uploads", "GET /assets/uploads/:id",
       "PUT /assets/uploads/:id/parts/:partNumber", "POST /assets/uploads/:id/complete",
       "DELETE /assets/uploads/:id"})
  @@ Asks({}, {"GET /assets/:id/content"})
  @@ Asks({"asset.update"}, {"PATCH /assets/:id", "POST /assets/:id/renditions"})

PreviewRoutes ==
     Asks({"content.read"}, {"POST /preview/sessions", "DELETE /preview/sessions/:id",
       "GET /locales"})
  @@ Asks({"preview token"}, {"GET /preview/content/:id", "POST /preview/sessions/:id/messages"})

PortabilityRoutes ==
     Asks({"schema.read"}, {"GET /schema-lifecycle", "GET /schema-lifecycle/drift"})
  @@ Asks({"schema.plan"}, {"POST /schema-lifecycle/plan"})
  @@ Asks({"schema.deploy"}, {"POST /schema-lifecycle/deploy"})
  @@ Asks({"portability.export"}, {"GET /portability/export"})
  @@ Asks({"portability.import"}, {"POST /portability/import"})
  @@ Asks({"audit.read"}, {"GET /audit/verify"})
  @@ Asks({"audit.export"}, {"GET /audit/export"})

OperationsRoutes ==
     Asks({"operations.read"}, {"GET /operations/outbox", "GET /operations/jobs",
       "GET /operations/summary", "GET /operations/observability", "GET /operations/webhooks"})
  @@ Asks({"operations.manage"}, {"POST /operations/webhooks", "PUT /operations/webhooks/:id",
       "DELETE /operations/webhooks/:id"})
  @@ Asks({"operations.run"}, {"POST /operations/drain"})
  @@ Asks({"operations.replay"}, {"POST /operations/jobs/:id/replay"})

SearchRoutes ==
     Asks({"search.read"}, {"POST /search", "GET /taxonomies", "GET /search/index/status",
       "GET /content/:id/backlinks", "GET /content/:id/related"})
  @@ Asks({"search.manage"}, {"POST /search/index/rebuild"})

WorkflowRoutes ==
     Asks({"workflow.action.read"}, {"GET /workflow-actions"})
  @@ Asks({"workflow.action.run"}, {"POST /workflow-actions/drain"})
  @@ Asks({"workflow.action.replay"}, {"POST /workflow-actions/:id/replay"})
  @@ Asks({"workflow.read"}, {"GET /workflows", "GET /content/:id/workflow"})
  @@ Asks({"workflow.manage"}, {"PUT /workflows/:id"})
  @@ Asks({"workflow.transition"}, {"POST /content/:id/workflow/transitions/:transitionId"})
  @@ Asks({"workflow.approve"}, {"POST /content/:id/workflow/approvals/:requestId"})
  @@ Asks({"workflow.schedule"}, {"POST /content/:id/workflow/schedules",
       "DELETE /content/:id/workflow/schedules/:scheduleId"})
  @@ Asks({"operations.run"}, {"POST /workflows/process-due"})

PluginRoutes ==
     Asks({"plugin.read"}, {"GET /plugins", "GET /plugins/:id"})
  @@ Asks({"plugin.manage"}, {"POST /plugins/install", "POST /plugins/:id/enable",
       "POST /plugins/:id/disable", "POST /plugins/:id/revoke",
       "GET /plugins/:id/uninstall-preview", "DELETE /plugins/:id"})
  @@ Asks({"plugin.invoke"}, {"POST /plugins/:id/invoke"})

ReleaseRoutes ==
     Asks({"release.read"}, {"GET /releases", "GET /releases/:id", "GET /releases/:id/preview"})
  @@ Asks({"release.manage"}, {"POST /releases", "POST /releases/:id/validate"})
  @@ Asks({"release.schedule"}, {"POST /releases/:id/schedule", "DELETE /releases/:id/schedule"})
  @@ Asks({"release.execute"}, {"POST /releases/:id/execute"})
  @@ Asks({"release.rollback"}, {"POST /releases/:id/rollback"})
  @@ Asks({"operations.run"}, {"POST /releases/process-due"})

ContentRoutes ==
     Asks({"content.read"}, {"GET /content", "GET /content/query", "POST /content/query",
       "GET /content/:id/translations", "GET /content/:id", "GET /content/:id/quality"})
  @@ Asks({"content.create"}, {"POST /content/:id/translations", "POST /content"})
  @@ Asks({"content.draft.update"}, {"POST /content/:id/quality", "PUT /content/:id/draft"})
  @@ Asks({"content.publish"}, {"POST /content/:id/publish"})
  @@ Asks({"content.history.read"}, {"GET /content/:id/revisions"})

CollaborationRoutes ==
     Asks({"collaboration.read"}, {"GET /content/:id/collaboration"})
  @@ Asks({"collaboration.write"}, {"POST /content/:id/collaboration/operations",
       "POST /content/:id/collaboration/branches", "POST /content/:id/collaboration/suggestions",
       "PATCH /content/:id/collaboration/suggestions/:suggestionId",
       "POST /content/:id/collaboration/merges",
       "PATCH /content/:id/collaboration/conflicts/:conflictId", "POST /content/:id/comments",
       "POST /content/:id/comments/:threadId/replies", "PATCH /content/:id/comments/:threadId"})
  @@ Asks({"presence.write"}, {"PUT /content/:id/presence", "DELETE /content/:id/presence"})

DeliveryRoutes ==
     Asks({"delivery.read"}, {"GET /delivery/:contentType/:slug",
       "GET /delivery/localized/:translationGroupId", "GET /delivery/localized-routes/*",
       "GET /delivery/query", "POST /delivery/query", "GET /delivery/routes/*"})

AiRoutes ==
     Asks({"ai.read"}, {"GET /ai", "GET /ai/authoring"})
  @@ Asks({"ai.manage"}, {"PUT /ai/policy", "POST /ai/prompts",
       "POST /ai/prompts/:promptId/versions/:version/activate", "POST /ai/kill-switch",
       "PUT /ai/authoring/policy"})
  @@ Asks({"ai.execute"}, {"POST /ai/generate"})
  @@ Asks({"ai.execute", "content.read"}, {"POST /ai/authoring/proposals"})
  @@ Asks({"ai.review", "content.read"}, {"POST /ai/authoring/proposals/:proposalId/review"})
  @@ Asks({"ai.read", "content.read"}, {"POST /ai/semantic/search"})

AnalyticsRoutes ==
     Asks({"delivery.read"}, {"POST /analytics/events"})
  @@ Asks({"operations.read"}, {"GET /analytics/report"})

FederationRoutes ==
     Asks({"federation.read"}, {"GET /federation"})
  @@ Asks({"federation.manage"}, {"PUT /federation/offers/:offerId",
       "POST /federation/agreements/:agreementId/inspect",
       "POST /federation/agreements/:agreementId/state"})
  @@ Asks({"federation.sync"}, {"POST /federation/agreements/:agreementId/plans",
       "POST /federation/plans/:planId/execute"})
  @@ Asks({"federation.consume"}, {"GET /federation/source/offers/:offerId",
       "GET /federation/source/offers/:offerId/records/:namespace/:sourceEntryId",
       "GET /federation/source/offers/:offerId/snapshot"})
  @@ Asks({"delivery.read"}, {"GET /federation/delivery/:agreementId/:namespace/:sourceEntryId"})

ExperimentRoutes ==
     Asks({"experiment.read"}, {"GET /experiments"})
  @@ Asks({"experiment.manage"}, {"PUT /experiments/:experimentId",
       "POST /experiments/:experimentId/transition"})
  @@ Asks({"experiment.metrics"}, {"POST /experiments/:experimentId/metrics"})
  @@ Asks({"experiment.promote"}, {"POST /experiments/:experimentId/promote"})
  @@ Asks({"delivery.read"}, {"POST /experiments/:experimentId/allocate"})

GovernanceRoutes ==
     Asks({"governance.read"}, {"GET /governance", "GET /governance/residency"})
  @@ Asks({"governance.manage"}, {"PUT /governance/policy", "POST /governance/subjects",
       "POST /governance/subjects/:id/links", "POST /governance/holds",
       "POST /governance/holds/:id/release", "POST /governance/requests",
       "POST /governance/requests/:id/verify", "POST /governance/requests/:id/review",
       "POST /governance/requests/:id/plan", "POST /governance/retention/plans"})
  @@ Asks({"governance.execute", "recent sign-in"}, {"POST /governance/plans/:id/approve"})
  @@ Asks({"governance.execute"}, {"POST /governance/plans/process",
       "POST /governance/requests/:id/export"})

IdentityRoutes ==
     Asks({"identity administration"}, {"GET /identity", "POST /identity/providers",
       "PUT /identity/session-policy", "POST /identity/group-role-mappings",
       "DELETE /identity/group-role-mappings/:id", "POST /identity/directory-credentials",
       "POST /identity/break-glass", "DELETE /identity/break-glass/:id"})
  @@ Asks({}, {"GET /identity/federation/:providerId/start",
       "GET /identity/federation/:providerId/callback",
       "POST /identity/federation/:providerId/callback", "GET /identity/session",
       "DELETE /identity/session", "POST /identity/break-glass/activate"})

PasskeyRoutes ==
     Asks({}, {"POST /identity/webauthn/registration/options",
       "POST /identity/webauthn/registration/verify",
       "POST /identity/webauthn/authentication/options",
       "POST /identity/webauthn/authentication/verify"})

DirectoryRoutes ==
     Asks({"directory credential"}, {"GET /scim/v2/ServiceProviderConfig", "GET /scim/v2/ResourceTypes",
       "GET /scim/v2/Schemas", "GET /scim/v2/Users", "POST /scim/v2/Users",
       "GET /scim/v2/Users/:id", "PUT /scim/v2/Users/:id", "PATCH /scim/v2/Users/:id",
       "DELETE /scim/v2/Users/:id", "GET /scim/v2/Groups", "POST /scim/v2/Groups",
       "GET /scim/v2/Groups/:id", "PUT /scim/v2/Groups/:id", "PATCH /scim/v2/Groups/:id",
       "DELETE /scim/v2/Groups/:id"})

FleetRoutes ==
     Asks({}, {"GET /interoperability", "GET /interoperability/specifications/:kind/:version"})
  @@ Asks({"fleet.read"}, {"GET /fleet"})
  @@ Asks({"fleet.manage"}, {"PUT /fleet/members/:memberId", "POST /fleet/members/:memberId/state",
       "DELETE /fleet/members/:memberId"})
  @@ Asks({"fleet.check"}, {"POST /fleet/members/:memberId/check"})

KnowledgeRoutes ==
     Asks({"knowledge.read"}, {"POST /knowledge/graph", "POST /knowledge/recommendations"})
  @@ Asks({"agent.read"}, {"GET /knowledge/agent"})
  @@ Asks({"agent.manage"}, {"PUT /knowledge/agent/policy"})
  @@ Asks({"agent.plan", "content.read"}, {"POST /knowledge/agent/plans"})
  @@ Asks({"agent.review", "content.read"}, {"POST /knowledge/agent/plans/:planId/review"})
  @@ Asks({"agent.execute", "content.draft.update"}, {
       "POST /knowledge/agent/plans/:planId/execute"})

MarketplaceRoutes ==
     Asks({"marketplace.read"}, {"GET /marketplace", "GET /marketplace/publishers/:id"})
  @@ Asks({"marketplace.manage"}, {"POST /marketplace/publishers",
       "POST /marketplace/publishers/:id/challenge",
       "POST /marketplace/publishers/:id/verify-domain", "POST /marketplace/releases"})
  @@ Asks({"marketplace.review"}, {"POST /marketplace/publishers/:id/approve",
       "POST /marketplace/publishers/:id/suspend", "POST /marketplace/releases/:id/review",
       "POST /marketplace/releases/:id/approve", "POST /marketplace/releases/:id/reject",
       "POST /marketplace/releases/:id/yank"})
  @@ Asks({"marketplace.read", "plugin.manage"}, {"POST /marketplace/releases/:id/install"})

MigrationRoutes ==
     Asks({"migration.read"}, {"GET /migrations"})
  @@ Asks({"migration.manage"}, {"PUT /migrations/recipes/:id", "POST /migrations/projects",
       "POST /migrations/projects/:id/state", "POST /migrations/projects/:id/plans"})
  @@ Asks({"migration.execute"}, {"POST /migrations/plans/:id/execute",
       "POST /migrations/projects/:id/cutover-reports"})

PersonalizationRoutes ==
     Asks({"personalization.read"}, {"GET /personalization"})
  @@ Asks({"personalization.manage"}, {"PUT /personalization/draft",
       "POST /personalization/publish"})
  @@ Asks({"personalization.preview"}, {"POST /personalization/preview"})
  @@ Asks({"delivery.read"}, {"POST /personalization/decide"})

RegionalRoutes ==
     Asks({"regional.read"}, {"GET /regional"})
  @@ Asks({"regional.manage"}, {"PUT /regional/policy"})
  @@ Asks({"regional.failover", "recent sign-in"}, {"POST /regional/failover/:planId/approve"})
  @@ Asks({"regional.failover"}, {"POST /regional/failover/preflight",
       "POST /regional/failover/:planId/execute", "POST /regional/failover/:planId/reconcile"})

Requires ==
  PlatformRoutes @@ SchemaRoutes @@ AssetRoutes @@ PreviewRoutes @@ PortabilityRoutes @@
  OperationsRoutes @@ SearchRoutes @@ WorkflowRoutes @@ PluginRoutes @@ ReleaseRoutes @@
  ContentRoutes @@ CollaborationRoutes @@ DeliveryRoutes @@ AiRoutes @@ AnalyticsRoutes @@
  FederationRoutes @@ ExperimentRoutes @@ GovernanceRoutes @@ IdentityRoutes @@
  PasskeyRoutes @@ DirectoryRoutes @@ FleetRoutes @@ KnowledgeRoutes @@ MarketplaceRoutes @@
  MigrationRoutes @@ PersonalizationRoutes @@ RegionalRoutes

\* The resource of these routes has the content type that the request names, or that
\* the entry has which the request names.
TypedRoutes ==
  {"GET /content", "GET /content/query", "POST /content/query", "POST /content",
   "GET /content/:id/translations", "POST /content/:id/translations",
   "POST /ai/authoring/proposals/:proposalId/review", "POST /ai/semantic/search",
   "POST /knowledge/agent/plans/:planId/review", "POST /knowledge/agent/plans/:planId/execute",
   "GET /delivery/:contentType/:slug", "GET /delivery/localized/:translationGroupId",
   "GET /delivery/localized-routes/*", "GET /delivery/query", "POST /delivery/query"}

\* These ask about the entry only if they find one.
EntryRoutes ==
  {"POST /ai/authoring/proposals/:proposalId/review", "POST /ai/semantic/search",
   "POST /knowledge/agent/plans/:planId/review", "POST /knowledge/agent/plans/:planId/execute"}

-----------------------------------------------------------------------------
(* The fields of GraphQL, behind one route that asks for a session only.   *)

QueryFields ==
     Asks({"content.read"}, {"content", "contents", "locales", "translationCompleteness"})
  @@ Asks({"delivery.read"}, {"publishedContent", "publishedContents", "localizedContent"})
  @@ Asks({"schema.read"}, {"schemas", "schemaLifecycle", "schemaDrift"})
  @@ Asks({"component.read"}, {"components"})

MutationFields ==
     Asks({"content.create"}, {"createContent", "createTranslation"})
  @@ Asks({"content.draft.update"}, {"updateDraft"})
  @@ Asks({"content.publish"}, {"publishContent"})
  @@ Asks({"schema.plan"}, {"planSchema"})
  @@ Asks({"schema.deploy"}, {"deploySchema"})

\* Mutant: the resource of a mutation has its id alone.
UntypedMutations ==
  {"contents", "publishedContent", "publishedContents", "localizedContent",
   "translationCompleteness"}

TypedFields ==
  {"contents", "publishedContent", "publishedContents", "localizedContent",
   "translationCompleteness", "createContent", "createTranslation"}

\* The route of REST that gives or does the same.
TwinOf == [
  content |-> "GET /content/:id", contents |-> "POST /content/query",
  publishedContent |-> "GET /delivery/:contentType/:slug",
  publishedContents |-> "POST /delivery/query",
  schemas |-> "GET /schemas", components |-> "GET /components",
  schemaLifecycle |-> "GET /schema-lifecycle", schemaDrift |-> "GET /schema-lifecycle/drift",
  locales |-> "GET /locales",
  localizedContent |-> "GET /delivery/localized/:translationGroupId",
  translationCompleteness |-> "GET /content/:id/translations",
  createContent |-> "POST /content", updateDraft |-> "PUT /content/:id/draft",
  publishContent |-> "POST /content/:id/publish",
  planSchema |-> "POST /schema-lifecycle/plan", deploySchema |-> "POST /schema-lifecycle/deploy",
  createTranslation |-> "POST /content/:id/translations"]

-----------------------------------------------------------------------------
(* The methods of the client library: one request each.                    *)

SessionMethods == [
  getSchemas |-> "GET /schemas", getRequestContext |-> "GET /context",
  getStudioContext |-> "GET /studio/context", getEditorialOverview |-> "GET /editorial/overview",
  getConfigurationInventory |-> "GET /configuration/inventory", getIdentity |-> "GET /identity",
  configureIdentityProvider |-> "POST /identity/providers",
  updateSessionPolicy |-> "PUT /identity/session-policy",
  createGroupRoleMapping |-> "POST /identity/group-role-mappings",
  deleteGroupRoleMapping |-> "DELETE /identity/group-role-mappings/:id",
  issueDirectoryCredential |-> "POST /identity/directory-credentials",
  createBreakGlassCredential |-> "POST /identity/break-glass",
  revokeBreakGlassCredential |-> "DELETE /identity/break-glass/:id",
  getIdentitySession |-> "GET /identity/session",
  logoutIdentitySession |-> "DELETE /identity/session"]

GovernanceMethods == [
  federationStartUrl |-> "GET /identity/federation/:providerId/start",
  getGovernance |-> "GET /governance", saveGovernancePolicy |-> "PUT /governance/policy",
  createDataSubject |-> "POST /governance/subjects",
  linkDataSubjectResource |-> "POST /governance/subjects/:id/links",
  createLegalHold |-> "POST /governance/holds",
  releaseLegalHold |-> "POST /governance/holds/:id/release",
  createDataSubjectRequest |-> "POST /governance/requests",
  verifyDataSubjectRequest |-> "POST /governance/requests/:id/verify",
  reviewDataSubjectRequest |-> "POST /governance/requests/:id/review",
  createErasurePlan |-> "POST /governance/requests/:id/plan",
  createRetentionPlan |-> "POST /governance/retention/plans",
  approveGovernancePlan |-> "POST /governance/plans/:id/approve",
  processGovernancePlans |-> "POST /governance/plans/process",
  exportDataSubjectRequest |-> "POST /governance/requests/:id/export",
  getResidencyStatus |-> "GET /governance/residency"]

MigrationMethods == [
  getMigrations |-> "GET /migrations", saveMigrationRecipe |-> "PUT /migrations/recipes/:id",
  createMigrationProject |-> "POST /migrations/projects",
  setMigrationProjectState |-> "POST /migrations/projects/:id/state",
  createMigrationPlan |-> "POST /migrations/projects/:id/plans",
  executeMigrationPlan |-> "POST /migrations/plans/:id/execute",
  validateMigrationCutover |-> "POST /migrations/projects/:id/cutover-reports"]

MarketplaceMethods == [
  getMarketplace |-> "GET /marketplace",
  registerMarketplacePublisher |-> "POST /marketplace/publishers",
  issueMarketplacePublisherChallenge |-> "POST /marketplace/publishers/:id/challenge",
  verifyMarketplacePublisherDomain |-> "POST /marketplace/publishers/:id/verify-domain",
  approveMarketplacePublisher |-> "POST /marketplace/publishers/:id/approve",
  suspendMarketplacePublisher |-> "POST /marketplace/publishers/:id/suspend",
  submitMarketplaceRelease |-> "POST /marketplace/releases",
  reviewMarketplaceRelease |-> "POST /marketplace/releases/:id/review",
  decideMarketplaceRelease |-> "POST /marketplace/releases/:id/approve",
  installMarketplaceRelease |-> "POST /marketplace/releases/:id/install"]

TargetingMethods == [
  getPersonalization |-> "GET /personalization",
  replacePersonalizationDraft |-> "PUT /personalization/draft",
  publishPersonalization |-> "POST /personalization/publish",
  previewPersonalization |-> "POST /personalization/preview",
  decidePersonalization |-> "POST /personalization/decide", getExperiments |-> "GET /experiments",
  saveExperimentDraft |-> "PUT /experiments/:experimentId",
  transitionExperiment |-> "POST /experiments/:experimentId/transition",
  recordExperimentMetrics |-> "POST /experiments/:experimentId/metrics",
  promoteExperimentWinner |-> "POST /experiments/:experimentId/promote",
  allocateExperiment |-> "POST /experiments/:experimentId/allocate"]

ComponentMethods == [
  getComponentManifests |-> "GET /components", getComponentUsage |-> "GET /components/:id/usage",
  getComponentMigration |-> "GET /components/:id/migration",
  getComponentVisualRegression |-> "GET /components/:id/visual-regression",
  migrateEntryComponent |-> "POST /content/:id/components/:componentId/migrate"]

AssetMethods == [
  listAssets |-> "GET /assets", getAsset |-> "GET /assets/:id",
  createAssetDelivery |-> "POST /assets/:id/delivery", startAssetUpload |-> "POST /assets/uploads",
  getAssetUpload |-> "GET /assets/uploads/:id",
  uploadAssetPart |-> "PUT /assets/uploads/:id/parts/:partNumber",
  completeAssetUpload |-> "POST /assets/uploads/:id/complete",
  abortAssetUpload |-> "DELETE /assets/uploads/:id", updateAsset |-> "PATCH /assets/:id",
  createAssetRendition |-> "POST /assets/:id/renditions", getAssetUsage |-> "GET /assets/:id/usage"]

PreviewMethods == [
  getDesignSystem |-> "GET /design-system", createPreviewSession |-> "POST /preview/sessions",
  getPreviewContent |-> "GET /preview/content/:id",
  acceptPreviewMessage |-> "POST /preview/sessions/:id/messages",
  revokePreviewSession |-> "DELETE /preview/sessions/:id",
  getSchemaLifecycle |-> "GET /schema-lifecycle", getSchemaDrift |-> "GET /schema-lifecycle/drift",
  planSchema |-> "POST /schema-lifecycle/plan", deploySchema |-> "POST /schema-lifecycle/deploy"]

WorkflowMethods == [
  listWorkflows |-> "GET /workflows", saveWorkflow |-> "PUT /workflows/:id",
  getContentWorkflow |-> "GET /content/:id/workflow",
  requestWorkflowTransition |-> "POST /content/:id/workflow/transitions/:transitionId",
  decideWorkflowApproval |-> "POST /content/:id/workflow/approvals/:requestId",
  scheduleWorkflowTransition |-> "POST /content/:id/workflow/schedules",
  cancelWorkflowSchedule |-> "DELETE /content/:id/workflow/schedules/:scheduleId",
  processDueWorkflows |-> "POST /workflows/process-due",
  listWorkflowActions |-> "GET /workflow-actions",
  drainWorkflowActions |-> "POST /workflow-actions/drain",
  replayWorkflowAction |-> "POST /workflow-actions/:id/replay"]

PluginMethods == [
  listPlugins |-> "GET /plugins", getPlugin |-> "GET /plugins/:id",
  installPlugin |-> "POST /plugins/install", enablePlugin |-> "POST /plugins/:id/enable",
  disablePlugin |-> "POST /plugins/:id/disable", revokePlugin |-> "POST /plugins/:id/revoke",
  previewPluginUninstall |-> "GET /plugins/:id/uninstall-preview",
  uninstallPlugin |-> "DELETE /plugins/:id", invokePlugin |-> "POST /plugins/:id/invoke"]

ReleaseMethods == [
  listReleases |-> "GET /releases", createRelease |-> "POST /releases",
  getRelease |-> "GET /releases/:id", validateRelease |-> "POST /releases/:id/validate",
  previewRelease |-> "GET /releases/:id/preview",
  scheduleRelease |-> "POST /releases/:id/schedule",
  cancelReleaseSchedule |-> "DELETE /releases/:id/schedule",
  executeRelease |-> "POST /releases/:id/execute",
  rollbackRelease |-> "POST /releases/:id/rollback",
  processDueReleases |-> "POST /releases/process-due"]

SearchMethods == [
  listContent |-> "GET /content", search |-> "POST /search", listTaxonomies |-> "GET /taxonomies",
  getSearchIndexStatus |-> "GET /search/index/status",
  rebuildSearchIndex |-> "POST /search/index/rebuild",
  listBacklinks |-> "GET /content/:id/backlinks",
  listRelatedContent |-> "GET /content/:id/related", queryContent |-> "POST /content/query",
  queryPublishedContent |-> "POST /delivery/query", listLocales |-> "GET /locales",
  getTranslationCompleteness |-> "GET /content/:id/translations",
  createTranslation |-> "POST /content/:id/translations",
  getLocalizedContent |-> "GET /delivery/localized/:translationGroupId",
  getLocalizedRoute |-> "GET /delivery/localized-routes/*"]

OperationsMethods == [
  listOutbox |-> "GET /operations/outbox", listJobs |-> "GET /operations/jobs",
  listWebhooks |-> "GET /operations/webhooks", saveWebhook |-> "PUT /operations/webhooks/:id",
  deleteWebhook |-> "DELETE /operations/webhooks/:id",
  drainOperations |-> "POST /operations/drain", replayJob |-> "POST /operations/jobs/:id/replay",
  exportContentArchive |-> "GET /portability/export",
  importContentArchive |-> "POST /portability/import", verifyAudit |-> "GET /audit/verify",
  exportAudit |-> "GET /audit/export", getOperationsDashboard |-> "GET /operations/summary",
  trackAnalyticsEvent |-> "POST /analytics/events", getAnalyticsReport |-> "GET /analytics/report"]

AiMethods == [
  getAiGateway |-> "GET /ai", updateAiGatewayPolicy |-> "PUT /ai/policy",
  createAiPromptVersion |-> "POST /ai/prompts",
  activateAiPrompt |-> "POST /ai/prompts/:promptId/versions/:version/activate",
  setAiGatewayState |-> "POST /ai/kill-switch", generateAi |-> "POST /ai/generate",
  getAiAuthoring |-> "GET /ai/authoring", updateAiAuthoringPolicy |-> "PUT /ai/authoring/policy",
  createAiAuthoringProposal |-> "POST /ai/authoring/proposals",
  reviewAiAuthoringProposal |-> "POST /ai/authoring/proposals/:proposalId/review",
  semanticAiSearch |-> "POST /ai/semantic/search"]

KnowledgeMethods == [
  exploreKnowledgeGraph |-> "POST /knowledge/graph",
  listKnowledgeRecommendations |-> "POST /knowledge/recommendations",
  getKnowledgeAgent |-> "GET /knowledge/agent",
  updateKnowledgeAgentPolicy |-> "PUT /knowledge/agent/policy",
  createKnowledgeAgentPlan |-> "POST /knowledge/agent/plans",
  reviewKnowledgeAgentPlan |-> "POST /knowledge/agent/plans/:planId/review",
  executeKnowledgeAgentPlan |-> "POST /knowledge/agent/plans/:planId/execute",
  getInteroperabilityDiscovery |-> "GET /interoperability",
  getInteroperabilitySpecification |-> "GET /interoperability/specifications/:kind/:version"]

FederationMethods == [
  getFleet |-> "GET /fleet", upsertFleetMember |-> "PUT /fleet/members/:memberId",
  setFleetMemberState |-> "POST /fleet/members/:memberId/state",
  checkFleetMember |-> "POST /fleet/members/:memberId/check",
  removeFleetMember |-> "DELETE /fleet/members/:memberId",
  getContentFederation |-> "GET /federation",
  upsertFederationOffer |-> "PUT /federation/offers/:offerId",
  inspectFederationAgreement |-> "POST /federation/agreements/:agreementId/inspect",
  setFederationAgreementState |-> "POST /federation/agreements/:agreementId/state",
  planFederationSync |-> "POST /federation/agreements/:agreementId/plans",
  executeFederationSync |-> "POST /federation/plans/:planId/execute",
  getFederatedContent |-> "GET /federation/delivery/:agreementId/:namespace/:sourceEntryId"]

RegionalMethods == [
  getRegionalTopology |-> "GET /regional", updateRegionalPolicy |-> "PUT /regional/policy",
  preflightRegionalFailover |-> "POST /regional/failover/preflight",
  approveRegionalFailover |-> "POST /regional/failover/:planId/approve",
  executeRegionalFailover |-> "POST /regional/failover/:planId/execute",
  reconcileRegionalFailover |-> "POST /regional/failover/:planId/reconcile"]

ContentMethods == [
  getContent |-> "GET /content/:id", getPublishedBySlug |-> "GET /delivery/:contentType/:slug",
  createContent |-> "POST /content", saveDraft |-> "PUT /content/:id/draft",
  getContentQuality |-> "GET /content/:id/quality",
  assessContentQuality |-> "POST /content/:id/quality", publish |-> "POST /content/:id/publish",
  listRevisions |-> "GET /content/:id/revisions",
  getCollaboration |-> "GET /content/:id/collaboration"]

CollaborationMethods == [
  submitCollaborationOperation |-> "POST /content/:id/collaboration/operations",
  createCollaborationBranch |-> "POST /content/:id/collaboration/branches",
  createCollaborationSuggestion |-> "POST /content/:id/collaboration/suggestions",
  reviewCollaborationSuggestion |-> "PATCH /content/:id/collaboration/suggestions/:suggestionId",
  mergeCollaborationBranch |-> "POST /content/:id/collaboration/merges",
  resolveCollaborationConflict |-> "PATCH /content/:id/collaboration/conflicts/:conflictId",
  createCommentThread |-> "POST /content/:id/comments",
  replyToComment |-> "POST /content/:id/comments/:threadId/replies",
  updateCommentThread |-> "PATCH /content/:id/comments/:threadId",
  heartbeatPresence |-> "PUT /content/:id/presence",
  leavePresence |-> "DELETE /content/:id/presence"]

RouteOf ==
  SessionMethods @@ GovernanceMethods @@ MigrationMethods @@ MarketplaceMethods @@
  TargetingMethods @@ ComponentMethods @@ AssetMethods @@ PreviewMethods @@ WorkflowMethods @@
  PluginMethods @@ ReleaseMethods @@ SearchMethods @@ OperationsMethods @@ AiMethods @@
  KnowledgeMethods @@ FederationMethods @@ RegionalMethods @@ ContentMethods @@
  CollaborationMethods
-----------------------------------------------------------------------------
(* Whether a principal may do something in a scope: scoped roles, the      *)
(* plain roles of a development or anonymous principal, and grants.        *)
(* Everything not allowed is denied.  A scope stands for the organization, *)
(* tenant, workspace, site, environment and locale together; an assignment *)
(* names the set of the scopes it covers.  And what the Studio may offer:  *)
(* the operations the server projects for a principal in a scope, and the  *)
(* operations each method of its client needs.  A method that is not       *)
(* listed is refused.                                                      *)

NoType == "no type"

Reads ==
  {"schema.read", "component.read", "asset.read", "content.read", "content.history.read",
   "search.read", "workflow.read", "release.read", "collaboration.read", "marketplace.read",
   "personalization.read", "experiment.read", "ai.read", "regional.read", "federation.read",
   "knowledge.read", "agent.read", "fleet.read"}

Writes ==
  Reads \cup
  {"asset.create", "asset.update", "content.create", "content.draft.update",
   "workflow.transition", "release.manage", "collaboration.write", "presence.write",
   "personalization.preview", "ai.execute", "agent.plan"}

Publishes ==
  Writes \cup
  {"content.publish", "workflow.approve", "workflow.schedule", "release.execute",
   "release.schedule", "release.rollback", "personalization.manage", "experiment.manage",
   "experiment.metrics", "experiment.promote", "ai.manage", "ai.review", "regional.manage",
   "federation.manage", "federation.sync", "agent.manage", "agent.review", "agent.execute",
   "fleet.manage", "fleet.check"}

defaultRoles ==
  [admin |-> {"*"}, viewer |-> Reads, author |-> Writes, publisher |-> Publishes,
   delivery |-> {"delivery.read"}, anonymous |-> {"delivery.read"}]

Includes(actions, action) == "*" \in actions \/ action \in actions

RoleIncludes(role, action) ==
  role \in DOMAIN defaultRoles /\ Includes(defaultRoles[role], action)

\* An assignment for some content types matches no resource without a type.
AssignmentScopeMatches(assignment, scope, type) ==
  /\ scope \in assignment.scopes
  /\ assignment.typed => type \in assignment.types

Decide(principal, scope, action, type) ==
  \/ \E assignment \in principal.assignments :
       /\ RoleIncludes(assignment.role, action)
       /\ AssignmentScopeMatches(assignment, scope, type)
  \/ /\ principal.method \in {"development", "anonymous"}
     /\ \E role \in principal.roles : RoleIncludes(role, action)
  \/ \E grant \in principal.grants :
       /\ Includes(grant.actions, action)
       /\ AssignmentScopeMatches(grant, scope, type)

HasIdentityAdministrationAccess(principal) ==
  \E role \in principal.roles : role \in {"admin", "identity-admin"}

-----------------------------------------------------------------------------
(* What the Studio may offer.                                              *)

\* The resource's type is asked for in two operations only; the others ask about content
\* of no type, or about resources that have none.
Asked(action, type) == [action |-> action, type |-> type]

\* Mutant: an assessment, which writes the draft, is offered to those who may read.
ChecksOfReaders(operation) ==
  IF operation \in {"quality.read", "quality.assess", "preview.manage", "locales.read"}
    THEN Asked("content.read", NoType) ELSE Asked(operation, NoType)
checks(operation) ==
  CASE operation = "pages.list" -> Asked("content.read", "page")
    [] operation = "pages.create" -> Asked("content.create", "page")
    [] operation \in {"quality.read", "preview.manage", "locales.read"} ->
         Asked("content.read", NoType)
    [] operation = "quality.assess" -> Asked("content.draft.update", NoType)
    [] operation = "search.related.read" -> Asked("search.read", NoType)
    [] OTHER -> Asked(operation, NoType)

HomeOperations ==
  {"pages.list", "content.read", "workflow.read", "release.read", "operations.read"}
SettingsOperations == {"locales.read", "schema.read", "asset.read"}

\* studioCapabilities(...).operations[operation]
Projected(principal, scope, operation) ==
  LET Decided(some) == Decide(principal, scope, checks(some).action, checks(some).type)
  IN  CASE operation = "home.read" -> \E some \in HomeOperations : Decided(some)
        [] operation = "settings.read" -> \E some \in SettingsOperations : Decided(some)
        [] operation = "identity.manage" -> HasIdentityAdministrationAccess(principal)
        [] OTHER -> Decided(operation)

\* One operation for every screen that is not shown with another one.
ScreenOperations ==
  {"home.read", "settings.read", "pages.list", "schema.read", "workflow.read", "release.read",
   "search.read", "operations.read", "identity.manage", "governance.read", "migration.read",
   "marketplace.read", "personalization.read", "experiment.read", "ai.read",
   "knowledge.read", "agent.read", "quality.read", "federation.read", "fleet.read",
   "regional.read", "component.read", "asset.read"}

Usable(principal, scope) ==
  \E operation \in ScreenOperations : Projected(principal, scope, operation)

MethodOperations ==
     Asks({"home.read"}, {"getEditorialOverview"})
  @@ Asks({"settings.read"}, {"getConfigurationInventory"})
  @@ Asks({"content.read"}, {"listContent", "queryContent", "getContent"})
  @@ Asks({"content.create"}, {"createContent"})
  @@ Asks({"content.draft.update"}, {"saveDraft", "migrateEntryComponent"})
  @@ Asks({"content.publish"}, {"publish"})
  @@ Asks({"content.history.read"}, {"listRevisions"})
  @@ Asks({"quality.read"}, {"getContentQuality"})
  @@ Asks({"quality.assess"}, {"assessContentQuality"})
  @@ Asks({"preview.manage"}, {"createPreviewSession", "revokePreviewSession"})
  @@ Asks({"schema.read"}, {"getSchemas", "getSchemaLifecycle", "getSchemaDrift"})
  @@ Asks({"schema.plan"}, {"planSchema"})
  @@ Asks({"component.read"}, {"getComponentManifests", "getDesignSystem", "getComponentMigration",
       "getComponentVisualRegression"})
  @@ Asks({"asset.read"}, {"listAssets", "getAsset", "createAssetDelivery", "getAssetUsage"})
  @@ Asks({"asset.create"}, {"getAssetUpload", "startAssetUpload", "uploadAssetPart",
       "completeAssetUpload", "abortAssetUpload"})
  @@ Asks({"asset.update"}, {"updateAsset", "createAssetRendition"})
  @@ Asks({"collaboration.read"}, {"getCollaboration"})
  @@ Asks({"presence.write"}, {"heartbeatPresence", "leavePresence"})
  @@ Asks({"collaboration.write"}, {"createCommentThread", "replyToComment", "updateCommentThread",
       "submitCollaborationOperation", "createCollaborationBranch",
       "createCollaborationSuggestion", "reviewCollaborationSuggestion",
       "mergeCollaborationBranch", "resolveCollaborationConflict"})
  @@ Asks({"workflow.read"}, {"listWorkflows", "getContentWorkflow"})
  @@ Asks({"workflow.manage"}, {"saveWorkflow"})
  @@ Asks({"workflow.transition"}, {"requestWorkflowTransition"})
  @@ Asks({"workflow.approve"}, {"decideWorkflowApproval"})
  @@ Asks({"workflow.schedule"}, {"scheduleWorkflowTransition", "cancelWorkflowSchedule"})
  @@ Asks({"workflow.action.read"}, {"listWorkflowActions"})
  @@ Asks({"workflow.action.run"}, {"drainWorkflowActions"})
  @@ Asks({"workflow.action.replay"}, {"replayWorkflowAction"})
  @@ Asks({"release.read"}, {"listReleases", "previewRelease"})
  @@ Asks({"release.manage"}, {"createRelease", "validateRelease"})
  @@ Asks({"release.schedule"}, {"scheduleRelease", "cancelReleaseSchedule"})
  @@ Asks({"release.execute"}, {"executeRelease"})
  @@ Asks({"release.rollback"}, {"rollbackRelease"})
  @@ Asks({"search.read"}, {"search", "listTaxonomies", "getSearchIndexStatus"})
  @@ Asks({"search.related.read"}, {"listBacklinks", "listRelatedContent"})
  @@ Asks({"search.manage"}, {"rebuildSearchIndex"})
  @@ Asks({"operations.read"}, {"getOperationsDashboard", "getAnalyticsReport"})
  @@ Asks({"operations.run"}, {"drainOperations"})
  @@ Asks({"identity.manage"}, {"getIdentity", "configureIdentityProvider", "updateSessionPolicy",
       "createGroupRoleMapping", "issueDirectoryCredential", "createBreakGlassCredential"})
  @@ Asks({"governance.read"}, {"getGovernance"})
  @@ Asks({"governance.manage"}, {"createDataSubject", "createLegalHold", "createRetentionPlan"})
  @@ Asks({"governance.execute"}, {"approveGovernancePlan"})
  @@ Asks({"migration.read"}, {"getMigrations"})
  @@ Asks({"migration.manage"}, {"saveMigrationRecipe", "createMigrationProject",
       "setMigrationProjectState", "createMigrationPlan"})
  @@ Asks({"migration.execute"}, {"executeMigrationPlan", "validateMigrationCutover"})
  @@ Asks({"marketplace.read"}, {"getMarketplace"})
  @@ Asks({"marketplace.manage"}, {"registerMarketplacePublisher",
       "issueMarketplacePublisherChallenge", "verifyMarketplacePublisherDomain",
       "submitMarketplaceRelease"})
  @@ Asks({"marketplace.review"}, {"approveMarketplacePublisher", "suspendMarketplacePublisher",
       "reviewMarketplaceRelease", "decideMarketplaceRelease"})
  @@ Asks({"marketplace.read", "plugin.manage"}, {"installMarketplaceRelease"})
  @@ Asks({"personalization.read"}, {"getPersonalization"})
  @@ Asks({"personalization.manage"}, {"replacePersonalizationDraft", "publishPersonalization"})
  @@ Asks({"personalization.preview"}, {"previewPersonalization"})
  @@ Asks({"experiment.read"}, {"getExperiments"})
  @@ Asks({"experiment.manage"}, {"saveExperimentDraft", "transitionExperiment"})
  @@ Asks({"experiment.metrics"}, {"recordExperimentMetrics"})
  @@ Asks({"experiment.promote"}, {"promoteExperimentWinner"})
  @@ Asks({"ai.read"}, {"getAiGateway", "getAiAuthoring", "semanticAiSearch"})
  @@ Asks({"ai.manage"}, {"updateAiGatewayPolicy", "updateAiAuthoringPolicy",
       "createAiPromptVersion", "activateAiPrompt", "setAiGatewayState"})
  @@ Asks({"ai.execute"}, {"generateAi"})
  @@ Asks({"ai.execute", "content.read"}, {"createAiAuthoringProposal"})
  @@ Asks({"ai.review", "content.read"}, {"reviewAiAuthoringProposal"})
  @@ Asks({"regional.read"}, {"getRegionalTopology"})
  @@ Asks({"regional.manage"}, {"updateRegionalPolicy"})
  @@ Asks({"regional.failover"}, {"preflightRegionalFailover", "approveRegionalFailover",
       "executeRegionalFailover", "reconcileRegionalFailover"})
  @@ Asks({"federation.read"}, {"getContentFederation"})
  @@ Asks({"federation.manage"}, {"upsertFederationOffer", "inspectFederationAgreement",
       "setFederationAgreementState"})
  @@ Asks({"federation.sync"}, {"planFederationSync", "executeFederationSync"})
  @@ Asks({"knowledge.read"}, {"exploreKnowledgeGraph", "listKnowledgeRecommendations"})
  @@ Asks({"agent.read"}, {"getKnowledgeAgent"})
  @@ Asks({"agent.manage"}, {"updateKnowledgeAgentPolicy"})
  @@ Asks({"agent.plan", "content.read"}, {"createKnowledgeAgentPlan"})
  @@ Asks({"agent.review", "content.read"}, {"reviewKnowledgeAgentPlan"})
  @@ Asks({"agent.execute", "content.draft.update"}, {"executeKnowledgeAgentPlan"})
  @@ Asks({"fleet.read"}, {"getFleet"})
  @@ Asks({"fleet.manage"}, {"upsertFleetMember", "setFleetMemberState", "removeFleetMember"})
  @@ Asks({"fleet.check"}, {"checkFleetMember"})

\* studioClientOperations(): pages have operations of their own.
ClientOperations(method, type) ==
  CASE method \in {"listContent", "queryContent"} /\ type = "page" -> {"pages.list"}
    [] method = "createContent" /\ type = "page" -> {"pages.create"}
    [] OTHER -> MethodOperations[method]

StudioOperations ==
  UNION {MethodOperations[method] : method \in DOMAIN MethodOperations} \cup
  {"pages.list", "pages.create", "locales.read", "schema.deploy", "operations.manage",
   "operations.replay", "portability.export", "portability.import", "audit.read",
   "audit.export", "plugin.read", "plugin.invoke", "federation.consume"}

Capabilities(principal, scope) ==
  {operation \in StudioOperations : Projected(principal, scope, operation)}
=============================================================================
