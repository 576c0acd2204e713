------------------------------- MODULE ApiClient -------------------------------
(***************************************************************************)
(* What the dashboard reads from the API and writes to it (dashboard       *)
(* src/api): the queries its pages subscribe to, with their keys in the    *)
(* query cache and the records they show, the requests that change those   *)
(* records, and the mutation hooks that tie a request to the keys it       *)
(* invalidates.                                                            *)
(***************************************************************************)
EXTENDS Naturals, Sequences, SequencesExt

\* A query of the cache: where it is kept, and the records it shows.  An id in
\* a key is abstracted to "id", a set of parameters to a name.
Query(key, of) == [key |-> key, of |-> of, cached |-> TRUE]

\* What a component fetches by itself, in an effect, and keeps in its state.
OwnFetch(name, of) == [key |-> <<name>>, of |-> of, cached |-> FALSE]

\* A request that changes records.  answers, when it succeeds: "created" for 201
\* with JSON, "created empty" for 201 without, "body" for any other status with
\* JSON, "empty" for one without, and "none" when no route of the API matches.
Request(of, answers) == [of |-> of, answers |-> answers]

\* A mutation hook.  needs is what makes the promise succeed: "any" answer, an
\* "ok" one, one whose body parses ("json"), or one of status 201 ("created").
\* The keys in settled are invalidated however it ends, those in succeeded when
\* it succeeds.
Mutation(request, needs, settled) ==
    [request |-> request, needs |-> needs, settled |-> settled, succeeded |-> {}]

-------------------------------------------------------------------------------
(* Findings.                                                               *)

requestFindingPost == Request("findings", "body")
\* FindingsController has no PATCH, and no POST {id}/clone.
requestFindingPatch == Request("findings", "none")
requestFindingClone == Request("findings", "none")
requestFindingPut == Request("findings", "body")
requestFindingDelete == Request("findings", "empty")
\* The ids of several findings, joined by commas, match no {id:guid}.
requestFindingDeleteMany == Request("findings", "none")
requestFindingTriage == Request("findings", "body")
requestFindingCategoryDelete == Request("finding categories", "empty")
requestFindingCategoryPost == Request("finding categories", "body")
\* FindingsCategoriesController has no PUT.
requestFindingCategoryPut == Request("finding categories", "none")

useFindingsQuery(params) == Query(<<"findings", params>>, "findings")
useFindingCategoriesQuery(params) ==
    Query(<<"findings", "categories", params>>, "finding categories")
useFindingsStatsQuery(params) == Query(<<"findings", "stats", params>>, "findings")
useFindingQuery == Query(<<"findings", "id">>, "findings")

useDeleteFindingMutation ==
    Mutation(requestFindingDelete, "any", {<<"findings">>})
useDeleteFindingCategoryMutation ==
    Mutation(requestFindingCategoryDelete, "json", {<<"findings">>})
useFindingTriageMutation == Mutation(requestFindingTriage, "json", {})

(* Tasks.                                                                  *)

requestTaskPost == Request("tasks", "body")
requestTaskPatch == Request("tasks", "body")
requestTaskDelete == Request("tasks", "empty")
requestTasksPatch == Request("tasks", "empty")
requestTasksDelete == Request("tasks", "empty")
requestTaskClone == Request("tasks", "none")

useTasksQuery(params) == Query(<<"tasks", params>>, "tasks")
useTaskQuery == Query(<<"tasks", "id">>, "tasks")
useDeleteTaskMutation == Mutation(requestTaskDelete, "any", {<<"tasks">>})

(* Projects, their members and their secrets.                              *)

requestProjectPost == Request("projects", "created")
requestProjectPut == Request("projects", "body")
requestProjectPatch == Request("projects", "empty")
requestProjectDelete == Request("projects", "empty")
requestProjectClone == Request("projects", "none")
requestProjectMemberPost == Request("members", "empty")
requestProjectUserDelete == Request("members", "empty")
requestSecretPost == Request("secrets", "created")
requestSecretPut == Request("secrets", "empty")
requestSecretDelete == Request("secrets", "empty")

useProjectQuery == Query(<<"projects", "id">>, "projects")
useProjectsQuery(params) == Query(<<"projects", params>>, "projects")
useProjectUsersQuery == Query(<<"projects", "id", "users">>, "members")
useProjectVaultQuery == Query(<<"projects", "id", "vault">>, "secrets")
useProjectCategoriesQuery ==
    Query(<<"projects", "categories">>, "project categories")
useDeleteProjectMutation ==
    Mutation(requestProjectDelete, "any", {<<"projects">>})
useProjectQueriesInvalidation == <<"projects">>
useInvalidateVaultQueries == <<"vault">>

(* Assets, attachments and comments.                                       *)

requestAssetPost == Request("assets", "body")
requestAssetEnsure == Request("assets", "body")
requestAssetDelete == Request("assets", "empty")
requestAttachmentPost == Request("attachments", "empty")
requestAttachmentDelete == Request("attachments", "empty")
requestCommentPost == Request("comments", "body")
requestCommentDelete == Request("comments", "empty")

useAssetQuery == Query(<<"assets", "id">>, "assets")
useAssetsQuery(params) == Query(<<"assets", params>>, "assets")
useDeleteAssetMutation == Mutation(requestAssetDelete, "json", {<<"assets">>})
useAttachmentsQuery(params) == Query(<<"attachments", params>>, "attachments")
useAttachmentDeleteMutation ==
    Mutation(requestAttachmentDelete, "json", {<<"attachments">>})
useCommentsQuery(params) == Query(<<"comments", params>>, "comments")
useCreateCommentMutation ==
    [Mutation(requestCommentPost, "ok", {}) EXCEPT !.succeeded = {<<"comments">>}]
useDeleteCommentMutation ==
    [Mutation(requestCommentDelete, "ok", {}) EXCEPT !.succeeded = {<<"comments">>}]

(* Clients.                                                                *)

requestOrganisationPost == Request("clients", "created")
requestOrganisationPut == Request("clients", "body")
requestOrganisationDelete == Request("clients", "empty")
requestOrganisationContactPost == Request("contacts", "created empty")
requestContactDelete == Request("contacts", "empty")

useOrganisationsQuery(params) == Query(<<"organisations", params>>, "clients")
useOrganisationQuery == Query(<<"organisations", "id">>, "clients")
useOrganisationContactsQuery ==
    Query(<<"organisations", "id", "contacts">>, "contacts")
useDeleteOrganisationMutation ==
    Mutation(requestOrganisationDelete, "any", {<<"organisations">>})
useOrganisationsQueriesInvalidation == <<"organisations">>

(* Runners, scans, schedules and reports.                                  *)

requestRunnerPost == Request("runners", "created")
requestRunnerDelete == Request("runners", "empty")
requestScanRunPost == Request("scans", "body")
requestCommandScheduleDelete == Request("schedules", "empty")
requestCommandOutputPost == Request("findings", "body")
requestReportPost == Request("reports", "body")
requestReportDelete == Request("reports", "empty")
requestReportTemplateDelete == Request("report templates", "empty")
requestReportTemplatePost == Request("report templates", "body")
requestFindingRemediation == Request("jobs", "empty")
requestReportSend == Request("deliveries", "body")

useRunnersQuery == Query(<<"runners">>, "runners")
useRunnerQuery == Query(<<"runners", "id">>, "runners")
useScanRunsQuery(params) == Query(<<"scans", params>>, "scans")
useScanRunQuery == Query(<<"scans", "id">>, "scans")
useSchedulesQuery == Query(<<"commands", "schedules">>, "schedules")
useReportsQuery(params) == Query(<<"reports", params>>, "reports")
useReportsTemplatesQuery(params) ==
    Query(<<"reports", "templates", params>>, "report templates")
useDeleteReportMutation == Mutation(requestReportDelete, "any", {<<"reports">>})

(* Users, their tokens and their notifications.                            *)

createUserApi == Request("users", "body")
updateUser == Request("users", "empty")
requestUserPatch == Request("users", "empty")
deleteUser == Request("users", "empty")
\* UsersController has no PATCH without an id.
deleteUsers == Request("users", "none")
enableMfaApi == Request("users", "empty")
resetPassword == Request("passwords", "empty")
requestUserApiTokenPost == Request("api tokens", "body")
requestUserApiTokenDeletion == Request("api tokens", "empty")
requestPartialNotificationUpdate == Request("notifications", "empty")
requestNotificationDelete == Request("notifications", "empty")
requestNotificationsPatch == Request("notifications", "empty")
requestNotificationsDelete == Request("notifications", "empty")

useUserQuery == Query(<<"users", "id">>, "users")
useUsersQuery == Query(<<"users">>, "users")
useUserActivity == Query(<<"user", "id", "activity">>, "audit log")
useUserUpdateMutation ==
    [Mutation(updateUser, "ok", {}) EXCEPT
        !.succeeded = {<<"users", "id">>, <<"users">>}]
useUserDeleteMutation == Mutation(deleteUser, "json", {<<"users">>})
useUserApiTokensQuery == Query(<<"user-api-tokens">>, "api tokens")
useUserApiTokenCreateMutation ==
    Mutation(requestUserApiTokenPost, "json", {<<"user-api-tokens">>})
useUserApiTokenDeleteMutation ==
    Mutation(requestUserApiTokenDeletion, "any", {<<"user-api-tokens">>})

notificationsKey == <<"system-notifications">>
useNotificationsQuery(params) ==
    Query(Append(notificationsKey, params), "notifications")
useNotificationsMutation(request) == Mutation(request, "any", {notificationsKey})
useDeleteNotificationMutation ==
    Mutation(requestNotificationDelete, "json", {notificationsKey})
useMarkNotificationMutation ==
    useNotificationsMutation(requestPartialNotificationUpdate)
useBulkUpdateNotificationsMutation ==
    useNotificationsMutation(requestNotificationsPatch)
useBulkDeleteNotificationsMutation ==
    useNotificationsMutation(requestNotificationsDelete)

(* Integrations.                                                           *)

requestJiraIntegrationCreate == Request("jira", "body")
requestJiraIntegrationUpdate == Request("jira", "body")
requestJiraIntegrationDelete == Request("jira", "empty")
requestAzureDevopsIntegrationCreate == Request("azure", "body")
requestAzureDevopsIntegrationUpdate == Request("azure", "body")
requestAzureDevopsIntegrationDelete == Request("azure", "empty")
requestWebhookPost == Request("webhooks", "body")
requestWebhookPut == Request("webhooks", "body")
requestWebhookDelete == Request("webhooks", "empty")

useJiraIntegrationQuery == Query(<<"jira-integrations", "id">>, "jira")
useJiraIntegrationsQuery == Query(<<"jira-integrations">>, "jira")
useCreateJiraIntegrationMutation ==
    Mutation(requestJiraIntegrationCreate, "any", {<<"jira-integrations">>})
useUpdateJiraIntegrationMutation ==
    Mutation(requestJiraIntegrationUpdate, "any", {<<"jira-integrations">>})
useDeleteJiraIntegrationMutation ==
    Mutation(requestJiraIntegrationDelete, "any", {<<"jira-integrations">>})
useAzureDevopsIntegrationQuery ==
    Query(<<"azure-devops-integrations", "id">>, "azure")
useAzureDevopsIntegrationsQuery == Query(<<"azure-devops-integrations">>, "azure")
useCreateAzureDevopsIntegrationMutation ==
    Mutation(requestAzureDevopsIntegrationCreate, "any",
             {<<"azure-devops-integrations">>})
useUpdateAzureDevopsIntegrationMutation ==
    Mutation(requestAzureDevopsIntegrationUpdate, "any",
             {<<"azure-devops-integrations">>})
useDeleteAzureDevopsIntegrationMutation ==
    Mutation(requestAzureDevopsIntegrationDelete, "any",
             {<<"azure-devops-integrations">>})
useWebhookQuery == Query(<<"webhooks", "id">>, "webhooks")
useWebhooksQuery == Query(<<"webhooks">>, "webhooks")
useDeleteWebhookMutation == Mutation(requestWebhookDelete, "any", {<<"webhooks">>})

(* The system.                                                             *)

requestCustomFieldPost == Request("custom fields", "body")
requestCustomFieldDeletion == Request("custom fields", "empty")
requestSystemMailSettingsPut == Request("mail settings", "body")
requestSystemAiSettingsPut == Request("ai settings", "body")
requestSystemDataImport == Request("everything", "body")

useSystemCustomFieldsQuery == Query(<<"system-custom-fields">>, "custom fields")
useSystemMailSettingsQuery == Query(<<"system-mail-settings">>, "mail settings")
useSystemAiSettingsQuery == Query(<<"system-ai-settings">>, "ai settings")
useSystemIntegrationsQuery == Query(<<"system-integrations">>, "integrations")
useExportablesQuery == Query(<<"system-exportables">>, "exportables")
useSystemHealthQuery == Query(<<"system-health">>, "health")
useSystemUsageQuery == Query(<<"system-usage", "days">>, "usage")
useUploadLimitsQuery == Query(<<"system-upload-limits">>, "upload limits")
useReleasesQuery == Query(<<"releases">>, "releases")
useDiscussionsQuery == Query(<<"discussions">>, "discussions")
useRecentSearchesQuery == Query(<<"system-recent-searches">>, "searches")
useAuditLogQuery(params) == Query(<<"audit-log", params>>, "audit log")
useAuditLogStatsQuery == Query(<<"audit-log", "stats">>, "audit log")

useSystemCustomFieldPostMutation ==
    Mutation(requestCustomFieldPost, "json", {<<"system-custom-fields">>})
useSystemCustomFieldDeletionMutation ==
    Mutation(requestCustomFieldDeletion, "json", {<<"system-custom-fields">>})
useSystemMailSettingsUpdateMutation ==
    Mutation(requestSystemMailSettingsPut, "ok", {<<"system-mail-settings">>})
useSystemAiSettingsUpdateMutation ==
    Mutation(requestSystemAiSettingsPut, "ok", {<<"system-ai-settings">>})
===============================================================================
