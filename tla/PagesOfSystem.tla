----------------------------- MODULE PagesOfSystem -----------------------------
(***************************************************************************)
(* The other pages of the dashboard, written as in PagesOfWork: scans,     *)
(* reports, runners, users and their tokens, notifications, search, the    *)
(* home page, the integrations and the settings of the system.  Pages      *)
(* gathers all of them.                                                    *)
(***************************************************************************)
EXTENDS PagesOfWork

(* Scans and schedules.                                                    *)

ScanRunsList == Reads({useScanRunsQuery("limit")})

\* ensureUrlAsset comes first when the target is a URL; a failure of either
\* request ends in the same catch.
ScanTargetForm ==
    LET reported(h) == Failing(Busy(Finally(h, Free)), Say("error")) IN
    Part({useProjectsQuery("active")},
         {reported(Handler("ScanTargetForm.ensureUrlAsset", requestAssetEnsure, "any", {})),
          reported(Handler("ScanTargetForm.onAnalyze", requestScanRunPost, "ok",
                           Refresh(<<"scans">>) \cup GoTo("ScanRunDetailsPage")))},
         {})

ScheduledRuns ==
    Part({useSchedulesQuery},
         {Asks(Handler("ScheduledRuns.deleteScheduledCommand",
                       requestCommandScheduleDelete, "any",
                       Refetch(useSchedulesQuery) \cup Say("success")))},
         {})

\* Import mode uploads with the dropzone of the attachments, which refreshes
\* their queries only.
ScanFileDropzone ==
    LET upload == CHOOSE h \in AttachmentsDropzone.does : TRUE IN
    Part({}, {[upload EXCEPT !.name = "ScansPage.AttachmentsDropzone",
                             !.request = requestCommandOutputPost]}, {})

ScansPage ==
    Part({useProjectsQuery("active")}, {},
         {ScanTargetForm, ScanRunsList, ScheduledRuns, ScanFileDropzone})

ScanRunDetailsPage == Reads({useScanRunQuery})

-------------------------------------------------------------------------------
(* Reports and their templates.                                            *)

ReportsTable(updateReports) ==
    Part({}, {Asks(Mutate("ReportsTable.onDeleteClick", useDeleteReportMutation,
                          updateReports \cup Refresh(<<"reports">>)))}, {})

ReportsListPage == Part({useReportsQuery("all")}, {}, {ReportsTable({})})

ReportVersionModalDialog(onSubmit) ==
    Part({useReportsTemplatesQuery("all")},
         {Failing(Handler("ReportVersionModalDialog.onFormSubmit", requestReportPost,
                          "ok", onSubmit \cup Say("success")),
                  Say("error"))},
         {})

ReportRevisions ==
    LET refetchReports == Refetch(useReportsQuery("project")) IN
    Part({useReportsQuery("project")}, {},
         {ReportVersionModalDialog(refetchReports), ReportsTable(refetchReports)})

\* It goes to a page that does not exist.
ReportSendPage ==
    Part({useProjectQuery, useReportsQuery("project")},
         {Failing(Handler("ReportSendPage.handleSend", requestReportSend, "ok",
                          Say("success") \cup GoTo("PageNotFound")),
                  Say("error"))},
         {})

ReportModalDialog(onSubmit) ==
    Part({},
         {Catch(Handler("ReportModalDialog.onCreateReportFormSubmit",
                        requestReportTemplatePost, "any", onSubmit \cup Say("success")),
                Say("error"))},
         {})

ReportTemplatesListPage ==
    LET deleteTemplate ==
            [useDeleteReportMutation EXCEPT !.request = requestReportTemplateDelete]
    IN  Part({useReportsTemplatesQuery("undefined")},
             {Asks(Mutate("ReportTemplatesListPage.deleteTemplate", deleteTemplate, {}))},
             {ReportModalDialog(Refetch(useReportsTemplatesQuery("undefined")))})

-------------------------------------------------------------------------------
(* Runners.                                                                *)

\* The credentials must parse before anything else happens.
RunnerModalDialog ==
    Part({},
         {Else(Handler("RunnerModalDialog.onSubmit", requestRunnerPost, "created",
                       Refresh(<<"runners">>) \cup Say("success")),
               Say("error"))},
         {})

RunnersListPage ==
    Part({useRunnersQuery},
         {Else(Asks(Handler("RunnersListPage.onClick", requestRunnerDelete, "ok",
                            Refetch(useRunnersQuery) \cup Say("success"))),
               Say("error"))},
         {RunnerModalDialog})

RunnerDetailsPage ==
    Part({useRunnerQuery},
         {Else(Asks(Handler("RunnerDetailsPage.handleDelete", requestRunnerDelete, "ok",
                            Say("success") \cup GoTo("RunnersListPage"))),
               Say("error"))},
         {})

-------------------------------------------------------------------------------
(* Users, and their API tokens.                                            *)

UserCreatePage ==
    Part({},
         {Failing(Handler("UserCreatePage.handleCreate", createUserApi, "ok",
                          GoTo("UsersListPage") \cup Say("success")
                          \cup Refresh(<<"users">>)),
                  Say("error"))},
         {})

\* Mutant of UserEditPage: what follows the answer no longer needs the page.
UserEditPageAwaiting ==
    Part({useUserQuery},
         {Failing(Await("UserEditPage.handleSubmit", useUserUpdateMutation,
                        GoTo("UserProfilePage") \cup Say("success")),
                  Say("error"))},
         {})

UserEditPage ==
    Part({useUserQuery},
         {Failing(Mutate("UserEditPage.handleSubmit", useUserUpdateMutation,
                         GoTo("UserProfilePage") \cup Say("success")),
                  Say("error"))},
         {})

UserProfilePage ==
    Part({useUserQuery, useUserActivity},
         {Asks(Await("UserProfilePage.onDeleteButtonClick", useUserDeleteMutation,
                     GoTo("UsersListPage"))),
          Else(Handler("UserProfilePage.enableMfa", enableMfaApi, "ok", Say("success")),
               Say("error")),
          Handler("UserProfilePage.onResetPasswordClick", resetPassword, "any",
                  Say("success"))},
         {})

\* onDeleteClick also invalidates before its request has been answered, which
\* refreshes nothing yet.
UsersListPage ==
    Part({useUsersQuery},
         {Asks(Handler("UsersListPage.handleBulkDelete", deleteUsers, "any",
                       Say("success"))),
          Asks(Await("UsersListPage.onDeleteClick", useUserDeleteMutation, {}))},
         {})

ApiTokenModalDialog ==
    Part({}, {Busy(Finally(Mutate("ApiTokenModalDialog.onSubmit",
                                  useUserApiTokenCreateMutation, {}), Free))}, {})

ApiTokensPage ==
    Part({useUserApiTokensQuery},
         {Asks(Mutate("ApiTokensPage.onClick", useUserApiTokenDeleteMutation, {}))},
         {ApiTokenModalDialog})

-------------------------------------------------------------------------------
(* Notifications.                                                          *)

NotificationsBadge ==
    Part({useNotificationsQuery("unread")},
         {Mutate("NotificationsBadge.markAsRead", useMarkNotificationMutation, {})}, {})

NotificationsListPage ==
    Part({useNotificationsQuery("all")},
         {Mutate("NotificationsListPage.markSelectedAsRead",
                 useBulkUpdateNotificationsMutation, Say("success")),
          Mutate("NotificationsListPage.markSelectedAsUnread",
                 useBulkUpdateNotificationsMutation, Say("success")),
          Asks(Mutate("NotificationsListPage.deleteSelected",
                      useBulkDeleteNotificationsMutation, Say("success"))),
          Mutate("NotificationsListPage.markNotificationAsRead",
                 useMarkNotificationMutation, {}),
          Asks(Mutate("NotificationsListPage.onClick", useDeleteNotificationMutation, {}))},
         {})

-------------------------------------------------------------------------------
(* Search: its results are fetched once for the keywords.                  *)

FindingsSearchResults ==
    Part({OwnFetch("FindingsSearchResults.reloadData", "findings")}, {},
         {FindingsTable({})})

FindingTemplatesSearchResults ==
    Part({OwnFetch("FindingTemplatesSearchResults.reloadData", "findings")}, {},
         {FindingsTable({})})

TasksSearchResults ==
    Part({OwnFetch("TasksSearchResults.reloadData", "tasks")}, {}, {TasksTable({})})

ProjectsSearchResults ==
    Part({OwnFetch("ProjectsSearchResults.reloadData", "projects")}, {}, {ProjectsTable})

ProjectTemplatesSearchResults ==
    Part({OwnFetch("ProjectTemplatesSearchResults.reloadData", "projects")}, {},
         {ProjectsTable})

SearchResultsPage ==
    Part({}, {}, {TasksSearchResults, FindingsSearchResults,
                  FindingTemplatesSearchResults, ProjectsSearchResults,
                  ProjectTemplatesSearchResults})

AdvancedSearchPage == Reads({useRecentSearchesQuery})

-------------------------------------------------------------------------------
(* The home page and its widgets.                                          *)

ActiveProjectsWidget == Reads({useProjectsQuery("active 5")})
DiscussionsWidget == Reads({useDiscussionsQuery})
FindingsByCategoryStatsWidget == Reads({useFindingsStatsQuery("category")})
FindingsByRiskStatsWidget == Reads({useFindingsStatsQuery("risk")})
MyTasksWidget == Reads({useTasksQuery("assigned to me")})
RecentActivityWidget == Reads({useAuditLogQuery("limit")})
RecentFindingsWidget == Reads({useFindingsQuery("recent")})
ReleasesWidget == Reads({useReleasesQuery})
RunnersWidget == Reads({useRunnersQuery})
SystemHealthWidget == Reads({useSystemHealthQuery})
SystemUsageWidget == Reads({useSystemUsageQuery})
TopAssetsByFindingsWidget == Reads({useFindingsQuery("limit 100")})
UserActivityStatsWidget == Reads({useAuditLogStatsQuery})

Widgets ==
    {ActiveProjectsWidget, DiscussionsWidget, FindingsByCategoryStatsWidget,
     FindingsByRiskStatsWidget, MyTasksWidget, RecentActivityWidget,
     RecentFindingsWidget, ReleasesWidget, RunnersWidget, SystemHealthWidget,
     SystemUsageWidget, TopAssetsByFindingsWidget, UserActivityStatsWidget}

\* The patch is built from the user who logged in; no query is refreshed.
DashboardPage ==
    Part({},
         {Handler("DashboardPage.onSave", requestUserPatch, "any", Say("success"))},
         Widgets)

-------------------------------------------------------------------------------
(* Integrations.                                                           *)

JiraIntegrationCreatePage ==
    Part({}, {Mutate("JiraIntegrationCreatePage.onFormSubmit",
                     useCreateJiraIntegrationMutation, GoTo("IntegrationsListPage"))}, {})

JiraIntegrationEditPage ==
    Part({useJiraIntegrationQuery},
         {Mutate("JiraIntegrationEditPage.onFormSubmit",
                 useUpdateJiraIntegrationMutation, GoTo("IntegrationsListPage"))}, {})

AzureDevopsIntegrationCreatePage ==
    Part({}, {Mutate("AzureDevopsIntegrationCreatePage.onFormSubmit",
                     useCreateAzureDevopsIntegrationMutation,
                     GoTo("IntegrationsListPage"))}, {})

AzureDevopsIntegrationEditPage ==
    Part({useAzureDevopsIntegrationQuery},
         {Mutate("AzureDevopsIntegrationEditPage.onFormSubmit",
                 useUpdateAzureDevopsIntegrationMutation,
                 GoTo("IntegrationsListPage"))}, {})

IntegrationsListPage ==
    Part({useJiraIntegrationsQuery, useAzureDevopsIntegrationsQuery},
         {Asks(Mutate("IntegrationsListPage.onDeleteJira",
                      useDeleteJiraIntegrationMutation, {})),
          Asks(Mutate("IntegrationsListPage.onDeleteAzureDevops",
                      useDeleteAzureDevopsIntegrationMutation, {}))},
         {})

WebhookCreatePage ==
    Part({}, {Handler("WebhookCreatePage.onFormSubmit", requestWebhookPost, "any",
                      Say("success") \cup GoTo("WebhooksListPage"))}, {})

WebhookEditPage ==
    Part({useWebhookQuery},
         {Handler("WebhookEditPage.onFormSubmit", requestWebhookPut, "any",
                  Say("success") \cup GoTo("WebhooksListPage"))}, {})

WebhooksListPage ==
    Part({useWebhooksQuery},
         {Asks(Mutate("WebhooksListPage.onDeleteClick", useDeleteWebhookMutation, {}))},
         {})

-------------------------------------------------------------------------------
(* The system.                                                             *)

CustomFieldModalDialog ==
    Part({}, {Mutate("CustomFieldModalDialog.onSubmit",
                     useSystemCustomFieldPostMutation, {})}, {})

CustomFieldsPage ==
    Part({useSystemCustomFieldsQuery},
         {Asks(Mutate("CustomFieldsPage.onDeleteCustomFieldClick",
                      useSystemCustomFieldDeletionMutation, {}))},
         {CustomFieldModalDialog})

SystemAiSettingsPage ==
    Part({useSystemAiSettingsQuery},
         {Failing(Await("SystemAiSettingsPage.handleSubmit",
                        useSystemAiSettingsUpdateMutation, Say("success")),
                  Say("error"))},
         {})

SystemMailSettingsPage ==
    Part({useSystemMailSettingsQuery},
         {Failing(Await("SystemMailSettingsPage.handleSubmit",
                        useSystemMailSettingsUpdateMutation, Say("success")),
                  Say("error"))},
         {})

\* Mutant of ImportForm: only an import that succeeds frees the button.
ImportFormStuck ==
    Part({},
         {Aborts(Busy(Handler("ImportForm.handleUploadClick", requestSystemDataImport,
                              "json", Refresh(<<>>) \cup Free)))},
         {})

\* invalidateQueries without a key: every query.
ImportForm ==
    Part({},
         {Aborts(Busy(Finally(Handler("ImportForm.handleUploadClick",
                                      requestSystemDataImport, "json", Refresh(<<>>)),
                              Free)))},
         {})

ExportForm == Reads({useExportablesQuery})
SystemHealthPage == Reads({useSystemHealthQuery})
SystemIntegrationsPage == Reads({useSystemIntegrationsQuery})
SystemUsagePage == Reads({useSystemUsageQuery})
AuditLogListPage == Reads({useAuditLogQuery("page")})

-------------------------------------------------------------------------------
\* The routes: every page by name.  The badge is on all of them (DashboardLayout).
PageOf ==
    [FindingsListPage |-> FindingsListPage,
     FindingCreatePage |-> FindingCreatePage,
     FindingEditPage |-> FindingEditPage,
     FindingDetailsPage |-> FindingDetailsPage,
     FindingCategoriesPage |-> FindingCategoriesPage,
     TasksListPage |-> TasksListPage,
     TaskCreatePage |-> TaskCreatePage,
     TaskEditPage |-> TaskEditPage,
     TaskDetailsPage |-> TaskDetailsPage,
     ProjectsListPage |-> ProjectsListPage,
     ProjectCreatePage |-> ProjectCreatePage,
     ProjectEditPage |-> ProjectEditPage,
     ProjectDetailsPage |-> ProjectDetailsPage(ReportRevisions),
     ProjectMembershipPage |-> ProjectMembershipPage,
     AssetDetailsPage |-> AssetDetailsPage,
     VaultItemEditPage |-> VaultItemEditPage,
     ClientsListPage |-> ClientsListPage,
     ClientCreatePage |-> ClientCreatePage,
     ClientEditPage |-> ClientEditPage,
     ClientDetailsPage |-> ClientDetailsPage,
     ScansPage |-> ScansPage,
     ScanRunDetailsPage |-> ScanRunDetailsPage,
     ReportsListPage |-> ReportsListPage,
     ReportSendPage |-> ReportSendPage,
     ReportTemplatesListPage |-> ReportTemplatesListPage,
     RunnersListPage |-> RunnersListPage,
     RunnerDetailsPage |-> RunnerDetailsPage,
     UsersListPage |-> UsersListPage,
     UserCreatePage |-> UserCreatePage,
     UserEditPage |-> UserEditPage,
     UserProfilePage |-> UserProfilePage,
     ApiTokensPage |-> ApiTokensPage,
     NotificationsListPage |-> NotificationsListPage,
     SearchResultsPage |-> SearchResultsPage,
     AdvancedSearchPage |-> AdvancedSearchPage,
     DashboardPage |-> DashboardPage,
     JiraIntegrationCreatePage |-> JiraIntegrationCreatePage,
     JiraIntegrationEditPage |-> JiraIntegrationEditPage,
     AzureDevopsIntegrationCreatePage |-> AzureDevopsIntegrationCreatePage,
     AzureDevopsIntegrationEditPage |-> AzureDevopsIntegrationEditPage,
     IntegrationsListPage |-> IntegrationsListPage,
     WebhookCreatePage |-> WebhookCreatePage,
     WebhookEditPage |-> WebhookEditPage,
     WebhooksListPage |-> WebhooksListPage,
     CustomFieldsPage |-> CustomFieldsPage,
     SystemAiSettingsPage |-> SystemAiSettingsPage,
     SystemMailSettingsPage |-> SystemMailSettingsPage,
     SystemImportPage |-> ImportForm,
     SystemExportPage |-> ExportForm,
     SystemHealthPage |-> SystemHealthPage,
     SystemIntegrationsPage |-> SystemIntegrationsPage,
     SystemUsagePage |-> SystemUsagePage,
     AuditLogListPage |-> AuditLogListPage,
     PageNotFound |-> Reads({})]

DashboardLayout == Part({}, {}, {NotificationsBadge})
===============================================================================
