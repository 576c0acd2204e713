------------------------------- MODULE Dashboard -------------------------------
(***************************************************************************)
(* The pages of the dashboard in a browser tab.  Browser lets a user meet  *)
(* every handler and every query of the catalogue; what follows holds for  *)
(* all of them but the handlers that the sets below name.                  *)
(***************************************************************************)
EXTENDS Browser, PagesOfSystem

\* A key of the cache reaches the queries it is a prefix of.
KeyReaches(key, query) == IsPrefix(key, query.key)

-------------------------------------------------------------------------------
\* Handlers that refresh nothing, or not all the queries of their records.
Forgetful ==
    {"FindingCreatePage.onFormSubmit", "FindingTriagePanel.runTriage",
     "FindingCategoryAddModalDialog.onCreateCategoryFormSubmit",
     "ScansPage.AttachmentsDropzone", "ScanTargetForm.ensureUrlAsset",
     "TaskCreatePage.onFormSubmit", "TaskEditPage.onFormSubmit",
     "TasksListPage.onStatusSelectChange",
     "ProjectEditPage.onFormSubmit", "AssetModalDialog.onAddAssetFormSubmit",
     "VaultSecretForm.onFormSubmit", "VaultTable.onVaultItemDelete",
     "VaultItemEditPage.onFormSubmit", "ReportModalDialog.onCreateReportFormSubmit",
     "ReportVersionModalDialog.onFormSubmit", "RunnersListPage.onClick",
     "RunnerDetailsPage.handleDelete",
     "WebhookCreatePage.onFormSubmit", "WebhookEditPage.onFormSubmit",
     "DashboardPage.onSave", "UserProfilePage.enableMfa"}

\* Search results are fetched once for the keywords.
SearchResults ==
    UNION {p.shows : p \in {FindingsSearchResults, FindingTemplatesSearchResults,
                            TasksSearchResults, ProjectsSearchResults,
                            ProjectTemplatesSearchResults}}

\* Handlers that report success without looking at the answer.
TellsBlindly ==
    {"FindingsListPage.onDeleteButtonClick", "FindingsTable.deleteFinding",
     "FindingCreatePage.onFormSubmit", "FindingEditPage.onFormSubmit",
     "FindingDetailsPage.onDeleteClick", "FindingDetailsPage.onStatusChange",
     "FindingTriagePanel.runTriage", "FindingRemediationPanel.generateRemediation",
     "FindingCategoryAddModalDialog.onCreateCategoryFormSubmit",
     "FindingCategoryEditModalDialog.onCreateCategoryFormSubmit",
     "TasksListPage.onStatusSelectChange", "TasksListPage.onDeleteButtonClick",
     "TaskEditPage.onFormSubmit", "TaskDetailsPage.onAssigneeChange",
     "TaskDetailsPage.onStatusChange", "TaskDetailsPage.onDeleteClick",
     "ProjectEditPage.onFormSubmit", "ProjectDetailsPage.onArchiveButtonClick",
     "ProjectDetailsPage.onDeleteClick", "AssetModalDialog.onAddAssetFormSubmit",
     "VaultTable.onVaultItemDelete", "ClientEditPage.onFormSubmit",
     "ScheduledRuns.deleteScheduledCommand",
     "ReportModalDialog.onCreateReportFormSubmit",
     "UsersListPage.handleBulkDelete", "UserProfilePage.onResetPasswordClick",
     "NotificationsListPage.deleteSelected",
     "NotificationsListPage.markSelectedAsRead",
     "NotificationsListPage.markSelectedAsUnread",
     "WebhookCreatePage.onFormSubmit", "WebhookEditPage.onFormSubmit",
     "DashboardPage.onSave"}

\* Handlers that navigate after an await, wherever the user is by then.
Abducts ==
    {"FindingsTable.cloneFinding", "FindingDetailsPage.cloneFinding",
     "FindingCreatePage.onFormSubmit", "FindingEditPage.onFormSubmit",
     "TaskCreatePage.onFormSubmit", "TaskEditPage.onFormSubmit",
     "TaskDetailsPage.cloneTask", "ProjectCreatePage.handleCreate",
     "ProjectEditPage.onFormSubmit", "ProjectsTable.cloneProject",
     "ProjectDetailsPage.cloneProject", "AssetDetailsPage.handleDelete",
     "ClientCreatePage.onFormSubmit", "ClientEditPage.onFormSubmit",
     "ClientDetailsPage.handleDelete", "ScanTargetForm.onAnalyze",
     "ReportSendPage.handleSend", "RunnerDetailsPage.handleDelete",
     "UserCreatePage.handleCreate", "UserProfilePage.onDeleteButtonClick",
     "WebhookCreatePage.onFormSubmit", "WebhookEditPage.onFormSubmit"}

-------------------------------------------------------------------------------
\* After a write is answered, no page goes on showing what was there before: not
\* the one the user is on, nor one he opens later from the cache.  A component's
\* own fetch counts while op's page is open; opened anew, it is made anew.
OwnWritesShown ==
    /\ stage = "done" /\ outcome = "ok" /\ row = "new" /\ ~missed
    /\ Concerns(op, probe)
    /\ op.name \notin Forgetful
    /\ probe \notin SearchResults
    /\ probe.cached \/ ~left
    => ~ShowsOld

\* A message tells what happened at the API.  An error may also mean that nobody
\* knows; the vault's form reports one after every change it has made.
SaysTruly ==
    /\ "success" \in told => row = "new" \/ op.name \in TellsBlindly
    /\ "error" \in told /\ outcome # "lost" =>
           row = "old" \/ op.name = "VaultItemEditPage.onFormSubmit"

\* An answer moves the user on only from the page whose handler he used.
StaysPut ==
    [][outcome = "none" /\ outcome' \in {"ok", "refused", "lost"} /\ left
         => place' = place \/ op.name \in Abducts]_browserVars
===============================================================================
