------------------------------ MODULE PagesOfWork ------------------------------
(***************************************************************************)
(* The pages on which the work is done: findings, tasks, projects with     *)
(* their assets and secrets, clients, attachments and comments.  Each      *)
(* definition is a component of the dashboard, with everything an          *)
(* administrator is offered (RestrictedComponent hides some of it from     *)
(* other roles).                                                           *)
(***************************************************************************)
EXTENDS PageParts

(* Findings.                                                               *)

\* fetchFindings, fetched by the page and not kept in the cache.
FindingsOfList == OwnFetch("FindingsListPage.fetchFindings", "findings")

FindingFilters ==
    Reads({useFindingCategoriesQuery("parents"), useProjectsQuery("active")})

\* A refused answer counts as a deletion: the mutation does not look at it.
\* Without a reloadCallback the table has no button for it.
FindingsTable(reloadCallback) ==
    Part({},
         {Handler("FindingsTable.cloneFinding", requestFindingClone, "json",
                  GoTo("FindingEditPage"))}
             \cup IF reloadCallback = {} THEN {}
                  ELSE {Failing(Asks(Await("FindingsTable.deleteFinding",
                                           useDeleteFindingMutation,
                                           Say("success") \cup reloadCallback)),
                                Say("error"))},
         {})

FindingsListPage ==
    Part({FindingsOfList},
         {Asks(Mutate("FindingsListPage.onDeleteButtonClick",
                      [useDeleteFindingMutation EXCEPT
                          !.request = requestFindingDeleteMany],
                      Refetch(FindingsOfList) \cup Say("success")))},
         {FindingFilters, FindingsTable(Refetch(FindingsOfList))})

AssetsSelectControl == Reads({useAssetsQuery("project")})

FindingForm ==
    Part({useSystemCustomFieldsQuery, useProjectsQuery("all"),
          useFindingCategoriesQuery("all")}, {}, {AssetsSelectControl})

FindingCreatePage ==
    Part({},
         {Handler("FindingCreatePage.onFormSubmit", requestFindingPost, "any",
                  GoTo("FindingsListPage") \cup Say("success"))},
         {FindingForm})

FindingDescriptionPanel == Reads({useSystemCustomFieldsQuery})

\* Mutant of FindingEditPage: the edited finding stays in the cache.
FindingEditPageForgetting ==
    Part({useFindingQuery},
         {Catch(Handler("FindingEditPage.onFormSubmit", requestFindingPut, "any",
                        Say("success") \cup GoTo("FindingDetailsPage")),
                Say("error"))},
         {FindingForm})

FindingEditPage ==
    Part({useFindingQuery},
         {Catch(Handler("FindingEditPage.onFormSubmit", requestFindingPut, "any",
                        Refresh(<<"findings">>) \cup Say("success")
                        \cup GoTo("FindingDetailsPage")),
                Say("error"))},
         {FindingForm})

\* The result is kept by the panel: the finding it belongs to is not refreshed.
FindingTriagePanel ==
    Part({},
         {Failing(Busy(Finally(Mutate("FindingTriagePanel.runTriage",
                                      useFindingTriageMutation, Say("success")),
                               Free)),
                  Say("error"))},
         {})

\* The job is announced as queued without waiting for the answer.
FindingRemediationPanel ==
    Part({},
         {Catch(Handler("FindingRemediationPanel.generateRemediation",
                        requestFindingRemediation, "any", Say("success")),
                Say("success"))},
         {})

-------------------------------------------------------------------------------
(* Finding categories.                                                     *)

FindingCategoryForm == Reads({useFindingCategoriesQuery("parents")})

FindingCategoryAddModalDialog(closed) ==
    Part({},
         {Handler("FindingCategoryAddModalDialog.onCreateCategoryFormSubmit",
                  requestFindingCategoryPost, "any", closed \cup Say("success"))},
         {FindingCategoryForm})

FindingCategoryEditModalDialog(closed) ==
    Part({},
         {Handler("FindingCategoryEditModalDialog.onCreateCategoryFormSubmit",
                  requestFindingCategoryPut, "any", closed \cup Say("success"))},
         {FindingCategoryForm})

FindingCategoriesPage ==
    LET onCategoryDialogClosed == Refetch(useFindingCategoriesQuery("all")) IN
    Part({useFindingCategoriesQuery("all")},
         {Asks(Mutate("FindingCategoriesPage.onDeleteClick",
                      useDeleteFindingCategoryMutation, {}))},
         {FindingCategoryAddModalDialog(onCategoryDialogClosed),
          FindingCategoryEditModalDialog(onCategoryDialogClosed)})

-------------------------------------------------------------------------------
(* Attachments and comments, on findings, tasks and projects.              *)

\* One upload at a time, given up by its cancel button or with the component.
AttachmentsDropzone ==
    Part({useUploadLimitsQuery},
         {Failing(Aborts(Busy(Finally(
              Handler("AttachmentsDropzone.onUploadButtonClick",
                      requestAttachmentPost, "ok", Refresh(<<"attachments">>)),
              Free))), Say("error"))},
         {})

\* The table keeps no callback: the mutation alone refreshes.
AttachmentsTable ==
    Part({}, {Asks(Mutate("AttachmentsTable.onDeleteAttachmentClick",
                          useAttachmentDeleteMutation, {}))}, {})

Attachments ==
    Part({useAttachmentsQuery("parent")}, {}, {AttachmentsDropzone, AttachmentsTable})

CommentsPanel ==
    Part({useCommentsQuery("parent")},
         {Failing(Busy(Finally(Mutate("CommentsPanel.onSubmit",
                                      useCreateCommentMutation, Say("success")), Free)),
                  Say("error")),
          Failing(Asks(Mutate("CommentsPanel.onDeleteClick",
                              useDeleteCommentMutation, Say("success"))),
                  Say("error"))},
         {})

FindingDetailsPage ==
    Part({useFindingQuery},
         {Handler("FindingDetailsPage.cloneFinding", requestFindingClone, "json",
                  GoTo("FindingEditPage")),
          Asks(Mutate("FindingDetailsPage.onDeleteClick", useDeleteFindingMutation,
                      Say("success") \cup GoTo("FindingsListPage"))),
          Handler("FindingDetailsPage.onStatusChange", requestFindingPatch, "any",
                  Say("success"))},
         {FindingDescriptionPanel, FindingTriagePanel, FindingRemediationPanel,
          CommentsPanel, Attachments})

-------------------------------------------------------------------------------
(* Tasks.                                                                  *)

TasksOfList == OwnFetch("TasksListPage.fetchTasks", "tasks")

TaskFilters == Reads({useProjectsQuery("active"), useUsersQuery})

TaskForm == Reads({useProjectsQuery("isTemplate")})

TasksTable(reloadCallback) ==
    Part({}, {Asks(Await("TasksTable.onDelete", useDeleteTaskMutation,
                         reloadCallback))}, {})

TasksListPage ==
    Part({TasksOfList},
         {Handler("TasksListPage.onStatusSelectChange", requestTasksPatch, "any",
                  Refetch(TasksOfList) \cup Say("success")),
          Asks(Handler("TasksListPage.onDeleteButtonClick", requestTasksDelete, "any",
                       Refetch(TasksOfList) \cup Say("success")
                       \cup Refresh(<<"tasks">>)))},
         {TaskFilters, TasksTable(Refetch(TasksOfList))})

\* Mutant of TaskCreatePage: the answer's status is not looked at.
TaskCreatePageBlindly ==
    Part({},
         {Handler("TaskCreatePage.onFormSubmit", requestTaskPost, "any",
                  GoTo("ProjectDetailsPage") \cup Say("success"))},
         {TaskForm})

TaskCreatePage ==
    Part({},
         {Failing(Handler("TaskCreatePage.onFormSubmit", requestTaskPost, "ok",
                          GoTo("ProjectDetailsPage") \cup Say("success")),
                  Say("error"))},
         {TaskForm})

TaskEditPage ==
    Part({useTaskQuery},
         {Handler("TaskEditPage.onFormSubmit", requestTaskPatch, "any",
                  Say("success") \cup Refresh(<<"tasks", "id">>)
                  \cup GoTo("TaskDetailsPage"))},
         {TaskForm})

TaskDetailsPage ==
    LET changed == Refresh(<<"tasks">>) \cup Say("success") IN
    Part({useTaskQuery, useUsersQuery,
          OwnFetch("TaskDetailsPage.requestProject", "projects")},
         {Asks(Mutate("TaskDetailsPage.onDeleteClick", useDeleteTaskMutation,
                      changed \cup GoTo("TasksListPage"))),
          Handler("TaskDetailsPage.onAssigneeChange", requestTaskPatch, "any", changed),
          Handler("TaskDetailsPage.cloneTask", requestTaskClone, "json",
                  GoTo("TaskEditPage")),
          Handler("TaskDetailsPage.onStatusChange", requestTaskPatch, "any", changed)},
         {CommentsPanel, Attachments})

-------------------------------------------------------------------------------
(* Projects, and the assets and secrets on their tabs.                     *)

ProjectForm ==
    Reads({useOrganisationsQuery("client"), useOrganisationsQuery("service_provider"),
           useProjectCategoriesQuery})

ProjectsTable ==
    Part({},
         {Handler("ProjectsTable.cloneProject", requestProjectClone, "json",
                  GoTo("ProjectEditPage")),
          Asks(Mutate("ProjectsTable.onClick", useDeleteProjectMutation, {}))},
         {})

ProjectsListPage == Part({useProjectsQuery("page")}, {}, {ProjectsTable})

ProjectCreatePage ==
    Part({},
         {Else(Handler("ProjectCreatePage.handleCreate", requestProjectPost, "created",
                       Refresh(<<"projects">>) \cup Say("success")
                       \cup GoTo("ProjectsListPage")),
               Say("error"))},
         {ProjectForm})

ProjectEditPage ==
    Part({useProjectQuery},
         {Handler("ProjectEditPage.onFormSubmit", requestProjectPut, "any",
                  Refresh(<<"projects", "id">>) \cup Say("success")
                  \cup GoTo("ProjectDetailsPage"))},
         {ProjectForm})

ProjectMembershipPage ==
    Part({useUsersQuery, useProjectUsersQuery, useProjectQuery},
         {Handler("ProjectMembershipPage.handleOnClick", requestProjectMemberPost,
                  "any", Refetch(useProjectUsersQuery)),
          Asks(Handler("ProjectMembershipPage.onDeleteClick", requestProjectUserDelete,
                       "any", Refetch(useProjectUsersQuery)))},
         {})

ProjectDetailsTab ==
    Reads({useProjectUsersQuery, useFindingsStatsQuery("project")})

ProjectTasks ==
    LET fetchTasks == OwnFetch("ProjectTasks.fetchTasks", "tasks") IN
    Part({fetchTasks}, {}, {TasksTable(Refetch(fetchTasks))})

ProjectFindings ==
    LET fetchFindings == OwnFetch("ProjectFindings.fetchFindings", "findings") IN
    Part({fetchFindings}, {}, {FindingFilters, FindingsTable(Refetch(fetchFindings))})

AssetForm == Reads({useAssetsQuery("project")})

AssetModalDialog(onSubmit) ==
    Part({},
         {Catch(Handler("AssetModalDialog.onAddAssetFormSubmit", requestAssetPost, "any",
                        onSubmit \cup Say("success")),
                Say("error"))},
         {AssetForm})

ProjectAssets ==
    LET refetch == Refetch(useAssetsQuery("project")) IN
    Part({useAssetsQuery("project")},
         {Asks(Await("ProjectAssets.onDeleteButtonClick", useDeleteAssetMutation,
                     refetch))},
         {AssetModalDialog(refetch)})

AssetDetailsPage ==
    LET fetchFindings == OwnFetch("AssetDetailsPage.fetchFindings", "findings") IN
    Part({useAssetQuery, useAssetsQuery("project"), fetchFindings,
          OwnFetch("AssetDetailsPage.requestEntity", "projects")},
         {Asks(Await("AssetDetailsPage.handleDelete", useDeleteAssetMutation,
                     GoTo("ProjectsListPage")))},
         {FindingsTable(Refetch(fetchFindings))})

VaultSecretForm ==
    Part({},
         {Else(Handler("VaultSecretForm.onFormSubmit", requestSecretPost, "created",
                       Refresh(useInvalidateVaultQueries) \cup Say("success")),
               Say("error"))},
         {})

VaultTable ==
    Part({}, {Asks(Handler("VaultTable.onVaultItemDelete", requestSecretDelete, "any",
                           Refresh(useInvalidateVaultQueries) \cup Say("success")))}, {})

ProjectVaultTab == Part({useProjectVaultQuery}, {}, {VaultSecretForm, VaultTable})

\* The API answers 202, never the 201 the form waits for.
VaultItemEditPage ==
    Part({},
         {Else(Handler("VaultItemEditPage.onFormSubmit", requestSecretPut, "created",
                       Say("success")),
               Say("error"))},
         {})

ProjectAttachmentsTab == Attachments

\* Its last tab is ReportRevisions, in PagesOfSystem.
ProjectDetailsPage(ReportRevisions) ==
    Part({useProjectQuery},
         {Handler("ProjectDetailsPage.cloneProject", requestProjectClone, "json",
                  GoTo("ProjectEditPage")),
          Failing(Asks(Mutate("ProjectDetailsPage.onDeleteClick",
                              useDeleteProjectMutation,
                              Refresh(useProjectQueriesInvalidation)
                              \cup GoTo("ProjectsListPage") \cup Say("success"))),
                  Say("error")),
          Handler("ProjectDetailsPage.onArchiveButtonClick", requestProjectPatch, "any",
                  Say("success") \cup Refresh(useProjectQueriesInvalidation))},
         {ProjectDetailsTab, ProjectTasks, ProjectAssets, ProjectFindings,
          CommentsPanel, ProjectAttachmentsTab, ProjectVaultTab, ReportRevisions})

-------------------------------------------------------------------------------
(* Clients and service providers.                                          *)

ClientCreatePage ==
    Part({},
         {Else(Handler("ClientCreatePage.onFormSubmit", requestOrganisationPost,
                       "created", Refresh(<<"organisations">>) \cup Say("success")
                       \cup GoTo("ClientsListPage")),
               Say("error"))},
         {})

ClientEditPage ==
    Part({useOrganisationQuery},
         {Handler("ClientEditPage.onFormSubmit", requestOrganisationPut, "any",
                  Say("success") \cup Refresh(useOrganisationsQueriesInvalidation)
                  \cup GoTo("ClientDetailsPage"))},
         {})

ClientsListPage ==
    Part({useOrganisationsQuery("all")},
         {Asks(Mutate("ClientsListPage.onClick", useDeleteOrganisationMutation, {}))},
         {})

ClientProjectsTab == Part({useProjectsQuery("clientId")}, {}, {ProjectsTable})

ClientDetailsPage ==
    LET changed == Refresh(useOrganisationsQueriesInvalidation) \cup Say("success") IN
    Part({useOrganisationQuery, useOrganisationContactsQuery},
         {Asks(Await("ClientDetailsPage.handleDelete", useDeleteOrganisationMutation,
                     GoTo("ClientsListPage"))),
          Else(Handler("ClientDetailsPage.onFormSubmit", requestOrganisationContactPost,
                       "created", changed),
               Say("error")),
          Else(Asks(Handler("ClientDetailsPage.onContactDelete", requestContactDelete,
                            "ok", changed)),
               Say("error"))},
         {ClientProjectsTab})
===============================================================================
