------------------------------ MODULE ConsolePeople ------------------------------
(***************************************************************************)
(* The pages of the account, its activity, the agents' secrets and the     *)
(* directory.                                                              *)
(***************************************************************************)
EXTENDS ConsoleRoutes

-----------------------------------------------------------------------------
(* The account and its API key                                              *)

(* The form is mounted again whenever the account's updated_at changes.     *)
\* features/account/page.tsx:34-152 AccountForm
AccountForm == Part({}, {Offer(UpdateAccount, {}, <<>>)}, {})
\* features/account/api-key-section.tsx:18-155 APIKeySection
APIKeySection ==
  Part({}, {Offer(RotateAPIKey, {}, <<>>), Offer(RevokeAPIKey, {}, <<>>)}, {})
\* features/account/page.tsx:20-32 AccountPage
AccountPage ==
  Page(AccountRoute.path,
       {Part(Reads({AccountQuery}), {}, {}), AccountForm, APIKeySection}, "guarded")

-----------------------------------------------------------------------------
(* Activity                                                                 *)

(* The page an entry's subject leads to.                                    *)
\* features/activity/timeline.tsx:10-116 ActivityTimeline
ActivityTimeline ==
  Part({}, {}, Links({HostIndexRoute.path, PolicyIndexRoute.path, ReportIndexRoute.path}, {}))
\* features/activity/list.tsx:12-101 ActivityList
ActivityList == ActivityTimeline
\* features/activity/filters.tsx:22-125 ActivityFilters
ActivityFilters == Part({}, {}, {LinkTo(ActivityRoute.path, {})})
\* features/activity/page.tsx:14-94 ActivityPage
ActivityPage ==
  Page(ActivityRoute.path,
       {Part(Reads({ActivityQuery}), {}, {}), ActivityFilters, ActivityList}, "")
\* features/activity/recent-card.tsx:18-63 RecentOsqueryActivityCard
RecentOsqueryActivityCard ==
  Part(Reads({ActivityQuery}), {}, {LinkTo(ActivityRoute.path, {})})
\* features/activity/host-page.tsx:6-36 HostActivityPage
HostActivityTab == Part(Reads({ActivityQuery}), {}, ActivityList.links)

-----------------------------------------------------------------------------
(* The secrets with which agents enrol                                      *)

\* features/agent-secrets/secrets-dialog.tsx:121-228 SecretManager
SecretManager ==
  Part({}, {Offer(m, {Edit("agents.secrets")}, <<>>) :
              m \in {CreateSecret, UpdateSecret, DeleteSecret}}, {})
\* features/agent-secrets/secrets-dialog.tsx:71-119 AgentSecretsDialog
AgentSecretsDialog ==
  Part(ReadsIf({Edit("agents.secrets")}, {SecretsQuery}), SecretManager.offers, {})
\* features/agent-secrets/header-action.tsx:9-24 AgentSecretsHeaderAction
AgentSecretsHeaderAction == AgentSecretsDialog

-----------------------------------------------------------------------------
(* The directory                                                            *)

\* features/directory/sync/page.tsx:37-50 UsersOverviewCard
UsersOverviewCard == Part(Reads({UsersQuery}), {}, {LinkTo(UsersIndexRoute.path, {})})
\* features/directory/sync/page.tsx:52-65 GroupsOverviewCard
GroupsOverviewCard == Part(Reads({GroupsQuery}), {}, {LinkTo(GroupsIndexRoute.path, {})})
\* features/directory/sync/page.tsx:67-142 DirectorySyncAction
DirectorySyncAction ==
  Part(Reads({DirectorySyncQuery}), {Offer(TriggerSync, {Edit("directory")}, <<>>)}, {})
\* features/directory/sync/page.tsx:16-35 DirectoryOverviewPage
DirectoryOverviewPage ==
  Page(DirectoryIndexRoute.path,
       {UsersOverviewCard, GroupsOverviewCard, DirectorySyncAction}, "")

\* features/directory/groups/list.tsx:24-62 groupColumns
GroupColumns ==
  Part(Sorted(GroupsQuery, {"display_name", "mail_nickname", "member_count", "source"}), {},
       {LinkTo(UsersIndexRoute.path, {})})
\* features/directory/groups/list.tsx:64-127 GroupListPage
GroupListPage == Page(GroupsIndexRoute.path, {GroupColumns}, "")

\* features/directory/users/list.tsx:44-132 userColumns
UserColumns ==
  Part(Sorted(UsersQuery, {"name", "email", "role", "source", "department"}), {},
       {LinkTo(UserIndexRoute.path, {})})
\* features/directory/users/list.tsx:254-263 GroupFilterChip
GroupFilterChip == Part(Reads({GroupQuery}), {}, {})
\* features/directory/users/list.tsx:265-298 UserRowActions
UserRowActions ==
  Part({}, {Offer(DeleteUser, {Edit("users")}, <<>>)},
       Links({AccountRoute.path, UserEditRoute.path}, {Edit("users")}))
\* features/directory/users/list.tsx:134-252 UserListPage
UserListPage ==
  Page(UsersIndexRoute.path,
       {UserColumns, GroupFilterChip, UserRowActions,
        Part({}, {}, {LinkTo(UserNewRoute.path, {Edit("users")})})}, "")

\* features/directory/users/delete-dialog.tsx:7-47 UserDeleteDialog
UserDeleteDialog(goes) == Part({}, {Offer(DeleteUser, {Edit("users")}, goes)}, {})
\* features/directory/users/detail.tsx:19-104 UserDetailPage
UserDetailPage ==
  Page(UserIndexRoute.path,
       {Part(Reads({UserQuery}), {},
             {LinkTo(AccountRoute.path, {}), LinkTo(UserEditRoute.path, {Edit("users")})}),
        UserDeleteDialog(UsersIndexRoute.path)}, "")
\* features/directory/users/create.tsx:6-25 UserCreatePage
UserCreatePage ==
  Page(UserNewRoute.path,
       {Part({}, {Offer(CreateUser, {}, UserIndexRoute.path)},
             {LinkTo(UsersIndexRoute.path, {})})}, "guarded")
(* One's own account is edited on the account page.                         *)
\* features/directory/users/edit.tsx:10-57 UserEditPage
UserEditPage ==
  Page(UserEditRoute.path,
       {Part(Reads({UserQuery}), {Offer(UpdateUser, {}, UserIndexRoute.path)},
             Links({AccountRoute.path, UserIndexRoute.path}, {}))}, "guarded")

\* routes/_authenticated.tsx:1-12 Route
PeoplePages ==
  {AccountPage, ActivityPage, DirectoryOverviewPage, GroupListPage, UserListPage,
   UserDetailPage, UserCreatePage, UserEditPage}
=============================================================================
