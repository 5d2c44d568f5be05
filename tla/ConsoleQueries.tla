----------------------------- MODULE ConsoleQueries -----------------------------
(***************************************************************************)
(* Every query and every mutation of the web console.  Tables stand for    *)
(* what the server keeps, an entity each: a mutation changes the answer of *)
(* every query that reads a table it writes.                               *)
(***************************************************************************)
EXTENDS ConsoleBase

-----------------------------------------------------------------------------
(* Accounts, the directory, secrets and activity                            *)

\* features/authn/queries.ts:11-25 sessionQueryOptions
SessionQuery == Query(<<"auth", "session">>, {}, {"users"})
\* features/account/query-options.ts:6-11 accountQueryOptions
AccountQuery == Query(<<"account">>, {}, {"users", "roles", "api_keys"})
\* features/activity/queries.ts:7-21 useActivity
ActivityQuery ==
  Polled(Listed(Query(<<"activity", "list">>, {View("activity")}, {"activity"}),
                {"occurred_at"}), 30)
\* features/agent-secrets/queries.ts:12-20 useAgentSecrets
SecretsQuery == Query(<<"agent-secrets">>, {Edit("agents.secrets")}, {"secrets"})
\* src/internal/directory/group_store.go:59-74 groupListQuery
GroupOrders == {"display_name", "mail_nickname", "member_count", "source"}
\* features/directory/groups/queries.ts:12-38 useGroups
GroupsQuery ==
  Listed(Query(<<"groups", "list">>, {View("groups")}, {"groups", "members"}), GroupOrders)
\* features/directory/groups/queries.ts:40-51 useGroup
GroupQuery == Query(<<"groups", "detail">>, {View("groups")}, {"groups", "members"})
\* features/directory/sync/queries.ts:7-19 useDirectorySync
DirectorySyncQuery == Polled(Query(<<"directory", "sync">>, {View("directory")}, {"sync"}), 2)
\* src/internal/directory/user_store.go:472-488 userListQuery
UserOrders == {"name", "email", "role", "department", "created_at", "updated_at"}
\* features/directory/users/queries.ts:39-75 useUsers
UsersQuery ==
  Listed(Query(<<"users", "list">>, {View("users")}, {"users", "roles", "members"}), UserOrders)
\* features/directory/users/queries.ts:77-90 useUserDepartments
DepartmentsQuery ==
  Listed(Query(<<"users", "departments", "list">>, {View("users")}, {"users"}), {"value"})
\* features/directory/users/queries.ts:103-112 userQueryOptions
UserQuery == Query(<<"users", "detail">>, {View("users")}, {"users", "roles", "members"})

\* features/account/queries.ts:12-26 useUpdateAccount
UpdateAccount ==
  [Mutation("updateAccount", {}, {"users"}, {<<"users">>})
   EXCEPT !.sets = {AccountQuery.key, UserQuery.key, SessionQuery.key}]
\* features/account/queries.ts:28-36 useRotateAPIKey
RotateAPIKey ==
  [Mutation("rotateAPIKey", {}, {"api_keys"}, {}) EXCEPT !.sets = {AccountQuery.key}]
\* features/account/queries.ts:38-46 useRevokeAPIKey
RevokeAPIKey ==
  [Mutation("revokeAPIKey", {}, {"api_keys"}, {}) EXCEPT !.sets = {AccountQuery.key}]
\* features/agent-secrets/queries.ts:22-30 useCreateAgentSecret
CreateSecret ==
  Mutation("createSecret", {Edit("agents.secrets")}, {"secrets"}, {SecretsQuery.key})
\* features/agent-secrets/queries.ts:32-40 useUpdateAgentSecret
UpdateSecret ==
  Mutation("updateSecret", {Edit("agents.secrets")}, {"secrets"}, {SecretsQuery.key})
\* features/agent-secrets/queries.ts:42-50 useDeleteAgentSecret
DeleteSecret ==
  Mutation("deleteSecret", {Edit("agents.secrets")}, {"secrets"}, {SecretsQuery.key})
\* features/directory/sync/queries.ts:21-42 useTriggerDirectorySync
TriggerSync ==
  [Mutation("triggerSync", {Edit("directory")}, {"sync"}, {})
   EXCEPT !.sets = {DirectorySyncQuery.key}]
\* features/directory/users/queries.ts:92-101 useCreateUser
CreateUser == Mutation("createUser", {Edit("users")}, {"users", "roles"}, {<<"users">>})
\* features/directory/users/queries.ts:114-134 useUpdateUser
UpdateUser ==
  [Mutation("updateUser", {Edit("users")}, {"users", "roles"},
            {<<"users">>, <<"groups">>, SessionQuery.key})
   EXCEPT !.sets = {UserQuery.key}]
\* features/directory/users/queries.ts:136-149 useDeleteUser
DeleteUser ==
  Deletion("deleteUser", {Edit("users")}, {"users", "roles", "members"}, UserQuery.key,
           {<<"users">>, <<"groups">>})

-----------------------------------------------------------------------------
(* Labels and hosts                                                         *)

\* src/internal/labels/store.go:339-347 labelOrderKeys
LabelOrders == {"name", "label_type", "label_membership_type", "hosts_count", "updated_at"}
\* features/labels/queries.ts:36-49 useLabels
LabelsQuery ==
  Listed(Query(<<"labels", "list">>, {View("labels")}, {"labels", "label_hosts"}), LabelOrders)
\* features/labels/queries.ts:29-34 labelQueryOptions
LabelQuery == Query(<<"labels", "detail">>, {View("labels")}, {"labels", "label_hosts"})
\* features/labels/queries.ts:55-67 useCreateLabel
CreateLabel ==
  Mutation("createLabel", {Edit("labels")}, {"labels", "label_hosts"},
           {<<"labels">>, <<"hosts">>})
\* features/labels/queries.ts:69-81 useUpdateLabel
UpdateLabel ==
  Mutation("updateLabel", {Edit("labels")}, {"labels", "label_hosts"},
           {<<"labels">>, <<"hosts">>})
\* features/labels/queries.ts:83-90 useDeleteLabel
DeleteLabel ==
  Deletion("deleteLabel", {Edit("labels")}, {"labels", "label_hosts"}, LabelQuery.key,
           {<<"labels">>, <<"hosts">>})

\* src/internal/hosts/list_store.go:79-92 hostListQuery
HostOrders ==
  {"display_name", "hardware.serial", "hardware.model_identifier", "hardware.uuid",
   "os.version", "agents.osquery.version", "last_contact", "last_restarted_at",
   "storage.boot_volume.available_bytes", "hardware.memory_bytes", "network.primary_ip",
   "public_ip"}
\* features/hosts/queries.ts:109-118 useHosts
HostsQuery ==
  Listed(Query(<<"hosts", "list">>, {View("hosts")}, {"hosts", "primary_users", "label_hosts"}),
         HostOrders)
\* features/hosts/queries.ts:101-107 hostQueryOptions
HostQuery ==
  Query(<<"hosts", "detail">>, {View("hosts")},
        {"hosts", "primary_users", "label_hosts", "refreshes"})
\* features/hosts/queries.ts:134-140 useHostMunkiState
HostMunkiStateQuery ==
  Polled(Query(HostQuery.key \o <<"munki">>, {View("munki.software")}, {"hosts"}), 30)
\* features/hosts/queries.ts:142-157 useHostMunkiSoftware
HostMunkiSoftwareQuery ==
  Polled(Listed(Query(HostQuery.key \o <<"munki", "software", "list">>,
                      {View("munki.software")}, {"hosts", "munki_software"}), {"name"}), 30)
\* features/hosts/queries.ts:159-165 useHostSantaState
HostSantaStateQuery ==
  Polled(Query(HostQuery.key \o <<"santa">>, {View("santa.configurations")},
               {"hosts", "santa_configurations"}), 30)
\* features/hosts/queries.ts:304-322 useHostSantaRules
HostSantaRulesQuery ==
  Polled(Listed(Query(HostQuery.key \o <<"santa", "rules", "list">>, {View("santa.rules")},
                      {"hosts", "santa_rules"}), {}), 30)
\* src/internal/inventory/host_store.go:205-228 hostSoftwareTitleListQuery
HostSoftwareOrders == {"name", "version", "source", "last_opened_at"}
\* features/hosts/queries.ts:233-252 useHostSoftware
HostSoftwareQuery ==
  Polled(Listed(Query(HostQuery.key \o <<"software", "list">>, {View("software")}, {"hosts"}),
                HostSoftwareOrders), 30)
\* src/internal/osquery/reports/results_store.go:191-240 Store.listSnapshots
SnapshotOrders(name) == {name, "status", "reported_at", "result_row_count"}
\* features/hosts/queries.ts:254-263 useHostOsqueryReports
HostReportsQuery ==
  Polled(Listed(Query(HostQuery.key \o <<"osquery", "reports">>, {View("osquery.reports")},
                      {"hosts", "reports", "snapshots"}),
                SnapshotOrders("report_name")), 30)
\* features/hosts/queries.ts:265-274 useHostOsqueryPolicies
HostPoliciesQuery ==
  Polled(Listed(Query(HostQuery.key \o <<"osquery", "policies">>, {View("osquery.policies")},
                      {"hosts", "policies", "policy_results"}),
                {"policy_name", "status", "remediation", "updated_at"}), 30)

\* features/hosts/queries.ts:167-175 useBulkDeleteHosts
BulkDeleteHosts ==
  Mutation("bulkDeleteHosts", {Edit("hosts")}, {"hosts"}, {<<"hosts">>})
\* features/hosts/queries.ts:177-183 useDeleteHost
DeleteHost == Deletion("deleteHost", {Edit("hosts")}, {"hosts"}, HostQuery.key, {<<"hosts">>})
\* features/hosts/queries.ts:185-207 useRequestHostInventoryRefresh
RequestInventoryRefresh ==
  [Mutation("requestInventoryRefresh", {Edit("hosts")}, {"refreshes"}, {})
   EXCEPT !.sets = {HostQuery.key}]
\* features/hosts/queries.ts:209-219 useSetHostPrimaryUser
SetPrimaryUser ==
  [Mutation("setPrimaryUser", {Edit("hosts")}, {"primary_users"}, {<<"hosts">>})
   EXCEPT !.sets = {HostQuery.key}]
\* features/hosts/queries.ts:221-231 useClearHostPrimaryUser
ClearPrimaryUser ==
  [Mutation("clearPrimaryUser", {Edit("hosts")}, {"primary_users"}, {<<"hosts">>})
   EXCEPT !.sets = {HostQuery.key}]

\* features/software/queries.ts:31-44 useSoftware
SoftwareQuery ==
  Listed(Query(<<"software", "list">>, {View("software")}, {"hosts"}),
         {"name", "source", "hosts_count", "versions"})
\* features/software/queries.ts:23-29 softwareTitleQueryOptions
SoftwareTitleQuery ==
  Polled(Query(<<"software", "detail">>, {View("software")}, {"hosts"}), 30)

-----------------------------------------------------------------------------
(* osquery                                                                  *)

\* src/internal/osquery/policies/store.go:645-662 policyOrderKeys
PolicyOrders ==
  {"name", "passing_host_count", "failing_host_count", "error_host_count",
   "pending_host_count", "remediation", "created_at", "updated_at"}
\* features/osquery/policies/queries.ts:71-80 usePolicies
PoliciesQuery ==
  Polled(Listed(Query(<<"osquery", "policies", "list">>, {View("osquery.policies")},
                      {"policies", "policy_results"}), PolicyOrders), 30)
\* features/osquery/policies/queries.ts:64-69 policyQueryOptions
PolicyQuery ==
  Query(<<"osquery", "policies", "detail">>, {View("osquery.policies")},
        {"policies", "policy_results"})
\* features/osquery/policies/queries.ts:86-92 usePolicyRemediationSource
RemediationSourceQuery ==
  Query(PolicyQuery.key \o <<"remediation-source">>, {View("osquery.remediations")}, {"policies"})
\* features/osquery/policies/queries.ts:94-107 usePolicyRemediationRun
RemediationRunQuery ==
  Polled(Query(PolicyQuery.key \o <<"remediation">>, {View("osquery.remediations")},
               {"remediations"}), 30)
\* features/osquery/policies/queries.ts:109-129 usePolicyResults
PolicyResultsQuery ==
  Polled(Listed(Query(PolicyQuery.key \o <<"results">>, {View("osquery.policies")},
                      {"policies", "policy_results", "remediations"}),
                {"host_name", "status", "remediation", "updated_at"}), 30)
\* features/osquery/history/queries.ts:33-46 usePolicyStatusHistory
PolicyHistoryQuery ==
  Polled(Query(PolicyQuery.key \o <<"history">>, {View("osquery.overview")}, {"history"}), 300)
\* features/osquery/history/queries.ts:24-31 useHostStatusHistory
HostHistoryQuery ==
  Polled(Query(<<"osquery", "history", "hosts">>, {View("osquery.overview")}, {"history"}), 300)
\* features/osquery/policies/queries.ts:153-162 useCreatePolicy
CreatePolicy ==
  Mutation("createPolicy", {Edit("osquery.policies")}, {"policies"}, {<<"osquery", "policies">>})
(* Results are removed only when the cached policy shows another query.     *)
\* features/osquery/policies/queries.ts:164-187 useUpdatePolicy
UpdatePolicy ==
  [Mutation("updatePolicy", {Edit("osquery.policies")}, {"policies", "policy_results"},
            {<<"osquery", "policies">>})
   EXCEPT !.removes = {PolicyResultsQuery.key}]
\* features/osquery/policies/queries.ts:189-196 useDeletePolicy
DeletePolicy ==
  Deletion("deletePolicy", {Edit("osquery.policies")}, {"policies", "policy_results"},
           PolicyQuery.key, {<<"osquery", "policies">>})
\* features/osquery/policies/queries.ts:198-206 useBulkDeletePolicies
BulkDeletePolicies ==
  Mutation("bulkDeletePolicies", {Edit("osquery.policies")}, {"policies", "policy_results"},
           {<<"osquery", "policies">>})
\* features/osquery/policies/queries.ts:212-244 useRunPolicyRemediations
RunRemediations ==
  Mutation("runRemediations", {Edit("osquery.remediations")}, {"remediations"},
           {PolicyResultsQuery.key})

\* src/internal/osquery/reports/store.go:228-238 reportOrderKeys
ReportOrders ==
  {"name", "collected_host_count", "error_host_count", "pending_host_count", "created_at",
   "updated_at", "schedule_interval"}
\* features/osquery/reports/queries.ts:58-66 useReports
ReportsQuery ==
  Listed(Query(<<"osquery", "reports", "list">>, {View("osquery.reports")},
               {"reports", "snapshots"}), ReportOrders)
\* features/osquery/reports/queries.ts:51-56 reportQueryOptions
ReportQuery ==
  Query(<<"osquery", "reports", "detail">>, {View("osquery.reports")}, {"reports"})
\* features/osquery/reports/queries.ts:72-92 useReportSnapshots
SnapshotsQuery ==
  Polled(Listed(Query(ReportQuery.key \o <<"snapshots">>, {View("osquery.reports")},
                      {"reports", "snapshots"}), SnapshotOrders("host_name")), 30)
\* features/osquery/reports/queries.ts:115-124 useCreateReport
CreateReport ==
  Mutation("createReport", {Edit("osquery.reports")}, {"reports"}, {<<"osquery", "reports">>})
\* features/osquery/reports/queries.ts:126-152 useUpdateReport
UpdateReport ==
  [Mutation("updateReport", {Edit("osquery.reports")}, {"reports", "snapshots"},
            {<<"osquery", "reports">>})
   EXCEPT !.removes = {SnapshotsQuery.key}]
\* features/osquery/reports/queries.ts:154-161 useDeleteReport
DeleteReport ==
  Deletion("deleteReport", {Edit("osquery.reports")}, {"reports", "snapshots"},
           ReportQuery.key, {<<"osquery", "reports">>})
\* features/osquery/reports/queries.ts:163-171 useBulkDeleteReports
BulkDeleteReports ==
  Mutation("bulkDeleteReports", {Edit("osquery.reports")}, {"reports", "snapshots"},
           {<<"osquery", "reports">>})

\* features/osquery/live/queries.ts:75-82 useLiveQueryTargetCount
TargetCountQuery ==
  Polled(Query(<<"osquery", "live-queries", "target-count">>, {Edit("osquery.live-queries")},
               {"hosts", "label_hosts"}), 30)
\* features/osquery/live/queries.ts:61-65 useCreateLiveQuery
CreateLiveQuery == Mutation("createLiveQuery", {Edit("osquery.live-queries")}, {"live"}, {})
\* features/osquery/live/queries.ts:67-73 useStopLiveQuery
StopLiveQuery == Mutation("stopLiveQuery", {Edit("osquery.live-queries")}, {"live"}, {})

-----------------------------------------------------------------------------
(* Munki                                                                    *)

\* features/munki/software/queries.ts:64-71 useMunkiSoftware
MunkiSoftwareListQuery ==
  Listed(Query(<<"munki", "software", "list">>, {View("munki.software")}, {"munki_software"}),
         {"name", "display_name", "category", "developer", "updated_at"})
\* features/munki/software/queries.ts:57-62 munkiSoftwareQueryOptions
MunkiSoftwareQuery ==
  Query(<<"munki", "software", "detail">>, {View("munki.software")},
        {"munki_software", "munki_packages"})
\* features/munki/software/queries.ts:116-123 useMunkiIcons
MunkiIconsQuery ==
  Query(<<"munki", "icons", "list">>, {View("munki.software")}, {"munki_icons"})
\* features/munki/packages/queries.ts:62-69 useMunkiPackages
MunkiPackagesQuery ==
  Listed(Query(<<"munki", "packages", "list">>, {View("munki.packages")},
               {"munki_packages", "munki_names"}),
         {"software_name", "software_display_name", "version", "type", "size", "updated_at"})
\* features/munki/packages/queries.ts:55-60 munkiPackageQueryOptions
MunkiPackageQuery ==
  Query(<<"munki", "packages", "detail">>, {View("munki.packages")},
        {"munki_packages", "munki_names"})
\* features/munki/client-resources/queries.ts:48-53 useMunkiClientResources
ClientResourcesQuery ==
  Query(<<"munki", "client-resources">>, {View("munki.client-resources")}, {"munki_resources"})
\* features/munki/distribution-points/queries.ts:63-71 useMunkiDistributionPoints
PointsQuery ==
  Polled(Listed(Query(<<"munki", "distribution-points", "list">>,
                      {View("munki.distribution-points")}, {"munki_points", "munki_mirrors"}),
                {"name", "position"}), 30)
\* features/munki/distribution-points/queries.ts:52-61 munkiDistributionPointQueryOptions
PointQuery ==
  Query(<<"munki", "distribution-points", "detail">>, {View("munki.distribution-points")},
        {"munki_points", "munki_mirrors"})

\* features/munki/software/queries.ts:77-86 useCreateMunkiSoftware
CreateMunkiSoftware ==
  Mutation("createMunkiSoftware", {Edit("munki.software")}, {"munki_software"},
           {<<"munki", "software">>})
\* features/munki/software/queries.ts:88-97 useUpdateMunkiSoftware
UpdateMunkiSoftware ==
  Mutation("updateMunkiSoftware", {Edit("munki.software")}, {"munki_software", "munki_names"},
           {<<"munki">>})
\* features/munki/software/queries.ts:99-105 useBulkDeleteMunkiSoftware
BulkDeleteMunkiSoftware ==
  Mutation("bulkDeleteMunkiSoftware", {Edit("munki.software")},
           {"munki_software", "munki_packages"}, {<<"munki">>})
\* features/munki/software/queries.ts:107-114 useDeleteMunkiSoftware
DeleteMunkiSoftware ==
  Deletion("deleteMunkiSoftware", {Edit("munki.software")},
           {"munki_software", "munki_packages"}, MunkiSoftwareQuery.key, {<<"munki">>})
\* features/munki/software/queries.ts:125-144 useUploadMunkiIcon
UploadMunkiIcon ==
  Mutation("uploadMunkiIcon", {Edit("munki.software")},
           {"munki_software", "munki_names", "munki_icons"}, {<<"munki">>})
\* features/munki/packages/queries.ts:75-88 useCreateMunkiPackage
CreateMunkiPackage ==
  Mutation("createMunkiPackage", {Edit("munki.packages")}, {"munki_packages"}, {<<"munki">>})
\* features/munki/packages/queries.ts:90-104 useUpdateMunkiPackage
UpdateMunkiPackage ==
  Mutation("updateMunkiPackage", {Edit("munki.packages")}, {"munki_packages"}, {<<"munki">>})
\* features/munki/packages/queries.ts:106-112 useBulkDeleteMunkiPackages
BulkDeleteMunkiPackages ==
  Mutation("bulkDeleteMunkiPackages", {Edit("munki.packages")}, {"munki_packages"},
           {<<"munki">>})
\* features/munki/packages/queries.ts:114-121 useDeleteMunkiPackage
DeleteMunkiPackage ==
  Deletion("deleteMunkiPackage", {Edit("munki.packages")}, {"munki_packages"},
           MunkiPackageQuery.key, {<<"munki">>})
\* features/munki/client-resources/queries.ts:55-64 useSaveMunkiClientResources
SaveClientResources ==
  Mutation("saveClientResources", {Edit("munki.client-resources")}, {"munki_resources"},
           {<<"munki", "client-resources">>})
\* features/munki/client-resources/queries.ts:66-86 useUploadAndSaveMunkiClientResourcesBanner
UploadBanner == [SaveClientResources EXCEPT !.name = "uploadBanner"]
\* features/munki/client-resources/queries.ts:88-108 useUploadAndSaveMunkiClientResourcesArchive
UploadArchive == [SaveClientResources EXCEPT !.name = "uploadArchive"]
\* features/munki/client-resources/queries.ts:110-119 useDeleteMunkiClientResources
DeleteClientResources == [SaveClientResources EXCEPT !.name = "deleteClientResources"]
\* features/munki/distribution-points/queries.ts:42-50 munkiDistributionPointKeys
PointsKey == <<"munki", "distribution-points">>
\* features/munki/distribution-points/queries.ts:88-100 useCreateMunkiDistributionPoint
CreatePoint ==
  Mutation("createPoint", {Edit("munki.distribution-points")}, {"munki_points"}, {PointsKey})
\* features/munki/distribution-points/queries.ts:102-118 useUpdateMunkiDistributionPoint
UpdatePoint ==
  Mutation("updatePoint", {Edit("munki.distribution-points")}, {"munki_points"},
           {PointsKey, PointQuery.key})
\* features/munki/distribution-points/queries.ts:120-129 useDeleteMunkiDistributionPoint
DeletePoint ==
  Deletion("deletePoint", {Edit("munki.distribution-points")},
           {"munki_points", "munki_mirrors"}, PointQuery.key, {PointsKey})
\* features/munki/distribution-points/queries.ts:131-138 useReorderMunkiDistributionPoints
ReorderPoints ==
  Mutation("reorderPoints", {Edit("munki.distribution-points")}, {"munki_points"}, {PointsKey})
\* features/munki/distribution-points/queries.ts:140-151 useRotateMunkiDistributionPointKey
RotatePointKey ==
  Mutation("rotatePointKey", {Edit("munki.distribution-points")}, {"munki_points"},
           {PointsKey, PointQuery.key})

-----------------------------------------------------------------------------
(* Santa                                                                    *)

\* src/internal/santa/configurations/store.go:460-467 configurationOrderKeys
ConfigurationOrders == {"name", "description", "position", "updated_at"}
\* features/santa/configurations/queries.ts:47-55 useSantaConfigurations
ConfigurationsQuery ==
  Listed(Query(<<"santa", "configurations", "list">>, {View("santa.configurations")},
               {"santa_configurations"}), ConfigurationOrders)
\* features/santa/configurations/queries.ts:40-45 santaConfigurationQueryOptions
ConfigurationQuery ==
  Query(<<"santa", "configurations", "detail">>, {View("santa.configurations")},
        {"santa_configurations"})
\* src/internal/santa/rules/store.go:512-520 ruleOrderKeys
RuleOrders == {"rule_type", "identifier", "name", "description", "updated_at"}
\* features/santa/rules/queries.ts:41-52 useSantaRules
RulesQuery ==
  Listed(Query(<<"santa", "rules", "list">>, {View("santa.rules")}, {"santa_rules"}), RuleOrders)
\* features/santa/rules/queries.ts:34-39 santaRuleQueryOptions
RuleQuery == Query(<<"santa", "rules", "detail">>, {View("santa.rules")}, {"santa_rules"})
\* src/internal/santa/events/execution_list_store.go:122-135 eventOrderKeys
ExecutionOrders ==
  {"occurred_at", "ingested_at", "decision", "host", "host_id", "executing_user", "file_name"}
\* features/santa/events/queries.ts:57-71 useSantaEvents
ExecutionsQuery ==
  Polled(Listed(Query(<<"santa", "events", "executions", "list">>, {View("santa.events")},
                      {"santa_events"}), ExecutionOrders), 30)
\* features/santa/events/queries.ts:43-48 santaEventQueryOptions
ExecutionQuery ==
  Query(<<"santa", "events", "executions", "detail">>, {View("santa.events")}, {"santa_events"})
\* src/internal/santa/events/file_access_list_store.go:103-114 fileAccessEventOrderKeys
FileAccessOrders ==
  {"occurred_at", "ingested_at", "decision", "host", "host_id", "rule_name", "target"}
\* features/santa/events/queries.ts:77-90 useSantaFileAccessEvents
FileAccessesQuery ==
  Polled(Listed(Query(<<"santa", "events", "file-access", "list">>, {View("santa.events")},
                      {"santa_events"}), FileAccessOrders), 30)
\* features/santa/events/queries.ts:50-55 santaFileAccessEventQueryOptions
FileAccessQuery ==
  Query(<<"santa", "events", "file-access", "detail">>, {View("santa.events")}, {"santa_events"})

\* features/santa/configurations/queries.ts:34-38 configurationKeys
ConfigurationsRoot == <<"santa", "configurations">>
\* features/santa/configurations/queries.ts:61-70 useCreateSantaConfiguration
CreateConfiguration ==
  Mutation("createConfiguration", {Edit("santa.configurations")}, {"santa_configurations"},
           {ConfigurationsRoot})
\* features/santa/configurations/queries.ts:72-91 useUpdateSantaConfiguration
UpdateConfiguration == [CreateConfiguration EXCEPT !.name = "updateConfiguration"]
\* features/santa/configurations/queries.ts:93-100 useDeleteSantaConfiguration
DeleteConfiguration ==
  Deletion("deleteConfiguration", {Edit("santa.configurations")}, {"santa_configurations"},
           ConfigurationQuery.key, {ConfigurationsRoot})
\* features/santa/configurations/queries.ts:102-110 useBulkDeleteSantaConfigurations
BulkDeleteConfigurations == [CreateConfiguration EXCEPT !.name = "bulkDeleteConfigurations"]
\* features/santa/configurations/queries.ts:112-120 useReorderSantaConfigurations
ReorderConfigurations == [CreateConfiguration EXCEPT !.name = "reorderConfigurations"]
\* features/santa/rules/queries.ts:28-32 ruleKeys
RulesRoot == <<"santa", "rules">>
\* features/santa/rules/queries.ts:58-67 useCreateSantaRule
CreateRule == Mutation("createRule", {Edit("santa.rules")}, {"santa_rules"}, {RulesRoot})
\* features/santa/rules/queries.ts:69-78 useUpdateSantaRule
UpdateRule == [CreateRule EXCEPT !.name = "updateRule"]
\* features/santa/rules/queries.ts:80-86 useDeleteSantaRule
DeleteRule ==
  Deletion("deleteRule", {Edit("santa.rules")}, {"santa_rules"}, RuleQuery.key, {RulesRoot})
\* features/santa/rules/queries.ts:88-96 useBulkDeleteSantaRules
BulkDeleteRules == [CreateRule EXCEPT !.name = "bulkDeleteRules"]
=============================================================================
