----------------------------- MODULE ConsoleRoutes -----------------------------
(***************************************************************************)
(* The routes of the web console that need a session, as its router builds *)
(* them from the files of routes/_authenticated: a layout's path is a      *)
(* prefix of its pages', and its guard runs before theirs.                 *)
(***************************************************************************)
EXTENDS ConsoleQueries

-----------------------------------------------------------------------------
(* Accounts and the directory                                                *)

\* routes/_authenticated/account.tsx:1-8 Route
AccountRoute == Plain(<<"account">>)
\* routes/_authenticated/activity.tsx:1-46 Route
ActivityRoute == Route(<<"activity">>, {View("activity")}, <<>>, {})
\* routes/_authenticated/directory.tsx:1-5 Route
DirectoryRoute == Plain(<<"directory">>)
\* routes/_authenticated/directory.index.tsx:1-10 Route
DirectoryIndexRoute == Route(<<"directory", "index">>, {View("directory")}, <<>>, {})
\* routes/_authenticated/directory.groups.tsx:1-9 Route
GroupsRoute == Route(<<"directory", "groups">>, {View("groups")}, <<>>, {})
\* routes/_authenticated/directory.groups.index.tsx:1-17 Route
GroupsIndexRoute ==
  Searched(Plain(<<"directory", "groups", "index">>),
           {"display_name", "mail_nickname", "member_count", "source"})
\* routes/_authenticated/directory.users.tsx:1-9 Route
UsersRoute == Route(<<"directory", "users">>, {View("users")}, <<>>, {})
\* routes/_authenticated/directory.users.index.tsx:1-26 Route
UsersIndexRoute ==
  Searched(Plain(<<"directory", "users", "index">>),
           {"name", "email", "role", "department", "created_at", "updated_at"})
\* routes/_authenticated/directory.users.new.tsx:1-13 Route
UserNewRoute ==
  Route(<<"directory", "users", "new">>, {Edit("users")}, UsersIndexRoute.path, {})
\* routes/_authenticated/directory.users.$id.tsx:1-12 Route
UserRoute == Route(<<"directory", "users", "$id">>, {}, <<>>, {UserQuery})
\* routes/_authenticated/directory.users.$id.index.tsx:1-7 Route
UserIndexRoute == Plain(<<"directory", "users", "$id", "index">>)
\* routes/_authenticated/directory.users.$id.edit.tsx:1-16 Route
UserEditRoute ==
  Route(<<"directory", "users", "$id", "edit">>, {Edit("users")}, UserIndexRoute.path, {})

-----------------------------------------------------------------------------
(* Labels, hosts and software                                                *)

\* routes/_authenticated/labels.tsx:1-9 Route
LabelsRoute == Route(<<"labels">>, {View("labels")}, <<>>, {})
\* routes/_authenticated/labels.index.tsx:1-22 Route
LabelsIndexRoute ==
  Searched(Plain(<<"labels", "index">>),
           {"name", "label_type", "label_membership_type", "hosts_count", "updated_at"})
\* routes/_authenticated/labels.new.tsx:1-13 Route
LabelNewRoute == Route(<<"labels", "new">>, {Edit("labels")}, LabelsIndexRoute.path, {})
\* routes/_authenticated/labels.$id.tsx:1-12 Route
LabelRoute == Route(<<"labels", "$id">>, {}, <<>>, {LabelQuery})
\* routes/_authenticated/labels.$id.index.tsx:1-7 Route
LabelIndexRoute == Plain(<<"labels", "$id", "index">>)
\* routes/_authenticated/labels.$id.edit.tsx:1-16 Route
LabelEditRoute == Route(<<"labels", "$id", "edit">>, {Edit("labels")}, LabelIndexRoute.path, {})
\* routes/_authenticated/hosts.tsx:1-9 Route
HostsRoute == Route(<<"hosts">>, {View("hosts")}, <<>>, {})
\* routes/_authenticated/hosts.index.tsx:1-31 Route
HostsIndexRoute ==
  Searched(Plain(<<"hosts", "index">>),
           {"display_name", "hardware.serial", "hardware.model_identifier", "hardware.uuid",
            "os.version", "agents.osquery.version", "last_contact", "last_restarted_at",
            "storage.boot_volume.available_bytes", "hardware.memory_bytes",
            "network.primary_ip", "public_ip"})
\* routes/_authenticated/hosts.$id.tsx:1-14 Route
HostRoute == Route(<<"hosts", "$id">>, {}, <<>>, {HostQuery})
\* routes/_authenticated/hosts.$id.index.tsx:1-7 Route
HostIndexRoute == Plain(<<"hosts", "$id", "index">>)
\* routes/_authenticated/hosts.$id.activity.tsx:1-26 Route
HostActivityRoute == Route(<<"hosts", "$id", "activity">>, {View("activity")}, <<>>, {})
\* routes/_authenticated/hosts.$id.munki.tsx:1-10 Route
HostMunkiRoute == Route(<<"hosts", "$id", "munki">>, {View("munki.software")}, <<>>, {})
\* routes/_authenticated/hosts.$id.policies.tsx:1-26 Route
HostPoliciesRoute ==
  Searched(Route(<<"hosts", "$id", "policies">>, {View("osquery.policies")}, <<>>, {}),
           {"policy_name", "status", "updated_at"})
\* routes/_authenticated/hosts.$id.reports.tsx:1-29 Route
HostReportsRoute ==
  Searched(Route(<<"hosts", "$id", "reports">>, {View("osquery.reports")}, <<>>, {}),
           {"report_name", "status", "reported_at", "result_row_count"})
\* routes/_authenticated/hosts.$id.santa.tsx:1-13 Route
HostSantaRoute ==
  Route(<<"hosts", "$id", "santa">>,
        {View("santa.configurations"), View("santa.rules")}, <<>>, {})
\* routes/_authenticated/hosts.$id.software.tsx:1-24 Route
HostSoftwareRoute ==
  Searched(Route(<<"hosts", "$id", "software">>, {View("software")}, <<>>, {}),
           {"name", "version", "source", "last_opened_at"})
\* routes/_authenticated/software.tsx:1-9 Route
SoftwareRoute == Route(<<"software">>, {View("software")}, <<>>, {})
\* routes/_authenticated/software.index.tsx:1-16 Route
SoftwareIndexRoute ==
  Searched(Plain(<<"software", "index">>),
           {"name", "source", "hosts_count", "versions"})
\* routes/_authenticated/software.titles.$id.tsx:1-14 Route
SoftwareTitleRoute == Route(<<"software", "titles", "$id">>, {}, <<>>, {SoftwareTitleQuery})

-----------------------------------------------------------------------------
(* osquery                                                                   *)

\* routes/_authenticated/osquery.tsx:1-5 Route
OsqueryRoute == Plain(<<"osquery">>)
\* routes/_authenticated/osquery.index.tsx:1-10 Route
OsqueryIndexRoute == Route(<<"osquery", "index">>, {View("osquery.overview")}, <<>>, {})
\* routes/_authenticated/osquery.policies.tsx:1-9 Route
PoliciesRoute == Route(<<"osquery", "policies">>, {View("osquery.policies")}, <<>>, {})
\* routes/_authenticated/osquery.policies.index.tsx:1-21 Route
PoliciesIndexRoute ==
  Searched(Plain(<<"osquery", "policies", "index">>),
           {"name", "passing_host_count", "failing_host_count",
            "error_host_count", "pending_host_count", "remediation", "created_at",
            "updated_at"})
\* routes/_authenticated/osquery.policies.new.tsx:1-11 Route
PolicyNewRoute ==
  Route(<<"osquery", "policies", "new">>, {Edit("osquery.policies")}, PoliciesIndexRoute.path, {})
\* routes/_authenticated/osquery.policies.new.index.tsx:1-14 Route
PolicyNewIndexRoute == Plain(<<"osquery", "policies", "new", "index">>)
\* routes/_authenticated/osquery.policies.new.live.tsx:1-11 Route
PolicyNewLiveRoute ==
  Route(<<"osquery", "policies", "new", "live">>, {Edit("osquery.live-queries")}, <<>>, {})
\* routes/_authenticated/osquery.policies.$id.tsx:1-12 Route
PolicyRoute == Route(<<"osquery", "policies", "$id">>, {}, <<>>, {PolicyQuery})
\* routes/_authenticated/osquery.policies.$id.index.tsx:1-28 Route
PolicyIndexRoute ==
  Searched(Plain(<<"osquery", "policies", "$id", "index">>),
           {"host_name", "status", "remediation", "updated_at"})
\* routes/_authenticated/osquery.policies.$id.edit.tsx:1-22 Route
PolicyEditRoute ==
  Route(<<"osquery", "policies", "$id", "edit">>,
        {Edit("osquery.policies")}, PolicyIndexRoute.path, {})
\* routes/_authenticated/osquery.policies.$id.live.tsx:1-23 Route
PolicyLiveRoute ==
  Route(<<"osquery", "policies", "$id", "live">>,
        {View("osquery.policies"), Edit("osquery.live-queries")}, PolicyIndexRoute.path, {})
\* routes/_authenticated/osquery.reports.tsx:1-9 Route
ReportsRoute == Route(<<"osquery", "reports">>, {View("osquery.reports")}, <<>>, {})
\* routes/_authenticated/osquery.reports.index.tsx:1-20 Route
ReportsIndexRoute ==
  Searched(Plain(<<"osquery", "reports", "index">>),
           {"name", "collected_host_count",
            "error_host_count", "pending_host_count", "created_at",
            "updated_at", "schedule_interval"})
\* routes/_authenticated/osquery.reports.new.tsx:1-11 Route
ReportNewRoute ==
  Route(<<"osquery", "reports", "new">>, {Edit("osquery.reports")}, ReportsIndexRoute.path, {})
\* routes/_authenticated/osquery.reports.new.index.tsx:1-14 Route
ReportNewIndexRoute == Plain(<<"osquery", "reports", "new", "index">>)
\* routes/_authenticated/osquery.reports.new.live.tsx:1-11 Route
ReportNewLiveRoute ==
  Route(<<"osquery", "reports", "new", "live">>, {Edit("osquery.live-queries")}, <<>>, {})
\* routes/_authenticated/osquery.reports.$id.tsx:1-12 Route
ReportRoute == Route(<<"osquery", "reports", "$id">>, {}, <<>>, {ReportQuery})
\* routes/_authenticated/osquery.reports.$id.index.tsx:1-27 Route
ReportIndexRoute ==
  Searched(Plain(<<"osquery", "reports", "$id", "index">>),
           {"host_name", "status", "reported_at", "result_row_count"})
\* routes/_authenticated/osquery.reports.$id.edit.tsx:1-22 Route
ReportEditRoute ==
  Route(<<"osquery", "reports", "$id", "edit">>,
        {Edit("osquery.reports")}, ReportIndexRoute.path, {})
\* routes/_authenticated/osquery.reports.$id.live.tsx:1-23 Route
ReportLiveRoute ==
  Route(<<"osquery", "reports", "$id", "live">>,
        {View("osquery.reports"), Edit("osquery.live-queries")}, ReportIndexRoute.path, {})

-----------------------------------------------------------------------------
(* Santa                                                                     *)

\* routes/_authenticated/santa.tsx:1-5 Route
SantaRoute == Plain(<<"santa">>)
\* routes/_authenticated/santa.index.tsx:1-10 Route
SantaIndexRoute == Route(<<"santa", "index">>, {View("santa.configurations")}, <<>>, {})
\* routes/_authenticated/santa.configurations.tsx:1-9 Route
ConfigurationsRoute ==
  Route(<<"santa", "configurations">>, {View("santa.configurations")}, <<>>, {})
\* routes/_authenticated/santa.configurations.index.tsx:1-12 Route
ConfigurationsIndexRoute ==
  Searched(Plain(<<"santa", "configurations", "index">>),
           {"name", "description", "position", "updated_at"})
\* routes/_authenticated/santa.configurations.new.tsx:1-23 Route
ConfigurationNewRoute ==
  Route(<<"santa", "configurations", "new">>,
        {Edit("santa.configurations")}, ConfigurationsIndexRoute.path, {})
\* routes/_authenticated/santa.configurations.$id.tsx:1-14 Route
ConfigurationRoute ==
  Route(<<"santa", "configurations", "$id">>, {}, <<>>, {ConfigurationQuery})
\* routes/_authenticated/santa.configurations.$id.index.tsx:1-7 Route
ConfigurationIndexRoute == Plain(<<"santa", "configurations", "$id", "index">>)
\* routes/_authenticated/santa.configurations.$id.edit.tsx:1-26 Route
ConfigurationEditRoute ==
  Route(<<"santa", "configurations", "$id", "edit">>,
        {Edit("santa.configurations")}, ConfigurationIndexRoute.path, {})
\* routes/_authenticated/santa.rules.tsx:1-9 Route
RulesRoute == Route(<<"santa", "rules">>, {View("santa.rules")}, <<>>, {})
\* routes/_authenticated/santa.rules.index.tsx:1-22 Route
RulesIndexRoute ==
  Searched(Plain(<<"santa", "rules", "index">>),
           {"rule_type", "identifier", "name", "description", "updated_at"})
\* routes/_authenticated/santa.rules.new.tsx:1-23 Route
RuleNewRoute ==
  Route(<<"santa", "rules", "new">>, {Edit("santa.rules")}, RulesIndexRoute.path, {})
\* routes/_authenticated/santa.rules.$id.tsx:1-12 Route
RuleRoute == Route(<<"santa", "rules", "$id">>, {}, <<>>, {RuleQuery})
\* routes/_authenticated/santa.rules.$id.index.tsx:1-7 Route
RuleIndexRoute == Plain(<<"santa", "rules", "$id", "index">>)
\* routes/_authenticated/santa.rules.$id.edit.tsx:1-22 Route
RuleEditRoute ==
  Route(<<"santa", "rules", "$id", "edit">>, {Edit("santa.rules")}, RuleIndexRoute.path, {})
\* routes/_authenticated/santa.events.tsx:1-9 Route
EventsRoute == Route(<<"santa", "events">>, {View("santa.events")}, <<>>, {})
\* routes/_authenticated/santa.events.index.tsx:1-26 Route
EventsIndexRoute ==
  Searched(Plain(<<"santa", "events", "index">>),
           {"occurred_at", "ingested_at", "decision", "host", "host_id",
            "executing_user", "file_name"})
\* routes/_authenticated/santa.events.$id.tsx:1-25 Route
EventRoute == Route(<<"santa", "events", "$id">>, {}, <<>>, {ExecutionQuery})
\* routes/_authenticated/santa.events.file-access.tsx:1-5 Route
FileAccessesRoute == Plain(<<"santa", "events", "file-access">>)
\* routes/_authenticated/santa.events.file-access.index.tsx:1-25 Route
FileAccessesIndexRoute ==
  Searched(Plain(<<"santa", "events", "file-access", "index">>),
           {"occurred_at", "ingested_at", "decision", "host", "host_id", "rule_name", "target"})
\* routes/_authenticated/santa.events.file-access.$id.tsx:1-25 Route
FileAccessRoute ==
  Route(<<"santa", "events", "file-access", "$id">>, {}, <<>>, {FileAccessQuery})

-----------------------------------------------------------------------------
(* Munki                                                                     *)

\* routes/_authenticated/munki.tsx:1-5 Route
MunkiRoute == Plain(<<"munki">>)
\* routes/_authenticated/munki.index.tsx:1-10 Route
MunkiIndexRoute == Route(<<"munki", "index">>, {View("munki.software")}, <<>>, {})
\* routes/_authenticated/munki.client-resources.tsx:1-11 Route
ClientResourcesRoute ==
  Route(<<"munki", "client-resources">>, {View("munki.client-resources")}, <<>>, {})
\* routes/_authenticated/munki.distribution-points.tsx:1-12 Route
PointsRoute ==
  Route(<<"munki", "distribution-points">>, {View("munki.distribution-points")}, <<>>, {})
\* routes/_authenticated/munki.distribution-points.index.tsx:1-12 Route
PointsIndexRoute ==
  Searched(Plain(<<"munki", "distribution-points", "index">>),
           {"name", "position"})
\* routes/_authenticated/munki.distribution-points.new.tsx:1-17 Route
PointNewRoute ==
  Route(<<"munki", "distribution-points", "new">>,
        {Edit("munki.distribution-points")}, PointsIndexRoute.path, {})
\* routes/_authenticated/munki.distribution-points.$id.tsx:1-17 Route
PointRoute == Route(<<"munki", "distribution-points", "$id">>, {}, <<>>, {PointQuery})
\* routes/_authenticated/munki.distribution-points.$id.index.tsx:1-7 Route
PointIndexRoute == Plain(<<"munki", "distribution-points", "$id", "index">>)
\* routes/_authenticated/munki.distribution-points.$id.edit.tsx:1-20 Route
PointEditRoute ==
  Route(<<"munki", "distribution-points", "$id", "edit">>,
        {Edit("munki.distribution-points")}, PointIndexRoute.path, {})
\* routes/_authenticated/munki.packages.tsx:1-9 Route
MunkiPackagesRoute == Route(<<"munki", "packages">>, {View("munki.packages")}, <<>>, {})
\* routes/_authenticated/munki.packages.index.tsx:1-23 Route
MunkiPackagesIndexRoute ==
  Searched(Plain(<<"munki", "packages", "index">>),
           {"software_name", "software_display_name", "version", "type", "size", "updated_at"})
\* routes/_authenticated/munki.packages.new.tsx:1-21 Route
MunkiPackageNewRoute ==
  Route(<<"munki", "packages", "new">>,
        {Edit("munki.packages")}, MunkiPackagesIndexRoute.path, {})
\* routes/_authenticated/munki.packages.$id.tsx:1-17 Route
MunkiPackageRoute == Route(<<"munki", "packages", "$id">>, {}, <<>>, {MunkiPackageQuery})
\* routes/_authenticated/munki.packages.$id.index.tsx:1-7 Route
MunkiPackageIndexRoute == Plain(<<"munki", "packages", "$id", "index">>)
\* routes/_authenticated/munki.packages.$id.edit.tsx:1-23 Route
MunkiPackageEditRoute ==
  Route(<<"munki", "packages", "$id", "edit">>,
        {Edit("munki.packages")}, MunkiPackageIndexRoute.path, {})
\* routes/_authenticated/munki.software.tsx:1-9 Route
MunkiSoftwareRoute == Route(<<"munki", "software">>, {View("munki.software")}, <<>>, {})
\* routes/_authenticated/munki.software.index.tsx:1-18 Route
MunkiSoftwareIndexRoute ==
  Searched(Plain(<<"munki", "software", "index">>),
           {"name", "display_name", "category", "developer", "updated_at"})
\* routes/_authenticated/munki.software.new.tsx:1-13 Route
MunkiSoftwareNewRoute ==
  Route(<<"munki", "software", "new">>,
        {Edit("munki.software")}, MunkiSoftwareIndexRoute.path, {})
\* routes/_authenticated/munki.software.$id.tsx:1-12 Route
MunkiTitleRoute == Route(<<"munki", "software", "$id">>, {}, <<>>, {MunkiSoftwareQuery})
\* routes/_authenticated/munki.software.$id.index.tsx:1-7 Route
MunkiTitleIndexRoute == Plain(<<"munki", "software", "$id", "index">>)
\* routes/_authenticated/munki.software.$id.edit.tsx:1-22 Route
MunkiTitleEditRoute ==
  Route(<<"munki", "software", "$id", "edit">>,
        {Edit("munki.software")}, MunkiTitleIndexRoute.path, {})

-----------------------------------------------------------------------------
\* routeTree.gen.ts:1876-1947 AuthenticatedDirectoryRouteWithChildren
DirectoryRoutes ==
  {DirectoryRoute, DirectoryIndexRoute, GroupsRoute, GroupsIndexRoute, UsersRoute,
   UsersIndexRoute, UserNewRoute, UserRoute, UserIndexRoute, UserEditRoute}
\* routeTree.gen.ts:1949-2013 AuthenticatedHostsRouteWithChildren
InventoryRoutes ==
  {LabelsRoute, LabelsIndexRoute, LabelNewRoute, LabelRoute, LabelIndexRoute, LabelEditRoute,
   HostsRoute, HostsIndexRoute, HostRoute, HostIndexRoute, HostActivityRoute, HostMunkiRoute,
   HostPoliciesRoute, HostReportsRoute, HostSantaRoute, HostSoftwareRoute}
\* routeTree.gen.ts:2149-2284 AuthenticatedOsqueryRouteWithChildren
OsqueryRoutes ==
  {OsqueryRoute, OsqueryIndexRoute, PoliciesRoute, PoliciesIndexRoute, PolicyNewRoute,
   PolicyNewIndexRoute, PolicyNewLiveRoute, PolicyRoute, PolicyIndexRoute, PolicyEditRoute,
   PolicyLiveRoute, ReportsRoute, ReportsIndexRoute, ReportNewRoute, ReportNewIndexRoute,
   ReportNewLiveRoute, ReportRoute, ReportIndexRoute, ReportEditRoute, ReportLiveRoute}
\* routeTree.gen.ts:2286-2412 AuthenticatedSantaRouteWithChildren
SantaRoutes ==
  {SantaRoute, SantaIndexRoute, ConfigurationsRoute, ConfigurationsIndexRoute,
   ConfigurationNewRoute, ConfigurationRoute, ConfigurationIndexRoute, ConfigurationEditRoute,
   RulesRoute, RulesIndexRoute, RuleNewRoute, RuleRoute, RuleIndexRoute, RuleEditRoute,
   EventsRoute, EventsIndexRoute, EventRoute, FileAccessesRoute, FileAccessesIndexRoute,
   FileAccessRoute}
\* routeTree.gen.ts:2015-2147 AuthenticatedMunkiRouteWithChildren
MunkiRoutes ==
  {MunkiRoute, MunkiIndexRoute, ClientResourcesRoute, PointsRoute, PointsIndexRoute,
   PointNewRoute, PointRoute, PointIndexRoute, PointEditRoute, MunkiPackagesRoute,
   MunkiPackagesIndexRoute, MunkiPackageNewRoute, MunkiPackageRoute, MunkiPackageIndexRoute,
   MunkiPackageEditRoute, MunkiSoftwareRoute, MunkiSoftwareIndexRoute, MunkiSoftwareNewRoute,
   MunkiTitleRoute, MunkiTitleIndexRoute, MunkiTitleEditRoute}
\* routeTree.gen.ts:2414-2466 routeTree
Routes ==
  {AccountRoute, ActivityRoute, SoftwareRoute, SoftwareIndexRoute, SoftwareTitleRoute}
    \cup DirectoryRoutes \cup InventoryRoutes \cup OsqueryRoutes \cup SantaRoutes
    \cup MunkiRoutes

(* The layouts a page lies under, itself the last, in the order their       *)
(* guards run.                                                              *)
\* external matchRoutes
Matched(path) == SelectSeq([n \in 1..Len(path) |-> SubSeq(path, 1, n)],
                           LAMBDA p : \E r \in Routes : r.path = p)
\* external matchRoutes
RouteAt(path) == CHOOSE r \in Routes : r.path = path
=============================================================================
