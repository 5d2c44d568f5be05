----------------------------- MODULE ConsoleLayout -----------------------------
(***************************************************************************)
(* What surrounds the pages: the permissions an account holds, the guard   *)
(* of every route, the sidebar, and the breadcrumbs.                       *)
(***************************************************************************)
EXTENDS ConsoleMunki

\* routeTree.gen.ts:2442-2458 AuthenticatedRouteWithChildren
Pages == PeoplePages \cup InventoryPages \cup OsqueryPages \cup SantaPages \cup MunkiPages
\* routeTree.gen.ts:2442-2458 AuthenticatedRouteWithChildren
PagePaths == {p.path : p \in Pages}
\* routeTree.gen.ts:2442-2458 AuthenticatedRouteWithChildren
PageAt(path) == CHOOSE p \in Pages : p.path = path
\* lib/api.ts:68-79 unwrap
Queries == {r.query : r \in UNION {p.reads : p \in Pages}} \cup UNION {r.loads : r \in Routes}
\* query-client.ts:6-29 queryClient
Mutations == {o.mutation : o \in UNION {p.offers : p \in Pages}}

-----------------------------------------------------------------------------
(* Accounts: the roles the migrations seed, or none                         *)

\* src/internal/postgres/migrations/20260901090000_authz.sql:36-61 resource
Resources ==
  {"activity", "users", "groups", "directory", "hosts", "labels", "software",
   "agents.secrets", "munki.software", "munki.packages", "munki.distribution-points",
   "munki.client-resources", "osquery.overview", "osquery.reports", "osquery.policies",
   "osquery.live-queries", "osquery.remediations", "santa.configurations", "santa.events",
   "santa.rules"}
\* src/internal/postgres/migrations/20260901090000_authz.sql:63-84 viewer
ViewerResources ==
  Resources \ {"agents.secrets", "osquery.live-queries", "osquery.remediations"}
\* src/internal/postgres/migrations/20260901090000_authz.sql:31-34 authz_roles
Roles == {"admin", "viewer", "none"}
(* The accesses are ordered: who may edit may view.                         *)
\* src/internal/postgres/migrations/20260901090000_authz.sql:36-84 authz_role_permissions
Permissions ==
  [admin  |-> {View(r) : r \in Resources} \cup {Edit(r) : r \in Resources},
   viewer |-> {View(r) : r \in ViewerResources},
   none   |-> {}]
\* features/authz/access.tsx:1-13 useCan
Can(role, needs) == needs \subseteq Permissions[role]

-----------------------------------------------------------------------------
(* The sidebar                                                              *)

(* An entry leads to a page under a permission; a group has none, and       *)
(* stands for the entries in it.                                            *)
\* components/layout/nav-config.ts:14-31 NavItem
NavItem(to, needs) == [to |-> to, needs |-> needs]
\* components/layout/nav-config.ts:33-52 navSections
InventoryItems ==
  <<NavItem(HostsIndexRoute.path, {View("hosts")}),
    NavItem(SoftwareIndexRoute.path, {View("software")})>>
\* components/layout/nav-config.ts:53-140 navSections
IntegrationItems ==
  <<NavItem(OsqueryIndexRoute.path, {View("osquery.overview")}),
    NavItem(ReportsIndexRoute.path, {View("osquery.reports")}),
    NavItem(PoliciesIndexRoute.path, {View("osquery.policies")}),
    NavItem(SantaIndexRoute.path, {View("santa.configurations")}),
    NavItem(ConfigurationsIndexRoute.path, {View("santa.configurations")}),
    NavItem(RulesIndexRoute.path, {View("santa.rules")}),
    NavItem(EventsIndexRoute.path, {View("santa.events")}),
    NavItem(MunkiIndexRoute.path, {View("munki.software")}),
    NavItem(MunkiSoftwareIndexRoute.path, {View("munki.software")}),
    NavItem(MunkiPackagesIndexRoute.path, {View("munki.packages")}),
    NavItem(PointsIndexRoute.path, {View("munki.distribution-points")}),
    NavItem(ClientResourcesRoute.path, {View("munki.client-resources")})>>
\* components/layout/nav-config.ts:141-178 navSections
SystemItems ==
  <<NavItem(DirectoryIndexRoute.path, {View("directory")}),
    NavItem(UsersIndexRoute.path, {View("users")}),
    NavItem(GroupsIndexRoute.path, {View("groups")}),
    NavItem(LabelsIndexRoute.path, {View("labels")})>>
\* components/layout/navigation.ts:7-23 filterNavigation
FilterNavigation(items, role) == SelectSeq(items, LAMBDA item : Can(role, item.needs))
\* components/layout/nav-config.ts:180-187 visibleNavSections
VisibleItems(role) ==
  FilterNavigation(InventoryItems \o IntegrationItems \o SystemItems, role)
\* components/layout/nav-config.ts:189-191 firstAccessiblePath
FirstAccessible(role) ==
  IF VisibleItems(role) = <<>> THEN AccountRoute.path ELSE Head(VisibleItems(role)).to
\* components/layout/app-sidebar.tsx:85-174 SidebarNavGroup
SidebarNavGroup(role) == {item.to : item \in Range(VisibleItems(role))}
\* components/layout/app-sidebar.tsx:176-246 SidebarUserMenu
SidebarUserMenu(role) ==
  {AccountRoute.path} \cup {p \in {ActivityRoute.path} : Can(role, {View("activity")})}
\* components/layout/app-sidebar.tsx:46-68 AppSidebar
AppSidebar(role) ==
  {FirstAccessible(role)} \cup SidebarNavGroup(role) \cup SidebarUserMenu(role)

-----------------------------------------------------------------------------
(* Guards, loaders and breadcrumbs                                          *)

(* The guards of a page's layouts run from the outermost; the first that    *)
(* refuses decides where the browser goes instead.                          *)
(* Mutant: a page's own guard alone, without those of the layouts around it. *)
RefusingPage(role, path) ==
  SelectSeq(Matched(path), LAMBDA p : p = path /\ ~Can(role, RouteAt(p).needs))
\* features/authn/guards.ts:26-43 requirePermissions
Refusing(role, path) ==
  SelectSeq(Matched(path), LAMBDA p : ~Can(role, RouteAt(p).needs))
\* features/authn/guards.ts:26-43 requirePermissions
TurnedAway(role, path) == Refusing(role, path) # <<>>
(* Mutant: to the first page of all, whoever asks.                           *)
RedirectToHosts(role, path) == HostsIndexRoute.path
\* features/authn/guards.ts:26-43 requirePermissions
Redirect(role, path) ==
  LET route == RouteAt(Head(Refusing(role, path)))
  IN IF route.refused = <<>> THEN FirstAccessible(role) ELSE route.refused

\* lib/resource-loader.ts:8-23 loadResource
Loads(path) == UNION {RouteAt(p).loads : p \in Range(Matched(path))}
(* The routes that load a record name it in the breadcrumbs, which watch it *)
(* for as long as the browser stays under that route.                       *)
\* components/layout/app-breadcrumbs.tsx:45-68 useBreadcrumbs
Crumbs(path) == {p \in Range(Matched(path)) : RouteAt(p).loads # {}}

(* Everything a page asks for, the layout's own reads included.             *)
\* app-layout.tsx:9-35 AppLayout
ReadsOf(p) == p.reads \cup Reads({AccountQuery, SessionQuery} \cup Loads(p.path))
\* features/authz/access.tsx:1-13 AuthzProvider
Enabled(role, p) == {r \in ReadsOf(p) : Can(role, r.when)}
\* features/authz/access.tsx:1-13 AuthzProvider
Offered(role, p) == {o \in p.offers : Can(role, o.when)}
\* features/authz/access.tsx:1-13 AuthzProvider
Linked(role, p) == AppSidebar(role) \cup {l.to : l \in {l \in p.links : Can(role, l.when)}}
=============================================================================
