---------------------------- MODULE ConsoleInventory ----------------------------
(***************************************************************************)
(* The pages of labels, hosts and their software.                          *)
(***************************************************************************)
EXTENDS ConsolePeople

-----------------------------------------------------------------------------
(* Labels                                                                   *)

\* features/labels/components/label-chips.tsx:6-29 LabelChips
LabelChips == Part({}, {}, {LinkTo(HostsIndexRoute.path, {})})
\* features/labels/components/label-ref-list.tsx:9-42 LabelRefList
LabelRefList == Part(Reads({LabelsQuery}), {}, {LinkTo(LabelIndexRoute.path, {})})
\* components/targeting/target-details.tsx:11-75 LabelTargetDetails
LabelTargetDetails == LabelRefList
\* features/labels/components/label-picker.tsx:38-201 LabelPicker
LabelPicker == Part(Reads({LabelsQuery}), {}, {})
\* components/targeting/label-target-set-editor.tsx:4-39 LabelTargetSetEditor
LabelTargetSetEditor == LabelPicker
\* components/targeting/label-assignment-list.tsx:42-215 LabelAssignmentList
LabelAssignmentList == LabelPicker

\* features/labels/list.tsx:36-111 labelColumns
LabelColumns ==
  Part(Every(30, Sorted(LabelsQuery,
                        {"name", "label_membership_type", "hosts_count", "updated_at"})), {},
       Links({LabelIndexRoute.path, HostsIndexRoute.path}, {}))
\* features/labels/list.tsx:211-229 LabelRowActions
LabelRowActions ==
  Part({}, {Offer(DeleteLabel, {Edit("labels")}, <<>>)},
       {LinkTo(LabelEditRoute.path, {Edit("labels")})})
\* features/labels/list.tsx:113-209 LabelListPage
LabelListPage ==
  Page(LabelsIndexRoute.path,
       {LabelColumns, LabelRowActions,
        Part({}, {}, {LinkTo(LabelNewRoute.path, {Edit("labels")})})}, "")

\* features/labels/detail.tsx:101-192 MembershipCard
MembershipCard ==
  Part(Reads({GroupsQuery, UsersQuery}), {}, {LinkTo(UserIndexRoute.path, {})})
\* features/labels/delete-dialog.tsx:6-43 LabelDeleteDialog
LabelDeleteDialog(goes) == Part({}, {Offer(DeleteLabel, {Edit("labels")}, goes)}, {})
\* features/labels/detail.tsx:25-99 LabelDetailPage
LabelDetailPage ==
  Page(LabelIndexRoute.path,
       {Part(Reads({LabelQuery}), {}, {LinkTo(LabelEditRoute.path, {Edit("labels")})}),
        MembershipCard, LabelDeleteDialog(LabelsIndexRoute.path)}, "")

\* features/labels/components/label-membership-selectors.tsx:32-93 HostSelector
HostSelector ==
  Part(Sorted(HostsQuery, {"display_name", "hardware.serial", "hardware.model_identifier"}),
       {}, {})
\* features/labels/components/label-membership-selectors.tsx:115-161 DepartmentSelector
DepartmentSelector == Part(Sorted(DepartmentsQuery, {"value"}), {}, {})
\* features/labels/components/label-membership-selectors.tsx:163-214 GroupSelector
GroupSelector == Part(Sorted(GroupsQuery, {"display_name", "mail_nickname"}), {}, {})
\* features/labels/components/label-membership-selectors.tsx:216-267 UserSelector
UserSelector == Part(Sorted(UsersQuery, {"name", "department"}), {}, {})
\* features/labels/components/label-membership-selectors.tsx:95-113 DerivedSelector
DerivedSelector ==
  Part(DepartmentSelector.reads \cup GroupSelector.reads \cup UserSelector.reads, {}, {})
\* features/labels/create.tsx:6-24 LabelCreatePage
LabelCreatePage ==
  Page(LabelNewRoute.path,
       {HostSelector, DerivedSelector,
        Part({}, {Offer(CreateLabel, {}, LabelIndexRoute.path)},
             {LinkTo(LabelsIndexRoute.path, {})})}, "guarded")
\* features/labels/edit.tsx:9-60 LabelEditPage
LabelEditPage ==
  Page(LabelEditRoute.path,
       {HostSelector, DerivedSelector,
        Part(Reads({LabelQuery}), {Offer(UpdateLabel, {}, LabelIndexRoute.path)},
             {LinkTo(LabelIndexRoute.path, {})})}, "guarded")

-----------------------------------------------------------------------------
(* Hosts                                                                    *)

\* features/hosts/list.tsx:193-342 hostColumns
HostColumns == Part(Every(30, Sorted(HostsQuery, HostOrders)), {},
                    {LinkTo(HostIndexRoute.path, {})})
\* features/hosts/list.tsx:372-402 LabelFilterChip
HostFilterChips == Part(Reads({LabelQuery, SoftwareTitleQuery}), {}, {})
\* features/hosts/list.tsx:43-190 HostListPage
HostListPage ==
  Page(HostsIndexRoute.path,
       {HostColumns, HostFilterChips, AgentSecretsDialog,
        Part({}, {Offer(BulkDeleteHosts, {Edit("hosts")}, <<>>)}, {})}, "")

(* Every page of a host is shown under its header and tabs.  A host asked   *)
(* for a refresh is read every 2 seconds, any other every 30.               *)
\* features/hosts/detail.tsx:44-88 hostSections
HostSections ==
  {LinkTo(HostIndexRoute.path, {}), LinkTo(HostActivityRoute.path, {View("activity")}),
   LinkTo(HostSoftwareRoute.path, {View("software")}),
   LinkTo(HostReportsRoute.path, {View("osquery.reports")}),
   LinkTo(HostPoliciesRoute.path, {View("osquery.policies")}),
   LinkTo(HostMunkiRoute.path, {View("munki.software")}),
   LinkTo(HostSantaRoute.path, {View("santa.configurations"), View("santa.rules")})}
\* features/hosts/detail.tsx:227-262 HostSectionNav
HostSectionNav == Part(Reads({AccountQuery}), {}, HostSections)
\* features/hosts/delete-dialog.tsx:6-46 HostDeleteDialog
HostDeleteDialog == Part({}, {Offer(DeleteHost, {Edit("hosts")}, HostsIndexRoute.path)}, {})
\* features/hosts/detail.tsx:89-157 HostDetailPage
HostDetailPage ==
  Part(Every(2, Reads({HostQuery})) \cup HostSectionNav.reads,
       {Offer(RequestInventoryRefresh, {Edit("hosts")}, <<>>)} \cup HostDeleteDialog.offers,
       HostSectionNav.links)

\* features/hosts/components/host-public-ip.tsx:7-110 HostPublicIP
HostPublicIP == Part({}, {}, {LinkTo(PointIndexRoute.path, {})})
\* features/hosts/components/host-detail-cards.tsx:40-91 HostInfoCard
HostInfoCard == HostPublicIP
\* features/hosts/components/host-detail-cards.tsx:182-298 HostPrimaryUserDialog
HostPrimaryUserDialog ==
  Part({}, {Offer(m, {Edit("hosts")}, <<>>) : m \in {SetPrimaryUser, ClearPrimaryUser}}, {})
\* features/hosts/components/host-detail-cards.tsx:93-130 HostIdentityCard
HostIdentityCard == HostPrimaryUserDialog
\* features/hosts/components/host-detail-cards.tsx:132-143 HostLabelsCard
HostLabelsCard == LabelChips
\* features/hosts/detail.tsx:159-185 HostDetailsPage
HostDetailsPage ==
  Page(HostIndexRoute.path,
       {HostDetailPage, Part(Reads({HostQuery}), {}, {}), HostInfoCard, HostIdentityCard,
        HostLabelsCard}, "")
\* routes/_authenticated/hosts.$id.activity.tsx:1-26 Route
HostActivityPage == Page(HostActivityRoute.path, {HostDetailPage, HostActivityTab}, "")
\* features/hosts/components/host-software-tab.tsx:42-188 HostSoftwareTab
HostSoftwareTab ==
  Part(Sorted(HostSoftwareQuery, {"name", "version", "source", "last_opened_at"}), {},
       {LinkTo(SoftwareTitleRoute.path, {})})
\* features/hosts/detail.tsx:187-189 HostSoftwarePage
HostSoftwarePage == Page(HostSoftwareRoute.path, {HostDetailPage, HostSoftwareTab}, "")
\* features/hosts/components/host-osquery-reports-tab.tsx:30-195 HostOsqueryReportsTab
HostOsqueryReportsTab ==
  Part(Sorted(HostReportsQuery, {"report_name", "status", "reported_at", "result_row_count"}),
       {}, {LinkTo(ReportIndexRoute.path, {})})
\* features/hosts/detail.tsx:191-193 HostReportsPage
HostReportsPage == Page(HostReportsRoute.path, {HostDetailPage, HostOsqueryReportsTab}, "")
\* features/hosts/components/host-osquery-policies-tab.tsx:23-136 HostOsqueryPoliciesTab
HostOsqueryPoliciesTab ==
  Part(Sorted(HostPoliciesQuery, {"policy_name", "status", "updated_at"}), {},
       {LinkTo(PolicyIndexRoute.path, {})})
\* features/hosts/detail.tsx:195-197 HostPoliciesPage
HostPoliciesPage == Page(HostPoliciesRoute.path, {HostDetailPage, HostOsqueryPoliciesTab}, "")
\* features/hosts/components/host-munki-tab.tsx:69-210 HostMunkiTab
HostMunkiTab ==
  Part(Reads({HostMunkiSoftwareQuery}), {}, {LinkTo(MunkiTitleIndexRoute.path, {})})
\* features/hosts/detail.tsx:199-212 HostMunkiPage
HostMunkiPage ==
  Page(HostMunkiRoute.path,
       {HostDetailPage, HostMunkiTab, Part(Reads({HostQuery, HostMunkiStateQuery}), {}, {})}, "")
\* features/hosts/components/host-santa-tab.tsx:19-168 HostSantaTab
HostSantaTab ==
  Part(Reads({HostSantaRulesQuery}), {},
       Links({RuleIndexRoute.path, EventsIndexRoute.path, ConfigurationIndexRoute.path}, {}))
\* features/hosts/detail.tsx:214-225 HostSantaPage
HostSantaPage ==
  Page(HostSantaRoute.path,
       {HostDetailPage, HostSantaTab, Part(Reads({HostSantaStateQuery}), {}, {})}, "")

-----------------------------------------------------------------------------
(* Software inventory                                                       *)

\* features/software/list.tsx:110-176 softwareColumns
SoftwareColumns ==
  Part(Every(30, Sorted(SoftwareQuery, {"name", "versions", "source", "hosts_count"})), {},
       Links({SoftwareTitleRoute.path, HostsIndexRoute.path}, {}))
\* features/software/list.tsx:31-108 SoftwareListPage
SoftwareListPage == Page(SoftwareIndexRoute.path, {SoftwareColumns}, "")
\* features/software/detail.tsx:50-146 SoftwareSummary
SoftwareSummary == Part({}, {}, {LinkTo(HostsIndexRoute.path, {})})
\* features/software/detail.tsx:23-48 SoftwareDetailPage
SoftwareDetailPage ==
  Page(SoftwareTitleRoute.path,
       {Part(Every(30, Reads({SoftwareTitleQuery})), {}, {}), SoftwareSummary}, "")

\* routes/_authenticated.tsx:1-12 Route
InventoryPages ==
  {LabelListPage, LabelDetailPage, LabelCreatePage, LabelEditPage, HostListPage,
   HostDetailsPage, HostActivityPage, HostSoftwarePage, HostReportsPage, HostPoliciesPage,
   HostMunkiPage, HostSantaPage, SoftwareListPage, SoftwareDetailPage}
=============================================================================
