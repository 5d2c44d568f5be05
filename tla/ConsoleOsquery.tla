----------------------------- MODULE ConsoleOsquery -----------------------------
(***************************************************************************)
(* The pages of osquery: policies, reports and their live runs.            *)
(***************************************************************************)
EXTENDS ConsoleInventory

-----------------------------------------------------------------------------
(* History and live runs                                                    *)

\* features/osquery/history/host-status-chart.tsx:70-142 HostStatusChart
HostStatusChart == Part(Reads({HostHistoryQuery}), {}, {})
\* features/osquery/history/policy-status-chart.tsx:74-144 PolicyStatusChart
PolicyStatusChart == Part(Reads({PolicyHistoryQuery}), {}, {})

\* features/osquery/live/query-actions.tsx:40-58 LiveRunButton
LiveRunButton(live) == Part({}, {}, {LinkTo(live, {Edit("osquery.live-queries")})})
\* features/osquery/live/live-runner.tsx:335-438 TargetPicker
TargetPicker ==
  Part(LabelPicker.reads \cup ReadsIf({Edit("osquery.live-queries")}, {HostsQuery}), {}, {})
\* features/osquery/live/live-runner.tsx:61-193 LiveRunner
LiveRunner ==
  Part(TargetPicker.reads \cup ReadsIf({Edit("osquery.live-queries")}, {TargetCountQuery}),
       {Offer(m, {Edit("osquery.live-queries")}, <<>>) : m \in {CreateLiveQuery, StopLiveQuery}},
       {})
(* Without the query in the history entry only a way back to the list.      *)
\* features/osquery/live/page.tsx:17-62 OsqueryLivePage
OsqueryLivePage(path, list) ==
  Page(path, {LiveRunner, Part({}, {}, {LinkTo(list, {})})}, "")
\* features/osquery/live/page.tsx:64-66 ReportLivePage
ReportLivePages ==
  {OsqueryLivePage(p, ReportsIndexRoute.path) :
     p \in {ReportNewLiveRoute.path, ReportLiveRoute.path}}
\* features/osquery/live/page.tsx:68-70 PolicyLivePage
PolicyLivePages ==
  {OsqueryLivePage(p, PoliciesIndexRoute.path) :
     p \in {PolicyNewLiveRoute.path, PolicyLiveRoute.path}}

\* features/osquery/overview.tsx:14-53 OsqueryOverviewPage
OsqueryOverviewPage ==
  Page(OsqueryIndexRoute.path,
       {Part(Reads({ReportsQuery, PoliciesQuery}), {},
             Links({ReportsIndexRoute.path, PoliciesIndexRoute.path}, {})),
        HostStatusChart, RecentOsqueryActivityCard}, "")

-----------------------------------------------------------------------------
(* Policies.  Their form, and the reports', offers a live run to everyone    *)
(* who can edit.                                                            *)

\* features/osquery/policies/list.tsx:143-271 policyColumns
PolicyColumns ==
  Part(Sorted(PoliciesQuery, PolicyOrders \ {"created_at"}), {},
       {LinkTo(PolicyIndexRoute.path, {})})
\* features/osquery/policies/list.tsx:272-310 PolicyActionsCell
PolicyActionsCell ==
  Part({}, {Offer(DeletePolicy, {Edit("osquery.policies")}, <<>>)},
       {LinkTo(PolicyEditRoute.path, {Edit("osquery.policies")})})
\* features/osquery/policies/list.tsx:50-141 PolicyListPage
PolicyListPage ==
  Page(PoliciesIndexRoute.path,
       {PolicyColumns, PolicyActionsCell,
        Part({}, {Offer(BulkDeletePolicies, {Edit("osquery.policies")}, <<>>)},
             {LinkTo(PolicyNewIndexRoute.path, {Edit("osquery.policies")})})}, "")

\* features/osquery/policies/query-results.tsx:51-147 createPolicyResultColumns
PolicyResultColumns ==
  Part(Sorted(PolicyResultsQuery, {"host_name", "status", "updated_at", "remediation"}), {},
       {LinkTo(HostIndexRoute.path, {})})
\* features/osquery/policies/remediation-dialog.tsx:15-76 PolicyRemediationDialog
PolicyRemediationDialog ==
  Part(ReadsIf({View("osquery.remediations")}, {RemediationRunQuery}), {}, {})
\* features/osquery/policies/results-action-bar.tsx:18-79 PolicyResultsActionBar
PolicyResultsActionBar ==
  Part({}, {Offer(RunRemediations, {Edit("osquery.remediations")}, <<>>)}, {})
\* features/osquery/policies/delete-dialog.tsx:14-49 PolicyDeleteDialog
PolicyDeleteDialog ==
  Part({}, {Offer(DeletePolicy, {Edit("osquery.policies")}, PoliciesIndexRoute.path)}, {})
\* features/osquery/policies/detail.tsx:89-228 PolicyDetailPage
PolicyDetailHeader ==
  Part(Reads({PolicyQuery}) \cup ReadsIf({View("osquery.remediations")},
                                         {RemediationSourceQuery}),
       {}, LiveRunButton(PolicyLiveRoute.path).links
             \cup {LinkTo(PolicyEditRoute.path, {Edit("osquery.policies")})})
\* features/osquery/policies/detail.tsx:229-431 PolicyDetailPage
PolicyDetailPage ==
  Page(PolicyIndexRoute.path,
       {PolicyDetailHeader, PolicyStatusChart, LabelTargetDetails, PolicyResultColumns,
        PolicyResultsActionBar, PolicyRemediationDialog, PolicyDeleteDialog}, "")

\* features/osquery/policies/fields.tsx:115-430 PolicyForm
PolicyForm(live) == Part(LabelTargetSetEditor.reads, {}, {LinkTo(live, {})})
\* features/osquery/policies/create.tsx:14-67 PolicyCreatePage
PolicyCreatePage ==
  Page(PolicyNewIndexRoute.path,
       {PolicyForm(PolicyNewLiveRoute.path),
        Part({}, {Offer(CreatePolicy, {}, PolicyIndexRoute.path)},
             {LinkTo(PoliciesIndexRoute.path, {})})}, "guarded")
(* Saving another query offers to run the remediations of the hosts failing. *)
\* features/osquery/policies/edit.tsx:23-156 PolicyEditPage
PolicyEditPage ==
  Page(PolicyEditRoute.path,
       {PolicyForm(PolicyLiveRoute.path),
        Part(Reads({PolicyQuery, RemediationSourceQuery}),
             {Offer(UpdatePolicy, {}, PolicyIndexRoute.path),
              Offer(RunRemediations, {Edit("osquery.remediations")}, PolicyIndexRoute.path)},
             {LinkTo(PolicyIndexRoute.path, {})})}, "guarded")

-----------------------------------------------------------------------------
(* Reports                                                                  *)

\* features/osquery/reports/list.tsx:133-232 reportColumns
ReportColumns ==
  Part(Sorted(ReportsQuery, ReportOrders \ {"created_at"}), {},
       {LinkTo(ReportIndexRoute.path, {})})
\* features/osquery/reports/list.tsx:234-272 ReportActionsCell
ReportActionsCell ==
  Part({}, {Offer(DeleteReport, {Edit("osquery.reports")}, <<>>)},
       {LinkTo(ReportEditRoute.path, {Edit("osquery.reports")})})
\* features/osquery/reports/list.tsx:40-131 ReportListPage
ReportListPage ==
  Page(ReportsIndexRoute.path,
       {ReportColumns, ReportActionsCell,
        Part({}, {Offer(BulkDeleteReports, {Edit("osquery.reports")}, <<>>)},
             {LinkTo(ReportNewIndexRoute.path, {Edit("osquery.reports")})})}, "")

\* features/osquery/reports/query-results.tsx:66-133 createReportResultColumns
ReportResultColumns ==
  Part(Sorted(SnapshotsQuery, {"reported_at", "host_name", "status", "result_row_count"}), {},
       {LinkTo(HostIndexRoute.path, {})})
\* features/osquery/reports/delete-dialog.tsx:14-49 ReportDeleteDialog
ReportDeleteDialog ==
  Part({}, {Offer(DeleteReport, {Edit("osquery.reports")}, ReportsIndexRoute.path)}, {})
\* features/osquery/reports/detail.tsx:59-164 ReportDetailPage
ReportDetailHeader ==
  Part(Reads({ReportQuery}), {},
       LiveRunButton(ReportLiveRoute.path).links
         \cup {LinkTo(ReportEditRoute.path, {Edit("osquery.reports")})})
\* features/osquery/reports/detail.tsx:165-292 ReportDetailPage
ReportDetailPage ==
  Page(ReportIndexRoute.path,
       {ReportDetailHeader, LabelTargetDetails, ReportResultColumns, ReportDeleteDialog}, "")

\* features/osquery/reports/fields.tsx:182-525 ReportForm
ReportForm(live) == Part(LabelTargetSetEditor.reads, {}, {LinkTo(live, {})})
\* features/osquery/reports/create.tsx:14-67 ReportCreatePage
ReportCreatePage ==
  Page(ReportNewIndexRoute.path,
       {ReportForm(ReportNewLiveRoute.path),
        Part({}, {Offer(CreateReport, {}, ReportIndexRoute.path)},
             {LinkTo(ReportsIndexRoute.path, {})})}, "guarded")
\* features/osquery/reports/edit.tsx:15-88 ReportEditPage
ReportEditPage ==
  Page(ReportEditRoute.path,
       {ReportForm(ReportLiveRoute.path),
        Part(Reads({ReportQuery}), {Offer(UpdateReport, {}, ReportIndexRoute.path)},
             {LinkTo(ReportIndexRoute.path, {})})}, "guarded")

\* routes/_authenticated.tsx:1-12 Route
OsqueryPages ==
  {OsqueryOverviewPage, PolicyListPage, PolicyDetailPage, PolicyCreatePage, PolicyEditPage,
   ReportListPage, ReportDetailPage, ReportCreatePage, ReportEditPage}
    \cup PolicyLivePages \cup ReportLivePages
=============================================================================
