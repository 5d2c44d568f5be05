------------------------------ MODULE ConsoleSanta ------------------------------
(***************************************************************************)
(* The pages of Santa: configurations, rules and events.                   *)
(***************************************************************************)
EXTENDS ConsoleOsquery

\* features/santa/overview.tsx:13-67 SantaOverviewPage
SantaOverviewPage ==
  Page(SantaIndexRoute.path,
       {Part(Reads({ConfigurationsQuery, RulesQuery, ExecutionsQuery, FileAccessesQuery}), {},
             Links({ConfigurationsIndexRoute.path, RulesIndexRoute.path, EventsIndexRoute.path,
                    FileAccessesIndexRoute.path}, {}))}, "")

-----------------------------------------------------------------------------
(* Configurations                                                           *)

\* features/santa/configurations/list.tsx:207-285 configurationColumns
ConfigurationColumns ==
  Part(Sorted(ConfigurationsQuery, {"position", "name"}), {},
       {LinkTo(ConfigurationIndexRoute.path, {})})
\* features/santa/configurations/list.tsx:287-312 ConfigurationRowActions
ConfigurationRowActions ==
  Part({}, {Offer(DeleteConfiguration, {Edit("santa.configurations")}, <<>>)},
       {LinkTo(ConfigurationEditRoute.path, {Edit("santa.configurations")})})
\* features/santa/configurations/list.tsx:314-395 ConfigurationReorder
ConfigurationReorder ==
  Part({}, {Offer(ReorderConfigurations, {Edit("santa.configurations")}, <<>>)}, {})
\* features/santa/configurations/list.tsx:58-205 ConfigurationListPage
ConfigurationListPage ==
  Page(ConfigurationsIndexRoute.path,
       {ConfigurationColumns, ConfigurationRowActions, ConfigurationReorder,
        Part({}, {Offer(BulkDeleteConfigurations, {Edit("santa.configurations")}, <<>>)},
             {LinkTo(ConfigurationNewRoute.path, {Edit("santa.configurations")})})}, "")
\* features/santa/configurations/delete-dialog.tsx:7-44 ConfigurationDeleteDialog
ConfigurationDeleteDialog ==
  Part({}, {Offer(DeleteConfiguration, {Edit("santa.configurations")},
                  ConfigurationsIndexRoute.path)}, {})
\* features/santa/configurations/detail.tsx:27-136 ConfigurationDetailPage
ConfigurationDetailPage ==
  Page(ConfigurationIndexRoute.path,
       {Part(Reads({ConfigurationQuery}), {},
             {LinkTo(ConfigurationEditRoute.path, {Edit("santa.configurations")})}),
        LabelTargetDetails, ConfigurationDeleteDialog}, "")
\* features/santa/configurations/fields.tsx:72-139 ConfigurationForm
ConfigurationForm == LabelTargetSetEditor
\* features/santa/configurations/create.tsx:9-40 ConfigurationCreatePage
ConfigurationCreatePage ==
  Page(ConfigurationNewRoute.path,
       {ConfigurationForm,
        Part({}, {Offer(CreateConfiguration, {}, ConfigurationIndexRoute.path)},
             {LinkTo(ConfigurationsIndexRoute.path, {})})}, "guarded")
\* features/santa/configurations/edit.tsx:11-61 ConfigurationEditPage
ConfigurationEditPage ==
  Page(ConfigurationEditRoute.path,
       {ConfigurationForm,
        Part(Reads({ConfigurationQuery}),
             {Offer(UpdateConfiguration, {}, ConfigurationIndexRoute.path)},
             {LinkTo(ConfigurationIndexRoute.path, {})})}, "guarded")

-----------------------------------------------------------------------------
(* Rules                                                                    *)

\* features/santa/rules/list.tsx:56-117 ruleColumns
RuleColumns ==
  Part(Sorted(RulesQuery, {"name", "rule_type", "identifier", "updated_at"}), {},
       {LinkTo(RuleIndexRoute.path, {})})
\* features/santa/rules/list.tsx:232-256 RuleRowActions
RuleRowActions ==
  Part({}, {Offer(DeleteRule, {Edit("santa.rules")}, <<>>)},
       {LinkTo(RuleEditRoute.path, {Edit("santa.rules")})})
\* features/santa/rules/list.tsx:119-230 RuleListPage
RuleListPage ==
  Page(RulesIndexRoute.path,
       {RuleColumns, RuleRowActions,
        Part({}, {Offer(BulkDeleteRules, {Edit("santa.rules")}, <<>>)},
             {LinkTo(RuleNewRoute.path, {Edit("santa.rules")})})}, "")
\* features/santa/rules/delete-dialog.tsx:7-44 RuleDeleteDialog
RuleDeleteDialog ==
  Part({}, {Offer(DeleteRule, {Edit("santa.rules")}, RulesIndexRoute.path)}, {})
\* features/santa/rules/detail.tsx:88-125 RuleTargets
RuleTargets == LabelTargetDetails
\* features/santa/rules/detail.tsx:19-86 RuleDetailPage
RuleDetailPage ==
  Page(RuleIndexRoute.path,
       {Part(Reads({RuleQuery}), {}, {LinkTo(RuleEditRoute.path, {Edit("santa.rules")})}),
        RuleTargets, RuleDeleteDialog}, "")
\* features/santa/rules/rule-name-combobox.tsx:21-81 RuleNameCombobox
RuleNameCombobox == Part(Reads({SoftwareQuery}), {}, {})
\* features/santa/rules/fields.tsx:79-296 RuleForm
RuleForm == Part(LabelTargetSetEditor.reads \cup RuleNameCombobox.reads, {}, {})
\* features/santa/rules/create.tsx:9-37 RuleCreatePage
RuleCreatePage ==
  Page(RuleNewRoute.path,
       {RuleForm, Part({}, {Offer(CreateRule, {}, RuleIndexRoute.path)},
                       {LinkTo(RulesIndexRoute.path, {})})}, "guarded")
\* features/santa/rules/edit.tsx:11-61 RuleEditPage
RuleEditPage ==
  Page(RuleEditRoute.path,
       {RuleForm, Part(Reads({RuleQuery}), {Offer(UpdateRule, {}, RuleIndexRoute.path)},
                       {LinkTo(RuleIndexRoute.path, {})})}, "guarded")

-----------------------------------------------------------------------------
(* Events                                                                   *)

\* features/santa/events/list.tsx:256-283 EventListNav
EventListNav ==
  Part({}, {}, Links({EventsIndexRoute.path, FileAccessesIndexRoute.path}, {}))
\* features/santa/events/list.tsx:232-254 EventContextChips
EventContextChips == Part(Reads({HostQuery}), {}, {})
\* features/santa/events/list.tsx:41-104 executionEventColumns
ExecutionEventColumns ==
  Part(Sorted(ExecutionsQuery,
              {"occurred_at", "file_name", "decision", "host", "executing_user"}), {},
       Links({EventRoute.path, HostIndexRoute.path, EventsIndexRoute.path}, {}))
\* features/santa/events/list.tsx:285-353 ExecutionEventsTable
ExecutionEventsTable == ExecutionEventColumns
\* features/santa/events/list.tsx:178-206 SantaEventListPage
SantaEventListPage ==
  Page(EventsIndexRoute.path, {EventListNav, EventContextChips, ExecutionEventsTable}, "")
\* features/santa/events/list.tsx:106-176 fileAccessEventColumns
FileAccessEventColumns ==
  Part(Sorted(FileAccessesQuery, {"occurred_at", "target", "decision", "host", "rule_name"}),
       {}, Links({FileAccessRoute.path, HostIndexRoute.path}, {}))
\* features/santa/events/list.tsx:355-415 FileAccessEventsTable
FileAccessEventsTable == FileAccessEventColumns
\* features/santa/events/list.tsx:208-230 SantaFileAccessEventListPage
SantaFileAccessEventListPage ==
  Page(FileAccessesIndexRoute.path,
       {EventListNav, EventContextChips, FileAccessEventsTable}, "")
\* features/santa/events/detail.tsx:26-140 SantaEventDetailPage
SantaEventDetailPage ==
  Page(EventRoute.path,
       {Part(Reads({ExecutionQuery}), {}, {LinkTo(HostIndexRoute.path, {})})}, "")
\* features/santa/events/file-access-detail.tsx:24-133 SantaFileAccessEventDetailPage
SantaFileAccessEventDetailPage ==
  Page(FileAccessRoute.path,
       {Part(Reads({FileAccessQuery}), {}, {LinkTo(HostIndexRoute.path, {})})}, "")

\* routes/_authenticated.tsx:1-12 Route
SantaPages ==
  {SantaOverviewPage, ConfigurationListPage, ConfigurationDetailPage,
   ConfigurationCreatePage, ConfigurationEditPage, RuleListPage, RuleDetailPage,
   RuleCreatePage, RuleEditPage, SantaEventListPage, SantaFileAccessEventListPage,
   SantaEventDetailPage, SantaFileAccessEventDetailPage}
=============================================================================
