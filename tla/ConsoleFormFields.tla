--------------------------- MODULE ConsoleFormFields ---------------------------
(***************************************************************************)
(* The forms of labels, users, distribution points, Santa configurations   *)
(* and rules, policies and reports.  Of the labels a form targets, "macs"  *)
(* stands for the one a user would both include and exclude.               *)
(***************************************************************************)
EXTENDS ConsoleControls, TLC

\* features/munki/distribution-points/fields.tsx:234-256 BoolField
OnOff(path) == Control(path, {"", "on"})
\* external Input
Text(path) == Control(path, {"", "text"})
\* external crossListLabelIDs
Overlap == {<<"include", {"macs"}>>, <<"exclude", {"macs"}>>}

(* A label of one list is not offered to the other.                         *)
\* components/targeting/label-assignment-list.tsx:42-197 LabelAssignmentList
LabelAssignmentList(path, crossList) ==
  Barred(Control(path, {"", "macs"}), "macs", {<<crossList, {"macs"}>>})
\* components/targeting/label-target-set-editor.tsx:4-39 LabelTargetSetEditor
LabelTargetSetEditor ==
  {LabelAssignmentList("include", "exclude"), LabelAssignmentList("exclude", "include")}
-----------------------------------------------------------------------------
(* Labels                                                                   *)
\* external label_membership_type
Membership(kinds) == <<"label_membership_type", kinds>>
\* features/labels/fields.tsx:62-70 emptyLabel
emptyLabel ==
  Filled({"name", "description", "host_ids", "derived_values"} \cup
           {"label_membership_type", "query", "derived_attribute"},
         [query |-> "default", derived_attribute |-> "user_department",
          label_membership_type |-> "dynamic"])
\* features/labels/fields.tsx:71-81 labelFromDetail
labelFromDetail ==
  {Becomes("query", {<<"query", {""}>>}, "default"),
   Becomes("derived_attribute", {<<"derived_attribute", {""}>>}, "user_department")}
\* features/labels/fields.tsx:82-111 labelFormSchema
labelFormSchema ==
  {Required("name"),
   Issue("query", {Membership({"dynamic"}), <<"query", {""}>>}),
   Issue("derived_values", {Membership({"derived"}), <<"derived_values", {""}>>})}
\* features/labels/fields.tsx:112-128 toBody
toBody ==
  {Becomes("query", {Membership({"manual", "derived"})}, ""),
   Becomes("host_ids", {Membership({"dynamic", "derived"})}, ""),
   Becomes("derived_attribute", {Membership({"dynamic", "manual"})}, ""),
   Becomes("derived_values", {Membership({"dynamic", "manual"})}, "")}
\* features/labels/fields.tsx:129-270 LabelForm
LabelTypeFields ==
  {Text("name"), Text("description"),
   Control("label_membership_type", {"dynamic", "manual", "derived"})}
    \cup ShownIf({Membership({"manual"})}, {Control("host_ids", {"", "hosts"})})
(* Another attribute empties the values chosen.                              *)
\* features/labels/fields.tsx:271-398 derived_values
LabelCriteriaFields ==
  LET attributes == {"user_department", "directory_group"}
  IN ShownIf({Membership({"derived"})},
             {Clearing(Control("derived_attribute", attributes), attributes, "derived_values", ""),
              Control("derived_values", {"", "values"})})
       \cup ShownIf({Membership({"dynamic"})}, {Control("query", {"", "default", "query"})})
\* src/internal/labels/model.go:133-215 validateMembershipPairing
LabelRefusals ==
  {{<<"name", {""}>>},
   {Membership({"dynamic"}), <<"query", {""}>>},
   {Membership({"manual", "derived"}), <<"query", {"default", "query"}>>},
   {Membership({"dynamic", "derived"}), <<"host_ids", {"hosts"}>>},
   {Membership({"derived"}), <<"derived_values", {""}>>},
   {Membership({"derived"}), <<"derived_attribute", {""}>>},
   {Membership({"dynamic", "manual"}), <<"derived_attribute", {"user_department", "directory_group"}>>},
   {Membership({"dynamic", "manual"}), <<"derived_values", {"values"}>>}}
\* features/labels/edit.tsx:9-60 LabelEditPage
LabelForm ==
  [Form("label", LabelTypeFields \cup LabelCriteriaFields, labelFormSchema, emptyLabel) EXCEPT
     !.sends = toBody, !.reopens = labelFromDetail, !.refuses = LabelRefusals, !.keyed = FALSE]
-----------------------------------------------------------------------------
(* Users                                                                    *)
\* lib/form-validation.ts:7-9 emailAddress
emailAddress(path) == Issue(path, {<<path, {"", "address"}>>})
\* features/directory/users/fields.tsx:44-51 userCreateFormSchema
userCreateFormSchema == {emailAddress("email"), Issue("password", {<<"password", {"", "short"}>>})}
\* features/directory/users/fields.tsx:37-42 UserCreateFormState
emptyUser ==
  Filled({"source", "email", "name", "role", "password"}, [source |-> "local", role |-> "viewer"])
\* features/directory/users/fields.tsx:51-183 UserCreateForm
UserCreateForm ==
  [Form("user create", {Control("email", {"", "address", "ann@x.org"}), Text("name"),
                 Control("role", {"admin", "viewer"}), Control("password", {"", "short", "long"})},
        userCreateFormSchema,
        emptyUser) EXCEPT
     !.secret = {"password"}, !.edits = "user", !.refuses = {{<<"email", {"", "address"}>>}, {<<"password", {"", "short"}>>}}]
(* The password is never read back; one of blanks only is not sent.          *)
\* features/directory/users/fields.tsx:190-196 userFromDetail
userFromDetail == {Becomes("password", {}, "")}
\* features/directory/users/fields.tsx:197-206 userFormSchema
userFormSchema == {Issue("password", {<<"password", {"short"}>>})}
\* features/directory/users/fields.tsx:228-237 onSubmit
userMutation == {Trimmed("password", {"blank"})}
\* src/internal/directory/password.go:12-17 hashPassword
PasswordRefusals == {{<<"password", {"short", "blank"}>>}}
(* A user of a directory keeps its name, and has no password here.           *)
\* features/directory/users/fields.tsx:207-337 UserForm
UserForm ==
  LET local == {<<"source", {"local"}>>}
  IN [Form("user", {Control("role", {"admin", "viewer", "none"})}
                     \cup ShownIf(local, {Text("name"), Control("password", {"", "blank", "short", "long"})}),
           userFormSchema, emptyUser) EXCEPT
        !.secret = {"password"}, !.sends = userMutation, !.reopens = userFromDetail, !.refuses = PasswordRefusals]
-----------------------------------------------------------------------------
(* Distribution points                                                      *)
\* features/munki/distribution-points/fields.tsx:40-67 distributionPointFormSchema
distributionPointFormSchema ==
  {Required("name"),
   Issue("client_domain", {<<"client_domain", {"domain:0"}>>}),
   Issue("client_domain", {<<"enabled", {"on"}>>, <<"client_domain", {""}>>}),
   Issue("client_cidrs", {<<"client_cidrs", {"blank", "malformed"}>>})}
\* features/munki/distribution-points/fields.tsx:68-73 emptyDistributionPointForm
emptyDistributionPointForm ==
  Filled({"name", "enabled", "client_domain", "client_cidrs"}, [enabled |-> "on"])
\* features/munki/distribution-points/fields.tsx:257-292 StringArrayRows
StringArrayRows(path) == Control(path, {"", "blank", "malformed", "10.0.0.0/8"})
\* features/munki/distribution-points/fields.tsx:77-233 DistributionPointForm
DistributionPointFields ==
  {Text("name"), OnOff("enabled"), StringArrayRows("client_cidrs"),
   Control("client_domain", {"", "domain", "domain:0"})}
\* features/munki/distribution-points/fields.tsx:303-319 distributionPointBody
distributionPointBody == {Trimmed("client_cidrs", {"blank"})}
\* src/internal/munki/mdp/model.go:80-122 DistributionPointMutation
DistributionPointRefusals ==
  {{<<"name", {""}>>}, {<<"client_domain", {"domain:0"}>>}, {<<"client_cidrs", {"blank", "malformed"}>>}}
\* features/munki/distribution-points/edit.tsx:8-47 DistributionPointEditPage
DistributionPointForm ==
  [Form("distribution point", DistributionPointFields, distributionPointFormSchema,
        emptyDistributionPointForm) EXCEPT
     !.sends = distributionPointBody, !.refuses = DistributionPointRefusals, !.keyed = FALSE]
-----------------------------------------------------------------------------
(* Santa configurations                                                     *)
\* external SantaMediaAction
Media == {"removable_media", "encrypted_removable_media"}
\* external SantaMediaAction
Action == [m \in Media |-> IF m = "removable_media" THEN "removable_media_action"
                           ELSE "encrypted_removable_media_action"]
\* external SantaRemountFlag
Flags == [m \in Media |-> IF m = "removable_media" THEN "removable_media_remount_flags"
                          ELSE "encrypted_removable_media_remount_flags"]
\* external remount
Remounts(m) == <<Action[m], {"remount"}>>
\* external remount
Leaves(m) == <<Action[m], {"none", "block"}>>

\* features/santa/configurations/form-schema.ts:13-94 configurationFormSchema
configurationFormSchema ==
  {Required("name"),
   Issue("full_sync_interval_seconds", {<<"full_sync_interval_seconds", {"", "59"}>>}),
   Issue("batch_size", {<<"batch_size", {"", "4", "101"}>>}),
   Issue("event_detail_url", {<<"event_detail_url", {"http"}>>})}
    \cup {Issue(Flags[m], {Remounts(m), <<Flags[m], {""}>>}) : m \in Media}
    \cup {Issue(Flags[m], {Leaves(m), <<Flags[m], {"rdonly"}>>}) : m \in Media}
\* features/santa/configurations/fields.tsx:21-47 configurationFormTabs
configurationFormTabs ==
  <<{"name", "description", "client_mode", "enable_bundles", "enable_transitive_rules",
     "enable_all_event_upload", "disable_unknown_event_upload", "override_file_access_action",
     "full_sync_interval_seconds", "batch_size", "allowed_path_regex", "blocked_path_regex",
     "event_detail_url", "event_detail_text"}
      \cup {Action[m] : m \in Media} \cup {Flags[m] : m \in Media},
    {"include", "exclude"}>>
\* features/santa/configurations/form-adapter.ts:10-31 emptyConfigurationForm
emptyConfigurationForm ==
  Filled(configurationFormTabs[1] \cup configurationFormTabs[2],
         [client_mode |-> "monitor", override_file_access_action |-> "none",
          full_sync_interval_seconds |-> "600", batch_size |-> "50",
          removable_media_action |-> "none", encrypted_removable_media_action |-> "none"])
\* features/santa/configurations/form-adapter.ts:61-98 configurationBody
configurationBody == {Becomes(Flags[m], {Leaves(m)}, "") : m \in Media}
(* Another action than remount empties the flags, which only remount shows.  *)
\* features/santa/configurations/media-fields.tsx:26-155 ConfigurationMediaFields
ConfigurationMediaFields ==
  UNION {{Clearing(Control(Action[m], {"none", "block", "remount"}), {"none", "block"}, Flags[m], "")}
           \cup ShownIf({Remounts(m)}, {Control(Flags[m], {"", "rdonly"})}) : m \in Media}
\* features/santa/configurations/options-fields.tsx:36-185 ConfigurationOptionsFields
ConfigurationModeFields ==
  {Text("name"), Text("description"), Control("client_mode", {"monitor", "lockdown", "standalone"}),
   OnOff("enable_bundles"), OnOff("enable_transitive_rules"),
   Control("full_sync_interval_seconds", {"", "59", "600", "2^31"}),
   Control("batch_size", {"", "4", "50", "101"})}
\* features/santa/configurations/options-fields.tsx:186-335 override_file_access_action
ConfigurationPathFields ==
  {OnOff("enable_all_event_upload"), OnOff("disable_unknown_event_upload"),
   Control("override_file_access_action", {"none", "audit_only", "disable"}),
   Text("allowed_path_regex"), Text("blocked_path_regex"), Text("event_detail_text"),
   Control("event_detail_url", {"", "http", "https"})}
\* src/internal/santa/configurations/model.go:105-168 RemovableMediaPolicy
ConfigurationRefusals ==
  {{<<"name", {""}>>}, Overlap, {<<"event_detail_url", {"http"}>>},
   {<<"full_sync_interval_seconds", {"", "59", "2^31"}>>}, {<<"batch_size", {"", "4", "101"}>>}}
    \cup {{Remounts(m), <<Flags[m], {""}>>} : m \in Media}
    \cup {{Leaves(m), <<Flags[m], {"rdonly"}>>} : m \in Media}
\* features/santa/configurations/fields.tsx:50-139 useConfigurationEditorForm
ConfigurationForm ==
  [Form("configuration", ConfigurationModeFields \cup ConfigurationPathFields
                           \cup ConfigurationMediaFields \cup LabelTargetSetEditor,
        configurationFormSchema, emptyConfigurationForm) EXCEPT
     !.tabs = configurationFormTabs, !.sends = configurationBody,
     !.refuses = ConfigurationRefusals, !.keyed = FALSE,
     !.overlooks = {{<<"full_sync_interval_seconds", {"2^31"}>>}}]
-----------------------------------------------------------------------------
(* Santa rules: the dialog of an include keeps an incomplete row to itself,  *)
(* where the draft here holds it and the schema finds it.                    *)
\* external SantaRuleType
Identifies == {<<"binary", "sha256">>, <<"signingid", "team:app">>, <<"teamid", "team">>}
\* external SantaRuleType
Misnamed == {{<<"rule_type", {r[1]}>>, <<"identifier", {s[2] : s \in Identifies \ {r}}>>} : r \in Identifies}
\* external SantaRulePolicy
IncludesCEL == {<<"include", {"macs"}>>, <<"include.policy", {"cel"}>>}
\* features/santa/rules/form-state.ts:16-45 santaRuleIncludeSchema
santaRuleIncludeSchema ==
  {Issue("include.cel_expression", IncludesCEL \cup {<<"include.cel_expression", {"", "malformed"}>>})}
\* features/santa/rules/form-state.ts:47-77 ruleFormSchema
ruleFormSchema ==
  {Required("identifier"), Required("name"), Issue("custom_url", {<<"custom_url", {"http"}>>})}
    \cup {Issue("identifier", when) : when \in Misnamed}
\* features/santa/rules/form-state.ts:99-144 emptyRuleForm
emptyRuleForm ==
  Filled({"identifier", "name", "description", "custom_message", "custom_url", "include", "exclude",
          "rule_type", "include.policy", "include.cel_expression"},
         [rule_type |-> "signingid"] @@ ("include.policy" :> "allowlist"))
\* features/santa/rules/form-state.ts:146-170 ruleBody
ruleBody ==
  {Becomes("include.policy", {<<"include", {""}>>}, "allowlist"),
   Becomes("include.cel_expression", {<<"include", {""}>>}, ""),
   Becomes("include.cel_expression", {<<"include.policy", {"allowlist"}>>}, "")}
(* A candidate's name brings its type and its identifier; another type       *)
(* empties the identifier.                                                   *)
\* features/santa/rules/fields.tsx:97-200 identifier
RuleIdentityFields ==
  LET types == {r[1] : r \in Identifies}
      named == Clearing(Control("name", {"", "text", "candidate"}), {"candidate"}, "rule_type", "binary")
  IN {Clearing(named, {"candidate"}, "identifier", "sha256"), Text("description"),
      Clearing(Control("rule_type", types), types, "identifier", ""),
      Control("identifier", {"", "malformed"} \cup {r[2] : r \in Identifies})}
\* features/santa/rules/fields.tsx:201-284 custom_message
RuleMessageFields ==
  {Text("custom_message"), Control("custom_url", {"", "http", "https"}),
   LabelAssignmentList("exclude", "include")}
\* features/santa/rules/include-targets.tsx:54-157 SantaIncludeTargets
SantaIncludeTargets == {LabelAssignmentList("include", "exclude")}
\* features/santa/rules/include-targets.tsx:158-298 SantaIncludeDialog
SantaIncludeDialog ==
  ShownIf({<<"include", {"macs"}>>},
          {Control("include.policy", {"allowlist", "cel"})}
            \cup ShownIf({<<"include.policy", {"cel"}>>},
                         {Control("include.cel_expression", {"", "malformed", "cel"})}))
\* src/internal/santa/rules/model.go:92-190 validateRuleIdentifier
RuleRefusals ==
  {{<<"name", {""}>>}, {<<"identifier", {"", "malformed"}>>}, {<<"custom_url", {"http"}>>}, Overlap,
   IncludesCEL \cup {<<"include.cel_expression", {"", "malformed"}>>},
   {<<"include.policy", {"allowlist"}>>, <<"include.cel_expression", {"malformed", "cel"}>>}}
    \cup Misnamed
\* features/santa/rules/fields.tsx:39-45 ruleFormTabs
ruleFormTabs ==
  <<{"name", "description", "rule_type", "identifier", "custom_url", "custom_message"},
    {"include", "exclude", "include.policy", "include.cel_expression"}>>
\* features/santa/rules/edit.tsx:11-61 RuleEditPage
RuleForm ==
  [Form("rule", RuleIdentityFields \cup RuleMessageFields \cup SantaIncludeTargets
                  \cup SantaIncludeDialog,
        ruleFormSchema \cup santaRuleIncludeSchema
          \cup {Issue("identifier", {<<"identifier", {"malformed"}>>})}, emptyRuleForm) EXCEPT
     !.tabs = ruleFormTabs, !.sends = ruleBody, !.refuses = RuleRefusals, !.keyed = FALSE]
-----------------------------------------------------------------------------
(* Policies and reports: a change of what is asked erases the results.      *)
\* features/osquery/policies/fields.tsx:48-65 emptyPolicy
emptyPolicy ==
  Filled({"name", "description", "resolution", "query", "include", "exclude", "remediation.script",
          "remediation.automatic"}, [query |-> "default"])
\* features/osquery/policies/fields.tsx:66-86 policyFormSchema
policyFormSchema ==
  {Required("name"), Required("query"),
   Issue("remediation.script", {<<"remediation.automatic", {"on"}>>, <<"remediation.script", {""}>>})}
\* features/osquery/policies/fields.tsx:87-91 policyFormTabs
policyFormTabs ==
  <<{"name", "description", "resolution", "query"}, {"include", "exclude"},
    {"remediation.script", "remediation.automatic"}>>
\* features/osquery/policies/fields.tsx:99-114 policyMutationFromForm
policyMutationFromForm == {Becomes("remediation.automatic", {<<"remediation.script", {""}>>}, "")}
\* features/osquery/policies/fields.tsx:225-324 resolution
PolicyQueryFields ==
  {Text("name"), Text("description"), Text("resolution"), Control("query", {"", "default", "query"})}
\* features/osquery/policies/fields.tsx:325-386 remediation
PolicyRemediationFields ==
  {Control("remediation.script", {"", "script"}), OnOff("remediation.automatic")}
\* src/internal/osquery/policies/model.go:40-82 PolicyMutation
PolicyRefusals ==
  {{<<"name", {""}>>}, {<<"query", {""}>>}, Overlap,
   {<<"remediation.automatic", {"on"}>>, <<"remediation.script", {""}>>}}
\* features/osquery/policies/edit.tsx:58-124 PolicyForm
PolicyForm ==
  [Form("policy", PolicyQueryFields \cup PolicyRemediationFields \cup LabelTargetSetEditor,
        policyFormSchema, emptyPolicy) EXCEPT
     !.tabs = policyFormTabs, !.sends = policyMutationFromForm, !.refuses = PolicyRefusals,
     !.keyed = FALSE, !.asks = {"query"}, !.awaits = {"discard", "live"},
     !.offers = {"remediation.script", "remediation.automatic"}]

\* features/osquery/reports/fields.tsx:139-155 emptyReport
emptyReport ==
  Filled({"name", "description", "query", "min_osquery_version", "schedule_interval", "include",
          "exclude"}, [query |-> "default"])
\* features/osquery/reports/fields.tsx:156-163 reportFormSchema
reportFormSchema == {Required("name"), Required("query")}
\* features/osquery/reports/fields.tsx:164-170 reportFormTabs
reportFormTabs ==
  <<{"name", "description", "query", "min_osquery_version", "schedule_interval"},
    {"include", "exclude"}>>
\* features/osquery/reports/fields.tsx:297-412 schedule_interval
ReportQueryFields ==
  {Text("name"), Text("description"), Control("query", {"", "default", "query"}),
   Control("schedule_interval", {"", "3600"})}
\* features/osquery/reports/fields.tsx:413-480 min_osquery_version
ReportVersionFields == {Control("min_osquery_version", {"", "5.12.1"})}
\* src/internal/osquery/reports/model.go:38-69 ReportMutation
ReportRefusals == {{<<"name", {""}>>}, {<<"query", {""}>>}, Overlap}
\* features/osquery/reports/edit.tsx:35-88 ReportForm
ReportForm ==
  [Form("report", ReportQueryFields \cup ReportVersionFields \cup LabelTargetSetEditor,
        reportFormSchema, emptyReport) EXCEPT
     !.tabs = reportFormTabs, !.refuses = ReportRefusals, !.keyed = FALSE,
     !.asks = {"query", "min_osquery_version"}, !.awaits = {"discard", "live"}]
=============================================================================
