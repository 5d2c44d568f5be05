----------------------------- MODULE MCConsoleForms -----------------------------
(***************************************************************************)
(* ConsoleForms for model checking.  Calm settings fill in the fields that *)
(* a form's rules relate, in every order and with every value, and submit; *)
(* the others vary little, but their user cancels, leaves, comes back and  *)
(* submits twice while somebody else saves and requests are lost.          *)
(***************************************************************************)
EXTENDS ConsoleForms, ConsolePackageForm, ConsoleMunkiForms

MCForms ==
  LET named(f) == f.name :> f
  IN named(PackageForm) @@ named(PackageEditForm) @@ named(SoftwareCreateForm)
       @@ named(SoftwareForm) @@ named(ClientResourcesForm) @@ named(LabelForm)
       @@ named(UserCreateForm) @@ named(UserForm) @@ named(DistributionPointForm)
       @@ named(ConfigurationForm) @@ named(RuleForm) @@ named(PolicyForm) @@ named(ReportForm)

(* The record a form saves when it is filled in with what is given.          *)
Stored(f, given) == Body(f, given @@ f.start)
Named == "name" :> "text"
StoredPackage ==
  Stored(PackageForm, [software_id |-> "app", version |-> "1", installer_file |-> "file"])
StoredRule == Stored(RuleForm, [identifier |-> "team:app"] @@ Named)
StoredResources == Stored(ClientResourcesForm, "banner_file" :> "file")
StoredArchive == Stored(ClientResourcesForm, [custom |-> "on", archive_file |-> "file"])
StoredUser == Stored(UserForm, [email |-> "ann@x.org", source |-> "local"])

Filling(f, opened, groups) ==
  {ConsoleSetting(f.name, opened, fields, NoRecord, 0, 1, TRUE) : fields \in groups}
CalmSettings ==
  Filling(PackageForm, NoRecord,
          {{"software_id", "version", "installer_type", "installer_file", "restart_required"}})
    \cup Filling(PackageEditForm, StoredPackage,
          {{"installer_type", "installer_file", "items_to_copy", "installer_choices_xml"},
           {"uninstallable", "uninstall_method", "uninstall_script", "receipts", "items_to_copy"},
           {"blocking_applications_none", "blocking_applications",
            "blocking_applications_with_launch_args"},
           {"preinstall_alert", "installed_size"}, {"installer_environment", "requires"},
           {"update_for", "installs", "version", "restart_required", "restart_action"}})
    \cup Filling(SoftwareCreateForm, NoRecord, {{"name", "description", "icon"}})
    \cup Filling(SoftwareForm, Stored(SoftwareForm, Named),
          {{"include", "exclude", "include.package", "include.actions"}})
    \cup Filling(ClientResourcesForm, NoRecord,
          {{"custom", "archive_file", "banner_file", "banner.fit"},
           {"banner_file", "links", "footer.links", "footer.text"}})
    \cup Filling(ClientResourcesForm, StoredResources,
          {{"custom", "archive_file", "banner_file", "links"}})
    \cup Filling(ClientResourcesForm, StoredArchive, {{"custom", "archive_file", "banner_file"}})
    \cup Filling(LabelForm, NoRecord,
          {{"name", "label_membership_type", "host_ids", "derived_attribute", "derived_values",
            "query"}})
    \cup Filling(UserCreateForm, NoRecord, {{"email", "name", "role", "password"}})
    \cup Filling(UserForm, StoredUser, {{"name", "role", "password"}})
    \cup Filling(DistributionPointForm, NoRecord,
          {{"name", "enabled", "client_domain", "client_cidrs"}})
    \cup Filling(ConfigurationForm, NoRecord,
          {{"name", "full_sync_interval_seconds", "batch_size", "event_detail_url"},
           {"name", "include", "exclude", "removable_media_action", "removable_media_remount_flags",
            "encrypted_removable_media_action", "encrypted_removable_media_remount_flags"}})
    \cup Filling(RuleForm, NoRecord, {{"name", "rule_type", "identifier", "custom_url"}})
    \cup Filling(RuleForm, StoredRule,
          {{"include", "exclude", "include.policy", "include.cel_expression"}})
    \cup Filling(PolicyForm, NoRecord,
          {{"name", "query", "include", "exclude", "remediation.script", "remediation.automatic"}})
    \cup Filling(ReportForm, NoRecord,
          {{"name", "query", "include", "exclude", "schedule_interval"}})

Disturbed(f, opened, fields, change, submits, calm) ==
  {ConsoleSetting(f.name, opened, fields, change @@ opened, 0, submits, calm)}
Alone(f, opened, fields, losses, submits, calm) ==
  {ConsoleSetting(f.name, opened, fields, NoRecord, losses, submits, calm)}
(* A request is lost, the form is submitted again, its user is not calm: all *)
(* of it for a package, whose upload can be cancelled; for the others any two*)
(* of them.                                                                  *)
AnyTwo(f, opened, fields) ==
  Alone(f, opened, fields, 1, MaxSubmits, TRUE) \cup Alone(f, opened, fields, 1, 1, FALSE)
    \cup Alone(f, opened, fields, 0, MaxSubmits, FALSE)
DisturbedSettings ==
  Disturbed(PackageEditForm, StoredPackage, {"installer_file"}, "notes" :> "text", MaxSubmits, TRUE)
    \cup Disturbed(PackageEditForm, StoredPackage, {"installer_file"}, "notes" :> "text", 1, FALSE)
    \cup Alone(PackageEditForm, StoredPackage, {"installer_file"}, 1, MaxSubmits, FALSE)
    \cup AnyTwo(SoftwareForm, Stored(SoftwareForm, Named), {"icon"})
    \cup AnyTwo(ClientResourcesForm, StoredResources, {"banner_file"})
    \cup Disturbed(PolicyForm, Stored(PolicyForm, Named), {"query", "name"}, "query" :> "query",
                   MaxSubmits, FALSE)
    \cup Alone(PolicyForm, Stored(PolicyForm, Named), {"remediation.script"}, 0, 1, FALSE)
    \cup Disturbed(ReportForm, Stored(ReportForm, Named), {"min_osquery_version"},
                   "min_osquery_version" :> "5.12.1", MaxSubmits, FALSE)
    \cup Disturbed(LabelForm, Stored(LabelForm, Named), {"description"}, "query" :> "query",
                   MaxSubmits, FALSE)

MCSettings == CalmSettings \cup DisturbedSettings
=================================================================================
