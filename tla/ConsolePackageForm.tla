--------------------------- MODULE ConsolePackageForm ---------------------------
(***************************************************************************)
(* The form of a Munki package: the controls of its eight tabs, the schema,*)
(* the adapters, and what the server asks of a package.  A list is the      *)
(* worst of its rows: "" no row, "blank" a row without its required fields, *)
(* "twice" two rows of one name.                                            *)
(***************************************************************************)
EXTENDS ConsoleControls

-----------------------------------------------------------------------------
(* Controls                                                                 *)
\* features/munki/packages/package-form-controls.tsx:50-68 VersionField
VersionField == Control("version", {"", "1"})
\* features/munki/packages/package-form-controls.tsx:70-115 FormTextField
FormTextField(path) == Control(path, {"", "text"})
\* features/munki/packages/package-form-controls.tsx:117-148 FormTextareaField
FormTextareaField(path) == Control(path, {"", "text"})
\* features/munki/packages/package-form-controls.tsx:150-180 FormCodeField
FormCodeField(path) == Control(path, {"", "code"})
\* features/munki/packages/package-form-controls.tsx:493-508 ScriptField
ScriptField(path) == Control(path, {"", "script"})
\* features/munki/packages/package-form-controls.tsx:380-406 FormSwitchField
FormSwitchField(path) == Control(path, {"", "on"})
\* features/munki/packages/package-form-controls.tsx:408-465 FormCheckboxField
FormCheckboxField(path) == Control(path, {"", "on"})
\* features/munki/packages/package-form-controls.tsx:182-217 InstallerTypeField
InstallerTypeField == Control("installer_type", {"pkg", "copy_from_dmg", "nopkg"})
\* features/munki/packages/package-form-controls.tsx:219-254 RestartActionField
RestartActionField == Control("restart_action", {"RequireRestart", "RequireLogout"})
\* features/munki/packages/package-form-controls.tsx:256-299 UninstallRestartActionField
UninstallRestartActionField == Control("restart_action_for_uninstall", {"", "None"})
\* features/munki/packages/package-form-controls.tsx:301-337 DownloadOnLowDataField
DownloadOnLowDataField == Control("download_on_low_data", {"auto", "always", "never"})
(* The select lists the methods only: a method chosen cannot be taken back.  *)
\* features/munki/packages/package-form-controls.tsx:339-378 UninstallMethodField
UninstallMethodField ==
  Control("uninstall_method", {"removepackages", "remove_copied_items", "uninstall_script"})
(* "muted": switched off with its texts typed.                               *)
\* features/munki/packages/package-form-controls.tsx:510-570 AlertEditor
AlertEditor(path) == Control(path, {"", "muted", "alert"})
\* features/munki/packages/package-form-controls.tsx:572-612 ActionLabelsEditor
ActionLabelsEditor == Control("custom_action_labels", {"", "labels"})

\* features/munki/packages/package-collection-editors.tsx:69-144 InstallerFileField
InstallerFileField == Control("installer_file", {"", "file"})
\* features/munki/packages/package-collection-editors.tsx:146-175 ArchitectureEditor
ArchitectureEditor == Control("supported_architectures", {"", "arm64"})
(* Without blocking applications there are none to list, nor to relaunch.    *)
\* features/munki/packages/package-collection-editors.tsx:177-248 BlockingApplicationsEditor
BlockingApplicationsEditor ==
  LET none == FormCheckboxField("blocking_applications_none")
      emptied(control, path) == Clearing(control, {"on"}, path, "")
  IN {emptied(emptied(none, "blocking_applications"), "blocking_applications_with_launch_args")}
       \cup ShownIf({<<"blocking_applications_none", {""}>>},
                    {Control("blocking_applications", {"", "blank", "app"})})
\* features/munki/packages/package-collection-editors.tsx:250-319 LaunchArgumentsEditor
LaunchArgumentsEditor ==
  Control("blocking_applications_with_launch_args", {"", "blank", "nameless", "twice", "app"})
\* features/munki/packages/package-collection-editors.tsx:354-399 InstallerEnvironmentEditor
InstallerEnvironmentEditor ==
  Control("installer_environment", {"", "blank", "twice", "variable"})
\* features/munki/packages/package-collection-editors.tsx:401-522 InstallsTable
InstallsTable == Control("installs", {"", "blank", "item"})
\* features/munki/packages/package-collection-editors.tsx:524-608 ReceiptsTable
ReceiptsTable == Control("receipts", {"", "blank", "receipt"})
\* features/munki/packages/package-collection-editors.tsx:636-744 ItemsToCopyEditor
ItemsToCopyEditor == Control("items_to_copy", {"", "blank", "item"})
\* features/munki/packages/package-reference-editors.tsx:68-168 SoftwareSelector
SoftwareSelector == Control("software_id", {"", "app"})
(* The text of a chosen package can be cleared; the reference stays.         *)
\* features/munki/packages/package-reference-editors.tsx:170-286 PackageReferenceEditor
PackageReferenceEditor(path) == Control(path, {"", "blank", "package"})
-----------------------------------------------------------------------------
(* Tabs                                                                     *)
\* features/munki/packages/package-form-tabs.tsx:179-279 BasicInfoTab
BasicInfoTab ==
  {VersionField, InstallerTypeField, FormSwitchField("restart_required"),
   FormTextField("force_install_after_date"), FormTextareaField("notes")}
    \cup {FormCheckboxField(p) : p \in {"on_demand", "unattended_install", "unattended_uninstall",
                                        "autoremove", "uninstallable"}}
    \cup ShownIf({<<"installer_type", {"pkg", "copy_from_dmg"}>>}, {InstallerFileField})
    \cup ShownIf({<<"restart_required", {"on"}>>}, {RestartActionField})
\* features/munki/packages/package-form-tabs.tsx:281-318 ContentsTab
ContentsTab == {InstallsTable, ReceiptsTable}
\* features/munki/packages/package-form-tabs.tsx:320-403 RequirementsTab
RequirementsTab ==
  {PackageReferenceEditor("requires"), PackageReferenceEditor("update_for"),
   FormCodeField("installable_condition")}
    \cup {FormTextField(p) : p \in {"minimum_munki_version", "minimum_os_version",
                                    "maximum_os_version"}}
\* features/munki/packages/package-form-tabs.tsx:405-486 InstallationTab
InstallationTab ==
  {ItemsToCopyEditor, ArchitectureEditor,
   FormCheckboxField("blocking_applications_manual_quit_only"),
   FormCodeField("blocking_applications_quit_script"),
   Control("installer_choices_xml", {"", "choices", "malformed"})}
    \cup BlockingApplicationsEditor
    \cup ShownIf({<<"blocking_applications_none", {""}>>}, {LaunchArgumentsEditor})
\* features/munki/packages/package-form-tabs.tsx:488-516 UninstallTab
UninstallTab ==
  {UninstallMethodField, UninstallRestartActionField}
    \cup ShownIf({<<"uninstall_method", {"uninstall_script"}>>}, {ScriptField("uninstall_script")})
\* features/munki/packages/package-form-tabs.tsx:518-569 ScriptsTab
ScriptsTab ==
  {ScriptField(p) : p \in {"preinstall_script", "postinstall_script", "preuninstall_script",
                           "postuninstall_script", "version_script", "installcheck_script",
                           "uninstallcheck_script"}}
\* features/munki/packages/package-form-tabs.tsx:571-605 AlertsTab
AlertsTab == {AlertEditor("preinstall_alert"), AlertEditor("preuninstall_alert"), ActionLabelsEditor}
\* features/munki/packages/package-form-tabs.tsx:607-670 AdvancedTab
AdvancedTab ==
  {FormTextField("package_path"), Control("installed_size", {"", "0", "12", "-1"}),
   DownloadOnLowDataField, InstallerEnvironmentEditor,
   FormCheckboxField("precache"), FormCheckboxField("apple_item")}

\* features/munki/packages/package-form-tabs.tsx:133-177 PackageEditorTabContent
PackageTabs ==
  <<BasicInfoTab \cup {SoftwareSelector}, ContentsTab, RequirementsTab, InstallationTab,
    UninstallTab, ScriptsTab, AlertsTab, AdvancedTab>>
(* The fields whose errors mark a tab are listed apart from its controls.    *)
\* features/munki/packages/package-form-tabs.tsx:54-134 packageFormTabs
packageFormTabs ==
  <<{"software_id", "version", "installer_type", "installer_file", "restart_required",
     "restart_action", "force_install_after_date", "notes", "unattended_install",
     "unattended_uninstall", "on_demand", "autoremove", "uninstallable"},
    {"installs", "receipts"},
    {"requires", "update_for", "minimum_munki_version", "minimum_os_version",
     "maximum_os_version", "installable_condition"},
    {"items_to_copy", "blocking_applications_none", "blocking_applications",
     "blocking_applications_manual_quit_only", "blocking_applications_quit_script",
     "blocking_applications_with_launch_args", "supported_architectures",
     "installer_choices_xml"},
    {"uninstall_method", "restart_action_for_uninstall", "uninstall_script"},
    {c.path : c \in ScriptsTab},
    {"preinstall_alert", "preuninstall_alert", "custom_action_labels"},
    {"package_path", "installed_size", "installer_environment", "download_on_low_data",
     "precache", "apple_item"}>>
-----------------------------------------------------------------------------
(* The schema                                                               *)
\* external MunkiInstallerType
HasInstaller == <<"installer_type", {"pkg", "copy_from_dmg"}>>
\* external MunkiInstallerType
NoInstaller == <<"installer_type", {"nopkg"}>>
\* external MunkiUninstallMethod
Uninstalls(method) == {<<"uninstallable", {"on"}>>, <<"uninstall_method", {method}>>}
\* features/munki/packages/form-schema.ts:423-425 hasItemToCopyInput
NoItemToCopy == <<"items_to_copy", {"", "blank"}>>
\* features/munki/packages/form-schema.ts:419-421 hasReceiptInput
NoReceipt == <<"receipts", {"", "blank"}>>

\* features/munki/packages/form-schema.ts:115-174 packageFormShape
ShapeIssues == {Required("software_id"), Required("version")}
\* features/munki/packages/form-schema.ts:176-241 packageFormSchema
OptionIssues ==
  {Issue("uninstall_method", Uninstalls("")),
   Issue("installer_file", {HasInstaller, <<"installer_object_id", {""}>>, <<"installer_file", {""}>>}),
   Issue("installed_size", {<<"installed_size", {"-1"}>>}),
   Issue("installer_environment", {<<"installer_environment", {"blank", "twice"}>>}),
   Issue("installs", {<<"installs", {"blank"}>>}),
   Issue("receipts", {<<"receipts", {"blank"}>>})}
\* features/munki/packages/form-schema.ts:242-308 update_for
RowIssues ==
  {Issue("items_to_copy", {<<"items_to_copy", {"blank"}>>}),
   Issue("requires", {<<"requires", {"blank"}>>}),
   Issue("update_for", {<<"update_for", {"blank"}>>}),
   Issue("blocking_applications",
         {<<"blocking_applications_none", {""}>>, <<"blocking_applications", {"blank"}>>}),
   Issue("blocking_applications_with_launch_args",
         {<<"blocking_applications_with_launch_args", {"nameless", "twice"}>>})}
\* features/munki/packages/form-schema.ts:309-366 hasItemToCopyInput
RelationIssues ==
  {Issue("items_to_copy", {<<"installer_type", {"copy_from_dmg"}>>, NoItemToCopy}),
   Issue("installer_choices_xml", {HasInstaller, <<"installer_choices_xml", {"malformed"}>>}),
   Issue("receipts", Uninstalls("removepackages") \cup {NoReceipt}),
   Issue("items_to_copy", Uninstalls("remove_copied_items") \cup {NoItemToCopy}),
   Issue("uninstall_script", Uninstalls("uninstall_script") \cup {<<"uninstall_script", {""}>>})}
-----------------------------------------------------------------------------
(* The adapters                                                             *)
\* features/munki/packages/form-adapter.ts:106-158 emptyPackageForm
emptyPackageForm ==
  Filled(UNION {packageFormTabs[n] : n \in DOMAIN packageFormTabs} \cup {"installer_object_id"},
         [installer_type |-> "pkg", restart_action |-> "RequireRestart",
          download_on_low_data |-> "auto"])
(* A chosen file becomes the object it is uploaded as.                       *)
\* features/munki/packages/form-adapter.ts:36-104 packageMutationFromForm
packageMutationFromForm ==
  {Becomes("installer_object_id", {NoInstaller}, ""),
   Becomes("installer_object_id", {HasInstaller, <<"installer_file", {"file"}>>}, "object"),
   Becomes("installer_file", {}, ""),
   Becomes("restart_required", {}, ""),
   Becomes("restart_action", {<<"restart_required", {""}>>}, ""),
   Becomes("blocking_applications", {<<"blocking_applications_none", {"on"}>>}, ""),
   Becomes("blocking_applications_with_launch_args", {<<"blocking_applications_none", {"on"}>>}, ""),
   Becomes("package_path", {NoInstaller}, ""),
   Becomes("installer_choices_xml", {NoInstaller}, ""),
   Becomes("installer_environment", {NoInstaller}, ""),
   Becomes("items_to_copy", {<<"installer_type", {"pkg", "nopkg"}>>,
                             <<"uninstall_method", {"", "removepackages", "uninstall_script"}>>}, ""),
   Becomes("uninstall_script", {<<"uninstall_method", {"", "removepackages", "remove_copied_items"}>>}, "")}
\* features/munki/packages/form-adapter.ts:285-407 cleanPackageReferences
PackageRowsCleaned ==
  {Trimmed(p, {"blank"}) : p \in {"requires", "update_for", "installer_environment", "installs",
                                  "receipts", "blocking_applications",
                                  "blocking_applications_with_launch_args"}}
    \cup {Trimmed("installed_size", {"0"}),
          Trimmed("preinstall_alert", {"muted"}), Trimmed("preuninstall_alert", {"muted"})}
\* features/munki/packages/form-adapter.ts:160-283 packageFormFromPackage
packageFormFromPackage ==
  {Becomes("restart_required", {<<"restart_action", {"RequireRestart", "RequireLogout"}>>}, "on"),
   Becomes("restart_action", {<<"restart_action", {""}>>}, "RequireRestart")}
(* What the server turns down, and the tags of the fields' types with it.    *)
\* src/internal/munki/packages/model.go:376-455 validateRelations
PackageRefusals ==
  {{<<"software_id", {""}>>}, {<<"version", {""}>>},
   {HasInstaller, <<"installer_object_id", {""}>>},
   {NoInstaller, <<"installer_object_id", {"object"}>>},
   {<<"installer_type", {"copy_from_dmg"}>>, <<"items_to_copy", {""}>>},
   Uninstalls(""),
   Uninstalls("removepackages") \cup {<<"receipts", {""}>>},
   Uninstalls("remove_copied_items") \cup {<<"items_to_copy", {""}>>},
   Uninstalls("uninstall_script") \cup {<<"uninstall_script", {""}>>},
   {<<"blocking_applications_none", {"on"}>>, <<"blocking_applications", {"app"}>>},
   {<<"blocking_applications_none", {"on"}>>, <<"blocking_applications_with_launch_args", {"app"}>>},
   {<<"installed_size", {"-1"}>>}, {<<"installer_choices_xml", {"malformed"}>>}}
    \cup {{<<p, {"blank", "nameless", "twice"}>>} :
            p \in {"requires", "update_for", "installer_environment", "installs", "receipts",
                   "items_to_copy", "blocking_applications",
                   "blocking_applications_with_launch_args"}}

\* features/munki/packages/fields.tsx:65-153 PackageForm
PackageForm ==
  [Form("package create", UNION {PackageTabs[n] : n \in DOMAIN PackageTabs},
        ShapeIssues \cup OptionIssues \cup RowIssues \cup RelationIssues, emptyPackageForm) EXCEPT
     !.tabs = packageFormTabs,
     !.sends = packageMutationFromForm \cup PackageRowsCleaned,
     !.reopens = packageFormFromPackage, !.refuses = PackageRefusals,
     !.uploads = {Uploads("installer_file", "installer_object_id", {HasInstaller})},
     !.before = <<"intent", "bytes", "finalize">>,
     !.edits = "package", !.releases = TRUE, !.replaces = TRUE]
(* The edit page has no selector of the software.                            *)
\* features/munki/packages/edit.tsx:44-85 MunkiPackageEditForm
PackageEditForm ==
  [PackageForm EXCEPT !.name = "package", !.controls = @ \ {SoftwareSelector}]
=============================================================================
