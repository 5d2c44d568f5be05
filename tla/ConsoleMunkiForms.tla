--------------------------- MODULE ConsoleMunkiForms ---------------------------
(***************************************************************************)
(* The forms of Munki software, with its icon and its targets, and of the  *)
(* client resources: a builder with a banner, or an archive of one's own.  *)
(***************************************************************************)
EXTENDS ConsoleFormFields

(* Software: the dialog of an include keeps an incomplete row to itself,     *)
(* where the draft here holds it and the schema finds it.                    *)
\* external targets
Included == <<"include", {"macs"}>>
\* features/munki/software/fields.tsx:16-26 munkiSoftwareSchema
munkiSoftwareSchema == {Required("name"), Issue("name", {<<"name", {"a/b", "app-1"}>>})}
\* features/munki/software/fields.tsx:230-281 munkiSoftwareTargetSchema
munkiSoftwareTargetSchema == {Issue("include.actions", {Included, <<"include.actions", {""}>>})}
\* features/munki/software/fields.tsx:28-78 emptyMunkiSoftwareForm
emptyMunkiSoftwareForm ==
  Filled({"name", "display_name", "description", "category", "developer", "icon", "include",
          "exclude", "include.package", "include.actions"}, "include.package" :> "latest")
(* A row that is not there has no package and no actions.                    *)
\* features/munki/software/fields.tsx:283-328 munkiSoftwareInclude
munkiSoftwareInclude ==
  {Becomes("include.actions", {<<"include", {""}>>}, ""),
   Becomes("include.package", {<<"include", {""}>>}, "latest")}
\* features/munki/software/fields.tsx:100-224 MunkiSoftwareOptionsFields
MunkiSoftwareOptionsFields ==
  {Text(p) : p \in {"display_name", "description", "category", "developer"}}
\* features/munki/software/editable-icon.tsx:41-125 EditableMunkiIcon
EditableMunkiIcon == Control("icon", {"", "file"})
\* features/munki/software/editable-icon.tsx:127-191 IconPickerDialog
IconPickerDialog == Control("icon", {"shared"})
\* features/munki/software/include-targets.tsx:89-217 MunkiIncludeTargets
MunkiIncludeTargets == LabelTargetSetEditor
\* features/munki/software/include-targets.tsx:218-342 MunkiIncludeDialog
MunkiIncludeDialog == ShownIf({Included}, {Control("include.package", {"latest", "1"})})
(* An exclusive action is offered only alone; the presentation of optional   *)
(* installs goes with them.                                                  *)
\* features/munki/software/include-targets.tsx:369-450 TargetActionsField
TargetActionsField ==
  ShownIf({Included},
    {Barred(Control("include.actions", {"", "managed_installs", "optional_installs", "featured_items"}),
            "managed_installs", {<<"include.actions", {"optional_installs", "featured_items"}>>})})
\* src/internal/munki/software/target.go:20-30 Include
SoftwareRefusals ==
  {{<<"name", {"", "a/b", "app-1", "app--1-b"}>>}, Overlap, {Included, <<"include.actions", {""}>>}}
\* features/munki/software/create.tsx:22-91 MunkiSoftwareCreatePage
SoftwareCreateForm ==
  [Form("software create", MunkiSoftwareOptionsFields
          \cup {Control("name", {"", "text", "a/b", "app-1", "app--1-b"}), EditableMunkiIcon, IconPickerDialog},
        munkiSoftwareSchema, emptyMunkiSoftwareForm) EXCEPT
     !.edits = "software", !.sends = munkiSoftwareInclude, !.refuses = SoftwareRefusals,
     !.overlooks = {{<<"name", {"app--1-b"}>>}},
     !.uploads = {Uploads("icon", "icon", {})}, !.after = <<"intent", "bytes", "attach">>]
\* features/munki/software/edit.tsx:43-49 softwareFormTabs
softwareFormTabs ==
  <<{"name", "display_name", "description", "category", "developer", "icon"},
    {"include", "exclude", "include.package", "include.actions"}>>
\* features/munki/software/edit.tsx:85-200 MunkiSoftwareDetailForm
SoftwareForm ==
  [SoftwareCreateForm EXCEPT !.name = "software", !.tabs = softwareFormTabs,
     !.controls = MunkiSoftwareOptionsFields \cup {EditableMunkiIcon, IconPickerDialog}
                    \cup MunkiIncludeTargets \cup MunkiIncludeDialog \cup TargetActionsField,
     !.issues = munkiSoftwareSchema \cup munkiSoftwareTargetSchema]
-----------------------------------------------------------------------------
(* Client resources                                                         *)
\* external custom
Custom == <<"custom", {"on"}>>
\* external custom
Built == <<"custom", {""}>>
\* features/munki/client-resources/form-schema.ts:3-41 clientResourceLinkSchema
clientResourceLinkSchema(path) == Issue(path, {Built, <<path, {"incomplete"}>>})
\* features/munki/client-resources/form-schema.ts:43-85 clientResourcesBuilderSchema
clientResourcesBuilderSchema ==
  {Issue("banner_file", {Built, <<"banner_file", {""}>>, <<"banner", {""}>>}),
   Issue("footer.text", {Built, <<"footer.text", {"long"}>>})}
\* features/munki/client-resources/form-schema.ts:148-167 addDuplicateLabelIssue
addDuplicateLabelIssue(path) == Issue(path, {Built, <<path, {"twice"}>>})
\* features/munki/client-resources/form-schema.ts:87-115 clientResourcesFormSchema
clientResourcesFormSchema ==
  {Issue("archive_file", {Custom, <<"archive", {""}>>, <<"archive_file", {""}>>})}
    \cup clientResourcesBuilderSchema
    \cup {clientResourceLinkSchema(p) : p \in {"links", "footer.links"}}
    \cup {addDuplicateLabelIssue(p) : p \in {"links", "footer.links"}}
\* features/munki/client-resources/form-adapter.ts:15-24 emptyClientResourcesForm
emptyClientResourcesForm ==
  Filled({"custom", "archive", "archive_file", "banner", "banner_file", "banner.fit", "links",
          "footer.text", "footer.links"}, "banner.fit" :> "height")
(* What is saved is the archive or the builder; the other starts empty.      *)
\* features/munki/client-resources/form-adapter.ts:26-84 clientResourcesBuilderMutation
clientResourcesBuilderMutation ==
  {Becomes(p, {Custom}, "") : p \in {"links", "footer.text", "footer.links", "banner", "banner_file"}}
    \cup {Becomes("banner.fit", {Custom}, "height")}
\* features/munki/client-resources/edit.tsx:41-90 MunkiClientResourcesEditForm
clientResourcesSave ==
  {Becomes("archive", {Built}, ""), Becomes("archive_file", {}, ""),
   Becomes("archive", {Custom, <<"archive_file", {"file"}>>}, "object"),
   Becomes("banner", {Built, <<"banner_file", {"file"}>>}, "object"),
   Becomes("banner_file", {Built}, "")}
(* A chosen image replaces the stored one; taking it away takes both.        *)
\* features/munki/client-resources/banner-editor.tsx:24-172 BannerEditor
BannerEditor ==
  {Clearing(Control("banner_file", {"", "file"}), {"", "file"}, "banner", "")}
    \cup ShownIf({<<"banner_file", {"file"}>>}, {Control("banner.fit", {"height", "cover"})})
    \cup ShownIf({<<"banner", {"object"}>>}, {Control("banner.fit", {"height", "cover"})})
\* features/munki/client-resources/archive-field.tsx:21-128 ClientResourcesArchiveField
ClientResourcesArchiveField == {Control("archive_file", {"", "file"})}
(* The dialog of a link holds it back until it is complete.                  *)
\* features/munki/client-resources/link-dialog.tsx:22-152 LinkDialog
LinkDialog(path) == Control(path, {"", "link", "twice"})
\* features/munki/client-resources/editor.tsx:252-373 EditableLinks
EditableLinks == {LinkDialog("links"), LinkDialog("footer.links")}
(* The text of the footer is typed in place, where no error is shown.        *)
\* features/munki/client-resources/editor.tsx:62-211 ClientResourcesEditor
ClientResourcesEditor == EditableLinks \cup BannerEditor \cup {Control("footer.text", {"", "text", "long"})}
\* src/internal/munki/clientresources/model.go:85-165 validate
ClientResourcesRefusals ==
  {{Custom, <<"archive", {""}>>}, {Built, <<"banner", {""}>>}, {<<"footer.text", {"long"}>>},
   {Built, <<"archive", {"object"}>>}, {Custom, <<"banner", {"object"}>>}}
    \cup {{<<p, {"incomplete", "twice"}>>} : p \in {"links", "footer.links"}}
(* Saving the archive that is stored already sends nothing.                  *)
\* features/munki/client-resources/fields.tsx:25-177 MunkiClientResourcesForm
ClientResourcesForm ==
  [Form("client resources",
        {OnOff("custom")} \cup ShownIf({Custom}, ClientResourcesArchiveField)
                          \cup ShownIf({Built}, ClientResourcesEditor),
        clientResourcesFormSchema, emptyClientResourcesForm) EXCEPT
     !.sends = clientResourcesBuilderMutation \cup clientResourcesSave,
     !.refuses = ClientResourcesRefusals, !.silent = {"footer.text"},
     !.uploads = {Uploads("archive_file", "archive", {Custom}), Uploads("banner_file", "banner", {Built})},
     !.idle = {{Custom, <<"archive_file", {""}>>}},
     !.before = <<"intent", "bytes">>, !.releases = TRUE, !.replaces = TRUE, !.stays = TRUE]
=============================================================================
