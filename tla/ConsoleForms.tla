------------------------------ MODULE ConsoleForms ------------------------------
(***************************************************************************)
(* A form of the console at work: the draft its user fills in, the saves   *)
(* it starts with their uploads, the guard on the way out, and the record  *)
(* on the server, which others may change meanwhile.                       *)
(*                                                                         *)
(* A save is a submission: the requests it still has to make, one after    *)
(* the other.  A request that was sent may be applied after its sender has *)
(* given up.  Leaving the page does not end a submission: it goes on, out  *)
(* of sight, and navigates when it is done.                                *)
(***************************************************************************)
EXTENDS ConsoleControls

CONSTANTS
  Settings,       \* what is filled in and by whom: see ConsoleSetting
  Forms,          \* the forms by name
  MaxSubmits      \* a bound on the submissions of a behaviour

ASSUME MaxSubmitsAssumption == MaxSubmits \in Nat \ {0}

Stages == {"intent", "bytes", "finalize", "write", "attach", "release"}
(* Every setting is of a form there is, and its records have that form's     *)
(* fields.  An upload is made of known steps; what can be cancelled while it *)
(* runs releases what it uploaded; what a save asks about can be read; what  *)
(* is uploaded has a field; where discarding is waited for nothing is        *)
(* uploaded; what can be run live has a query, on the first tab.             *)
ASSUME FormsAssumption ==
  /\ \A s \in Settings :
       /\ s.form \in DOMAIN Forms
       /\ \A record \in {s.opened, s.others} :
            record = [none |-> ""] \/ DOMAIN record = DOMAIN Forms[s.form].start
  /\ \A n \in DOMAIN Forms :
       /\ Forms[n].before \in Seq({"intent", "bytes", "finalize"})
       /\ Forms[n].after \in Seq({"intent", "bytes", "attach"})
       /\ Forms[n].replaces /\ ~Forms[n].stays => Forms[n].releases
       /\ Forms[n].asks \subseteq DOMAIN Forms[n].start \ Forms[n].secret
       /\ Forms[n].tabs \in Seq(SUBSET DOMAIN Forms[n].start)
       /\ \A u \in Forms[n].uploads : u.object \in DOMAIN Forms[n].start
       /\ "none" \notin DOMAIN Forms[n].start
       /\ Forms[n].awaits \subseteq {"discard", "live"}
       /\ "discard" \in Forms[n].awaits => ~Forms[n].releases /\ ~Forms[n].stays
       /\ "live" \in Forms[n].awaits => "query" \in DOMAIN Forms[n].start /\ Forms[n].tabs # <<>>
       /\ Forms[n].offers \subseteq DOMAIN Forms[n].start
(* A schema judges fields of its form, each on a tab.  Where no control shows*)
(* an error, no choice brings it about and no record opens with it: neither  *)
(* what a setting's others write nor what it is opened on.  An empty form    *)
(* that opens has no error out of sight.                                     *)
ASSUME ErrorsAssumption ==
  /\ \A n \in DOMAIN Forms :
       /\ \A r \in Forms[n].issues \cup Forms[n].controls \cup Forms[n].reopens :
            \A y \in r.when : y[1] \in DOMAIN Forms[n].start
       /\ \A i \in Forms[n].issues :
            \/ i.path \in Forms[n].silent \/ Forms[n].tabs = <<>>
            \/ \E k \in DOMAIN Forms[n].tabs : i.path \in Forms[n].tabs[k]
       /\ \A i \in Unseen(Forms[n]) :
            /\ KeptOut(Forms[n], i)
            /\ \A c \in Forms[n].controls : \A x \in c.offers : Tolerates(Forms[n], c, x, i)
  /\ \A s \in Settings :
       /\ \A record \in {s.opened, s.others} \ {[none |-> ""]} : \A i \in Unseen(Forms[s.form]) :
            ~Holds(i.when, FormOf(Forms[s.form], record))
       /\ s.opened = [none |-> ""] \/ Forms[s.form].stays =>
            Surfaced(Forms[s.form], Forms[s.form].start)
(* What a form lets its user save, the server takes and the form that edits  *)
(* it reads back: a few fields at a time, as its rules relate them.  So it   *)
(* does with the records of the settings.                                    *)
Records(n) ==
  {record \in {s.opened : s \in {s \in Settings : s.form = n}}
                \cup {s.others : s \in {s \in Settings : s.form = n}} : record # [none |-> ""]}
ASSUME SavesAssumption ==
  \A n \in DOMAIN Forms :
    LET f == Forms[n]
        again == Forms[f.edits]
    IN /\ f.edits \in DOMAIN Forms /\ DOMAIN again.start = DOMAIN f.start
       /\ \A r \in f.refuses \cup f.overlooks \cup {c.when : c \in f.sends} :
            FieldsOf(r) \subseteq DOMAIN f.start
       /\ BarsHold(f) /\ LateApart(f, again) /\ AsksApart(f, again)
       /\ SendsAccepted(f, Records(n)) /\ ReadsBack(f, again, Records(n))
       /\ \A record \in Records(n) :
            Reopens(again, record) /\ \A k \in Barring(f) : ~Holds(k, record)

VARIABLES
  setting,        \* what this behaviour fills in
  server,         \* the record: its values, version, object and last writer
  objects,        \* the uploaded objects; 0 is the record's first one
  page,           \* the form as it is open in the browser
  subs,           \* the submissions
  wire,           \* the requests under way: a submission and what it asks
  lost            \* the requests whose request or answer was lost

vars == <<setting, server, objects, page, subs, wire, lost>>

Submits == 1..MaxSubmits
NoRecord == [none |-> ""]
NoObject == -1
\* external useForm
form == Forms[setting.form]

(* A setting: the form, the record it is opened on or NoRecord, the controls *)
(* its user turns to, what somebody else saves or NoRecord, how many requests*)
(* are lost, how often the form is submitted, and whether the user is calm:  *)
(* waits for a save to end and does not leave.                               *)
ConsoleSetting(name, opened, fields, others, losses, submits, calm) ==
  [form |-> name, opened |-> opened, fields |-> fields, others |-> others,
   losses |-> losses, submits |-> submits, calm |-> calm]

(* Mutant: the record is not turned into a form.                            *)
MountedRaw(record) ==
  [open |-> TRUE, seen |-> record, base |-> record.values, draft |-> record.values,
   touched |-> FALSE, attempted |-> FALSE, tab |-> 1, dialog |-> "none", allowExit |-> FALSE,
   callbacks |-> {}]
(* The page mounted on a record: what it read, the values the form started   *)
(* from and the draft; whether the exit is open, and the callbacks that      *)
(* opened it and are waited for.                                             *)
\* features/munki/packages/edit.tsx:44-70 MunkiPackageEditForm
Mounted(record) ==
  LET values == IF record.values = NoRecord THEN form.start ELSE FormOf(form, record.values)
  IN [open |-> TRUE, seen |-> record, base |-> values, draft |-> values, touched |-> FALSE,
      attempted |-> FALSE, tab |-> 1, dialog |-> "none", allowExit |-> FALSE,
      callbacks |-> {}]
\* external mutateAsync
NoSubmission ==
  [todo |-> <<>>, reply |-> "none", body |-> NoRecord, object |-> NoObject, draft |-> NoRecord,
   creates |-> FALSE, known |-> FALSE, live |-> FALSE, unwanted |-> FALSE,
   asked |-> FALSE, read |-> 0, saved |-> FALSE, uploading |-> FALSE, offers |-> FALSE]

\* external useForm
Init ==
  /\ setting \in Settings
  /\ server = [values |-> setting.opened, version |-> 0, own |-> FALSE, others |-> FALSE,
               object |-> IF setting.opened # NoRecord /\ form.uploads # {} THEN 0 ELSE NoObject]
  /\ objects = [o \in {0} \cup Submits |-> IF o = 0 THEN "final" ELSE "none"]
  /\ page = Mounted(server)
  /\ subs = [s \in Submits |-> NoSubmission]
  /\ wire = {}
  /\ lost = {}
-----------------------------------------------------------------------------
(* What holds of the page                                                   *)
\* external isPending
Running(s) == subs[s].todo # <<>>
\* external mutateAsync
Used == {s \in Submits : subs[s] # NoSubmission}
\* external ConfirmDialog
Quiet == page.open /\ page.dialog = "none"
\* components/form-actions.tsx:12-37 FormActions
isSubmitting == \E s \in Submits : subs[s].live /\ Running(s)
(* Cancel is shut while a save runs, but for the upload of an installer,     *)
(* which is not over before a failed one is released.                        *)
\* components/form-actions.tsx:39-55 canCancelWhileSubmitting
CanCancel ==
  \A s \in Submits : subs[s].live /\ Running(s) =>
    form.replaces /\ ~form.stays /\ subs[s].uploading
\* hooks/use-page-form-exit-guard.tsx:7-22 hasUnsavedChanges
hasUnsavedChanges == page.draft # page.base
\* hooks/use-page-form-exit-guard.tsx:23-37 shouldBlockNavigation
shouldBlockNavigation == hasUnsavedChanges /\ ~page.allowExit
(* The exit is open while a callback is waited for, whoever goes out by it.  *)
\* hooks/use-page-form-exit-guard.tsx:39-42 runWithoutPrompt
runWithoutPrompt(callback) ==
  [page EXCEPT !.allowExit = TRUE, !.callbacks = @ \cup {callback}, !.dialog = "none"]
(* Mutant: the exit stays open.                                             *)
ranForGood(callback) == [page EXCEPT !.callbacks = @ \ {callback}]
(* One flag serves them all: the first callback to end shuts the exit.       *)
\* hooks/use-page-form-exit-guard.tsx:43-46 finally
ranWithoutPrompt(callback) == [page EXCEPT !.allowExit = FALSE, !.callbacks = @ \ {callback}]
(* The page is gone, and with it what it asked and the exit it kept.         *)
\* external unmount
Left ==
  [page EXCEPT !.open = FALSE, !.dialog = "none", !.allowExit = FALSE, !.callbacks = {}]
(* What is under way goes on without the page.                               *)
\* external unmount
Detached == [s \in Submits |-> [subs[s] EXCEPT !.live = FALSE]]
-----------------------------------------------------------------------------
(* Filling in and submitting                                                *)
\* components/validated-form-field.tsx:15-53 ValidatedFormField
Fill ==
  /\ Quiet
  /\ isSubmitting => ~setting.calm /\ ~form.stays
  /\ \E c \in Usable(form, page.draft) : c.path \in setting.fields /\
       \E x \in Choices(c, page.draft) :
         LET draft == Change(c, x, page.draft)
         IN draft # page.draft /\ page' = [page EXCEPT !.draft = draft, !.touched = TRUE]
  /\ UNCHANGED <<setting, server, objects, subs, wire, lost>>

\* external mutateAsync
Unused == {s \in Submits \ Used : s <= setting.submits}
(* The requests of a save: an upload comes before the record or after it.    *)
\* hooks/use-upload.ts:16-49 useUpload
Plan(uploading) ==
  IF uploading = {} THEN <<"write">> ELSE form.before \o <<"write">> \o form.after
(* A file that is uploaded after the record leaves the object as it was read.*)
\* features/munki/software/edit.tsx:121-157 useMunkiSoftwareForm
Bodied(uploading) ==
  LET body == Body(form, page.draft)
  IN IF form.after = <<>> THEN body
     ELSE [f \in DOMAIN body |->
             IF \E u \in uploading : u.object = f
             THEN IF page.seen.values = NoRecord THEN "" ELSE page.seen.values[f] ELSE body[f]]
(* A save of a policy that changes its remediation may have failures to run  *)
(* it on.                                                                    *)
\* features/osquery/policies/edit.tsx:100-108 scriptChanged
Offering(body) ==
  page.seen.values # NoRecord /\ \E f \in form.offers : body[f] \notin {"", page.seen.values[f]}
\* features/munki/packages/edit.tsx:86-107 onSubmit
Start(asked) ==
  \E s \in Unused :
    LET uploading == Uploading(form, page.draft)
        body == Bodied(uploading)
        plan == Plan(uploading)
    IN /\ \A t \in Unused : s <= t
       /\ subs' = [subs EXCEPT ![s] =
            [NoSubmission EXCEPT
               !.todo = plan, !.body = body, !.draft = page.draft, !.live = TRUE, !.asked = asked,
               !.read = page.seen.version, !.creates = page.seen.values = NoRecord,
               !.uploading = Head(plan) # "write", !.offers = Offering(body),
               !.object = IF Head(plan) # "write" THEN s
                          ELSE IF \E u \in form.uploads : body[u.object] = "object"
                          THEN page.seen.object ELSE NoObject]]
       /\ wire' = wire \cup {<<s, Head(plan)>>}

(* Mutant: only the query counts.                                           *)
ErasesResultsByQuery ==
  page.seen.values # NoRecord /\ form.asks # {} /\
  Body(form, page.draft)["query"] # page.seen.values["query"]
(* A save of what has results asks first when it changes what they answer,   *)
(* as far as the page has read.                                              *)
\* features/osquery/reports/fields.tsx:217-242 onSubmit
ErasesResults ==
  page.seen.values # NoRecord /\
  \E f \in form.asks : Body(form, page.draft)[f] # page.seen.values[f]
\* external handleSubmit
Submitting == Quiet /\ ~isSubmitting /\ Unused # {}
\* features/munki/packages/fields.tsx:96-106 revealFirstInvalidFormTab
SubmitInvalid ==
  /\ Submitting
  /\ Issues(form, page.draft) # {}
  /\ page' = [page EXCEPT !.attempted = TRUE,
                          !.tab = Revealed(form, Issues(form, page.draft), @)]
  /\ UNCHANGED <<setting, server, objects, subs, wire, lost>>
\* features/osquery/policies/fields.tsx:146-167 setPendingResultReset
SubmitAsks ==
  /\ Submitting
  /\ Issues(form, page.draft) = {}
  /\ ErasesResults
  /\ page' = [page EXCEPT !.attempted = TRUE, !.dialog = "reset"]
  /\ UNCHANGED <<setting, server, objects, subs, wire, lost>>
\* features/osquery/policies/fields.tsx:169-182 confirmPendingResultReset
ConfirmReset ==
  /\ page.open /\ page.dialog = "reset" /\ ~isSubmitting /\ Unused # {}
  /\ Start(TRUE)
  /\ UNCHANGED <<setting, server, objects, page, lost>>
(* Mutant: the schema is not asked before a save.                           *)
SubmitSavesUnchecked ==
  /\ Submitting
  /\ ~ErasesResults
  /\ ~\E idle \in form.idle : Holds(idle, page.draft)
  /\ Start(FALSE)
  /\ page' = [page EXCEPT !.attempted = TRUE]
  /\ UNCHANGED <<setting, server, objects, lost>>
\* features/munki/packages/fields.tsx:24-45 usePackageEditorForm
SubmitSaves ==
  /\ Submitting
  /\ Issues(form, page.draft) = {}
  /\ ~ErasesResults
  /\ ~\E idle \in form.idle : Holds(idle, page.draft)
  /\ Start(FALSE)
  /\ page' = [page EXCEPT !.attempted = TRUE]
  /\ UNCHANGED <<setting, server, objects, lost>>
\* features/munki/client-resources/edit.tsx:55-92 save
SubmitNothing ==
  /\ Submitting
  /\ Issues(form, page.draft) = {}
  /\ \E idle \in form.idle : Holds(idle, page.draft)
  /\ page' = [page EXCEPT !.base = page.draft, !.touched = FALSE, !.attempted = FALSE]
  /\ UNCHANGED <<setting, server, objects, subs, wire, lost>>
-----------------------------------------------------------------------------
(* The server                                                               *)
(* A record takes what it accepts, with an object that is there; a name is   *)
(* taken once.  The object it lets go is there until it is deleted.          *)
\* src/internal/munki/packages/write_store.go:157-240 update
Written(sub) ==
  LET ready == IF "finalize" \in {form.before[n] : n \in DOMAIN form.before}
               THEN {"final", "replaced"} ELSE {"stored", "final", "replaced"}
  IN IF /\ Accepts(form, sub.body)
        /\ sub.object # NoObject => objects[sub.object] \in ready
        /\ sub.creates <=> server.values = NoRecord
     THEN [ok |-> TRUE,
           server |-> [server EXCEPT !.version = @ + 1, !.own = TRUE, !.object = sub.object,
                         !.values = [f \in DOMAIN sub.body |->
                                       IF f \in form.secret THEN "" ELSE sub.body[f]]],
           objects |-> [o \in DOMAIN objects |->
                          IF o = sub.object THEN "final"
                          ELSE IF form.replaces /\ o = server.object THEN "replaced"
                          ELSE objects[o]]]
     ELSE [ok |-> FALSE, server |-> server, objects |-> objects]
\* src/internal/munki/httpapi/package_upload.go:78-101 finalizeMunkiUpload
Moved(o, from, to) ==
  [ok |-> objects[o] = from, server |-> server,
   objects |-> IF objects[o] = from THEN [objects EXCEPT ![o] = to] ELSE objects]
(* Mutant: whose object it is does not matter.                              *)
ReleasedAnyway(o) == Moved(o, objects[o], "deleted")
(* An object the record has is not released: its row is referred to.         *)
\* src/internal/postgres/migrations/010_munki.sql:63-63 installer_object_id
Released(o) ==
  IF server.object = o \/ objects[o] \in {"none", "deleted"}
  THEN [ok |-> FALSE, server |-> server, objects |-> objects]
  ELSE [ok |-> TRUE, server |-> server, objects |-> [objects EXCEPT ![o] = "deleted"]]
\* features/munki/software/queries.ts:125-144 useUploadMunkiIcon
Attached(o) ==
  [ok |-> objects[o] = "stored",
   server |-> IF objects[o] # "stored" THEN server
              ELSE [server EXCEPT !.version = @ + 1, !.object = o, !.own = TRUE,
                      !.values = [f \in DOMAIN @ |->
                        IF \E u \in form.uploads : u.object = f THEN "object" ELSE @[f]]],
   objects |-> Moved(o, "stored", "final").objects]
\* external fetch
Served(s, asks) ==
  CASE asks = "intent" -> Moved(s, "none", "declared")
    [] asks = "bytes" -> Moved(s, "declared", "stored")
    [] asks = "finalize" -> Moved(s, "stored", "final")
    [] asks = "write" -> Written(subs[s])
    [] asks = "attach" -> Attached(s)
    [] asks = "release" -> Released(s)

\* external fetch
Waits(s, asks) == Running(s) /\ Head(subs[s].todo) = asks /\ subs[s].reply = "none"
\* external fetch
Replied(s, asks, reply) ==
  IF Waits(s, asks) THEN [subs EXCEPT ![s].reply = reply] ELSE subs
\* external fetch
Serve ==
  \E r \in wire :
    LET served == Served(r[1], r[2])
    IN /\ server' = served.server
       /\ objects' = served.objects
       /\ wire' = wire \ {r}
       /\ subs' = Replied(r[1], r[2], IF served.ok THEN "ok" ELSE "failed")
       /\ UNCHANGED <<setting, page, lost>>
\* external fetch
LoseRequest ==
  \E r \in wire :
    /\ Cardinality(lost) < setting.losses
    /\ lost' = lost \cup {r}
    /\ wire' = wire \ {r}
    /\ subs' = Replied(r[1], r[2], "failed")
    /\ UNCHANGED <<setting, server, objects, page>>
\* external fetch
LoseAnswer ==
  \E r \in wire :
    LET served == Served(r[1], r[2])
    IN /\ Cardinality(lost) < setting.losses
       /\ lost' = lost \cup {r}
       /\ server' = served.server
       /\ objects' = served.objects
       /\ wire' = wire \ {r}
       /\ subs' = Replied(r[1], r[2], "failed")
       /\ UNCHANGED <<setting, page>>
(* After the transaction that replaced it, an object is deleted, if by then  *)
(* no record refers to it again.                                             *)
\* src/internal/munki/packages/write_store.go:249-254 DeleteUnreferenced
DeleteUnreferenced ==
  \E o \in DOMAIN objects :
    /\ objects[o] = "replaced"
    /\ objects' = [objects EXCEPT ![o] = IF server.object = o THEN "final" ELSE "deleted"]
    /\ UNCHANGED <<setting, server, page, subs, wire, lost>>
(* Somebody else saves the record.                                           *)
\* external onSubmit
OthersSave ==
  /\ setting.others # NoRecord /\ ~server.others
  /\ server' = [server EXCEPT !.values = setting.others, !.version = @ + 1, !.own = FALSE,
                              !.others = TRUE]
  /\ UNCHANGED <<setting, objects, page, subs, wire, lost>>
-----------------------------------------------------------------------------
(* A submission goes on                                                     *)
(* Mutant: the upload of a failed write is kept.                            *)
GivenUpForgets(sub) ==
  [sub EXCEPT !.reply = "none",
     !.todo = IF sub.known /\ form.releases /\ Head(sub.todo) # "write" THEN <<"release">> ELSE <<>>]
(* Giving up: an upload whose object is known is released.                   *)
\* hooks/use-upload.ts:99-120 cleanupIntent
GivenUp(sub) ==
  [sub EXCEPT !.reply = "none",
     !.todo = IF sub.known /\ form.releases THEN <<"release">> ELSE <<>>]
\* external fetch
Asking(s, sub) == IF sub.todo = <<>> THEN {} ELSE {<<s, Head(sub.todo)>>}
\* hooks/use-upload.ts:51-98 mutationFn
Advance ==
  \E s \in Submits :
    LET sub == subs[s]
        known == sub.known \/ Head(sub.todo) = "intent"
        next == [sub EXCEPT !.todo = Tail(sub.todo), !.reply = "none", !.known = known,
                            !.uploading = @ /\ Head(Tail(sub.todo)) # "write"]
    IN /\ Running(s) /\ sub.reply = "ok" /\ Len(sub.todo) > 1
       /\ subs' = [subs EXCEPT ![s] = next]
       /\ wire' = wire \cup Asking(s, next)
       /\ UNCHANGED <<setting, server, objects, page, lost>>
\* features/munki/packages/edit.tsx:102-117 deleteUnclaimedMunkiInstaller
Fail ==
  \E s \in Submits :
    LET sub == GivenUp(subs[s])
    IN /\ Running(s) /\ subs[s].reply = "failed" /\ Head(subs[s].todo) # "release"
       /\ subs' = [subs EXCEPT ![s] = sub]
       /\ wire' = wire \cup Asking(s, sub)
       /\ UNCHANGED <<setting, server, objects, page, lost>>
(* The form takes the submitted draft for its own and the page is left; a    *)
(* submission whose page is gone navigates all the same, as the guard lets.  *)
(* With failures to offer the new remediation for, the page stays, saved, and*)
(* nothing navigates.                                                        *)
\* features/munki/packages/fields.tsx:33-43 onSuccess
AfterSave(sub, offered) ==
  LET rebased(left) == [left EXCEPT !.base = sub.draft, !.draft = sub.draft, !.touched = FALSE,
                                    !.attempted = FALSE]
  IN IF sub.live
     THEN IF offered THEN rebased([page EXCEPT !.dialog = "offer"])
          ELSE rebased(IF form.stays THEN page ELSE Left)
     ELSE IF offered \/ form.stays \/ ~page.open THEN page
     ELSE IF shouldBlockNavigation THEN [page EXCEPT !.dialog = "leave"] ELSE Left
\* features/munki/packages/edit.tsx:118-125 onSuccess
Finish ==
  \E s \in Submits, offered \in BOOLEAN :
    /\ Running(s) /\ subs[s].reply = "ok" /\ Len(subs[s].todo) = 1 /\ Head(subs[s].todo) # "release"
    /\ offered => subs[s].offers
    /\ page' = AfterSave(subs[s], offered)
    /\ subs' = [subs EXCEPT ![s].todo = <<>>, ![s].saved = TRUE, ![s].live = FALSE]
    /\ UNCHANGED <<setting, server, objects, wire, lost>>
(* Whether the release worked makes no difference.                           *)
\* features/munki/upload.ts:21-23 deleteUnclaimedMunkiInstaller
EndRelease ==
  \E s \in Submits :
    /\ Running(s) /\ Head(subs[s].todo) = "release" /\ subs[s].reply # "none"
    /\ subs' = [subs EXCEPT ![s].todo = <<>>, ![s].live = FALSE]
    /\ UNCHANGED <<setting, server, objects, page, wire, lost>>
-----------------------------------------------------------------------------
(* Leaving                                                                  *)
(* Mutant: nothing is aborted.                                              *)
onCancelNavigates(sub) == sub
(* An abort reaches an upload and a write of one's own page.                 *)
\* features/munki/packages/edit.tsx:126-134 onCancel
onCancel(sub) ==
  IF form.releases /\ sub.live /\ sub.todo # <<>> /\ sub.todo # <<"release">> THEN GivenUp(sub)
  ELSE sub
(* Client resources stay, with the draft they started from.                  *)
\* features/munki/client-resources/fields.tsx:76-81 discard
Discarded ==
  IF form.stays THEN [Mounted(page.seen) EXCEPT !.tab = page.tab] ELSE Left
(* The callback of a policy or a report is waited for and the page is open   *)
(* until it navigates; that of the others is over at once, exit and all.     *)
\* features/osquery/policies/edit.tsx:81-87 onCancel
DiscardAwaited ==
  /\ "discard" \in form.awaits
  /\ page' = runWithoutPrompt("discard")
  /\ UNCHANGED <<setting, server, objects, subs, wire, lost>>
\* features/munki/client-resources/edit.tsx:94-112 onCancel
DiscardAtOnce(unwanted) ==
  LET gone(sub) == IF form.stays THEN sub ELSE [sub EXCEPT !.live = FALSE]
      noted(sub) == [sub EXCEPT !.unwanted = unwanted /\ sub.live /\ sub.todo # <<>>]
  IN /\ "discard" \notin form.awaits
     /\ subs' = [s \in Submits |-> gone(onCancel(noted(subs[s])))]
     /\ wire' = wire \cup UNION {Asking(s, subs'[s]) : s \in {s \in Submits : subs'[s].todo # subs[s].todo}}
     /\ page' = Discarded
     /\ UNCHANGED <<setting, server, objects, lost>>
\* hooks/use-page-form-exit-guard.tsx:53-54 onDiscard
Discard(unwanted) == DiscardAwaited \/ DiscardAtOnce(unwanted)
\* hooks/use-page-form-exit-guard.tsx:48-54 requestDiscard
Cancel ==
  /\ ~setting.calm /\ Quiet /\ CanCancel
  /\ IF hasUnsavedChanges
     THEN page' = [page EXCEPT !.dialog = "discard"]
          /\ UNCHANGED <<setting, server, objects, subs, wire, lost>>
     ELSE Discard(TRUE)
\* hooks/use-page-form-exit-guard.tsx:74-76 setDiscardRequested
ConfirmDiscard == page.open /\ page.dialog = "discard" /\ Discard(TRUE)
\* hooks/use-page-form-exit-guard.tsx:57-68 ConfirmDialog
KeepEditing ==
  /\ page.open /\ page.dialog \in {"discard", "leave", "reset"} /\ ~(page.dialog = "reset" /\ isSubmitting)
  /\ page' = [page EXCEPT !.dialog = "none"]
  /\ UNCHANGED <<setting, server, objects, subs, wire, lost>>

\* external navigate
Leave ==
  /\ page' = Left
  /\ subs' = Detached
  /\ UNCHANGED <<setting, server, objects, wire, lost>>
\* external useBlocker
FollowLink ==
  /\ ~setting.calm /\ Quiet
  /\ IF shouldBlockNavigation
     THEN page' = [page EXCEPT !.dialog = "leave"]
          /\ UNCHANGED <<setting, server, objects, subs, wire, lost>>
     ELSE Leave
\* hooks/use-page-form-exit-guard.tsx:69-73 onConfirm
ConfirmLeave == page.open /\ page.dialog = "leave" /\ Leave
(* Run Live leaves for the page that runs the query, which the draft has to  *)
(* have, taking the draft along: nothing is asked.                           *)
\* features/osquery/policies/fields.tsx:200-207 runLive
RunLive ==
  /\ ~setting.calm /\ Quiet /\ "live" \in form.awaits
  /\ page' = IF page.draft["query"] = "" THEN [page EXCEPT !.tab = 1] ELSE runWithoutPrompt("live")
  /\ UNCHANGED <<setting, server, objects, subs, wire, lost>>
(* A callback waits for the history entry, then navigates as a link does.    *)
\* features/osquery/live/history.ts:55-103 navigate
CallbackNavigates ==
  \E callback \in page.callbacks :
    IF shouldBlockNavigation
    THEN /\ page' = [ranWithoutPrompt(callback) EXCEPT !.dialog = "leave"]
         /\ UNCHANGED <<setting, server, objects, subs, wire, lost>>
    ELSE Leave
(* A callback ends and the page stays: another navigation within the page, of*)
(* a tab or of another callback, has overtaken its own.                      *)
\* external navigate
CallbackOvertaken ==
  \E callback \in page.callbacks :
    /\ page' = ranWithoutPrompt(callback)
    /\ UNCHANGED <<setting, server, objects, subs, wire, lost>>
(* The offer is answered, and the page is left.                              *)
\* features/osquery/policies/edit.tsx:122-150 finishSave
AnswerOffer ==
  /\ page.open /\ page.dialog = "offer"
  /\ IF shouldBlockNavigation
     THEN /\ page' = [page EXCEPT !.dialog = "leave"]
          /\ UNCHANGED <<setting, server, objects, subs, wire, lost>>
     ELSE Leave
(* Taking the client resources away, confirmed in a dialog that keeps the    *)
(* page as it is until the request is answered: the step is the moment it is *)
(* served; one that is lost changes nothing.                                 *)
\* features/munki/client-resources/edit.tsx:113-119 onUndeploy
Undeploy ==
  /\ ~setting.calm /\ Quiet /\ form.stays /\ ~isSubmitting
  /\ page.seen.values # NoRecord /\ server.values # NoRecord
  /\ server' = [server EXCEPT !.values = NoRecord, !.version = @ + 1, !.own = FALSE,
                              !.object = NoObject]
  /\ objects' = [objects EXCEPT ![server.object] = "replaced"]
  /\ UNCHANGED <<setting, page, subs, wire, lost>>
\* external useParams
Reopen ==
  /\ ~setting.calm /\ ~page.open /\ server.values # NoRecord /\ Unused # {}
  /\ page' = Mounted(server)
  /\ UNCHANGED <<setting, server, objects, subs, wire, lost>>
(* A newer record: a keyed form is mounted anew, draft and all; another      *)
(* takes it for what it started from, and for its draft if nobody typed.     *)
\* features/munki/packages/edit.tsx:19-42 MunkiPackageEditPage
Refetch ==
  /\ page.open /\ page.seen.version # server.version
  /\ page.seen.values # NoRecord \/ form.stays
  /\ LET mounted == Mounted(server)
     IN IF form.keyed
        THEN page' = mounted /\ subs' = Detached
        ELSE /\ page' = [page EXCEPT !.seen = server, !.base = mounted.base,
                                     !.draft = IF page.touched THEN @ ELSE mounted.base]
             /\ UNCHANGED subs
  /\ UNCHANGED <<setting, server, objects, wire, lost>>
-----------------------------------------------------------------------------
Browser == Advance \/ Fail \/ Finish \/ EndRelease
Next ==
  \/ Fill \/ SubmitInvalid \/ SubmitAsks \/ ConfirmReset \/ SubmitSaves \/ SubmitNothing
  \/ Serve \/ LoseRequest \/ LoseAnswer \/ DeleteUnreferenced \/ OthersSave
  \/ Advance \/ Fail \/ Finish \/ EndRelease
  \/ Cancel \/ ConfirmDiscard \/ KeepEditing \/ FollowLink \/ ConfirmLeave
  \/ RunLive \/ CallbackNavigates \/ CallbackOvertaken \/ AnswerOffer
  \/ Undeploy \/ Reopen \/ Refetch
(* What is asked is answered or lost, what was replaced is deleted, and the  *)
(* browser goes on with an answer; a user need not do anything.              *)
Fairness ==
  /\ WF_wire(\E r \in wire : wire' = wire \ {r})
  /\ WF_objects(DeleteUnreferenced)
  /\ WF_subs(Browser)
Spec == Init /\ [][Next]_vars /\ Fairness
-----------------------------------------------------------------------------
(* Every variable holds what its comment says: fields keep to the form's,    *)
(* submissions to known requests, objects to their states.                   *)
TypeOK ==
  /\ DOMAIN page.draft = DOMAIN form.start /\ DOMAIN page.base = DOMAIN form.start
  /\ server.values = NoRecord \/ DOMAIN server.values = DOMAIN form.start
  /\ server.object \in {NoObject, 0} \cup Submits
  /\ objects \in [{0} \cup Submits -> {"none", "declared", "stored", "final", "replaced", "deleted"}]
  /\ wire \subseteq Submits \X Stages /\ lost \subseteq Submits \X Stages
  /\ page.dialog \in {"none", "discard", "leave", "reset", "offer"}
  /\ page.callbacks \subseteq form.awaits
  /\ form.tabs = <<>> \/ page.tab \in DOMAIN form.tabs
  /\ \A s \in Submits : /\ subs[s].reply \in {"none", "ok", "failed"}
                        /\ {subs[s].todo[n] : n \in DOMAIN subs[s].todo} \subseteq Stages

(* After a refused attempt to save, every field the schema finds wrong is on *)
(* a control that shows and under a tab that is marked: a form never refuses *)
(* without saying where (form-actions.tsx: "a submit attempt can reveal every*)
(* field error").                                                            *)
ErrorsShown ==
  page.open /\ page.attempted =>
    \A path \in Issues(form, page.draft) \ form.silent :
      /\ path \in Shown(form, page.draft)
      /\ form.tabs # <<>> => TabsWith(form, {path}) # {}

(* What the schema lets through and the adapters make of it is what the      *)
(* server takes: but for the values known to be overlooked, no save is turned*)
(* down for its values.                                                      *)
SentIsAccepted ==
  \A s \in Used : \/ Accepts(form, subs[s].body)
                  \/ \E gap \in form.overlooks : Holds(gap, subs[s].body)

(* A record the console saved opens again as a form without errors, and      *)
(* saving that form unchanged changes nothing.                               *)
SavedReopens ==
  server.own =>
    LET again == Forms[form.edits]
        values == FormOf(again, server.values)
    IN Issues(again, values) = {} /\ Body(again, values) = server.values

(* However saves, cancellations, releases and late requests fall together,   *)
(* the object of the record is not one that was deleted.                     *)
InstallerIntact == server.object # NoObject => objects[server.object] # "deleted"

(* A page with unsaved changes is left only after its user confirmed so, by  *)
(* the end of its own save, or while a way out its user chose is waited for: *)
(* a discard, begun on a dialog if there was something to lose, or Run Live. *)
(* When none is waited for any more the exit is shut, however callbacks,     *)
(* links, saves that end out of sight and other navigations overtake each    *)
(* other (use-page-form-exit-guard.tsx: runWithoutPrompt).                   *)
LeavesAsked ==
  [][page.open /\ page.draft # page.base =>
       /\ ~page'.open =>
            \/ page.dialog \in {"discard", "leave"}
            \/ page.callbacks # {}
            \/ \E s \in Submits : subs[s].live /\ ~subs[s].saved /\ subs'[s].saved
       /\ "discard" \in page'.callbacks \ page.callbacks => page.dialog = "discard"]_vars

(* Results are erased only by a save its user confirmed in the dialog, or by *)
(* one made on a copy that somebody has changed since it was read.           *)
ResetConsent ==
  [][\A r \in wire \ wire' :
       LET changed == {f \in form.asks : server.values # NoRecord /\ server'.values[f] # server.values[f]}
       IN r[2] = "write" /\ changed # {} =>
            subs[r[1]].asked \/ subs[r[1]].read # server.version]_vars

(* After its user has confirmed to discard it, a submission does not begin   *)
(* to write the record.                                                      *)
CancelMeansCancel ==
  [][\A s \in Submits :
       subs'[s].unwanted /\ ~(subs[s].todo # <<>> /\ Head(subs[s].todo) = "write") =>
         subs'[s].todo = <<>> \/ Head(subs'[s].todo) # "write"]_vars

(* An upload the browser knows of ends as the record's object or deleted,    *)
(* unless the request that releases it is lost.                              *)
UploadsSettle ==
  \A s \in Submits :
    (subs[s].known /\ form.releases) ~>
      (server.object = s \/ objects[s] = "deleted" \/ <<s, "release">> \in lost)
===============================================================================
