---------------------------- MODULE ConsoleControls ----------------------------
(***************************************************************************)
(* The vocabulary in which ConsolePackageForm and ConsoleFormFields write   *)
(* the console's forms down: the controls a form shows and what choosing a *)
(* value does, the schema that judges the draft, the adapters between the  *)
(* draft and the API's record, and the server's own judgement of it.       *)
(*                                                                         *)
(* A value is a string: "" is a blank field, an unticked box or an empty   *)
(* list, "on" a ticked box, and the others are named for what the rules    *)
(* tell apart.  A condition is a set of pairs of a field and the values it *)
(* may have.  The line above a definition names the source it stands for;  *)
(* src/web/src/ is left out of it.                                         *)
(***************************************************************************)
EXTENDS Integers, Sequences, FiniteSets

\* external Record
Holds(when, values) == \A c \in when : values[c[1]] \in c[2]

(* A control: the values it offers, when it is shown, the values it does    *)
(* not offer while a condition holds, and the fields a choice sets as well. *)
\* components/validated-form-field.tsx:15-53 ValidatedFormField
Control(path, offers) ==
  [path |-> path, offers |-> offers, when |-> {}, bars |-> {}, also |-> {}]
\* external Subscribe
ShownIf(when, controls) == {[c EXCEPT !.when = @ \cup when] : c \in controls}
\* external disabled
Barred(control, value, when) == [control EXCEPT !.bars = @ \cup {<<value, when>>}]
\* external setFieldValue
Clearing(control, choices, field, to) ==
  [control EXCEPT !.also = @ \cup {<<value, field, to>> : value \in choices}]

(* The schema's rule on a field is broken; a change of a field between the  *)
(* draft and the record; a field that one of the server's rules is about.   *)
\* external addIssue
Issue(path, when) == [path |-> path, when |-> when]
\* lib/form-validation.ts:3-5 requiredString
Required(path) == Issue(path, {<<path, {""}>>})
\* external Record
Becomes(field, when, to) == [field |-> field, when |-> when, to |-> to]
\* external Record
Trimmed(field, from) == Becomes(field, {<<field, from>>}, "")
\* external Record
Filled(paths, given) ==
  [p \in paths |-> IF p \in DOMAIN given THEN given[p] ELSE ""]

\* external useUpload
Uploads(file, object, when) == [file |-> file, object |-> object, when |-> when]

-----------------------------------------------------------------------------
(* A form                                                                   *)
(*   tabs      the fields of each tab (<<>>: no tabs), in order             *)
(*   controls, issues, start    what it shows, its schema and the empty form*)
(*   sends, reopens             what the adapters change on the way out and *)
(*                              back                                        *)
(*   refuses   conditions on which the server turns a record down           *)
(*   silent    fields whose errors no control shows                         *)
(*   keyed     a newer record mounts the form anew                          *)
(*   uploads   the field of a file, that of the object it becomes, and when *)
(*   idle      conditions on which a submission sends nothing               *)
(*   before, after   the steps of an upload before the record is written    *)
(*                   and after it                                           *)
(*   releases  a failed upload is deleted again                             *)
(*   replaces  the server deletes the object a record let go                *)
(*   asks      the fields whose change erases results, after a dialog       *)
(*   secret    fields that are never read back                              *)
(*   edits     the form that opens a saved record                           *)
(*   stays     the page stays after a save, and its cancel only resets      *)
(*   overlooks what the server refuses and the schema is known to let through*)
(*   awaits    the ways out whose callback the page waits for               *)
(*   offers    the fields whose change leads to an offer after the save     *)
\* external useForm
Form(name, controls, issues, start) ==
  [name |-> name, tabs |-> <<>>, controls |-> controls, issues |-> issues, start |-> start,
   sends |-> {}, reopens |-> {}, refuses |-> {}, silent |-> {}, keyed |-> TRUE,
   uploads |-> {}, idle |-> {}, before |-> <<>>, after |-> <<>>,
   releases |-> FALSE, replaces |-> FALSE, asks |-> {}, secret |-> {}, edits |-> name,
   stays |-> FALSE, overlooks |-> {}, awaits |-> {}, offers |-> {}]

\* external Subscribe
Shown(form, values) == {c.path : c \in {c \in form.controls : Holds(c.when, values)}}
\* external useForm
Usable(form, values) == {c \in form.controls : Holds(c.when, values)}
(* Mutant: what is disabled can be chosen.                                  *)
ChoicesUnbarred(control, values) == control.offers
\* external disabled
Choices(control, values) ==
  {x \in control.offers : \A b \in control.bars : b[1] = x => ~Holds(b[2], values)}
(* Mutant: the fields that go with a choice stay.                           *)
ChangeAlone(control, x, values) == [values EXCEPT ![control.path] = x]
(* A choice sets its field, and the fields that go with it.                 *)
\* external setFieldValue
Change(control, x, values) ==
  [f \in DOMAIN values |->
     LET also == {e \in control.also : e[1] = x /\ e[2] = f}
     IN IF f = control.path THEN x
        ELSE IF also = {} THEN values[f] ELSE (CHOOSE e \in also : TRUE)[3]]

\* external safeParse
Issues(form, values) == {i.path : i \in {i \in form.issues : Holds(i.when, values)}}
\* external Record
Adapted(changes, values) ==
  [f \in DOMAIN values |->
     LET due == {c \in changes : c.field = f /\ Holds(c.when, values)}
     IN IF due = {} THEN values[f] ELSE (CHOOSE c \in due : TRUE).to]
\* external mutationFn
Body(form, values) == Adapted(form.sends, values)
\* external useMemo
FormOf(form, record) == Adapted(form.reopens, record)
\* external onSubmit
Uploading(form, values) ==
  {u \in form.uploads : values[u.file] = "file" /\ Holds(u.when, values)}
\* external Validate
Accepts(form, body) == \A r \in form.refuses : ~Holds(r, body)

(* The tabs of a form with an error, and what revealing it leads to.        *)
\* components/form-tabs.tsx:16-33 formTabHasErrors
TabsWith(form, paths) == {n \in 1..Len(form.tabs) : form.tabs[n] \cap paths # {}}
\* components/form-tabs.tsx:35-67 firstInvalidFormTab
Revealed(form, paths, tab) ==
  LET invalid == TabsWith(form, paths)
  IN IF invalid = {} THEN tab ELSE CHOOSE n \in invalid : \A m \in invalid : n <= m
-----------------------------------------------------------------------------
(* Where the errors of a schema show, told from the tables of a form        *)
(* One condition implies another, field by field.                           *)
Implies(when, other) ==
  \A y \in other : \E z \in when : z[1] = y[1] /\ z[2] \subseteq y[2]
(* The errors no control shows whenever the schema finds them.              *)
Unseen(form) ==
  {i \in form.issues :
     i.path \notin form.silent
     /\ ~\E d \in form.controls : d.path = i.path /\ Implies(i.when, d.when)}
(* What a choice makes of a field: nothing if it leaves it alone.           *)
SetTo(control, x, field) ==
  IF field = control.path THEN {x} ELSE {e[3] : e \in {e \in control.also : e[1] = x /\ e[2] = field}}
(* After the choice the field has one of the values, or none of them.       *)
MakesSure(control, x, field, to) ==
  IF SetTo(control, x, field) # {} THEN SetTo(control, x, field) \subseteq to
  ELSE Implies(control.when, {<<field, to>>})
RulesOut(control, x, field, to) ==
  IF SetTo(control, x, field) # {} THEN SetTo(control, x, field) \cap to = {}
  ELSE \E z \in control.when : z[1] = field /\ z[2] \cap to = {}
(* A choice leaves no error where it does not show: it puts the error right,*)
(* it has a control show it, or neither the error nor the controls that show*)
(* it are of its making.                                                    *)
Tolerates(form, control, x, issue) ==
  \/ \E y \in issue.when : RulesOut(control, x, y[1], y[2])
  \/ \E d \in form.controls :
       d.path = issue.path /\ \A y \in d.when : MakesSure(control, x, y[1], y[2])
  \/ /\ \A y \in issue.when : SetTo(control, x, y[1]) = {}
     /\ \A d \in form.controls :
          d.path = issue.path => \A y \in d.when : SetTo(control, x, y[1]) \subseteq y[2]
(* No saved record opens with the error: it takes a value that is never read*)
(* back, or the server refuses what it takes, and nobody else writes that.  *)
KeptOut(form, issue) ==
  \/ /\ form.uploads = {}
     /\ \E y \in issue.when :
          /\ y[1] \in form.secret /\ "" \notin y[2]
          /\ \A c \in form.reopens : c.field = y[1] => c.to \notin y[2]
  \/ /\ \A y \in issue.when :
          /\ \A c \in form.reopens : c.field # y[1]
          /\ \A u \in form.uploads : u.object # y[1]
     /\ \E r \in form.refuses : \A q \in r :
          q[1] \notin form.secret /\ Implies(issue.when, {q})
(* Every error the schema finds in the values is on a control that shows.   *)
Surfaced(form, values) ==
  \A i \in form.issues :
    i.path \in form.silent \/ ~Holds(i.when, values) \/ i.path \in Shown(form, values)
-----------------------------------------------------------------------------
(* What a form sends and what it reads back, told from a few fields a time  *)
FieldsOf(when) == {c[1] : c \in when}
(* The fields that decide what the changes make of some.                    *)
Deciding(changes, fields) ==
  fields \cup UNION {FieldsOf(c.when) : c \in {c \in changes : c.field \in fields}}
(* What a field may be by choice; in a record, of those there are or saved; *)
(* and in a draft, where some of what a record has always reads differently.*)
Chosen(form, f) ==
  {form.start[f]} \cup {c.to : c \in {c \in form.reopens : c.field = f}}
    \cup UNION {UNION {SetTo(c, x, f) : x \in c.offers} : c \in form.controls}
Recorded(form, records, f) ==
  Chosen(form, f) \cup {r[f] : r \in records} \cup {c.to : c \in {c \in form.sends : c.field = f}}
    \cup (IF f \in form.secret THEN {""} ELSE {})
    \cup (IF \E u \in form.uploads : u.object = f THEN {"", "object"} ELSE {})
Drafted(form, records, f) ==
  {x \in Recorded(form, records, f) :
     x \in Chosen(form, f)
     \/ ~\E c \in form.reopens : c.field = f /\ \A y \in c.when : y[1] = f /\ x \in y[2]}
Parts(form, records, fields) ==
  {part \in [fields -> UNION {Drafted(form, records, f) : f \in fields}] :
     \A f \in fields : part[f] \in Drafted(form, records, f)}

(* What the controls bar and the server refuses.                            *)
Barring(form) ==
  form.refuses \cap {{<<b[1].path, {b[2][1]}>>} \cup b[2][2] :
                       b \in UNION {{<<c, bar>> : bar \in c.bars} : c \in form.controls}}
(* Nothing in a part of the draft speaks against saving it.                 *)
Saveable(form, part) ==
  /\ \A i \in form.issues : FieldsOf(i.when) \subseteq DOMAIN part => ~Holds(i.when, part)
  /\ \A k \in Barring(form) : FieldsOf(k) \subseteq DOMAIN part => ~Holds(k, part)
(* What the record has of what was sent.                                    *)
Blanked(form, body) == [f \in DOMAIN body |-> IF f \in form.secret THEN "" ELSE body[f]]
Reopens(again, record) ==
  Issues(again, FormOf(again, record)) = {} /\ Body(again, FormOf(again, record)) = record

(* No choice brings about what the controls bar, nor does a record.         *)
BarsHold(form) ==
  \A k \in Barring(form) :
    /\ ~Holds(k, form.start)
    /\ \A f \in FieldsOf(k) : /\ f \notin form.secret /\ \A c \in form.reopens : c.field # f
                              /\ \A u \in form.uploads : u.object # f
    /\ \A c \in form.controls : \A x \in c.offers :
         \/ \A f \in FieldsOf(k) : SetTo(c, x, f) = {}
         \/ \E y \in k : RulesOut(c, x, y[1], y[2])
         \/ \E b \in c.bars : b[1] = x /\ \A z \in b[2] : SetTo(c, x, z[1]) = {} /\ Implies(k, {z})
(* What the schema lets through of the fields that decide a refusal is not  *)
(* refused, or known to be overlooked.                                      *)
SendsAccepted(form, records) ==
  \A r \in form.refuses : \A part \in Parts(form, records, Deciding(form.sends, FieldsOf(r))) :
    Saveable(form, part) /\ Holds(r, Body(form, part)) =>
      \E gap \in form.overlooks :
        FieldsOf(gap) \subseteq FieldsOf(r) /\ Holds(gap, Body(form, part))
(* What is read back of it breaks no rule, and is sent as it was.           *)
ReadsBack(form, again, records) ==
  /\ \A i \in again.issues :
       \A part \in Parts(form, records,
                         Deciding(form.sends, Deciding(again.reopens, FieldsOf(i.when)))) :
         Saveable(form, part) =>
           ~Holds(i.when, FormOf(again, Blanked(form, Body(form, part))))
  /\ \A f \in DOMAIN form.start :
       \A part \in Parts(form, records,
              Deciding(form.sends, Deciding(again.reopens, Deciding(again.sends, {f})))) :
         LET saved == Blanked(form, Body(form, part))
         IN Saveable(form, part) => Body(again, FormOf(again, saved))[f] = saved[f]
(* An object that comes after the record is nothing that rules are about.   *)
LateApart(form, again) ==
  form.after # <<>> =>
    /\ form.before = <<>> /\ ~form.stays
    /\ \A u \in form.uploads :
         /\ u.object \notin form.secret
         /\ \A c \in again.sends \cup again.reopens :
              c.field # u.object /\ u.object \notin FieldsOf(c.when)
         /\ \A r \in {i.when : i \in again.issues} \cup form.refuses \cup form.overlooks :
              u.object \notin FieldsOf(r)
(* What erases results is edited by the form that opens it.                 *)
AsksApart(form, again) == form.asks # {} => again = form /\ ~form.stays
===============================================================================
