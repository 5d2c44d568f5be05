-------------------------- MODULE ConsoleSavesProofs --------------------------
(***************************************************************************)
(* Proofs about what a form saves, for every form, setting and number of   *)
(* submissions whose tables agree with each other a few fields at a time:  *)
(* the server takes what is sent, and a saved record opens as it was saved.*)
(***************************************************************************)
EXTENDS ConsoleFormsProofs

-----------------------------------------------------------------------------
(* The inductive invariant.                                                  *)

again == Forms[form.edits]
Reads == Records(setting.form)
(* An object that arrives in this field does so after the record.            *)
Late(f) == form.after # <<>> /\ \E u \in form.uploads : u.object = f

(* A draft: what may be chosen or read, and nothing that controls bar.       *)
DraftInv(values) ==
  /\ \A f \in Fields : values[f] \in Drafted(form, Reads, f)
  /\ \A k \in Barring(form) : ~Holds(k, values)
(* A record: what may be chosen or saved, nothing that controls bar, and the *)
(* form that edits it opens without errors and would save the same.          *)
RecordInv(values) ==
  values # NoRecord =>
    /\ \A f \in Fields : values[f] \in Recorded(form, Reads, f)
    /\ \A k \in Barring(form) : ~Holds(k, values)
    /\ Reopens(again, values)
(* What is sent is taken, or known to be overlooked, and makes such a record.*)
BodyInv(body) ==
  /\ Accepts(form, body) \/ \E gap \in form.overlooks : Holds(gap, body)
  /\ Accepts(form, body) => RecordInv(Blanked(form, body))

(* A submission that has written, or has nothing left to do but what follows.*)
Past(sub) ==
  \/ sub.known
  \/ /\ sub.todo # <<>>
     /\ Head(sub.todo) # "write" \/ sub.reply = "ok"
(* What is to be done when nothing comes after the record.                   *)
Plain == Seq(Stages \ {"attach"})
(* An object that arrives late finds its record.                             *)
LateInv ==
  /\ form.after = <<>> => \A s \in Submits : subs[s].todo \in Plain
  /\ form.after # <<>> => \A s \in Submits : Past(subs[s]) => server.values # NoRecord
  /\ \A s \in Submits :
       <<s, "attach">> \in wire => form.after # <<>> /\ server.values # NoRecord

(* The dialog about results is open over a draft without errors, of a form   *)
(* that asks.                                                                *)
AskInv ==
  page.open /\ page.dialog = "reset" => Issues(form, page.draft) = {} /\ form.asks # {}
KnownInv ==
  /\ server.own => server.values # NoRecord
  /\ page.seen.values # NoRecord /\ ~form.stays => server.values # NoRecord
SentInv(s) == subs[s] # NoSubmission => DraftInv(subs[s].draft) /\ BodyInv(subs[s].body)

ConfirmedInv ==
  /\ DraftInv(page.draft) /\ RecordInv(page.seen.values) /\ RecordInv(server.values)
  /\ \A s \in Submits : SentInv(s)
  /\ AskInv /\ KnownInv

-----------------------------------------------------------------------------
(* What the tables of the form promise.                                      *)

LEMMA FormSaves ==
  ASSUME setting \in Settings
  PROVE  /\ DOMAIN again.start = Fields
         /\ \A w \in form.refuses \cup form.overlooks : FieldsOf(w) \subseteq Fields
         /\ \A c \in form.sends \cup form.reopens \cup again.sends \cup again.reopens
                      \cup again.issues \cup form.issues : FieldsOf(c.when) \subseteq Fields
         /\ BarsHold(form) /\ LateApart(form, again) /\ AsksApart(form, again)
         /\ SendsAccepted(form, Reads) /\ ReadsBack(form, again, Reads)
         /\ \A record \in Reads : /\ Reopens(again, record)
                                  /\ \A k \in Barring(form) : ~Holds(k, record)
         /\ \A record \in {setting.opened, setting.others} : record = NoRecord \/ record \in Reads
<1>1. setting.form \in DOMAIN Forms
  BY FormsAssumption
<1>2. /\ form.edits \in DOMAIN Forms /\ DOMAIN again.start = Fields
      /\ \A r \in form.refuses \cup form.overlooks \cup {c.when : c \in form.sends} :
           FieldsOf(r) \subseteq Fields
      /\ BarsHold(form) /\ LateApart(form, again) /\ AsksApart(form, again)
      /\ SendsAccepted(form, Reads) /\ ReadsBack(form, again, Reads)
      /\ \A record \in Reads : /\ Reopens(again, record)
                               /\ \A k \in Barring(form) : ~Holds(k, record)
  BY <1>1, SavesAssumption, Zenon DEF form, again, Fields, Reads
<1>3. \A r \in {c.when : c \in again.sends} : FieldsOf(r) \subseteq Fields
  BY <1>2, SavesAssumption, Zenon DEF again
<1>4. \A r \in form.issues \cup form.reopens \cup again.issues \cup again.reopens :
        \A y \in r.when : y[1] \in Fields
  BY <1>1, <1>2, ErrorsAssumption DEF form, again, Fields
<1>5. \A r \in form.issues \cup form.reopens \cup again.issues \cup again.reopens :
        FieldsOf(r.when) \subseteq Fields
  BY <1>4 DEF FieldsOf
<1>6. \A record \in {setting.opened, setting.others} : record = NoRecord \/ record \in Reads
  BY DEF Reads, Records, NoRecord
<1>7. \A c \in form.sends \cup again.sends : FieldsOf(c.when) \subseteq Fields
  BY <1>2, <1>3
<1> QED BY <1>2, <1>5, <1>6, <1>7

LEMMA HoldsAlike ==
  ASSUME NEW when, NEW old, NEW new, \A f \in FieldsOf(when) : new[f] = old[f]
  PROVE  Holds(when, new) <=> Holds(when, old)
BY DEF Holds, FieldsOf

LEMMA AdaptedFields ==
  ASSUME NEW changes, NEW values
  PROVE  /\ DOMAIN Adapted(changes, values) = DOMAIN values
         /\ Adapted(changes, values) = [f \in DOMAIN values |-> Adapted(changes, values)[f]]
BY DEF Adapted

(* What the changes make of some fields is decided by those and few others.  *)
LEMMA AdaptedOn ==
  ASSUME NEW changes, NEW old, NEW new, NEW fields,
         fields \subseteq DOMAIN old, fields \subseteq DOMAIN new,
         \A g \in Deciding(changes, fields) : new[g] = old[g]
  PROVE  \A f \in fields : Adapted(changes, new)[f] = Adapted(changes, old)[f]
<1> SUFFICES ASSUME NEW f \in fields
             PROVE  Adapted(changes, new)[f] = Adapted(changes, old)[f]
  OBVIOUS
<1> DEFINE due(values) == {c \in changes : c.field = f /\ Holds(c.when, values)}
<1>1. new[f] = old[f]
  BY DEF Deciding
<1>2. ASSUME NEW c \in changes, c.field = f
      PROVE  Holds(c.when, new) <=> Holds(c.when, old)
  <2>1. FieldsOf(c.when) \subseteq Deciding(changes, fields)
    BY <1>2 DEF Deciding
  <2> QED BY <2>1, HoldsAlike
<1>3. due(new) = due(old)
  BY <1>2
<1>4. \A values : f \in DOMAIN values =>
        Adapted(changes, values)[f] = IF due(values) = {} THEN values[f]
                                      ELSE (CHOOSE c \in due(values) : TRUE).to
  BY DEF Adapted
<1> HIDE DEF due
<1> QED BY <1>1, <1>3, <1>4

LEMMA DecidingFields ==
  ASSUME setting \in Settings,
         NEW changes \in {form.sends, form.reopens, again.sends, again.reopens},
         NEW fields \in SUBSET Fields
  PROVE  Deciding(changes, fields) \in SUBSET Fields /\ fields \subseteq Deciding(changes, fields)
<1>1. \A c \in changes : FieldsOf(c.when) \subseteq Fields
  BY FormSaves
<1> QED BY <1>1 DEF Deciding

(* Fields that do not come late are not decided by one that does.            *)
LEMMA DecidingEarly ==
  ASSUME setting \in Settings, NEW changes \in {again.sends, again.reopens},
         NEW fields, \A f \in fields : ~Late(f)
  PROVE  \A f \in Deciding(changes, fields) : ~Late(f)
<1> SUFFICES ASSUME NEW f \in Deciding(changes, fields), Late(f) PROVE FALSE
  OBVIOUS
<1>1. PICK c \in changes : f \in FieldsOf(c.when)
  BY DEF Deciding
<1> QED BY <1>1, FormSaves DEF LateApart, Late

-----------------------------------------------------------------------------
(* A draft and what is sent of it.                                           *)

(* A part of a draft without errors is one that may be saved.                *)
LEMMA DraftPart ==
  ASSUME setting \in Settings, NEW draft, DOMAIN draft = Fields, DraftInv(draft),
         Issues(form, draft) = {}, NEW fields \in SUBSET Fields
  PROVE  LET part == [f \in fields |-> draft[f]]
         IN part \in Parts(form, Reads, fields) /\ Saveable(form, part)
<1> DEFINE part == [f \in fields |-> draft[f]]
<1>1. \A f \in fields : part[f] \in Drafted(form, Reads, f)
  BY DEF DraftInv
<1>2. part \in Parts(form, Reads, fields)
  BY <1>1 DEF Parts
<1>3. ASSUME NEW w, FieldsOf(w) \subseteq fields
      PROVE  Holds(w, part) <=> Holds(w, draft)
  <2>1. \A f \in FieldsOf(w) : part[f] = draft[f]
    BY <1>3
  <2> QED BY <2>1, HoldsAlike
<1>4. /\ \A i \in form.issues : ~Holds(i.when, draft)
      /\ \A k \in Barring(form) : ~Holds(k, draft)
  BY DEF Issues, DraftInv
<1>5. DOMAIN part = fields
  OBVIOUS
<1> HIDE DEF part
<1>6. Saveable(form, part)
  BY <1>3, <1>4, <1>5 DEF Saveable
<1> QED BY <1>2, <1>6 DEF part

(* What is sent agrees with what the adapters make of a part, where it is    *)
(* not late.                                                                 *)
LEMMA SentPart ==
  ASSUME setting \in Settings, NEW draft, DOMAIN draft = Fields,
         NEW body, DOMAIN body = Fields,
         \A f \in Fields : Late(f) \/ body[f] = Body(form, draft)[f],
         NEW fields \in SUBSET Fields, \A f \in fields : ~Late(f)
  PROVE  LET part == [f \in Deciding(form.sends, fields) |-> draft[f]]
         IN /\ \A f \in fields : /\ Body(form, part)[f] = body[f]
                                 /\ Blanked(form, Body(form, part))[f] = Blanked(form, body)[f]
            /\ fields \subseteq DOMAIN Blanked(form, Body(form, part))
<1> DEFINE D == Deciding(form.sends, fields)
           part == [f \in D |-> draft[f]]
<1>1. D \in SUBSET Fields /\ fields \subseteq D
  BY DecidingFields
<1>2. DOMAIN part = D /\ \A f \in D : part[f] = draft[f]
  OBVIOUS
<1> HIDE DEF part
<1>3. \A f \in fields : Body(form, part)[f] = Body(form, draft)[f]
  BY <1>1, <1>2, AdaptedOn DEF Body
<1>4. \A f \in fields : Body(form, part)[f] = body[f]
  BY <1>3
<1>5. DOMAIN Body(form, part) = D
  BY <1>2 DEF Body, Adapted
<1>6. \A f \in fields : Blanked(form, Body(form, part))[f] = Blanked(form, body)[f]
  BY <1>1, <1>4, <1>5 DEF Blanked
<1>7. DOMAIN Blanked(form, Body(form, part)) = D
  BY <1>5 DEF Blanked
<1> QED BY <1>1, <1>4, <1>6, <1>7 DEF part

(* Nothing is sent that the server turns down, but for what is overlooked.   *)
LEMMA BodyTaken ==
  ASSUME setting \in Settings, NEW draft, DOMAIN draft = Fields, DraftInv(draft),
         Issues(form, draft) = {}, NEW body, DOMAIN body = Fields,
         \A f \in Fields : Late(f) \/ body[f] = Body(form, draft)[f]
  PROVE  Accepts(form, body) \/ \E gap \in form.overlooks : Holds(gap, body)
<1> SUFFICES ASSUME NEW r \in form.refuses, Holds(r, body)
             PROVE  \E gap \in form.overlooks : Holds(gap, body)
  BY DEF Accepts
<1> DEFINE F == FieldsOf(r)
           part == [f \in Deciding(form.sends, F) |-> draft[f]]
<1>1. F \in SUBSET Fields /\ \A f \in F : ~Late(f)
  BY FormSaves DEF LateApart, Late
<1>2. /\ part \in Parts(form, Reads, Deciding(form.sends, F)) /\ Saveable(form, part)
      /\ \A f \in F : Body(form, part)[f] = body[f]
  <2>1. Deciding(form.sends, F) \in SUBSET Fields
    BY <1>1, DecidingFields
  <2> QED BY <1>1, <2>1, DraftPart, SentPart
<1> HIDE DEF part
<1>3. Holds(r, Body(form, part))
  BY <1>2, HoldsAlike
<1>4. PICK gap \in form.overlooks : FieldsOf(gap) \subseteq F /\ Holds(gap, Body(form, part))
  BY <1>2, <1>3, FormSaves DEF SendsAccepted
<1>5. Holds(gap, body)
  BY <1>2, <1>4, HoldsAlike
<1> QED BY <1>5

(* Values read alike where no late field is looked at.                       *)
LEMMA ReadAlike ==
  ASSUME setting \in Settings, NEW fields \in SUBSET Fields,
         NEW old, NEW new, \A g \in Deciding(again.reopens, fields) :
                             g \in DOMAIN old /\ g \in DOMAIN new /\ new[g] = old[g]
  PROVE  /\ \A f \in fields : FormOf(again, new)[f] = FormOf(again, old)[f]
         /\ DOMAIN FormOf(again, new) = DOMAIN new /\ DOMAIN FormOf(again, old) = DOMAIN old
         /\ fields \subseteq DOMAIN new /\ fields \subseteq DOMAIN old
<1>1. fields \subseteq Deciding(again.reopens, fields)
  BY DecidingFields
<1>2. \A f \in fields : FormOf(again, new)[f] = FormOf(again, old)[f]
  BY <1>1, AdaptedOn DEF FormOf
<1> QED BY <1>1, <1>2 DEF FormOf, Adapted

LEMMA SentAlike ==
  ASSUME setting \in Settings, NEW f \in Fields,
         NEW old, NEW new,
         \A g \in Deciding(again.reopens, Deciding(again.sends, {f})) :
           g \in DOMAIN old /\ g \in DOMAIN new /\ new[g] = old[g]
  PROVE  Body(again, FormOf(again, new))[f] = Body(again, FormOf(again, old))[f]
<1> DEFINE F == {f}
           G == Deciding(again.sends, F)
           was == FormOf(again, old)
           is == FormOf(again, new)
<1>1. G \in SUBSET Fields /\ F \subseteq G
  BY DecidingFields
<1>2. \A g \in Deciding(again.reopens, G) : g \in DOMAIN old /\ g \in DOMAIN new /\ new[g] = old[g]
  OBVIOUS
<1> HIDE DEF G
<1>3. /\ \A g \in G : is[g] = was[g]
      /\ G \subseteq DOMAIN is /\ G \subseteq DOMAIN was
  BY <1>1, <1>2, ReadAlike
<1> HIDE DEF is, was, F
<1>4. \A g \in F : Adapted(again.sends, is)[g] = Adapted(again.sends, was)[g]
  BY <1>1, <1>3, AdaptedOn DEF G
<1> QED BY <1>4 DEF Body, F, is, was

(* What comes late is read and sent as it is.                                *)
LEMMA LateAlone ==
  ASSUME setting \in Settings, NEW f \in Fields, Late(f), NEW values, DOMAIN values = Fields
  PROVE  Body(again, FormOf(again, values))[f] = values[f]
<1>1. \A c \in again.sends \cup again.reopens : c.field # f
  BY FormSaves DEF LateApart, Late
<1>2. FormOf(again, values)[f] = values[f] /\ DOMAIN FormOf(again, values) = Fields
  BY <1>1 DEF FormOf, Adapted
<1> QED BY <1>1, <1>2 DEF Body, Adapted

(* What is sent of a draft without errors makes a record that opens as it is.*)
LEMMA BodySaved ==
  ASSUME setting \in Settings, NEW draft, DOMAIN draft = Fields, DraftInv(draft),
         Issues(form, draft) = {}, NEW body, DOMAIN body = Fields,
         \A f \in Fields : Late(f) \/ body[f] = Body(form, draft)[f],
         \A f \in Fields : body[f] \in Recorded(form, Reads, f),
         Accepts(form, body)
  PROVE  RecordInv(Blanked(form, body))
<1> DEFINE saved == Blanked(form, body)
           part(F) == [f \in Deciding(form.sends, F) |-> draft[f]]
           read(F) == Blanked(form, Body(form, part(F)))
<1>1. DOMAIN saved = Fields /\ \A f \in Fields : saved[f] = IF f \in form.secret THEN "" ELSE body[f]
  BY DEF Blanked
<1>2. \A f \in Fields : saved[f] \in Recorded(form, Reads, f)
  BY <1>1 DEF Recorded
<1>3. ASSUME NEW k \in Barring(form) PROVE ~Holds(k, saved)
  <2>1. k \in form.refuses /\ \A f \in FieldsOf(k) : f \in Fields /\ f \notin form.secret
    BY FormSaves DEF Barring, BarsHold
  <2>2. ~Holds(k, body)
    BY <2>1 DEF Accepts
  <2> QED BY <1>1, <2>1, <2>2, HoldsAlike
<1>4. ASSUME NEW F \in SUBSET Fields, \A f \in F : ~Late(f)
      PROVE  /\ part(F) \in Parts(form, Reads, Deciding(form.sends, F))
             /\ Saveable(form, part(F))
             /\ \A f \in F : f \in DOMAIN read(F) /\ read(F)[f] = saved[f]
  <2>1. Deciding(form.sends, F) \in SUBSET Fields
    BY DecidingFields
  <2> QED BY <1>4, <2>1, DraftPart, SentPart
<1> HIDE DEF saved, part, read
<1>5. ASSUME NEW i \in again.issues PROVE ~Holds(i.when, FormOf(again, saved))
  <2> DEFINE F == FieldsOf(i.when)
             G == Deciding(again.reopens, F)
  <2>1. F \in SUBSET Fields /\ \A f \in F : ~Late(f)
    BY FormSaves DEF LateApart, Late
  <2>2. G \in SUBSET Fields /\ \A f \in G : ~Late(f)
    BY <2>1, DecidingFields, DecidingEarly
  <2>3. /\ part(G) \in Parts(form, Reads, Deciding(form.sends, G)) /\ Saveable(form, part(G))
        /\ \A g \in G : g \in DOMAIN read(G) /\ read(G)[g] = saved[g]
    BY <1>4, <2>2
  <2>4. ~Holds(i.when, FormOf(again, read(G)))
    BY <2>3, FormSaves DEF ReadsBack, read
  <2> DEFINE old == read(G)
  <2>5. \A f \in F : FormOf(again, saved)[f] = FormOf(again, old)[f]
    <3>1. \A g \in Deciding(again.reopens, F) :
            g \in DOMAIN old /\ g \in DOMAIN saved /\ saved[g] = old[g]
      BY <1>1, <2>2, <2>3
    <3> HIDE DEF old, F
    <3> QED BY <2>1, <3>1, ReadAlike
  <2> QED BY <2>4, <2>5, HoldsAlike
<1>6. ASSUME NEW f \in Fields PROVE Body(again, FormOf(again, saved))[f] = saved[f]
  <2>1. CASE Late(f)
    BY <1>1, <2>1, LateAlone
  <2>2. CASE ~Late(f)
    <3> DEFINE H == Deciding(again.sends, {f})
               G == Deciding(again.reopens, H)
    <3>1. H \in SUBSET Fields /\ f \in H /\ \A g \in H : ~Late(g)
      BY <2>2, DecidingFields, DecidingEarly
    <3>2. G \in SUBSET Fields /\ f \in G /\ \A g \in G : ~Late(g)
      BY <3>1, DecidingFields, DecidingEarly
    <3>3. /\ part(G) \in Parts(form, Reads, Deciding(form.sends, G)) /\ Saveable(form, part(G))
          /\ \A g \in G : g \in DOMAIN read(G) /\ read(G)[g] = saved[g]
      BY <1>4, <3>2
    <3>4. Body(again, FormOf(again, read(G)))[f] = read(G)[f]
      BY <3>3, FormSaves DEF ReadsBack, Fields, read
    <3>5. Body(again, FormOf(again, saved))[f] = Body(again, FormOf(again, read(G)))[f]
      BY <1>1, <3>2, <3>3, SentAlike
    <3> QED BY <3>2, <3>3, <3>4, <3>5
  <2> QED BY <2>1, <2>2
<1>7. Body(again, FormOf(again, saved)) = saved
  <2> DEFINE opened == FormOf(again, saved)
  <2>1. Body(again, opened) = [f \in Fields |-> Body(again, opened)[f]]
    <3>1. DOMAIN opened = Fields
      BY <1>1, AdaptedFields DEF FormOf
    <3> HIDE DEF opened
    <3> QED BY <3>1, AdaptedFields DEF Body
  <2>2. saved = [f \in Fields |-> saved[f]]
    BY <1>1 DEF saved, Blanked
  <2> QED BY <1>6, <2>1, <2>2
<1>8. Issues(again, FormOf(again, saved)) = {}
  BY <1>5 DEF Issues
<1>9. RecordInv(saved)
  BY <1>2, <1>3, <1>7, <1>8 DEF RecordInv, Reopens
<1> QED BY <1>9 DEF saved

(* An object that arrives late leaves a record one that opens as it is.      *)
LEMMA ArrivedSaved ==
  ASSUME setting \in Settings, form.after # <<>>,
         NEW old, DOMAIN old = Fields, old # NoRecord, RecordInv(old)
  PROVE  RecordInv([f \in DOMAIN old |-> IF \E u \in form.uploads : u.object = f THEN "object"
                                         ELSE old[f]])
<1> DEFINE new == [f \in DOMAIN old |-> IF \E u \in form.uploads : u.object = f THEN "object"
                                        ELSE old[f]]
<1>1. /\ DOMAIN new = Fields
      /\ \A f \in Fields : IF Late(f) THEN new[f] = "object" ELSE new[f] = old[f]
  BY DEF Late
<1>2. /\ \A f \in Fields : old[f] \in Recorded(form, Reads, f)
      /\ \A k \in Barring(form) : ~Holds(k, old)
      /\ Issues(again, FormOf(again, old)) = {} /\ Body(again, FormOf(again, old)) = old
  BY DEF RecordInv, Reopens
<1>3. \A f \in Fields : new[f] \in Recorded(form, Reads, f)
  BY <1>1, <1>2 DEF Recorded, Late
<1>n. new = [f \in Fields |-> new[f]]
  OBVIOUS
<1> HIDE DEF new
<1>4. ASSUME NEW k \in Barring(form) PROVE ~Holds(k, new)
  <2>1. \A f \in FieldsOf(k) : f \in Fields /\ ~Late(f)
    BY FormSaves DEF Barring, BarsHold, Late
  <2> QED BY <1>1, <1>2, <2>1, HoldsAlike
<1>5. ASSUME NEW i \in again.issues PROVE ~Holds(i.when, FormOf(again, new))
  <2> DEFINE F == FieldsOf(i.when)
  <2>1. F \in SUBSET Fields /\ \A f \in F : ~Late(f)
    BY FormSaves DEF LateApart, Late
  <2>2. \A g \in Deciding(again.reopens, F) : g \in Fields /\ ~Late(g)
    BY <2>1, DecidingFields, DecidingEarly
  <2>3. \A f \in F : FormOf(again, new)[f] = FormOf(again, old)[f]
    BY <1>1, <2>1, <2>2, ReadAlike
  <2>4. ~Holds(i.when, FormOf(again, old))
    BY <1>2 DEF Issues
  <2> QED BY <2>3, <2>4, HoldsAlike
<1>6. ASSUME NEW f \in Fields PROVE Body(again, FormOf(again, new))[f] = new[f]
  <2>1. CASE Late(f)
    BY <1>1, <2>1, LateAlone
  <2>2. CASE ~Late(f)
    <3> DEFINE H == Deciding(again.sends, {f})
    <3>1. H \in SUBSET Fields /\ \A g \in H : ~Late(g)
      BY <2>2, DecidingFields, DecidingEarly
    <3>2. \A g \in Deciding(again.reopens, H) : g \in Fields /\ ~Late(g)
      BY <3>1, DecidingFields, DecidingEarly
    <3>3. Body(again, FormOf(again, new))[f] = Body(again, FormOf(again, old))[f]
      BY <1>1, <3>2, SentAlike
    <3> QED BY <1>1, <1>2, <2>2, <3>3
  <2> QED BY <2>1, <2>2
<1>7. Body(again, FormOf(again, new)) = new
  <2>1. Body(again, FormOf(again, new)) = [f \in Fields |-> Body(again, FormOf(again, new))[f]]
    BY <1>1, AdaptedFields DEF Body, FormOf
  <2> QED BY <1>6, <1>n, <2>1
<1>8. Issues(again, FormOf(again, new)) = {}
  BY <1>5 DEF Issues
<1>9. RecordInv(new)
  BY <1>3, <1>4, <1>7, <1>8 DEF RecordInv, Reopens
<1> QED BY <1>9 DEF new

(* So do the records of the setting open.                                    *)
LEMMA RecordsSaved ==
  ASSUME setting \in Settings
  PROVE  RecordInv(setting.opened) /\ RecordInv(setting.others)
<1>1. ASSUME NEW record \in Reads PROVE RecordInv(record)
  <2>1. \A f \in Fields : record[f] \in Recorded(form, Reads, f)
    BY DEF Recorded
  <2> QED BY <2>1, FormSaves DEF RecordInv
<1> QED BY <1>1, FormSaves DEF RecordInv

(* A form that is mounted holds what may be chosen or read.                  *)
LEMMA MountedDraft ==
  ASSUME setting \in Settings, NEW record, HasFields(record.values), RecordInv(record.values)
  PROVE  DraftInv(Mounted(record).draft)
<1>1. CASE record.values = NoRecord
  <2>1. Mounted(record).draft = form.start
    BY <1>1 DEF Mounted
  <2>2. \A f \in Fields : form.start[f] \in Drafted(form, Reads, f)
    BY DEF Drafted, Recorded, Chosen
  <2>3. \A k \in Barring(form) : ~Holds(k, form.start)
    BY FormSaves DEF BarsHold
  <2> QED BY <2>1, <2>2, <2>3 DEF DraftInv
<1>2. CASE record.values # NoRecord
  <2> DEFINE values == record.values
             draft == FormOf(form, values)
  <2>1. /\ DOMAIN values = Fields
        /\ \A f \in Fields : values[f] \in Recorded(form, Reads, f)
        /\ \A k \in Barring(form) : ~Holds(k, values)
    BY <1>2 DEF HasFields, RecordInv
  <2>2. ASSUME NEW f \in Fields PROVE draft[f] \in Drafted(form, Reads, f)
    <3> DEFINE due == {c \in form.reopens : c.field = f /\ Holds(c.when, values)}
    <3>1. draft[f] = IF due = {} THEN values[f] ELSE (CHOOSE c \in due : TRUE).to
      BY <2>1 DEF FormOf, Adapted
    <3>2. CASE due = {}
      <4>1. ~\E c \in form.reopens : c.field = f /\ \A y \in c.when : y[1] = f /\ values[f] \in y[2]
        BY <3>2 DEF Holds
      <4> QED BY <2>1, <3>1, <3>2, <4>1 DEF Drafted
    <3>3. CASE due # {}
      <4>1. PICK c \in due : draft[f] = c.to
        BY <3>1, <3>3
      <4>2. c.to \in Chosen(form, f)
        BY <4>1 DEF Chosen
      <4> QED BY <4>1, <4>2 DEF Drafted, Recorded
    <3> QED BY <3>2, <3>3
  <2>3. ASSUME NEW k \in Barring(form) PROVE ~Holds(k, draft)
    <3>1. \A f \in FieldsOf(k) : f \in Fields /\ \A c \in form.reopens : c.field # f
      BY FormSaves DEF Barring, BarsHold
    <3>2. \A f \in FieldsOf(k) : draft[f] = values[f]
      BY <2>1, <3>1 DEF FormOf, Adapted
    <3> QED BY <2>1, <3>2, HoldsAlike
  <2>4. Mounted(record).draft = draft
    BY <1>2 DEF Mounted
  <2> HIDE DEF draft
  <2> QED BY <2>2, <2>3, <2>4 DEF DraftInv
<1> QED BY <1>1, <1>2

(* No choice leaves what may be chosen, nor brings about what controls bar.  *)
LEMMA ChangedDraft ==
  ASSUME setting \in Settings, NEW values, DOMAIN values = Fields, DraftInv(values),
         NEW c \in Usable(form, values), NEW x \in Choices(c, values)
  PROVE  DraftInv(Change(c, x, values))
<1> DEFINE new == Change(c, x, values)
<1>1. c \in form.controls /\ Holds(c.when, values) /\ x \in c.offers
  BY DEF Usable, Choices
<1>2. ASSUME NEW f \in Fields PROVE new[f] \in Drafted(form, Reads, f)
  <2>1. CASE SetTo(c, x, f) = {}
    BY <1>2, <2>1, ChangedField DEF DraftInv
  <2>2. CASE SetTo(c, x, f) # {}
    <3>1. new[f] \in SetTo(c, x, f)
      BY <1>2, <2>2, ChangedField
    <3>2. SetTo(c, x, f) \subseteq Chosen(form, f)
      BY <1>1 DEF SetTo, Chosen
    <3> HIDE DEF new
    <3> QED BY <3>1, <3>2 DEF Drafted, Recorded
  <2> QED BY <2>1, <2>2
<1>3. ASSUME NEW k \in Barring(form), Holds(k, new) PROVE FALSE
  <2>1. \A y \in k : y[1] \in Fields /\ y[1] \in FieldsOf(k) /\ new[y[1]] \in y[2]
    BY <1>3, FormSaves DEF Barring, FieldsOf, Holds
  <2>2. ~Holds(k, values)
    BY DEF DraftInv
  <2>3. CASE \A f \in FieldsOf(k) : SetTo(c, x, f) = {}
    <3>1. \A y \in k : new[y[1]] = values[y[1]]
      BY <2>1, <2>3, ChangedField
    <3> HIDE DEF new
    <3> QED BY <2>1, <2>2, <3>1 DEF Holds
  <2>4. ASSUME NEW y \in k, RulesOut(c, x, y[1], y[2]) PROVE FALSE
    <3>1. CASE SetTo(c, x, y[1]) # {}
      BY <2>1, <2>4, <3>1, ChangedField DEF RulesOut
    <3>2. CASE SetTo(c, x, y[1]) = {}
      <4>1. new[y[1]] = values[y[1]]
        BY <2>1, <3>2, ChangedField
      <4> HIDE DEF new
      <4> QED BY <1>1, <2>1, <2>4, <3>2, <4>1 DEF RulesOut, Holds
    <3> QED BY <3>1, <3>2
  <2>5. ASSUME NEW b \in c.bars, b[1] = x,
               \A z \in b[2] : SetTo(c, x, z[1]) = {} /\ Implies(k, {z})
        PROVE  FALSE
    <3>1. ASSUME NEW z \in b[2] PROVE values[z[1]] \in z[2]
      <4>1. PICK y \in k : y[1] = z[1] /\ y[2] \subseteq z[2]
        BY <2>5 DEF Implies
      <4>2. new[z[1]] = values[z[1]]
        BY <2>1, <2>5, <4>1, ChangedField
      <4> HIDE DEF new
      <4> QED BY <2>1, <4>1, <4>2
    <3>2. ~Holds(b[2], values)
      BY <2>5 DEF Choices
    <3> QED BY <3>1, <3>2 DEF Holds
  <2> QED BY <1>1, <2>3, <2>4, <2>5, FormSaves DEF BarsHold
<1> QED BY <1>2, <1>3 DEF DraftInv

-----------------------------------------------------------------------------
(* What a step makes of the record and of the submissions.                   *)

(* A record that is served is still there, and there when it was written.    *)
LEMMA ServedStays ==
  ASSUME FormInv, RecordsInv, NEW s \in Submits, NEW asks \in Stages, <<s, asks>> \in wire
  PROVE  LET served == Served(s, asks)
         IN /\ server.values # NoRecord => served.server.values # NoRecord
            /\ asks = "write" /\ served.ok => served.server.values # NoRecord
            /\ served.server.own =>
                 server.own \/ asks = "attach" \/ served.server.values # NoRecord
<1>1. /\ DOMAIN server = {"values", "version", "own", "others", "object"}
      /\ HasFields(server.values) /\ setting \in Settings
      /\ DOMAIN subs[s].body = Fields
      /\ "none" \notin Fields /\ DOMAIN NoRecord = {"none"}
  BY FormsAssumption
     DEF RecordsInv, FieldsInv, ReadInv, SavesInv, SaveInv, Busy, FormInv, form, Fields, NoRecord
<1>2. LET written == Written(subs[s])
      IN /\ written.ok => written.server.values # NoRecord
         /\ ~written.ok => written.server = server
         /\ written.ok \in BOOLEAN
  <2> DEFINE saved == [f \in DOMAIN subs[s].body |->
                         IF f \in form.secret THEN "" ELSE subs[s].body[f]]
  <2>1. saved # NoRecord
    <3>1. DOMAIN saved = Fields
      BY <1>1
    <3> HIDE DEF saved
    <3> QED BY <1>1, <3>1
  <2>2. \/ /\ Written(subs[s]).ok = TRUE
           /\ Written(subs[s]).server = [server EXCEPT !.version = @ + 1, !.own = TRUE,
                                           !.object = subs[s].object, !.values = saved]
        \/ /\ Written(subs[s]).ok = FALSE /\ Written(subs[s]).server = server
    BY DEF Written
  <2> HIDE DEF saved
  <2> QED BY <1>1, <2>1, <2>2
<1>3. server.values # NoRecord => Attached(s).server.values # NoRecord
  <2> DEFINE new == [f \in DOMAIN server.values |->
                       IF \E u \in form.uploads : u.object = f THEN "object"
                       ELSE server.values[f]]
  <2>1. \/ Attached(s).server = server
        \/ Attached(s).server = [server EXCEPT !.version = @ + 1, !.object = s, !.own = TRUE,
                                               !.values = new]
    BY DEF Attached
  <2>2. server.values # NoRecord => DOMAIN new = Fields
    BY <1>1 DEF HasFields
  <2> HIDE DEF new
  <2> QED BY <1>1, <2>1, <2>2
<1>4. (\A from, to : Moved(s, from, to).server = server) /\ Released(s).server = server
  BY DEF Moved, Released
<1>5. CASE asks = "write"
  BY <1>2, <1>5 DEF Served
<1>6. CASE asks = "attach"
  BY <1>3, <1>6 DEF Served
<1>7. CASE asks \notin {"write", "attach"}
  BY <1>4, <1>7 DEF Served, Stages
<1> QED BY <1>5, <1>6, <1>7

(* A record is not taken away but where the page stays.                      *)
LEMMA RecordStays ==
  ASSUME FormInv, RecordsInv, [Next]_vars, server.values # NoRecord, ~form.stays
  PROVE  server'.values # NoRecord
<1>1. /\ DOMAIN server = {"values", "version", "own", "others", "object"}
      /\ wire \subseteq Submits \X Stages
  BY DEF RecordsInv, ReadInv, FormInv
<1>2. CASE Serve \/ LoseRequest \/ LoseAnswer
  <2>1. PICK r \in wire : server' = server \/ server' = Served(r[1], r[2]).server
    BY <1>2 DEF Serve, LoseRequest, LoseAnswer
  <2>2. r[1] \in Submits /\ r[2] \in Stages /\ <<r[1], r[2]>> \in wire
    BY <1>1
  <2> QED BY <2>1, <2>2, ServedStays
<1>3. CASE OthersSave
  BY <1>1, <1>3 DEF OthersSave
<1>4. ~Undeploy
  BY DEF Undeploy
<1>5. ASSUME ~(Serve \/ LoseRequest \/ LoseAnswer \/ OthersSave) PROVE server' = server
  BY <1>4, <1>5 DEF Next, vars, Fill, SubmitInvalid, SubmitAsks, ConfirmReset, SubmitSaves,
     SubmitNothing, DeleteUnreferenced, Advance, Fail, Finish, EndRelease, Cancel, Discard,
     DiscardAwaited, DiscardAtOnce, ConfirmDiscard, KeepEditing, FollowLink, Leave, ConfirmLeave,
     RunLive, CallbackNavigates, CallbackOvertaken, AnswerOffer, Reopen, Refetch
<1> QED BY <1>2, <1>3, <1>5

(* A submission keeps what it sends, and is past its write only by writing.  *)
Carries(s) ==
  /\ subs[s] = NoSubmission => subs'[s] = NoSubmission
  /\ subs'[s].body = subs[s].body /\ subs'[s].draft = subs[s].draft
  /\ subs[s].todo \in Plain => subs'[s].todo \in Plain
  /\ Past(subs'[s]) => Past(subs[s]) \/ server'.values # NoRecord
(* It asks to attach only where that is planned, when the record is written. *)
Attaches(s) ==
  <<s, "attach">> \in wire' =>
    <<s, "attach">> \in wire \/ (Past(subs[s]) /\ subs[s].todo \notin Plain)

SubmissionFields ==
  {"todo", "reply", "body", "object", "draft", "creates", "known", "live", "unwanted", "asked",
   "read", "saved", "uploading", "offers"}

LEMMA Submission ==
  ASSUME FormInv
  PROVE  /\ DOMAIN subs = Submits /\ wire \subseteq Submits \X Stages
         /\ \A s \in Submits : DOMAIN subs[s] = SubmissionFields /\ subs[s].todo \in Seq(Stages)
BY DEF FormInv, SubmissionsInv, SubmissionInv, NoSubmission, SubmissionFields

(* One submission goes on.                                                   *)
LEMMA OneCarries ==
  ASSUME FormInv, NEW s \in Submits, Running(s), NEW sub, subs' = [subs EXCEPT ![s] = sub],
         sub.body = subs[s].body, sub.draft = subs[s].draft,
         subs[s].todo \in Plain => sub.todo \in Plain, Past(sub) => Past(subs[s])
  PROVE  \A t \in Submits : Carries(t)
<1>1. DOMAIN subs = Submits /\ subs[s] # NoSubmission
  BY Submission DEF Running, NoSubmission
<1>2. subs'[s] = sub /\ \A t \in Submits \ {s} : subs'[t] = subs[t]
  BY <1>1
<1>3. Carries(s)
  BY <1>1, <1>2 DEF Carries
<1>4. \A t \in Submits \ {s} : Carries(t)
  BY <1>2 DEF Carries
<1> QED BY <1>3, <1>4

(* Nothing is gone from what was not submitted.                              *)
LEMMA NotGone ==
  /\ [NoSubmission EXCEPT !.live = FALSE] = NoSubmission
  /\ [NoSubmission EXCEPT !.unwanted = FALSE] = NoSubmission
<1>1. NoSubmission = [f \in DOMAIN NoSubmission |-> NoSubmission[f]]
  BY DEF NoSubmission
<1>2. ASSUME NEW sub, sub \in {[NoSubmission EXCEPT !.live = FALSE],
                              [NoSubmission EXCEPT !.unwanted = FALSE]}
      PROVE  sub = NoSubmission
  <2>1. sub = [f \in DOMAIN NoSubmission |-> sub[f]]
    BY <1>2
  <2>2. \A f \in DOMAIN NoSubmission : sub[f] = NoSubmission[f]
    BY <1>2 DEF NoSubmission
  <2> QED BY <1>1, <2>1, <2>2
<1> QED BY <1>2

(* The tail of a plan is one.                                                *)
LEMMA PlainParts ==
  /\ <<>> \in Plain /\ <<"release">> \in Plain
  /\ Head(<<"release">>) = "release" /\ <<"release">> # <<>>
  /\ \A todo \in Plain : todo # <<>> => Tail(todo) \in Plain /\ Head(todo) # "attach"
<1>1. "release" \in Stages \ {"attach"}
  BY DEF Stages
<1>2. <<"release">> \in Plain
  BY <1>1 DEF Plain
<1>3. ASSUME NEW todo \in Plain, todo # <<>>
      PROVE  Tail(todo) \in Plain /\ Head(todo) \in Stages \ {"attach"}
  BY <1>3, HeadTailProperties DEF Plain
<1> QED BY <1>2, <1>3 DEF Plain

(* Giving up leaves at most a release of what is known.                      *)
LEMMA GivenUpPast ==
  ASSUME NEW sub, DOMAIN sub = SubmissionFields
  PROVE  LET gone == GivenUp(sub)
         IN /\ gone.body = sub.body /\ gone.draft = sub.draft /\ gone.known = sub.known
            /\ gone.todo = <<>> \/ (gone.todo = <<"release">> /\ gone.known)
            /\ DOMAIN gone = SubmissionFields
            /\ gone.todo \in Plain /\ gone.live = sub.live
            /\ Past(gone) => Past(sub)
            /\ \A s : <<s, "attach">> \notin Asking(s, gone)
<1> DEFINE gone == GivenUp(sub)
<1>1. /\ gone.body = sub.body /\ gone.draft = sub.draft /\ gone.known = sub.known
      /\ gone.todo = <<>> \/ (gone.todo = <<"release">> /\ gone.known)
      /\ DOMAIN gone = SubmissionFields /\ gone.live = sub.live
  BY DEF GivenUp, SubmissionFields
<1> HIDE DEF gone
<1>2. gone.todo \in Plain
  BY <1>1, PlainParts
<1>3. Past(gone) => Past(sub)
  BY <1>1 DEF Past
<1>4. \A s : <<s, "attach">> \notin Asking(s, gone)
  BY <1>1, PlainParts DEF Asking
<1> QED BY <1>1, <1>2, <1>3, <1>4 DEF gone

(* Every step but the two that start a save leaves it that way.              *)
LEMMA CarriedOn ==
  ASSUME FormInv, RecordsInv, [Next]_vars, ~ConfirmReset, ~SubmitSaves
  PROVE  \A s \in Submits : Carries(s) /\ Attaches(s)
<1> DEFINE Goal == \A s \in Submits : Carries(s) /\ Attaches(s)
<1>0. /\ DOMAIN subs = Submits /\ wire \subseteq Submits \X Stages
      /\ \A s \in Submits : DOMAIN subs[s] = SubmissionFields /\ subs[s].todo \in Seq(Stages)
      /\ SubmissionFields = DOMAIN NoSubmission /\ NoSubmission.todo = <<>>
      /\ NoSubmission.live = FALSE
  BY Submission DEF SubmissionFields, NoSubmission
<1>s. ASSUME UNCHANGED <<subs, wire>> PROVE Goal
  BY <1>s DEF Carries, Attaches
<1>w. ASSUME wire' \subseteq wire PROVE \A s \in Submits : Attaches(s)
  BY <1>w DEF Attaches
(* An answer is noted.                                                       *)
<1>1. ASSUME Serve \/ LoseRequest \/ LoseAnswer PROVE Goal
  <2>1. PICK r \in wire, reply \in {"ok", "failed"} :
          /\ wire' = wire \ {r} /\ subs' = Replied(r[1], r[2], reply)
          /\ reply = "ok" => Served(r[1], r[2]).ok /\ server' = Served(r[1], r[2]).server
    BY <1>1 DEF Serve, LoseRequest, LoseAnswer
  <2>2. r[1] \in Submits /\ r[2] \in Stages /\ <<r[1], r[2]>> \in wire
    BY <1>0
  <2>3. CASE ~Waits(r[1], r[2])
    BY <1>w, <2>1, <2>3 DEF Replied, Carries
  <2>4. CASE Waits(r[1], r[2])
    <3> DEFINE s == r[1]
               sub == [subs[s] EXCEPT !.reply = reply]
    <3>1. subs' = [subs EXCEPT ![s] = sub] /\ subs[s].todo # <<>> /\ Head(subs[s].todo) = r[2]
      BY <2>1, <2>4 DEF Replied, Waits, Running
    <3>2. /\ sub.body = subs[s].body /\ sub.draft = subs[s].draft /\ sub.todo = subs[s].todo
          /\ sub.known = subs[s].known /\ sub.reply = reply
      BY <1>0, <2>2 DEF SubmissionFields
    <3> HIDE DEF sub
    <3>3. Past(sub) => Past(subs[s]) \/ server'.values # NoRecord
      <4>1. reply = "ok" /\ r[2] = "write" => server'.values # NoRecord
        BY <2>1, <2>2, ServedStays
      <4> QED BY <3>1, <3>2, <4>1 DEF Past
    <3>4. subs'[s] = sub /\ subs[s] # NoSubmission /\ \A t \in Submits \ {s} : subs'[t] = subs[t]
      BY <1>0, <2>2, <3>1
    <3> HIDE DEF s
    <3>5. \A t \in Submits : Carries(t)
      BY <3>2, <3>3, <3>4 DEF Carries
    <3> QED BY <1>w, <2>1, <3>5
  <2> QED BY <2>3, <2>4
(* A submission goes on.                                                     *)
<1>2. ASSUME Advance PROVE Goal
  <2> DEFINE known(s) == subs[s].known \/ Head(subs[s].todo) = "intent"
             next(s) == [subs[s] EXCEPT
                           !.todo = Tail(subs[s].todo), !.reply = "none", !.known = known(s),
                           !.uploading = @ /\ Head(Tail(subs[s].todo)) # "write"]
  <2>1. PICK s \in Submits :
          /\ Running(s) /\ subs[s].reply = "ok" /\ Len(subs[s].todo) > 1
          /\ subs' = [subs EXCEPT ![s] = next(s)]
          /\ wire' = wire \cup Asking(s, next(s))
    BY <1>2 DEF Advance
  <2> DEFINE sub == next(s)
  <2>2. /\ sub.body = subs[s].body /\ sub.draft = subs[s].draft
        /\ sub.todo = Tail(subs[s].todo) /\ subs[s].todo # <<>>
    BY <1>0, <2>1 DEF SubmissionFields, Running
  <2>3. Past(subs[s]) /\ (subs[s].todo \in Plain => sub.todo \in Plain)
    BY <2>1, <2>2, PlainParts DEF Past, Running
  <2>4. wire' = wire \cup Asking(s, sub) /\ subs' = [subs EXCEPT ![s] = sub]
    BY <2>1
  <2> HIDE DEF sub
  <2>5. \A t \in Submits : Carries(t)
    BY <2>1, <2>2, <2>3, <2>4, OneCarries
  <2>6. ASSUME NEW t \in Submits, <<t, "attach">> \in wire', <<t, "attach">> \notin wire
        PROVE  Past(subs[t]) /\ subs[t].todo \notin Plain
    <3>1. t = s /\ sub.todo # <<>> /\ Head(sub.todo) = "attach"
      BY <2>4, <2>6 DEF Asking
    <3>2. sub.todo \notin Plain
      BY <3>1, PlainParts
    <3> QED BY <2>3, <3>1, <3>2
  <2> QED BY <2>5, <2>6 DEF Attaches
<1>3. ASSUME Fail PROVE Goal
  <2>1. PICK s \in Submits :
          /\ Running(s)
          /\ subs' = [subs EXCEPT ![s] = GivenUp(subs[s])]
          /\ wire' = wire \cup Asking(s, GivenUp(subs[s]))
    BY <1>3 DEF Fail
  <2> DEFINE sub == GivenUp(subs[s])
  <2>2. /\ sub.body = subs[s].body /\ sub.draft = subs[s].draft
        /\ sub.todo \in Plain /\ (Past(sub) => Past(subs[s]))
        /\ <<s, "attach">> \notin Asking(s, sub)
    BY <1>0, GivenUpPast
  <2>3. wire' = wire \cup Asking(s, sub) /\ subs' = [subs EXCEPT ![s] = sub]
    BY <2>1
  <2> HIDE DEF sub
  <2>4. \A t \in Submits : Carries(t)
    BY <2>1, <2>2, <2>3, OneCarries
  <2>5. \A t \in Submits : <<t, "attach">> \in wire' => <<t, "attach">> \in wire
    BY <2>2, <2>3 DEF Asking
  <2> QED BY <2>4, <2>5 DEF Attaches
<1>4. ASSUME Finish \/ EndRelease PROVE Goal
  <2> DEFINE Over(s, sub) == /\ Running(s) /\ wire' = wire /\ subs' = [subs EXCEPT ![s] = sub]
                             /\ sub.body = subs[s].body /\ sub.draft = subs[s].draft
                             /\ sub.todo = <<>> /\ sub.known = subs[s].known
  <2>1. \E s \in Submits : \E sub : Over(s, sub)
    <3>1. CASE Finish
      <4> DEFINE done(s) == [subs[s] EXCEPT !.todo = <<>>, !.saved = TRUE, !.live = FALSE]
      <4>1. PICK s \in Submits : /\ Running(s) /\ wire' = wire
                                 /\ subs' = [subs EXCEPT ![s].todo = <<>>, ![s].saved = TRUE,
                                                         ![s].live = FALSE]
        BY <3>1 DEF Finish
      <4>2. subs' = [subs EXCEPT ![s] = done(s)]
        BY <1>0, <4>1
      <4>3. Over(s, done(s))
        BY <1>0, <4>1, <4>2 DEF SubmissionFields
      <4> QED BY <4>3
    <3>2. CASE EndRelease
      <4> DEFINE done(s) == [subs[s] EXCEPT !.todo = <<>>, !.live = FALSE]
      <4>1. PICK s \in Submits : /\ Running(s) /\ wire' = wire
                                 /\ subs' = [subs EXCEPT ![s].todo = <<>>, ![s].live = FALSE]
        BY <3>2 DEF EndRelease
      <4>2. subs' = [subs EXCEPT ![s] = done(s)]
        BY <1>0, <4>1
      <4>3. Over(s, done(s))
        BY <1>0, <4>1, <4>2 DEF SubmissionFields
      <4> QED BY <4>3
    <3> QED BY <1>4, <3>1, <3>2
  <2>a. PICK s \in Submits : \E sub : Over(s, sub)
    BY <2>1
  <2>2. PICK sub : Over(s, sub)
    BY <2>a
  <2>3. sub.todo \in Plain /\ (Past(sub) => Past(subs[s]))
    BY <2>2, PlainParts DEF Past
  <2>4. \A t \in Submits : Carries(t)
    BY <2>2, <2>3, OneCarries
  <2> QED BY <1>w, <2>2, <2>4
(* The page is left.                                                         *)
<1>d. ASSUME subs' = Detached, wire' = wire PROVE Goal
  <2>1. ASSUME NEW s \in Submits PROVE Carries(s)
    <3> DEFINE sub == [subs[s] EXCEPT !.live = FALSE]
    <3>1. /\ sub.body = subs[s].body /\ sub.draft = subs[s].draft /\ sub.todo = subs[s].todo
          /\ sub.known = subs[s].known /\ sub.reply = subs[s].reply
      BY <1>0 DEF SubmissionFields
    <3>2. subs[s] = NoSubmission => sub = NoSubmission
      BY NotGone
    <3>3. subs'[s] = sub
      BY <1>d DEF Detached
    <3> HIDE DEF sub
    <3> QED BY <3>1, <3>2, <3>3 DEF Carries, Past
  <2> QED BY <1>d, <1>w, <2>1
<1>z. ASSUME DiscardAtOnce(TRUE) PROVE Goal
  <2> DEFINE noted(sub) == [sub EXCEPT !.unwanted = TRUE /\ sub.live /\ sub.todo # <<>>]
             gone(sub) == IF form.stays THEN sub ELSE [sub EXCEPT !.live = FALSE]
  <2>1. /\ subs' = [s \in Submits |-> gone(onCancel(noted(subs[s])))]
        /\ wire' = wire \cup UNION {Asking(s, subs'[s]) :
                                      s \in {s \in Submits : subs'[s].todo # subs[s].todo}}
    BY <1>z DEF DiscardAtOnce
  <2>2. ASSUME NEW s \in Submits
        PROVE  /\ Carries(s)
               /\ subs'[s].todo # subs[s].todo => <<s, "attach">> \notin Asking(s, subs'[s])
    <3> DEFINE n == noted(subs[s])
               c == onCancel(n)
               g == gone(c)
               Kept(sub) == /\ DOMAIN sub = SubmissionFields
                            /\ sub.body = subs[s].body /\ sub.draft = subs[s].draft
                            /\ \/ /\ sub.todo = subs[s].todo
                                  /\ sub.known = subs[s].known /\ sub.reply = subs[s].reply
                               \/ /\ sub.todo \in Plain /\ (Past(sub) => Past(subs[s]))
                                  /\ sub.todo = <<>> \/ Head(sub.todo) # "attach"
    <3>1. Kept(n) /\ n.todo = subs[s].todo /\ n.live = subs[s].live
          /\ n.known = subs[s].known /\ n.reply = subs[s].reply
      BY <1>0 DEF SubmissionFields
    <3>2. subs[s] = NoSubmission => n = NoSubmission
      BY <1>0, NotGone
    <3> HIDE DEF n
    <3>3. Kept(c) /\ (subs[s] = NoSubmission => c = NoSubmission)
      <4>1. Past(n) => Past(subs[s])
        BY <3>1 DEF Past
      <4>2. Kept(GivenUp(n))
        <5> DEFINE up == GivenUp(n)
        <5>1. /\ up.body = n.body /\ up.draft = n.draft /\ DOMAIN up = SubmissionFields
              /\ up.todo \in Plain /\ (Past(up) => Past(n))
              /\ up.todo = <<>> \/ up.todo = <<"release">>
          BY <3>1, GivenUpPast
        <5> HIDE DEF up
        <5>2. Kept(up)
          BY <3>1, <4>1, <5>1, PlainParts
        <5> QED BY <5>2 DEF up
      <4>3. c = n \/ (c = GivenUp(n) /\ n.live)
        BY DEF onCancel
      <4> HIDE DEF c
      <4> QED BY <1>0, <3>1, <3>2, <4>2, <4>3
    <3> HIDE DEF c
    <3>4. /\ g.body = c.body /\ g.draft = c.draft /\ g.todo = c.todo /\ g.known = c.known
          /\ g.reply = c.reply
      BY <3>3 DEF SubmissionFields
    <3>5. c = NoSubmission => g = NoSubmission
      BY NotGone
    <3>6. subs'[s] = g
      BY <2>1 DEF n, c
    <3> HIDE DEF g
    <3>7. Carries(s)
      BY <3>3, <3>4, <3>5, <3>6 DEF Carries, Past
    <3> QED BY <3>3, <3>4, <3>6, <3>7 DEF Asking
  <2>3. \A s \in Submits : Attaches(s)
    <3> SUFFICES ASSUME NEW s \in Submits, <<s, "attach">> \in wire', <<s, "attach">> \notin wire
                 PROVE  FALSE
      BY DEF Attaches
    <3>1. PICK t \in Submits : subs'[t].todo # subs[t].todo /\ <<s, "attach">> \in Asking(t, subs'[t])
      BY <2>1
    <3>2. t = s
      BY <3>1 DEF Asking
    <3> QED BY <2>2, <3>1, <3>2
  <2> QED BY <2>2, <2>3
<1>5. ASSUME Discard(TRUE) PROVE Goal
  BY <1>5, <1>s, <1>z DEF Discard, DiscardAwaited
<1>6. ASSUME Leave PROVE Goal
  BY <1>6, <1>d DEF Leave
<1>7. ASSUME Refetch PROVE Goal
  BY <1>7, <1>d, <1>s DEF Refetch
<1>8. ASSUME Cancel \/ ConfirmDiscard \/ FollowLink \/ ConfirmLeave \/ AnswerOffer PROVE Goal
  BY <1>5, <1>6, <1>8, <1>s DEF Cancel, ConfirmDiscard, FollowLink, ConfirmLeave, AnswerOffer
<1>11. ASSUME RunLive \/ CallbackNavigates \/ CallbackOvertaken PROVE Goal
  BY <1>6, <1>11, <1>s DEF RunLive, CallbackNavigates, CallbackOvertaken
<1>9. ASSUME \/ Fill \/ SubmitInvalid \/ SubmitAsks \/ SubmitNothing \/ OthersSave \/ KeepEditing
             \/ DeleteUnreferenced \/ Undeploy \/ Reopen \/ UNCHANGED vars
      PROVE  Goal
  BY <1>9, <1>s DEF Fill, SubmitInvalid, SubmitAsks, SubmitNothing, OthersSave, KeepEditing,
                    DeleteUnreferenced, Undeploy, Reopen, vars
<1> HIDE DEF Goal
<1>10. Goal
  BY <1>1, <1>2, <1>3, <1>4, <1>7, <1>8, <1>9, <1>11 DEF Next
<1> QED BY <1>10 DEF Goal

-----------------------------------------------------------------------------
(* An object that arrives late finds its record.                             *)

(* What comes late comes after the write, and nothing else attaches.         *)
LEMMA PlansLate ==
  ASSUME setting \in Settings, NEW uploading
  PROVE  LET plan == Plan(uploading)
         IN /\ form.after = <<>> => plan \in Plain
            /\ form.after # <<>> => Head(plan) = "write"
            /\ Head(plan) # "attach" /\ plan # <<>>
<1> DEFINE plan == Plan(uploading)
<1>1. /\ form.before \in Plain /\ form.after \in Seq(Stages) /\ <<"write">> \in Plain
      /\ <<"write">> \in Seq(Stages) /\ form.before \in Seq(Stages)
  <2>1. setting.form \in DOMAIN Forms
    BY FormsAssumption
  <2>2. /\ form.before \in Seq({"intent", "bytes", "finalize"})
        /\ form.after \in Seq({"intent", "bytes", "attach"})
    BY <2>1, FormsAssumption DEF form
  <2> QED BY <2>2 DEF Plain, Stages
<1>2. CASE form.after = <<>>
  <2>1. <<"write">> \o <<>> = <<"write">> /\ form.before \o <<"write">> \in Plain
    BY <1>1, ConcatProperties DEF Plain
  <2>2. form.before \o <<"write">> \o <<>> \in Plain /\ form.before \o <<"write">> \o <<>> # <<>>
    BY <1>1, <2>1, ConcatProperties, ConcatEqualIffEmpty DEF Plain
  <2>3. plan \in Plain /\ plan # <<>>
    BY <1>1, <1>2, <2>2 DEF Plan
  <2> HIDE DEF plan
  <2>4. Head(plan) # "attach"
    BY <2>3, PlainParts
  <2> QED BY <1>2, <2>3, <2>4 DEF plan
<1>3. CASE form.after # <<>>
  <2>1. form.before = <<>>
    BY <1>3, FormSaves DEF LateApart
  <2>2. <<>> \o <<"write">> = <<"write">> /\ <<"write">> # <<>> /\ Head(<<"write">>) = "write"
    BY <1>1
  <2>3. <<"write">> \o form.after # <<>> /\ Head(<<"write">> \o form.after) = "write"
    BY <1>1, <2>2, ConcatProperties, ConcatEqualIffEmpty
  <2>4. plan \in {<<"write">>, <<"write">> \o form.after}
    BY <2>1, <2>2 DEF Plan
  <2> HIDE DEF plan
  <2> QED BY <1>3, <2>2, <2>3, <2>4 DEF plan
<1> QED BY <1>2, <1>3

(* A save that begins.                                                       *)
Begins(s) ==
  /\ subs'[s].draft = page.draft
  /\ subs'[s].body = Bodied(Uploading(form, page.draft))
  /\ subs'[s].todo = Plan(Uploading(form, page.draft))
  /\ ~subs'[s].known /\ subs'[s].reply = "none"

LEMMA StartedBegins ==
  ASSUME FormInv, NEW asked, Start(asked)
  PROVE  \E s \in Submits :
           /\ Begins(s)
           /\ \A t \in Submits \ {s} : subs'[t] = subs[t]
           /\ wire' = wire \cup {<<s, Head(subs'[s].todo)>>}
<1> DEFINE uploading == Uploading(form, page.draft)
           body == Bodied(uploading)
           plan == Plan(uploading)
<1>1. PICK s \in Unused :
        /\ subs' = [subs EXCEPT ![s] =
             [NoSubmission EXCEPT
                !.todo = plan, !.body = body, !.draft = page.draft, !.live = TRUE, !.asked = asked,
                !.read = page.seen.version, !.creates = page.seen.values = NoRecord,
                !.uploading = Head(plan) # "write", !.offers = Offering(body),
                !.object = IF Head(plan) # "write" THEN s
                           ELSE IF \E u \in form.uploads : body[u.object] = "object"
                           THEN page.seen.object ELSE NoObject]]
        /\ wire' = wire \cup {<<s, Head(plan)>>}
  BY DEF Start
<1>2. s \in Submits /\ DOMAIN subs = Submits
  BY DEF Unused, FormInv, SubmissionsInv
<1> HIDE DEF body, plan
<1>3. /\ subs'[s].draft = page.draft /\ subs'[s].body = body /\ subs'[s].todo = plan
      /\ ~subs'[s].known /\ subs'[s].reply = "none"
  BY <1>1, <1>2 DEF NoSubmission
<1>4. \A t \in Submits \ {s} : subs'[t] = subs[t]
  BY <1>1, <1>2
<1> QED BY <1>1, <1>2, <1>3, <1>4 DEF Begins, body, plan

LEMMA LateInit == Init => LateInv
<1> SUFFICES ASSUME Init PROVE LateInv
  OBVIOUS
<1>1. wire = {} /\ \A s \in Submits : subs[s] = NoSubmission
  BY DEF Init
<1>2. NoSubmission.todo = <<>> /\ ~Past(NoSubmission)
  BY DEF NoSubmission, Past
<1> QED BY <1>1, <1>2, PlainParts DEF LateInv

LEMMA LateStep == FormInv /\ RecordsInv /\ LateInv /\ [Next]_vars => LateInv'
<1> SUFFICES ASSUME FormInv, RecordsInv, LateInv, [Next]_vars PROVE LateInv'
  OBVIOUS
<1>1. setting' = setting /\ form' = form /\ setting \in Settings
  <2>1. setting' = setting
    BY DEF Next, vars, Fill, SubmitInvalid, SubmitAsks, ConfirmReset, SubmitSaves, SubmitNothing,
       Serve, LoseRequest, LoseAnswer, DeleteUnreferenced, OthersSave, Advance, Fail, Finish,
       EndRelease, Cancel, Discard, DiscardAwaited, DiscardAtOnce, ConfirmDiscard, KeepEditing,
       FollowLink, Leave, ConfirmLeave, RunLive, CallbackNavigates, CallbackOvertaken, AnswerOffer,
       Undeploy, Reopen, Refetch
  <2> QED BY <2>1 DEF form, FormInv
<1>2. form.after # <<>> => ~form.stays
  BY <1>1, FormSaves DEF LateApart
<1>3. form.after # <<>> /\ server.values # NoRecord => server'.values # NoRecord
  BY <1>2, RecordStays
<1>4. /\ form.after = <<>> => \A s \in Submits : subs[s].todo \in Plain
      /\ form.after # <<>> => \A s \in Submits : Past(subs[s]) => server.values # NoRecord
      /\ \A s \in Submits : <<s, "attach">> \in wire => form.after # <<>> /\ server.values # NoRecord
  BY DEF LateInv
<1>5. CASE ConfirmReset \/ SubmitSaves
  <2>1. PICK s \in Submits :
          /\ Begins(s)
          /\ \A t \in Submits \ {s} : subs'[t] = subs[t]
          /\ wire' = wire \cup {<<s, Head(subs'[s].todo)>>}
    BY <1>5, StartedBegins DEF ConfirmReset, SubmitSaves
  <2>2. /\ form.after = <<>> => subs'[s].todo \in Plain
        /\ form.after # <<>> => Head(subs'[s].todo) = "write"
        /\ Head(subs'[s].todo) # "attach"
    BY <1>1, <2>1, PlansLate DEF Begins
  <2>3. form.after # <<>> => ~Past(subs'[s])
    BY <2>1, <2>2 DEF Begins, Past
  <2>4. \A t \in Submits : <<t, "attach">> \in wire' => <<t, "attach">> \in wire
    BY <2>1, <2>2
  <2>5. form.after = <<>> => \A t \in Submits : subs'[t].todo \in Plain
    BY <1>4, <2>1, <2>2
  <2>6. form.after # <<>> => \A t \in Submits : Past(subs'[t]) => server'.values # NoRecord
    BY <1>3, <1>4, <2>1, <2>3
  <2> QED BY <1>1, <1>3, <1>4, <2>4, <2>5, <2>6 DEF LateInv, Past, Submits, NoRecord, Plain, Stages
<1>6. CASE ~ConfirmReset /\ ~SubmitSaves
  <2>1. \A s \in Submits : Carries(s) /\ Attaches(s)
    BY <1>6, CarriedOn
  <2>2. form.after = <<>> => \A s \in Submits : subs'[s].todo \in Plain
    BY <1>4, <2>1 DEF Carries
  <2>3. form.after # <<>> => \A s \in Submits : Past(subs'[s]) => server'.values # NoRecord
    BY <1>3, <1>4, <2>1 DEF Carries
  <2>4. ASSUME NEW s \in Submits, <<s, "attach">> \in wire'
        PROVE  form.after # <<>> /\ server'.values # NoRecord
    BY <1>3, <1>4, <2>1, <2>4 DEF Attaches
  <2> QED BY <1>1, <2>2, <2>3, <2>4 DEF LateInv, Past, Submits, NoRecord, Plain, Stages
<1> QED BY <1>5, <1>6

LEMMA LateInvariant == Spec => []LateInv
BY LateInit, LateStep, FormInvariant, RecordsInvariant, PTL DEF Spec

-----------------------------------------------------------------------------
(* What is saved.                                                            *)

(* A save that begins sends what the server takes, and reads back.           *)
LEMMA BodiedSaved ==
  ASSUME FormInv, RecordsInv, ConfirmedInv, Issues(form, page.draft) = {}
  PROVE  BodyInv(Bodied(Uploading(form, page.draft)))
<1> DEFINE uploading == Uploading(form, page.draft)
           sent == Body(form, page.draft)
           body == Bodied(uploading)
<1>1. /\ setting \in Settings /\ DOMAIN page.draft = Fields /\ HasFields(page.seen.values)
      /\ DraftInv(page.draft) /\ RecordInv(page.seen.values)
  BY DEF FormInv, RecordsInv, FieldsInv, ConfirmedInv
<1>2. DOMAIN sent = Fields
  BY <1>1, AdaptedFields DEF Body
<1>3. ASSUME NEW f \in Fields PROVE sent[f] \in Recorded(form, Reads, f)
  <2> DEFINE due == {c \in form.sends : c.field = f /\ Holds(c.when, page.draft)}
  <2>1. sent[f] = IF due = {} THEN page.draft[f] ELSE (CHOOSE c \in due : TRUE).to
    BY <1>1 DEF Body, Adapted
  <2>2. page.draft[f] \in Recorded(form, Reads, f)
    BY <1>1 DEF DraftInv, Drafted
  <2>3. \A c \in due : c.to \in Recorded(form, Reads, f)
    BY DEF Recorded
  <2> HIDE DEF due
  <2> QED BY <2>1, <2>2, <2>3
<1> HIDE DEF sent
<1>4. /\ DOMAIN body = Fields
      /\ \A f \in Fields :
           body[f] = IF form.after # <<>> /\ \E u \in uploading : u.object = f
                     THEN IF page.seen.values = NoRecord THEN "" ELSE page.seen.values[f]
                     ELSE sent[f]
  BY <1>2 DEF Bodied, sent
<1>5. uploading \subseteq form.uploads
  BY DEF Uploading
<1> HIDE DEF body, uploading
<1>6. \A f \in Fields : Late(f) \/ body[f] = sent[f]
  BY <1>4, <1>5 DEF Late
<1>7. ASSUME NEW f \in Fields PROVE body[f] \in Recorded(form, Reads, f)
  <2>1. CASE form.after # <<>> /\ \E u \in uploading : u.object = f
    <3>1. "" \in Recorded(form, Reads, f)
      BY <1>5, <2>1 DEF Recorded
    <3>2. page.seen.values # NoRecord => page.seen.values[f] \in Recorded(form, Reads, f)
      BY <1>1 DEF RecordInv
    <3> QED BY <1>4, <2>1, <3>1, <3>2
  <2>2. CASE ~(form.after # <<>> /\ \E u \in uploading : u.object = f)
    BY <1>3, <1>4, <2>2
  <2> QED BY <2>1, <2>2
<1>8. BodyInv(body)
  BY <1>1, <1>4, <1>6, <1>7, BodyTaken, BodySaved DEF BodyInv, sent
<1> QED BY <1>8 DEF body, uploading

(* What is served leaves a record that opens as it was saved.                *)
LEMMA ServedSaved ==
  ASSUME FormInv, RecordsInv, LateInv, ConfirmedInv,
         NEW s \in Submits, NEW asks \in Stages, <<s, asks>> \in wire
  PROVE  LET served == Served(s, asks).server
         IN RecordInv(served.values) /\ (served.own => served.values # NoRecord)
<1>1. /\ DOMAIN server = {"values", "version", "own", "others", "object"}
      /\ HasFields(server.values) /\ setting \in Settings
      /\ DOMAIN subs[s].body = Fields
      /\ "none" \notin Fields /\ DOMAIN NoRecord = {"none"}
      /\ RecordInv(server.values) /\ (server.own => server.values # NoRecord)
  BY FormsAssumption
     DEF RecordsInv, FieldsInv, ReadInv, SavesInv, SaveInv, Busy, FormInv, form, Fields, NoRecord,
         ConfirmedInv, KnownInv
<1>2. RecordInv(Written(subs[s]).server.values)
  <2> DEFINE saved == Blanked(form, subs[s].body)
  <2>1. BodyInv(subs[s].body)
    <3>1. subs[s] # NoSubmission
      BY <1>1 DEF NoSubmission
    <3> QED BY <3>1 DEF ConfirmedInv, SentInv
  <2>2. \/ /\ Accepts(form, subs[s].body)
           /\ Written(subs[s]).server = [server EXCEPT !.version = @ + 1, !.own = TRUE,
                                           !.object = subs[s].object, !.values = saved]
        \/ Written(subs[s]).server = server
    BY DEF Written, Blanked
  <2>3. Accepts(form, subs[s].body) => RecordInv(saved)
    BY <2>1 DEF BodyInv
  <2> HIDE DEF saved
  <2> QED BY <1>1, <2>2, <2>3
<1>3. asks = "attach" => RecordInv(Attached(s).server.values)
  <2> SUFFICES ASSUME asks = "attach" PROVE RecordInv(Attached(s).server.values)
    OBVIOUS
  <2> DEFINE old == server.values
             new == [f \in DOMAIN old |-> IF \E u \in form.uploads : u.object = f THEN "object"
                                          ELSE old[f]]
  <2>1. form.after # <<>> /\ old # NoRecord /\ DOMAIN old = Fields
    BY <1>1 DEF LateInv, HasFields
  <2>2. RecordInv(new)
    BY <1>1, <2>1, ArrivedSaved
  <2>3. \/ Attached(s).server = server
        \/ Attached(s).server = [server EXCEPT !.version = @ + 1, !.object = s, !.own = TRUE,
                                               !.values = new]
    BY DEF Attached
  <2> HIDE DEF new
  <2> QED BY <1>1, <2>2, <2>3
<1>4. (\A from, to : Moved(s, from, to).server = server) /\ Released(s).server = server
  BY DEF Moved, Released
<1>5. RecordInv(Served(s, asks).server.values)
  BY <1>1, <1>2, <1>3, <1>4 DEF Served, Stages
<1>6. Served(s, asks).server.own => Served(s, asks).server.values # NoRecord
  BY <1>1, ServedStays DEF LateInv
<1> QED BY <1>5, <1>6

(* A save begins of a draft without errors.                                  *)
NewSent(s) == DraftInv(subs'[s].draft) /\ BodyInv(subs'[s].body)

(* These are all it takes.                                                   *)
LEMMA ConfirmedKept ==
  ASSUME ConfirmedInv, setting' = setting, DraftInv(page'.draft),
         page'.seen \in {page.seen, server}, RecordInv(server'.values),
         \A s \in Submits : Carries(s) \/ NewSent(s),
         page'.open /\ page'.dialog = "reset" => Issues(form, page'.draft) = {} /\ form.asks # {},
         server'.own => server'.values # NoRecord,
         server.values # NoRecord /\ ~form.stays => server'.values # NoRecord
  PROVE  ConfirmedInv'
<1>1. form' = form /\ again' = again /\ Reads' = Reads /\ Fields' = Fields
  BY DEF form, again, Reads, Fields
<1>2. /\ RecordInv(page.seen.values) /\ RecordInv(server.values)
      /\ \A s \in Submits : SentInv(s)
      /\ page.seen.values # NoRecord /\ ~form.stays => server.values # NoRecord
  BY DEF ConfirmedInv, KnownInv
<1>3. DraftInv(page.draft)' /\ RecordInv(page.seen.values)' /\ RecordInv(server.values)'
  <2>1. RecordInv(page'.seen.values)
    BY <1>2
  <2>2. DraftInv(page.draft)'
    BY <1>1 DEF DraftInv
  <2>3. RecordInv(page.seen.values)' /\ RecordInv(server.values)'
    BY <1>1, <2>1 DEF RecordInv, NoRecord
  <2> QED BY <2>2, <2>3
<1>4. ASSUME NEW s \in Submits PROVE SentInv(s)'
  <2>1. subs'[s] # NoSubmission => DraftInv(subs'[s].draft) /\ BodyInv(subs'[s].body)
    BY <1>2 DEF Carries, NewSent, SentInv
  <2>2. DraftInv(subs'[s].draft) <=> DraftInv(subs[s].draft)'
    BY <1>1 DEF DraftInv
  <2>3. BodyInv(subs'[s].body) <=> BodyInv(subs[s].body)'
    BY <1>1 DEF BodyInv, RecordInv, NoRecord
  <2> QED BY <2>1, <2>2, <2>3 DEF SentInv, NoSubmission, NoRecord, NoObject
<1>5. AskInv' /\ KnownInv'
  <2>1. page'.seen.values # NoRecord /\ ~form.stays => server'.values # NoRecord
    BY <1>2
  <2> QED BY <1>1, <2>1 DEF AskInv, KnownInv, NoRecord
<1> QED BY <1>3, <1>4, <1>5 DEF ConfirmedInv, Submits

LEMMA ConfirmedInit == Init => ConfirmedInv
<1> SUFFICES ASSUME Init PROVE ConfirmedInv
  OBVIOUS
<1>1. /\ setting \in Settings /\ server.values = setting.opened /\ page = Mounted(server)
      /\ server.own = FALSE /\ HasFields(server.values)
      /\ \A s \in Submits : subs[s] = NoSubmission
  BY FormFields DEF Init
<1>2. RecordInv(server.values)
  BY <1>1, RecordsSaved
<1>3. DraftInv(page.draft) /\ page.seen = server /\ page.dialog = "none"
  BY <1>1, <1>2, MountedDraft, MountedFields
<1> QED BY <1>1, <1>2, <1>3 DEF ConfirmedInv, SentInv, AskInv, KnownInv

LEMMA ConfirmedStep ==
  FormInv /\ RecordsInv /\ LateInv /\ ConfirmedInv /\ [Next]_vars => ConfirmedInv'
<1> SUFFICES ASSUME FormInv, RecordsInv, LateInv, ConfirmedInv, [Next]_vars PROVE ConfirmedInv'
  OBVIOUS
<1>0. /\ setting \in Settings /\ wire \subseteq Submits \X Stages /\ DOMAIN subs = Submits
      /\ DOMAIN page = PageFields /\ DOMAIN page.draft = Fields
      /\ DOMAIN server = {"values", "version", "own", "others", "object"}
      /\ HasFields(server.values) /\ HasFields(page.seen.values)
  BY MountedFields DEF RecordsInv, FieldsInv, ReadInv, FormInv, SubmissionsInv
<1>p. /\ DraftInv(page.draft) /\ RecordInv(page.seen.values) /\ RecordInv(server.values)
      /\ \A s \in Submits : SentInv(s)
      /\ page.open /\ page.dialog = "reset" => Issues(form, page.draft) = {} /\ form.asks # {}
      /\ server.own => server.values # NoRecord
      /\ page.seen.values # NoRecord /\ ~form.stays => server.values # NoRecord
  BY DEF ConfirmedInv, AskInv, KnownInv
<1>m. /\ DraftInv(Mounted(server).draft) /\ DraftInv(Mounted(page.seen).draft)
      /\ Mounted(server).seen = server /\ Mounted(page.seen).seen = page.seen
      /\ Mounted(server).dialog = "none" /\ Mounted(page.seen).dialog = "none"
      /\ Mounted(server).base = Mounted(server).draft
  BY <1>0, <1>p, MountedDraft, MountedFields DEF Mounted
<1>r. server.values # NoRecord /\ ~form.stays => server'.values # NoRecord
  BY RecordStays
(* A save begins.                                                            *)
<1>1. CASE ConfirmReset \/ SubmitSaves
  <2>1. /\ Issues(form, page.draft) = {}
        /\ UNCHANGED <<setting, server>> /\ page'.draft = page.draft /\ page'.seen = page.seen
        /\ page'.dialog = "reset" => page.open /\ page.dialog = "reset"
    BY <1>0, <1>1, <1>p DEF ConfirmReset, SubmitSaves, Submitting, Quiet, PageFields
  <2>2. PICK s \in Submits : Begins(s) /\ \A t \in Submits \ {s} : subs'[t] = subs[t]
    BY <1>1, StartedBegins DEF ConfirmReset, SubmitSaves
  <2>3. NewSent(s)
    BY <1>p, <2>1, <2>2, BodiedSaved DEF NewSent, Begins
  <2>4. \A t \in Submits \ {s} : Carries(t)
    BY <2>2 DEF Carries
  <2> QED BY <1>p, <1>r, <2>1, <2>3, <2>4, ConfirmedKept
<1> SUFFICES ASSUME \A s \in Submits : Carries(s)
             PROVE  ConfirmedInv'
  BY <1>1, CarriedOn
(* The record stays as it is.                                                *)
<1>k. ASSUME UNCHANGED <<setting, server>>, DraftInv(page'.draft), page'.seen \in {page.seen, server},
             page'.open /\ page'.dialog = "reset" => Issues(form, page'.draft) = {} /\ form.asks # {}
      PROVE  ConfirmedInv'
  BY <1>k, <1>p, <1>r, ConfirmedKept
(* The page stays as it is.                                                  *)
<1>s. ASSUME UNCHANGED <<setting, page>>, RecordInv(server'.values),
             server'.own => server'.values # NoRecord
      PROVE  ConfirmedInv'
  BY <1>p, <1>r, <1>s, ConfirmedKept
(* What the user does to the page.                                           *)
<1>2. CASE Fill
  <2>1. PICK c \in Usable(form, page.draft) : \E x \in Choices(c, page.draft) :
          page' = [page EXCEPT !.draft = Change(c, x, page.draft), !.touched = TRUE]
    BY <1>2 DEF Fill
  <2>2. PICK x \in Choices(c, page.draft) :
          page' = [page EXCEPT !.draft = Change(c, x, page.draft), !.touched = TRUE]
    BY <2>1
  <2>3. DraftInv(Change(c, x, page.draft))
    BY <1>0, <1>p, ChangedDraft
  <2>4. /\ page'.draft = Change(c, x, page.draft) /\ page'.seen = page.seen
        /\ page'.dialog = page.dialog
    BY <1>0, <2>2 DEF PageFields
  <2>5. UNCHANGED <<setting, server>> /\ page.dialog = "none"
    BY <1>2 DEF Fill, Quiet
  <2> QED BY <1>k, <2>3, <2>4, <2>5
<1>3. CASE SubmitInvalid \/ SubmitNothing \/ KeepEditing
  <2>1. /\ UNCHANGED <<setting, server>> /\ page'.draft = page.draft /\ page'.seen = page.seen
        /\ page'.dialog = "none"
    BY <1>0, <1>3 DEF SubmitInvalid, SubmitNothing, KeepEditing, Submitting, Quiet, PageFields
  <2> QED BY <1>k, <1>p, <2>1
<1>4. CASE SubmitAsks
  <2>1. /\ UNCHANGED <<setting, server>> /\ page'.draft = page.draft /\ page'.seen = page.seen
        /\ Issues(form, page.draft) = {} /\ form.asks # {}
    BY <1>0, <1>4 DEF SubmitAsks, ErasesResults, PageFields
  <2> QED BY <1>k, <1>p, <2>1
(* A request is served or lost, or others write the record.                  *)
<1>5. CASE Serve \/ LoseRequest \/ LoseAnswer
  <2>1. PICK r \in wire :
          UNCHANGED <<setting, page>> /\ (server' = server \/ server' = Served(r[1], r[2]).server)
    BY <1>5 DEF Serve, LoseRequest, LoseAnswer
  <2>2. r[1] \in Submits /\ r[2] \in Stages /\ <<r[1], r[2]>> \in wire
    BY <1>0
  <2>3. RecordInv(server'.values) /\ (server'.own => server'.values # NoRecord)
    BY <1>p, <2>1, <2>2, ServedSaved
  <2> QED BY <1>s, <2>1, <2>3
<1>6. CASE OthersSave
  <2>1. server'.values = setting.others /\ server'.own = FALSE /\ UNCHANGED <<setting, page>>
    BY <1>0, <1>6 DEF OthersSave
  <2> QED BY <1>0, <1>s, <2>1, RecordsSaved
<1>7. CASE Undeploy
  <2>1. server'.values = NoRecord /\ server'.own = FALSE /\ UNCHANGED <<setting, page>>
    BY <1>0, <1>7 DEF Undeploy
  <2>2. RecordInv(server'.values)
    BY <2>1 DEF RecordInv
  <2> QED BY <1>s, <2>1, <2>2
(* A submission goes on.                                                     *)
<1>8. CASE Advance \/ Fail \/ EndRelease
  BY <1>8, <1>p, <1>s DEF Advance, Fail, EndRelease
<1>9. CASE Finish
  <2>1. PICK s \in Submits, offered \in BOOLEAN :
          /\ Running(s) /\ page' = AfterSave(subs[s], offered)
          /\ UNCHANGED <<setting, server>>
    BY <1>9 DEF Finish
  <2>2. DraftInv(subs[s].draft)
    <3>1. subs[s] # NoSubmission
      BY <2>1 DEF Running, NoSubmission
    <3> QED BY <1>p, <3>1 DEF SentInv
  <2>3. page'.draft \in {page.draft, subs[s].draft} /\ page'.seen = page.seen
    BY <1>0, <2>1 DEF AfterSave, Left, PageFields
  <2>4. page'.open /\ page'.dialog = "reset" =>
          /\ page.open /\ page.dialog = "reset"
          /\ page'.draft = page.draft \/ form.stays
    BY <1>0, <2>1 DEF AfterSave, Left, PageFields
  <2>5. form.asks # {} => ~form.stays
    BY <1>0, FormSaves DEF AsksApart
  <2> QED BY <1>k, <1>p, <2>1, <2>2, <2>3, <2>4, <2>5
(* The page is left, or mounted anew.                                        *)
<1>10. ASSUME Discard(TRUE) PROVE ConfirmedInv'
  <2>1. /\ UNCHANGED <<setting, server>>
        /\ page' = Discarded \/ \E callback : page' = runWithoutPrompt(callback)
    BY <1>10 DEF Discard, DiscardAwaited, DiscardAtOnce
  <2>2. /\ page'.draft \in {page.draft, Mounted(page.seen).draft} /\ page'.seen = page.seen
        /\ page'.dialog = "none"
    <3>1. CASE page' = Discarded
      BY <1>0, <1>m, <3>1, MountedFields DEF Left, Discarded, PageFields
    <3>2. CASE \E callback : page' = runWithoutPrompt(callback)
      BY <1>0, <3>2 DEF runWithoutPrompt, PageFields
    <3> QED BY <2>1, <3>1, <3>2
  <2> QED BY <1>k, <1>m, <1>p, <2>1, <2>2
<1>11. ASSUME Leave PROVE ConfirmedInv'
  <2>1. /\ UNCHANGED <<setting, server>> /\ page'.draft = page.draft /\ page'.seen = page.seen
        /\ page'.dialog = "none"
    BY <1>0, <1>11 DEF Leave, Left, PageFields
  <2> QED BY <1>k, <1>p, <2>1
<1>12. CASE Cancel \/ ConfirmDiscard \/ FollowLink \/ ConfirmLeave \/ AnswerOffer
  <2>1. \/ Discard(TRUE) \/ Leave
        \/ /\ \E dialog \in {"discard", "leave"} : page' = [page EXCEPT !.dialog = dialog]
           /\ UNCHANGED <<setting, server>>
    BY <1>12 DEF Cancel, ConfirmDiscard, FollowLink, ConfirmLeave, AnswerOffer
  <2>2. ASSUME NEW dialog, page' = [page EXCEPT !.dialog = dialog]
        PROVE  page'.draft = page.draft /\ page'.seen = page.seen /\ page'.dialog = dialog
    BY <1>0, <2>2 DEF PageFields
  <2> QED BY <1>10, <1>11, <1>k, <1>p, <2>1, <2>2
<1>13. CASE Reopen
  BY <1>13, <1>k, <1>m DEF Reopen
<1>14. CASE Refetch
  <2>1. CASE form.keyed
    BY <1>14, <1>k, <1>m, <2>1 DEF Refetch
  <2>2. CASE ~form.keyed
    <3>1. /\ page' = [page EXCEPT !.seen = server, !.base = Mounted(server).base,
                               !.draft = IF page.touched THEN page.draft ELSE Mounted(server).base]
          /\ UNCHANGED <<setting, server>>
          /\ page.open /\ (page.seen.values # NoRecord \/ form.stays)
      BY <1>0, <1>14, <2>2 DEF Refetch
    <3>2. /\ page'.draft \in {page.draft, Mounted(server).base} /\ page'.seen = server
          /\ page'.dialog = page.dialog
      BY <1>0, <3>1 DEF PageFields
    <3>3. ASSUME form.asks # {} PROVE Issues(form, Mounted(server).base) = {}
      <4>1. again = form /\ ~form.stays
        BY <1>0, <3>3, FormSaves DEF AsksApart
      <4>2. server.values # NoRecord
        BY <1>p, <3>1, <4>1
      <4>3. Mounted(server).base = FormOf(form, server.values)
        BY <4>2 DEF Mounted
      <4> QED BY <1>p, <4>1, <4>2, <4>3 DEF RecordInv, Reopens
    <3> QED BY <1>k, <1>m, <1>p, <3>1, <3>2, <3>3
  <2> QED BY <2>1, <2>2
(* A callback begins or ends, or the user looks for the query.               *)
<1>16. CASE RunLive \/ CallbackNavigates \/ CallbackOvertaken
  <2>1. \/ Leave
        \/ /\ \/ \E callback : \/ page' = runWithoutPrompt(callback)
                               \/ page' = ranWithoutPrompt(callback)
                               \/ page' = [ranWithoutPrompt(callback) EXCEPT !.dialog = "leave"]
              \/ page' = [page EXCEPT !.tab = 1]
           /\ UNCHANGED <<setting, server>>
    BY <1>16 DEF RunLive, CallbackNavigates, CallbackOvertaken
  <2>2. Leave \/ (/\ page'.draft = page.draft /\ page'.seen = page.seen /\ page'.open = page.open
                  /\ page'.dialog \in {page.dialog, "none", "leave"}
                  /\ UNCHANGED <<setting, server>>)
    BY <1>0, <2>1 DEF runWithoutPrompt, ranWithoutPrompt, PageFields
  <2> QED BY <1>11, <1>k, <1>p, <2>2
<1>15. CASE DeleteUnreferenced \/ UNCHANGED vars
  BY <1>15, <1>p, <1>s DEF DeleteUnreferenced, vars
<1> QED
  BY <1>1, <1>2, <1>3, <1>4, <1>5, <1>6, <1>7, <1>8, <1>9, <1>12, <1>13, <1>14, <1>15, <1>16 DEF Next

LEMMA ConfirmedInvariant == Spec => []ConfirmedInv
BY ConfirmedInit, ConfirmedStep, FormInvariant, RecordsInvariant, LateInvariant, PTL DEF Spec

(* Nothing a form lets its user send is turned down for its values, whenever *)
(* the record was read and whatever was changed since: but for the values    *)
(* known to be overlooked, the server takes what the schema lets through and *)
(* the adapters make of it.                                                  *)
THEOREM NoSaveIsRefused == Spec => []SentIsAccepted
<1>1. ConfirmedInv => SentIsAccepted
  BY DEF ConfirmedInv, SentInv, BodyInv, SentIsAccepted, Used
<1> QED BY <1>1, ConfirmedInvariant, PTL

(* A record the console saved opens again as a form without errors, and that *)
(* form sends it as it is: whoever wrote in between, with an object that     *)
(* arrived after the record or without.                                      *)
THEOREM SavesReadBack == Spec => []SavedReopens
<1>1. ConfirmedInv => SavedReopens
  BY DEF ConfirmedInv, KnownInv, RecordInv, Reopens, SavedReopens, again
<1> QED BY <1>1, ConfirmedInvariant, PTL
=============================================================================
