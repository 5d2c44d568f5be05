--------------------------- MODULE ConsoleFormsProofs ---------------------------
(***************************************************************************)
(* Proofs about a form at work, for every form, setting and number of      *)
(* submissions: its uploads and the ways out, whatever its controls, schema*)
(* and adapters are; what it has read, whether saving erases results that  *)
(* the record has by now, and where the errors of its schema show.         *)
(***************************************************************************)
EXTENDS ConsoleForms, SequenceTheorems, WellFoundedInduction, TLAPS

-----------------------------------------------------------------------------
(* The inductive invariant                                                  *)

States == {"none", "declared", "stored", "final", "replaced", "deleted"}
Owned == {NoObject, 0} \cup Submits

(* A submission asks for what is known, is over once it has saved, and what  *)
(* its user discarded is at most releasing what it uploaded.                 *)
SubmissionInv(sub) ==
  /\ DOMAIN sub = DOMAIN NoSubmission
  /\ sub.todo \in Seq(Stages)
  /\ sub.object \in Owned
  /\ sub.live \in BOOLEAN
  /\ sub.todo # <<>> => ~sub.saved
  /\ sub.unwanted => sub.todo \in {<<>>, <<"release">>}
SubmissionsInv ==
  /\ DOMAIN subs = Submits
  /\ \A s \in Submits : SubmissionInv(subs[s])

(* The object of the record is one there is, and so is the one the page knew.*)
ServerInv ==
  /\ objects \in [{0} \cup Submits -> States]
  /\ {"object", "values"} \subseteq DOMAIN server /\ server.object \in Owned
  /\ InstallerIntact

(* The exit is open only while a callback of the form's is waited for.  While*)
(* the user is asked whether to discard, only what releases is under way.    *)
ExitInv(p) ==
  /\ p.allowExit \in BOOLEAN
  /\ p.allowExit => p.callbacks # {}
  /\ p.callbacks \subseteq form.awaits
PageInv ==
  /\ {"open", "seen", "base", "draft", "dialog", "allowExit", "callbacks"} \subseteq DOMAIN page
  /\ "object" \in DOMAIN page.seen /\ page.seen.object \in Owned
  /\ ExitInv(page)
  /\ page.dialog = "discard" =>
       \A s \in Submits : subs[s].live /\ Running(s) => form.replaces /\ ~form.stays

FormInv ==
  /\ setting \in Settings
  /\ wire \subseteq Submits \X Stages
  /\ ServerInv
  /\ PageInv
  /\ SubmissionsInv
-----------------------------------------------------------------------------
(* What is read from the operators                                          *)

(* The steps of a save are known ones, and there is one at least.            *)
LEMMA Plans ==
  ASSUME setting \in Settings, NEW uploading
  PROVE  Plan(uploading) \in Seq(Stages) \ {<<>>}
<1>1. form.before \in Seq(Stages) /\ form.after \in Seq(Stages)
  <2>1. setting.form \in DOMAIN Forms
    BY FormsAssumption
  <2>2. /\ form.before \in Seq({"intent", "bytes", "finalize"})
        /\ form.after \in Seq({"intent", "bytes", "attach"})
    BY <2>1, FormsAssumption DEF form
  <2> QED BY <2>2 DEF Stages
<1>2. <<"write">> \in Seq(Stages)
  BY DEF Stages
<1>3. /\ form.before \o <<"write">> \in Seq(Stages)
      /\ form.before \o <<"write">> \o form.after \in Seq(Stages)
  BY <1>1, <1>2, ConcatProperties
<1>4. form.before \o <<"write">> # <<>>
  BY <1>1, <1>2, ConcatEqualIffEmpty
<1>5. form.before \o <<"write">> \o form.after # <<>>
  BY <1>1, <1>3, <1>4, ConcatEqualIffEmpty
<1> QED
  BY <1>2, <1>3, <1>5 DEF Plan

(* Nothing was submitted yet.                                                *)
LEMMA NotSubmitted == SubmissionInv(NoSubmission) /\ NoSubmission.todo = <<>>
BY DEF NoSubmission, SubmissionInv, Owned

(* Giving up leaves nothing to do but a release, for the same submission.    *)
LEMMA GivingUp ==
  ASSUME NEW sub, DOMAIN sub = DOMAIN NoSubmission, sub.object \in Owned,
         sub.live \in BOOLEAN, ~sub.saved
  PROVE  /\ SubmissionInv(GivenUp(sub))
         /\ GivenUp(sub).todo \in {<<>>, <<"release">>}
         /\ GivenUp(sub).live = sub.live
         /\ GivenUp(sub).unwanted = sub.unwanted
<1>1. <<"release">> \in Seq(Stages) /\ Head(<<"release">>) = "release" /\ <<>> \in Seq(Stages)
  BY DEF Stages
<1>2. {"todo", "reply", "live", "unwanted", "saved", "object"} \subseteq DOMAIN sub
  BY DEF NoSubmission
<1>3. /\ DOMAIN GivenUp(sub) = DOMAIN sub
      /\ GivenUp(sub).todo \in {<<>>, <<"release">>}
      /\ GivenUp(sub).live = sub.live
      /\ GivenUp(sub).unwanted = sub.unwanted
      /\ GivenUp(sub).saved = sub.saved
      /\ GivenUp(sub).object = sub.object
  BY <1>2 DEF GivenUp
<1> QED
  BY <1>1, <1>3 DEF SubmissionInv

(* What a submission asks for next is a known request.                       *)
LEMMA AsksKnown ==
  ASSUME NEW s \in Submits, NEW sub, sub.todo \in Seq(Stages)
  PROVE  Asking(s, sub) \subseteq Submits \X Stages
<1>1. CASE sub.todo = <<>>
  BY <1>1 DEF Asking
<1>2. CASE sub.todo # <<>>
  BY <1>2, HeadTailProperties DEF Asking
<1> QED BY <1>1, <1>2

(* The answer to a request is noted and nothing else.                        *)
LEMMA RepliesNoted ==
  ASSUME FormInv, NEW s \in Submits, NEW asks, NEW reply
  PROVE  /\ DOMAIN Replied(s, asks, reply) = Submits
         /\ \A t \in Submits : /\ SubmissionInv(Replied(s, asks, reply)[t])
                               /\ Replied(s, asks, reply)[t].todo = subs[t].todo
                               /\ Replied(s, asks, reply)[t].live = subs[t].live
                               /\ Replied(s, asks, reply)[t].saved = subs[t].saved
<1>1. SubmissionInv([subs[s] EXCEPT !.reply = reply]) 
  <2>1. {"todo", "reply", "live", "unwanted", "saved", "object"} \subseteq DOMAIN subs[s]
    BY DEF FormInv, SubmissionsInv, SubmissionInv, NoSubmission
  <2> DEFINE x == [subs[s] EXCEPT !.reply = reply]
  <2>2. /\ DOMAIN x = DOMAIN subs[s] /\ x.todo = subs[s].todo /\ x.live = subs[s].live
        /\ x.saved = subs[s].saved /\ x.unwanted = subs[s].unwanted /\ x.object = subs[s].object
    BY <2>1
  <2> HIDE DEF x
  <2>3. SubmissionInv(x)
    BY <2>2 DEF FormInv, SubmissionsInv, SubmissionInv
  <2> QED BY <2>3 DEF x
<1>2. /\ [subs[s] EXCEPT !.reply = reply].todo = subs[s].todo
      /\ [subs[s] EXCEPT !.reply = reply].live = subs[s].live
      /\ [subs[s] EXCEPT !.reply = reply].saved = subs[s].saved
  BY DEF FormInv, SubmissionsInv, SubmissionInv, NoSubmission
<1> QED
  BY <1>1, <1>2 DEF Replied, FormInv, SubmissionsInv

(* Whatever request is served, the objects keep their states and the record  *)
(* keeps, or takes, one that is not deleted.                                 *)
LEMMA ServedIntact ==
  ASSUME FormInv, NEW s \in Submits, NEW asks \in Stages
  PROVE  /\ Served(s, asks).objects \in [{0} \cup Submits -> States]
         /\ {"object", "values"} \subseteq DOMAIN Served(s, asks).server
         /\ Served(s, asks).server.object \in Owned
         /\ Served(s, asks).server.object # NoObject =>
              Served(s, asks).objects[Served(s, asks).server.object] # "deleted"
<1> DEFINE Good(x) == /\ x.objects \in [{0} \cup Submits -> States]
                      /\ {"object", "values"} \subseteq DOMAIN x.server
                      /\ x.server.object \in Owned
                      /\ x.server.object # NoObject => x.objects[x.server.object] # "deleted"
<1>0. /\ objects \in [{0} \cup Submits -> States]
      /\ {"object", "values"} \subseteq DOMAIN server /\ server.object \in Owned
      /\ server.object # NoObject => objects[server.object] # "deleted"
      /\ subs[s].object \in Owned
  BY DEF FormInv, ServerInv, InstallerIntact, SubmissionsInv, SubmissionInv
<1>1. \A from, to \in States : to # "deleted" => Good(Moved(s, from, to))
  BY <1>0 DEF Moved, Owned
<1>2. Good(Written(subs[s]))
  <2> DEFINE sub == subs[s]
             kept == [o \in DOMAIN objects |->
                        IF o = sub.object THEN "final"
                        ELSE IF form.replaces /\ o = server.object THEN "replaced"
                        ELSE objects[o]]
  <2>1. /\ Written(sub).objects \in {objects, kept}
        /\ Written(sub).objects = objects => Written(sub).server \in {server} \/ Written(sub).objects = kept
    BY DEF Written
  <2> QED BY <1>0, <2>1 DEF Written, Owned, States
<1>3. Good(Attached(s))
  BY <1>0 DEF Attached, Moved, Owned, States
<1>4. Good(Released(s))
  BY <1>0 DEF Released, Owned, States
<1> QED
  BY <1>1, <1>2, <1>3, <1>4 DEF Served, Stages, States
-----------------------------------------------------------------------------
(* Initially and after every step                                           *)

(* A page is mounted over the record as it is.                               *)
LEMMA MountedPage ==
  ASSUME NEW record, "object" \in DOMAIN record, record.object \in Owned
  PROVE  /\ {"open", "seen", "base", "draft", "dialog", "allowExit", "callbacks"}
              \subseteq DOMAIN Mounted(record)
         /\ Mounted(record).seen = record
         /\ ExitInv(Mounted(record))
         /\ Mounted(record).dialog = "none"
BY DEF Mounted, ExitInv

LEMMA FormInit == Init => FormInv
<1> SUFFICES ASSUME Init PROVE FormInv
  OBVIOUS
<1>1. ServerInv
  BY DEF Init, ServerInv, InstallerIntact, States, Owned, NoObject
<1>2. page = Mounted(server) /\ "object" \in DOMAIN server /\ server.object \in Owned
  BY <1>1 DEF Init, ServerInv
<1>3. PageInv
  BY <1>2, MountedPage DEF PageInv
<1>4. SubmissionsInv
  BY NotSubmitted DEF Init, SubmissionsInv
<1> QED
  BY <1>1, <1>3, <1>4 DEF Init, FormInv

(* What the user does to the page alone.                                     *)
LEMMA PageSteps ==
  ASSUME FormInv, UNCHANGED <<setting, server, objects, subs, wire>>, PageInv'
  PROVE  FormInv'
BY DEF FormInv, ServerInv, InstallerIntact, SubmissionsInv

LEMMA FormStep == FormInv /\ [Next]_vars => FormInv'
<1> SUFFICES ASSUME FormInv, [Next]_vars PROVE FormInv'
  OBVIOUS
<1>0. ServerInv /\ PageInv /\ SubmissionsInv /\ setting \in Settings /\ wire \subseteq Submits \X Stages
  BY DEF FormInv
<1>f. setting' = setting => form' = form
  BY DEF form
(* A page with no exit open for nobody and no question whether to discard.   *)
<1> DEFINE Calm(p) == /\ {"open", "seen", "base", "draft", "dialog", "allowExit", "callbacks"}
                            \subseteq DOMAIN p
                      /\ "object" \in DOMAIN p.seen /\ p.seen.object \in Owned
                      /\ ExitInv(p) /\ p.dialog # "discard"
<1>c. ASSUME setting' = setting, Calm(page') PROVE PageInv'
  BY <1>0, <1>c, <1>f DEF PageInv, ExitInv, Owned, Submits
(* A save that begins, its page as it was or with an attempt noted.          *)
<1>s. ASSUME NEW asked, Start(asked), UNCHANGED <<setting, server, objects>>, Calm(page')
      PROVE  FormInv'
  <2>1. PICK s \in Unused :
          LET body == Bodied(Uploading(form, page.draft))
              plan == Plan(Uploading(form, page.draft))
          IN /\ subs' = [subs EXCEPT ![s] =
                 [NoSubmission EXCEPT
                    !.todo = plan, !.body = body, !.draft = page.draft, !.live = TRUE, !.asked = asked,
                    !.read = page.seen.version, !.creates = page.seen.values = NoRecord,
                    !.uploading = Head(plan) # "write", !.offers = Offering(body),
                    !.object = IF Head(plan) # "write" THEN s
                               ELSE IF \E u \in form.uploads : body[u.object] = "object"
                               THEN page.seen.object ELSE NoObject]]
             /\ wire' = wire \cup {<<s, Head(plan)>>}
    BY <1>s DEF Start
  <2> DEFINE plan == Plan(Uploading(form, page.draft))
  <2>2. plan \in Seq(Stages) \ {<<>>}
    BY <1>0, Plans
  <2>3. Head(plan) \in Stages
    BY <2>2, HeadTailProperties
  <2>4. s \in Submits
    BY DEF Unused
  <2> HIDE DEF plan
  <2>5. SubmissionInv(subs'[s])
    <3>1. s \in Owned /\ page.seen.object \in Owned /\ NoObject \in Owned
      BY <1>0, <2>4 DEF Owned, PageInv
    <3> QED
      BY <1>0, <2>1, <2>2, <2>4, <3>1 DEF plan, SubmissionInv, SubmissionsInv, NoSubmission
  <2>6. SubmissionsInv'
    <3>1. DOMAIN subs' = Submits /\ \A t \in Submits : t # s => subs'[t] = subs[t]
      BY <1>0, <2>1 DEF SubmissionsInv
    <3> QED BY <1>0, <2>5, <3>1 DEF SubmissionsInv, Submits, SubmissionInv, Owned
  <2>7. wire' \subseteq Submits \X Stages
    BY <1>0, <2>1, <2>3, <2>4 DEF plan
  <2>8. PageInv'
    BY <1>c, <1>s
  <2> QED
    BY <1>0, <1>s, <2>6, <2>7, <2>8 DEF FormInv, ServerInv, InstallerIntact, Submits, Owned
(* A request is served or lost: the browser notes what it is told.           *)
<1>r. ASSUME NEW r \in wire, NEW reply, UNCHANGED <<setting, page>>,
             subs' = Replied(r[1], r[2], reply), wire' \subseteq wire, ServerInv'
      PROVE  FormInv'
  <2>1. r[1] \in Submits
    BY <1>0
  <2>2. SubmissionsInv'
    BY <1>r, <2>1, RepliesNoted DEF SubmissionsInv, Submits, SubmissionInv, Owned
  <2>3. PageInv'
    <3>1. \A t \in Submits : subs'[t].todo = subs[t].todo /\ subs'[t].live = subs[t].live
      BY <1>r, <2>1, RepliesNoted
    <3> QED BY <1>0, <1>r, <1>f, <3>1 DEF PageInv, ExitInv, Running, Owned, Submits
  <2> QED BY <1>0, <1>r, <2>2, <2>3 DEF FormInv, Submits, Stages
<1>1. ASSUME Fill PROVE FormInv'
  <2>1. Calm(page')
    BY <1>0, <1>1 DEF Fill, Quiet, PageInv, ExitInv
  <2> QED BY <1>1, <2>1, <1>c, PageSteps DEF Fill
<1>2. ASSUME SubmitInvalid PROVE FormInv'
  <2>1. Calm(page')
    BY <1>0, <1>2 DEF SubmitInvalid, Submitting, Quiet, PageInv, ExitInv
  <2> QED BY <1>2, <2>1, <1>c, PageSteps DEF SubmitInvalid
<1>3. ASSUME SubmitAsks PROVE FormInv'
  <2>1. Calm(page')
    BY <1>0, <1>3 DEF SubmitAsks, Submitting, Quiet, PageInv, ExitInv
  <2> QED BY <1>3, <2>1, <1>c, PageSteps DEF SubmitAsks
<1>4. ASSUME ConfirmReset PROVE FormInv'
  <2>1. Calm(page')
    BY <1>0, <1>4 DEF ConfirmReset, PageInv, ExitInv
  <2> QED BY <1>4, <2>1, <1>s DEF ConfirmReset
<1>5. ASSUME SubmitSaves PROVE FormInv'
  <2>1. Calm(page')
    BY <1>0, <1>5 DEF SubmitSaves, Submitting, Quiet, PageInv, ExitInv
  <2> QED BY <1>5, <2>1, <1>s DEF SubmitSaves
<1>6. ASSUME SubmitNothing PROVE FormInv'
  <2>1. Calm(page')
    BY <1>0, <1>6 DEF SubmitNothing, Submitting, Quiet, PageInv, ExitInv
  <2> QED BY <1>6, <2>1, <1>c, PageSteps DEF SubmitNothing
<1>7. ASSUME Serve PROVE FormInv'
  <2>1. PICK r \in wire :
          /\ server' = Served(r[1], r[2]).server /\ objects' = Served(r[1], r[2]).objects
          /\ wire' = wire \ {r}
          /\ subs' = Replied(r[1], r[2], IF Served(r[1], r[2]).ok THEN "ok" ELSE "failed")
          /\ UNCHANGED <<setting, page>>
    BY <1>7 DEF Serve
  <2>2. r[1] \in Submits /\ r[2] \in Stages
    BY <1>0
  <2>3. ServerInv'
    BY <2>1, <2>2, ServedIntact DEF ServerInv, InstallerIntact, Submits, Owned, States
  <2> QED BY <2>1, <2>3, <1>r
<1>8. ASSUME LoseRequest PROVE FormInv'
  <2>1. ServerInv'
    BY <1>0, <1>8 DEF LoseRequest, ServerInv, InstallerIntact, Submits, Owned
  <2> QED BY <1>8, <2>1, <1>r DEF LoseRequest
<1>9. ASSUME LoseAnswer PROVE FormInv'
  <2>1. PICK r \in wire :
          /\ server' = Served(r[1], r[2]).server /\ objects' = Served(r[1], r[2]).objects
          /\ wire' = wire \ {r} /\ subs' = Replied(r[1], r[2], "failed")
          /\ UNCHANGED <<setting, page>>
    BY <1>9 DEF LoseAnswer
  <2>2. r[1] \in Submits /\ r[2] \in Stages
    BY <1>0
  <2>3. ServerInv'
    BY <2>1, <2>2, ServedIntact DEF ServerInv, InstallerIntact, Submits, Owned, States
  <2> QED BY <2>1, <2>3, <1>r
<1>10. ASSUME OthersSave PROVE FormInv'
  <2>1. ServerInv'
    BY <1>0, <1>10 DEF OthersSave, ServerInv, InstallerIntact
  <2>2. PageInv'
    BY <1>0, <1>10, <1>f DEF OthersSave, PageInv, ExitInv, Running
  <2> QED BY <1>0, <1>10, <2>1, <2>2 DEF OthersSave, FormInv, SubmissionsInv
(* A submission goes on or ends, and the others are as they were.            *)
<1>t. ASSUME NEW s \in Submits, NEW sub, SubmissionInv(sub), subs' = [subs EXCEPT ![s] = sub],
             sub.live => subs[s].live /\ (sub.todo # <<>> => Running(s)),
             NEW more, more \subseteq Submits \X Stages, wire' = wire \cup more,
             UNCHANGED <<setting, server, objects>>,
             page' = page \/ Calm(page')
      PROVE  FormInv'
  <2>1. SubmissionsInv'
    BY <1>0, <1>t DEF SubmissionsInv, SubmissionInv, Submits, Owned
  <2>2. PageInv'
    <3>1. CASE Calm(page')
      BY <3>1, <1>c, <1>t
    <3>2. CASE page' = page
      BY <1>0, <1>t, <1>f, <3>2 DEF PageInv, ExitInv, SubmissionsInv, Running, Submits, Owned
    <3> QED BY <1>t, <3>1, <3>2
  <2> QED BY <1>0, <1>t, <2>1, <2>2 DEF FormInv, ServerInv, InstallerIntact, Submits, Owned, Stages
<1>11. ASSUME Advance PROVE FormInv'
  <2> DEFINE next(s) == [subs[s] EXCEPT
                           !.todo = Tail(subs[s].todo), !.reply = "none",
                           !.known = subs[s].known \/ Head(subs[s].todo) = "intent",
                           !.uploading = @ /\ Head(Tail(subs[s].todo)) # "write"]
  <2>1. PICK s \in Submits :
          /\ Running(s) /\ Len(subs[s].todo) > 1
          /\ subs' = [subs EXCEPT ![s] = next(s)]
          /\ wire' = wire \cup Asking(s, next(s))
          /\ UNCHANGED <<setting, server, objects, page>>
    BY <1>11 DEF Advance
  <2>2. /\ subs[s].todo \in Seq(Stages) /\ subs[s].todo # <<>>
        /\ Tail(subs[s].todo) \in Seq(Stages)
    BY <1>0, <2>1, HeadTailProperties DEF SubmissionsInv, SubmissionInv, Running
  <2>3. /\ next(s).todo = Tail(subs[s].todo) /\ next(s).live = subs[s].live
        /\ next(s).saved = subs[s].saved /\ next(s).unwanted = subs[s].unwanted
        /\ next(s).object = subs[s].object /\ DOMAIN next(s) = DOMAIN subs[s]
    BY <1>0, <2>1 DEF SubmissionsInv, SubmissionInv, NoSubmission
  <2> HIDE DEF next
  <2>4. SubmissionInv(next(s))
    <3>1. ~subs[s].unwanted
      <4>1. Len(<<"release">>) = 1
        OBVIOUS
      <4>2. subs[s].unwanted => subs[s].todo \in {<<>>, <<"release">>}
        BY <1>0 DEF SubmissionsInv, SubmissionInv
      <4>3. subs[s].todo # <<"release">>
        <5> SUFFICES ASSUME subs[s].todo = <<"release">> PROVE FALSE
          OBVIOUS
        <5>1. Len(subs[s].todo) = Len(<<"release">>)
          OBVIOUS
        <5>2. Len(subs[s].todo) > 1
          BY <2>1
        <5> QED BY <4>1, <5>1, <5>2
      <4> QED BY <2>2, <4>2, <4>3
    <3> QED BY <1>0, <2>1, <2>2, <2>3, <3>1 DEF SubmissionsInv, SubmissionInv, Running
  <2>5. Asking(s, next(s)) \subseteq Submits \X Stages
    BY <2>4, AsksKnown DEF SubmissionInv
  <2> QED BY <1>0, <1>t, <2>1, <2>3, <2>4, <2>5
<1>12. ASSUME Fail PROVE FormInv'
  <2>1. PICK s \in Submits :
          /\ Running(s)
          /\ subs' = [subs EXCEPT ![s] = GivenUp(subs[s])]
          /\ wire' = wire \cup Asking(s, GivenUp(subs[s]))
          /\ UNCHANGED <<setting, server, objects, page>>
    BY <1>12 DEF Fail
  <2>2. SubmissionInv(GivenUp(subs[s])) /\ GivenUp(subs[s]).live = subs[s].live
    BY <1>0, <2>1, GivingUp DEF SubmissionsInv, SubmissionInv, Running
  <2>3. Asking(s, GivenUp(subs[s])) \subseteq Submits \X Stages
    BY <2>2, AsksKnown DEF SubmissionInv
  <2> QED BY <1>t, <2>1, <2>2, <2>3
<1>e. ASSUME NEW s \in Submits
      PROVE  /\ SubmissionInv([subs[s] EXCEPT !.todo = <<>>, !.saved = TRUE, !.live = FALSE])
             /\ SubmissionInv([subs[s] EXCEPT !.todo = <<>>, !.live = FALSE])
             /\ ~[subs[s] EXCEPT !.todo = <<>>, !.saved = TRUE, !.live = FALSE].live
             /\ ~[subs[s] EXCEPT !.todo = <<>>, !.live = FALSE].live
  <2> DEFINE a == [subs[s] EXCEPT !.todo = <<>>, !.saved = TRUE, !.live = FALSE]
             b == [subs[s] EXCEPT !.todo = <<>>, !.live = FALSE]
  <2>1. /\ DOMAIN a = DOMAIN subs[s] /\ a.todo = <<>> /\ a.object = subs[s].object /\ a.live = FALSE
        /\ DOMAIN b = DOMAIN subs[s] /\ b.todo = <<>> /\ b.object = subs[s].object /\ b.live = FALSE
    BY <1>0 DEF SubmissionsInv, SubmissionInv, NoSubmission
  <2> HIDE DEF a, b
  <2>2. SubmissionInv(a) /\ SubmissionInv(b) /\ ~a.live /\ ~b.live
    <3>1. <<>> \in Seq(Stages)
      OBVIOUS
    <3> QED BY <1>0, <2>1, <3>1 DEF SubmissionsInv, SubmissionInv
  <2> QED BY <2>2 DEF a, b
<1>13. ASSUME Finish PROVE FormInv'
  <2>1. PICK s \in Submits, offered \in BOOLEAN :
          /\ page' = AfterSave(subs[s], offered)
          /\ subs' = [subs EXCEPT ![s].todo = <<>>, ![s].saved = TRUE, ![s].live = FALSE]
          /\ UNCHANGED <<setting, server, objects, wire>>
    BY <1>13 DEF Finish
  <2> DEFINE done == [subs[s] EXCEPT !.todo = <<>>, !.saved = TRUE, !.live = FALSE]
  <2>2. subs' = [subs EXCEPT ![s] = done]
    BY <1>0, <2>1 DEF SubmissionsInv
  <2>3. SubmissionInv(done) /\ ~done.live
    BY <1>e
  <2> HIDE DEF done
(* The page after it: left, asked whether to leave, or kept with its dialog, *)
(* of which "discard" still stands for the submissions that go on.           *)
  <2>4. /\ DOMAIN page' = DOMAIN page /\ page'.seen = page.seen /\ ExitInv(page')
        /\ page'.dialog = "discard" => page.dialog = "discard"
    BY <1>0, <2>1 DEF AfterSave, Left, PageInv, ExitInv
  <2>5. PageInv'
    <3>1. \A t \in Submits : subs'[t].live /\ subs'[t].todo # <<>> => subs[t].live /\ Running(t)
      BY <1>0, <2>2, <2>3 DEF SubmissionsInv, Running
    <3> QED BY <1>0, <2>1, <2>4, <1>f, <3>1 DEF PageInv, ExitInv, Running, Submits, Owned
  <2>6. SubmissionsInv'
    BY <1>0, <2>2, <2>3 DEF SubmissionsInv, SubmissionInv, Submits, Owned
  <2> QED BY <1>0, <2>1, <2>5, <2>6 DEF FormInv, ServerInv, InstallerIntact
<1>14. ASSUME EndRelease PROVE FormInv'
  <2>1. PICK s \in Submits :
          /\ subs' = [subs EXCEPT ![s].todo = <<>>, ![s].live = FALSE]
          /\ UNCHANGED <<setting, server, objects, page, wire>>
    BY <1>14 DEF EndRelease
  <2> DEFINE done == [subs[s] EXCEPT !.todo = <<>>, !.live = FALSE]
  <2>2. subs' = [subs EXCEPT ![s] = done]
    BY <1>0, <2>1 DEF SubmissionsInv
  <2>3. SubmissionInv(done) /\ ~done.live
    BY <1>e
  <2>4. done.todo = <<>>
    BY <1>0 DEF SubmissionsInv, SubmissionInv, NoSubmission
  <2> HIDE DEF done
  <2>5. wire' = wire \cup {}
    BY <2>1
  <2> QED BY <1>t, <2>1, <2>2, <2>3, <2>4, <2>5
(* The user discards: where that is at once, what is under way and can be    *)
(* cancelled is given up.                                                    *)
<1>a. ASSUME DiscardAtOnce(TRUE),
             \A s \in Submits : subs[s].live /\ Running(s) => form.replaces /\ ~form.stays
      PROVE  FormInv'
  <2> DEFINE noted(sub) == [sub EXCEPT !.unwanted = TRUE /\ sub.live /\ sub.todo # <<>>]
             gone(sub) == IF form.stays THEN sub ELSE [sub EXCEPT !.live = FALSE]
  <2>1. /\ subs' = [s \in Submits |-> gone(onCancel(noted(subs[s])))]
        /\ wire' = wire \cup UNION {Asking(s, subs'[s]) :
                                      s \in {s \in Submits : subs'[s].todo # subs[s].todo}}
        /\ page' = Discarded
        /\ UNCHANGED <<setting, server, objects>>
    BY <1>a DEF DiscardAtOnce
  <2>2. ASSUME NEW s \in Submits PROVE SubmissionInv(subs'[s])
    <3> DEFINE n == noted(subs[s])
               c == onCancel(n)
    <3>1. /\ DOMAIN n = DOMAIN subs[s] /\ n.todo = subs[s].todo /\ n.live = subs[s].live
          /\ n.saved = subs[s].saved /\ n.object = subs[s].object
          /\ n.unwanted = (subs[s].live /\ subs[s].todo # <<>>)
      BY <1>0 DEF SubmissionsInv, SubmissionInv, NoSubmission
    <3> HIDE DEF n
    <3>2. SubmissionInv(c)
      <4>1. CASE n.live /\ n.todo # <<>> /\ n.todo # <<"release">>
        <5>1. form.releases
          <6>1. form.replaces /\ ~form.stays
            BY <1>a, <3>1, <4>1 DEF Running
          <6>2. setting.form \in DOMAIN Forms
            BY <1>0, FormsAssumption
          <6> QED BY <6>1, <6>2, FormsAssumption DEF form
        <5>2. c = GivenUp(n)
          BY <4>1, <5>1 DEF onCancel
        <5>3. /\ DOMAIN n = DOMAIN NoSubmission /\ n.object \in Owned
              /\ n.live \in BOOLEAN /\ ~n.saved
          BY <1>0, <3>1, <4>1 DEF SubmissionsInv, SubmissionInv
        <5>4. SubmissionInv(GivenUp(n))
          BY <5>3, GivingUp
        <5> QED BY <5>2, <5>4
      <4>2. CASE ~(n.live /\ n.todo # <<>> /\ n.todo # <<"release">>)
        <5>1. c = n
          BY <4>2 DEF onCancel
        <5> QED BY <1>0, <3>1, <4>2, <5>1 DEF SubmissionsInv, SubmissionInv
      <4> QED BY <4>1, <4>2
    <3>3. subs'[s] = gone(c)
      BY <2>1 DEF n
    <3> HIDE DEF c
    <3>4. SubmissionInv([c EXCEPT !.live = FALSE])
      <4> DEFINE x == [c EXCEPT !.live = FALSE]
      <4>1. /\ DOMAIN x = DOMAIN c /\ x.todo = c.todo /\ x.live = FALSE /\ x.saved = c.saved
            /\ x.object = c.object /\ x.unwanted = c.unwanted
        BY <3>2 DEF SubmissionInv, NoSubmission
      <4> HIDE DEF x
      <4>2. SubmissionInv(x)
        BY <3>2, <4>1 DEF SubmissionInv
      <4> QED BY <4>2 DEF x
    <3> QED BY <3>2, <3>3, <3>4
  <2>3. SubmissionsInv'
    BY <2>1, <2>2 DEF SubmissionsInv, SubmissionInv, Submits, Owned
  <2>4. wire' \subseteq Submits \X Stages
    <3>1. \A s \in Submits : Asking(s, subs'[s]) \subseteq Submits \X Stages
      BY <2>2, AsksKnown DEF SubmissionInv
    <3>2. UNION {Asking(s, subs'[s]) : s \in {s \in Submits : subs'[s].todo # subs[s].todo}}
            \subseteq Submits \X Stages
      BY <3>1
    <3> QED BY <1>0, <2>1, <3>2
  <2>5. Calm(page')
    <3>1. CASE form.stays
      <4>1. Discarded = [Mounted(page.seen) EXCEPT !.tab = page.tab]
        BY <3>1 DEF Discarded
      <4> QED BY <1>0, <2>1, <4>1, MountedPage DEF PageInv, ExitInv
    <3>2. CASE ~form.stays
      BY <1>0, <2>1, <3>2 DEF PageInv, ExitInv, Left, Discarded
    <3> QED BY <3>1, <3>2
  <2> QED BY <1>0, <1>c, <2>1, <2>3, <2>4, <2>5
          DEF FormInv, ServerInv, InstallerIntact, Submits, Owned, Stages
(* Where it is waited for, and for Run Live, the exit opens.                 *)
<1>o. ASSUME NEW callback \in form.awaits, page' = runWithoutPrompt(callback),
             UNCHANGED <<setting, server, objects, subs, wire>>
      PROVE  FormInv'
  <2>1. Calm(page')
    BY <1>0, <1>o DEF PageInv, ExitInv, runWithoutPrompt
  <2> QED BY <1>o, <2>1, <1>c, PageSteps
<1>d. ASSUME Discard(TRUE),
             \A s \in Submits : subs[s].live /\ Running(s) => form.replaces /\ ~form.stays
      PROVE  FormInv'
  BY <1>a, <1>d, <1>o DEF Discard, DiscardAwaited
(* The page goes, or a new one is mounted, and what is under way goes on.    *)
<1>l. ASSUME subs' = Detached, UNCHANGED <<setting, server, objects, wire>>, Calm(page')
      PROVE  FormInv'
  <2>1. ASSUME NEW s \in Submits PROVE SubmissionInv([subs[s] EXCEPT !.live = FALSE])
    <3> DEFINE x == [subs[s] EXCEPT !.live = FALSE]
    <3>1. /\ DOMAIN x = DOMAIN subs[s] /\ x.todo = subs[s].todo /\ x.live = FALSE
          /\ x.saved = subs[s].saved /\ x.object = subs[s].object
          /\ x.unwanted = subs[s].unwanted
      BY <1>0 DEF SubmissionsInv, SubmissionInv, NoSubmission
    <3> HIDE DEF x
    <3>2. SubmissionInv(x)
      BY <1>0, <3>1 DEF SubmissionsInv, SubmissionInv
    <3> QED BY <3>2 DEF x
  <2>2. SubmissionsInv'
    BY <1>l, <2>1 DEF Detached, SubmissionsInv, SubmissionInv, Submits, Owned
  <2> QED BY <1>0, <1>c, <1>l, <2>2
          DEF FormInv, ServerInv, InstallerIntact, Submits, Owned, Stages
<1>15. ASSUME Cancel PROVE FormInv'
  <2>1. \A s \in Submits : subs[s].live /\ Running(s) => form.replaces /\ ~form.stays
    BY <1>15 DEF Cancel, CanCancel
  <2>2. CASE hasUnsavedChanges
    <3>1. /\ page' = [page EXCEPT !.dialog = "discard"]
          /\ UNCHANGED <<setting, server, objects, subs, wire>>
      BY <1>15, <2>2 DEF Cancel
    <3>2. PageInv'
      BY <1>0, <1>f, <2>1, <3>1 DEF PageInv, ExitInv, Running, Submits, Owned
    <3> QED BY <3>1, <3>2, PageSteps
  <2>3. CASE ~hasUnsavedChanges
    BY <1>15, <1>d, <2>1, <2>3 DEF Cancel
  <2> QED BY <2>2, <2>3
<1>16. ASSUME ConfirmDiscard PROVE FormInv'
  BY <1>0, <1>16, <1>d DEF ConfirmDiscard, PageInv
<1>17. ASSUME KeepEditing PROVE FormInv'
  <2>1. Calm(page')
    BY <1>0, <1>17 DEF KeepEditing, PageInv, ExitInv
  <2> QED BY <1>17, <2>1, <1>c, PageSteps DEF KeepEditing
<1>v. ASSUME Leave PROVE FormInv'
  <2>1. Calm(page')
    BY <1>0, <1>v DEF Leave, Left, PageInv, ExitInv
  <2> QED BY <1>v, <1>l, <2>1 DEF Leave
<1>18. ASSUME FollowLink PROVE FormInv'
  <2>1. CASE shouldBlockNavigation
    <3>1. /\ page' = [page EXCEPT !.dialog = "leave"]
          /\ UNCHANGED <<setting, server, objects, subs, wire>>
      BY <1>18, <2>1 DEF FollowLink
    <3>2. Calm(page')
      BY <1>0, <3>1 DEF PageInv, ExitInv
    <3> QED BY <3>1, <3>2, <1>c, PageSteps
  <2>2. CASE ~shouldBlockNavigation
    BY <1>18, <1>v, <2>2 DEF FollowLink
  <2> QED BY <2>1, <2>2
<1>19. ASSUME ConfirmLeave PROVE FormInv'
  BY <1>19, <1>v DEF ConfirmLeave
<1>20. ASSUME Undeploy PROVE FormInv'
  <2>1. /\ server' = [server EXCEPT !.values = NoRecord, !.version = @ + 1, !.own = FALSE,
                                    !.object = NoObject]
        /\ objects' = [objects EXCEPT ![server.object] = "replaced"]
        /\ UNCHANGED <<setting, page, subs, wire>>
    BY <1>20 DEF Undeploy
  <2>2. ServerInv'
    BY <1>0, <2>1 DEF ServerInv, InstallerIntact, States, Owned, Submits
  <2>3. PageInv'
    BY <1>0, <1>f, <2>1 DEF PageInv, ExitInv, Running, Submits, Owned
  <2> QED BY <1>0, <2>1, <2>2, <2>3 DEF FormInv, SubmissionsInv
<1>21. ASSUME Reopen PROVE FormInv'
  <2>1. Calm(page')
    BY <1>0, <1>21, MountedPage DEF Reopen, ServerInv
  <2> QED BY <1>21, <2>1, <1>c, PageSteps DEF Reopen
<1>22. ASSUME Refetch PROVE FormInv'
  <2>1. CASE form.keyed
    <3>1. page' = Mounted(server) /\ subs' = Detached /\ UNCHANGED <<setting, server, objects, wire>>
      BY <1>22, <2>1 DEF Refetch
    <3>2. Calm(page')
      BY <1>0, <3>1, MountedPage DEF ServerInv
    <3> QED BY <1>l, <3>1, <3>2
  <2>2. CASE ~form.keyed
    <3>1. /\ page' = [page EXCEPT !.seen = server, !.base = Mounted(server).base,
                                  !.draft = IF page.touched THEN @ ELSE Mounted(server).base]
          /\ UNCHANGED <<setting, server, objects, subs, wire>>
      BY <1>22, <2>2 DEF Refetch
(* What is asked meanwhile stays asked, about the same submissions.          *)
    <3>2. /\ DOMAIN page' = DOMAIN page /\ page'.seen = server
          /\ page'.allowExit = page.allowExit /\ page'.callbacks = page.callbacks
          /\ page'.dialog = page.dialog
      BY <1>0, <3>1 DEF PageInv
    <3>3. PageInv'
      BY <1>0, <1>f, <3>1, <3>2 DEF PageInv, ExitInv, ServerInv, Running, Submits, Owned
    <3> QED BY <3>1, <3>3, PageSteps
  <2> QED BY <2>1, <2>2
(* A callback ends: the exit is shut, whoever else waits.                    *)
<1>w. ASSUME NEW callback, page' = ranWithoutPrompt(callback),
             UNCHANGED <<setting, server, objects, subs, wire>>
      PROVE  FormInv'
  <2>1. PageInv'
    BY <1>0, <1>f, <1>w DEF PageInv, ExitInv, ranWithoutPrompt, Running, Submits, Owned
  <2> QED BY <1>w, <2>1, PageSteps
<1>24. ASSUME RunLive PROVE FormInv'
  <2>1. "live" \in form.awaits /\ UNCHANGED <<setting, server, objects, subs, wire>>
    BY <1>24 DEF RunLive
  <2>2. CASE page.draft["query"] = ""
    <3>1. Calm(page')
      BY <1>0, <1>24, <2>2 DEF RunLive, Quiet, PageInv, ExitInv
    <3> QED BY <2>1, <3>1, <1>c, PageSteps
  <2>3. CASE page.draft["query"] # ""
    <3>1. page' = runWithoutPrompt("live")
      BY <1>24, <2>3 DEF RunLive
    <3> QED BY <1>o, <2>1, <3>1
  <2> QED BY <2>2, <2>3
<1>25. ASSUME CallbackNavigates PROVE FormInv'
  <2>1. CASE shouldBlockNavigation
    <3>1. PICK callback \in page.callbacks :
            /\ page' = [ranWithoutPrompt(callback) EXCEPT !.dialog = "leave"]
            /\ UNCHANGED <<setting, server, objects, subs, wire>>
      BY <1>25, <2>1 DEF CallbackNavigates
    <3>2. Calm(page')
      BY <1>0, <3>1 DEF PageInv, ExitInv, ranWithoutPrompt
    <3> QED BY <3>1, <3>2, <1>c, PageSteps
  <2>2. CASE ~shouldBlockNavigation
    BY <1>25, <1>v, <2>2 DEF CallbackNavigates
  <2> QED BY <2>1, <2>2
<1>26. ASSUME CallbackOvertaken PROVE FormInv'
  BY <1>26, <1>w DEF CallbackOvertaken
<1>27. ASSUME AnswerOffer PROVE FormInv'
  <2>1. CASE shouldBlockNavigation
    <3>1. /\ page' = [page EXCEPT !.dialog = "leave"]
          /\ UNCHANGED <<setting, server, objects, subs, wire>>
      BY <1>27, <2>1 DEF AnswerOffer
    <3>2. Calm(page')
      BY <1>0, <3>1 DEF PageInv, ExitInv
    <3> QED BY <3>1, <3>2, <1>c, PageSteps
  <2>2. CASE ~shouldBlockNavigation
    BY <1>27, <1>v, <2>2 DEF AnswerOffer
  <2> QED BY <2>1, <2>2
<1>28. ASSUME DeleteUnreferenced PROVE FormInv'
  <2>1. PICK o \in DOMAIN objects :
          /\ objects' = [objects EXCEPT ![o] = IF server.object = o THEN "final" ELSE "deleted"]
          /\ UNCHANGED <<setting, server, page, subs, wire>>
    BY <1>28 DEF DeleteUnreferenced
  <2>2. ServerInv'
    BY <1>0, <2>1 DEF ServerInv, InstallerIntact, States, Owned, Submits
  <2>3. PageInv'
    BY <1>0, <1>f, <2>1 DEF PageInv, ExitInv, Running, Submits, Owned
  <2> QED BY <1>0, <2>1, <2>2, <2>3 DEF FormInv, SubmissionsInv
<1>23. ASSUME UNCHANGED vars PROVE FormInv'
  <2>1. PageInv'
    BY <1>0, <1>23, <1>f DEF vars, PageInv, ExitInv, Running, Submits, Owned
  <2> QED BY <1>23, <2>1, PageSteps DEF vars
<1> QED
  BY <1>1, <1>2, <1>3, <1>4, <1>5, <1>6, <1>7, <1>8, <1>9, <1>10, <1>11, <1>12, <1>13, <1>14,
     <1>15, <1>16, <1>17, <1>18, <1>19, <1>20, <1>21, <1>22, <1>23, <1>24, <1>25, <1>26, <1>27,
     <1>28 DEF Next

(* The invariant holds of every behaviour.                                   *)
LEMMA FormInvariant == Spec => []FormInv
BY FormInit, FormStep, PTL DEF Spec
-----------------------------------------------------------------------------
(* Theorems                                                                 *)

(* However saves, cancellations, releases and late requests fall together,   *)
(* the record is not left with an object that was deleted.                   *)
THEOREM InstallerStaysIntact == Spec => []InstallerIntact
<1>1. FormInv => InstallerIntact
  BY DEF FormInv, ServerInv
<1> QED
  BY <1>1, FormInvariant, PTL

(* A page with unsaved changes is left only when its user said so, by the end*)
(* of its own save, or while a way out that its user chose is waited for: the*)
(* exit is open for nobody else, however callbacks, links and saves that end *)
(* out of sight overtake each other.  A discard does not begin on such a page*)
(* but from its dialog.                                                      *)
THEOREM LeavingIsAsked == Spec => LeavesAsked
<1> DEFINE Asked ==
      page.open /\ page.draft # page.base =>
        /\ ~page'.open =>
             \/ page.dialog \in {"discard", "leave"}
             \/ page.callbacks # {}
             \/ \E s \in Submits : subs[s].live /\ ~subs[s].saved /\ subs'[s].saved
        /\ "discard" \in page'.callbacks \ page.callbacks => page.dialog = "discard"
<1>1. ASSUME FormInv, Next, page.open, page.draft # page.base, ~page'.open,
             page.dialog \notin {"discard", "leave"}, page.callbacks = {}
      PROVE  \E s \in Submits : subs[s].live /\ ~subs[s].saved /\ subs'[s].saved
  <2>1. PageInv /\ SubmissionsInv
    BY <1>1 DEF FormInv
(* Nothing is waited for, so the exit is shut.                               *)
  <2>2. hasUnsavedChanges /\ shouldBlockNavigation
    BY <1>1, <2>1 DEF PageInv, ExitInv, hasUnsavedChanges, shouldBlockNavigation
  <2>3. CASE Finish
    <3>1. PICK s \in Submits, offered \in BOOLEAN :
            /\ Running(s) /\ page' = AfterSave(subs[s], offered)
            /\ subs' = [subs EXCEPT ![s].todo = <<>>, ![s].saved = TRUE, ![s].live = FALSE]
      BY <2>3 DEF Finish
    <3>2. subs[s].live
      BY <1>1, <2>1, <2>2, <3>1 DEF AfterSave, PageInv
    <3>3. ~subs[s].saved /\ subs'[s].saved
      BY <2>1, <3>1 DEF SubmissionsInv, SubmissionInv, Running, NoSubmission
    <3> QED BY <3>2, <3>3
  <2>4. ASSUME page'.open = page.open PROVE FALSE
    BY <1>1, <2>4
  <2>5. CASE Fill \/ SubmitInvalid \/ SubmitAsks \/ ConfirmReset \/ SubmitSaves \/ SubmitNothing
    <3>1. page'.open = page.open
      BY <2>1, <2>5 DEF PageInv, Fill, SubmitInvalid, SubmitAsks, ConfirmReset, SubmitSaves,
                        SubmitNothing
    <3> QED BY <2>4, <3>1
  <2>6. CASE \/ Serve \/ LoseRequest \/ LoseAnswer \/ DeleteUnreferenced \/ OthersSave \/ Advance
             \/ Fail \/ EndRelease \/ Undeploy
    <3>1. page' = page
      BY <2>6 DEF Serve, LoseRequest, LoseAnswer, DeleteUnreferenced, OthersSave, Advance, Fail,
                  EndRelease, Undeploy
    <3> QED BY <2>4, <3>1
  <2>7. CASE Cancel \/ KeepEditing \/ FollowLink \/ RunLive \/ AnswerOffer
    <3>1. page'.open = page.open
      BY <2>1, <2>2, <2>7 DEF PageInv, Cancel, KeepEditing, FollowLink, RunLive, AnswerOffer,
                              runWithoutPrompt
    <3> QED BY <2>4, <3>1
  <2>8. CASE Reopen \/ Refetch
    <3>1. Mounted(server).open = TRUE
      BY DEF Mounted
    <3>2. page'.open = Mounted(server).open \/ page'.open = page.open
      BY <2>1, <2>8 DEF PageInv, Reopen, Refetch
    <3> QED BY <1>1, <2>4, <3>1, <3>2
  <2>9. CASE ConfirmDiscard \/ ConfirmLeave
    BY <1>1, <2>9 DEF ConfirmDiscard, ConfirmLeave
  <2>10. CASE CallbackNavigates \/ CallbackOvertaken
    BY <1>1, <2>10 DEF CallbackNavigates, CallbackOvertaken
  <2> QED BY <1>1, <2>3, <2>5, <2>6, <2>7, <2>8, <2>9, <2>10 DEF Next
<1>2. ASSUME FormInv, Next, page.draft # page.base, page.dialog # "discard",
             "discard" \in page'.callbacks
      PROVE  "discard" \in page.callbacks
  <2>1. PageInv
    BY <1>2 DEF FormInv
  <2>2. ASSUME page'.callbacks \subseteq page.callbacks PROVE "discard" \in page.callbacks
    BY <1>2, <2>2
  <2>3. CASE Fill \/ SubmitInvalid \/ SubmitAsks \/ ConfirmReset \/ SubmitSaves \/ SubmitNothing
    <3>1. page'.callbacks = page.callbacks
      BY <2>1, <2>3 DEF PageInv, Fill, SubmitInvalid, SubmitAsks, ConfirmReset, SubmitSaves,
                        SubmitNothing
    <3> QED BY <2>2, <3>1
  <2>4. CASE \/ Serve \/ LoseRequest \/ LoseAnswer \/ DeleteUnreferenced \/ OthersSave \/ Advance
             \/ Fail \/ EndRelease \/ Undeploy
    <3>1. page' = page
      BY <2>4 DEF Serve, LoseRequest, LoseAnswer, DeleteUnreferenced, OthersSave, Advance, Fail,
                  EndRelease, Undeploy
    <3> QED BY <2>2, <3>1
  <2>5. ASSUME Leave PROVE page'.callbacks = {}
    BY <2>1, <2>5 DEF Leave, Left, PageInv
  <2>6. CASE Finish
    <3>1. page'.callbacks \in {page.callbacks, {}}
      BY <2>1, <2>6 DEF Finish, AfterSave, Left, PageInv
    <3> QED BY <2>2, <3>1
  <2>7. CASE Cancel \/ KeepEditing \/ RunLive
    <3>1. page'.callbacks \subseteq page.callbacks \cup {"live"}
      BY <1>2, <2>1, <2>7 DEF PageInv, Cancel, KeepEditing, RunLive, runWithoutPrompt,
                              hasUnsavedChanges
    <3> QED BY <1>2, <3>1
  <2>8. CASE FollowLink \/ AnswerOffer \/ ConfirmLeave \/ CallbackNavigates \/ CallbackOvertaken
    <3>1. page'.callbacks \subseteq page.callbacks \/ Leave
      BY <2>1, <2>8 DEF PageInv, FollowLink, AnswerOffer, ConfirmLeave, CallbackNavigates,
                        CallbackOvertaken, ranWithoutPrompt
    <3> QED BY <2>2, <2>5, <3>1
  <2>9. CASE Reopen \/ Refetch
    <3>1. Mounted(server).callbacks = {}
      BY DEF Mounted
    <3>2. page'.callbacks \in {Mounted(server).callbacks, page.callbacks}
      BY <2>1, <2>9 DEF PageInv, Reopen, Refetch
    <3> QED BY <2>2, <3>1, <3>2
  <2> QED BY <1>2, <2>3, <2>4, <2>6, <2>7, <2>8, <2>9 DEF Next, ConfirmDiscard
<1>3. FormInv /\ [Next]_vars => [Asked]_vars
  <2> SUFFICES ASSUME FormInv, Next PROVE Asked
    OBVIOUS
  <2> QED BY <1>1, <1>2
<1>4. Spec => [][Asked]_vars
  BY <1>3, FormInvariant, PTL DEF Spec
<1> QED
  BY <1>4 DEF LeavesAsked

(* Once its user confirmed to discard a save, it does not begin to write the *)
(* record, whichever of its requests was under way and however it answers.   *)
THEOREM CancelledIsNotWritten == Spec => CancelMeansCancel
<1> DEFINE Kept ==
      \A s \in Submits :
        subs'[s].unwanted /\ ~(subs[s].todo # <<>> /\ Head(subs[s].todo) = "write") =>
          subs'[s].todo = <<>> \/ Head(subs'[s].todo) # "write"
<1>1. FormInv' => Kept
  <2> SUFFICES ASSUME FormInv', NEW s \in Submits, subs'[s].unwanted, subs'[s].todo # <<>>
               PROVE  Head(subs'[s].todo) # "write"
    OBVIOUS
  <2>1. subs'[s].todo = <<"release">>
    BY DEF FormInv, SubmissionsInv, SubmissionInv, Submits
  <2> QED BY <2>1
<1>2. Spec => [][Kept]_vars
  BY <1>1, FormInvariant, PTL DEF Spec
<1> QED
  BY <1>2 DEF CancelMeansCancel

-----------------------------------------------------------------------------
(* What a form has read: the fields of its values, what saving erases, and   *)
(* where errors show.  The inductive invariant.                              *)

Fields == DOMAIN form.start
HasFields(values) == values = NoRecord \/ DOMAIN values = Fields

(* Values have the fields of the form, wherever they are.                    *)
FieldsInv ==
  /\ DOMAIN page = DOMAIN Mounted(server)
  /\ DOMAIN page.draft = Fields /\ DOMAIN page.base = Fields
  /\ HasFields(page.seen.values)
  /\ HasFields(server.values)

(* The page has read an earlier version of the record, or the present one.   *)
ReadInv ==
  /\ DOMAIN server = {"values", "version", "own", "others", "object"}
  /\ DOMAIN page.seen = DOMAIN server
  /\ server.version \in Nat /\ page.seen.version \in Nat
  /\ page.seen.version <= server.version
  /\ page.seen.version = server.version => page.seen.values = server.values

(* A submission that goes on, or has a request under way although it ended.  *)
Busy(s) == Running(s) \/ \E asks \in Stages : <<s, asks>> \in wire

(* A save that did not ask, of the version the record still has, leaves what *)
(* results depend on as the record has it.                                   *)
SaveInv(sub) ==
  /\ DOMAIN sub.body = Fields /\ DOMAIN sub.draft = Fields
  /\ sub.read \in Nat /\ sub.read <= server.version
  /\ ~sub.asked /\ sub.read = server.version /\ server.values # NoRecord =>
       \A f \in form.asks : sub.body[f] = server.values[f]

SavesInv == \A s \in Submits : Busy(s) => SaveInv(subs[s])

(* What is shown and what is answered are among what there is.               *)
ShownInv ==
  /\ page.dialog \in {"none", "discard", "leave", "reset", "offer"}
  /\ form.tabs = <<>> \/ page.tab \in DOMAIN form.tabs
  /\ lost \subseteq Submits \X Stages
  /\ \A s \in Submits : subs[s].reply \in {"none", "ok", "failed"}

RecordsInv == FieldsInv /\ ReadInv /\ SavesInv /\ ShownInv

-----------------------------------------------------------------------------
(* What is read from the operators.                                          *)

PageFields == {"open", "seen", "base", "draft", "touched", "attempted", "tab", "dialog",
               "allowExit", "callbacks"}

LEMMA FormFields ==
  ASSUME setting \in Settings
  PROVE  /\ HasFields(setting.opened) /\ HasFields(setting.others)
         /\ form.asks \subseteq Fields \ form.secret
         /\ form.tabs \in Seq(SUBSET Fields)
         /\ \A u \in form.uploads : u.object # "none"
<1>1. setting.form \in DOMAIN Forms
  BY FormsAssumption
<1> QED BY <1>1, FormsAssumption DEF form, Fields, HasFields, NoRecord

LEMMA MountedFields ==
  ASSUME NEW record, HasFields(record.values)
  PROVE  /\ DOMAIN Mounted(record) = PageFields
         /\ DOMAIN Mounted(record).draft = Fields /\ DOMAIN Mounted(record).base = Fields
         /\ Mounted(record).seen = record
         /\ Mounted(record).tab = 1 /\ Mounted(record).dialog = "none"
BY DEF Mounted, HasFields, Fields, FormOf, Adapted, PageFields

(* The first tab with an error is a tab.                                     *)
LEMMA RevealedTab ==
  ASSUME setting \in Settings, NEW paths, NEW tab,
         form.tabs = <<>> \/ tab \in DOMAIN form.tabs
  PROVE  form.tabs = <<>> \/ Revealed(form, paths, tab) \in DOMAIN form.tabs
<1> DEFINE invalid == TabsWith(form, paths)
<1>1. form.tabs \in Seq(SUBSET Fields)
  BY FormFields
<1>2. invalid \subseteq DOMAIN form.tabs /\ invalid \subseteq Nat
  BY <1>1 DEF TabsWith
<1>3. CASE invalid = {}
  BY <1>3 DEF Revealed
<1>4. CASE invalid # {}
  <2>1. PICK n \in invalid : \A m \in invalid : ~(<<m, n>> \in OpToRel(<, Nat))
    BY <1>2, <1>4, NatLessThanWellFounded, WFMin
  <2>2. \A m \in invalid : ~(m < n)
    BY <1>2, <2>1, Zenon DEF OpToRel
  <2>3. \A m \in invalid : n <= m
    BY <1>2, <2>2
  <2> QED BY <1>2, <1>4, <2>3 DEF Revealed
<1> QED BY <1>3, <1>4

(* Whatever request is served, the record keeps to its fields, and is as it  *)
(* was or has a new version.                                                 *)
LEMMA ServedRecord ==
  ASSUME FormInv, RecordsInv, NEW s \in Submits, NEW asks \in Stages, <<s, asks>> \in wire
  PROVE  /\ DOMAIN Served(s, asks).server = DOMAIN server
         /\ HasFields(Served(s, asks).server.values)
         /\ \/ Served(s, asks).server = server
            \/ Served(s, asks).server.version = server.version + 1
<1> DEFINE Good(v) == /\ DOMAIN v = DOMAIN server
                      /\ HasFields(v.values)
                      /\ v = server \/ v.version = server.version + 1
<1>0. /\ DOMAIN server = {"values", "version", "own", "others", "object"}
      /\ HasFields(server.values) /\ setting \in Settings
      /\ DOMAIN subs[s].body = Fields
  BY DEF RecordsInv, FieldsInv, ReadInv, SavesInv, SaveInv, Busy, FormInv
<1>1. \A from, to : Good(Moved(s, from, to).server)
  BY <1>0 DEF Moved
<1>2. Good(Written(subs[s]).server)
  BY <1>0 DEF Written, HasFields
<1>3. Good(Attached(s).server)
  <2> DEFINE values == [f \in DOMAIN server.values |->
                          IF \E u \in form.uploads : u.object = f THEN "object"
                          ELSE server.values[f]]
  <2>1. HasFields(values)
    <3>1. CASE DOMAIN server.values = Fields
      BY <3>1 DEF HasFields
    <3>2. CASE server.values = NoRecord
      BY <1>0, <3>2, FormFields DEF HasFields, NoRecord
    <3> QED BY <1>0, <3>1, <3>2 DEF HasFields
  <2>2. CASE objects[s] # "stored"
    BY <1>0, <2>2 DEF Attached
  <2>3. CASE objects[s] = "stored"
    <3>1. Attached(s).server = [server EXCEPT !.version = @ + 1, !.object = s, !.own = TRUE,
                                               !.values = values]
      BY <2>3 DEF Attached
    <3> HIDE DEF values
    <3> QED BY <1>0, <2>1, <3>1
  <2> QED BY <2>2, <2>3
<1>4. Good(Released(s).server)
  BY <1>0 DEF Released
<1> QED BY <1>1, <1>2, <1>3, <1>4 DEF Served, Stages

-----------------------------------------------------------------------------
(* What a step does to the page, to the submissions and to the record.       *)

(* The page holds what it may, and has read what it had or the record as it  *)
(* is.                                                                       *)
PageOf(p) ==
  /\ DOMAIN p = PageFields
  /\ DOMAIN p.draft = Fields /\ DOMAIN p.base = Fields
  /\ p.dialog \in {"none", "discard", "leave", "reset", "offer"}
  /\ form.tabs = <<>> \/ p.tab \in DOMAIN form.tabs
  /\ p.seen = page.seen \/ p.seen = server

(* A submission that is busy was so before, with the same values.            *)
SameSave(s) ==
  /\ subs'[s].reply \in {"none", "ok", "failed"}
  /\ Busy(s)' => /\ Busy(s)
                 /\ subs'[s].body = subs[s].body /\ subs'[s].draft = subs[s].draft
                 /\ subs'[s].read = subs[s].read /\ subs'[s].asked = subs[s].asked

(* A save that begins here keeps to the record as it is.                     *)
NewSave(s) ==
  /\ subs'[s].reply = "none" /\ SaveInv(subs'[s])
  /\ server' = server

NewRecord ==
  /\ DOMAIN server' = DOMAIN server
  /\ HasFields(server'.values)
  /\ server'.version = server.version + 1

(* These are all it takes.                                                   *)
LEMMA RecordsKept ==
  ASSUME RecordsInv, setting' = setting, lost' \subseteq Submits \X Stages,
         PageOf(page'),
         \A s \in Submits : SameSave(s) \/ NewSave(s),
         \/ server' = server
         \/ NewRecord /\ page'.seen = page.seen
  PROVE  RecordsInv'
<1>1. Fields' = Fields /\ form' = form
  BY DEF Fields, form
<1>2. FieldsInv /\ ReadInv /\ SavesInv
  BY DEF RecordsInv
<1>3. HasFields(server.values) /\ HasFields(page.seen.values)
  BY <1>2 DEF FieldsInv
<1>4. FieldsInv'
  <2>1. HasFields(server'.values) /\ HasFields(page'.seen.values)
    BY <1>3 DEF NewRecord, PageOf
  <2>2. DOMAIN Mounted(server)' = PageFields
    BY DEF Mounted, PageFields
  <2> QED BY <1>1, <2>1, <2>2 DEF FieldsInv, PageOf, HasFields
<1>5. ReadInv'
  <2>1. CASE server' = server
    BY <1>2, <2>1 DEF ReadInv, PageOf
  <2>2. CASE NewRecord /\ page'.seen = page.seen
    BY <1>2, <2>2 DEF ReadInv, NewRecord
  <2> QED BY <2>1, <2>2
<1>6. SavesInv'
  <2>1. ASSUME NEW s \in Submits, NewSave(s)
        PROVE  SaveInv(subs[s])'
    BY <1>1, <2>1 DEF NewSave, SaveInv
  <2>2. ASSUME NEW s \in Submits, Busy(s)', SameSave(s)
        PROVE  SaveInv(subs[s])'
    <3>1. /\ subs'[s].body = subs[s].body /\ subs'[s].draft = subs[s].draft
          /\ subs'[s].read = subs[s].read /\ subs'[s].asked = subs[s].asked
      BY <2>2 DEF SameSave
    <3>2. server'.version \in Nat
      BY <1>5 DEF ReadInv
    <3>3. SaveInv(subs[s]) /\ (server' = server \/ subs[s].read < server'.version)
      BY <1>2, <2>2 DEF SavesInv, SameSave, NewRecord, ReadInv, SaveInv
    <3> QED BY <1>1, <3>1, <3>2, <3>3 DEF SaveInv
  <2> QED BY <2>1, <2>2 DEF SavesInv, Submits
<1>7. ShownInv'
  BY <1>1 DEF ShownInv, PageOf, SameSave, NewSave, Submits
<1> QED BY <1>4, <1>5, <1>6, <1>7 DEF RecordsInv

LEMMA RecordsInit == Init => RecordsInv
<1> SUFFICES ASSUME Init PROVE RecordsInv
  OBVIOUS
<1>1. HasFields(server.values) /\ page = Mounted(server)
  BY FormFields DEF Init
<1>2. FieldsInv
  BY <1>1, MountedFields DEF FieldsInv
<1>3. ReadInv
  BY <1>1, MountedFields DEF Init, ReadInv
<1>4. SavesInv
  BY DEF Init, SavesInv, Busy, Running, NoSubmission
<1>5. ShownInv
  <2>1. form.tabs = <<>> \/ 1 \in DOMAIN form.tabs
    BY FormFields DEF Init
  <2>2. lost = {} /\ \A s \in Submits : subs[s].reply = "none"
    BY DEF Init, NoSubmission
  <2> QED BY <1>1, <2>1, <2>2, MountedFields DEF ShownInv
<1> QED BY <1>2, <1>3, <1>4, <1>5 DEF RecordsInv

(* A save that begins is of what the page has read, and asks when it is to.  *)
LEMMA StartedSave ==
  ASSUME FormInv, RecordsInv, NEW asked, Start(asked), asked \/ ~ErasesResults,
         asked \in BOOLEAN, server' = server
  PROVE  \A s \in Submits : SameSave(s) \/ NewSave(s)
<1> DEFINE uploading == Uploading(form, page.draft)
           body == Bodied(uploading)
           plan == Plan(uploading)
<1>1. PICK s \in Unused :
        /\ subs' = [subs EXCEPT ![s] =
             [NoSubmission EXCEPT
                !.todo = plan, !.body = body, !.draft = page.draft, !.live = TRUE, !.asked = asked,
                !.read = page.seen.version, !.creates = page.seen.values = NoRecord,
                !.uploading = Head(plan) # "write", !.offers = Offering(body),
                !.object = IF Head(plan) # "write" THEN s
                           ELSE IF \E u \in form.uploads : body[u.object] = "object"
                           THEN page.seen.object ELSE NoObject]]
        /\ wire' = wire \cup {<<s, Head(plan)>>}
  BY DEF Start
<1>2. s \in Submits /\ DOMAIN subs = Submits
  BY DEF Unused, FormInv, SubmissionsInv
<1>3. /\ DOMAIN page.draft = Fields /\ HasFields(page.seen.values)
      /\ page.seen.version \in Nat /\ page.seen.version <= server.version
      /\ page.seen.version = server.version => page.seen.values = server.values
      /\ form.asks \subseteq Fields
  BY FormFields DEF RecordsInv, FieldsInv, ReadInv, FormInv
<1>4. DOMAIN body = Fields
  BY <1>3 DEF Bodied, Body, Adapted
<1>5. ASSUME ~asked, page.seen.values # NoRecord, NEW f \in form.asks
      PROVE  body[f] = page.seen.values[f]
  <2>1. Body(form, page.draft)[f] = page.seen.values[f]
    BY <1>5 DEF ErasesResults
  <2>2. f \in DOMAIN Body(form, page.draft)
    BY <1>3 DEF Body, Adapted
  <2> QED BY <1>5, <2>1, <2>2 DEF Bodied
<1> HIDE DEF body, plan
<1>6. /\ subs'[s].body = body /\ subs'[s].draft = page.draft /\ subs'[s].asked = asked
      /\ subs'[s].read = page.seen.version /\ subs'[s].reply = "none"
  BY <1>1, <1>2 DEF NoSubmission
<1>7. NewSave(s)
  BY <1>3, <1>4, <1>5, <1>6 DEF NewSave, SaveInv
<1>8. ASSUME NEW t \in Submits, t # s PROVE SameSave(t)
  <2>1. subs'[t] = subs[t] /\ \A asks : <<t, asks>> \in wire' => <<t, asks>> \in wire
    BY <1>1, <1>2, <1>8
  <2> QED BY <2>1 DEF SameSave, Busy, Running, RecordsInv, ShownInv
<1> QED BY <1>7, <1>8

(* What a submission's next request leaves of it.                            *)
LEMMA WentOn ==
  ASSUME FormInv, RecordsInv, NEW s \in Submits, NEW sub, Running(s),
         sub.reply \in {"none", "ok", "failed"},
         sub.body = subs[s].body, sub.draft = subs[s].draft,
         sub.read = subs[s].read, sub.asked = subs[s].asked,
         subs' = [subs EXCEPT ![s] = sub],
         wire' \subseteq wire \cup ({s} \X Stages)
  PROVE  \A t \in Submits : SameSave(t)
<1>1. DOMAIN subs = Submits /\ \A t \in Submits : subs[t].reply \in {"none", "ok", "failed"}
  BY DEF FormInv, SubmissionsInv, RecordsInv, ShownInv
<1>2. SameSave(s)
  BY <1>1 DEF SameSave, Busy
<1>3. ASSUME NEW t \in Submits, t # s PROVE SameSave(t)
  BY <1>1, <1>3 DEF SameSave, Busy, Running
<1> QED BY <1>2, <1>3

LEMMA RecordsStep == FormInv /\ RecordsInv /\ [Next]_vars => RecordsInv'
<1> SUFFICES ASSUME FormInv, RecordsInv, [Next]_vars PROVE RecordsInv'
  OBVIOUS
<1>0. /\ FieldsInv /\ ReadInv /\ SavesInv /\ ShownInv
      /\ setting \in Settings /\ wire \subseteq Submits \X Stages
      /\ DOMAIN subs = Submits /\ DOMAIN page = PageFields
      /\ HasFields(server.values) /\ HasFields(page.seen.values)
      /\ lost \subseteq Submits \X Stages
      /\ form.tabs = <<>> \/ 1 \in DOMAIN form.tabs
  BY MountedFields, FormFields DEF RecordsInv, FieldsInv, ShownInv, FormInv, SubmissionsInv
<1>p. PageOf(page) /\ PageOf(Mounted(server)) /\ PageOf(Mounted(page.seen))
  BY <1>0, MountedFields DEF PageOf, FieldsInv, ShownInv
<1>r. \A s \in Submits : subs[s].reply \in {"none", "ok", "failed"}
  BY <1>0 DEF ShownInv
<1>s. UNCHANGED <<subs, wire>> => \A s \in Submits : SameSave(s)
  BY <1>r DEF SameSave, Busy, Running
(* What the user does to the page.                                           *)
<1>1. CASE Fill
  <2>1. PICK draft : DOMAIN draft = Fields
                     /\ page' = [page EXCEPT !.draft = draft, !.touched = TRUE]
    BY <1>0, <1>1 DEF Fill, Change, FieldsInv
  <2>2. PageOf(page')
    BY <1>p, <2>1 DEF PageOf, PageFields
  <2> QED BY <1>0, <1>1, <1>s, <2>2, RecordsKept DEF Fill
<1>2. CASE SubmitInvalid
  <2>1. page' = [page EXCEPT !.attempted = TRUE,
                             !.tab = Revealed(form, Issues(form, page.draft), @)]
    BY <1>2 DEF SubmitInvalid
  <2>2. PageOf(page')
    BY <1>0, <1>p, <2>1, RevealedTab DEF PageOf, PageFields
  <2> QED BY <1>0, <1>2, <1>s, <2>2, RecordsKept DEF SubmitInvalid
<1>3. CASE SubmitAsks \/ SubmitNothing \/ KeepEditing
  <2>1. PageOf(page')
    BY <1>3, <1>p DEF SubmitAsks, SubmitNothing, KeepEditing, PageOf, PageFields
  <2> QED BY <1>0, <1>3, <1>s, <2>1, RecordsKept DEF SubmitAsks, SubmitNothing, KeepEditing
<1>4. CASE ConfirmReset
  <2>1. \A s \in Submits : SameSave(s) \/ NewSave(s)
    BY <1>4, StartedSave DEF ConfirmReset
  <2> QED BY <1>0, <1>4, <1>p, <2>1, RecordsKept DEF ConfirmReset
<1>5. CASE SubmitSaves
  <2>1. \A s \in Submits : SameSave(s) \/ NewSave(s)
    BY <1>5, StartedSave DEF SubmitSaves
  <2>2. PageOf(page')
    BY <1>5, <1>p DEF SubmitSaves, PageOf, PageFields
  <2> QED BY <1>0, <1>5, <2>1, <2>2, RecordsKept DEF SubmitSaves
(* A request is served or lost.                                              *)
<1>6. ASSUME NEW r \in wire, NEW reply \in {"ok", "failed"}, UNCHANGED <<setting, page>>,
             subs' = Replied(r[1], r[2], reply), wire' = wire \ {r},
             lost' \subseteq lost \cup {r},
             server' = server \/ server' = Served(r[1], r[2]).server
      PROVE  RecordsInv'
  <2>1. r[1] \in Submits /\ r[2] \in Stages /\ r = <<r[1], r[2]>>
    BY <1>0
  <2>2. ASSUME NEW s \in Submits PROVE SameSave(s)
    <3>1. /\ subs'[s].todo = subs[s].todo /\ subs'[s].body = subs[s].body
          /\ subs'[s].draft = subs[s].draft /\ subs'[s].read = subs[s].read
          /\ subs'[s].asked = subs[s].asked
          /\ subs'[s].reply \in {"none", "ok", "failed"}
      BY <1>0, <1>6, <1>r DEF Replied, FormInv, SubmissionsInv, SubmissionInv, NoSubmission
    <3> QED BY <1>6, <3>1 DEF SameSave, Busy, Running
  <2>3. server' = server \/ NewRecord
    BY <1>6, <2>1, ServedRecord DEF NewRecord
  <2>4. lost' \subseteq Submits \X Stages
    BY <1>0, <1>6
  <2> QED BY <1>0, <1>6, <1>p, <2>2, <2>3, <2>4, RecordsKept
<1>7. CASE Serve
  BY <1>6, <1>7 DEF Serve
<1>8. CASE LoseRequest
  BY <1>6, <1>8 DEF LoseRequest
<1>9. CASE LoseAnswer
  BY <1>6, <1>9 DEF LoseAnswer
(* Others write the record.                                                  *)
<1>10. CASE OthersSave \/ Undeploy
  <2>1. PICK values, object, own, others :
          /\ HasFields(values)
          /\ server' = [server EXCEPT !.values = values, !.version = @ + 1, !.own = own,
                                      !.others = others, !.object = object]
          /\ UNCHANGED <<setting, page, subs, wire, lost>>
    <3>1. CASE OthersSave
      <4>1. server' = [server EXCEPT !.values = setting.others, !.version = @ + 1, !.own = FALSE,
                                     !.others = TRUE, !.object = server.object]
        BY <1>0, <3>1 DEF OthersSave, ReadInv
      <4>2. HasFields(setting.others) /\ UNCHANGED <<setting, page, subs, wire, lost>>
        BY <1>0, <3>1, FormFields DEF OthersSave
      <4> QED BY <4>1, <4>2
    <3>2. CASE Undeploy
      <4>1. server' = [server EXCEPT !.values = NoRecord, !.version = @ + 1, !.own = FALSE,
                                     !.others = server.others, !.object = NoObject]
        BY <1>0, <3>2 DEF Undeploy, ReadInv
      <4> QED BY <3>2, <4>1 DEF Undeploy, HasFields
    <3> QED BY <1>10, <3>1, <3>2
  <2>2. NewRecord
    BY <1>0, <2>1 DEF NewRecord, ReadInv
  <2> QED BY <1>0, <1>p, <1>s, <2>1, <2>2, RecordsKept
(* A submission goes on.                                                     *)
<1>11. ASSUME NEW s \in Submits, NEW sub, Running(s), sub.todo \in Seq(Stages),
              sub.reply \in {"none", "ok", "failed"},
              sub.body = subs[s].body, sub.draft = subs[s].draft,
              sub.read = subs[s].read, sub.asked = subs[s].asked,
              subs' = [subs EXCEPT ![s] = sub],
              wire' = wire \/ wire' = wire \cup Asking(s, sub),
              PageOf(page'), UNCHANGED <<setting, server, lost>>
       PROVE  RecordsInv'
  <2>1. Asking(s, sub) \subseteq {s} \X Stages
    BY <1>11, AsksKnown DEF Asking
  <2>2. \A t \in Submits : SameSave(t)
    BY <1>11, <2>1, WentOn
  <2> QED BY <1>0, <1>11, <2>2, RecordsKept
<1>u. ASSUME NEW s \in Submits
      PROVE  /\ {"todo", "reply", "body", "draft", "read", "asked", "known", "live", "saved",
                 "unwanted"} \subseteq DOMAIN subs[s]
             /\ subs[s].todo \in Seq(Stages)
             /\ <<>> \in Seq(Stages) /\ <<"release">> \in Seq(Stages)
  BY DEF FormInv, SubmissionsInv, SubmissionInv, NoSubmission, Stages
<1>12. CASE Advance
  <2> DEFINE next(s) == [subs[s] EXCEPT
                           !.todo = Tail(subs[s].todo), !.reply = "none",
                           !.known = subs[s].known \/ Head(subs[s].todo) = "intent",
                           !.uploading = @ /\ Head(Tail(subs[s].todo)) # "write"]
  <2>1. PICK s \in Submits :
          /\ Running(s) /\ subs' = [subs EXCEPT ![s] = next(s)]
          /\ wire' = wire \cup Asking(s, next(s))
          /\ UNCHANGED <<setting, server, page, lost>>
    BY <1>12 DEF Advance
  <2>2. Tail(subs[s].todo) \in Seq(Stages)
    BY <1>u, <2>1, HeadTailProperties DEF Running
  <2>3. /\ next(s).todo = Tail(subs[s].todo) /\ next(s).reply = "none"
        /\ next(s).body = subs[s].body /\ next(s).draft = subs[s].draft
        /\ next(s).read = subs[s].read /\ next(s).asked = subs[s].asked
    BY <1>u
  <2> HIDE DEF next
  <2> QED BY <1>11, <1>p, <2>1, <2>2, <2>3
<1>g. ASSUME NEW s \in Submits
      PROVE  /\ GivenUp(subs[s]).todo \in Seq(Stages) /\ GivenUp(subs[s]).reply = "none"
             /\ GivenUp(subs[s]).body = subs[s].body /\ GivenUp(subs[s]).draft = subs[s].draft
             /\ GivenUp(subs[s]).read = subs[s].read /\ GivenUp(subs[s]).asked = subs[s].asked
  BY <1>u DEF GivenUp
<1>13. CASE Fail
  <2>1. PICK s \in Submits :
          /\ Running(s) /\ subs' = [subs EXCEPT ![s] = GivenUp(subs[s])]
          /\ wire' = wire \cup Asking(s, GivenUp(subs[s]))
          /\ UNCHANGED <<setting, server, page, lost>>
    BY <1>13 DEF Fail
  <2> QED BY <1>11, <1>g, <1>p, <2>1
<1>14. CASE Finish
  <2>1. PICK s \in Submits, offered \in BOOLEAN :
          /\ Running(s) /\ page' = AfterSave(subs[s], offered)
          /\ subs' = [subs EXCEPT ![s].todo = <<>>, ![s].saved = TRUE, ![s].live = FALSE]
          /\ UNCHANGED <<setting, server, wire, lost>>
    BY <1>14 DEF Finish
  <2> DEFINE done == [subs[s] EXCEPT !.todo = <<>>, !.saved = TRUE, !.live = FALSE]
  <2>2. subs' = [subs EXCEPT ![s] = done]
    BY <1>0, <2>1
  <2>3. /\ done.todo = <<>> /\ done.reply = subs[s].reply
        /\ done.body = subs[s].body /\ done.draft = subs[s].draft
        /\ done.read = subs[s].read /\ done.asked = subs[s].asked
    BY <1>u
  <2>4. PageOf(page')
    <3>1. DOMAIN subs[s].draft = Fields
      BY <1>0, <2>1 DEF SavesInv, SaveInv, Busy
    <3> QED BY <1>p, <2>1, <3>1 DEF AfterSave, Left, PageOf, PageFields
  <2> HIDE DEF done
  <2> QED BY <1>11, <1>r, <1>u, <2>1, <2>2, <2>3, <2>4
<1>15. CASE EndRelease
  <2>1. PICK s \in Submits :
          /\ Running(s)
          /\ subs' = [subs EXCEPT ![s].todo = <<>>, ![s].live = FALSE]
          /\ UNCHANGED <<setting, server, page, wire, lost>>
    BY <1>15 DEF EndRelease
  <2> DEFINE done == [subs[s] EXCEPT !.todo = <<>>, !.live = FALSE]
  <2>2. subs' = [subs EXCEPT ![s] = done]
    BY <1>0, <2>1
  <2>3. /\ done.todo = <<>> /\ done.reply = subs[s].reply
        /\ done.body = subs[s].body /\ done.draft = subs[s].draft
        /\ done.read = subs[s].read /\ done.asked = subs[s].asked
    BY <1>u
  <2> HIDE DEF done
  <2> QED BY <1>11, <1>p, <1>r, <1>u, <2>1, <2>2, <2>3
(* The page is left, or mounted anew, and what is under way goes on.         *)
<1>z. ASSUME DiscardAtOnce(TRUE) PROVE RecordsInv'
  <2> DEFINE noted(sub) == [sub EXCEPT !.unwanted = TRUE /\ sub.live /\ sub.todo # <<>>]
             gone(sub) == IF form.stays THEN sub ELSE [sub EXCEPT !.live = FALSE]
  <2>1. /\ subs' = [s \in Submits |-> gone(onCancel(noted(subs[s])))]
        /\ wire' = wire \cup UNION {Asking(s, subs'[s]) :
                                      s \in {s \in Submits : subs'[s].todo # subs[s].todo}}
        /\ page' = Discarded
        /\ UNCHANGED <<setting, server, lost>>
    BY <1>z DEF DiscardAtOnce
  <2>2. ASSUME NEW s \in Submits
        PROVE  /\ subs'[s].reply \in {"none", "ok", "failed"}
               /\ subs'[s].body = subs[s].body /\ subs'[s].draft = subs[s].draft
               /\ subs'[s].read = subs[s].read /\ subs'[s].asked = subs[s].asked
               /\ subs'[s].todo # <<>> => subs[s].todo # <<>>
               /\ subs'[s].todo # subs[s].todo => subs[s].todo # <<>>
    <3> DEFINE n == noted(subs[s])
               c == onCancel(n)
               Kept(sub) == /\ {"todo", "reply", "body", "draft", "read", "asked", "known", "live"}
                                  \subseteq DOMAIN sub
                            /\ sub.reply \in {"none", "ok", "failed"}
                            /\ sub.body = subs[s].body /\ sub.draft = subs[s].draft
                            /\ sub.read = subs[s].read /\ sub.asked = subs[s].asked
                            /\ sub.todo = subs[s].todo \/ subs[s].todo # <<>>
    <3>1. Kept(n) /\ n.todo = subs[s].todo
      BY <1>r, <1>u
    <3> HIDE DEF n
    <3>2. Kept(c)
      <4>1. n.todo # <<>> => Kept(GivenUp(n))
        BY <3>1 DEF GivenUp
      <4> QED BY <3>1, <4>1 DEF onCancel
    <3>3. subs'[s] = gone(c)
      BY <2>1 DEF n
    <3> HIDE DEF c
    <3> QED BY <3>2, <3>3
  <2>3. \A s \in Submits : SameSave(s)
    <3> SUFFICES ASSUME NEW s \in Submits, Busy(s)' PROVE Busy(s)
      BY <2>2 DEF SameSave
    <3>1. CASE Running(s)'
      BY <2>2, <3>1 DEF Busy, Running
    <3>2. ASSUME NEW asks \in Stages, <<s, asks>> \in wire', <<s, asks>> \notin wire
          PROVE  Running(s)
      <4>1. PICK t \in Submits : subs'[t].todo # subs[t].todo /\ <<s, asks>> \in Asking(t, subs'[t])
        BY <2>1, <3>2
      <4>2. t = s
        BY <4>1 DEF Asking
      <4> QED BY <2>2, <4>1, <4>2 DEF Running
    <3> QED BY <3>1, <3>2 DEF Busy
  <2>4. PageOf(page')
    BY <1>p, <2>1 DEF Left, Discarded, PageOf, PageFields
  <2> QED BY <1>0, <2>1, <2>3, <2>4, RecordsKept
(* A callback begins or ends, or the user looks for the query.               *)
<1>o. ASSUME UNCHANGED <<setting, server, subs, wire, lost>>,
             \/ \E callback : page' = runWithoutPrompt(callback) \/ page' = ranWithoutPrompt(callback)
             \/ \E callback : page' = [ranWithoutPrompt(callback) EXCEPT !.dialog = "leave"]
             \/ page' = [page EXCEPT !.tab = 1]
      PROVE  RecordsInv'
  <2>1. PageOf(page')
    BY <1>0, <1>o, <1>p DEF runWithoutPrompt, ranWithoutPrompt, PageOf, PageFields
  <2> QED BY <1>0, <1>o, <1>s, <2>1, RecordsKept
<1>16. ASSUME Discard(TRUE) PROVE RecordsInv'
  BY <1>16, <1>o, <1>z DEF Discard, DiscardAwaited
<1>d. wire' = wire /\ subs' = Detached => \A s \in Submits : SameSave(s)
  BY <1>r, <1>u DEF Detached, SameSave, Busy, Running
<1>17. ASSUME Leave PROVE RecordsInv'
  <2>1. PageOf(page')
    BY <1>p, <1>17 DEF Leave, Left, PageOf, PageFields
  <2> QED BY <1>0, <1>17, <1>d, <2>1, RecordsKept DEF Leave
<1>18. CASE Cancel \/ ConfirmDiscard \/ FollowLink \/ ConfirmLeave \/ AnswerOffer
  <2>1. \/ Discard(TRUE) \/ Leave
        \/ /\ \E dialog \in {"discard", "leave"} : page' = [page EXCEPT !.dialog = dialog]
           /\ UNCHANGED <<setting, server, subs, wire, lost>>
    BY <1>18 DEF Cancel, ConfirmDiscard, FollowLink, ConfirmLeave, AnswerOffer
  <2>2. ASSUME NEW dialog \in {"discard", "leave"}, page' = [page EXCEPT !.dialog = dialog]
        PROVE  PageOf(page')
    BY <1>p, <2>2 DEF PageOf, PageFields
  <2> QED BY <1>0, <1>16, <1>17, <1>s, <2>1, <2>2, RecordsKept
<1>19. CASE Reopen
  BY <1>0, <1>19, <1>p, <1>s, RecordsKept DEF Reopen
<1>20. CASE Refetch
  <2>1. CASE form.keyed
    BY <1>0, <1>20, <1>d, <1>p, <2>1, RecordsKept DEF Refetch
  <2>2. CASE ~form.keyed
    <3>1. PageOf(page')
      BY <1>20, <1>p, <2>2 DEF Refetch, PageOf, PageFields
    <3> QED BY <1>0, <1>20, <1>s, <2>2, <3>1, RecordsKept DEF Refetch
  <2> QED BY <2>1, <2>2
<1>22. CASE RunLive \/ CallbackNavigates \/ CallbackOvertaken
  BY <1>17, <1>22, <1>o DEF RunLive, CallbackNavigates, CallbackOvertaken
<1>21. CASE DeleteUnreferenced \/ UNCHANGED vars
  BY <1>0, <1>21, <1>p, <1>s, RecordsKept DEF DeleteUnreferenced, vars
<1> QED
  BY <1>1, <1>2, <1>3, <1>4, <1>5, <1>7, <1>8, <1>9, <1>10, <1>12, <1>13, <1>14, <1>15, <1>18,
     <1>19, <1>20, <1>21, <1>22 DEF Next

(* The invariant holds of every behaviour.                                   *)
LEMMA RecordsInvariant == Spec => []RecordsInv
BY RecordsInit, RecordsStep, FormInvariant, PTL DEF Spec
-----------------------------------------------------------------------------
(* Theorems.                                                                 *)

(* A form, its record and its submissions keep to the fields of the form, to *)
(* its tabs and to the requests there are, whoever writes the record.        *)
THEOREM FormsTypeCorrect == Spec => []TypeOK
<1>1. FormInv /\ RecordsInv => TypeOK
  <2> SUFFICES ASSUME FormInv, RecordsInv PROVE TypeOK
    OBVIOUS
  <2>1. /\ DOMAIN page.draft = DOMAIN form.start /\ DOMAIN page.base = DOMAIN form.start
        /\ server.values = NoRecord \/ DOMAIN server.values = DOMAIN form.start
    BY DEF RecordsInv, FieldsInv, HasFields, Fields
  <2>2. \A s \in Submits : {subs[s].todo[n] : n \in DOMAIN subs[s].todo} \subseteq Stages
    <3>1. \A s \in Submits : subs[s].todo \in Seq(Stages)
      BY DEF FormInv, SubmissionsInv, SubmissionInv
    <3> QED BY <3>1
  <2>3. /\ server.object \in {NoObject, 0} \cup Submits
        /\ objects \in [{0} \cup Submits -> {"none", "declared", "stored", "final", "replaced", "deleted"}]
        /\ wire \subseteq Submits \X Stages /\ page.callbacks \subseteq form.awaits
    BY DEF FormInv, ServerInv, PageInv, ExitInv, Owned, States
  <2> QED BY <2>1, <2>2, <2>3 DEF TypeOK, RecordsInv, ShownInv
<1> QED BY <1>1, FormInvariant, RecordsInvariant, PTL

(* A step that takes a request off the wire serves it, or leaves the record  *)
(* alone.                                                                    *)
LEMMA TakenOffTheWire ==
  ASSUME [Next]_vars, NEW r \in wire \ wire'
  PROVE  server' = server \/ server' = Served(r[1], r[2]).server
<1>1. CASE Serve \/ LoseAnswer
  BY <1>1 DEF Serve, LoseAnswer
<1>2. CASE LoseRequest
  BY <1>2 DEF LoseRequest
<1>3. wire' = wire \/ wire \subseteq wire' => FALSE
  OBVIOUS
<1>4. ASSUME NEW unwanted PROVE ~Discard(unwanted)
  BY <1>3 DEF Discard, DiscardAwaited, DiscardAtOnce
<1>5. ~Leave /\ \A asked : ~Start(asked)
  BY <1>3 DEF Leave, Start
<1>6. ~UNCHANGED vars
  BY <1>3 DEF vars
<1>7. ~(Fill \/ SubmitInvalid \/ SubmitAsks \/ ConfirmReset \/ SubmitSaves \/ SubmitNothing)
  BY <1>3, <1>5 DEF Fill, SubmitInvalid, SubmitAsks, ConfirmReset, SubmitSaves, SubmitNothing
<1>8. ~(DeleteUnreferenced \/ OthersSave \/ Advance \/ Fail \/ Finish \/ EndRelease)
  BY <1>3 DEF DeleteUnreferenced, OthersSave, Advance, Fail, Finish, EndRelease
<1>9. ~(Cancel \/ ConfirmDiscard \/ KeepEditing \/ FollowLink \/ ConfirmLeave)
  BY <1>3, <1>4, <1>5 DEF Cancel, ConfirmDiscard, KeepEditing, FollowLink, ConfirmLeave
<1>10. ~(Undeploy \/ Reopen \/ Refetch)
  BY <1>3 DEF Undeploy, Reopen, Refetch
<1>11. ~(RunLive \/ CallbackNavigates \/ CallbackOvertaken \/ AnswerOffer)
  BY <1>3, <1>5 DEF RunLive, CallbackNavigates, CallbackOvertaken, AnswerOffer
<1> QED BY <1>1, <1>2, <1>6, <1>7, <1>8, <1>9, <1>10, <1>11 DEF Next

(* A save that erases results was confirmed in the dialog, or overwrites what*)
(* somebody changed since it was read: however the draft changes under the   *)
(* dialog, the page reads anew and the requests are delayed.                 *)
THEOREM ErasingIsConfirmed == Spec => ResetConsent
<1> DEFINE Consent ==
      \A r \in wire \ wire' :
        LET changed == {f \in form.asks : server.values # NoRecord
                                         /\ server'.values[f] # server.values[f]}
        IN r[2] = "write" /\ changed # {} =>
             subs[r[1]].asked \/ subs[r[1]].read # server.version
<1>1. ASSUME FormInv, RecordsInv, [Next]_vars PROVE Consent
  <2> SUFFICES ASSUME NEW r \in wire \ wire', r[2] = "write",
                      NEW f \in form.asks, server.values # NoRecord,
                      ~subs[r[1]].asked, subs[r[1]].read = server.version
               PROVE  server'.values[f] = server.values[f]
    OBVIOUS
  <2> DEFINE sub == subs[r[1]]
  <2>1. r[1] \in Submits /\ r[2] \in Stages /\ <<r[1], r[2]>> \in wire
    BY <1>1 DEF FormInv
  <2>2. SaveInv(sub)
    BY <1>1, <2>1 DEF RecordsInv, SavesInv, Busy
  <2>3. DOMAIN sub.body = Fields /\ sub.body[f] = server.values[f]
    BY <2>2 DEF SaveInv
  <2>4. f \in Fields /\ f \notin form.secret
    BY <1>1, FormFields DEF FormInv
  <2>5. server' = server \/ server' = Written(sub).server
    BY <1>1, TakenOffTheWire DEF Served
  <2>6. {"values"} \subseteq DOMAIN server
    BY <1>1 DEF RecordsInv, ReadInv
  <2> HIDE DEF sub
  <2>7. ASSUME server' = Written(sub).server, server' # server
        PROVE  server'.values = [g \in DOMAIN sub.body |->
                                   IF g \in form.secret THEN "" ELSE sub.body[g]]
    BY <2>6, <2>7 DEF Written
  <2>8. CASE server' = server
    BY <2>8
  <2>9. CASE server' = Written(sub).server /\ server' # server
    BY <2>3, <2>4, <2>7, <2>9
  <2> QED BY <2>5, <2>8, <2>9
<1>2. FormInv /\ RecordsInv /\ [Next]_vars => [Consent]_vars
  BY <1>1
<1>3. Spec => [][Consent]_vars
  BY <1>2, FormInvariant, RecordsInvariant, PTL DEF Spec
<1> QED BY <1>3 DEF ResetConsent
-----------------------------------------------------------------------------
(* Where errors show.                                                      *)

(* Values that open without an error out of sight: an empty form's, or those *)
(* of a record.                                                              *)
Opens(values) ==
  IF values = NoRecord THEN Surfaced(form, form.start)
  ELSE \A i \in Unseen(form) : ~Holds(i.when, FormOf(form, values))

(* No error is out of sight in what the user sees, has read or has submitted,*)
(* or in what a newer record would bring.                                    *)
SurfacedInv ==
  /\ Surfaced(form, page.draft)
  /\ Opens(page.seen.values) /\ Opens(server.values)
  /\ \A s \in Submits : Running(s) => Surfaced(form, subs[s].draft)

LEMMA FormErrors ==
  ASSUME setting \in Settings
  PROVE  /\ \A r \in form.issues \cup form.controls \cup form.reopens :
              \A y \in r.when : y[1] \in Fields
         /\ \A i \in form.issues : \/ i.path \in form.silent \/ form.tabs = <<>>
                                   \/ \E k \in DOMAIN form.tabs : i.path \in form.tabs[k]
         /\ \A i \in Unseen(form) :
              /\ KeptOut(form, i)
              /\ \A c \in form.controls : \A x \in c.offers : Tolerates(form, c, x, i)
         /\ setting.opened = NoRecord \/ form.stays => Surfaced(form, form.start)
         /\ Opens(setting.opened)
         /\ setting.others # NoRecord => Opens(setting.others)
<1>1. setting.form \in DOMAIN Forms
  BY FormsAssumption
<1>2. \A record \in {setting.opened, setting.others} \ {NoRecord} : \A i \in Unseen(form) :
        ~Holds(i.when, FormOf(form, record))
  BY ErrorsAssumption DEF form, NoRecord
<1>3. setting.opened = NoRecord \/ form.stays => Surfaced(form, form.start)
  BY ErrorsAssumption DEF form, NoRecord
<1>4. Opens(setting.opened) /\ (setting.others # NoRecord => Opens(setting.others))
  BY <1>2, <1>3 DEF Opens
<1> QED BY <1>1, <1>3, <1>4, ErrorsAssumption DEF form, Fields

LEMMA ImpliedHolds ==
  ASSUME NEW when, NEW other, NEW values, Implies(when, other), Holds(when, values)
  PROVE  Holds(other, values)
BY DEF Implies, Holds

(* Only the errors that no control shows for certain are left to look at.    *)
LEMMA UnseenSurfaced ==
  ASSUME NEW values,
         \A i \in Unseen(form) : ~Holds(i.when, values) \/ i.path \in Shown(form, values)
  PROVE  Surfaced(form, values)
<1> SUFFICES ASSUME NEW i \in form.issues, i.path \notin form.silent, Holds(i.when, values),
                    i \notin Unseen(form)
             PROVE  i.path \in Shown(form, values)
  BY DEF Surfaced
<1>1. PICK d \in form.controls : d.path = i.path /\ Implies(i.when, d.when)
  BY DEF Unseen
<1>2. Holds(d.when, values)
  BY <1>1, ImpliedHolds
<1> QED BY <1>1, <1>2 DEF Shown

LEMMA MountedSurfaced ==
  ASSUME NEW record, Opens(record.values)
  PROVE  Surfaced(form, Mounted(record).draft)
<1>1. CASE record.values = NoRecord
  BY <1>1 DEF Opens, Mounted
<1>2. CASE record.values # NoRecord
  <2>1. Surfaced(form, FormOf(form, record.values))
    BY <1>2, UnseenSurfaced DEF Opens
  <2> QED BY <1>2, <2>1 DEF Mounted
<1> QED BY <1>1, <1>2

(* A choice makes of a field what it sets it to, or leaves it alone.         *)
LEMMA ChangedField ==
  ASSUME NEW c, NEW x, NEW values, NEW f \in DOMAIN values
  PROVE  IF SetTo(c, x, f) = {} THEN Change(c, x, values)[f] = values[f]
         ELSE Change(c, x, values)[f] \in SetTo(c, x, f)
<1> DEFINE also == {e \in c.also : e[1] = x /\ e[2] = f}
<1>1. CASE f = c.path
  BY <1>1 DEF SetTo, Change
<1>2. CASE f # c.path /\ also = {}
  BY <1>2 DEF SetTo, Change
<1>3. CASE f # c.path /\ also # {}
  <2>1. Change(c, x, values)[f] = (CHOOSE e \in also : TRUE)[3]
    BY <1>3 DEF Change
  <2>2. (CHOOSE e \in also : TRUE) \in also
    BY <1>3
  <2>3. SetTo(c, x, f) = {e[3] : e \in also}
    BY <1>3 DEF SetTo
  <2> HIDE DEF also
  <2> QED BY <2>1, <2>2, <2>3
<1> QED BY <1>1, <1>2, <1>3

(* No choice in a control that shows brings an error about out of sight.     *)
LEMMA ChangeSurfaced ==
  ASSUME setting \in Settings, NEW values, DOMAIN values = Fields, Surfaced(form, values),
         NEW c \in Usable(form, values), NEW x \in c.offers
  PROVE  Surfaced(form, Change(c, x, values))
<1> DEFINE new == Change(c, x, values)
<1>1. c \in form.controls /\ Holds(c.when, values)
  BY DEF Usable
<1>2. SUFFICES ASSUME NEW i \in Unseen(form), Holds(i.when, new)
               PROVE  i.path \in Shown(form, new)
  BY UnseenSurfaced
<1>3. i \in form.issues /\ i.path \notin form.silent /\ Tolerates(form, c, x, i)
  BY <1>1, FormErrors DEF Unseen
<1>4. \A j \in form.issues \cup form.controls : \A y \in j.when : y[1] \in DOMAIN values
  BY FormErrors
<1>5. ASSUME NEW d \in form.controls, d.path = i.path, Holds(d.when, new)
      PROVE  i.path \in Shown(form, new)
  BY <1>5 DEF Shown
<1>6. ASSUME NEW y \in i.when, RulesOut(c, x, y[1], y[2])
      PROVE  FALSE
  <2>1. new[y[1]] \in y[2] /\ y[1] \in DOMAIN values
    BY <1>2, <1>3, <1>4 DEF Holds
  <2>2. CASE SetTo(c, x, y[1]) # {}
    BY <1>6, <2>1, <2>2, ChangedField DEF RulesOut
  <2>3. CASE SetTo(c, x, y[1]) = {}
    <3>1. new[y[1]] = values[y[1]]
      BY <2>1, <2>3, ChangedField
    <3> QED BY <1>1, <1>6, <2>1, <2>3, <3>1 DEF RulesOut, Holds
  <2> QED BY <2>2, <2>3
<1>7. ASSUME NEW d \in form.controls, d.path = i.path,
             \A y \in d.when : MakesSure(c, x, y[1], y[2])
      PROVE  Holds(d.when, new)
  <2> SUFFICES ASSUME NEW y \in d.when PROVE new[y[1]] \in y[2]
    BY DEF Holds
  <2>1. y[1] \in DOMAIN values
    BY <1>4
  <2>2. CASE SetTo(c, x, y[1]) # {}
    BY <1>7, <2>1, <2>2, ChangedField DEF MakesSure
  <2>3. CASE SetTo(c, x, y[1]) = {}
    <3>1. new[y[1]] = values[y[1]]
      BY <2>1, <2>3, ChangedField
    <3>2. Implies(c.when, {<<y[1], y[2]>>})
      BY <1>7, <2>3 DEF MakesSure
    <3>3. Holds({<<y[1], y[2]>>}, values)
      BY <1>1, <3>2, ImpliedHolds
    <3> QED BY <3>1, <3>3 DEF Holds
  <2> QED BY <2>2, <2>3
<1>8. ASSUME \A y \in i.when : SetTo(c, x, y[1]) = {},
             \A d \in form.controls :
               d.path = i.path => \A y \in d.when : SetTo(c, x, y[1]) \subseteq y[2]
      PROVE  i.path \in Shown(form, new)
  <2>1. Holds(i.when, values)
    <3> SUFFICES ASSUME NEW y \in i.when PROVE values[y[1]] \in y[2]
      BY DEF Holds
    <3>1. y[1] \in DOMAIN values
      BY <1>3, <1>4
    <3> QED BY <1>2, <1>8, <3>1, ChangedField DEF Holds
  <2>2. PICK d \in form.controls : d.path = i.path /\ Holds(d.when, values)
    BY <1>3, <2>1 DEF Surfaced, Shown
  <2>3. Holds(d.when, new)
    <3> SUFFICES ASSUME NEW y \in d.when PROVE new[y[1]] \in y[2]
      BY DEF Holds
    <3>1. y[1] \in DOMAIN values /\ values[y[1]] \in y[2] /\ SetTo(c, x, y[1]) \subseteq y[2]
      BY <1>4, <1>8, <2>2 DEF Holds
    <3> QED BY <3>1, ChangedField
  <2> QED BY <1>5, <2>2, <2>3
<1> HIDE DEF new
<1> QED BY <1>3, <1>5, <1>6, <1>7, <1>8 DEF Tolerates

(* A record that is written anew opens as it is to: what the rule takes is   *)
(* blanked when it is read back, or the server would have refused it.        *)
LEMMA WrittenOpens ==
  ASSUME setting \in Settings, NEW sub, DOMAIN sub.body = Fields, Opens(server.values),
         "values" \in DOMAIN server
  PROVE  Opens(Written(sub).server.values)
<1> DEFINE values == [f \in DOMAIN sub.body |-> IF f \in form.secret THEN "" ELSE sub.body[f]]
           record == FormOf(form, values)
<1>1. \/ Written(sub).server = server
      \/ Accepts(form, sub.body) /\ Written(sub).server.values = values
  <2>1. \/ Written(sub).server = server
        \/ /\ Accepts(form, sub.body)
           /\ Written(sub).server = [server EXCEPT !.version = @ + 1, !.own = TRUE,
                                                   !.object = sub.object, !.values = values]
    BY DEF Written
  <2> HIDE DEF values
  <2> QED BY <2>1
<1>2. ASSUME Accepts(form, sub.body), NEW i \in Unseen(form), Holds(i.when, record)
      PROVE  FALSE
  <2>1. KeptOut(form, i) /\ \A y \in i.when : y[1] \in Fields
    BY FormErrors DEF Unseen
  <2>2. \A y \in i.when : record[y[1]] \in y[2]
    BY <1>2 DEF Holds
  <2>3. ASSUME NEW y \in i.when, y[1] \in form.secret, "" \notin y[2],
               \A c \in form.reopens : c.field = y[1] => c.to \notin y[2]
        PROVE  FALSE
    <3> DEFINE due == {c \in form.reopens : c.field = y[1] /\ Holds(c.when, values)}
    <3>1. values[y[1]] = "" /\ y[1] \in DOMAIN values
      BY <2>1, <2>3
    <3>2. record[y[1]] = IF due = {} THEN values[y[1]] ELSE (CHOOSE c \in due : TRUE).to
      BY <3>1 DEF FormOf, Adapted
    <3>3. due # {} => (CHOOSE c \in due : TRUE) \in due
      OBVIOUS
    <3> HIDE DEF record, values
    <3> QED BY <2>2, <2>3, <3>1, <3>2, <3>3
  <2>4. ASSUME \A y \in i.when : \A c \in form.reopens : c.field # y[1],
               NEW r \in form.refuses,
               \A q \in r : q[1] \notin form.secret /\ Implies(i.when, {q})
        PROVE  FALSE
    <3>1. ASSUME NEW y \in i.when PROVE record[y[1]] = values[y[1]]
      BY <2>1, <2>4, <3>1 DEF FormOf, Adapted
    <3>2. ASSUME NEW q \in r PROVE sub.body[q[1]] \in q[2]
      <4>1. PICK y \in i.when : y[1] = q[1] /\ y[2] \subseteq q[2]
        BY <2>4, <3>2 DEF Implies
      <4>2. values[y[1]] = sub.body[y[1]]
        BY <2>1, <2>4, <3>2, <4>1
      <4>3. record[y[1]] \in y[2] /\ record[y[1]] = values[y[1]]
        BY <2>2, <3>1, <4>1
      <4> HIDE DEF record, values
      <4> QED BY <4>1, <4>2, <4>3
    <3> QED BY <1>2, <3>2 DEF Accepts, Holds
  <2> HIDE DEF record, values
  <2> QED BY <2>1, <2>3, <2>4 DEF KeptOut
<1>3. values # NoRecord
  <2>1. DOMAIN values = Fields /\ "none" \notin Fields /\ "none" \in DOMAIN NoRecord
    BY FormsAssumption DEF form, Fields, NoRecord
  <2> QED BY <2>1
<1> HIDE DEF values
<1>4. Accepts(form, sub.body) => Opens(values)
  BY <1>2, <1>3 DEF Opens
<1> QED BY <1>1, <1>4

(* Values that are alike are read alike.                                     *)
LEMMA AdaptedAlike ==
  ASSUME NEW changes, NEW old, NEW new, DOMAIN new = DOMAIN old,
         NEW f \in DOMAIN old, new[f] = old[f],
         \A c \in changes : Holds(c.when, new) <=> Holds(c.when, old)
  PROVE  Adapted(changes, new)[f] = Adapted(changes, old)[f]
<1> DEFINE due(values) == {c \in changes : c.field = f /\ Holds(c.when, values)}
<1>1. due(new) = due(old)
  OBVIOUS
<1>2. \A values : f \in DOMAIN values =>
        Adapted(changes, values)[f] = IF due(values) = {} THEN values[f]
                                      ELSE (CHOOSE c \in due(values) : TRUE).to
  BY DEF Adapted
<1> HIDE DEF due
<1> QED BY <1>1, <1>2

(* An object that arrives later changes only the field that it is in.        *)
LEMMA AttachedOpens ==
  ASSUME setting \in Settings, NEW s, Opens(server.values), HasFields(server.values),
         DOMAIN server = {"values", "version", "own", "others", "object"}
  PROVE  Opens(Attached(s).server.values)
<1> DEFINE old == server.values
           new == [f \in DOMAIN old |-> IF \E u \in form.uploads : u.object = f THEN "object"
                                        ELSE old[f]]
<1>1. Attached(s).server = server \/ Attached(s).server.values = new
  <2>1. \/ Attached(s).server = server
        \/ Attached(s).server = [server EXCEPT !.version = @ + 1, !.object = s, !.own = TRUE,
                                               !.values = new]
    BY DEF Attached
  <2> HIDE DEF new
  <2> QED BY <2>1
<1>2. CASE old = NoRecord
  <2>1. new = NoRecord
    BY <1>2, FormFields DEF NoRecord
  <2> HIDE DEF new
  <2> QED BY <1>1, <1>2, <2>1
<1>3. CASE old # NoRecord
  <2>1. DOMAIN old = Fields /\ DOMAIN new = Fields
    BY <1>3 DEF HasFields
  <2>2. ASSUME NEW i \in Unseen(form), Holds(i.when, FormOf(form, new))
        PROVE  FALSE
    <3>1. KeptOut(form, i) /\ \A y \in i.when : y[1] \in Fields
      BY FormErrors DEF Unseen
    <3>2. ~Holds(i.when, FormOf(form, old))
      BY <1>3 DEF Opens
    <3>3. CASE form.uploads = {}
      <4>1. \A f \in Fields : new[f] = old[f]
        BY <2>1, <3>3
      <4>2. \A c \in form.reopens : Holds(c.when, new) <=> Holds(c.when, old)
        BY <4>1, FormErrors DEF Holds
      <4> HIDE DEF new, old
      <4>3. \A f \in Fields : FormOf(form, new)[f] = FormOf(form, old)[f]
        BY <2>1, <4>1, <4>2, AdaptedAlike DEF FormOf
      <4> QED BY <2>2, <3>1, <3>2, <4>3 DEF Holds
    <3>4. ASSUME \A y \in i.when : /\ \A c \in form.reopens : c.field # y[1]
                                   /\ \A u \in form.uploads : u.object # y[1]
          PROVE  FALSE
      <4>1. ASSUME NEW y \in i.when
            PROVE  /\ FormOf(form, new)[y[1]] = new[y[1]]
                   /\ FormOf(form, old)[y[1]] = old[y[1]]
                   /\ new[y[1]] = old[y[1]]
        BY <2>1, <3>1, <3>4, <4>1 DEF FormOf, Adapted
      <4> HIDE DEF new, old
      <4> QED BY <2>2, <3>2, <4>1 DEF Holds
    <3> QED BY <3>1, <3>3, <3>4 DEF KeptOut
  <2>3. new # NoRecord
    <3>1. "none" \notin Fields /\ "none" \in DOMAIN NoRecord
      BY FormsAssumption DEF form, Fields, NoRecord
    <3> QED BY <2>1, <3>1
  <2> HIDE DEF new
  <2> QED BY <1>1, <2>2, <2>3 DEF Opens
<1> QED BY <1>2, <1>3

LEMMA ServedOpens ==
  ASSUME FormInv, RecordsInv, Opens(server.values),
         NEW s \in Submits, NEW asks \in Stages, <<s, asks>> \in wire
  PROVE  Opens(Served(s, asks).server.values)
<1>1. /\ DOMAIN server = {"values", "version", "own", "others", "object"}
      /\ HasFields(server.values) /\ setting \in Settings
      /\ DOMAIN subs[s].body = Fields
  BY DEF RecordsInv, FieldsInv, ReadInv, SavesInv, SaveInv, Busy, FormInv
<1>2. Opens(Written(subs[s]).server.values) /\ Opens(Attached(s).server.values)
  BY <1>1, WrittenOpens, AttachedOpens
<1>3. (\A from, to : Opens(Moved(s, from, to).server.values)) /\ Opens(Released(s).server.values)
  BY DEF Moved, Released
<1> QED BY <1>2, <1>3 DEF Served, Stages

-----------------------------------------------------------------------------
(* What is submitted is what the page showed.                                *)
SameDraft(s) ==
  Running(s)' => \/ Running(s) /\ subs'[s].draft = subs[s].draft
                 \/ subs'[s].draft = page.draft

LEMMA StartedDraft ==
  ASSUME FormInv, NEW asked, Start(asked)
  PROVE  \A s \in Submits : SameDraft(s)
<1> DEFINE uploading == Uploading(form, page.draft)
           body == Bodied(uploading)
           plan == Plan(uploading)
<1>1. PICK s \in Unused :
        subs' = [subs EXCEPT ![s] =
          [NoSubmission EXCEPT
             !.todo = plan, !.body = body, !.draft = page.draft, !.live = TRUE, !.asked = asked,
             !.read = page.seen.version, !.creates = page.seen.values = NoRecord,
             !.uploading = Head(plan) # "write", !.offers = Offering(body),
             !.object = IF Head(plan) # "write" THEN s
                        ELSE IF \E u \in form.uploads : body[u.object] = "object"
                        THEN page.seen.object ELSE NoObject]]
  BY DEF Start
<1>2. s \in Submits /\ DOMAIN subs = Submits
  BY DEF Unused, FormInv, SubmissionsInv
<1> HIDE DEF body, plan
<1>3. subs'[s].draft = page.draft
  BY <1>1, <1>2 DEF NoSubmission
<1>4. \A t \in Submits \ {s} : subs'[t] = subs[t]
  BY <1>1, <1>2
<1> QED BY <1>3, <1>4 DEF SameDraft, Running

LEMMA SurfacedKept ==
  ASSUME SurfacedInv, setting' = setting,
         Surfaced(form, page'.draft), Opens(page'.seen.values), Opens(server'.values),
         \A s \in Submits : SameDraft(s)
  PROVE  SurfacedInv'
<1>1. form' = form
  BY DEF form
<1>2. Surfaced(form, page.draft) /\ \A s \in Submits : Running(s) => Surfaced(form, subs[s].draft)
  BY DEF SurfacedInv
<1>3. \A s \in Submits : Running(s)' => Surfaced(form, subs'[s].draft)
  BY <1>2 DEF SameDraft
<1> QED BY <1>1, <1>3 DEF SurfacedInv, Opens, Submits

LEMMA SurfacedInit == Init => SurfacedInv
<1> SUFFICES ASSUME Init PROVE SurfacedInv
  OBVIOUS
<1>1. Opens(server.values) /\ page = Mounted(server)
  BY FormErrors DEF Init
<1>2. Surfaced(form, page.draft) /\ page.seen = server
  BY <1>1, MountedSurfaced DEF Mounted
<1>3. \A s \in Submits : ~Running(s)
  BY DEF Init, Running, NoSubmission
<1> QED BY <1>1, <1>2, <1>3 DEF SurfacedInv

LEMMA SurfacedStep == FormInv /\ RecordsInv /\ SurfacedInv /\ [Next]_vars => SurfacedInv'
<1> SUFFICES ASSUME FormInv, RecordsInv, SurfacedInv, [Next]_vars PROVE SurfacedInv'
  OBVIOUS
<1>0. /\ setting \in Settings /\ wire \subseteq Submits \X Stages /\ DOMAIN subs = Submits
      /\ DOMAIN page = PageFields /\ DOMAIN page.draft = Fields
      /\ DOMAIN server = {"values", "version", "own", "others", "object"}
      /\ \A s \in Submits : {"todo", "reply", "draft", "known", "live", "saved", "unwanted"}
                              \subseteq DOMAIN subs[s]
  BY MountedFields DEF RecordsInv, FieldsInv, ReadInv, FormInv, SubmissionsInv, SubmissionInv,
                       NoSubmission
<1>p. /\ Surfaced(form, page.draft) /\ Opens(page.seen.values) /\ Opens(server.values)
      /\ \A s \in Submits : Running(s) => Surfaced(form, subs[s].draft)
  BY DEF SurfacedInv
<1>m. /\ Surfaced(form, Mounted(server).draft) /\ Surfaced(form, Mounted(page.seen).draft)
      /\ Mounted(server).seen = server /\ Mounted(page.seen).seen = page.seen
      /\ Mounted(server).base = Mounted(server).draft
  BY <1>p, MountedSurfaced DEF Mounted
<1>s. UNCHANGED subs => \A s \in Submits : SameDraft(s)
  BY DEF SameDraft, Running
<1>k. ASSUME setting' = setting, page'.draft = page.draft, page'.seen = page.seen,
             Opens(server'.values), \A s \in Submits : SameDraft(s)
      PROVE  SurfacedInv'
  BY <1>k, <1>p, SurfacedKept
(* What the user does to the page.                                           *)
<1>1. CASE Fill
  <2>1. PICK c \in Usable(form, page.draft) : \E x \in Choices(c, page.draft) :
          page' = [page EXCEPT !.draft = Change(c, x, page.draft), !.touched = TRUE]
    BY <1>1 DEF Fill
  <2>2. PICK x \in Choices(c, page.draft) :
          page' = [page EXCEPT !.draft = Change(c, x, page.draft), !.touched = TRUE]
    BY <2>1
  <2>3. Surfaced(form, Change(c, x, page.draft))
    BY <1>0, <1>p, ChangeSurfaced DEF Choices
  <2>4. page'.draft = Change(c, x, page.draft) /\ page'.seen = page.seen
    BY <1>0, <2>2 DEF PageFields
  <2>5. UNCHANGED <<setting, server, subs>>
    BY <1>1 DEF Fill
  <2> QED BY <1>p, <1>s, <2>3, <2>4, <2>5, SurfacedKept
<1>2. CASE SubmitInvalid \/ SubmitAsks \/ SubmitNothing \/ KeepEditing
  <2>1. UNCHANGED <<setting, server, subs>> /\ page'.draft = page.draft /\ page'.seen = page.seen
    BY <1>0, <1>2 DEF SubmitInvalid, SubmitAsks, SubmitNothing, KeepEditing, PageFields
  <2> QED BY <1>k, <1>p, <1>s, <2>1
<1>3. CASE ConfirmReset \/ SubmitSaves
  <2>1. UNCHANGED <<setting, server>> /\ page'.draft = page.draft /\ page'.seen = page.seen
    BY <1>0, <1>3 DEF ConfirmReset, SubmitSaves, PageFields
  <2>2. \A s \in Submits : SameDraft(s)
    BY <1>3, StartedDraft DEF ConfirmReset, SubmitSaves
  <2> QED BY <1>k, <1>p, <2>1, <2>2
(* A request is served or lost, or others write the record.                  *)
<1>4. CASE Serve \/ LoseRequest \/ LoseAnswer
  <2>1. PICK r \in wire, reply \in {"ok", "failed"} :
          /\ UNCHANGED <<setting, page>> /\ subs' = Replied(r[1], r[2], reply)
          /\ server' = server \/ server' = Served(r[1], r[2]).server
    BY <1>4 DEF Serve, LoseRequest, LoseAnswer
  <2>2. r[1] \in Submits /\ r[2] \in Stages /\ <<r[1], r[2]>> \in wire
    BY <1>0
  <2>3. Opens(server'.values)
    BY <1>p, <2>1, <2>2, ServedOpens
  <2>4. \A s \in Submits : SameDraft(s)
    BY <1>0, <2>1 DEF Replied, SameDraft, Running
  <2> QED BY <1>k, <2>1, <2>3, <2>4
<1>5. CASE OthersSave \/ Undeploy
  <2>1. CASE OthersSave
    <3>1. server'.values = setting.others /\ setting.others # NoRecord
      BY <1>0, <2>1 DEF OthersSave
    <3> QED BY <1>0, <1>k, <1>s, <2>1, <3>1, FormErrors DEF OthersSave
  <2>2. CASE Undeploy
    <3>1. server'.values = NoRecord /\ form.stays
      BY <1>0, <2>2 DEF Undeploy
    <3>2. Opens(server'.values)
      BY <1>0, <3>1, FormErrors DEF Opens
    <3> QED BY <1>k, <1>s, <2>2, <3>2 DEF Undeploy
  <2> QED BY <1>5, <2>1, <2>2
(* A submission goes on.                                                     *)
<1>6. CASE Advance \/ Fail \/ EndRelease
  <2>1. UNCHANGED <<setting, server, page>>
    BY <1>6 DEF Advance, Fail, EndRelease
  <2>2. PICK s \in Submits : /\ Running(s) /\ subs'[s].draft = subs[s].draft
                             /\ \A t \in Submits \ {s} : subs'[t] = subs[t]
    <3>1. CASE Advance
      BY <1>0, <3>1 DEF Advance
    <3>2. CASE Fail
      BY <1>0, <3>2 DEF Fail, GivenUp
    <3>3. CASE EndRelease
      BY <1>0, <3>3 DEF EndRelease
    <3> QED BY <1>6, <3>1, <3>2, <3>3
  <2>3. \A t \in Submits : SameDraft(t)
    BY <2>2 DEF SameDraft, Running
  <2> QED BY <1>k, <1>p, <2>1, <2>3
<1>7. CASE Finish
  <2>1. PICK s \in Submits, offered \in BOOLEAN :
          /\ Running(s) /\ page' = AfterSave(subs[s], offered)
          /\ subs' = [subs EXCEPT ![s].todo = <<>>, ![s].saved = TRUE, ![s].live = FALSE]
          /\ UNCHANGED <<setting, server>>
    BY <1>7 DEF Finish
  <2>2. \A t \in Submits : SameDraft(t)
    BY <1>0, <2>1 DEF SameDraft, Running
  <2>3. page'.draft \in {page.draft, subs[s].draft} /\ page'.seen = page.seen
    BY <1>0, <2>1 DEF AfterSave, Left, PageFields
  <2>4. Surfaced(form, page'.draft)
    BY <1>p, <2>1, <2>3
  <2> QED BY <1>p, <2>1, <2>2, <2>3, <2>4, SurfacedKept
(* The page is left, or mounted anew, and what is under way goes on.         *)
<1>z. ASSUME DiscardAtOnce(TRUE) PROVE SurfacedInv'
  <2> DEFINE noted(sub) == [sub EXCEPT !.unwanted = TRUE /\ sub.live /\ sub.todo # <<>>]
             gone(sub) == IF form.stays THEN sub ELSE [sub EXCEPT !.live = FALSE]
  <2>1. /\ subs' = [s \in Submits |-> gone(onCancel(noted(subs[s])))]
        /\ page' = Discarded
        /\ UNCHANGED <<setting, server>>
    BY <1>z DEF DiscardAtOnce
  <2>2. ASSUME NEW s \in Submits PROVE SameDraft(s)
    <3> DEFINE n == noted(subs[s])
               c == onCancel(n)
               Kept(sub) == /\ {"todo", "reply", "draft", "known", "live"} \subseteq DOMAIN sub
                            /\ sub.draft = subs[s].draft
                            /\ sub.todo = subs[s].todo \/ subs[s].todo # <<>>
    <3>1. Kept(n) /\ n.todo = subs[s].todo
      BY <1>0
    <3> HIDE DEF n
    <3>2. Kept(c)
      <4>1. n.todo # <<>> => Kept(GivenUp(n))
        BY <3>1 DEF GivenUp
      <4> QED BY <3>1, <4>1 DEF onCancel
    <3>3. subs'[s] = gone(c)
      BY <2>1 DEF n
    <3> HIDE DEF c
    <3> QED BY <3>2, <3>3 DEF SameDraft, Running
  <2>3. page'.draft \in {page.draft, Mounted(page.seen).draft} /\ page'.seen = page.seen
    BY <1>0, <1>m, <2>1, MountedFields DEF Left, Discarded, PageFields
  <2>4. Surfaced(form, page'.draft)
    BY <1>m, <1>p, <2>3
  <2> QED BY <1>p, <2>1, <2>2, <2>3, <2>4, SurfacedKept
(* A callback begins or ends, or the user looks for the query.               *)
<1>o. ASSUME UNCHANGED <<setting, server, subs>>,
             \/ \E callback : page' = runWithoutPrompt(callback) \/ page' = ranWithoutPrompt(callback)
             \/ \E callback : page' = [ranWithoutPrompt(callback) EXCEPT !.dialog = "leave"]
             \/ page' = [page EXCEPT !.tab = 1]
      PROVE  SurfacedInv'
  <2>1. page'.draft = page.draft /\ page'.seen = page.seen
    BY <1>0, <1>o DEF runWithoutPrompt, ranWithoutPrompt, PageFields
  <2> QED BY <1>k, <1>o, <1>p, <1>s, <2>1
<1>8. ASSUME Discard(TRUE) PROVE SurfacedInv'
  BY <1>8, <1>o, <1>z DEF Discard, DiscardAwaited
<1>d. subs' = Detached => \A s \in Submits : SameDraft(s)
  BY <1>0 DEF Detached, SameDraft, Running
<1>9. ASSUME Leave PROVE SurfacedInv'
  <2>1. UNCHANGED <<setting, server>> /\ page'.draft = page.draft /\ page'.seen = page.seen
    BY <1>0, <1>9 DEF Leave, Left, PageFields
  <2> QED BY <1>9, <1>d, <1>k, <1>p, <2>1 DEF Leave
<1>10. CASE Cancel \/ ConfirmDiscard \/ FollowLink \/ ConfirmLeave \/ AnswerOffer
  <2>1. \/ Discard(TRUE) \/ Leave
        \/ /\ \E dialog \in {"discard", "leave"} : page' = [page EXCEPT !.dialog = dialog]
           /\ UNCHANGED <<setting, server, subs>>
    BY <1>10 DEF Cancel, ConfirmDiscard, FollowLink, ConfirmLeave, AnswerOffer
  <2>2. ASSUME NEW dialog, page' = [page EXCEPT !.dialog = dialog]
        PROVE  page'.draft = page.draft /\ page'.seen = page.seen
    BY <1>0, <2>2 DEF PageFields
  <2> QED BY <1>8, <1>9, <1>k, <1>p, <1>s, <2>1, <2>2
<1>11. CASE Reopen
  BY <1>11, <1>m, <1>p, <1>s, SurfacedKept DEF Reopen
<1>12. CASE Refetch
  <2>1. CASE form.keyed
    BY <1>12, <1>d, <1>m, <1>p, <2>1, SurfacedKept DEF Refetch
  <2>2. CASE ~form.keyed
    <3>1. /\ page' = [page EXCEPT !.seen = server, !.base = Mounted(server).base,
                               !.draft = IF page.touched THEN page.draft ELSE Mounted(server).base]
          /\ UNCHANGED <<setting, server, subs>>
      BY <1>0, <1>12, <2>2 DEF Refetch
    <3>2. page'.draft \in {page.draft, Mounted(server).base} /\ page'.seen = server
      BY <1>0, <3>1 DEF PageFields
    <3>3. Surfaced(form, page'.draft)
      BY <1>m, <1>p, <3>2
    <3> QED BY <1>p, <1>s, <3>1, <3>2, <3>3, SurfacedKept
  <2> QED BY <2>1, <2>2
<1>14. CASE RunLive \/ CallbackNavigates \/ CallbackOvertaken
  BY <1>9, <1>14, <1>o DEF RunLive, CallbackNavigates, CallbackOvertaken
<1>13. CASE DeleteUnreferenced \/ UNCHANGED vars
  BY <1>13, <1>k, <1>p, <1>s DEF DeleteUnreferenced, vars
<1> QED
  BY <1>1, <1>2, <1>3, <1>4, <1>5, <1>6, <1>7, <1>10, <1>11, <1>12, <1>13, <1>14 DEF Next

LEMMA SurfacedInvariant == Spec => []SurfacedInv
BY SurfacedInit, SurfacedStep, FormInvariant, RecordsInvariant, PTL DEF Spec

(* No form refuses without saying where: whatever is filled in, saved by     *)
(* whom, read anew or answered late, an error the schema finds is on a       *)
(* control that shows, under a tab that is marked.                           *)
THEOREM NoHiddenErrors == Spec => []ErrorsShown
<1>1. FormInv /\ SurfacedInv => ErrorsShown
  <2> SUFFICES ASSUME FormInv, SurfacedInv,
                      NEW path \in Issues(form, page.draft) \ form.silent
               PROVE  /\ path \in Shown(form, page.draft)
                      /\ form.tabs # <<>> => TabsWith(form, {path}) # {}
    BY DEF ErrorsShown
  <2>1. setting \in Settings
    BY DEF FormInv
  <2>2. PICK i \in form.issues : i.path = path /\ Holds(i.when, page.draft)
    BY DEF Issues
  <2>3. path \in Shown(form, page.draft)
    BY <2>2 DEF SurfacedInv, Surfaced
  <2>4. ASSUME form.tabs # <<>> PROVE TabsWith(form, {path}) # {}
    <3>1. PICK k \in DOMAIN form.tabs : path \in form.tabs[k]
      BY <2>1, <2>2, <2>4, FormErrors
    <3>2. k \in 1..Len(form.tabs)
      BY <2>1, <3>1, FormFields
    <3> QED BY <3>1, <3>2 DEF TabsWith
  <2> QED BY <2>3, <2>4
<1> QED BY <1>1, FormInvariant, SurfacedInvariant, PTL
=============================================================================
