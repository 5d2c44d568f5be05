------------------------- MODULE OsqueryAnswersProofs -------------------------
(***************************************************************************)
(* Proofs about which answers are recorded, for any policies, hosts, labels*)
(* and edits that drop no host from a policy but by changing its query, and*)
(* any history of abandoned rounds and late requests.                      *)
(***************************************************************************)
EXTENDS OsqueryPoliciesProofs

-----------------------------------------------------------------------------
(* The inductive invariant.                                                  *)

(* No edit drops a host from a policy, or lets its result go, but one that   *)
(* changes the query.  After such an edit sequences start again from 1 under *)
(* the same revision (Update), and neither property holds.                   *)
StaysTargeted ==
  \A x \in Pairs :
    /\ membership[x] # None
    /\ policies'[x[1]] # None
    /\ policies'[x[1]].query = policies[x[1]].query
    => membership'[x] # None

(* The answers of a host that may still be written, and what it was asked.   *)
Answers(h) ==
  osquery[h].results
    \cup UNION {m.results : m \in {n \in late : n.kind = "write" /\ n.host = h}}

Asked(h) == osquery[h].work \cup {r.of : r \in Answers(h)}

(* A revision is one the policy had, and stands for one query.               *)
Known(e) ==
  /\ e.policy \in created
  /\ policies[e.policy] # None =>
       /\ e.revision <= policies[e.policy].evaluation
       /\ e.revision = policies[e.policy].evaluation =>
            e.query = policies[e.policy].query

Present(e) ==
  policies[e.policy] # None /\ e.revision = policies[e.policy].evaluation

(* Nothing was asked in between that the sequence of the row did not count.  *)
InStep(e, h) ==
  LET x == <<e.policy, h>>
  IN  /\ membership[x] # None
      /\ membership[x].issued - e.sequence = issues[x] - e.nth

(* An evaluation is of a known query and not newer than the last issue; one  *)
(* of the present query is as many behind the row as behind the last issue.  *)
AskedInv(h) ==
  \A e \in Asked(h) :
    /\ Known(e)
    /\ e.nth <= issues[<<e.policy, h>>]
    /\ Present(e) => InStep(e, h)

(* A snapshot and what becomes of it ask once per policy, and an evaluation  *)
(* is answered once, however often the answer is sent.                       *)
OnceInv(h) ==
  /\ \A e, f \in osquery[h].read : e.policy = f.policy => e = f
  /\ \A e, f \in osquery[h].work : e.policy = f.policy => e = f
  /\ \A e \in osquery[h].work, r \in Answers(h) :
       e.policy = r.of.policy => e.nth # r.of.nth
  /\ \A q, r \in Answers(h) :
       q.of.policy = r.of.policy /\ q.of.nth = r.of.nth => q = r

(* What a row counts as completed was answered, with the status it has.      *)
CompletedInv(h) ==
  /\ \A e \in osquery[h].work :
       Present(e) => membership[<<e.policy, h>>].completed # e.sequence
  /\ \A r \in Answers(h) :
       LET m == membership[<<r.of.policy, h>>]
       IN  Present(r.of) /\ m.completed = r.of.sequence =>
             m.answered = r.of /\ m.status = r.status

RoundInv ==
  \A h \in Hosts :
    /\ \A e \in osquery[h].read : Known(e)
    /\ AskedInv(h)
    /\ OnceInv(h)
    /\ CompletedInv(h)

-----------------------------------------------------------------------------
(* What a step does to the row that an evaluation is of.                     *)

LEMMA AnswersOf ==
  ASSUME NEW h, NEW r
  PROVE  r \in Answers(h) <=>
           \/ r \in osquery[h].results
           \/ \E m \in late : m.kind = "write" /\ m.host = h /\ r \in m.results
BY DEF Answers

LEMMA AskedTypes ==
  ASSUME TypeOK, NEW h \in Hosts
  PROVE  /\ Answers(h) \subseteq Results
         /\ Asked(h) \subseteq Evaluations
         /\ osquery[h].work \subseteq Evaluations
         /\ osquery[h].read \subseteq Reads
<1>1. Answers(h) \subseteq Results
  BY AnswersOf, AgentFields, LateRequestFields
<1> QED BY <1>1, AgentFields DEF Asked, Results

(* A step leaves policies, memberships and issues alone, or is one of these. *)
LEMMA TableCases ==
  ASSUME TypeOK, [Next]_vars
  PROVE  \/ UNCHANGED <<policies, created, membership, issues>>
         \/ \E p \in PolicyIds, m \in Mutations : Create(p, m)
         \/ \E p \in PolicyIds, m \in Mutations : Update(p, m)
         \/ \E p \in PolicyIds : Delete(p)
         \/ /\ \E h \in Hosts : \E read : IssueEvaluations(h, read)
            /\ UNCHANGED <<policies, created>>
         \/ /\ \E h \in Hosts : \E results \in SUBSET Answers(h) :
                 RecordEvaluations(h, results)
            /\ UNCHANGED <<policies, created, issues>>
<1> DEFINE Same == UNCHANGED <<policies, created, membership, issues>>
           Issue == /\ \E h \in Hosts : \E read : IssueEvaluations(h, read)
                    /\ UNCHANGED <<policies, created>>
           Record == /\ \E h \in Hosts : \E results \in SUBSET Answers(h) :
                          RecordEvaluations(h, results)
                     /\ UNCHANGED <<policies, created, issues>>
<1>1. CASE UNCHANGED vars
  BY <1>1 DEF vars
<1>2. CASE Edit
  BY <1>2 DEF Edit, ChangeLabel, ChangeScripts, RunRemediations, admin, rows, ghosts
<1>3. ASSUME NEW h \in Hosts, Osquery(h)
      PROVE  Same \/ Issue \/ Record
  <2>1. CASE BeginRead(h) \/ FailRead(h) \/ Evaluate(h)
    BY <2>1 DEF BeginRead, FailRead, Evaluate, admin, rows, ghosts
  <2>2. CASE FinishRead(h)
    BY <2>2 DEF FinishRead, admin
  <2>3. CASE DistributedWrite(h)
    BY <2>3, AnswersOf DEF DistributedWrite, admin
  <2> QED BY <1>3, <2>1, <2>2, <2>3 DEF Osquery
<1>4. ASSUME NEW h \in Hosts, Orbit(h)
      PROVE  Same
  BY <1>4 DEF Orbit, OrbitConfig, GetScript, SkipScript, RunScript, RecordScriptResult,
              admin, rows, ghosts
<1>5. CASE Failure
  <2>1. ASSUME NEW h \in Hosts, AbandonRound(h) \/ AbandonScript(h)
        PROVE  Same
    BY <2>1 DEF AbandonRound, AbandonScript, admin, rows, ghosts
  <2>2. ASSUME NEW m \in late, DeliverLateRead(m)
        PROVE  Issue
    <3>1. m.host \in Hosts /\ IssueEvaluations(m.host, m.read)
      BY <2>2, LateRequestFields DEF DeliverLateRead
    <3>2. UNCHANGED <<policies, created>>
      BY <2>2 DEF DeliverLateRead, admin
    <3> QED BY <3>1, <3>2
  <2>3. ASSUME NEW m \in late, DeliverLateWrite(m)
        PROVE  Record
    <3>1. m.host \in Hosts /\ m.kind = "write" /\ RecordEvaluations(m.host, m.results)
      BY <2>3, LateRequestFields DEF DeliverLateWrite
    <3>2. m.results \in SUBSET Answers(m.host)
      BY <3>1, AnswersOf
    <3>3. UNCHANGED <<policies, created, issues>>
      BY <2>3 DEF DeliverLateWrite, admin
    <3> QED BY <3>1, <3>2, <3>3
  <2>4. ASSUME NEW m \in late, DeliverLateReport(m) \/ LoseLateRequest(m)
        PROVE  Same
    BY <2>4 DEF DeliverLateReport, LoseLateRequest, admin, rows, ghosts
  <2> QED BY <1>5, <2>1, <2>2, <2>3, <2>4 DEF Failure
<1>6. Next => \/ Edit
              \/ \E h \in Hosts : Osquery(h)
              \/ \E h \in Hosts : Orbit(h)
              \/ Failure
  BY DEF Next
<1> QED BY <1>1, <1>2, <1>3, <1>4, <1>5, <1>6

(* What an edit does to the revisions of a policy that was created.          *)
LEMMA KnownStep ==
  ASSUME TypeOK, [Next]_vars, NEW e, e.policy \in PolicyIds, e.revision \in Nat, Known(e)
  PROVE  /\ Known(e)'
         /\ Present(e)' => Present(e) /\ policies'[e.policy].query = policies[e.policy].query
<1>1. CASE UNCHANGED <<policies, created>>
  BY <1>1 DEF Known, Present
<1>2. ASSUME NEW p \in PolicyIds, NEW m \in Mutations, Create(p, m)
      PROVE  /\ Known(e)'
             /\ Present(e)' =>
                  Present(e) /\ policies'[e.policy].query = policies[e.policy].query
  <2>1. p # e.policy /\ policies'[e.policy] = policies[e.policy]
    BY <1>2 DEF Create, Known, TypeOK
  <2> QED BY <1>2, <2>1 DEF Create, Known, Present
<1>3. ASSUME NEW p \in PolicyIds, NEW m \in Mutations, Update(p, m)
      PROVE  /\ Known(e)'
             /\ Present(e)' =>
                  Present(e) /\ policies'[e.policy].query = policies[e.policy].query
  <2>1. CASE p # e.policy
    <3>1. policies'[e.policy] = policies[e.policy] /\ created' = created
      BY <1>3, <2>1 DEF Update, TypeOK
    <3> QED BY <3>1 DEF Known, Present
  <2>2. CASE p = e.policy
    <3>1. /\ policies[p] # None /\ created' = created
          /\ policies'[p] = EditedPolicy(p, m)
      BY <1>3 DEF Update, TypeOK
    <3>2. policies[p].evaluation \in Nat
      BY <3>1, PolicyFields
    <3>3. /\ policies'[p].query = m.query
          /\ policies'[p].evaluation = IF policies[p].query # m.query
                                       THEN policies[p].evaluation + 1
                                       ELSE policies[p].evaluation
      BY <3>1 DEF EditedPolicy
    <3> QED BY <2>2, <3>1, <3>2, <3>3 DEF Known, Present
  <2> QED BY <2>1, <2>2
<1>4. ASSUME NEW p \in PolicyIds, Delete(p)
      PROVE  /\ Known(e)'
             /\ Present(e)' =>
                  Present(e) /\ policies'[e.policy].query = policies[e.policy].query
  <2>1. /\ created' = created
        /\ policies'[e.policy] = IF e.policy = p THEN None ELSE policies[e.policy]
    BY <1>4 DEF Delete, TypeOK
  <2> QED BY <2>1 DEF Known, Present
<1> QED BY <1>1, <1>2, <1>3, <1>4, TableCases

LEMMA IssuesGrow ==
  ASSUME TypeOK, [Next]_vars, NEW x \in Pairs
  PROVE  issues'[x] \in Nat /\ issues[x] \in Nat /\ issues[x] <= issues'[x]
<1>1. issues[x] \in Nat
  BY DEF TypeOK
<1>2. issues'[x] = issues[x] \/ issues'[x] = issues[x] + 1
  BY TableCases DEF Create, Update, Delete, IssueEvaluations, ghosts
<1> QED BY <1>1, <1>2

(* The row of a present evaluation is as it was, asks once more or records   *)
(* an answer.                                                                *)
LEMMA RowCases ==
  ASSUME TypeOK, [Next]_vars, StaysTargeted, NEW h \in Hosts, NEW e \in Evaluations,
         Known(e), membership[<<e.policy, h>>] # None, Present(e)'
  PROVE  LET x == <<e.policy, h>>
         IN  \/ membership'[x] = membership[x] /\ issues'[x] = issues[x]
             \/ membership'[x] = Issued(x) /\ issues'[x] = issues[x] + 1
             \/ /\ issues'[x] = issues[x]
                /\ \E r \in Answers(h) : /\ r.of.policy = e.policy
                                         /\ Accepted(r.of, h)
                                         /\ membership'[x] = Recorded(x, r)
<1> DEFINE x == <<e.policy, h>>
<1>0. /\ e.policy \in PolicyIds /\ e.revision \in Nat
      /\ x \in Pairs /\ x[1] = e.policy /\ x[2] = h
  BY DEF Evaluations, Pairs
<1>1. Present(e) /\ policies'[e.policy].query = policies[e.policy].query /\ policies'[e.policy] # None
  BY <1>0, KnownStep DEF Present
<1>2. membership'[x] # None
  BY <1>0, <1>1 DEF StaysTargeted
<1> HIDE DEF x
<1>3. CASE UNCHANGED <<policies, created, membership, issues>>
  BY <1>3 DEF x
<1>4. ASSUME NEW p \in PolicyIds, NEW m \in Mutations, Create(p, m)
      PROVE  membership'[x] = membership[x] /\ issues'[x] = issues[x]
  BY <1>4 DEF Create, rows, ghosts
<1>5. ASSUME NEW p \in PolicyIds, NEW m \in Mutations, Update(p, m)
      PROVE  membership'[x] = membership[x] /\ issues'[x] = issues[x]
  BY <1>0, <1>2, <1>5 DEF Update, ghosts
<1>6. ASSUME NEW p \in PolicyIds, Delete(p)
      PROVE  membership'[x] = membership[x] /\ issues'[x] = issues[x]
  BY <1>0, <1>2, <1>6 DEF Delete, ghosts
<1>7. ASSUME NEW g \in Hosts, NEW read, IssueEvaluations(g, read)
      PROVE  \/ membership'[x] = membership[x] /\ issues'[x] = issues[x]
             \/ membership'[x] = Issued(x) /\ issues'[x] = issues[x] + 1
  BY <1>0, <1>7 DEF IssueEvaluations
<1>8. ASSUME NEW g \in Hosts, NEW results \in SUBSET Answers(g),
             RecordEvaluations(g, results), issues' = issues
      PROVE  \/ membership'[x] = membership[x] /\ issues'[x] = issues[x]
             \/ /\ issues'[x] = issues[x]
                /\ \E r \in Answers(h) : /\ r.of.policy = e.policy
                                         /\ Accepted(r.of, h)
                                         /\ membership'[x] = Recorded(x, r)
  <2>1. ASSUME NEW r \in results, x = <<r.of.policy, g>>, Accepted(r.of, g),
               membership'[x] = Recorded(x, r)
        PROVE  \E q \in Answers(h) : /\ q.of.policy = e.policy
                                     /\ Accepted(q.of, h)
                                     /\ membership'[x] = Recorded(x, q)
    <3>1. r.of.policy = e.policy /\ g = h
      BY <2>1 DEF x
    <3> QED BY <2>1, <3>1
  <2> QED BY <1>0, <1>8, <2>1, RecordCases
<1> QED BY <1>3, <1>4, <1>5, <1>6, <1>7, <1>8, TableCases DEF x

-----------------------------------------------------------------------------
(* What was asked and answered before a step, after it.                      *)

LEMMA EvaluationFields ==
  ASSUME NEW e \in Evaluations, NEW h \in Hosts
  PROVE  /\ e.policy \in PolicyIds /\ e.revision \in Nat
         /\ e.sequence \in Nat \ {0} /\ e.nth \in Nat \ {0}
         /\ <<e.policy, h>> \in Pairs
BY DEF Evaluations, Pairs

(* The fields that asking again and recording an answer change.              *)
LEMMA RowFields ==
  ASSUME TypeOK, NEW x \in Pairs, membership[x] # None
  PROVE  /\ Issued(x).issued = membership[x].issued + 1
         /\ Issued(x).completed = membership[x].completed
         /\ Issued(x).answered = membership[x].answered
         /\ Issued(x).status = membership[x].status
         /\ \A r : /\ Recorded(x, r).issued = membership[x].issued
                   /\ Recorded(x, r).completed = r.of.sequence
                   /\ Recorded(x, r).answered = r.of
                   /\ Recorded(x, r).status = r.status
<1>1. membership[x] \in Memberships
  BY DEF TypeOK
<1> QED BY <1>1 DEF Issued, Recorded, Memberships

LEMMA AskedStep ==
  ASSUME TypeOK, [Next]_vars, StaysTargeted, NEW h \in Hosts, AskedInv(h),
         NEW e \in Asked(h)
  PROVE  /\ Known(e)'
         /\ e.nth <= issues'[<<e.policy, h>>]
         /\ Present(e)' => InStep(e, h)'
<1> DEFINE x == <<e.policy, h>>
<1>1. e \in Evaluations
  BY AskedTypes
<1>2. /\ e.policy \in PolicyIds /\ e.revision \in Nat /\ x \in Pairs
      /\ e.sequence \in Nat /\ e.nth \in Nat
  BY <1>1, EvaluationFields
<1>3. Known(e) /\ e.nth <= issues[x] /\ (Present(e) => InStep(e, h))
  BY DEF AskedInv
<1>4. Known(e)'
  BY <1>2, <1>3, KnownStep
<1>5. e.nth <= issues'[x]
  BY <1>2, <1>3, IssuesGrow
<1>6. ASSUME Present(e)' PROVE InStep(e, h)'
  <2>1. /\ membership[x] # None
        /\ membership[x].issued - e.sequence = issues[x] - e.nth
    BY <1>2, <1>3, <1>6, KnownStep DEF InStep
  <2>2. membership[x].issued \in Nat /\ issues[x] \in Nat
    BY <1>2, <2>1, MembershipFields, IssuesGrow
  <2>3. membership'[x] # None
    BY <1>2, <1>3, <1>6, <2>1, KnownStep DEF StaysTargeted, Present
  <2>4. \/ membership'[x].issued = membership[x].issued /\ issues'[x] = issues[x]
        \/ membership'[x].issued = membership[x].issued + 1 /\ issues'[x] = issues[x] + 1
    BY <1>1, <1>2, <1>3, <1>6, <2>1, RowCases, RowFields
  <2> QED BY <1>2, <2>1, <2>2, <2>3, <2>4 DEF InStep
<1> QED BY <1>4, <1>5, <1>6

(* The row a present evaluation is of did not complete it, or did so with    *)
(* its answer: what is recorded is an answer of the latest issue.            *)
LEMMA AcceptedIsLatest ==
  ASSUME TypeOK, NEW h \in Hosts, AskedInv(h), NEW r \in Answers(h), Accepted(r.of, h)
  PROVE  LET x == <<r.of.policy, h>>
         IN  /\ membership[x].issued = r.of.sequence
             /\ issues[x] = r.of.nth
             /\ r.of.sequence > membership[x].completed
<1> DEFINE x == <<r.of.policy, h>>
<1>1. r.of \in Asked(h) /\ r.of \in Evaluations
  BY AskedTypes DEF Asked
<1>2. x \in Pairs /\ r.of.sequence \in Nat /\ r.of.nth \in Nat
  BY <1>1, EvaluationFields
<1>3. /\ Present(r.of) /\ membership[x] # None
      /\ membership[x].issued = r.of.sequence
      /\ r.of.sequence > membership[x].completed
  BY DEF Accepted, Assigned, CurrentQuery, LatestSequence, Present
<1>4. InStep(r.of, h)
  BY <1>1, <1>3 DEF AskedInv
<1>5. issues[x] \in Nat
  BY <1>2 DEF TypeOK
<1> QED BY <1>2, <1>3, <1>4, <1>5 DEF InStep

LEMMA CompletedStep ==
  ASSUME TypeOK, [Next]_vars, StaysTargeted,
         NEW h \in Hosts, AskedInv(h), OnceInv(h), CompletedInv(h),
         NEW e \in Asked(h), Present(e)'
  PROVE  LET m == membership'[<<e.policy, h>>]
         IN  /\ e \in osquery[h].work => m.completed # e.sequence
             /\ \A r \in Answers(h) :
                  r.of = e /\ m.completed = e.sequence =>
                    m.answered = e /\ m.status = r.status
<1> DEFINE x == <<e.policy, h>>
<1>1. e \in Evaluations
  BY AskedTypes
<1>2. /\ e.policy \in PolicyIds /\ e.revision \in Nat /\ x \in Pairs
      /\ e.sequence \in Nat /\ e.nth \in Nat
  BY <1>1, EvaluationFields
<1>3. Known(e) /\ (Present(e) => InStep(e, h))
  BY DEF AskedInv
<1>4. Present(e)
  BY <1>2, <1>3, KnownStep
<1>5. /\ membership[x] # None
      /\ membership[x].issued - e.sequence = issues[x] - e.nth
      /\ membership[x].issued \in Nat /\ issues[x] \in Nat
  BY <1>2, <1>3, <1>4, MembershipFields, IssuesGrow DEF InStep
<1>6. /\ e \in osquery[h].work => membership[x].completed # e.sequence
      /\ \A r \in Answers(h) :
           r.of = e /\ membership[x].completed = e.sequence =>
             membership[x].answered = e /\ membership[x].status = r.status
  BY <1>4 DEF CompletedInv
<1>7. CASE membership'[x] = membership[x] \/ membership'[x] = Issued(x)
  BY <1>2, <1>5, <1>6, <1>7, RowFields
<1>8. ASSUME NEW q \in Answers(h), q.of.policy = e.policy, Accepted(q.of, h),
             membership'[x] = Recorded(x, q)
      PROVE  /\ e \in osquery[h].work => membership'[x].completed # e.sequence
             /\ \A r \in Answers(h) :
                  r.of = e /\ membership'[x].completed = e.sequence =>
                    membership'[x].answered = e /\ membership'[x].status = r.status
  <2>1. /\ membership'[x].completed = q.of.sequence
        /\ membership'[x].answered = q.of /\ membership'[x].status = q.status
    BY <1>2, <1>5, <1>8, RowFields
  <2>2. membership[x].issued = q.of.sequence /\ issues[x] = q.of.nth
    BY <1>8, AcceptedIsLatest
  <2>3. q.of.sequence = e.sequence => q.of.nth = e.nth
    BY <1>2, <1>5, <2>2
  <2> QED BY <1>8, <2>1, <2>3 DEF OnceInv
<1> QED BY <1>1, <1>3, <1>5, <1>7, <1>8, RowCases

-----------------------------------------------------------------------------
(* What a step does to the rounds under way.                                 *)

(* Nothing new is read, asked or answered for the host, or it goes on.       *)
LEMMA AgentCases ==
  ASSUME TypeOK, [Next]_vars, NEW h \in Hosts
  PROVE  \/ /\ osquery'[h].read \subseteq osquery[h].read
            /\ osquery'[h].work \subseteq osquery[h].work
            /\ Answers(h)' \subseteq Answers(h)
         \/ BeginRead(h)
         \/ FinishRead(h)
         \/ Evaluate(h)
<1> DEFINE Fewer == /\ osquery'[h].read \subseteq osquery[h].read
                    /\ osquery'[h].work \subseteq osquery[h].work
                    /\ Answers(h)' \subseteq Answers(h)
<1>a. \A r : r \in Answers(h)' <=>
               \/ r \in osquery'[h].results
               \/ \E m \in late' : m.kind = "write" /\ m.host = h /\ r \in m.results
  BY DEF Answers
<1>b. ASSUME osquery'[h] = osquery[h] \/ osquery'[h] = IdleOsquery,
             \A m \in late' : m.kind = "write" /\ m.host = h =>
               m \in late \/ m.results = osquery[h].results
      PROVE  Fewer
  <2>1. /\ osquery'[h].read \subseteq osquery[h].read
        /\ osquery'[h].work \subseteq osquery[h].work
        /\ osquery'[h].results \subseteq osquery[h].results
    BY <1>b DEF IdleOsquery
  <2>2. ASSUME NEW r \in Answers(h)'
        PROVE  r \in Answers(h)
    <3>1. CASE r \in osquery'[h].results
      BY <2>1, <3>1, AnswersOf
    <3>2. ASSUME NEW m \in late', m.kind = "write", m.host = h, r \in m.results
          PROVE  r \in Answers(h)
      BY <1>b, <3>2, AnswersOf
    <3> QED BY <1>a, <2>2, <3>1, <3>2
  <2> QED BY <2>1, <2>2
<1> HIDE DEF Fewer
<1>1. ASSUME UNCHANGED <<osquery, late>> PROVE Fewer
  BY <1>1, <1>b
<1>2. ASSUME Edit PROVE UNCHANGED <<osquery, late>>
  BY <1>2 DEF Edit, Create, Update, Delete, ChangeLabel, ChangeScripts,
              RunRemediations, agents
<1>3. ASSUME NEW g \in Hosts, Osquery(g)
      PROVE  Fewer \/ BeginRead(h) \/ FinishRead(h) \/ Evaluate(h)
  <2>1. late' = late
    BY <1>3 DEF Osquery, BeginRead, FinishRead, FailRead, Evaluate, DistributedWrite
  <2>2. CASE g # h
    <3>1. osquery'[h] = osquery[h]
      BY <1>3, <2>2 DEF Osquery, BeginRead, FinishRead, FailRead, Evaluate,
                        DistributedWrite, TypeOK
    <3> QED BY <1>b, <2>1, <3>1
  <2>3. CASE g = h /\ (FailRead(h) \/ DistributedWrite(h))
    <3>1. osquery'[h] = osquery[h] \/ osquery'[h] = IdleOsquery
      BY <2>3 DEF FailRead, DistributedWrite, TypeOK
    <3> QED BY <1>b, <2>1, <3>1
  <2> QED BY <1>3, <2>2, <2>3 DEF Osquery
<1>4. ASSUME NEW g \in Hosts, Orbit(g)
      PROVE  UNCHANGED <<osquery, late>>
  BY <1>4 DEF Orbit, OrbitConfig, GetScript, SkipScript, RunScript, RecordScriptResult
<1>5. ASSUME Failure PROVE Fewer
  <2>1. ASSUME NEW g \in Hosts, AbandonRound(g)
        PROVE  Fewer
    <3>1. osquery'[h] = IF g = h THEN IdleOsquery ELSE osquery[h]
      BY <2>1 DEF AbandonRound, TypeOK
    <3>2. ASSUME NEW m \in late', m.kind = "write", m.host = h
          PROVE  m \in late \/ m.results = osquery[h].results
      <4>1. \/ m \in late
            \/ m = [kind |-> "read", host |-> g, read |-> osquery[g].read]
            \/ m = [kind |-> "write", host |-> g, results |-> osquery[g].results]
        BY <2>1, <3>2 DEF AbandonRound, StillDelivered
      <4> QED BY <3>2, <4>1
    <3> QED BY <1>b, <3>1, <3>2
  <2>2. ASSUME NEW g \in Hosts, AbandonScript(g)
        PROVE  Fewer
    <3>1. osquery' = osquery
      BY <2>2 DEF AbandonScript
    <3>2. ASSUME NEW m \in late', m.kind = "write"
          PROVE  m \in late
      <4>1. \/ m \in late
            \/ m = [kind |-> "report", host |-> g, execution |-> orbit[g].execution,
                    exit |-> orbit[g].exit]
        BY <2>2, <3>2 DEF AbandonScript, StillDelivered
      <4> QED BY <3>2, <4>1
    <3> QED BY <1>b, <3>1, <3>2
  <2>3. ASSUME NEW m \in late, \/ DeliverLateRead(m) \/ DeliverLateWrite(m)
                               \/ DeliverLateReport(m) \/ LoseLateRequest(m)
        PROVE  Fewer
    <3>1. osquery' = osquery /\ late' = late \ {m}
      BY <2>3 DEF DeliverLateRead, DeliverLateWrite, DeliverLateReport, LoseLateRequest
    <3>2. osquery'[h] = osquery[h] /\ \A n \in late' : n \in late
      BY <3>1
    <3> QED BY <1>b, <3>2
  <2> QED BY <1>5, <2>1, <2>2, <2>3 DEF Failure
<1>6. Next => \/ Edit
              \/ \E g \in Hosts : Osquery(g)
              \/ \E g \in Hosts : Orbit(g)
              \/ Failure
  BY DEF Next
<1>7. UNCHANGED vars => UNCHANGED <<osquery, late>>
  BY DEF vars
<1>8. Fewer \/ BeginRead(h) \/ FinishRead(h) \/ Evaluate(h)
  BY <1>1, <1>2, <1>3, <1>4, <1>5, <1>6, <1>7
<1> QED BY <1>8 DEF Fewer

LEMMA RoundStep ==
  ASSUME IInv, RoundInv, [Next]_vars, StaysTargeted
  PROVE  RoundInv'
<1> SUFFICES ASSUME NEW h \in Hosts
             PROVE  /\ \A e \in osquery'[h].read : Known(e)'
                    /\ AskedInv(h)' /\ OnceInv(h)' /\ CompletedInv(h)'
  BY DEF RoundInv
<1>0. /\ TypeOK /\ CreatedInv /\ MembershipInv /\ TypeOK'
      /\ AskedInv(h) /\ OnceInv(h) /\ CompletedInv(h)
      /\ \A e \in osquery[h].read : Known(e)
  BY NextTypes DEF IInv, RoundInv
<1>r. ASSUME NEW e \in osquery[h].read
      PROVE  Known(e)' /\ (Present(e)' => Present(e))
  <2>1. e.policy \in PolicyIds /\ e.revision \in Nat
    BY <1>0, AskedTypes DEF Reads
  <2> QED BY <1>0, <2>1, KnownStep
<1>1. CASE /\ osquery'[h].read \subseteq osquery[h].read
           /\ osquery'[h].work \subseteq osquery[h].work
           /\ Answers(h)' \subseteq Answers(h)
  <2>1. Asked(h)' \subseteq Asked(h)
    BY <1>1 DEF Asked
  <2>2. AskedInv(h)'
    BY <1>0, <2>1, AskedStep DEF AskedInv
  <2>3. OnceInv(h)'
    BY <1>0, <1>1 DEF OnceInv
  <2>4. CompletedInv(h)'
    BY <1>0, <1>1, CompletedStep DEF CompletedInv, Asked
  <2> QED BY <1>1, <1>r, <2>2, <2>3, <2>4
<1>2. CASE BeginRead(h)
  <2> DEFINE assigned == {p \in PolicyIds : Assigned(p, h)}
  <2>1. /\ osquery'[h] = [IdleOsquery EXCEPT
             !.phase = "reading",
             !.read = {[policy |-> p, query |-> policies[p].query,
                        revision |-> policies[p].evaluation] : p \in assigned}]
        /\ UNCHANGED <<policies, created, membership, issues, late>>
    BY <1>0, <1>2 DEF BeginRead, TypeOK, admin, rows, ghosts
  <2>2. /\ osquery'[h].work = {} /\ osquery'[h].results = {}
        /\ osquery'[h].read = {[policy |-> p, query |-> policies[p].query,
                                revision |-> policies[p].evaluation] : p \in assigned}
    BY <2>1 DEF IdleOsquery
  <2>3. \A e \in osquery'[h].read : Known(e)'
    <3>1. ASSUME NEW p \in assigned
          PROVE  p \in created /\ policies[p].evaluation \in Nat
      BY <1>0, PolicyFields DEF Assigned, CreatedInv
    <3> QED BY <2>1, <2>2, <3>1 DEF Known
  <2>4. Answers(h)' \subseteq Answers(h) /\ Asked(h)' \subseteq Asked(h)
    BY <2>1, <2>2 DEF Answers, Asked
  <2>5. AskedInv(h)'
    BY <1>0, <2>4, AskedStep DEF AskedInv
  <2>6. OnceInv(h)'
    BY <1>0, <2>2, <2>4 DEF OnceInv
  <2>7. CompletedInv(h)'
    BY <1>0, <2>2, <2>4, CompletedStep DEF CompletedInv, Asked
  <2> QED BY <2>3, <2>5, <2>6, <2>7
<1>3. CASE FinishRead(h)
  <2> DEFINE read == osquery[h].read
             new(e) == [policy |-> e.policy, query |-> e.query, revision |-> e.revision,
                        sequence |-> membership'[<<e.policy, h>>].issued,
                        nth |-> issues'[<<e.policy, h>>]]
  <2>1. /\ osquery'[h] = [IdleOsquery EXCEPT !.phase = "working", !.work = {new(e) : e \in read}]
        /\ IssueEvaluations(h, read)
        /\ UNCHANGED <<policies, created, late>>
    BY <1>0, <1>3 DEF FinishRead, TypeOK, admin
  <2>2. /\ osquery'[h].work = {new(e) : e \in read}
        /\ osquery'[h].results = {} /\ osquery'[h].read = {}
    BY <2>1 DEF IdleOsquery
  <2>3. Answers(h)' \subseteq Answers(h)
    BY <2>1, <2>2 DEF Answers
  <2>4. ASSUME NEW e \in read
        PROVE  LET x == <<e.policy, h>>
               IN  /\ x \in Pairs /\ membership'[x] # None
                   /\ membership'[x].issued \in Nat /\ membership'[x].completed \in Nat
                   /\ membership'[x].completed < membership'[x].issued
                   /\ issues[x] \in Nat /\ issues'[x] = issues[x] + 1
    <3> DEFINE x == <<e.policy, h>>
    <3>1. x \in Pairs /\ x[1] = e.policy /\ x[2] = h
      BY <1>0, AskedTypes DEF Reads, Pairs
    <3>2. membership'[x] = Issued(x) /\ issues'[x] = issues[x] + 1
      BY <2>1, <3>1 DEF IssueEvaluations
    <3>3. Issued(x) \in Memberships
      BY <1>0, <3>1, IssuedType
    <3>4. Issued(x).completed < Issued(x).issued /\ Issued(x).issued \in Nat
            /\ Issued(x).completed \in Nat
      <4>1. CASE membership[x] = None
        BY <4>1 DEF Issued, FirstIssue
      <4>2. CASE membership[x] # None
        <5>1. /\ membership[x].issued \in Nat /\ membership[x].completed \in Nat
              /\ membership[x].completed <= membership[x].issued
          BY <1>0, <3>1, <4>2, MembershipFields DEF MembershipInv
        <5> QED BY <1>0, <3>1, <4>2, <5>1, RowFields
      <4> QED BY <4>1, <4>2
    <3>5. issues[x] \in Nat
      BY <1>0, <3>1 DEF TypeOK
    <3> QED BY <3>1, <3>2, <3>3, <3>4, <3>5, NullAssumption
  <2>5. ASSUME NEW e \in read, NEW f, f = new(e)
        PROVE  /\ f.policy = e.policy /\ Known(f)' /\ InStep(f, h)'
               /\ f.nth = issues'[<<e.policy, h>>]
               /\ membership'[<<e.policy, h>>].completed # f.sequence
    <3>1. /\ f.policy = e.policy /\ f.query = e.query /\ f.revision = e.revision
          /\ f.sequence = membership'[<<e.policy, h>>].issued
          /\ f.nth = issues'[<<e.policy, h>>]
      BY <2>5
    <3>2. Known(f)'
      BY <1>r, <3>1 DEF Known
    <3>3. InStep(f, h)' /\ membership'[<<e.policy, h>>].completed # f.sequence
      BY <2>4, <3>1 DEF InStep
    <3> QED BY <3>1, <3>2, <3>3
  <2>6. AskedInv(h)'
    <3>1. ASSUME NEW f \in Asked(h)'
          PROVE  /\ Known(f)' /\ f.nth <= issues'[<<f.policy, h>>]
                 /\ Present(f)' => InStep(f, h)'
      <4>1. CASE f \in Asked(h)
        BY <1>0, <4>1, AskedStep
      <4>2. ASSUME NEW e \in read, f = new(e)
            PROVE  /\ Known(f)' /\ f.nth <= issues'[<<f.policy, h>>]
                   /\ Present(f)' => InStep(f, h)'
        <5>1. /\ f.policy = e.policy /\ Known(f)' /\ InStep(f, h)'
              /\ f.nth = issues'[<<e.policy, h>>]
          BY <2>5, <4>2
        <5>2. issues'[<<e.policy, h>>] \in Nat
          BY <2>4
        <5> QED BY <5>1, <5>2
      <4>3. f \in Asked(h) \/ \E e \in read : f = new(e)
        BY <2>2, <2>3 DEF Asked
      <4> QED BY <4>1, <4>2, <4>3
    <3> QED BY <3>1 DEF AskedInv
  <2>7. OnceInv(h)'
    <3>1. ASSUME NEW e \in read, NEW r \in Answers(h)', e.policy = r.of.policy
          PROVE  new(e).nth # r.of.nth
      <4>1. r.of \in Asked(h) /\ r.of \in Evaluations
        BY <1>0, <2>3, AskedTypes DEF Asked
      <4>2. r.of.nth <= issues[<<e.policy, h>>] /\ r.of.nth \in Nat
        BY <1>0, <3>1, <4>1, EvaluationFields DEF AskedInv
      <4> QED BY <2>4, <4>2
    <3>2. \A e, f \in read : new(e).policy = new(f).policy => new(e) = new(f)
      BY <1>0 DEF OnceInv
    <3>3. \A e \in read : new(e).policy = e.policy
      OBVIOUS
    <3> HIDE DEF new
    <3> QED BY <1>0, <2>2, <2>3, <3>1, <3>2, <3>3 DEF OnceInv
  <2>8. CompletedInv(h)'
    <3>1. ASSUME NEW r \in Answers(h)', Present(r.of)',
                 membership'[<<r.of.policy, h>>].completed = r.of.sequence
          PROVE  /\ membership'[<<r.of.policy, h>>].answered = r.of
                 /\ membership'[<<r.of.policy, h>>].status = r.status
      BY <1>0, <2>3, <3>1, CompletedStep DEF Asked
    <3> QED BY <2>2, <2>5, <3>1 DEF CompletedInv
  <2> QED BY <2>2, <2>6, <2>7, <2>8
<1>4. CASE Evaluate(h)
  <2>1. PICK status \in [osquery[h].work -> Statuses] :
          osquery' = [osquery EXCEPT ![h] =
            [IdleOsquery EXCEPT !.phase = "writing",
               !.results = {[of |-> e, status |-> status[e]] : e \in osquery[h].work}]]
    BY <1>4 DEF Evaluate
  <2> DEFINE results == {[of |-> e, status |-> status[e]] : e \in osquery[h].work}
  <2>2. /\ osquery'[h].work = {} /\ osquery'[h].read = {} /\ osquery'[h].results = results
        /\ late' = late
    BY <1>0, <1>4, <2>1 DEF IdleOsquery, TypeOK, Evaluate
  <2>3. \A r \in results : r.of \in osquery[h].work
    OBVIOUS
  <2>4. \A q, r \in results : q.of = r.of => q = r
    OBVIOUS
  <2> HIDE DEF results
  <2>5. Answers(h)' \subseteq Answers(h) \cup results
    BY <2>2 DEF Answers
  <2>6. Asked(h)' \subseteq Asked(h)
    BY <2>2, <2>3, <2>5 DEF Asked
  <2>7. AskedInv(h)'
    BY <1>0, <2>6, AskedStep DEF AskedInv
  <2>8. OnceInv(h)'
    BY <1>0, <2>2, <2>3, <2>4, <2>5 DEF OnceInv
  <2>9. CompletedInv(h)'
    <3>1. ASSUME NEW r \in Answers(h)', Present(r.of)',
                 membership'[<<r.of.policy, h>>].completed = r.of.sequence
          PROVE  /\ membership'[<<r.of.policy, h>>].answered = r.of
                 /\ membership'[<<r.of.policy, h>>].status = r.status
      <4>1. CASE r \in Answers(h)
        BY <1>0, <3>1, <4>1, CompletedStep DEF Asked
      <4>2. CASE r \in results
        BY <1>0, <2>3, <3>1, <4>2, CompletedStep DEF Asked
      <4> QED BY <2>5, <4>1, <4>2
    <3> QED BY <2>2, <3>1 DEF CompletedInv
  <2> QED BY <2>2, <2>7, <2>8, <2>9
<1> QED BY <1>0, <1>1, <1>2, <1>3, <1>4, AgentCases

LEMMA RoundInit == Init => RoundInv
BY DEF Init, RoundInv, AskedInv, OnceInv, CompletedInv, Asked, Answers, IdleOsquery

LEMMA RoundAlways == Spec /\ [][StaysTargeted]_vars => []RoundInv
<1>1. IInv /\ RoundInv /\ [Next]_vars /\ [StaysTargeted]_vars => RoundInv'
  <2>1. [StaysTargeted]_vars => StaysTargeted
    BY DEF StaysTargeted, vars
  <2> QED BY <2>1, RoundStep
<1> QED BY <1>1, RoundInit, InvAlways, PTL DEF Spec

-----------------------------------------------------------------------------
(* What a write records.                                                     *)

(* Only a recorded answer replaces the answer behind a status.               *)
LEMMA AnsweredCases ==
  ASSUME TypeOK, [Next]_vars, NEW x \in Pairs,
         membership'[x] # None, membership'[x].answered # None,
         membership[x] # None => membership'[x].answered # membership[x].answered
  PROVE  \E h \in Hosts : \E r \in Answers(h) :
           /\ x = <<r.of.policy, h>>
           /\ Accepted(r.of, h)
           /\ membership'[x] = Recorded(x, r)
<1>1. membership'[x] # membership[x]
  OBVIOUS
<1>2. ASSUME NEW h \in Hosts, NEW read, IssueEvaluations(h, read) PROVE FALSE
  <2>1. membership'[x] = Issued(x)
    BY <1>1, <1>2 DEF IssueEvaluations
  <2>2. membership[x] # None
    BY <2>1 DEF Issued, FirstIssue
  <2> QED BY <2>1, <2>2, RowFields
<1>3. ASSUME NEW h \in Hosts, NEW results \in SUBSET Answers(h),
             RecordEvaluations(h, results)
      PROVE  \E r \in Answers(h) : /\ x = <<r.of.policy, h>>
                                   /\ Accepted(r.of, h)
                                   /\ membership'[x] = Recorded(x, r)
  BY <1>1, <1>3, RecordCases
<1> QED BY <1>1, <1>2, <1>3, TableCases DEF Create, Update, Delete, rows

(* A recorded answer is the answer to the last evaluation the host was       *)
(* issued, however many rounds were abandoned, sent again or delivered late, *)
(* as long as no edit but one of the query drops the host from the policy.   *)
THEOREM AnswersAreLatest ==
  Spec /\ [][StaysTargeted]_vars => AnswersLatestIssue
<1> DEFINE P == \A x \in Pairs :
                  /\ membership'[x] # None
                  /\ membership'[x].answered # None
                  /\ membership[x] # None =>
                       membership'[x].answered # membership[x].answered
                  => membership'[x].answered.nth = issues[x]
<1>1. ASSUME IInv, RoundInv, [Next]_vars PROVE P
  <2> SUFFICES ASSUME NEW x \in Pairs,
                      membership'[x] # None, membership'[x].answered # None,
                      membership[x] # None =>
                        membership'[x].answered # membership[x].answered
               PROVE  membership'[x].answered.nth = issues[x]
    OBVIOUS
  <2>0. PICK h \in Hosts : \E r \in Answers(h) :
          /\ x = <<r.of.policy, h>> /\ Accepted(r.of, h)
          /\ membership'[x] = Recorded(x, r)
    BY <1>1, AnsweredCases DEF IInv
  <2>1. PICK r \in Answers(h) :
          /\ x = <<r.of.policy, h>> /\ Accepted(r.of, h)
          /\ membership'[x] = Recorded(x, r)
    BY <2>0
  <2>2. issues[x] = r.of.nth
    BY <1>1, <2>1, AcceptedIsLatest DEF IInv, RoundInv
  <2>3. membership[x] # None
    BY <2>1 DEF Accepted
  <2> QED BY <1>1, <2>1, <2>2, <2>3, RowFields DEF IInv
<1>2. IInv /\ RoundInv /\ [Next]_vars => [P]_vars
  BY <1>1
<1>3. Spec /\ [][StaysTargeted]_vars => [][P]_vars
  BY <1>2, InvAlways, RoundAlways, PTL DEF Spec
<1> QED BY <1>3 DEF AnswersLatestIssue

(* A round ends without a loss only by a write that is answered.             *)
LEMMA AnsweredWrite ==
  ASSUME TypeOK, [Next]_vars, NEW h \in Hosts,
         osquery[h].phase = "writing", osquery'[h].phase = "idle", losses' = losses
  PROVE  RecordEvaluations(h, osquery[h].results)
<1>1. osquery' # osquery /\ osquery'[h] # osquery[h]
  OBVIOUS
<1>2. ~Edit
  BY <1>1 DEF Edit, Create, Update, Delete, ChangeLabel, ChangeScripts,
              RunRemediations, agents
<1>3. ASSUME NEW g \in Hosts PROVE ~Orbit(g)
  BY <1>1 DEF Orbit, OrbitConfig, GetScript, SkipScript, RunScript, RecordScriptResult
<1>4. ~Failure
  <2>1. ASSUME NEW g \in Hosts PROVE ~AbandonRound(g)
    BY DEF AbandonRound, Lose, TypeOK
  <2>2. ASSUME NEW g \in Hosts PROVE ~AbandonScript(g)
    BY <1>1 DEF AbandonScript
  <2>3. ASSUME NEW m
        PROVE  /\ ~DeliverLateRead(m) /\ ~DeliverLateWrite(m)
               /\ ~DeliverLateReport(m) /\ ~LoseLateRequest(m)
    BY <1>1 DEF DeliverLateRead, DeliverLateWrite, DeliverLateReport, LoseLateRequest
  <2> QED BY <2>1, <2>2, <2>3 DEF Failure
<1>5. ASSUME NEW g \in Hosts, Osquery(g)
      PROVE  RecordEvaluations(h, osquery[h].results)
  <2>1. g = h
    BY <1>1, <1>5 DEF Osquery, BeginRead, FinishRead, FailRead, Evaluate,
                      DistributedWrite, TypeOK
  <2> QED BY <1>5, <2>1 DEF Osquery, BeginRead, FinishRead, FailRead, Evaluate,
                            DistributedWrite
<1> QED BY <1>1, <1>2, <1>3, <1>4, <1>5 DEF Next, vars

(* The latest answer to the present query is on the row after the write,     *)
(* written by it or by an earlier delivery of the same answers.              *)
LEMMA LatestIsRecorded ==
  ASSUME IInv, RoundInv, NEW h \in Hosts, RecordEvaluations(h, osquery[h].results),
         NEW r \in osquery[h].results,
         Assigned(r.of.policy, h),
         policies[r.of.policy].evaluation = r.of.revision,
         issues[<<r.of.policy, h>>] = r.of.nth
  PROVE  LET m == membership'[<<r.of.policy, h>>]
         IN  m.answered = r.of /\ m.status = r.status
<1> DEFINE e == r.of
           x == <<e.policy, h>>
           A == AcceptedResults(x, h, osquery[h].results)
<1>0. TypeOK /\ MembershipInv /\ AskedInv(h) /\ OnceInv(h) /\ CompletedInv(h)
  BY DEF IInv, RoundInv
<1>1. r \in Answers(h) /\ e \in Asked(h) /\ e \in Evaluations
  BY <1>0, AskedTypes DEF Answers, Asked
<1>2. /\ e.policy \in PolicyIds /\ x \in Pairs
      /\ e.sequence \in Nat /\ e.nth \in Nat
  BY <1>1, EvaluationFields
<1>3. Present(e) /\ policies[e.policy].query = e.query
  BY <1>0, <1>1 DEF Assigned, Present, AskedInv, Known
<1>4. /\ membership[x] # None
      /\ membership[x].issued = e.sequence
      /\ membership[x].completed \in Nat
      /\ membership[x].completed <= membership[x].issued
  <2>1. membership[x] # None /\ membership[x].issued - e.sequence = issues[x] - e.nth
    BY <1>0, <1>1, <1>3 DEF AskedInv, InStep
  <2>2. membership[x].issued \in Nat /\ membership[x].completed \in Nat
    BY <1>0, <1>2, <2>1, MembershipFields
  <2>3. membership[x].completed <= membership[x].issued
    BY <1>0, <1>2, <2>1 DEF MembershipInv
  <2> QED BY <1>2, <2>1, <2>2, <2>3
<1>5. ASSUME NEW q \in A
      PROVE  q = r /\ e.sequence > membership[x].completed
  <2>1. /\ q \in Answers(h) /\ q.of.policy = e.policy /\ Accepted(q.of, h)
    BY DEF AcceptedResults, Answers
  <2>2. issues[x] = q.of.nth /\ membership[x].issued = q.of.sequence
        /\ q.of.sequence > membership[x].completed
    BY <1>0, <2>1, AcceptedIsLatest
  <2> QED BY <1>0, <1>1, <1>4, <2>1, <2>2 DEF OnceInv
<1>6. membership'[x] = IF A = {} THEN membership[x] ELSE Recorded(x, CHOOSE q \in A : TRUE)
  BY <1>2 DEF RecordEvaluations
<1>7. CASE membership[x].completed = e.sequence
  <2>1. A = {}
    BY <1>2, <1>5, <1>7
  <2> QED BY <1>0, <1>1, <1>3, <1>6, <1>7, <2>1 DEF CompletedInv
<1>8. CASE membership[x].completed # e.sequence
  <2>1. e.sequence > membership[x].completed
    BY <1>2, <1>4, <1>8
  <2>2. r \in A
    BY <1>3, <1>4, <2>1 DEF AcceptedResults, Accepted, CurrentQuery, LatestSequence
  <2>3. membership'[x] = Recorded(x, r)
    BY <1>5, <1>6, <2>2
  <2> QED BY <1>0, <1>2, <1>4, <2>3, RowFields
<1> QED BY <1>7, <1>8

(* A write that is answered leaves the answer on the row of every policy it  *)
(* names whose query is the present one and was not issued again since.      *)
THEOREM CurrentAnswersRecorded ==
  Spec /\ [][StaysTargeted]_vars => CurrentAnswersAreRecorded
<1> DEFINE P == \A h \in Hosts :
                  /\ osquery[h].phase = "writing"
                  /\ osquery'[h].phase = "idle"
                  /\ losses' = losses
                  => \A r \in osquery[h].results :
                       LET e == r.of
                           m == membership'[<<e.policy, h>>]
                       IN  /\ Assigned(e.policy, h)
                           /\ policies[e.policy].evaluation = e.revision
                           /\ issues[<<e.policy, h>>] = e.nth
                           /\ m # None
                           => m.answered = e /\ m.status = r.status
<1>1. IInv /\ RoundInv /\ [Next]_vars => [P]_vars
  BY AnsweredWrite, LatestIsRecorded DEF IInv
<1>2. Spec /\ [][StaysTargeted]_vars => [][P]_vars
  BY <1>1, InvAlways, RoundAlways, PTL DEF Spec
<1> QED BY <1>2 DEF CurrentAnswersAreRecorded
=============================================================================
