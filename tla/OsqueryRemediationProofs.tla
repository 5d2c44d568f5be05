----------------------- MODULE OsqueryRemediationProofs -----------------------
(***************************************************************************)
(* The policies and their agents implement PolicyRemediation, for any      *)
(* policies, hosts, labels and edits, and any history of abandoned rounds, *)
(* abandoned scripts and late requests.                                    *)
(***************************************************************************)
EXTENDS OsqueryPoliciesProofs

-----------------------------------------------------------------------------
(* The inductive invariant.                                                  *)

(* A run that nothing has overtaken is the one the upsert of a remediation   *)
(* would queue again: the columns it is compared by are all the present ones.*)
Fresh(x) ==
  /\ runs[x].revision = policies[x[1]].remediation
  /\ runs[x].script = policies[x[1]].script
  /\ runs[x].failure = membership[x].failure
  /\ membership[x].conclusive = "fail"

FreshInv == \A x \in Pairs : runs[x] # None /\ ~runs[x].overtaken => Fresh(x)

(* An execution in hand was fetched from the run that has its number, and    *)
(* no later run gets that number.                                            *)
Fetched(e) ==
  LET x == <<e[1], e[2]>>
  IN  /\ e[3] <= queued[x]
      /\ runs[x] # None /\ runs[x].execution = e => runs[x].delivered

FetchedInv == \A e \in InHand : Fetched(e)

(* A host is notified of its own runs.                                       *)
PendingInv == \A h \in Hosts : \A e \in orbit[h].pending : e[2] = h

RefineInv ==
  /\ IInv
  /\ FreshInv
  /\ FetchedInv
  /\ PendingInv

-----------------------------------------------------------------------------
(* What a step does to the row of one policy and host.                       *)

(* Nothing ...                                                               *)
Kept(x) ==
  /\ membership'[x] = membership[x]
  /\ runs'[x] = runs[x]
  /\ queued'[x] = queued[x]
  /\ runs[x] # None => policies'[x[1]] = policies[x[1]]

(* ... or its answers are dropped with the run ...                           *)
Dropped(x) ==
  /\ membership'[x] = None
  /\ runs'[x] = None
  /\ queued'[x] = queued[x]

(* ... or the remediation of its policy is edited, or not ...                *)
Edited(x) ==
  /\ membership'[x] = membership[x]
  /\ runs[x] # None
  /\ runs'[x].overtaken \in BOOLEAN
  /\ runs'[x] = [runs[x] EXCEPT !.overtaken = runs'[x].overtaken]
  /\ runs[x].overtaken => runs'[x].overtaken
  /\ ~runs'[x].overtaken =>
       /\ policies'[x[1]].remediation = policies[x[1]].remediation
       /\ policies'[x[1]].script = policies[x[1]].script
  /\ queued'[x] = queued[x]

(* ... or it is asked again ...                                              *)
Reasked(x) ==
  /\ membership'[x] = Issued(x)
  /\ UNCHANGED <<policies, runs, queued>>

(* ... or a result is recorded ...                                           *)
Answered(x, r) ==
  /\ r \in Results
  /\ r.of.policy = x[1]
  /\ Accepted(r.of, x[2])
  /\ membership'[x] = Recorded(x, r)
  /\ runs'[x] = RecordedRun(x, r)
  /\ queued'[x] = IF RunsAutomatically(x, r) THEN queued[x] + 1 ELSE queued[x]
  /\ policies' = policies

(* ... or a run is asked for ...                                             *)
Requested(x) ==
  /\ UNCHANGED <<policies, membership>>
  /\ membership[x] # None
  /\ membership[x].status = "fail"
  /\ policies[x[1]] # None
  /\ Replaceable(runs[x], NewRun(x, membership[x].failure, FALSE))
  /\ runs'[x] = NewRun(x, membership[x].failure, FALSE)
  /\ queued'[x] = queued[x] + 1

(* ... or fetched ...                                                        *)
ScriptFetched ==
  \E h \in Hosts : \E e \in orbit[h].pending : GetScript(h, e)

Delivered(x) ==
  /\ ScriptFetched
  /\ UNCHANGED <<policies, membership, queued>>
  /\ runs[x] # None
  /\ runs'[x] = [runs[x] EXCEPT !.delivered = TRUE]

(* ... or reported.                                                          *)
Reported(x) ==
  /\ UNCHANGED <<policies, membership, queued>>
  /\ runs[x] # None
  /\ runs[x].exit = None
  /\ runs[x].execution \in InHand
  /\ \E exit \in ExitCodes : runs'[x] = [runs[x] EXCEPT !.exit = exit]

LEMMA AgentExecution ==
  ASSUME TypeOK, NEW h \in Hosts, orbit[h].phase \in {"running", "reporting"}
  PROVE  orbit[h].execution \in Executions
<1>1. orbit[h] \in OrbitAgents
  BY DEF TypeOK
<1> QED BY <1>1 DEF OrbitAgents

LEMMA InHandTypes ==
  ASSUME TypeOK
  PROVE  InHand \subseteq Executions
BY AgentExecution, LateRequestFields DEF InHand

LEMMA ExecutionPair ==
  ASSUME NEW e \in Executions
  PROVE  /\ <<e[1], e[2]>> \in Pairs
         /\ e = <<e[1], e[2], e[3]>>
         /\ e[3] \in Nat
BY DEF Executions, Pairs

LEMMA PairCases ==
  ASSUME IInv, [Next]_vars, NEW x \in Pairs
  PROVE  \/ Kept(x)
         \/ Dropped(x)
         \/ Edited(x)
         \/ Reasked(x)
         \/ \E r : Answered(x, r)
         \/ Requested(x)
         \/ Delivered(x)
         \/ Reported(x)
<1> USE DEF IInv
<1>a. /\ x[1] \in PolicyIds
      /\ x[2] \in Hosts
      /\ runs[x] # None => membership[x] # None /\ policies[x[1]] # None
  BY PairFields DEF RunInv, RunHolds, MembershipInv
<1>1. CASE UNCHANGED <<policies, created, rows, queued>>
  BY <1>1 DEF Kept, rows
<1>2. ASSUME NEW p \in PolicyIds, NEW m \in Mutations, Create(p, m)
      PROVE  Kept(x)
  <2>1. UNCHANGED <<membership, runs, queued>>
    BY <1>2 DEF Create, rows, ghosts
  <2>2. runs[x] # None => x[1] # p
    BY <1>a, <1>2 DEF Create, CreatedInv
  <2> QED BY <1>a, <1>2, <2>1, <2>2 DEF Kept, Create, TypeOK
<1>3. ASSUME NEW p \in PolicyIds, NEW m \in Mutations, Update(p, m)
      PROVE  Kept(x) \/ Dropped(x) \/ Edited(x)
  <2>1. queued'[x] = queued[x]
    BY <1>3 DEF Update, ghosts
  <2>2. CASE x[1] # p
    <3>1. runs'[x] = runs[x] /\ membership'[x] = membership[x]
      BY <1>3, <2>2 DEF Update
    <3>2. policies'[x[1]] = policies[x[1]]
      BY <1>a, <1>3, <2>2 DEF Update, TypeOK
    <3> QED BY <2>1, <3>1, <3>2 DEF Kept
  <2>3. CASE x[1] = p /\ Invalidated(p, m, x[2])
    <3>1. membership'[x] = None /\ runs'[x] = None
      BY <1>3, <2>3 DEF Update
    <3> QED BY <2>1, <3>1 DEF Dropped
  <2>4. CASE x[1] = p /\ ~Invalidated(p, m, x[2]) /\ runs[x] = None
    <3>1. runs'[x] = runs[x] /\ membership'[x] = membership[x]
      BY <1>3, <2>4 DEF Update
    <3> QED BY <2>1, <2>4, <3>1 DEF Kept
  <2>5. CASE x[1] = p /\ ~Invalidated(p, m, x[2]) /\ runs[x] # None
    <3>1. /\ membership'[x] = membership[x]
          /\ runs'[x] = [runs[x] EXCEPT
                           !.overtaken = @ \/ RemediationChanged(p, m)]
      BY <1>3, <2>5 DEF Update
    <3>2. runs[x] \in Runs /\ runs[x].overtaken \in BOOLEAN
      BY <2>5, RunNumbers
    <3>3. runs'[x].overtaken = (runs[x].overtaken \/ RemediationChanged(p, m))
      BY <3>1, <3>2 DEF Runs
    <3>4. runs'[x].overtaken \in BOOLEAN
      BY <3>3 DEF RemediationChanged
    <3>5. policies'[x[1]] = EditedPolicy(p, m)
      BY <1>3, <2>5 DEF Update, TypeOK
    <3>6. ~RemediationChanged(p, m) =>
            /\ policies'[x[1]].remediation = policies[x[1]].remediation
            /\ policies'[x[1]].script = policies[x[1]].script
      BY <2>5, <3>5 DEF EditedPolicy, RemediationChanged
    <3> QED BY <2>1, <2>5, <3>1, <3>2, <3>3, <3>4, <3>6 DEF Edited
  <2> QED BY <2>2, <2>3, <2>4, <2>5
<1>4. ASSUME NEW p \in PolicyIds, Delete(p)
      PROVE  Kept(x) \/ Dropped(x)
  <2>1. queued'[x] = queued[x]
    BY <1>4 DEF Delete, ghosts
  <2>2. CASE x[1] = p
    BY <1>4, <2>1, <2>2 DEF Delete, Dropped
  <2>3. CASE x[1] # p
    <3>1. runs'[x] = runs[x] /\ membership'[x] = membership[x]
      BY <1>4, <2>3 DEF Delete
    <3>2. policies'[x[1]] = policies[x[1]]
      BY <1>a, <1>4, <2>3 DEF Delete, TypeOK
    <3> QED BY <2>1, <3>1, <3>2 DEF Kept
  <2> QED BY <2>2, <2>3
<1>5. ASSUME NEW p \in PolicyIds, NEW selected, RunRemediations(p, selected)
      PROVE  Kept(x) \/ Requested(x)
  <2>1. UNCHANGED <<policies, membership>>
    BY <1>5 DEF RunRemediations, admin
  <2> QED BY <1>5, <2>1, RequeueCases DEF Kept, Requested
<1>6. ASSUME NEW h \in Hosts, NEW read, IssueEvaluations(h, read),
             UNCHANGED <<policies, runs, queued>>
      PROVE  Kept(x) \/ Reasked(x)
  BY <1>6, IssueCases DEF Kept, Reasked
<1>7. ASSUME NEW h \in Hosts, NEW results \in SUBSET Results,
             RecordEvaluations(h, results), UNCHANGED policies
      PROVE  Kept(x) \/ \E r : Answered(x, r)
  <2>1. ASSUME NEW r \in results,
               x = <<r.of.policy, h>>,
               Accepted(r.of, h),
               membership'[x] = Recorded(x, r),
               runs'[x] = RecordedRun(x, r),
               queued'[x] = IF RunsAutomatically(x, r) THEN queued[x] + 1
                            ELSE queued[x]
        PROVE  Answered(x, r)
    <3>1. r \in Results /\ r.of.policy = x[1] /\ x[2] = h
      BY <2>1
    <3> QED BY <1>7, <2>1, <3>1 DEF Answered
  <2> QED BY <1>7, <2>1, RecordCases DEF Kept
<1>8. ASSUME NEW h \in Hosts, NEW e \in Executions, GetScript(h, e)
      PROVE  Kept(x) \/ Delivered(x)
  <2> DEFINE y == <<e[1], e[2]>>
  <2>1. y \in Pairs
    BY ExecutionPair
  <2>2. UNCHANGED <<policies, membership, queued>>
    BY <1>8 DEF GetScript, admin, ghosts
  <2>3. runs[y] # None /\ runs' = [runs EXCEPT ![y].delivered = TRUE]
    BY <1>8 DEF GetScript, Found
  <2>4. CASE x # y
    <3>1. runs'[x] = runs[x]
      BY <2>3, <2>4 DEF TypeOK
    <3> QED BY <2>2, <3>1 DEF Kept
  <2>5. CASE x = y
    <3>1. runs'[x] = [runs[x] EXCEPT !.delivered = TRUE]
      BY <2>3, <2>5 DEF TypeOK
    <3> QED BY <1>8, <2>2, <2>3, <2>5, <3>1 DEF Delivered, ScriptFetched, GetScript
  <2> QED BY <2>4, <2>5
<1>9. ASSUME NEW e \in InHand, NEW exit \in ExitCodes,
             RecordRemediationResult(e, exit),
             UNCHANGED <<policies, membership, queued>>
      PROVE  Kept(x) \/ Reported(x)
  BY <1>9 DEF RecordRemediationResult, Kept, Reported
<1> QED
  BY <1>1, <1>2, <1>3, <1>4, <1>5, <1>6, <1>7, <1>8, <1>9, StepCases

-----------------------------------------------------------------------------
(* What a step does to the Orbit agents and the reports that are late.       *)

(* A host moves on without starting a script.                                *)
MovesOn(h) ==
  \E agent :
    /\ orbit' = [orbit EXCEPT ![h] = agent]
    /\ agent.phase # "running"
    /\ agent.phase = "reporting" =>
         /\ orbit[h].phase = "running"
         /\ agent.execution = orbit[h].execution
    /\ agent.pending \subseteq orbit[h].pending \cup PendingExecutions(h)
    /\ orbit[h].phase = "running" => UNCHANGED <<policies, rows, queued>>

LEMMA OrbitCases ==
  ASSUME TypeOK, [Next]_vars
  PROVE  \/ UNCHANGED orbit
         \/ \E h \in Hosts : MovesOn(h)
         \/ \E h \in Hosts : \E e \in orbit[h].pending : GetScript(h, e)
<1>1. CASE UNCHANGED vars
  BY <1>1 DEF vars
<1>2. CASE Edit
  BY <1>2 DEF Edit, Create, Update, Delete, ChangeLabel, ChangeScripts,
              RunRemediations, agents
<1>3. ASSUME NEW h \in Hosts, Osquery(h) PROVE UNCHANGED orbit
  BY <1>3 DEF Osquery, BeginRead, FinishRead, FailRead, Evaluate, DistributedWrite
<1>4. ASSUME NEW h \in Hosts, NEW pending, pending \subseteq orbit[h].pending,
             orbit[h].phase # "running",
             orbit' = [orbit EXCEPT ![h] = Proceed(h, pending)]
      PROVE  MovesOn(h)
  <2> DEFINE agent == Proceed(h, pending)
  <2>1. agent.phase \in {"idle", "notified"} /\ agent.pending \subseteq pending
    BY DEF Proceed, IdleOrbit
  <2> QED BY <1>4, <2>1 DEF MovesOn
<1>5. ASSUME NEW h \in Hosts, OrbitConfig(h) PROVE MovesOn(h)
  <2> DEFINE agent == [orbit[h] EXCEPT !.phase = "notified",
                                       !.pending = PendingExecutions(h)]
  <2>1. orbit' = [orbit EXCEPT ![h] = agent]
    BY <1>5 DEF OrbitConfig, TypeOK
  <2>2. orbit[h].phase = "idle" /\ orbit[h] \in OrbitAgents
    BY <1>5, AgentFields DEF OrbitConfig
  <2>3. agent.phase = "notified" /\ agent.pending = PendingExecutions(h)
    BY <2>2 DEF OrbitAgents
  <2> HIDE DEF agent
  <2> QED BY <2>1, <2>2, <2>3 DEF MovesOn
<1>6. ASSUME NEW h \in Hosts, NEW e, SkipScript(h, e) PROVE MovesOn(h)
  BY <1>4, <1>6 DEF SkipScript
<1>7. ASSUME NEW h \in Hosts, RunScript(h) PROVE MovesOn(h)
  <2>1. PICK exit : orbit' = [orbit EXCEPT ![h].phase = "reporting",
                                           ![h].exit = exit]
    BY <1>7 DEF RunScript
  <2> DEFINE agent == [orbit[h] EXCEPT !.phase = "reporting", !.exit = exit]
  <2>2. orbit' = [orbit EXCEPT ![h] = agent]
    BY <2>1 DEF TypeOK
  <2>3. orbit[h].phase = "running" /\ orbit[h] \in OrbitAgents
    BY <1>7, AgentFields DEF RunScript
  <2>4. /\ agent.phase = "reporting"
        /\ agent.execution = orbit[h].execution
        /\ agent.pending = orbit[h].pending
    BY <2>3 DEF OrbitAgents
  <2>5. UNCHANGED <<policies, rows, queued>>
    BY <1>7 DEF RunScript, admin, rows, ghosts
  <2> HIDE DEF agent
  <2> QED BY <2>2, <2>3, <2>4, <2>5 DEF MovesOn
<1>8. ASSUME NEW h \in Hosts, RecordScriptResult(h)
      PROVE  MovesOn(h) \/ UNCHANGED orbit
  BY <1>4, <1>8 DEF RecordScriptResult
<1>9. ASSUME NEW h \in Hosts, Orbit(h)
      PROVE  \/ UNCHANGED orbit
             \/ MovesOn(h)
             \/ \E e \in orbit[h].pending : GetScript(h, e)
  BY <1>5, <1>6, <1>7, <1>8, <1>9 DEF Orbit
<1>10. ASSUME Failure PROVE UNCHANGED orbit \/ \E h \in Hosts : MovesOn(h)
  <2>1. ASSUME NEW h \in Hosts, AbandonScript(h) PROVE MovesOn(h)
    <3>1. /\ IdleOrbit.phase = "idle"
          /\ IdleOrbit.pending = {}
      BY DEF IdleOrbit
    <3>2. orbit' = [orbit EXCEPT ![h] = IdleOrbit]
            /\ UNCHANGED <<policies, rows, queued>>
      BY <2>1 DEF AbandonScript, admin, rows, ghosts
    <3> QED BY <3>1, <3>2 DEF MovesOn
  <2> QED BY <1>10, <2>1 DEF Failure, AbandonRound, DeliverLateRead,
                             DeliverLateWrite, DeliverLateReport, LoseLateRequest
<1> QED BY <1>1, <1>2, <1>3, <1>9, <1>10 DEF Next

(* A report that becomes late is one its host was sending.                   *)
LEMMA LateCases ==
  ASSUME TypeOK, [Next]_vars, NEW m \in late', m.kind = "report"
  PROVE  m.execution \in InHand
<1>1. CASE m \in late
  BY <1>1 DEF InHand
<1>2. CASE late' \subseteq late
  BY <1>1, <1>2
<1>3. Edit => UNCHANGED late
  BY DEF Edit, Create, Update, Delete, ChangeLabel, ChangeScripts,
         RunRemediations, agents
<1>4. ASSUME NEW h \in Hosts, Osquery(h) \/ Orbit(h) PROVE UNCHANGED late
  BY <1>4 DEF Osquery, BeginRead, FinishRead, FailRead, Evaluate,
              DistributedWrite, Orbit, OrbitConfig, GetScript, SkipScript,
              RunScript, RecordScriptResult
<1>5. ASSUME NEW h \in Hosts, AbandonRound(h)
      PROVE  m \in late
  BY <1>5 DEF AbandonRound, StillDelivered
<1>6. ASSUME NEW h \in Hosts, AbandonScript(h)
      PROVE  m.execution \in InHand
  <2>1. \/ m \in late
        \/ /\ orbit[h].phase = "reporting"
           /\ m = [kind |-> "report", host |-> h,
                   execution |-> orbit[h].execution, exit |-> orbit[h].exit]
    BY <1>6 DEF AbandonScript, StillDelivered
  <2> QED BY <1>1, <2>1 DEF InHand
<1>7. ASSUME NEW n \in late, \/ DeliverLateRead(n) \/ DeliverLateWrite(n)
                             \/ DeliverLateReport(n) \/ LoseLateRequest(n)
      PROVE  late' \subseteq late
  BY <1>7 DEF DeliverLateRead, DeliverLateWrite, DeliverLateReport, LoseLateRequest
<1>8. UNCHANGED vars => UNCHANGED late
  BY DEF vars
<1> QED BY <1>1, <1>2, <1>3, <1>4, <1>5, <1>6, <1>7, <1>8 DEF Next, Failure

(* What a step puts in hand is what it fetches.                              *)
LEMMA InHandCases ==
  ASSUME TypeOK, [Next]_vars, NEW e \in InHand'
  PROVE  \/ e \in InHand
         \/ \E h \in Hosts : e \in orbit[h].pending /\ GetScript(h, e)
<1>1. ASSUME NEW m \in late', m.kind = "report", e = m.execution
      PROVE  e \in InHand
  BY <1>1, LateCases
<1>2. ASSUME NEW h \in Hosts, orbit'[h].phase \in {"running", "reporting"},
             e = orbit'[h].execution
      PROVE  \/ e \in InHand
             \/ \E g \in Hosts : e \in orbit[g].pending /\ GetScript(g, e)
  <2>1. CASE orbit'[h] = orbit[h]
    BY <1>2, <2>1 DEF InHand
  <2>2. ASSUME NEW g \in Hosts, MovesOn(g), orbit'[h] # orbit[h]
        PROVE  e \in InHand
    <3>1. PICK agent : /\ orbit' = [orbit EXCEPT ![g] = agent]
                       /\ agent.phase # "running"
                       /\ agent.phase = "reporting" =>
                            /\ orbit[g].phase = "running"
                            /\ agent.execution = orbit[g].execution
      BY <2>2 DEF MovesOn
    <3>2. g = h /\ orbit'[h] = agent
      BY <2>2, <3>1 DEF TypeOK
    <3> QED BY <1>2, <3>1, <3>2 DEF InHand
  <2>3. ASSUME NEW g \in Hosts, NEW f \in orbit[g].pending, GetScript(g, f),
               orbit'[h] # orbit[h]
        PROVE  g = h /\ e = f
    BY <1>2, <2>3 DEF GetScript, TypeOK
  <2> QED BY <2>1, <2>2, <2>3, OrbitCases
<1> QED BY <1>1, <1>2 DEF InHand

-----------------------------------------------------------------------------
(* The invariant is inductive.                                               *)

(* What recording a result leaves in the row.                                *)
LEMMA AnsweredFields ==
  ASSUME IInv, NEW x \in Pairs, NEW r, Answered(x, r)
  PROVE  /\ r.status \in Statuses
         /\ membership[x] # None
         /\ policies[x[1]] # None
         /\ membership'[x] # None
         /\ membership'[x].status = r.status
         /\ membership'[x].conclusive =
              IF r.status = "error" THEN membership[x].conclusive ELSE r.status
         /\ membership'[x].failure =
              IF NewlyFailing(membership[x], r) THEN r.of.sequence
              ELSE membership[x].failure
         /\ RunsAutomatically(x, r) => runs'[x] = NewRun(x, r.of.sequence, TRUE)
         /\ ~RunsAutomatically(x, r) =>
              \/ runs[x] = None /\ runs'[x] = None
              \/ /\ runs[x] # None
                 /\ runs'[x] = [runs[x] EXCEPT
                                  !.overtaken = @ \/ r.status = "pass"]
<1>1. /\ r \in Results
      /\ r.of.policy = x[1]
      /\ Accepted(r.of, x[2])
      /\ membership'[x] = Recorded(x, r)
      /\ runs'[x] = RecordedRun(x, r)
  BY DEF Answered
<1>2. x = <<r.of.policy, x[2]>>
  BY <1>1, PairFields
<1>3. membership[x] # None /\ policies[x[1]] # None
  BY <1>1, <1>2 DEF Accepted, Assigned
<1>4. membership[x] \in Memberships
  BY <1>3, MembershipFields DEF IInv
<1>5. r.status \in Statuses
  BY <1>1 DEF Results
<1>6. membership'[x] # None
  BY <1>1, <1>3, RecordedType, NullAssumption DEF IInv
<1>7. /\ membership'[x].status = r.status
      /\ membership'[x].conclusive =
           IF r.status = "error" THEN membership[x].conclusive ELSE r.status
      /\ membership'[x].failure =
           IF NewlyFailing(membership[x], r) THEN r.of.sequence
           ELSE membership[x].failure
  BY <1>1, <1>4 DEF Recorded, Memberships
<1>8. RunsAutomatically(x, r) => runs'[x] = NewRun(x, r.of.sequence, TRUE)
  BY <1>1, AutomaticRunReplaces DEF RecordedRun, IInv
<1>9. ~RunsAutomatically(x, r) =>
        \/ runs[x] = None /\ runs'[x] = None
        \/ /\ runs[x] # None
           /\ runs'[x] = [runs[x] EXCEPT
                            !.overtaken = @ \/ r.status = "pass"]
  BY <1>1 DEF RecordedRun
<1> QED BY <1>3, <1>5, <1>6, <1>7, <1>8, <1>9

LEMMA FreshStep ==
  ASSUME IInv, FreshInv, [Next]_vars
  PROVE  FreshInv'
<1> SUFFICES ASSUME NEW x \in Pairs, runs'[x] # None, ~runs'[x].overtaken
             PROVE  Fresh(x)'
  BY DEF FreshInv
<1> USE DEF Fresh
<1>0. runs[x] # None => runs[x] \in Runs /\ membership[x] # None
  BY RunNumbers DEF IInv, RunInv, RunHolds
<1>1. CASE Kept(x)
  BY <1>1 DEF Kept, FreshInv
<1>2. CASE Dropped(x)
  BY <1>2 DEF Dropped
<1>3. CASE Edited(x)
  <2>1. /\ runs[x] \in Runs
        /\ runs'[x] = [runs[x] EXCEPT !.overtaken = runs'[x].overtaken]
    BY <1>0, <1>3 DEF Edited
  <2>2. /\ runs'[x].revision = runs[x].revision
        /\ runs'[x].script = runs[x].script
        /\ runs'[x].failure = runs[x].failure
    BY <2>1 DEF Runs
  <2> QED BY <1>3, <2>2 DEF Edited, FreshInv
<1>4. CASE Reasked(x)
  <2>1. /\ membership[x] \in Memberships
        /\ membership'[x] = [membership[x] EXCEPT !.issued = @ + 1]
    BY <1>0, <1>4, MembershipFields DEF Reasked, Issued, IInv
  <2>2. /\ membership'[x].failure = membership[x].failure
        /\ membership'[x].conclusive = membership[x].conclusive
    BY <2>1 DEF Memberships
  <2> QED BY <1>4, <2>2 DEF Reasked, FreshInv
<1>5. ASSUME NEW r, Answered(x, r) PROVE Fresh(x)'
  <2>1. policies' = policies
    BY <1>5 DEF Answered
  <2>2. CASE RunsAutomatically(x, r)
    <3>1. r.status = "fail" /\ NewlyFailing(membership[x], r)
      BY <2>2 DEF RunsAutomatically, NewlyFailing
    <3>2. runs'[x] = NewRun(x, r.of.sequence, TRUE)
      BY <1>5, <2>2, AnsweredFields
    <3>3. /\ runs'[x].revision = policies[x[1]].remediation
          /\ runs'[x].script = policies[x[1]].script
          /\ runs'[x].failure = r.of.sequence
      BY <3>2 DEF NewRun
    <3> QED BY <1>5, <2>1, <3>1, <3>3, AnsweredFields
  <2>3. CASE ~RunsAutomatically(x, r)
    <3>1. /\ runs[x] # None
          /\ runs'[x] = [runs[x] EXCEPT !.overtaken = @ \/ r.status = "pass"]
      BY <1>5, <2>3, AnsweredFields
    <3>2. /\ runs'[x].revision = runs[x].revision
          /\ runs'[x].script = runs[x].script
          /\ runs'[x].failure = runs[x].failure
          /\ ~runs[x].overtaken
          /\ r.status # "pass"
      BY <1>0, <3>1 DEF Runs
    <3>3. /\ runs[x].revision = policies[x[1]].remediation
          /\ runs[x].script = policies[x[1]].script
          /\ runs[x].failure = membership[x].failure
          /\ membership[x].conclusive = "fail"
      BY <3>1, <3>2 DEF FreshInv
    <3>4. ~NewlyFailing(membership[x], r)
      BY <3>3 DEF NewlyFailing
    <3> QED BY <1>5, <2>1, <3>2, <3>3, <3>4, AnsweredFields DEF Statuses
  <2> QED BY <2>2, <2>3
<1>6. CASE Requested(x)
  <2>1. membership[x].conclusive = "fail"
    BY <1>6 DEF Requested, IInv, MembershipInv
  <2>2. /\ runs'[x].revision = policies[x[1]].remediation
        /\ runs'[x].script = policies[x[1]].script
        /\ runs'[x].failure = membership[x].failure
    BY <1>6 DEF Requested, NewRun
  <2> QED BY <1>6, <2>1, <2>2 DEF Requested
<1>7. CASE Delivered(x) \/ Reported(x)
  <2>1. /\ UNCHANGED <<policies, membership>>
        /\ runs[x] # None
        /\ \/ runs'[x] = [runs[x] EXCEPT !.delivered = TRUE]
           \/ \E exit : runs'[x] = [runs[x] EXCEPT !.exit = exit]
    BY <1>7 DEF Delivered, Reported
  <2>2. /\ runs'[x].revision = runs[x].revision
        /\ runs'[x].script = runs[x].script
        /\ runs'[x].failure = runs[x].failure
        /\ runs'[x].overtaken = runs[x].overtaken
    BY <1>0, <2>1 DEF Runs
  <2> QED BY <2>1, <2>2 DEF FreshInv
<1> QED BY <1>1, <1>2, <1>3, <1>4, <1>5, <1>6, <1>7, PairCases

(* A step gives a pair an execution it did not have only with a number that  *)
(* no pair has had, and forgets of no run that it was fetched.               *)
LEMMA ExecutionCases ==
  ASSUME IInv, [Next]_vars, NEW x \in Pairs
  PROVE  /\ queued[x] <= queued'[x]
         /\ runs'[x] # None =>
              \/ runs'[x].execution[3] = queued[x] + 1
              \/ /\ runs[x] # None
                 /\ runs'[x].execution = runs[x].execution
                 /\ runs[x].delivered => runs'[x].delivered
<1> DEFINE Same == /\ runs[x] # None
                   /\ runs'[x].execution = runs[x].execution
                   /\ runs[x].delivered => runs'[x].delivered
           Numbered == /\ queued[x] <= queued'[x]
                       /\ runs'[x] # None =>
                            runs'[x].execution[3] = queued[x] + 1 \/ Same
<1>0. /\ queued[x] \in Nat
      /\ runs[x] # None => runs[x] \in Runs
  BY RunNumbers DEF IInv, TypeOK
<1> SUFFICES Numbered
  OBVIOUS
<1>a. Same /\ queued'[x] = queued[x] => Numbered
  BY <1>0
<1>1. CASE Kept(x) \/ Dropped(x) \/ Reasked(x)
  BY <1>0, <1>1 DEF Kept, Dropped, Reasked
<1>2. CASE Edited(x)
  <2>1. queued'[x] = queued[x]
    BY <1>2 DEF Edited
  <2>2. Same
    BY <1>0, <1>2 DEF Edited, Runs
  <2> QED BY <1>a, <2>1, <2>2
<1>3. ASSUME NEW r, Answered(x, r)
      PROVE  Numbered
  <2>1. queued'[x] = IF RunsAutomatically(x, r) THEN queued[x] + 1 ELSE queued[x]
    BY <1>3 DEF Answered
  <2>2. CASE RunsAutomatically(x, r)
    <3>1. runs'[x] = NewRun(x, r.of.sequence, TRUE)
      BY <1>3, <2>2, AnsweredFields
    <3>2. runs'[x].execution[3] = queued[x] + 1
      BY <3>1 DEF NewRun
    <3> QED BY <1>0, <2>1, <2>2, <3>2
  <2>3. CASE ~RunsAutomatically(x, r) /\ runs'[x] # None
    <3>1. /\ runs[x] # None
          /\ runs'[x] = [runs[x] EXCEPT !.overtaken = @ \/ r.status = "pass"]
      BY <1>3, <2>3, AnsweredFields
    <3>2. Same
      BY <1>0, <3>1 DEF Runs
    <3> QED BY <1>a, <2>1, <2>3, <3>2
  <2>4. CASE ~RunsAutomatically(x, r) /\ runs'[x] = None
    BY <1>0, <2>1, <2>4
  <2> QED BY <2>2, <2>3, <2>4
<1>4. CASE Requested(x)
  <2>1. runs'[x].execution[3] = queued[x] + 1
    BY <1>4 DEF Requested, NewRun
  <2>2. queued'[x] = queued[x] + 1
    BY <1>4 DEF Requested
  <2> QED BY <1>0, <2>1, <2>2
<1>5. CASE Delivered(x) \/ Reported(x)
  <2>1. /\ queued'[x] = queued[x]
        /\ runs[x] # None
        /\ \/ runs'[x] = [runs[x] EXCEPT !.delivered = TRUE]
           \/ \E exit : runs'[x] = [runs[x] EXCEPT !.exit = exit]
    BY <1>5 DEF Delivered, Reported
  <2>2. Same
    BY <1>0, <2>1 DEF Runs
  <2> QED BY <1>a, <2>1, <2>2
<1> HIDE DEF Numbered
<1> QED BY <1>1, <1>2, <1>3, <1>4, <1>5, PairCases

LEMMA FetchedStep ==
  ASSUME IInv, FetchedInv, [Next]_vars
  PROVE  FetchedInv'
<1> SUFFICES ASSUME NEW e \in InHand' PROVE Fetched(e)'
  BY DEF FetchedInv
<1> DEFINE x == <<e[1], e[2]>>
<1>0. /\ e \in Executions
      /\ x \in Pairs
      /\ e[3] \in Nat
      /\ queued[x] \in Nat
      /\ queued'[x] \in Nat
  <2>1. TypeOK /\ TypeOK'
    BY NextTypes DEF IInv
  <2>2. InHand' \subseteq Executions
    <3>1. ASSUME NEW h \in Hosts, orbit'[h].phase \in {"running", "reporting"}
          PROVE  orbit'[h].execution \in Executions
      <4>1. orbit'[h] \in OrbitAgents
        BY <2>1 DEF TypeOK
      <4> QED BY <3>1, <4>1 DEF OrbitAgents
    <3>2. ASSUME NEW m \in late', m.kind = "report"
          PROVE  m.execution \in Executions
      BY <2>1, <3>2, LateCases, InHandTypes
    <3> QED BY <3>1, <3>2 DEF InHand
  <2> QED BY <2>1, <2>2, ExecutionPair DEF TypeOK
<1>1. CASE e \in InHand
  <2>1. Fetched(e)
    BY <1>1 DEF FetchedInv
  <2> QED BY <1>0, <2>1, ExecutionCases DEF Fetched
<1>2. ASSUME NEW h \in Hosts, e \in orbit[h].pending, GetScript(h, e)
      PROVE  Fetched(e)'
  <2>1. /\ runs[x] # None
        /\ runs[x].execution = e
        /\ runs' = [runs EXCEPT ![x].delivered = TRUE]
        /\ queued' = queued
    BY <1>2 DEF GetScript, Found, ghosts
  <2>2. runs[x] \in Runs /\ e[3] <= queued[x]
    BY <1>0, <2>1, RunNumbers DEF IInv, RunInv, RunHolds
  <2>3. runs'[x].delivered
    BY <1>0, <2>1, <2>2 DEF IInv, TypeOK, Runs
  <2> QED BY <2>1, <2>2, <2>3 DEF Fetched
<1> QED BY <1>1, <1>2, InHandCases DEF IInv

LEMMA PendingStep ==
  ASSUME IInv, PendingInv, [Next]_vars
  PROVE  PendingInv'
<1> SUFFICES ASSUME NEW h \in Hosts, NEW e \in orbit'[h].pending
             PROVE  e[2] = h
  BY DEF PendingInv
<1>1. ASSUME NEW g \in Hosts, NEW f \in PendingExecutions(g)
      PROVE  f[2] = g
  BY <1>1 DEF PendingExecutions, PendingRun, Current, IInv, RunInv, RunHolds
<1>2. CASE orbit'[h].pending \subseteq orbit[h].pending
  BY <1>2 DEF PendingInv
<1>3. ASSUME NEW g \in Hosts, MovesOn(g)
      PROVE  orbit'[h].pending \subseteq orbit[h].pending \cup PendingExecutions(h)
  <2>1. PICK agent :
          /\ orbit' = [orbit EXCEPT ![g] = agent]
          /\ agent.pending \subseteq orbit[g].pending \cup PendingExecutions(g)
    BY <1>3 DEF MovesOn
  <2>2. orbit'[h] = IF h = g THEN agent ELSE orbit[h]
    BY <2>1 DEF IInv, TypeOK
  <2> QED BY <2>1, <2>2
<1>4. ASSUME NEW g \in Hosts, NEW f, GetScript(g, f)
      PROVE  orbit'[h].pending \subseteq orbit[h].pending
  <2>1. orbit'[h] = IF h = g
                    THEN [phase |-> "running", pending |-> orbit[g].pending \ {f},
                          execution |-> f, script |-> runs[<<f[1], f[2]>>].script,
                          exit |-> None]
                    ELSE orbit[h]
    BY <1>4 DEF GetScript, IInv, TypeOK
  <2> QED BY <2>1
<1> QED BY <1>1, <1>2, <1>3, <1>4, OrbitCases DEF PendingInv, IInv

LEMMA RefineInit == Init => RefineInv
<1> SUFFICES ASSUME Init PROVE RefineInv
  OBVIOUS
<1>1. /\ \A x \in Pairs : runs[x] = None
      /\ \A h \in Hosts : orbit[h].phase = "idle" /\ orbit[h].pending = {}
      /\ late = {}
  BY DEF Init, IdleOrbit
<1>2. InHand = {}
  BY <1>1 DEF InHand
<1> QED BY <1>1, <1>2, InvInit DEF RefineInv, FreshInv, FetchedInv, PendingInv

LEMMA RefineAlways == Spec => []RefineInv
<1>1. RefineInv /\ [Next]_vars => RefineInv'
  <2>1. IInv /\ [Next]_vars => IInv'
    BY NextTypes, CreatedStep, MembershipStep, RunStep, StatusStep DEF IInv
  <2> QED BY <2>1, FreshStep, FetchedStep, PendingStep DEF RefineInv
<1> QED BY <1>1, RefineInit, PTL DEF Spec

-----------------------------------------------------------------------------
(* The refinement.                                                           *)

LEMMA InitRefines == Init => Remediation!RemediationInit
<1> SUFFICES ASSUME Init PROVE Remediation!RemediationInit
  OBVIOUS
<1>1. ASSUME NEW x \in Pairs PROVE RowOf(x) = Remediation!NoRow
  <2>1. membership[x] = None /\ runs[x] = None /\ queued[x] = 0
    BY DEF Init
  <2> QED BY <2>1 DEF RowOf, RunOf, StatusOf, NoRun, Remediation!NoRow,
                      Remediation!NoRun
<1>2. ASSUME NEW h \in Hosts PROVE RunningOn(h) = {}
  BY DEF Init, IdleOrbit, RunningOn
<1> QED BY <1>1, <1>2 DEF Remediation!RemediationInit, Remediation!Pairs, Pairs

(* The upsert replaces a run only when it has nothing left to do.            *)
LEMMA ReplaceableHasNoWork ==
  ASSUME RefineInv, NEW x \in Pairs, NEW automatic,
         Replaceable(runs[x], NewRun(x, membership[x].failure, automatic))
  PROVE  ~Remediation!HasWork(RunOf(runs[x]))
<1>1. CASE runs[x] = None
  BY <1>1 DEF RunOf, NoRun, Remediation!HasWork
<1>2. CASE runs[x] # None /\ runs[x].exit # None
  BY <1>2 DEF RunOf, Remediation!HasWork
<1>3. CASE runs[x] # None /\ runs[x].exit = None
  <2>1. ~Fresh(x)
    BY <1>3 DEF Replaceable, NewRun, Fresh
  <2>2. runs[x].overtaken
    BY <1>3, <2>1 DEF RefineInv, FreshInv
  <2> QED BY <1>3, <2>2 DEF RunOf, Remediation!HasWork
<1> QED BY <1>1, <1>2, <1>3

(* The columns of a row.                                                     *)
LEMMA RowFields ==
  ASSUME NEW status, NEW failing, NEW run, NEW n, NEW status2, NEW run2
  PROVE  LET r == [status |-> status, failing |-> failing, run |-> run,
                   queued |-> n]
         IN  /\ r.status = status
             /\ r.failing = failing
             /\ r.run = run
             /\ r.queued = n
             /\ [r EXCEPT !.status = status2] =
                  [status |-> status2, failing |-> failing, run |-> run,
                   queued |-> n]
             /\ [r EXCEPT !.run = run2] =
                  [status |-> status, failing |-> failing, run |-> run2,
                   queued |-> n]
OBVIOUS

(* A run that is queued.                                                     *)
LEMMA QueuedRun ==
  ASSUME TypeOK, NEW x \in Pairs, policies[x[1]] # None,
         NEW failure \in Nat, NEW automatic \in BOOLEAN,
         NEW r, r.queued = queued[x]
  PROVE  RunOf(NewRun(x, failure, automatic)) = Remediation!Queued(r, automatic)
<1> DEFINE run == NewRun(x, failure, automatic)
<1>1. run # None
  BY NewRunType, NullAssumption
<1>2. /\ run.execution[3] = queued[x] + 1
      /\ run.automatic = automatic
      /\ run.overtaken = FALSE
      /\ run.delivered = FALSE
      /\ run.exit = None
  BY DEF NewRun
<1> HIDE DEF run
<1>3. RunOf(run) =
        [number |-> queued[x] + 1, automatic |-> automatic, stale |-> FALSE,
         started |-> FALSE, exit |-> None]
  BY <1>1, <1>2 DEF RunOf
<1> QED BY <1>3 DEF Remediation!Queued, run

(* The columns of a run.                                                     *)
LEMMA ExecutedRun ==
  ASSUME NEW number, NEW automatic, NEW stale, NEW started, NEW exit, NEW value
  PROVE  LET run == [number |-> number, automatic |-> automatic,
                     stale |-> stale, started |-> started, exit |-> exit]
         IN  /\ [run EXCEPT !.stale = value] =
                  [number |-> number, automatic |-> automatic,
                   stale |-> value, started |-> started, exit |-> exit]
             /\ [run EXCEPT !.started = value] =
                  [number |-> number, automatic |-> automatic,
                   stale |-> stale, started |-> value, exit |-> exit]
OBVIOUS

LEMMA StaleRun ==
  ASSUME NEW number, NEW automatic, NEW stale, NEW started, NEW exit
  PROVE  Remediation!Stale([number |-> number, automatic |-> automatic,
                            stale |-> stale, started |-> started,
                            exit |-> exit]) =
           [number |-> number, automatic |-> automatic, stale |-> TRUE,
            started |-> started, exit |-> exit]
<1> DEFINE value == TRUE
           run == [number |-> number, automatic |-> automatic,
                   stale |-> stale, started |-> started, exit |-> exit]
<1> HIDE DEF value
<1>1. [run EXCEPT !.stale = value] =
        [number |-> number, automatic |-> automatic, stale |-> value,
         started |-> started, exit |-> exit]
  OBVIOUS
<1> QED BY <1>1, Zenon DEF value, Remediation!Stale

LEMMA RowRefines ==
  ASSUME RefineInv, [Next]_vars, NEW x \in Pairs, ~ScriptFetched
  PROVE  Remediation!RowStep(RowOf(x), RowOf(x)')
<1> DEFINE Failing(m) == m # None /\ m.conclusive = "fail"
           r == RowOf(x)
           s == RowOf(x)'
<1>0. /\ r = [status |-> StatusOf(membership[x]),
              failing |-> Failing(membership[x]),
              run |-> RunOf(runs[x]), queued |-> queued[x]]
      /\ s = [status |-> StatusOf(membership'[x]),
              failing |-> Failing(membership'[x]),
              run |-> RunOf(runs'[x]), queued |-> queued'[x]]
  BY DEF RowOf
<1>a. /\ TypeOK
      /\ runs[x] # None => runs[x] \in Runs /\ membership[x] # None
      /\ membership[x] # None => membership[x] \in Memberships
  BY RunNumbers, MembershipFields DEF RefineInv, IInv, RunInv, RunHolds
<1> HIDE DEF Failing, r, s
<1> SUFFICES Remediation!RowStep(r, s)
  BY DEF r, s
<1>1. CASE Kept(x)
  <2>1. s = r
    BY <1>0, <1>1 DEF Kept
  <2> QED BY <2>1 DEF Remediation!RowStep
<1>2. CASE Dropped(x)
  <2>1. StatusOf(None) = None /\ RunOf(None) = NoRun /\ ~Failing(None)
    BY DEF StatusOf, RunOf, Failing
  <2>2. Failing(membership'[x]) = FALSE
    BY <1>2, <2>1 DEF Dropped, Failing
  <2>3. s = [status |-> None, failing |-> FALSE, run |-> Remediation!NoRun,
             queued |-> r.queued]
    BY <1>0, <1>2, <2>1, <2>2, RowFields DEF Dropped, NoRun, Remediation!NoRun
  <2> QED BY <2>3 DEF Remediation!RowStep, Remediation!Forget
<1>3. CASE Edited(x)
  <2>1. /\ membership'[x] = membership[x]
        /\ queued'[x] = queued[x]
        /\ runs[x] \in Runs
        /\ runs[x] # None
        /\ runs'[x] = [runs[x] EXCEPT !.overtaken = runs'[x].overtaken]
        /\ runs'[x].overtaken \in BOOLEAN
        /\ runs[x].overtaken => runs'[x].overtaken
    BY <1>3, <1>a DEF Edited
  <2>2. runs'[x] # None
    BY <2>1, <1>3, NextTypes, NullAssumption DEF Runs
  <2>3. RunOf(runs'[x]) = [RunOf(runs[x]) EXCEPT !.stale = runs'[x].overtaken]
    BY <2>1, <2>2 DEF RunOf, Runs
  <2>4. CASE runs'[x].overtaken = runs[x].overtaken
    <3>1. RunOf(runs'[x]) = RunOf(runs[x])
      BY <2>1, <2>2, <2>4 DEF RunOf, Runs
    <3>2. s = r
      BY <1>0, <2>1, <3>1
    <3> QED BY <3>2 DEF Remediation!RowStep
  <2>5. CASE runs'[x].overtaken = TRUE
    <3>1. RunOf(runs'[x]) = Remediation!Stale(RunOf(runs[x]))
      BY <2>3, <2>5 DEF Remediation!Stale
    <3>2. s = [r EXCEPT !.run = Remediation!Stale(r.run)]
      BY <1>0, <2>1, <3>1, RowFields
    <3> QED BY <3>2 DEF Remediation!RowStep, Remediation!EditRemediation
  <2>6. runs[x].overtaken \in BOOLEAN
    BY <2>1 DEF Runs
  <2> QED BY <2>1, <2>4, <2>5, <2>6
<1>4. CASE Reasked(x)
  <2>1. runs'[x] = runs[x] /\ queued'[x] = queued[x]
    BY <1>4 DEF Reasked
  <2>2. CASE membership[x] = None
    <3>1. membership'[x] = FirstIssue /\ FirstIssue # None
      BY <1>4, <1>a, <2>2, IssuedType, NullAssumption DEF Reasked, Issued
    <3>2. /\ StatusOf(membership'[x]) = None
          /\ StatusOf(membership[x]) = None
          /\ membership'[x].conclusive = None
      BY <2>2, <3>1 DEF StatusOf, FirstIssue
    <3>3. None # "fail"
      BY NullAssumption DEF Statuses
    <3>4. Failing(membership'[x]) = Failing(membership[x])
      BY <2>2, <3>2, <3>3 DEF Failing
    <3>5. s = r
      BY <1>0, <2>1, <3>2, <3>4
    <3> QED BY <3>5 DEF Remediation!RowStep
  <2>3. CASE membership[x] # None
    <3>1. /\ membership'[x] = [membership[x] EXCEPT !.issued = @ + 1]
          /\ membership'[x] # None
      BY <1>4, <1>a, <2>3, IssuedType, NullAssumption DEF Reasked, Issued
    <3>2. /\ membership'[x].status = membership[x].status
          /\ membership'[x].conclusive = membership[x].conclusive
      BY <1>a, <2>3, <3>1 DEF Memberships
    <3>3. /\ StatusOf(membership'[x]) = StatusOf(membership[x])
          /\ Failing(membership'[x]) = Failing(membership[x])
      BY <2>3, <3>1, <3>2 DEF StatusOf, Failing
    <3>4. s = r
      BY <1>0, <2>1, <3>3
    <3> QED BY <3>4 DEF Remediation!RowStep
  <2> QED BY <2>2, <2>3
<1>5. ASSUME NEW a, Answered(x, a) PROVE Remediation!RowStep(r, s)
  <2> DEFINE m == membership[x]
             n == membership'[x]
             automatic == RunsAutomatically(x, a)
  <2>1. /\ a.status \in Statuses
        /\ m # None
        /\ n # None
        /\ n.status = a.status
        /\ n.conclusive = IF a.status = "error" THEN m.conclusive ELSE a.status
    BY <1>5, AnsweredFields DEF RefineInv
  <2>2. /\ StatusOf(n) = a.status
        /\ a.status = "error" => Failing(n) = Failing(m)
        /\ a.status = "fail" => Failing(n) = TRUE
        /\ a.status = "pass" => Failing(n) = FALSE
    BY <2>1 DEF StatusOf, Failing, Statuses
  <2>3. automatic => /\ runs'[x] = NewRun(x, a.of.sequence, TRUE)
                     /\ queued'[x] = queued[x] + 1
                     /\ a.status = "fail"
                     /\ m.conclusive # "fail"
    BY <1>5, AnsweredFields
       DEF Answered, RefineInv, RunsAutomatically, NewlyFailing
  <2>4. ~automatic =>
          /\ queued'[x] = queued[x]
          /\ \/ runs[x] = None /\ runs'[x] = None
             \/ /\ runs[x] # None
                /\ runs'[x] = [runs[x] EXCEPT
                                 !.overtaken = @ \/ a.status = "pass"]
    BY <1>5, AnsweredFields DEF Answered, RefineInv
  <2> HIDE DEF automatic, m, n
  <2>5. ASSUME ~automatic, a.status # "pass"
        PROVE  RunOf(runs'[x]) = RunOf(runs[x])
    <3>1. CASE runs[x] = None
      BY <2>4, <2>5, <3>1
    <3>2. CASE runs[x] # None
      <4>1. runs[x] \in Runs
        BY <1>a, <3>2
      <4>2. runs[x].overtaken \in BOOLEAN
        BY <4>1 DEF Runs
      <4>3. (runs[x].overtaken \/ a.status = "pass") = runs[x].overtaken
        BY <2>5, <4>2
      <4>4. runs'[x] = [runs[x] EXCEPT !.overtaken = runs[x].overtaken]
        BY <2>4, <2>5, <3>2, <4>3
      <4>5. runs'[x] = runs[x]
        BY <4>1, <4>4 DEF Runs
      <4> QED BY <4>5
    <3> QED BY <3>1, <3>2
  <2>6. ASSUME ~automatic, a.status = "pass"
        PROVE  RunOf(runs'[x]) = Remediation!Stale(RunOf(runs[x]))
    <3>1. CASE runs[x] = None
      <4>1. RunOf(runs'[x]) = NoRun /\ RunOf(runs[x]) = NoRun
        BY <2>4, <2>6, <3>1 DEF RunOf
      <4>2. Remediation!Stale(NoRun) = NoRun
        <5> DEFINE yes == TRUE
                   no == FALSE
        <5> HIDE DEF yes, no
        <5>1. Remediation!Stale([number |-> 0, automatic |-> no, stale |-> yes,
                                 started |-> no, exit |-> None]) =
                [number |-> 0, automatic |-> no, stale |-> TRUE,
                 started |-> no, exit |-> None]
          BY StaleRun
        <5> QED BY <5>1, Zenon DEF NoRun, yes, no
      <4> QED BY <4>1, <4>2
    <3>2. CASE runs[x] # None
      <4>1. runs[x] \in Runs
        BY <1>a, <3>2
      <4>2. (runs[x].overtaken \/ a.status = "pass") = TRUE
        BY <2>6
      <4>3. runs'[x] = [runs[x] EXCEPT !.overtaken = TRUE]
        BY <2>4, <2>6, <3>2, <4>2
      <4>4. runs'[x] \in Runs
        BY <4>1, <4>3 DEF Runs
      <4>5. runs'[x] # None
        BY <4>4, NullAssumption
      <4>6. /\ runs'[x].execution = runs[x].execution
            /\ runs'[x].automatic = runs[x].automatic
            /\ runs'[x].overtaken = TRUE
            /\ runs'[x].delivered = runs[x].delivered
            /\ runs'[x].exit = runs[x].exit
        BY <4>1, <4>3 DEF Runs
      <4>7. RunOf(runs'[x]) =
              [number |-> runs[x].execution[3], automatic |-> runs[x].automatic,
               stale |-> TRUE, started |-> runs[x].delivered,
               exit |-> runs[x].exit]
        BY <4>5, <4>6 DEF RunOf
      <4>8. RunOf(runs[x]) =
              [number |-> runs[x].execution[3], automatic |-> runs[x].automatic,
               stale |-> runs[x].overtaken, started |-> runs[x].delivered,
               exit |-> runs[x].exit]
        BY <3>2 DEF RunOf
      <4> QED BY <4>7, <4>8, StaleRun
    <3> QED BY <3>1, <3>2
  <2>7. CASE automatic
    <3>1. ~r.failing
      <4>1. ~Failing(m)
        BY <2>3, <2>7 DEF Failing
      <4> QED BY <1>0, <4>1, RowFields DEF m
    <3>2. ~Remediation!HasWork(r.run)
      <4>1. CASE runs[x] = None
        BY <1>0, <4>1, RowFields DEF RunOf, NoRun, Remediation!HasWork
      <4>2. CASE runs[x] # None
        <5>1. ~Fresh(x)
          BY <2>3, <2>7 DEF Fresh, m
        <5>2. runs[x].overtaken
          BY <4>2, <5>1 DEF RefineInv, FreshInv
        <5>3. ~Remediation!HasWork(RunOf(runs[x]))
          BY <4>2, <5>2 DEF RunOf, Remediation!HasWork
        <5> QED BY <1>0, <5>3, RowFields
      <4> QED BY <4>1, <4>2
    <3>3. RunOf(runs'[x]) = Remediation!Queued(r, TRUE)
      <4>1. runs'[x] = NewRun(x, a.of.sequence, TRUE)
        BY <2>3, <2>7
      <4>2. a.of.sequence \in Nat /\ policies[x[1]] # None
        BY <1>5, AnsweredFields DEF Answered, RefineInv, Results, Evaluations
      <4>3. r.queued = queued[x]
        BY <1>0, RowFields
      <4> QED BY <1>a, <4>1, <4>2, <4>3, QueuedRun
    <3>4. s = [status |-> "fail", failing |-> TRUE,
               run |-> Remediation!Queued(r, TRUE), queued |-> r.queued + 1]
      BY <1>0, <2>2, <2>3, <2>7, <3>3, RowFields DEF m, n
    <3> QED BY <3>1, <3>2, <3>4
            DEF Remediation!RowStep, Remediation!FailAndRemediate
  <2>8. CASE ~automatic /\ a.status = "fail"
    <3>1. s = [status |-> "fail", failing |-> TRUE, run |-> r.run,
               queued |-> r.queued]
      BY <1>0, <2>2, <2>4, <2>5, <2>8, RowFields DEF m, n
    <3> QED BY <3>1 DEF Remediation!RowStep, Remediation!Fail
  <2>9. CASE ~automatic /\ a.status = "error"
    <3>1. s = [r EXCEPT !.status = "error"]
      BY <1>0, <2>2, <2>4, <2>5, <2>9, RowFields DEF m, n
    <3> QED BY <3>1 DEF Remediation!RowStep, Remediation!Error
  <2>10. CASE ~automatic /\ a.status = "pass"
    <3>1. s = [status |-> "pass", failing |-> FALSE,
               run |-> Remediation!Stale(r.run), queued |-> r.queued]
      BY <1>0, <2>2, <2>4, <2>6, <2>10, RowFields DEF m, n
    <3> QED BY <3>1 DEF Remediation!RowStep, Remediation!Pass
  <2> QED BY <2>1, <2>7, <2>8, <2>9, <2>10 DEF Statuses
<1>6. CASE Requested(x)
  <2>1. /\ membership'[x] = membership[x]
        /\ membership[x] # None
        /\ membership[x].status = "fail"
        /\ policies[x[1]] # None
        /\ Replaceable(runs[x], NewRun(x, membership[x].failure, FALSE))
        /\ runs'[x] = NewRun(x, membership[x].failure, FALSE)
        /\ queued'[x] = queued[x] + 1
    BY <1>6 DEF Requested
  <2>2. StatusOf(membership[x]) = "fail"
    BY <2>1 DEF StatusOf
  <2>3. ~Remediation!HasWork(RunOf(runs[x]))
    BY <2>1, ReplaceableHasNoWork
  <2>4. RunOf(runs'[x]) = Remediation!Queued(r, FALSE)
    <3>1. membership[x].failure \in Nat
      BY <1>a, <2>1, MembershipFields
    <3>2. r.queued = queued[x]
      BY <1>0, RowFields
    <3> QED BY <1>a, <2>1, <3>1, <3>2, QueuedRun
  <2>5. r.status = "fail" /\ ~Remediation!HasWork(r.run)
    BY <1>0, <2>2, <2>3, RowFields
  <2>6. s = [status |-> "fail", failing |-> r.failing,
             run |-> Remediation!Queued(r, FALSE), queued |-> r.queued + 1]
    BY <1>0, <2>1, <2>2, <2>4, RowFields
  <2> QED BY <2>5, <2>6 DEF Remediation!RowStep, Remediation!Request
<1>7. CASE Reported(x)
  <2>1. /\ membership'[x] = membership[x]
        /\ queued'[x] = queued[x]
        /\ runs[x] # None
        /\ runs[x].exit = None
        /\ runs[x].execution \in InHand
    BY <1>7 DEF Reported
  <2>2. PICK exit \in ExitCodes : runs'[x] = [runs[x] EXCEPT !.exit = exit]
    BY <1>7 DEF Reported
  <2>3. /\ runs[x] \in Runs
        /\ <<runs[x].execution[1], runs[x].execution[2]>> = x
    BY <1>a, <2>1, PairFields DEF RefineInv, IInv, RunInv, RunHolds
  <2>4. runs[x].delivered
    BY <2>1, <2>3 DEF RefineInv, FetchedInv, Fetched
  <2>5. /\ RunOf(runs[x]).started
        /\ RunOf(runs[x]).exit = None
    BY <2>1, <2>4 DEF RunOf
  <2>6. runs'[x] \in Runs
    BY <2>2, <2>3 DEF Runs
  <2>7. RunOf(runs'[x]) = [RunOf(runs[x]) EXCEPT !.exit = exit]
    BY <2>1, <2>2, <2>3, <2>6, NullAssumption DEF RunOf, Runs
  <2>8. /\ r.run.started
        /\ r.run.exit = None
        /\ s = [r EXCEPT !.run = [r.run EXCEPT !.exit = exit]]
    BY <1>0, <2>1, <2>5, <2>7, RowFields
  <2> QED BY <2>8 DEF Remediation!RowStep, Remediation!Report
<1> QED BY <1>1, <1>2, <1>3, <1>4, <1>5, <1>6, <1>7, PairCases
        DEF Delivered, RefineInv

(* A host starts the run it has fetched.                                     *)
LEMMA StartRefines ==
  ASSUME RefineInv, NEW h \in Hosts, NEW e \in orbit[h].pending, GetScript(h, e)
  PROVE  Remediation!Start(e[1], h)
<1> DEFINE x == <<e[1], e[2]>>
           row == [y \in Pairs |-> RowOf(y)]
           running == [g \in Hosts |-> RunningOn(g)]
           execution == <<e[1], runs[x].execution[3]>>
<1>1. e \in Executions /\ e[2] = h /\ x \in Pairs
  BY AgentFields, ExecutionPair DEF RefineInv, IInv, PendingInv
<1>2. /\ runs[x] # None
      /\ runs[x].execution = e
      /\ runs[x].exit = None
      /\ Current(x)
  BY DEF GetScript, Found, Fetchable
<1>3. /\ membership[x] # None
      /\ membership[x].status = "fail"
      /\ policies[x[1]] # None
      /\ runs[x].revision = policies[x[1]].remediation
      /\ runs[x].failure = membership[x].failure
  BY <1>2 DEF Current, SameRemediation, Assigned
<1>4. ~runs[x].overtaken
  <2>1. membership[x].conclusive = "fail"
    BY <1>1, <1>3 DEF RefineInv, IInv, MembershipInv
  <2>2. runs[x].revision \in Nat /\ runs[x].failure \in Nat
    BY <1>1, <1>2, RunNumbers DEF RefineInv, IInv
  <2> QED BY <1>1, <1>2, <1>3, <2>1, <2>2 DEF RefineInv, IInv, RunInv, RunHolds
<1>5. running[h] = {}
  BY DEF GetScript, RunningOn
<1>6. row[x].status = "fail" /\ Remediation!HasWork(row[x].run)
  <2>1. StatusOf(membership[x]) = "fail"
    BY <1>3 DEF StatusOf
  <2>2. Remediation!HasWork(RunOf(runs[x]))
    BY <1>2, <1>4 DEF RunOf, Remediation!HasWork
  <2> QED BY <1>1, <2>1, <2>2 DEF RowOf
<1>7. row[x].run.number = e[3]
  <2>1. RunOf(runs[x]).number = e[3]
    BY <1>2 DEF RunOf
  <2> QED BY <1>1, <2>1 DEF RowOf
<1>8. running' = [running EXCEPT ![h] = {<<e[1], e[3]>>}]
  <2>1. orbit' = [orbit EXCEPT ![h] =
          [phase |-> "running", pending |-> orbit[h].pending \ {e},
           execution |-> e, script |-> runs[x].script, exit |-> None]]
    BY DEF GetScript
  <2>2. RunningOn(h)' = {<<e[1], e[3]>>}
    BY <2>1 DEF RunningOn, RefineInv, IInv, TypeOK
  <2>3. ASSUME NEW g \in Hosts, g # h PROVE RunningOn(g)' = RunningOn(g)
    BY <2>1, <2>3 DEF RunningOn, RefineInv, IInv, TypeOK
  <2> HIDE DEF x
  <2> QED BY <2>2, <2>3
<1>9. row' = [row EXCEPT ![x].run.started = TRUE]
  <2> DEFINE yes == TRUE
             Failing(m) == m # None /\ m.conclusive = "fail"
  <2>1. /\ runs' = [runs EXCEPT ![x].delivered = TRUE]
        /\ membership' = membership
        /\ queued' = queued
    BY DEF GetScript, ghosts
  <2>2. ASSUME NEW y \in Pairs, y # x PROVE RowOf(y)' = RowOf(y)
    <3>1. runs'[y] = runs[y]
      BY <2>1, <2>2 DEF RefineInv, IInv, TypeOK
    <3> QED BY <2>1, <3>1 DEF RowOf
  <2>3. RunOf(runs'[x]) = [RunOf(runs[x]) EXCEPT !.started = yes]
    <3>1. runs[x] \in Runs
      BY <1>1, <1>2, RunNumbers DEF RefineInv, IInv
    <3>2. runs'[x] = [runs[x] EXCEPT !.delivered = TRUE]
      BY <1>1, <2>1 DEF RefineInv, IInv, TypeOK
    <3>3. runs'[x] # None
      BY <3>1, <3>2, NullAssumption DEF Runs
    <3>4. /\ runs'[x].execution = runs[x].execution
          /\ runs'[x].automatic = runs[x].automatic
          /\ runs'[x].overtaken = runs[x].overtaken
          /\ runs'[x].delivered = yes
          /\ runs'[x].exit = runs[x].exit
      BY <3>1, <3>2 DEF Runs
    <3> HIDE DEF yes
    <3>5. RunOf(runs'[x]) =
            [number |-> runs[x].execution[3], automatic |-> runs[x].automatic,
             stale |-> runs[x].overtaken, started |-> yes,
             exit |-> runs[x].exit]
      BY <3>3, <3>4 DEF RunOf
    <3>6. RunOf(runs[x]) =
            [number |-> runs[x].execution[3], automatic |-> runs[x].automatic,
             stale |-> runs[x].overtaken, started |-> runs[x].delivered,
             exit |-> runs[x].exit]
      BY <1>2 DEF RunOf
    <3> QED BY <3>5, <3>6, ExecutedRun
  <2>4. RowOf(x)' = [RowOf(x) EXCEPT !.run = [RunOf(runs[x]) EXCEPT !.started = yes]]
    <3>1. /\ RowOf(x) = [status |-> StatusOf(membership[x]),
                         failing |-> Failing(membership[x]),
                         run |-> RunOf(runs[x]), queued |-> queued[x]]
          /\ RowOf(x)' = [status |-> StatusOf(membership'[x]),
                          failing |-> Failing(membership'[x]),
                          run |-> RunOf(runs'[x]), queued |-> queued'[x]]
      BY DEF RowOf
    <3> DEFINE started == [RunOf(runs[x]) EXCEPT !.started = yes]
    <3>2. RunOf(runs'[x]) = started
      BY <2>3
    <3> HIDE DEF Failing, yes, started, x
    <3>3. RowOf(x)' = [status |-> StatusOf(membership[x]),
                       failing |-> Failing(membership[x]),
                       run |-> started, queued |-> queued[x]]
      BY <2>1, <3>1, <3>2
    <3>4. [RowOf(x) EXCEPT !.run = started] =
            [status |-> StatusOf(membership[x]),
             failing |-> Failing(membership[x]),
             run |-> started, queued |-> queued[x]]
      BY <3>1, RowFields
    <3> QED BY <3>3, <3>4 DEF started
  <2>5. RowOf(x).run = RunOf(runs[x])
    BY DEF RowOf
  <2>6. RowOf(x)' = [RowOf(x) EXCEPT !.run.started = yes]
    BY <2>4, <2>5
  <2>7. row' = [row EXCEPT ![x].run.started = yes]
    <3> HIDE DEF x, yes
    <3> QED BY <1>1, <2>2, <2>6
  <2> QED BY <2>7
<1>10. /\ x = <<e[1], h>>
       /\ [y \in Pairs |-> RowOf(y)]' = [y \in Pairs |-> RowOf(y)']
  BY <1>1
<1> HIDE DEF x, row, running
<1> QED BY <1>1, <1>5, <1>6, <1>7, <1>8, <1>9, <1>10 DEF Remediation!Start, row, running, x

LEMMA NextRefines ==
  ASSUME RefineInv, [Next]_vars
  PROVE  [Remediation!RemediationNext]_Remediation!remediation
<1> DEFINE row == [y \in Pairs |-> RowOf(y)]
           running == [g \in Hosts |-> RunningOn(g)]
<1> USE DEF RefineInv, IInv
<1>1. Remediation!Pairs = Pairs
  BY DEF Remediation!Pairs, Pairs
<1>2. ASSUME ~ScriptFetched, running' = running
      PROVE  Remediation!Transaction
  <2>1. \A x \in Pairs : Remediation!RowStep(RowOf(x), RowOf(x)')
    BY <1>2, RowRefines
  <2>2. \A x \in Pairs : row[x] = RowOf(x) /\ row'[x] = RowOf(x)'
    OBVIOUS
  <2>3. row' = [x \in Pairs |-> row'[x]]
    OBVIOUS
  <2> HIDE DEF row, running
  <2>4. \A x \in Pairs : Remediation!RowStep(row[x], row'[x])
    BY <2>1, <2>2
  <2> QED BY <1>1, <1>2, <2>3, <2>4 DEF Remediation!Transaction, row, running
<1>3. CASE UNCHANGED orbit
  <2>1. running' = running
    BY <1>3 DEF RunningOn
  <2>2. ASSUME NEW h \in Hosts, NEW e, GetScript(h, e) PROVE FALSE
    BY <1>3, <2>2 DEF GetScript, TypeOK
  <2> QED BY <1>2, <2>1, <2>2 DEF ScriptFetched, Remediation!RemediationNext
<1>4. ASSUME NEW h \in Hosts, MovesOn(h)
      PROVE  Remediation!Transaction \/ Remediation!Stop(h)
  <2>1. PICK agent :
          /\ orbit' = [orbit EXCEPT ![h] = agent]
          /\ agent.phase # "running"
          /\ orbit[h].phase = "running" => UNCHANGED <<policies, rows, queued>>
    BY <1>4 DEF MovesOn
  <2>2. orbit'[h].phase # "running"
    BY <2>1 DEF TypeOK
  <2>3. ASSUME NEW g \in Hosts, g # h PROVE RunningOn(g)' = RunningOn(g)
    BY <2>1, <2>3 DEF RunningOn, TypeOK
  <2>4. RunningOn(h)' = {}
    BY <2>2 DEF RunningOn
  <2>5. CASE orbit[h].phase # "running"
    <3>1. RunningOn(h) = {}
      BY <2>5 DEF RunningOn
    <3>2. running' = running
      BY <2>3, <2>4, <3>1
    <3>3. ASSUME NEW g \in Hosts, NEW e, GetScript(g, e) PROVE FALSE
      <4>1. orbit[g].phase = "notified" /\ orbit'[g].phase = "running"
        BY <3>3 DEF GetScript, TypeOK
      <4>2. orbit'[g] = orbit[g]
        BY <2>1, <2>2, <4>1 DEF TypeOK
      <4> QED BY <4>1, <4>2
    <3> QED BY <1>2, <3>2, <3>3 DEF ScriptFetched
  <2>6. CASE orbit[h].phase = "running"
    <3>1. RunningOn(h) # {}
      BY <2>6 DEF RunningOn
    <3>2. running' = [running EXCEPT ![h] = {}]
      BY <2>3, <2>4
    <3>3. \A x \in Pairs : RowOf(x)' = RowOf(x)
      BY <2>1, <2>6 DEF RowOf, rows
    <3>4. row' = row
      BY <3>3
    <3> QED BY <3>1, <3>2, <3>4 DEF Remediation!Stop
  <2> QED BY <2>5, <2>6
<1>5. ASSUME NEW h \in Hosts, NEW e \in orbit[h].pending, GetScript(h, e)
      PROVE  e[1] \in PolicyIds /\ Remediation!Start(e[1], h)
  <2>1. <<e[1], e[2]>> \in Pairs
    BY AgentFields, ExecutionPair
  <2> QED BY <1>5, <2>1, StartRefines DEF Pairs
<1> HIDE DEF row, running
<1> QED BY <1>3, <1>4, <1>5, OrbitCases DEF Remediation!RemediationNext

(* The rows of the policy store and the Orbit agents behave as               *)
(* PolicyRemediation allows (RecordEvaluations, RunRemediations,             *)
(* RemediationExecution, RecordRemediationResult).                           *)
THEOREM PoliciesRefine == Spec => ImplementsRemediation
<1>1. Init => Remediation!RemediationInit
  BY InitRefines
<1>2. RefineInv /\ [Next]_vars =>
        [Remediation!RemediationNext]_Remediation!remediation
  BY NextRefines
<1>3. Spec => Remediation!RemediationSpec
  BY <1>1, <1>2, RefineAlways, PTL DEF Spec, Remediation!RemediationSpec
<1> QED BY <1>3 DEF ImplementsRemediation

=============================================================================
