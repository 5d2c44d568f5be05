------------------------ MODULE OsqueryPoliciesProofs ------------------------
(***************************************************************************)
(* Proofs about policies and their remediation, for any policies, hosts,   *)
(* labels and edits, and any history of abandoned rounds and scripts.      *)
(***************************************************************************)
EXTENDS OsqueryPolicies, TLAPS

-----------------------------------------------------------------------------
(* Types.                                                                    *)

LEMMA MutationFields ==
  ASSUME NEW m \in Mutations
  PROVE  /\ m.query \in Queries
         /\ m.script \in Scripts
         /\ m.automatic \in BOOLEAN
         /\ m.targets \in [include : SUBSET Labels, exclude : SUBSET Labels]
BY MutationAssumption DEF Queries, Scripts

LEMMA NewPolicyType ==
  ASSUME NEW m \in Mutations
  PROVE  NewPolicy(m) \in Policies
BY MutationFields DEF NewPolicy, Policies

LEMMA EditedPolicyType ==
  ASSUME TypeOK, NEW p \in PolicyIds, policies[p] # None, NEW m \in Mutations
  PROVE  EditedPolicy(p, m) \in Policies
<1>1. policies[p] \in Policies
  BY DEF TypeOK
<1>2. /\ policies[p].evaluation \in Nat \ {0}
      /\ policies[p].remediation \in Nat \ {0}
  BY <1>1 DEF Policies
<1> QED
  BY <1>2, MutationFields DEF EditedPolicy, Policies

LEMMA IssuedType ==
  ASSUME TypeOK, NEW x \in Pairs
  PROVE  /\ Issued(x) \in Memberships
         /\ Issued(x).issued \in Nat \ {0}
<1>1. FirstIssue \in Memberships
  BY DEF FirstIssue, Memberships
<1>2. membership[x] \in Memberships \cup {None}
  BY DEF TypeOK
<1>3. CASE membership[x] = None
  BY <1>1, <1>3 DEF Issued, Memberships
<1>4. CASE membership[x] # None
  <2>1. membership[x] \in Memberships
    BY <1>2, <1>4
  <2> QED BY <2>1, <1>4 DEF Issued, Memberships
<1> QED BY <1>3, <1>4

LEMMA IssueTypes ==
  ASSUME TypeOK, NEW h \in Hosts, NEW read, IssueEvaluations(h, read)
  PROVE  /\ membership' \in [Pairs -> Memberships \cup {None}]
         /\ issues' \in [Pairs -> Nat]
         /\ \A e \in read : e.policy \in PolicyIds =>
              /\ membership'[<<e.policy, h>>].issued \in Nat \ {0}
              /\ issues'[<<e.policy, h>>] \in Nat \ {0}
<1>1. membership' \in [Pairs -> Memberships \cup {None}]
  BY IssuedType DEF IssueEvaluations, TypeOK
<1>2. issues' \in [Pairs -> Nat]
  BY DEF IssueEvaluations, TypeOK
<1>3. ASSUME NEW e \in read, e.policy \in PolicyIds
      PROVE  /\ membership'[<<e.policy, h>>].issued \in Nat \ {0}
             /\ issues'[<<e.policy, h>>] \in Nat \ {0}
  <2> DEFINE x == <<e.policy, h>>
  <2>1. x \in Pairs /\ x[2] = h /\ e.policy = x[1]
    BY <1>3 DEF Pairs
  <2>2. membership'[x] = Issued(x) /\ issues'[x] = issues[x] + 1
    BY <2>1 DEF IssueEvaluations
  <2>3. issues[x] \in Nat
    BY <2>1 DEF TypeOK
  <2> QED BY <2>1, <2>2, <2>3, IssuedType
<1> QED BY <1>1, <1>2, <1>3

(* What RecordEvaluations does to the row of one host and policy: nothing,   *)
(* or it records one result that it accepted.                                *)
LEMMA RecordCases ==
  ASSUME NEW h \in Hosts, NEW results, RecordEvaluations(h, results),
         NEW x \in Pairs
  PROVE  \/ /\ membership'[x] = membership[x]
            /\ runs'[x] = runs[x]
            /\ queued'[x] = queued[x]
         \/ \E r \in results :
              /\ x = <<r.of.policy, h>>
              /\ Accepted(r.of, h)
              /\ membership'[x] = Recorded(x, r)
              /\ runs'[x] = RecordedRun(x, r)
              /\ queued'[x] = IF RunsAutomatically(x, r) THEN queued[x] + 1
                              ELSE queued[x]
<1> DEFINE A == AcceptedResults(x, h, results)
           r == CHOOSE q \in A : TRUE
<1>1. CASE A = {}
  BY <1>1 DEF RecordEvaluations
<1>2. CASE A # {}
  <2>1. r \in A
    BY <1>2
  <2>2. r \in results /\ x = <<r.of.policy, h>> /\ Accepted(r.of, h)
    BY <2>1 DEF AcceptedResults
  <2>3. /\ membership'[x] = Recorded(x, r)
        /\ runs'[x] = RecordedRun(x, r)
        /\ queued'[x] = IF RunsAutomatically(x, r) THEN queued[x] + 1
                        ELSE queued[x]
    BY <1>2 DEF RecordEvaluations
  <2> QED BY <2>2, <2>3
<1> QED BY <1>1, <1>2

LEMMA RecordDomains ==
  ASSUME NEW h \in Hosts, NEW results, RecordEvaluations(h, results)
  PROVE  /\ membership' = [x \in Pairs |-> membership'[x]]
         /\ runs' = [x \in Pairs |-> runs'[x]]
         /\ queued' = [x \in Pairs |-> queued'[x]]
BY DEF RecordEvaluations

LEMMA NewRunType ==
  ASSUME TypeOK, NEW x \in Pairs, policies[x[1]] # None, NEW failure \in Nat,
         NEW automatic \in BOOLEAN
  PROVE  NewRun(x, failure, automatic) \in Runs
<1>1. x[1] \in PolicyIds /\ x[2] \in Hosts
  BY DEF Pairs
<1>2. policies[x[1]] \in Policies
  BY <1>1 DEF TypeOK
<1>3. queued[x] + 1 \in Nat \ {0}
  BY DEF TypeOK
<1>4. <<x[1], x[2], queued[x] + 1>> \in Executions
  BY <1>1, <1>3 DEF Executions
<1> QED BY <1>2, <1>4 DEF NewRun, Runs, Policies

LEMMA EnqueuedType ==
  ASSUME TypeOK, NEW x \in Pairs, policies[x[1]] # None, NEW failure \in Nat,
         NEW automatic \in BOOLEAN
  PROVE  Enqueued(x, failure, automatic) \in Runs
<1>1. runs[x] \in Runs \cup {None}
  BY DEF TypeOK
<1> QED BY <1>1, NewRunType DEF Enqueued, Replaceable

LEMMA RecordedType ==
  ASSUME TypeOK, NEW x \in Pairs, membership[x] # None, NEW r \in Results
  PROVE  Recorded(x, r) \in Memberships
<1>1. membership[x] \in Memberships
  BY DEF TypeOK
<1>2. r.of \in Evaluations /\ r.status \in Statuses
  BY DEF Results
<1>3. r.of.sequence \in Nat \ {0}
  BY <1>2 DEF Evaluations
<1>4. RunsAutomatically(x, r) \in BOOLEAN
  BY DEF RunsAutomatically
<1> QED
  BY <1>1, <1>2, <1>3, <1>4 DEF Recorded, Memberships, Statuses

LEMMA RecordTypes ==
  ASSUME TypeOK, NEW h \in Hosts, NEW results \in SUBSET Results,
         RecordEvaluations(h, results)
  PROVE  /\ membership' \in [Pairs -> Memberships \cup {None}]
         /\ runs' \in [Pairs -> Runs \cup {None}]
         /\ queued' \in [Pairs -> Nat]
<1>1. ASSUME NEW x \in Pairs
      PROVE  /\ membership'[x] \in Memberships \cup {None}
             /\ runs'[x] \in Runs \cup {None}
             /\ queued'[x] \in Nat
  <2>1. /\ membership[x] \in Memberships \cup {None}
        /\ runs[x] \in Runs \cup {None}
        /\ queued[x] \in Nat
    BY DEF TypeOK
  <2>2. CASE /\ membership'[x] = membership[x]
             /\ runs'[x] = runs[x]
             /\ queued'[x] = queued[x]
    BY <2>1, <2>2
  <2>3. ASSUME NEW r \in results,
               x = <<r.of.policy, h>>,
               Accepted(r.of, h),
               membership'[x] = Recorded(x, r),
               runs'[x] = RecordedRun(x, r),
               queued'[x] = IF RunsAutomatically(x, r) THEN queued[x] + 1
                            ELSE queued[x]
        PROVE  /\ membership'[x] \in Memberships \cup {None}
               /\ runs'[x] \in Runs \cup {None}
               /\ queued'[x] \in Nat
    <3>1. /\ r.of \in Evaluations
          /\ r.status \in Statuses
      BY <2>3 DEF Results
    <3>2. r.of.sequence \in Nat \ {0}
      BY <3>1 DEF Evaluations
    <3>3. membership[x] \in Memberships /\ policies[x[1]] # None
      BY <2>1, <2>3 DEF Accepted, Assigned
    <3>4. Recorded(x, r) \in Memberships
      BY <2>3, <3>3, RecordedType, NullAssumption DEF Accepted
    <3>5. RecordedRun(x, r) \in Runs \cup {None}
      BY <2>1, <3>2, <3>3, EnqueuedType DEF RecordedRun, Runs
    <3> QED BY <2>1, <2>3, <3>4, <3>5
  <2> QED BY <2>2, <2>3, RecordCases
<1> QED BY <1>1, RecordDomains

LEMMA LateRequestFields ==
  ASSUME TypeOK, NEW m \in late
  PROVE  /\ m.host \in Hosts
         /\ m.kind = "read" => m.read \in SUBSET Reads
         /\ m.kind = "write" => m.results \in SUBSET Results
         /\ m.kind = "report" => m.execution \in Executions
                                   /\ m.exit \in ExitCodes
<1>1. m \in LateRequest
  BY DEF TypeOK
<1>2. CASE m \in [kind : {"read"}, host : Hosts, read : SUBSET Reads]
  BY <1>2
<1>3. CASE m \in [kind : {"write"}, host : Hosts, results : SUBSET Results]
  BY <1>3
<1>4. CASE m \in [kind : {"report"}, host : Hosts, execution : Executions,
                  exit : ExitCodes]
  BY <1>4
<1> QED BY <1>1, <1>2, <1>3, <1>4 DEF LateRequest

LEMMA AgentFields ==
  ASSUME TypeOK, NEW h \in Hosts
  PROVE  /\ osquery[h] \in OsqueryAgents
         /\ osquery[h].read \in SUBSET Reads
         /\ osquery[h].work \in SUBSET Evaluations
         /\ osquery[h].results \in SUBSET Results
         /\ orbit[h] \in OrbitAgents
         /\ orbit[h].pending \in SUBSET Executions
         /\ orbit[h].phase = "reporting" =>
              orbit[h].execution \in Executions /\ orbit[h].exit \in ExitCodes
<1>1. osquery[h] \in OsqueryAgents /\ orbit[h] \in OrbitAgents
  BY DEF TypeOK
<1> QED BY <1>1 DEF OsqueryAgents, OrbitAgents

LEMMA IdleTypes ==
  /\ IdleOsquery \in OsqueryAgents
  /\ IdleOrbit \in OrbitAgents
BY DEF IdleOsquery, IdleOrbit, OsqueryAgents, OrbitAgents

LEMMA ReadType ==
  ASSUME TypeOK, NEW p \in PolicyIds, policies[p] # None
  PROVE  [policy |-> p, query |-> policies[p].query,
          revision |-> policies[p].evaluation] \in Reads
<1>1. policies[p] \in Policies
  BY DEF TypeOK
<1> QED BY <1>1 DEF Policies, Reads

LEMMA RunFields ==
  ASSUME TypeOK, NEW x \in Pairs, runs[x] # None
  PROVE  /\ runs[x] \in Runs
         /\ runs[x].execution \in Executions
         /\ runs[x].script \in Scripts
<1>1. runs[x] \in Runs
  BY DEF TypeOK
<1> QED BY <1>1 DEF Runs

LEMMA ReportType ==
  ASSUME TypeOK, NEW e, NEW exit \in ExitCodes,
         RecordRemediationResult(e, exit)
  PROVE  runs' \in [Pairs -> Runs \cup {None}]
<1>1. ASSUME NEW x \in Pairs, runs[x] # None
      PROVE  [runs[x] EXCEPT !.exit = exit] \in Runs
  BY <1>1, RunFields DEF Runs
<1>2. ASSUME NEW x \in Pairs
      PROVE  runs[x] \in Runs \cup {None}
  BY DEF TypeOK
<1> QED BY <1>1, <1>2 DEF RecordRemediationResult

LEMMA InitType == Init => TypeOK
<1> SUFFICES ASSUME Init PROVE TypeOK
  OBVIOUS
<1>1. osquery \in [Hosts -> OsqueryAgents] /\ orbit \in [Hosts -> OrbitAgents]
  BY IdleTypes DEF Init
<1>2. members \in [Labels -> SUBSET Hosts]
  BY DEF Init
<1> QED BY <1>1, <1>2 DEF Init, TypeOK

LEMMA EditTypes ==
  ASSUME TypeOK, Edit
  PROVE  TypeOK'
<1>1. ASSUME NEW p \in PolicyIds, NEW m \in Mutations, Create(p, m)
      PROVE  TypeOK'
  <2>1. policies' \in [PolicyIds -> Policies \cup {None}]
    BY <1>1, NewPolicyType DEF Create, TypeOK
  <2>2. created' \in SUBSET PolicyIds
    BY <1>1 DEF Create, TypeOK
  <2> QED BY <1>1, <2>1, <2>2 DEF Create, TypeOK, rows, agents, ghosts
<1>2. ASSUME NEW p \in PolicyIds, NEW m \in Mutations, Update(p, m)
      PROVE  TypeOK'
  <2>1. policies' \in [PolicyIds -> Policies \cup {None}]
    BY <1>2, EditedPolicyType DEF Update, TypeOK
  <2>2. membership' \in [Pairs -> Memberships \cup {None}]
    BY <1>2 DEF Update, TypeOK
  <2>3. runs' \in [Pairs -> Runs \cup {None}]
    <3>1. ASSUME NEW x \in Pairs, runs[x] # None
          PROVE  [runs[x] EXCEPT
                    !.overtaken = @ \/ RemediationChanged(p, m)] \in Runs
      <4>1. RemediationChanged(p, m) \in BOOLEAN
        BY DEF RemediationChanged
      <4> QED BY <3>1, <4>1, RunFields DEF Runs
    <3>2. ASSUME NEW x \in Pairs
          PROVE  runs[x] \in Runs \cup {None}
      BY DEF TypeOK
    <3> QED BY <1>2, <3>1, <3>2 DEF Update
  <2> QED BY <1>2, <2>1, <2>2, <2>3 DEF Update, TypeOK, agents, ghosts
<1>3. ASSUME NEW p \in PolicyIds, Delete(p)
      PROVE  TypeOK'
  <2>1. policies' \in [PolicyIds -> Policies \cup {None}]
    BY <1>3 DEF Delete, TypeOK
  <2>2. membership' \in [Pairs -> Memberships \cup {None}]
    BY <1>3 DEF Delete, TypeOK
  <2>3. runs' \in [Pairs -> Runs \cup {None}]
    BY <1>3 DEF Delete, TypeOK
  <2> QED BY <1>3, <2>1, <2>2, <2>3 DEF Delete, TypeOK, agents, ghosts
<1>4. ASSUME NEW l \in Labels, NEW h \in Movers, ChangeLabel(l, h)
      PROVE  TypeOK'
  <2>1. members' \in [Labels -> SUBSET Hosts]
    BY <1>4, MoversAssumption DEF ChangeLabel, TypeOK
  <2> QED BY <1>4, <2>1 DEF ChangeLabel, TypeOK, rows, agents, ghosts
<1>5. ASSUME NEW h \in Hosts, ChangeScripts(h)
      PROVE  TypeOK'
  <2>1. scriptable' \in SUBSET Hosts
    BY <1>5 DEF ChangeScripts, TypeOK
  <2> QED BY <1>5, <2>1 DEF ChangeScripts, TypeOK, rows, agents, ghosts
<1>6. ASSUME NEW p \in PolicyIds, NEW selected \in SUBSET Hosts,
             RunRemediations(p, selected)
      PROVE  TypeOK'
  <2>1. ASSUME NEW x \in Pairs, x[1] = p, membership[x] # None
        PROVE  Enqueued(x, membership[x].failure, FALSE) \in Runs
    <3>1. membership[x] \in Memberships
      BY <2>1 DEF TypeOK
    <3>2. membership[x].failure \in Nat
      BY <3>1 DEF Memberships
    <3> QED BY <1>6, <2>1, <3>2, EnqueuedType DEF RunRemediations
  <2>2. runs' \in [Pairs -> Runs \cup {None}]
    <3>1. ASSUME NEW x \in Pairs
          PROVE  runs[x] \in Runs \cup {None}
      BY DEF TypeOK
    <3> QED BY <1>6, <2>1, <3>1 DEF RunRemediations
  <2>3. queued' \in [Pairs -> Nat]
    <3>1. PICK new : queued' = [x \in Pairs |-> IF x \in new
                                               THEN queued[x] + 1
                                               ELSE queued[x]]
      BY <1>6 DEF RunRemediations
    <3>2. ASSUME NEW x \in Pairs
          PROVE  queued[x] \in Nat /\ queued[x] + 1 \in Nat
      BY DEF TypeOK
    <3> QED BY <3>1, <3>2
  <2> QED BY <1>6, <2>2, <2>3 DEF RunRemediations, TypeOK, admin, agents
<1> QED BY <1>1, <1>2, <1>3, <1>4, <1>5, <1>6 DEF Edit

LEMMA OsqueryTypes ==
  ASSUME TypeOK, NEW h \in Hosts, Osquery(h)
  PROVE  TypeOK'
<1>1. CASE BeginRead(h)
  <2> DEFINE read == {[policy |-> p, query |-> policies[p].query,
                       revision |-> policies[p].evaluation] :
                         p \in {q \in PolicyIds : Assigned(q, h)}}
  <2>1. read \in SUBSET Reads
    BY ReadType DEF Assigned
  <2>2. [IdleOsquery EXCEPT !.phase = "reading", !.read = read]
          \in OsqueryAgents
    BY <2>1 DEF IdleOsquery, OsqueryAgents
  <2>3. osquery' \in [Hosts -> OsqueryAgents]
    BY <1>1, <2>2 DEF BeginRead, TypeOK
  <2> QED BY <1>1, <2>3 DEF BeginRead, TypeOK, admin, rows, ghosts
<1>2. CASE FinishRead(h)
  <2> DEFINE read == osquery[h].read
             work == {[policy |-> e.policy, query |-> e.query,
                       revision |-> e.revision,
                       sequence |-> membership'[<<e.policy, h>>].issued,
                       nth |-> issues'[<<e.policy, h>>]] : e \in read}
  <2>1. IssueEvaluations(h, read)
    BY <1>2 DEF FinishRead
  <2>2. ASSUME NEW e \in read
        PROVE  [policy |-> e.policy, query |-> e.query,
                revision |-> e.revision,
                sequence |-> membership'[<<e.policy, h>>].issued,
                nth |-> issues'[<<e.policy, h>>]] \in Evaluations
    <3>1. e \in Reads
      BY AgentFields
    <3>2. /\ e.policy \in PolicyIds
          /\ e.query \in Queries
          /\ e.revision \in Nat \ {0}
      BY <3>1 DEF Reads
    <3>3. /\ membership'[<<e.policy, h>>].issued \in Nat \ {0}
          /\ issues'[<<e.policy, h>>] \in Nat \ {0}
      BY <2>1, <3>2, IssueTypes
    <3> QED BY <3>2, <3>3 DEF Evaluations
  <2>3. work \in SUBSET Evaluations
    BY <2>2
  <2>4. [IdleOsquery EXCEPT !.phase = "working", !.work = work]
          \in OsqueryAgents
    BY <2>3 DEF IdleOsquery, OsqueryAgents
  <2>5. osquery' \in [Hosts -> OsqueryAgents]
    BY <1>2, <2>4 DEF FinishRead, TypeOK
  <2>6. membership' \in [Pairs -> Memberships \cup {None}]
          /\ issues' \in [Pairs -> Nat]
    BY <2>1, IssueTypes
  <2> QED BY <1>2, <2>5, <2>6 DEF FinishRead, TypeOK, admin
<1>3. CASE FailRead(h)
  <2>1. osquery' \in [Hosts -> OsqueryAgents]
    BY <1>3, IdleTypes DEF FailRead, TypeOK
  <2> QED BY <1>3, <2>1 DEF FailRead, TypeOK, admin, rows, ghosts
<1>4. CASE Evaluate(h)
  <2>1. PICK status \in [osquery[h].work -> Statuses] :
          osquery' = [osquery EXCEPT ![h] =
            [IdleOsquery EXCEPT
               !.phase = "writing",
               !.results = {[of |-> e, status |-> status[e]] :
                               e \in osquery[h].work}]]
    BY <1>4 DEF Evaluate
  <2> DEFINE results == {[of |-> e, status |-> status[e]] :
                            e \in osquery[h].work}
  <2>2. results \in SUBSET Results
    BY AgentFields DEF Results
  <2>3. [IdleOsquery EXCEPT !.phase = "writing", !.results = results]
          \in OsqueryAgents
    BY <2>2 DEF IdleOsquery, OsqueryAgents
  <2>4. osquery' \in [Hosts -> OsqueryAgents]
    BY <2>1, <2>3 DEF TypeOK
  <2> QED BY <1>4, <2>4 DEF Evaluate, TypeOK, admin, rows, ghosts
<1>5. CASE DistributedWrite(h)
  <2>1. /\ membership' \in [Pairs -> Memberships \cup {None}]
        /\ runs' \in [Pairs -> Runs \cup {None}]
        /\ queued' \in [Pairs -> Nat]
    BY <1>5, AgentFields, RecordTypes DEF DistributedWrite
  <2>2. osquery' \in [Hosts -> OsqueryAgents] /\ losses' \in Nat
    BY <1>5, IdleTypes DEF DistributedWrite, Lose, TypeOK
  <2> QED BY <1>5, <2>1, <2>2 DEF DistributedWrite, TypeOK, admin
<1> QED BY <1>1, <1>2, <1>3, <1>4, <1>5 DEF Osquery

LEMMA OrbitTypes ==
  ASSUME TypeOK, NEW h \in Hosts, Orbit(h)
  PROVE  TypeOK'
<1>1. CASE OrbitConfig(h)
  <2>1. PendingExecutions(h) \in SUBSET Executions
    BY RunFields DEF PendingExecutions, PendingRun, Current
  <2>2. [orbit[h] EXCEPT !.phase = "notified",
                         !.pending = PendingExecutions(h)] \in OrbitAgents
    BY <1>1, <2>1, AgentFields DEF OrbitConfig, OrbitAgents
  <2>3. orbit' \in [Hosts -> OrbitAgents]
    BY <1>1, <2>2 DEF OrbitConfig, TypeOK
  <2> QED BY <1>1, <2>3 DEF OrbitConfig, TypeOK, admin, rows, ghosts
<1>2. ASSUME NEW e \in orbit[h].pending, GetScript(h, e)
      PROVE  TypeOK'
  <2> DEFINE x == <<e[1], e[2]>>
  <2>1. e \in Executions
    BY AgentFields
  <2>2. x \in Pairs
    BY <2>1 DEF Executions, Pairs
  <2>3. runs[x] # None
    BY <1>2 DEF GetScript, Found
  <2>4. [phase |-> "running", pending |-> orbit[h].pending \ {e},
         execution |-> e, script |-> runs[x].script, exit |-> None]
           \in OrbitAgents
    BY <2>1, <2>2, <2>3, RunFields, AgentFields DEF OrbitAgents
  <2>5. orbit' \in [Hosts -> OrbitAgents]
    BY <1>2, <2>4 DEF GetScript, TypeOK
  <2>6. [runs[x] EXCEPT !.delivered = TRUE] \in Runs
    BY <2>2, <2>3, RunFields DEF Runs
  <2>7. runs' = [runs EXCEPT ![x] = [runs[x] EXCEPT !.delivered = TRUE]]
    BY <1>2, <2>2 DEF GetScript, TypeOK
  <2>8. runs' \in [Pairs -> Runs \cup {None}]
    BY <2>6, <2>7 DEF TypeOK
  <2> QED BY <1>2, <2>5, <2>8 DEF GetScript, TypeOK, admin, ghosts
<1>3. ASSUME NEW e \in orbit[h].pending, SkipScript(h, e)
      PROVE  TypeOK'
  <2>1. Proceed(h, orbit[h].pending \ {e}) \in OrbitAgents
    BY AgentFields, IdleTypes DEF Proceed, IdleOrbit, OrbitAgents
  <2>2. orbit' \in [Hosts -> OrbitAgents]
    BY <1>3, <2>1 DEF SkipScript, TypeOK
  <2> QED BY <1>3, <2>2 DEF SkipScript, TypeOK, admin, rows, ghosts
<1>4. CASE RunScript(h)
  <2>1. PICK exit \in ExitCodes :
          orbit' = [orbit EXCEPT ![h].phase = "reporting", ![h].exit = exit]
    BY <1>4 DEF RunScript
  <2>2. [orbit[h] EXCEPT !.phase = "reporting", !.exit = exit] \in OrbitAgents
    BY <1>4, AgentFields DEF RunScript, OrbitAgents
  <2>3. orbit' \in [Hosts -> OrbitAgents]
    BY <2>1, <2>2 DEF TypeOK
  <2> QED BY <1>4, <2>3 DEF RunScript, TypeOK, admin, rows, ghosts
<1>5. CASE RecordScriptResult(h)
  <2>1. runs' \in [Pairs -> Runs \cup {None}]
    <3>1. orbit[h].exit \in ExitCodes
      BY <1>5, AgentFields DEF RecordScriptResult
    <3> QED BY <1>5, <3>1, ReportType DEF RecordScriptResult
  <2>2. Proceed(h, orbit[h].pending) \in OrbitAgents
    BY AgentFields, IdleTypes DEF Proceed, IdleOrbit, OrbitAgents
  <2>3. orbit' \in [Hosts -> OrbitAgents] /\ losses' \in Nat
    BY <1>5, <2>2 DEF RecordScriptResult, Lose, TypeOK
  <2> QED BY <1>5, <2>1, <2>3 DEF RecordScriptResult, TypeOK, admin, ghosts
<1> QED BY <1>1, <1>2, <1>3, <1>4, <1>5 DEF Orbit

LEMMA FailureTypes ==
  ASSUME TypeOK, Failure
  PROVE  TypeOK'
<1>1. ASSUME NEW h \in Hosts, AbandonRound(h)
      PROVE  TypeOK'
  <2>1. osquery' \in [Hosts -> OsqueryAgents] /\ losses' \in Nat
    BY <1>1, IdleTypes DEF AbandonRound, Lose, TypeOK
  <2>2. /\ [kind |-> "read", host |-> h, read |-> osquery[h].read]
             \in LateRequest
        /\ [kind |-> "write", host |-> h, results |-> osquery[h].results]
             \in LateRequest
    BY AgentFields DEF LateRequest
  <2>3. late' \in SUBSET LateRequest
    BY <1>1, <2>2 DEF AbandonRound, StillDelivered, TypeOK
  <2> QED BY <1>1, <2>1, <2>3 DEF AbandonRound, TypeOK, admin, rows, ghosts
<1>2. ASSUME NEW h \in Hosts, AbandonScript(h)
      PROVE  TypeOK'
  <2>1. orbit' \in [Hosts -> OrbitAgents] /\ losses' \in Nat
    BY <1>2, IdleTypes DEF AbandonScript, Lose, TypeOK
  <2>2. orbit[h].phase = "reporting" =>
          [kind |-> "report", host |-> h, execution |-> orbit[h].execution,
           exit |-> orbit[h].exit] \in LateRequest
    BY AgentFields DEF LateRequest
  <2>3. late' \in SUBSET LateRequest
    BY <1>2, <2>2 DEF AbandonScript, StillDelivered, TypeOK
  <2> QED BY <1>2, <2>1, <2>3 DEF AbandonScript, TypeOK, admin, rows, ghosts
<1>3. ASSUME NEW m \in late, DeliverLateRead(m)
      PROVE  TypeOK'
  <2>1. m.host \in Hosts /\ IssueEvaluations(m.host, m.read)
    BY <1>3, LateRequestFields DEF DeliverLateRead
  <2>2. membership' \in [Pairs -> Memberships \cup {None}]
          /\ issues' \in [Pairs -> Nat]
    BY <2>1, IssueTypes
  <2> QED BY <1>3, <2>2 DEF DeliverLateRead, TypeOK, admin
<1>4. ASSUME NEW m \in late, DeliverLateWrite(m)
      PROVE  TypeOK'
  <2>1. /\ membership' \in [Pairs -> Memberships \cup {None}]
        /\ runs' \in [Pairs -> Runs \cup {None}]
        /\ queued' \in [Pairs -> Nat]
    BY <1>4, LateRequestFields, RecordTypes DEF DeliverLateWrite
  <2> QED BY <1>4, <2>1 DEF DeliverLateWrite, TypeOK, admin
<1>5. ASSUME NEW m \in late, DeliverLateReport(m)
      PROVE  TypeOK'
  <2>1. runs' \in [Pairs -> Runs \cup {None}]
    BY <1>5, LateRequestFields, ReportType DEF DeliverLateReport
  <2> QED BY <1>5, <2>1 DEF DeliverLateReport, TypeOK, admin, ghosts
<1>6. ASSUME NEW m \in late, LoseLateRequest(m)
      PROVE  TypeOK'
  BY <1>6 DEF LoseLateRequest, TypeOK, admin, rows, ghosts
<1> QED BY <1>1, <1>2, <1>3, <1>4, <1>5, <1>6 DEF Failure

LEMMA NextTypes ==
  ASSUME TypeOK, [Next]_vars
  PROVE  TypeOK'
<1>1. CASE UNCHANGED vars
  BY <1>1 DEF vars, TypeOK
<1> QED BY <1>1, EditTypes, OsqueryTypes, OrbitTypes, FailureTypes DEF Next

(* Every row, request and agent is well formed, whatever is edited, lost or  *)
(* resent: a sequence handed to a host is at least 1, as the CHECK           *)
(* constraints of the tables ask (IssueEvaluationsForHost, RecordEvaluations,*)
(* enqueueRemediationBatchTx).                                               *)
THEOREM PoliciesTypeCorrect == Spec => []TypeOK
<1>1. Init => TypeOK
  BY InitType
<1>2. TypeOK /\ [Next]_vars => TypeOK'
  BY NextTypes
<1> QED BY <1>1, <1>2, PTL DEF Spec

-----------------------------------------------------------------------------
(* The inductive invariant.                                                  *)

(* A policy id is assigned once.                                             *)
CreatedInv == \A p \in PolicyIds : policies[p] # None => p \in created

(* What the columns of a membership say of one another: the failure is an    *)
(* answered evaluation, the conclusive status lags behind the status only    *)
(* across errors, and a remediated host has not passed since.                *)
MembershipInv ==
  \A x \in Pairs :
    membership[x] # None =>
      /\ policies[x[1]] # None
      /\ membership[x].failure <= membership[x].completed
      /\ membership[x].completed <= membership[x].issued
      /\ membership[x].status = "fail" => membership[x].conclusive = "fail"
      /\ membership[x].remediated => membership[x].conclusive = "fail"

(* A run belongs to a membership, its ids are never reused, and the columns  *)
(* it is compared by tell that it was overtaken.                             *)
RunHolds(x) ==
  /\ membership[x] # None
  /\ runs[x].execution[1] = x[1]
  /\ runs[x].execution[2] = x[2]
  /\ runs[x].execution[3] <= queued[x]
  /\ runs[x].revision <= policies[x[1]].remediation
  /\ runs[x].failure <= membership[x].failure
  /\ runs[x].overtaken =>
       \/ runs[x].revision < policies[x[1]].remediation
       \/ runs[x].failure < membership[x].failure
       \/ membership[x].conclusive = "pass"

RunInv == \A x \in Pairs : runs[x] # None => RunHolds(x)

IInv ==
  /\ TypeOK
  /\ CreatedInv
  /\ MembershipInv
  /\ RunInv
  /\ StatusAnswersCurrentQuery

LEMMA MembershipFields ==
  ASSUME TypeOK, NEW x \in Pairs, membership[x] # None
  PROVE  /\ membership[x] \in Memberships
         /\ membership[x].status \in Statuses \cup {"pending"}
         /\ membership[x].conclusive \in {"pass", "fail", None}
         /\ membership[x].issued \in Nat
         /\ membership[x].completed \in Nat
         /\ membership[x].failure \in Nat
         /\ membership[x].remediated \in BOOLEAN
<1>1. membership[x] \in Memberships
  BY DEF TypeOK
<1> QED BY <1>1 DEF Memberships

LEMMA PolicyFields ==
  ASSUME TypeOK, NEW p \in PolicyIds, policies[p] # None
  PROVE  /\ policies[p] \in Policies
         /\ policies[p].evaluation \in Nat
         /\ policies[p].remediation \in Nat
<1>1. policies[p] \in Policies
  BY DEF TypeOK
<1> QED BY <1>1 DEF Policies

LEMMA RunNumbers ==
  ASSUME TypeOK, NEW x \in Pairs, runs[x] # None
  PROVE  /\ runs[x] \in Runs
         /\ runs[x].execution[3] \in Nat
         /\ runs[x].revision \in Nat
         /\ runs[x].failure \in Nat
         /\ runs[x].overtaken \in BOOLEAN
<1>1. runs[x] \in Runs /\ runs[x].execution \in Executions
  BY RunFields
<1> QED BY <1>1 DEF Runs, Executions

LEMMA PairFields ==
  ASSUME NEW x \in Pairs
  PROVE  x[1] \in PolicyIds /\ x[2] \in Hosts /\ x = <<x[1], x[2]>>
BY DEF Pairs

(* The executions that are being run or reported.                            *)
InHand ==
  {orbit[h].execution :
     h \in {g \in Hosts : orbit[g].phase \in {"running", "reporting"}}}
    \cup {m.execution : m \in {n \in late : n.kind = "report"}}

(* A step leaves the rows alone, or is one of these.                         *)
LEMMA StepCases ==
  ASSUME TypeOK, [Next]_vars
  PROVE  \/ UNCHANGED <<policies, created, rows, queued>>
         \/ \E p \in PolicyIds, m \in Mutations : Create(p, m)
         \/ \E p \in PolicyIds, m \in Mutations : Update(p, m)
         \/ \E p \in PolicyIds : Delete(p)
         \/ \E p \in PolicyIds, selected \in SUBSET Hosts :
              RunRemediations(p, selected)
         \/ /\ \E h \in Hosts : \E read : IssueEvaluations(h, read)
            /\ UNCHANGED <<policies, created, runs, queued>>
         \/ /\ \E h \in Hosts, results \in SUBSET Results :
                 RecordEvaluations(h, results)
            /\ UNCHANGED <<policies, created>>
         \/ \E h \in Hosts : \E e \in Executions : GetScript(h, e)
         \/ /\ \E e \in InHand, exit \in ExitCodes :
                 RecordRemediationResult(e, exit)
            /\ UNCHANGED <<policies, created, membership, queued>>
<1>1. CASE UNCHANGED vars
  BY <1>1 DEF vars, rows
<1>2. CASE Edit
  BY <1>2 DEF Edit, ChangeLabel, ChangeScripts, rows, ghosts
<1>3. ASSUME NEW h \in Hosts, Osquery(h)
      PROVE  \/ UNCHANGED <<policies, created, rows, queued>>
             \/ /\ \E read : IssueEvaluations(h, read)
                /\ UNCHANGED <<policies, created, runs, queued>>
             \/ /\ \E results \in SUBSET Results :
                     RecordEvaluations(h, results)
                /\ UNCHANGED <<policies, created>>
  <2>1. CASE BeginRead(h) \/ FailRead(h) \/ Evaluate(h)
    BY <2>1 DEF BeginRead, FailRead, Evaluate, admin, rows, ghosts
  <2>2. CASE FinishRead(h)
    BY <2>2 DEF FinishRead, admin
  <2>3. CASE DistributedWrite(h)
    BY <2>3, AgentFields DEF DistributedWrite, admin
  <2> QED BY <1>3, <2>1, <2>2, <2>3 DEF Osquery
<1>4. ASSUME NEW h \in Hosts, Orbit(h)
      PROVE  \/ UNCHANGED <<policies, created, rows, queued>>
             \/ \E e \in Executions : GetScript(h, e)
             \/ /\ \E e \in InHand, exit \in ExitCodes :
                     RecordRemediationResult(e, exit)
                /\ UNCHANGED <<policies, created, membership, queued>>
  <2>1. CASE OrbitConfig(h) \/ RunScript(h)
    BY <2>1 DEF OrbitConfig, RunScript, admin, rows, ghosts
  <2>2. ASSUME NEW e \in orbit[h].pending, GetScript(h, e) \/ SkipScript(h, e)
        PROVE  \/ UNCHANGED <<policies, created, rows, queued>>
               \/ \E f \in Executions : GetScript(h, f)
    BY <2>2, AgentFields DEF SkipScript, admin, rows, ghosts
  <2>3. CASE RecordScriptResult(h)
    <3>1. orbit[h].execution \in InHand /\ orbit[h].exit \in ExitCodes
      BY <2>3, AgentFields DEF RecordScriptResult, InHand
    <3> QED BY <2>3, <3>1 DEF RecordScriptResult, admin, ghosts
  <2> QED BY <1>4, <2>1, <2>2, <2>3 DEF Orbit
<1>5. CASE Failure
  <2>1. ASSUME NEW h \in Hosts, AbandonRound(h) \/ AbandonScript(h)
        PROVE  UNCHANGED <<policies, created, rows, queued>>
    BY <2>1 DEF AbandonRound, AbandonScript, admin, rows, ghosts
  <2>2. ASSUME NEW m \in late, DeliverLateRead(m)
        PROVE  /\ \E h \in Hosts : \E read : IssueEvaluations(h, read)
               /\ UNCHANGED <<policies, created, runs, queued>>
    <3>1. m.host \in Hosts /\ IssueEvaluations(m.host, m.read)
      BY <2>2, LateRequestFields DEF DeliverLateRead
    <3>2. \E h \in Hosts : \E read : IssueEvaluations(h, read)
      BY <3>1
    <3> QED BY <2>2, <3>2 DEF DeliverLateRead, admin
  <2>3. ASSUME NEW m \in late, DeliverLateWrite(m)
        PROVE  /\ \E h \in Hosts, results \in SUBSET Results :
                    RecordEvaluations(h, results)
               /\ UNCHANGED <<policies, created>>
    BY <2>3, LateRequestFields DEF DeliverLateWrite, admin
  <2>4. ASSUME NEW m \in late, DeliverLateReport(m)
        PROVE  /\ \E e \in InHand, exit \in ExitCodes :
                    RecordRemediationResult(e, exit)
               /\ UNCHANGED <<policies, created, membership, queued>>
    <3>1. m.execution \in InHand /\ m.exit \in ExitCodes
      BY <2>4, LateRequestFields DEF DeliverLateReport, InHand
    <3> QED BY <2>4, <3>1 DEF DeliverLateReport, admin, ghosts
  <2>5. ASSUME NEW m \in late, LoseLateRequest(m)
        PROVE  UNCHANGED <<policies, created, rows, queued>>
    BY <2>5 DEF LoseLateRequest, admin, rows, ghosts
  <2> QED BY <1>5, <2>1, <2>2, <2>3, <2>4, <2>5 DEF Failure
<1>6. CASE \E h \in Hosts : Osquery(h)
  BY <1>3, <1>6
<1>7. CASE \E h \in Hosts : Orbit(h)
  BY <1>4, <1>7
<1>8. Next => \/ Edit
              \/ \E h \in Hosts : Osquery(h)
              \/ \E h \in Hosts : Orbit(h)
              \/ Failure
  BY DEF Next
<1> QED BY <1>1, <1>2, <1>5, <1>6, <1>7, <1>8

LEMMA CreatedStep ==
  ASSUME TypeOK, CreatedInv, [Next]_vars
  PROVE  CreatedInv'
<1>1. CASE UNCHANGED <<policies, created>>
  BY <1>1 DEF CreatedInv
<1>2. ASSUME NEW p \in PolicyIds, NEW m \in Mutations, Create(p, m)
      PROVE  CreatedInv'
  BY <1>2 DEF Create, CreatedInv, TypeOK
<1>3. ASSUME NEW p \in PolicyIds, NEW m \in Mutations, Update(p, m)
      PROVE  CreatedInv'
  BY <1>3 DEF Update, CreatedInv, TypeOK
<1>4. ASSUME NEW p \in PolicyIds, Delete(p)
      PROVE  CreatedInv'
  BY <1>4 DEF Delete, CreatedInv, TypeOK
<1>5. ASSUME NEW p \in PolicyIds, NEW selected, RunRemediations(p, selected)
      PROVE  UNCHANGED <<policies, created>>
  BY <1>5 DEF RunRemediations, admin
<1>6. ASSUME NEW h, NEW e, GetScript(h, e)
      PROVE  UNCHANGED <<policies, created>>
  BY <1>6 DEF GetScript, admin
<1> QED BY <1>1, <1>2, <1>3, <1>4, <1>5, <1>6, StepCases

(* What RunRemediations does to the run of one host: nothing, or it queues   *)
(* one for a failing host.                                                   *)
LEMMA RequeueCases ==
  ASSUME NEW p \in PolicyIds, NEW selected, RunRemediations(p, selected),
         NEW x \in Pairs
  PROVE  \/ runs'[x] = runs[x] /\ queued'[x] = queued[x]
         \/ /\ policies[x[1]] # None
            /\ membership[x] # None
            /\ membership[x].status = "fail"
            /\ Replaceable(runs[x], NewRun(x, membership[x].failure, FALSE))
            /\ runs'[x] = NewRun(x, membership[x].failure, FALSE)
            /\ queued'[x] = queued[x] + 1
<1> DEFINE candidates == {y \in Pairs : /\ y[1] = p
                                        /\ y[2] \in selected \cap scriptable
                                        /\ Assigned(p, y[2])
                                        /\ membership[y] # None
                                        /\ membership[y].status = "fail"}
           new == {y \in candidates :
                     Replaceable(runs[y], NewRun(y, membership[y].failure, FALSE))}
<1>1. runs'[x] = IF x \in candidates
                 THEN Enqueued(x, membership[x].failure, FALSE) ELSE runs[x]
  BY DEF RunRemediations
<1>2. queued'[x] = IF x \in new THEN queued[x] + 1 ELSE queued[x]
  BY DEF RunRemediations
<1>3. CASE x \notin candidates
  BY <1>1, <1>2, <1>3
<1>4. CASE x \in candidates
  <2>1. /\ policies[x[1]] # None
        /\ membership[x] # None
        /\ membership[x].status = "fail"
    BY <1>4 DEF Assigned
  <2>2. x \in new <=> Replaceable(runs[x], NewRun(x, membership[x].failure, FALSE))
    BY <1>4
  <2> HIDE DEF candidates, new
  <2> QED BY <1>1, <1>2, <1>4, <2>1, <2>2 DEF Enqueued
<1> QED BY <1>3, <1>4

(* What IssueEvaluations does to the row of one host and policy.             *)
LEMMA IssueCases ==
  ASSUME NEW h \in Hosts, NEW read, IssueEvaluations(h, read), NEW x \in Pairs
  PROVE  \/ membership'[x] = membership[x]
         \/ policies[x[1]] # None /\ membership'[x] = Issued(x)
BY DEF IssueEvaluations

LEMMA MembershipStep ==
  ASSUME TypeOK, CreatedInv, MembershipInv, [Next]_vars
  PROVE  MembershipInv'
<1> SUFFICES ASSUME NEW x \in Pairs, membership'[x] # None
             PROVE  /\ policies'[x[1]] # None
                    /\ membership'[x].failure <= membership'[x].completed
                    /\ membership'[x].completed <= membership'[x].issued
                    /\ membership'[x].status = "fail" =>
                         membership'[x].conclusive = "fail"
                    /\ membership'[x].remediated =>
                         membership'[x].conclusive = "fail"
  BY DEF MembershipInv
<1>1. CASE membership'[x] = membership[x] /\ policies'[x[1]] # None
  BY <1>1 DEF MembershipInv
<1>2. CASE UNCHANGED <<policies, membership>>
  BY <1>1, <1>2 DEF MembershipInv
<1>3. ASSUME NEW p \in PolicyIds, NEW m \in Mutations, Create(p, m)
      PROVE  membership'[x] = membership[x] /\ policies'[x[1]] # None
  <2>1. membership' = membership
    BY <1>3 DEF Create, rows
  <2>2. policies[x[1]] # None
    BY <2>1 DEF MembershipInv
  <2>3. p # x[1]
    BY <1>3, <2>2 DEF Create, CreatedInv
  <2> QED BY <1>3, <2>1, <2>2, <2>3, PairFields DEF Create, TypeOK
<1>4. ASSUME NEW p \in PolicyIds, NEW m \in Mutations, Update(p, m)
      PROVE  membership'[x] = membership[x] /\ policies'[x[1]] # None
  <2>1. membership'[x] = membership[x]
    BY <1>4 DEF Update
  <2>2. policies[x[1]] # None
    BY <2>1 DEF MembershipInv
  <2>3. EditedPolicy(p, m) # None
    BY <1>4, EditedPolicyType, NullAssumption DEF Update
  <2> QED BY <1>4, <2>1, <2>2, <2>3, PairFields DEF Update, TypeOK
<1>5. ASSUME NEW p \in PolicyIds, Delete(p)
      PROVE  membership'[x] = membership[x] /\ policies'[x[1]] # None
  <2>1. membership'[x] = membership[x] /\ x[1] # p
    BY <1>5 DEF Delete
  <2>2. policies[x[1]] # None
    BY <2>1 DEF MembershipInv
  <2> QED BY <1>5, <2>1, <2>2, PairFields DEF Delete, TypeOK
<1>6. ASSUME NEW h \in Hosts, NEW read, IssueEvaluations(h, read),
             UNCHANGED policies, membership'[x] # membership[x]
      PROVE  /\ policies'[x[1]] # None
             /\ membership'[x].failure <= membership'[x].completed
             /\ membership'[x].completed <= membership'[x].issued
             /\ membership'[x].status = "fail" =>
                  membership'[x].conclusive = "fail"
             /\ membership'[x].remediated =>
                  membership'[x].conclusive = "fail"
  <2>1. policies[x[1]] # None /\ membership'[x] = Issued(x)
    BY <1>6, IssueCases
  <2>2. CASE membership[x] = None
    BY <1>6, <2>1, <2>2 DEF Issued, FirstIssue
  <2>3. CASE membership[x] # None
    <3>1. membership'[x] = [membership[x] EXCEPT !.issued = @ + 1]
      BY <2>1, <2>3 DEF Issued
    <3> QED BY <1>6, <2>1, <2>3, <3>1, MembershipFields
            DEF MembershipInv, Memberships
  <2> QED BY <2>2, <2>3
<1>7. ASSUME NEW h \in Hosts, NEW results \in SUBSET Results,
             RecordEvaluations(h, results), UNCHANGED policies,
             membership'[x] # membership[x]
      PROVE  /\ policies'[x[1]] # None
             /\ membership'[x].failure <= membership'[x].completed
             /\ membership'[x].completed <= membership'[x].issued
             /\ membership'[x].status = "fail" =>
                  membership'[x].conclusive = "fail"
             /\ membership'[x].remediated =>
                  membership'[x].conclusive = "fail"
  <2>1. PICK r \in results : /\ x = <<r.of.policy, h>>
                             /\ Accepted(r.of, h)
                             /\ membership'[x] = Recorded(x, r)
    BY <1>7, RecordCases
  <2>2. /\ membership[x] # None
        /\ policies[x[1]] # None
        /\ membership[x].issued = r.of.sequence
        /\ membership[x].completed < r.of.sequence
    BY <2>1, MembershipFields DEF Accepted, Assigned, LatestSequence
  <2>3. /\ membership[x] \in Memberships
        /\ membership[x].failure <= membership[x].completed
        /\ membership[x].status = "fail" => membership[x].conclusive = "fail"
        /\ membership[x].remediated => membership[x].conclusive = "fail"
    BY <2>2, MembershipFields DEF MembershipInv
  <2>4. r.of.sequence \in Nat /\ r.status \in Statuses
    BY <1>7 DEF Results, Evaluations
  <2>5. /\ membership'[x].issued = membership[x].issued
        /\ membership'[x].completed = r.of.sequence
        /\ membership'[x].failure = IF NewlyFailing(membership[x], r)
                                    THEN r.of.sequence
                                    ELSE membership[x].failure
        /\ membership'[x].status = r.status
        /\ membership'[x].conclusive = IF r.status = "error"
                                       THEN membership[x].conclusive
                                       ELSE r.status
    BY <2>1, <2>3 DEF Recorded, Memberships
  <2>6. membership'[x].remediated =>
          \/ membership[x].remediated /\ r.status # "pass"
          \/ RunsAutomatically(x, r)
    BY <2>1, <2>3 DEF Recorded, Memberships
  <2>7. membership'[x].remediated => membership'[x].conclusive = "fail"
    BY <2>3, <2>4, <2>5, <2>6 DEF RunsAutomatically, NewlyFailing, Statuses
  <2> QED BY <1>7, <2>2, <2>3, <2>4, <2>5, <2>7, MembershipFields
<1>8. ASSUME NEW p \in PolicyIds, NEW selected, RunRemediations(p, selected)
      PROVE  UNCHANGED <<policies, membership>>
  BY <1>8 DEF RunRemediations, admin
<1>9. ASSUME NEW h, NEW e, GetScript(h, e)
      PROVE  UNCHANGED <<policies, membership>>
  BY <1>9 DEF GetScript, admin
<1>10. CASE membership'[x] = membership[x] /\ UNCHANGED policies
  <2>1. policies'[x[1]] # None
    BY <1>10 DEF MembershipInv
  <2> QED BY <1>1, <1>10, <2>1
<1> QED
  BY <1>1, <1>2, <1>3, <1>4, <1>5, <1>6, <1>7, <1>8, <1>9, <1>10, StepCases
     DEF rows

LEMMA StatusStep ==
  ASSUME TypeOK, CreatedInv, MembershipInv, StatusAnswersCurrentQuery,
         [Next]_vars
  PROVE  StatusAnswersCurrentQuery'
<1> SUFFICES ASSUME NEW x \in Pairs, membership'[x] # None,
                    membership'[x].status # "pending"
             PROVE  /\ policies'[x[1]] # None
                    /\ membership'[x].answered # None
                    /\ membership'[x].answered.query = policies'[x[1]].query
                    /\ membership'[x].answered.revision
                         = policies'[x[1]].evaluation
  BY DEF StatusAnswersCurrentQuery
<1>1. policies'[x[1]] # None
  BY MembershipStep DEF MembershipInv
<1>2. CASE /\ membership'[x] = membership[x]
           /\ policies'[x[1]].query = policies[x[1]].query
           /\ policies'[x[1]].evaluation = policies[x[1]].evaluation
  BY <1>1, <1>2 DEF StatusAnswersCurrentQuery
<1>3. CASE membership'[x] = membership[x] /\ UNCHANGED policies
  BY <1>2, <1>3
<1>4. ASSUME NEW p \in PolicyIds, NEW m \in Mutations, Create(p, m)
      PROVE  /\ membership'[x] = membership[x]
             /\ policies'[x[1]] = policies[x[1]]
  <2>1. membership' = membership
    BY <1>4 DEF Create, rows
  <2>2. policies[x[1]] # None
    BY <2>1 DEF MembershipInv
  <2>3. p # x[1]
    BY <1>4, <2>2 DEF Create, CreatedInv
  <2> QED BY <1>4, <2>1, <2>3, PairFields DEF Create, TypeOK
<1>5. ASSUME NEW p \in PolicyIds, NEW m \in Mutations, Update(p, m)
      PROVE  /\ membership'[x] = membership[x]
             /\ policies'[x[1]].query = policies[x[1]].query
             /\ policies'[x[1]].evaluation = policies[x[1]].evaluation
  <2>1. membership'[x] = membership[x]
    BY <1>5 DEF Update
  <2>2. CASE x[1] # p
    BY <1>5, <2>1, <2>2, PairFields DEF Update, TypeOK
  <2>3. CASE x[1] = p
    <3>1. ~Invalidated(p, m, x[2])
      BY <1>5, <2>3 DEF Update
    <3>2. policies'[x[1]] = EditedPolicy(p, m)
      BY <1>5, <2>3, PairFields DEF Update, TypeOK
    <3> QED BY <2>1, <2>3, <3>1, <3>2 DEF Invalidated, EditedPolicy
  <2> QED BY <2>2, <2>3
<1>6. ASSUME NEW p \in PolicyIds, Delete(p)
      PROVE  /\ membership'[x] = membership[x]
             /\ policies'[x[1]] = policies[x[1]]
  <2>1. membership'[x] = membership[x] /\ x[1] # p
    BY <1>6 DEF Delete
  <2> QED BY <1>6, <2>1, PairFields DEF Delete, TypeOK
<1>7. ASSUME NEW h \in Hosts, NEW read, IssueEvaluations(h, read),
             UNCHANGED policies, membership'[x] # membership[x]
      PROVE  /\ membership'[x].answered # None
             /\ membership'[x].answered.query = policies'[x[1]].query
             /\ membership'[x].answered.revision = policies'[x[1]].evaluation
  <2>1. membership'[x] = Issued(x)
    BY <1>7, IssueCases
  <2>2. membership[x] # None
    BY <2>1 DEF Issued, FirstIssue
  <2>3. /\ membership'[x].status = membership[x].status
        /\ membership'[x].answered = membership[x].answered
    BY <2>1, <2>2, MembershipFields DEF Issued, Memberships
  <2> QED BY <1>7, <2>2, <2>3 DEF StatusAnswersCurrentQuery
<1>8. ASSUME NEW h \in Hosts, NEW results \in SUBSET Results,
             RecordEvaluations(h, results), UNCHANGED policies,
             membership'[x] # membership[x]
      PROVE  /\ membership'[x].answered # None
             /\ membership'[x].answered.query = policies'[x[1]].query
             /\ membership'[x].answered.revision = policies'[x[1]].evaluation
  <2>1. PICK r \in results : /\ x = <<r.of.policy, h>>
                             /\ Accepted(r.of, h)
                             /\ membership'[x] = Recorded(x, r)
    BY <1>8, RecordCases
  <2>2. membership[x] # None /\ CurrentQuery(r.of)
    BY <2>1 DEF Accepted
  <2>3. membership'[x].answered = r.of
    BY <2>1, <2>2, MembershipFields DEF Recorded, Memberships
  <2>4. r.of # None
    BY <1>8, NullAssumption DEF Results
  <2> QED BY <1>8, <2>1, <2>2, <2>3, <2>4 DEF CurrentQuery
<1>9. ASSUME NEW p \in PolicyIds, NEW selected, RunRemediations(p, selected)
      PROVE  UNCHANGED <<policies, membership>>
  BY <1>9 DEF RunRemediations, admin
<1>10. ASSUME NEW h, NEW e, GetScript(h, e)
      PROVE  UNCHANGED <<policies, membership>>
  BY <1>10 DEF GetScript, admin
<1> QED
  BY <1>1, <1>2, <1>3, <1>4, <1>5, <1>6, <1>7, <1>8, <1>9, <1>10, StepCases
     DEF rows

LEMMA NewRunFields ==
  ASSUME TypeOK, NEW x \in Pairs, NEW failure, NEW automatic
  PROVE  LET run == NewRun(x, failure, automatic) IN
         /\ run.execution[1] = x[1]
         /\ run.execution[2] = x[2]
         /\ run.execution[3] = queued[x] + 1
         /\ run.script = policies[x[1]].script
         /\ run.revision = policies[x[1]].remediation
         /\ run.failure = failure
         /\ run.automatic = automatic
         /\ run.exit = None
         /\ ~run.overtaken
BY DEF NewRun

(* An accepted result that fails anew is later than any failure a run was    *)
(* queued for: the run it queues always replaces.                            *)
LEMMA AutomaticRunReplaces ==
  ASSUME TypeOK, MembershipInv, RunInv, NEW x \in Pairs, NEW r \in Results,
         Accepted(r.of, x[2]), r.of.policy = x[1]
  PROVE  /\ runs[x] # None => runs[x].failure < r.of.sequence
         /\ Enqueued(x, r.of.sequence, TRUE) = NewRun(x, r.of.sequence, TRUE)
<1>1. x = <<r.of.policy, x[2]>>
  BY PairFields
<1>2. membership[x] # None /\ LatestSequence(membership[x], r.of)
  BY <1>1 DEF Accepted
<1>3. r.of.sequence \in Nat
  BY DEF Results, Evaluations
<1>4. membership[x].failure < r.of.sequence
  BY <1>2, <1>3, MembershipFields DEF MembershipInv, LatestSequence
<1>5. runs[x] # None => runs[x].failure < r.of.sequence
  BY <1>2, <1>3, <1>4, MembershipFields, RunNumbers DEF RunInv, RunHolds
<1>6. NewRun(x, r.of.sequence, TRUE).failure = r.of.sequence
  BY DEF NewRun
<1>7. CASE runs[x] = None
  BY <1>5, <1>7 DEF Enqueued, Replaceable
<1>8. CASE runs[x] # None
  <2>1. runs[x].failure \in Nat
    BY <1>8, RunNumbers
  <2>2. runs[x].failure # r.of.sequence
    BY <1>3, <1>5, <1>8, <2>1
  <2>3. Replaceable(runs[x], NewRun(x, r.of.sequence, TRUE))
    BY <1>6, <2>2 DEF Replaceable
  <2> QED BY <1>5, <2>3 DEF Enqueued
<1> QED BY <1>7, <1>8

(* A run that a step neither queues nor overtakes keeps what RunInv says of  *)
(* it when its policy and membership keep, or grow, what it is compared by.  *)
LEMMA RunKept ==
  ASSUME TypeOK, TypeOK', MembershipInv, MembershipInv', RunInv,
         NEW x \in Pairs, runs[x] # None, runs'[x] # None,
         runs'[x].execution = runs[x].execution,
         runs'[x].revision = runs[x].revision,
         runs'[x].failure = runs[x].failure,
         queued[x] <= queued'[x],
         membership'[x] # None,
         policies[x[1]].remediation <= policies'[x[1]].remediation,
         membership[x].failure <= membership'[x].failure,
         runs'[x].overtaken =>
           \/ /\ runs[x].overtaken
              /\ \/ membership'[x].conclusive = membership[x].conclusive
                 \/ membership'[x].conclusive = "pass"
                 \/ membership[x].failure < membership'[x].failure
           \/ policies[x[1]].remediation < policies'[x[1]].remediation
           \/ membership'[x].conclusive = "pass"
  PROVE  RunHolds(x)'
<1>1. membership[x] # None
  BY DEF RunInv, RunHolds
<1>2. policies[x[1]] # None /\ policies'[x[1]] # None
  BY <1>1 DEF MembershipInv
<1>3. policies[x[1]] \in Policies /\ policies'[x[1]] \in Policies
  BY <1>2, PairFields DEF TypeOK
<1>4. membership[x] \in Memberships /\ membership'[x] \in Memberships
  BY <1>1 DEF TypeOK
<1>5. /\ policies[x[1]].remediation \in Nat
      /\ policies'[x[1]].remediation \in Nat
  BY <1>3 DEF Policies
<1>6. /\ membership[x].failure \in Nat
      /\ membership'[x].failure \in Nat
  BY <1>4 DEF Memberships
<1>7. queued[x] \in Nat /\ queued'[x] \in Nat
  BY DEF TypeOK
<1>8. /\ runs[x].execution[3] \in Nat
      /\ runs[x].revision \in Nat
      /\ runs[x].failure \in Nat
  BY RunNumbers
<1>9. /\ runs[x].execution[1] = x[1]
      /\ runs[x].execution[2] = x[2]
      /\ runs[x].execution[3] <= queued[x]
      /\ runs[x].revision <= policies[x[1]].remediation
      /\ runs[x].failure <= membership[x].failure
      /\ runs[x].overtaken =>
           \/ runs[x].revision < policies[x[1]].remediation
           \/ runs[x].failure < membership[x].failure
           \/ membership[x].conclusive = "pass"
  BY DEF RunInv, RunHolds
<1> QED BY <1>5, <1>6, <1>7, <1>8, <1>9 DEF RunHolds

LEMMA RunStep ==
  ASSUME TypeOK, CreatedInv, MembershipInv, RunInv, [Next]_vars
  PROVE  RunInv'
<1>1. TypeOK' /\ MembershipInv'
  BY NextTypes, MembershipStep
<1> SUFFICES ASSUME NEW x \in Pairs, runs'[x] # None
             PROVE  RunHolds(x)'
  BY DEF RunInv, RunHolds
<1>2. ASSUME runs[x] # None
      PROVE  /\ membership[x] # None
             /\ policies[x[1]] # None
             /\ policies[x[1]].remediation \in Nat
             /\ membership[x].failure \in Nat
             /\ queued[x] \in Nat
  <2>1. membership[x] # None
    BY <1>2 DEF RunInv, RunHolds
  <2>2. policies[x[1]] # None
    BY <2>1 DEF MembershipInv
  <2> QED BY <2>1, <2>2, PairFields, PolicyFields, MembershipFields DEF TypeOK
<1>3. CASE UNCHANGED <<policies, rows, queued>>
  BY <1>3 DEF RunInv, RunHolds, rows
<1>4. ASSUME NEW p \in PolicyIds, NEW m \in Mutations, Create(p, m)
      PROVE  RunHolds(x)'
  <2>1. UNCHANGED <<rows, queued>>
    BY <1>4 DEF Create, ghosts
  <2>2. runs[x] # None
    BY <2>1 DEF rows
  <2>3. p # x[1]
    BY <1>2, <1>4, <2>2, PairFields DEF Create, CreatedInv
  <2>4. policies'[x[1]] = policies[x[1]]
    BY <1>4, <2>3, PairFields DEF Create, TypeOK
  <2> QED BY <2>1, <2>2, <2>4 DEF RunInv, RunHolds, rows
<1>5. ASSUME NEW p \in PolicyIds, NEW m \in Mutations, Update(p, m)
      PROVE  RunHolds(x)'
  <2>1. queued' = queued
    BY <1>5 DEF Update, ghosts
  <2>2. CASE x[1] # p
    <3>1. runs'[x] = runs[x] /\ membership'[x] = membership[x]
      BY <1>5, <2>2 DEF Update
    <3>2. policies'[x[1]] = policies[x[1]]
      BY <1>5, <2>2, PairFields DEF Update, TypeOK
    <3> QED BY <2>1, <3>1, <3>2 DEF RunInv, RunHolds
  <2>3. CASE x[1] = p
    <3>1. /\ runs[x] # None
          /\ ~Invalidated(p, m, x[2])
          /\ membership'[x] = membership[x]
          /\ runs'[x] = [runs[x] EXCEPT
                           !.overtaken = @ \/ RemediationChanged(p, m)]
      BY <1>5, <2>3 DEF Update
    <3>2. policies'[x[1]] = EditedPolicy(p, m)
      BY <1>5, <2>3, PairFields DEF Update, TypeOK
    <3>3. policies'[x[1]].remediation =
            IF RemediationChanged(p, m) THEN policies[x[1]].remediation + 1
            ELSE policies[x[1]].remediation
      BY <2>3, <3>2 DEF EditedPolicy
    <3>4. /\ runs'[x].execution = runs[x].execution
          /\ runs'[x].revision = runs[x].revision
          /\ runs'[x].failure = runs[x].failure
          /\ runs'[x].overtaken => runs[x].overtaken \/ RemediationChanged(p, m)
      BY <3>1, RunNumbers DEF Runs
    <3>5. /\ policies[x[1]].remediation <= policies'[x[1]].remediation
          /\ RemediationChanged(p, m) =>
               policies[x[1]].remediation < policies'[x[1]].remediation
      BY <1>2, <3>1, <3>3
    <3>6. queued[x] <= queued'[x] /\ membership[x].failure <= membership'[x].failure
      BY <1>2, <2>1, <3>1
    <3> QED BY <1>1, <1>2, <3>1, <3>4, <3>5, <3>6, RunKept DEF RunHolds
  <2> QED BY <2>2, <2>3
<1>6. ASSUME NEW p \in PolicyIds, Delete(p)
      PROVE  RunHolds(x)'
  <2>1. x[1] # p /\ runs'[x] = runs[x] /\ membership'[x] = membership[x]
    BY <1>6 DEF Delete
  <2>2. policies'[x[1]] = policies[x[1]]
    BY <1>6, <2>1, PairFields DEF Delete, TypeOK
  <2> QED BY <1>6, <2>1, <2>2 DEF RunInv, RunHolds, Delete, ghosts
<1>7. ASSUME NEW p \in PolicyIds, NEW selected, RunRemediations(p, selected)
      PROVE  RunHolds(x)'
  <2>1. UNCHANGED <<policies, membership>>
    BY <1>7 DEF RunRemediations, admin
  <2>2. CASE runs'[x] = runs[x] /\ queued'[x] = queued[x]
    BY <2>1, <2>2 DEF RunInv, RunHolds
  <2>3. CASE /\ policies[x[1]] # None
             /\ membership[x] # None
             /\ runs'[x] = NewRun(x, membership[x].failure, FALSE)
             /\ queued'[x] = queued[x] + 1
    <3>1. /\ runs'[x].execution[1] = x[1]
          /\ runs'[x].execution[2] = x[2]
          /\ runs'[x].execution[3] = queued'[x]
          /\ runs'[x].revision = policies[x[1]].remediation
          /\ runs'[x].failure = membership[x].failure
          /\ ~runs'[x].overtaken
      BY <2>3 DEF NewRun
    <3>2. /\ queued'[x] \in Nat
          /\ policies[x[1]].remediation \in Nat
          /\ membership[x].failure \in Nat
      BY <1>1, <2>3, PairFields, PolicyFields, MembershipFields DEF TypeOK
    <3>3. /\ membership'[x] # None
          /\ membership'[x].failure = membership[x].failure
          /\ policies'[x[1]].remediation = policies[x[1]].remediation
      BY <2>1, <2>3
    <3> QED BY <3>1, <3>2, <3>3 DEF RunHolds
  <2> QED BY <1>7, <2>2, <2>3, RequeueCases
<1>8. ASSUME NEW h \in Hosts, NEW read, IssueEvaluations(h, read),
             UNCHANGED <<policies, runs, queued>>
      PROVE  RunHolds(x)'
  <2>1. runs[x] # None
    BY <1>8
  <2>2. CASE membership'[x] = membership[x]
    BY <1>8, <2>2 DEF RunInv, RunHolds
  <2>3. CASE membership'[x] = Issued(x)
    <3>1. membership'[x] = [membership[x] EXCEPT !.issued = @ + 1]
      BY <1>2, <2>1, <2>3 DEF Issued
    <3>2. /\ membership'[x] # None
          /\ membership'[x].failure = membership[x].failure
          /\ membership'[x].conclusive = membership[x].conclusive
      BY <1>2, <2>1, <2>3, <3>1, IssuedType, MembershipFields, NullAssumption
         DEF Memberships
    <3> QED BY <1>8, <2>1, <3>2 DEF RunInv, RunHolds
  <2> QED BY <1>8, <2>2, <2>3, IssueCases
<1>9. ASSUME NEW h \in Hosts, NEW results \in SUBSET Results,
             RecordEvaluations(h, results), UNCHANGED policies
      PROVE  RunHolds(x)'
  <2>1. CASE /\ membership'[x] = membership[x]
             /\ runs'[x] = runs[x]
             /\ queued'[x] = queued[x]
    BY <1>9, <2>1 DEF RunInv, RunHolds
  <2>2. ASSUME NEW r \in results,
               x = <<r.of.policy, h>>,
               Accepted(r.of, h),
               membership'[x] = Recorded(x, r),
               runs'[x] = RecordedRun(x, r),
               queued'[x] = IF RunsAutomatically(x, r) THEN queued[x] + 1
                            ELSE queued[x]
        PROVE  RunHolds(x)'
    <3>1. r \in Results /\ r.of.policy = x[1] /\ x[2] = h
      BY <1>9, <2>2
    <3>2. r.of.sequence \in Nat /\ r.status \in Statuses
      BY <3>1 DEF Results, Evaluations
    <3>3. /\ membership[x] # None
          /\ policies[x[1]] # None
          /\ LatestSequence(membership[x], r.of)
      BY <2>2 DEF Accepted, Assigned
    <3>4. /\ membership[x] \in Memberships
          /\ membership[x].failure \in Nat
          /\ membership[x].completed \in Nat
          /\ membership[x].failure <= membership[x].completed
      BY <3>3, MembershipFields DEF MembershipInv
    <3>5. membership[x].failure < r.of.sequence
      BY <3>2, <3>3, <3>4 DEF LatestSequence
    <3>6. /\ membership'[x].conclusive = IF r.status = "error"
                                         THEN membership[x].conclusive
                                         ELSE r.status
          /\ membership'[x].failure = IF NewlyFailing(membership[x], r)
                                      THEN r.of.sequence
                                      ELSE membership[x].failure
      BY <2>2, <3>4 DEF Recorded, Memberships
    <3>7. membership'[x] # None
      BY <2>2, <3>1, <3>3, RecordedType, NullAssumption
    <3>8. CASE RunsAutomatically(x, r)
      <4>1. runs'[x] = NewRun(x, r.of.sequence, TRUE)
        BY <2>2, <3>1, <3>8, AutomaticRunReplaces DEF RecordedRun
      <4>2. /\ runs'[x].execution[1] = x[1]
            /\ runs'[x].execution[2] = x[2]
            /\ runs'[x].execution[3] = queued'[x]
            /\ runs'[x].revision = policies[x[1]].remediation
            /\ runs'[x].failure = r.of.sequence
            /\ ~runs'[x].overtaken
        BY <2>2, <3>8, <4>1 DEF NewRun
      <4>3. membership'[x].failure = r.of.sequence
        BY <3>6, <3>8 DEF RunsAutomatically
      <4>4. queued'[x] \in Nat /\ policies[x[1]].remediation \in Nat
        BY <1>1, <3>3, PairFields, PolicyFields DEF TypeOK
      <4> QED BY <1>9, <3>2, <3>7, <4>2, <4>3, <4>4 DEF RunHolds
    <3>9. CASE ~RunsAutomatically(x, r)
      <4>1. runs[x] # None
        BY <2>2, <3>9 DEF RecordedRun
      <4>2. runs'[x] = [runs[x] EXCEPT !.overtaken = @ \/ r.status = "pass"]
        BY <2>2, <3>9, <4>1 DEF RecordedRun
      <4>3. /\ runs'[x].execution = runs[x].execution
            /\ runs'[x].revision = runs[x].revision
            /\ runs'[x].failure = runs[x].failure
            /\ runs'[x].overtaken => runs[x].overtaken \/ r.status = "pass"
        BY <4>1, <4>2, RunNumbers DEF Runs
      <4>4. membership[x].failure <= membership'[x].failure
        BY <3>2, <3>4, <3>5, <3>6
      <4>5. \/ membership'[x].conclusive = membership[x].conclusive
            \/ membership'[x].conclusive = "pass"
            \/ membership[x].failure < membership'[x].failure
        BY <3>2, <3>5, <3>6 DEF NewlyFailing, Statuses
      <4>6. r.status = "pass" => membership'[x].conclusive = "pass"
        BY <3>6
      <4>7. queued[x] <= queued'[x]
              /\ policies[x[1]].remediation <= policies'[x[1]].remediation
        BY <1>2, <1>9, <2>2, <3>9, <4>1
      <4> QED BY <1>1, <3>7, <4>1, <4>3, <4>4, <4>5, <4>6, <4>7, RunKept
              DEF RunHolds
    <3> QED BY <3>8, <3>9
  <2> QED BY <1>9, <2>1, <2>2, RecordCases
<1>10. ASSUME NEW h \in Hosts, NEW e \in Executions, GetScript(h, e)
       PROVE  RunHolds(x)'
  <2> DEFINE y == <<e[1], e[2]>>
  <2>1. y \in Pairs
    BY DEF Executions, Pairs
  <2>2. UNCHANGED <<policies, membership, queued>>
    BY <1>10 DEF GetScript, admin, ghosts
  <2>3. CASE x # y
    <3>1. runs'[x] = runs[x]
      BY <1>10, <2>3 DEF GetScript, TypeOK
    <3> QED BY <2>2, <3>1 DEF RunInv, RunHolds
  <2>4. CASE x = y
    <3>1. runs[x] # None
      BY <1>10, <2>4 DEF GetScript, Found
    <3>2. runs'[x] = [runs[x] EXCEPT !.delivered = TRUE]
      BY <1>10, <2>1, <2>4 DEF GetScript, TypeOK
    <3>3. /\ runs'[x].execution = runs[x].execution
          /\ runs'[x].revision = runs[x].revision
          /\ runs'[x].failure = runs[x].failure
          /\ runs'[x].overtaken = runs[x].overtaken
      BY <3>1, <3>2, RunNumbers DEF Runs
    <3> QED BY <2>2, <3>1, <3>3 DEF RunInv, RunHolds
  <2> QED BY <2>3, <2>4
<1>11. ASSUME NEW e, NEW exit \in ExitCodes, RecordRemediationResult(e, exit),
              UNCHANGED <<policies, membership, queued>>
       PROVE  RunHolds(x)'
  <2>1. CASE runs'[x] = runs[x]
    BY <1>11, <2>1 DEF RunInv, RunHolds
  <2>2. CASE runs[x] # None /\ runs'[x] = [runs[x] EXCEPT !.exit = exit]
    <3>1. /\ runs'[x].execution = runs[x].execution
          /\ runs'[x].revision = runs[x].revision
          /\ runs'[x].failure = runs[x].failure
          /\ runs'[x].overtaken = runs[x].overtaken
      BY <2>2, RunNumbers DEF Runs
    <3> QED BY <1>11, <2>2, <3>1 DEF RunInv, RunHolds
  <2> QED BY <1>11, <2>1, <2>2 DEF RecordRemediationResult
<1> QED
  BY <1>3, <1>4, <1>5, <1>6, <1>7, <1>8, <1>9, <1>10, <1>11, StepCases

LEMMA InvInit == Init => IInv
<1> SUFFICES ASSUME Init PROVE IInv
  OBVIOUS
<1>1. TypeOK
  BY InitType
<1>2. /\ \A p \in PolicyIds : policies[p] = None
      /\ \A x \in Pairs : membership[x] = None /\ runs[x] = None
  BY DEF Init
<1> QED BY <1>1, <1>2
           DEF IInv, CreatedInv, MembershipInv, RunInv, StatusAnswersCurrentQuery

LEMMA InvAlways == Spec => []IInv
<1>1. IInv /\ [Next]_vars => IInv'
  BY NextTypes, CreatedStep, MembershipStep, RunStep, StatusStep DEF IInv
<1> QED BY <1>1, InvInit, PTL DEF Spec

(* The status of a host answers the policy's present query, under its        *)
(* present revision, however often the policy returned to an earlier query   *)
(* and however late the answer came.                                         *)
THEOREM StatusIsCurrent == Spec => []StatusAnswersCurrentQuery
<1>1. IInv => StatusAnswersCurrentQuery
  BY DEF IInv
<1> QED BY <1>1, InvAlways, PTL

-----------------------------------------------------------------------------
(* What no step does to a run.                                               *)

(* A step that gives a pair another execution queues a new run for it.       *)
LEMMA RunCases ==
  ASSUME TypeOK, MembershipInv, RunInv, [Next]_vars,
         NEW x \in Pairs, runs'[x] # None
  PROVE  \/ /\ runs[x] # None
            /\ runs'[x].execution = runs[x].execution
            /\ runs'[x].automatic = runs[x].automatic
            /\ runs[x].exit # None => runs'[x].exit = runs[x].exit
         \/ /\ membership[x] # None
            /\ membership[x].status = "fail"
            /\ Replaceable(runs[x], NewRun(x, membership[x].failure, FALSE))
            /\ runs'[x] = NewRun(x, membership[x].failure, FALSE)
         \/ /\ membership[x] # None
            /\ membership[x].conclusive # "fail"
            /\ \E sequence : runs'[x] = NewRun(x, sequence, TRUE)
<1>1. CASE runs'[x] = runs[x]
  BY <1>1
<1>2. ASSUME NEW p \in PolicyIds, NEW m \in Mutations, Create(p, m)
      PROVE  runs'[x] = runs[x]
  BY <1>2 DEF Create, rows
<1>3. ASSUME NEW p \in PolicyIds, NEW m \in Mutations, Update(p, m),
             runs'[x] # runs[x]
      PROVE  /\ runs[x] # None
             /\ runs'[x].execution = runs[x].execution
             /\ runs'[x].automatic = runs[x].automatic
             /\ runs[x].exit # None => runs'[x].exit = runs[x].exit
  <2>1. /\ runs[x] # None
        /\ runs'[x] = [runs[x] EXCEPT
                         !.overtaken = @ \/ RemediationChanged(p, m)]
    BY <1>3 DEF Update
  <2> QED BY <2>1, RunNumbers DEF Runs
<1>4. ASSUME NEW p \in PolicyIds, Delete(p)
      PROVE  runs'[x] = runs[x]
  BY <1>4 DEF Delete
<1>5. ASSUME NEW p \in PolicyIds, NEW selected, RunRemediations(p, selected),
             runs'[x] # runs[x]
      PROVE  /\ membership[x] # None
             /\ membership[x].status = "fail"
             /\ Replaceable(runs[x], NewRun(x, membership[x].failure, FALSE))
             /\ runs'[x] = NewRun(x, membership[x].failure, FALSE)
  BY <1>5, RequeueCases
<1>6. ASSUME NEW h \in Hosts, NEW results \in SUBSET Results,
             RecordEvaluations(h, results), runs'[x] # runs[x]
      PROVE  \/ /\ runs[x] # None
                /\ runs'[x].execution = runs[x].execution
                /\ runs'[x].automatic = runs[x].automatic
                /\ runs[x].exit # None => runs'[x].exit = runs[x].exit
             \/ /\ membership[x] # None
                /\ membership[x].conclusive # "fail"
                /\ \E sequence : runs'[x] = NewRun(x, sequence, TRUE)
  <2>1. PICK r \in results : /\ x = <<r.of.policy, h>>
                             /\ Accepted(r.of, h)
                             /\ runs'[x] = RecordedRun(x, r)
    BY <1>6, RecordCases
  <2>2. CASE RunsAutomatically(x, r)
    <3>1. r \in Results /\ r.of.policy = x[1] /\ x[2] = h
      BY <1>6, <2>1
    <3>2. runs'[x] = NewRun(x, r.of.sequence, TRUE)
      BY <2>1, <2>2, <3>1, AutomaticRunReplaces DEF RecordedRun
    <3>3. membership[x] # None /\ membership[x].conclusive # "fail"
      BY <2>1, <2>2 DEF Accepted, RunsAutomatically, NewlyFailing
    <3> QED BY <3>2, <3>3
  <2>3. CASE ~RunsAutomatically(x, r)
    <3>1. /\ runs[x] # None
          /\ runs'[x] = [runs[x] EXCEPT !.overtaken = @ \/ r.status = "pass"]
      BY <2>1, <2>3 DEF RecordedRun
    <3> QED BY <3>1, RunNumbers DEF Runs
  <2> QED BY <2>2, <2>3
<1>7. ASSUME NEW h \in Hosts, NEW e \in Executions, GetScript(h, e),
             runs'[x] # runs[x]
      PROVE  /\ runs[x] # None
             /\ runs'[x].execution = runs[x].execution
             /\ runs'[x].automatic = runs[x].automatic
             /\ runs[x].exit # None => runs'[x].exit = runs[x].exit
  <2>1. x = <<e[1], e[2]>>
    BY <1>7 DEF GetScript, TypeOK
  <2>2. runs[x] # None
    BY <1>7, <2>1 DEF GetScript, Found
  <2>3. runs'[x] = [runs[x] EXCEPT !.delivered = TRUE]
    BY <1>7, <2>1 DEF GetScript, TypeOK
  <2> QED BY <2>2, <2>3, RunNumbers DEF Runs
<1>8. ASSUME NEW e, NEW exit \in ExitCodes, RecordRemediationResult(e, exit),
             runs'[x] # runs[x]
      PROVE  /\ runs[x] # None
             /\ runs'[x].execution = runs[x].execution
             /\ runs'[x].automatic = runs[x].automatic
             /\ runs[x].exit # None => runs'[x].exit = runs[x].exit
  <2>1. /\ runs[x] # None
        /\ runs[x].exit = None
        /\ runs'[x] = [runs[x] EXCEPT !.exit = exit]
    BY <1>8 DEF RecordRemediationResult
  <2> QED BY <2>1, RunNumbers DEF Runs
<1> QED
  BY <1>1, <1>2, <1>3, <1>4, <1>5, <1>6, <1>7, <1>8, StepCases DEF rows

(* Automatic remediation queues one run for a failure: none for a host that  *)
(* has not passed since the last one was queued.                             *)
THEOREM OneAutomaticRun == Spec => OneAutomaticRunPerFailure
<1> DEFINE P == \A x \in Pairs :
                  /\ membership[x] # None
                  /\ membership[x].remediated
                  /\ runs'[x] # None
                  /\ runs'[x].automatic
                  => runs'[x].execution = IF runs[x] = None THEN None
                                          ELSE runs[x].execution
<1>1. ASSUME IInv, [Next]_vars PROVE P
  <2> SUFFICES ASSUME NEW x \in Pairs,
                      membership[x] # None,
                      membership[x].remediated,
                      runs'[x] # None,
                      runs'[x].automatic
               PROVE  runs'[x].execution = IF runs[x] = None THEN None
                                           ELSE runs[x].execution
    OBVIOUS
  <2>1. membership[x].conclusive = "fail"
    BY <1>1 DEF IInv, MembershipInv
  <2>2. runs'[x] # NewRun(x, membership[x].failure, FALSE)
    BY DEF NewRun
  <2> QED BY <1>1, <2>1, <2>2, RunCases DEF IInv
<1>2. IInv /\ [Next]_vars => [P]_vars
  BY <1>1
<1>3. Spec => [][P]_vars
  BY <1>2, InvAlways, PTL DEF Spec
<1> QED BY <1>3 DEF OneAutomaticRunPerFailure

(* Asking for a remediation again, by hand or by a result, does not queue a  *)
(* run twice: the execution of a pending current run stays until the host    *)
(* fails anew.                                                               *)
THEOREM PendingRunStays == Spec => PendingRunIsNotRequeued
<1> DEFINE P == \A x \in Pairs :
                  PendingRun(x) /\ runs'[x] # None
                    /\ runs'[x].execution # runs[x].execution
                  => membership'[x].failure # membership[x].failure
<1>1. ASSUME IInv, [Next]_vars PROVE P
  <2> SUFFICES ASSUME NEW x \in Pairs,
                      PendingRun(x),
                      runs'[x] # None,
                      runs'[x].execution # runs[x].execution
               PROVE  FALSE
    OBVIOUS
  <2>1. /\ runs[x] # None
        /\ membership[x] # None
        /\ membership[x].status = "fail"
        /\ runs[x].revision = policies[x[1]].remediation
        /\ runs[x].script = policies[x[1]].script
        /\ runs[x].failure = membership[x].failure
        /\ runs[x].exit = None
    BY DEF PendingRun, Current, SameRemediation
  <2>2. membership[x].conclusive = "fail"
    BY <1>1, <2>1 DEF IInv, MembershipInv
  <2>3. ~Replaceable(runs[x], NewRun(x, membership[x].failure, FALSE))
    BY <2>1 DEF Replaceable, NewRun
  <2> QED BY <1>1, <2>1, <2>2, <2>3, RunCases DEF IInv
<1>2. IInv /\ [Next]_vars => [P]_vars
  BY <1>1
<1>3. Spec => [][P]_vars
  BY <1>2, InvAlways, PTL DEF Spec
<1> QED BY <1>3 DEF PendingRunIsNotRequeued

(* The first report of an execution stands.                                  *)
THEOREM FirstReport == Spec => FirstReportStands
<1> DEFINE P == \A x \in Pairs :
                  /\ runs[x] # None
                  /\ runs[x].exit # None
                  /\ runs'[x] # None
                  /\ runs'[x].execution = runs[x].execution
                  => runs'[x].exit = runs[x].exit
<1>1. ASSUME IInv, [Next]_vars PROVE P
  <2> SUFFICES ASSUME NEW x \in Pairs,
                      runs[x] # None,
                      runs[x].exit # None,
                      runs'[x] # None,
                      runs'[x].execution = runs[x].execution
               PROVE  runs'[x].exit = runs[x].exit
    OBVIOUS
  <2>1. runs[x].execution[3] \in Nat /\ queued[x] \in Nat
    BY <1>1, RunNumbers DEF IInv, TypeOK
  <2>2. runs[x].execution[3] <= queued[x]
    BY <1>1 DEF IInv, RunInv, RunHolds
  <2>3. ASSUME NEW failure, NEW automatic
        PROVE  runs'[x] # NewRun(x, failure, automatic)
    <3>1. NewRun(x, failure, automatic).execution[3] = queued[x] + 1
      BY DEF NewRun
    <3>2. runs'[x].execution[3] # queued[x] + 1
      BY <2>1, <2>2
    <3> QED BY <3>1, <3>2
  <2> QED BY <1>1, <2>3, RunCases DEF IInv
<1>2. IInv /\ [Next]_vars => [P]_vars
  BY <1>1
<1>3. Spec => [][P]_vars
  BY <1>2, InvAlways, PTL DEF Spec
<1> QED BY <1>3 DEF FirstReportStands

LEMMA StartCases ==
  ASSUME TypeOK, [Next]_vars, NEW h \in Hosts,
         orbit[h].phase = "notified", orbit'[h].phase = "running"
  PROVE  \E e \in Executions : GetScript(h, e)
<1>1. orbit' # orbit
  OBVIOUS
<1>2. ASSUME NEW g \in Hosts, NEW agent,
             orbit' = [orbit EXCEPT ![g] = agent],
             agent.phase # "running"
      PROVE  FALSE
  BY <1>2 DEF TypeOK
<1>3. ~Edit
  BY <1>1 DEF Edit, Create, Update, Delete, ChangeLabel, ChangeScripts,
              RunRemediations, agents
<1>4. ASSUME NEW g \in Hosts PROVE ~Osquery(g)
  BY <1>1 DEF Osquery, BeginRead, FinishRead, FailRead, Evaluate,
              DistributedWrite
<1>5. ~Failure
  <2>1. ASSUME NEW g \in Hosts PROVE ~AbandonRound(g)
    BY <1>1 DEF AbandonRound
  <2>2. ASSUME NEW g \in Hosts PROVE ~AbandonScript(g)
    BY <1>2 DEF AbandonScript, IdleOrbit
  <2>3. ASSUME NEW m
        PROVE  /\ ~DeliverLateRead(m)
               /\ ~DeliverLateWrite(m)
               /\ ~DeliverLateReport(m)
               /\ ~LoseLateRequest(m)
    BY <1>1 DEF DeliverLateRead, DeliverLateWrite, DeliverLateReport,
                LoseLateRequest
  <2> QED BY <2>1, <2>2, <2>3 DEF Failure
<1>6. ASSUME NEW g \in Hosts, Orbit(g)
      PROVE  \E e \in Executions : GetScript(h, e)
  <2>1. ~OrbitConfig(g)
    BY DEF OrbitConfig, TypeOK
  <2>2. ASSUME NEW pending PROVE Proceed(g, pending).phase # "running"
    BY DEF Proceed, IdleOrbit
  <2>3. ASSUME NEW e PROVE ~SkipScript(g, e)
    BY <1>2, <2>2 DEF SkipScript
  <2>4. ~RunScript(g)
    BY DEF RunScript, TypeOK
  <2>5. ~RecordScriptResult(g)
    BY <1>1, <1>2, <2>2 DEF RecordScriptResult
  <2>6. PICK e \in orbit[g].pending : GetScript(g, e)
    BY <1>6, <2>1, <2>3, <2>4, <2>5 DEF Orbit
  <2>7. g = h
    BY <2>6 DEF GetScript, TypeOK
  <2> QED BY <2>6, <2>7, AgentFields
<1> QED BY <1>1, <1>3, <1>4, <1>5, <1>6 DEF Next, vars

(* A script a host starts is the present one of its policy, queued for the   *)
(* failure the host is in.                                                   *)
THEOREM StartedRuns == Spec => StartedRunsAreCurrent
<1> DEFINE P == \A h \in Hosts :
                  orbit[h].phase = "notified" /\ orbit'[h].phase = "running" =>
                    LET e == orbit'[h].execution
                        run == runs[<<e[1], e[2]>>]
                    IN  /\ run.execution = e
                        /\ ~run.overtaken
                        /\ run.script = policies[e[1]].script
<1>1. ASSUME IInv, [Next]_vars PROVE P
  <2> SUFFICES ASSUME NEW h \in Hosts,
                      orbit[h].phase = "notified",
                      orbit'[h].phase = "running"
               PROVE  LET e == orbit'[h].execution
                          run == runs[<<e[1], e[2]>>]
                      IN  /\ run.execution = e
                          /\ ~run.overtaken
                          /\ run.script = policies[e[1]].script
    OBVIOUS
  <2>1. PICK e \in Executions : GetScript(h, e)
    BY <1>1, StartCases DEF IInv
  <2> DEFINE x == <<e[1], e[2]>>
  <2>2. x \in Pairs /\ x[1] = e[1]
    BY DEF Executions, Pairs
  <2>3. orbit'[h].execution = e
    BY <1>1, <2>1 DEF GetScript, IInv, TypeOK
  <2>4. runs[x].execution = e /\ Current(x)
    BY <2>1 DEF GetScript, Found, Fetchable
  <2>5. /\ runs[x] # None
        /\ membership[x] # None
        /\ policies[x[1]] # None
        /\ membership[x].status = "fail"
        /\ runs[x].revision = policies[x[1]].remediation
        /\ runs[x].script = policies[x[1]].script
        /\ runs[x].failure = membership[x].failure
    BY <2>4 DEF Current, SameRemediation, Assigned
  <2>6. membership[x].conclusive = "fail"
    BY <1>1, <2>2, <2>5 DEF IInv, MembershipInv
  <2>7. runs[x].revision \in Nat /\ runs[x].failure \in Nat
    BY <1>1, <2>2, <2>5, RunNumbers DEF IInv
  <2>8. runs[x].overtaken =>
          \/ runs[x].revision < policies[x[1]].remediation
          \/ runs[x].failure < membership[x].failure
          \/ membership[x].conclusive = "pass"
    BY <1>1, <2>2, <2>5 DEF IInv, RunInv, RunHolds
  <2>9. ~runs[x].overtaken
    BY <2>5, <2>6, <2>7, <2>8
  <2> QED BY <2>2, <2>3, <2>4, <2>5, <2>9
<1>2. IInv /\ [Next]_vars => [P]_vars
  BY <1>1
<1>3. Spec => [][P]_vars
  BY <1>2, InvAlways, PTL DEF Spec
<1> QED BY <1>3 DEF StartedRunsAreCurrent

=============================================================================
