---------------------------- MODULE OsqueryPolicies ----------------------------
(***************************************************************************)
(* Policies and their remediation: the store of internal/osquery/policies, *)
(* the distributed read and write handlers of internal/osquery and the     *)
(* script handlers of internal/orbit that drive it, and the two agents of  *)
(* each host.                                                              *)
(*                                                                         *)
(* osquery reads its queries, evaluates them and writes the answers, one   *)
(* round at a time.  Orbit polls its configuration, fetches the scripts it *)
(* is notified of, runs them and reports.  Either may crash, or lose a     *)
(* request or an answer, in any phase; LateRequests bounds the requests    *)
(* that a proxy still delivers after their sender has given them up.       *)
(*                                                                         *)
(* A transaction of the store that locks the policy row is one step.       *)
(* IssueEvaluationsForHost takes no such lock: other transactions may      *)
(* commit between its snapshot and its upsert, so it is two steps.         *)
(***************************************************************************)
EXTENDS Integers, FiniteSets

CONSTANTS
  Hosts,
  PolicyIds,     \* ids the policy table can assign, each once
  Labels,
  Movers,        \* hosts whose labels change
  Mutations,     \* what an administrator can save as a policy
  NoScript,      \* the empty remediation script
  ExitCodes,     \* exit codes of a script
  MaxRevision,   \* bound on a policy's two revisions
  MaxIssues,     \* bound on the evaluations issued to a host for a policy
  MaxRuns,       \* bound on the remediation runs of a host and policy that
                 \* RunRemediations may extend
  MaxLosses,     \* bound on crashes, lost messages and resent requests
  LateRequests,  \* requests given up by their sender and still on the way
  None           \* SQL NULL, or no row

Queries == {m.query : m \in Mutations}
Scripts == {m.script : m \in Mutations}

(* A policy mutation after validation.                                       *)
ASSUME MutationAssumption ==
  \A m \in Mutations :
    /\ m = [query |-> m.query, script |-> m.script,
            automatic |-> m.automatic, targets |-> m.targets]
    /\ m.automatic \in BOOLEAN
    /\ m.automatic => m.script # NoScript
    /\ m.targets \in [include : SUBSET Labels, exclude : SUBSET Labels]

ASSUME MoversAssumption == Movers \subseteq Hosts

ASSUME BoundAssumption ==
  /\ MaxRevision \in Nat
  /\ MaxIssues \in Nat
  /\ MaxRuns \in Nat
  /\ MaxLosses \in Nat
  /\ LateRequests \in Nat

Statuses == {"pass", "fail", "error"}

Policies ==
  [query : Queries, evaluation : Nat \ {0}, script : Scripts,
   automatic : BOOLEAN, remediation : Nat \ {0},
   targets : [include : SUBSET Labels, exclude : SUBSET Labels]]

(* An issued query.  nth, its place among all that were issued to the host   *)
(* for the policy, is not in the program.                                    *)
Evaluations ==
  [policy : PolicyIds, query : Queries, revision : Nat \ {0},
   sequence : Nat \ {0}, nth : Nat \ {0}]

Results == [of : Evaluations, status : Statuses]

(* answered, the evaluation behind the status, and remediated, whether an    *)
(* automatic run was queued since the last pass, are not in the program.     *)
Memberships ==
  [status : Statuses \cup {"pending"}, conclusive : {"pass", "fail", None},
   issued : Nat \ {0}, completed : Nat, failure : Nat,
   answered : Evaluations \cup {None}, remediated : BOOLEAN]

Executions == PolicyIds \X Hosts \X (Nat \ {0})

(* exit is None until the run is reported.  overtaken, whether the policy's  *)
(* remediation was edited or the host passed since the run was queued, and   *)
(* delivered, whether a host has fetched it, are not in the program.         *)
Runs ==
  [execution : Executions, script : Scripts, revision : Nat \ {0},
   failure : Nat, automatic : BOOLEAN, exit : ExitCodes \cup {None},
   overtaken : BOOLEAN, delivered : BOOLEAN]

Pairs == PolicyIds \X Hosts

ASSUME NullAssumption ==
  /\ None \notin Statuses
  /\ None \notin Policies
  /\ None \notin Memberships
  /\ None \notin Runs
  /\ None \notin Evaluations
  /\ None \notin ExitCodes

VARIABLES
  policies,    \* osquery_policies
  created,     \* policy ids assigned so far
  members,     \* label_membership: the hosts of each label
  scriptable,  \* hosts enrolled through Orbit with scripts enabled
  membership,  \* osquery_policy_membership
  runs,        \* osquery_policy_remediation_runs
  osquery,     \* the osquery agent of each host
  orbit,       \* the Orbit agent of each host
  late,        \* requests whose sender has given them up
  losses,      \* crashes, losses and resends so far
  issues,      \* evaluations issued so far, for each pair
  queued       \* runs queued so far, for each pair: the source of fresh ids

admin  == <<policies, created, members, scriptable>>
rows   == <<membership, runs>>
agents == <<osquery, orbit, late, losses>>
ghosts == <<issues, queued>>
vars   == <<policies, created, members, scriptable, membership, runs,
            osquery, orbit, late, losses, issues, queued>>

IdleOsquery == [phase |-> "idle", read |-> {}, work |-> {}, results |-> {}]
IdleOrbit   == [phase |-> "idle", pending |-> {}, execution |-> None,
                script |-> None, exit |-> None]

Init ==
  /\ policies = [p \in PolicyIds |-> None]
  /\ created = {}
  /\ members \in [Labels -> {{}, Hosts}]
  /\ scriptable \in {{}, Hosts}
  /\ membership = [x \in Pairs |-> None]
  /\ runs = [x \in Pairs |-> None]
  /\ osquery = [h \in Hosts |-> IdleOsquery]
  /\ orbit = [h \in Hosts |-> IdleOrbit]
  /\ late = {}
  /\ losses = 0
  /\ issues = [x \in Pairs |-> 0]
  /\ queued = [x \in Pairs |-> 0]

(* The view osquery_policy_assignments.                                      *)
Targeted(targets, h) ==
  /\ \E l \in targets.include : h \in members[l]
  /\ \A l \in targets.exclude : h \notin members[l]

Assigned(p, h) == policies[p] # None /\ Targeted(policies[p].targets, h)

-----------------------------------------------------------------------------
(* Administrators edit policies; labels and Orbit enrolments change.         *)

(* No edit comes after the snapshot of a host's last read (a bound): that    *)
(* read can then bring every status up to date.                              *)
LastRead(p, h) ==
  \/ issues[<<p, h>>] >= MaxIssues
  \/ /\ issues[<<p, h>>] = MaxIssues - 1
     /\ \E e \in osquery[h].read : e.policy = p

Editable(p) == \A h \in Hosts : ~LastRead(p, h)

NewPolicy(m) ==
  [query |-> m.query, evaluation |-> 1, script |-> m.script,
   automatic |-> m.automatic, remediation |-> 1, targets |-> m.targets]

Create(p, m) ==
  /\ p \notin created
  /\ created' = created \cup {p}
  /\ policies' = [policies EXCEPT ![p] = NewPolicy(m)]
  /\ UNCHANGED <<members, scriptable, rows, agents, ghosts>>

RemediationChanged(p, m) ==
  \/ policies[p].script # m.script
  \/ policies[p].automatic # m.automatic

EditedPolicy(p, m) ==
  [query |-> m.query,
   evaluation |-> IF policies[p].query # m.query
                  THEN policies[p].evaluation + 1
                  ELSE policies[p].evaluation,
   script |-> m.script,
   automatic |-> m.automatic,
   remediation |-> IF RemediationChanged(p, m)
                   THEN policies[p].remediation + 1
                   ELSE policies[p].remediation,
   targets |-> m.targets]

(* The answers an edit invalidates: all of them when the query changes,      *)
(* those of the hosts it no longer targets otherwise.                        *)
Invalidated(p, m, h) ==
  \/ policies[p].query # m.query
  \/ ~Targeted(m.targets, h)

(* The foreign key of a run deletes it with its membership.                  *)
Update(p, m) ==
  /\ policies[p] # None
  /\ policies[p].evaluation < MaxRevision
  /\ policies[p].remediation < MaxRevision
  /\ Editable(p)
  /\ policies' = [policies EXCEPT ![p] = EditedPolicy(p, m)]
  /\ membership' = [x \in Pairs |->
       IF x[1] = p /\ Invalidated(p, m, x[2]) THEN None ELSE membership[x]]
  /\ runs' = [x \in Pairs |->
       IF x[1] # p \/ runs[x] = None THEN runs[x]
       ELSE IF Invalidated(p, m, x[2]) THEN None
       ELSE [runs[x] EXCEPT !.overtaken = @ \/ RemediationChanged(p, m)]]
  /\ UNCHANGED <<created, members, scriptable, agents, ghosts>>

Delete(p) ==
  /\ policies[p] # None
  /\ policies' = [policies EXCEPT ![p] = None]
  /\ membership' = [x \in Pairs |-> IF x[1] = p THEN None ELSE membership[x]]
  /\ runs' = [x \in Pairs |-> IF x[1] = p THEN None ELSE runs[x]]
  /\ UNCHANGED <<created, members, scriptable, agents, ghosts>>

(* Label evaluation, a directory sync or an administrator moves a host in or *)
(* out of a label; nothing is deleted from the policy tables.                *)
ChangeLabel(l, h) ==
  /\ \A p \in PolicyIds : Editable(p)
  /\ members' = [members EXCEPT ![l] = IF h \in @ THEN @ \ {h} ELSE @ \cup {h}]
  /\ UNCHANGED <<policies, created, scriptable, rows, agents, ghosts>>

(* Orbit enrols, or its inventory reports scripts enabled or disabled.       *)
ChangeScripts(h) ==
  /\ scriptable' = IF h \in scriptable THEN scriptable \ {h}
                   ELSE scriptable \cup {h}
  /\ UNCHANGED <<policies, created, members, rows, agents, ghosts>>

-----------------------------------------------------------------------------
(* osquery: distributed read, evaluation, distributed write.                 *)

Lose == losses < MaxLosses /\ losses' = losses + 1

(* IssueEvaluationsForHost takes its snapshot: the policies assigned to the  *)
(* host, with their queries.  A read that finds none changes nothing.        *)
BeginRead(h) ==
  LET assigned == {p \in PolicyIds : Assigned(p, h)} IN
  /\ osquery[h].phase = "idle"
  /\ assigned # {}
  /\ \A p \in assigned : issues[<<p, h>>] < MaxIssues
  /\ osquery' = [osquery EXCEPT ![h] =
       [IdleOsquery EXCEPT
          !.phase = "reading",
          !.read = {[policy |-> p, query |-> policies[p].query,
                     revision |-> policies[p].evaluation] : p \in assigned}]]
  /\ UNCHANGED <<admin, rows, orbit, late, losses, ghosts>>

FirstIssueZero ==   \* mutant: the column default is issued
  [status |-> "pending", conclusive |-> None, issued |-> 0, completed |-> 0,
   failure |-> 0, answered |-> None, remediated |-> FALSE]

FirstIssue ==
  [status |-> "pending", conclusive |-> None, issued |-> 1, completed |-> 0,
   failure |-> 0, answered |-> None, remediated |-> FALSE]

Issued(x) == IF membership[x] = None THEN FirstIssue
             ELSE [membership[x] EXCEPT !.issued = @ + 1]

(* ... and upserts the memberships as they are by now.  A policy deleted     *)
(* since then fails the foreign key, and the whole statement with it.        *)
IssueEvaluations(h, read) ==
  LET issued == {x \in Pairs : x[2] = h /\ \E e \in read : e.policy = x[1]} IN
  /\ \A x \in issued : policies[x[1]] # None
  /\ membership' = [x \in Pairs |->
       IF x \in issued THEN Issued(x) ELSE membership[x]]
  /\ issues' = [x \in Pairs |->
       IF x \in issued THEN issues[x] + 1 ELSE issues[x]]

FinishRead(h) ==
  /\ osquery[h].phase = "reading"
  /\ IssueEvaluations(h, osquery[h].read)
  /\ osquery' = [osquery EXCEPT ![h] =
       [IdleOsquery EXCEPT
          !.phase = "working",
          !.work = {[policy |-> e.policy, query |-> e.query,
                     revision |-> e.revision,
                     sequence |-> membership'[<<e.policy, h>>].issued,
                     nth |-> issues'[<<e.policy, h>>]] : e \in osquery[h].read}]]
  /\ UNCHANGED <<admin, runs, orbit, late, losses, queued>>

FailRead(h) ==
  /\ osquery[h].phase = "reading"
  /\ \E e \in osquery[h].read : policies[e.policy] = None
  /\ osquery' = [osquery EXCEPT ![h] = IdleOsquery]
  /\ UNCHANGED <<admin, rows, orbit, late, losses, ghosts>>

(* osquery runs the queries and sends what they answered.                    *)
Evaluate(h) ==
  /\ osquery[h].phase = "working"
  /\ \E status \in [osquery[h].work -> Statuses] :
       osquery' = [osquery EXCEPT ![h] =
         [IdleOsquery EXCEPT
            !.phase = "writing",
            !.results = {[of |-> e, status |-> status[e]] :
                            e \in osquery[h].work}]]
  /\ UNCHANGED <<admin, rows, orbit, late, losses, ghosts>>

SameQuery(e) == policies[e.policy].query = e.query   \* mutant: no revision

(* The result names the policy, query hash, revision and sequence.           *)
CurrentQuery(e) ==
  /\ policies[e.policy].query = e.query
  /\ policies[e.policy].evaluation = e.revision

NewSequence(m, e) == e.sequence > m.completed        \* mutant

NextSequence(m, e) == e.sequence = m.completed + 1   \* mutant

LatestSequence(m, e) == m.issued = e.sequence /\ e.sequence > m.completed

Accepted(e, h) ==
  /\ Assigned(e.policy, h)
  /\ CurrentQuery(e)
  /\ membership[<<e.policy, h>>] # None
  /\ LatestSequence(membership[<<e.policy, h>>], e)

NewlyFailingStatus(m, r) == r.status = "fail" /\ m.status # "fail"   \* mutant

(* A fail that follows a pass, or is the first conclusive answer.            *)
NewlyFailing(m, r) == r.status = "fail" /\ m.conclusive # "fail"

(* It is remediated on the spot when the policy and the host allow it.       *)
RunsAutomatically(x, r) ==
  /\ NewlyFailing(membership[x], r)
  /\ policies[x[1]].automatic
  /\ x[2] \in scriptable

(* A status other than pass and fail is no conclusion.                       *)
Recorded(x, r) ==
  [membership[x] EXCEPT
     !.status = r.status,
     !.conclusive = IF r.status = "error" THEN @ ELSE r.status,
     !.failure = IF NewlyFailing(membership[x], r) THEN r.of.sequence ELSE @,
     !.completed = r.of.sequence,
     !.answered = r.of,
     !.remediated = (@ /\ r.status # "pass") \/ RunsAutomatically(x, r)]

NewRun(x, failure, automatic) ==
  [execution |-> <<x[1], x[2], queued[x] + 1>>,
   script |-> policies[x[1]].script, revision |-> policies[x[1]].remediation,
   failure |-> failure, automatic |-> automatic, exit |-> None,
   overtaken |-> FALSE, delivered |-> FALSE]

AlwaysReplaceable(run, new) == TRUE   \* mutant

(* The upsert of enqueueRemediationBatchTx replaces a run that is reported,  *)
(* or was queued for other work.                                             *)
Replaceable(run, new) ==
  \/ run = None
  \/ run.exit # None
  \/ run.revision # new.revision
  \/ run.failure # new.failure
  \/ run.script # new.script

Enqueued(x, failure, automatic) ==
  IF Replaceable(runs[x], NewRun(x, failure, automatic))
  THEN NewRun(x, failure, automatic)
  ELSE runs[x]

RecordedRun(x, r) ==
  IF RunsAutomatically(x, r) THEN Enqueued(x, r.of.sequence, TRUE)
  ELSE IF runs[x] = None THEN None
  ELSE [runs[x] EXCEPT !.overtaken = @ \/ r.status = "pass"]

AcceptedResults(x, h, results) ==
  {r \in results : x = <<r.of.policy, h>> /\ Accepted(r.of, h)}

(* The results a write of host h carries.                                    *)
RecordEvaluations(h, results) ==
  LET accepted(x) == AcceptedResults(x, h, results)
      result(x)   == CHOOSE r \in accepted(x) : TRUE
  IN
  /\ membership' = [x \in Pairs |->
       IF accepted(x) = {} THEN membership[x] ELSE Recorded(x, result(x))]
  /\ runs' = [x \in Pairs |->
       IF accepted(x) = {} THEN runs[x] ELSE RecordedRun(x, result(x))]
  /\ queued' = [x \in Pairs |->
       IF accepted(x) # {} /\ RunsAutomatically(x, result(x))
       THEN queued[x] + 1 ELSE queued[x]]

(* The write is recorded; the answer ends the round, or is lost and osquery  *)
(* sends the same results again.                                             *)
DistributedWrite(h) ==
  /\ osquery[h].phase = "writing"
  /\ RecordEvaluations(h, osquery[h].results)
  /\ \/ /\ osquery' = [osquery EXCEPT ![h] = IdleOsquery]
        /\ UNCHANGED losses
     \/ Lose /\ UNCHANGED osquery
  /\ UNCHANGED <<admin, orbit, late, issues>>

StillDelivered(m) ==
  /\ Cardinality(late) < LateRequests
  /\ late' = late \cup {m}

(* osquery crashes, restarts or gives the round up.                          *)
AbandonRound(h) ==
  /\ osquery[h].phase # "idle"
  /\ \A e \in osquery[h].work \cup {r.of : r \in osquery[h].results} :
       e.nth < MaxIssues
  /\ Lose
  /\ osquery' = [osquery EXCEPT ![h] = IdleOsquery]
  /\ \/ UNCHANGED late
     \/ /\ osquery[h].phase = "reading"
        /\ StillDelivered([kind |-> "read", host |-> h,
                           read |-> osquery[h].read])
     \/ /\ osquery[h].phase = "writing"
        /\ StillDelivered([kind |-> "write", host |-> h,
                           results |-> osquery[h].results])
  /\ UNCHANGED <<admin, rows, orbit, ghosts>>

-----------------------------------------------------------------------------
(* Remediation.                                                              *)

(* RunRemediations: an administrator queues the current script for the       *)
(* failing hosts among those selected.                                       *)
RunRemediations(p, selected) ==
  LET candidates == {x \in Pairs : /\ x[1] = p
                                   /\ x[2] \in selected \cap scriptable
                                   /\ Assigned(p, x[2])
                                   /\ membership[x] # None
                                   /\ membership[x].status = "fail"}
      new == {x \in candidates :
                Replaceable(runs[x],
                            NewRun(x, membership[x].failure, FALSE))}
  IN
  /\ policies[p] # None
  /\ policies[p].script # NoScript
  /\ \A x \in candidates : queued[x] < MaxRuns
  /\ new # {}
  /\ runs' = [x \in Pairs |->
       IF x \in candidates THEN Enqueued(x, membership[x].failure, FALSE)
       ELSE runs[x]]
  /\ queued' = [x \in Pairs |->
       IF x \in new THEN queued[x] + 1 ELSE queued[x]]
  /\ UNCHANGED <<admin, membership, agents, issues>>

SameScript(x) == runs[x].script = policies[x[1]].script   \* mutant

SameRemediation(x) ==
  /\ runs[x].revision = policies[x[1]].remediation
  /\ runs[x].script = policies[x[1]].script

(* The run still answers the policy's remediation and the host's failure.    *)
Current(x) ==
  /\ runs[x] # None
  /\ Assigned(x[1], x[2])
  /\ membership[x] # None
  /\ membership[x].status = "fail"
  /\ SameRemediation(x)
  /\ runs[x].failure = membership[x].failure

(* PendingRemediationExecutionIDs                                            *)
PendingRun(x) == Current(x) /\ runs[x].exit = None

PendingExecutions(h) ==
  {runs[x].execution : x \in {y \in Pairs : y[2] = h /\ PendingRun(y)}}

(* Orbit reads its configuration.                                            *)
OrbitConfig(h) ==
  /\ orbit[h].phase = "idle"
  /\ PendingExecutions(h) # {}
  /\ orbit' = [orbit EXCEPT ![h].phase = "notified",
                            ![h].pending = PendingExecutions(h)]
  /\ UNCHANGED <<admin, rows, osquery, late, losses, ghosts>>

Unclaimed(x) == Current(x) /\ ~runs[x].delivered   \* mutant: fetched once

Fetchable(x) == Current(x)

(* RemediationExecution: the run the host asks for, when it is reported or   *)
(* still current.                                                            *)
Found(x, e) ==
  /\ runs[x] # None
  /\ runs[x].execution = e
  /\ Assigned(x[1], x[2])
  /\ membership[x] # None
  /\ runs[x].exit # None \/ Fetchable(x)

Proceed(h, pending) ==
  IF pending = {} THEN IdleOrbit
  ELSE [IdleOrbit EXCEPT !.phase = "notified", !.pending = pending]

(* Orbit fetches a script it was notified of and runs it ...                 *)
GetScript(h, e) ==
  LET x == <<e[1], e[2]>> IN
  /\ orbit[h].phase = "notified"
  /\ e \in orbit[h].pending
  /\ Found(x, e)
  /\ runs[x].exit = None
  /\ orbit' = [orbit EXCEPT ![h] =
       [phase |-> "running", pending |-> orbit[h].pending \ {e},
        execution |-> e, script |-> runs[x].script, exit |-> None]]
  /\ runs' = [runs EXCEPT ![x].delivered = TRUE]
  /\ UNCHANGED <<admin, membership, osquery, late, losses, ghosts>>

(* ... or skips it: it is gone, or its result is already known.              *)
SkipScript(h, e) ==
  LET x == <<e[1], e[2]>> IN
  /\ orbit[h].phase = "notified"
  /\ e \in orbit[h].pending
  /\ Found(x, e) => runs[x].exit # None
  /\ orbit' = [orbit EXCEPT ![h] = Proceed(h, orbit[h].pending \ {e})]
  /\ UNCHANGED <<admin, rows, osquery, late, losses, ghosts>>

RunScript(h) ==
  /\ orbit[h].phase = "running"
  /\ \E exit \in ExitCodes :
       orbit' = [orbit EXCEPT ![h].phase = "reporting", ![h].exit = exit]
  /\ UNCHANGED <<admin, rows, osquery, late, losses, ghosts>>

RecordLastResult(e, exit) ==   \* mutant: a later report replaces it
  runs' = [x \in Pairs |->
    IF runs[x] # None /\ runs[x].execution = e
    THEN [runs[x] EXCEPT !.exit = exit]
    ELSE runs[x]]

RecordUnderPolicy(e, exit) ==   \* mutant: whatever run it is a report of
  runs' = [x \in Pairs |->
    IF runs[x] # None /\ x = <<e[1], e[2]>> /\ runs[x].exit = None
    THEN [runs[x] EXCEPT !.exit = exit]
    ELSE runs[x]]

(* RecordRemediationResult: the first report of an execution stands.         *)
RecordRemediationResult(e, exit) ==
  runs' = [x \in Pairs |->
    IF runs[x] # None /\ runs[x].execution = e /\ runs[x].exit = None
    THEN [runs[x] EXCEPT !.exit = exit]
    ELSE runs[x]]

RecordScriptResult(h) ==
  /\ orbit[h].phase = "reporting"
  /\ RecordRemediationResult(orbit[h].execution, orbit[h].exit)
  /\ \/ /\ orbit' = [orbit EXCEPT ![h] = Proceed(h, orbit[h].pending)]
        /\ UNCHANGED losses
     \/ Lose /\ UNCHANGED orbit
  /\ UNCHANGED <<admin, membership, osquery, late, ghosts>>

(* Orbit crashes, restarts or fails a request.                               *)
AbandonScript(h) ==
  /\ orbit[h].phase # "idle"
  /\ Lose
  /\ orbit' = [orbit EXCEPT ![h] = IdleOrbit]
  /\ \/ UNCHANGED late
     \/ /\ orbit[h].phase = "reporting"
        /\ StillDelivered([kind |-> "report", host |-> h,
                           execution |-> orbit[h].execution,
                           exit |-> orbit[h].exit])
  /\ UNCHANGED <<admin, rows, osquery, ghosts>>

-----------------------------------------------------------------------------
(* A request given up by its sender arrives, or is lost for good.            *)

(* The evaluations it issues reach nobody, so it is not the last, nor leaves *)
(* only a last one to a read already under way (a bound).                    *)
DeliverLateRead(m) ==
  /\ m.kind = "read"
  /\ \A e \in m.read :
       issues[<<e.policy, m.host>>] + 1
         < IF osquery[m.host].phase = "reading" THEN MaxIssues - 1
           ELSE MaxIssues
  /\ IssueEvaluations(m.host, m.read)
  /\ late' = late \ {m}
  /\ UNCHANGED <<admin, runs, osquery, orbit, losses, queued>>

DeliverLateWrite(m) ==
  /\ m.kind = "write"
  /\ RecordEvaluations(m.host, m.results)
  /\ late' = late \ {m}
  /\ UNCHANGED <<admin, osquery, orbit, losses, issues>>

DeliverLateReport(m) ==
  /\ m.kind = "report"
  /\ RecordRemediationResult(m.execution, m.exit)
  /\ late' = late \ {m}
  /\ UNCHANGED <<admin, membership, osquery, orbit, losses, ghosts>>

LoseLateRequest(m) ==
  /\ late' = late \ {m}
  /\ UNCHANGED <<admin, rows, osquery, orbit, losses, ghosts>>

-----------------------------------------------------------------------------

Edit ==
  \/ \E p \in PolicyIds, m \in Mutations : Create(p, m) \/ Update(p, m)
  \/ \E p \in PolicyIds : Delete(p)
  \/ \E l \in Labels, h \in Movers : ChangeLabel(l, h)
  \/ \E h \in Hosts : ChangeScripts(h)
  \/ \E p \in PolicyIds, selected \in SUBSET Hosts :
       RunRemediations(p, selected)

(* What osquery and Orbit do when nothing is lost.                           *)
Osquery(h) ==
  \/ BeginRead(h)
  \/ FinishRead(h)
  \/ FailRead(h)
  \/ Evaluate(h)
  \/ DistributedWrite(h)

Orbit(h) ==
  \/ OrbitConfig(h)
  \/ \E e \in orbit[h].pending : GetScript(h, e) \/ SkipScript(h, e)
  \/ RunScript(h)
  \/ RecordScriptResult(h)

Failure ==
  \/ \E h \in Hosts : AbandonRound(h) \/ AbandonScript(h)
  \/ \E m \in late : \/ DeliverLateRead(m)
                     \/ DeliverLateWrite(m)
                     \/ DeliverLateReport(m)
                     \/ LoseLateRequest(m)

Next ==
  \/ Edit
  \/ \E h \in Hosts : Osquery(h) \/ Orbit(h)
  \/ Failure

Spec == Init /\ [][Next]_vars

(* Both agents poll on a timer, and the handlers run to completion.          *)
FairSpec ==
  /\ Spec
  /\ \A h \in Hosts : WF_vars(Osquery(h)) /\ WF_vars(Orbit(h))

-----------------------------------------------------------------------------

Reads == [policy : PolicyIds, query : Queries, revision : Nat \ {0}]

LateRequest ==
  [kind : {"read"}, host : Hosts, read : SUBSET Reads]
    \cup [kind : {"write"}, host : Hosts, results : SUBSET Results]
    \cup [kind : {"report"}, host : Hosts, execution : Executions,
          exit : ExitCodes]

OsqueryAgents ==
  [phase : {"idle", "reading", "working", "writing"},
   read : SUBSET Reads,
   work : SUBSET Evaluations, results : SUBSET Results]

OrbitAgents ==
  [phase : {"idle", "notified"}, pending : SUBSET Executions,
   execution : {None}, script : {None}, exit : {None}]
    \cup [phase : {"running"}, pending : SUBSET Executions,
          execution : Executions, script : Scripts, exit : {None}]
    \cup [phase : {"reporting"}, pending : SUBSET Executions,
          execution : Executions, script : Scripts, exit : ExitCodes]

TypeOK ==
  /\ policies \in [PolicyIds -> Policies \cup {None}]
  /\ created \in SUBSET PolicyIds
  /\ members \in [Labels -> SUBSET Hosts]
  /\ scriptable \in SUBSET Hosts
  /\ membership \in [Pairs -> Memberships \cup {None}]
  /\ runs \in [Pairs -> Runs \cup {None}]
  /\ osquery \in [Hosts -> OsqueryAgents]
  /\ orbit \in [Hosts -> OrbitAgents]
  /\ late \in SUBSET LateRequest
  /\ losses \in Nat
  /\ issues \in [Pairs -> Nat]
  /\ queued \in [Pairs -> Nat]

(* The status of a host is the answer to the policy's present query, under   *)
(* its present revision: never to SQL that was replaced, not even after the  *)
(* policy has returned to the same SQL (Update, RecordEvaluations).          *)
StatusAnswersCurrentQuery ==
  \A x \in Pairs :
    membership[x] # None /\ membership[x].status # "pending" =>
      /\ policies[x[1]] # None
      /\ membership[x].answered # None
      /\ membership[x].answered.query = policies[x[1]].query
      /\ membership[x].answered.revision = policies[x[1]].evaluation

(* An answer is recorded only if the host was asked nothing later for the    *)
(* policy (IssueEvaluationsForHost, RecordEvaluations).                      *)
AnswersLatestIssue ==
  [][\A x \in Pairs :
       /\ membership'[x] # None
       /\ membership'[x].answered # None
       /\ membership[x] # None => membership'[x].answered # membership[x].answered
       => membership'[x].answered.nth = issues[x]]_vars

(* A write that is answered has recorded every answer that is still the      *)
(* latest, whatever became of the other policies it names                    *)
(* (RecordEvaluations).                                                      *)
CurrentAnswersAreRecorded ==
  [][\A h \in Hosts :
       /\ osquery[h].phase = "writing"
       /\ osquery'[h].phase = "idle"
       /\ losses' = losses
       => \A r \in osquery[h].results :
            LET e == r.of
                m == membership'[<<e.policy, h>>]
            IN  /\ Assigned(e.policy, h)
                /\ policies[e.policy].evaluation = e.revision
                /\ issues[<<e.policy, h>>] = e.nth
                /\ m # None
                => m.answered = e /\ m.status = r.status]_vars

(* Automatic remediation runs once when a host first fails or goes from      *)
(* passing to failing: errors between failures, repeated failures and resent *)
(* results queue nothing (RecordEvaluations).                                *)
OneAutomaticRunPerFailure ==
  [][\A x \in Pairs :
       /\ membership[x] # None
       /\ membership[x].remediated
       /\ runs'[x] # None
       /\ runs'[x].automatic
       => runs'[x].execution = IF runs[x] = None THEN None
                               ELSE runs[x].execution]_vars

(* A script starts on a host only if, since its run was queued, the policy's *)
(* remediation was not edited and the host did not recover                   *)
(* (PendingRemediationExecutionIDs, RemediationExecution).                   *)
StartedRunsAreCurrent ==
  [][\A h \in Hosts :
       orbit[h].phase = "notified" /\ orbit'[h].phase = "running" =>
         LET e == orbit'[h].execution
             run == runs[<<e[1], e[2]>>]
         IN  /\ run.execution = e
             /\ ~run.overtaken
             /\ run.script = policies[e[1]].script]_vars

(* A pending run that is still current keeps its execution until the host    *)
(* reports or fails anew: asking again does not queue it twice               *)
(* (enqueueRemediationBatchTx).                                              *)
PendingRunIsNotRequeued ==
  [][\A x \in Pairs :
       PendingRun(x) /\ runs'[x] # None
         /\ runs'[x].execution # runs[x].execution
       => membership'[x].failure # membership[x].failure]_vars

(* The first report of an execution stands, whatever is resent or late       *)
(* (RecordRemediationResult).                                                *)
FirstReportStands ==
  [][\A x \in Pairs :
       /\ runs[x] # None
       /\ runs[x].exit # None
       /\ runs'[x] # None
       /\ runs'[x].execution = runs[x].execution
       => runs'[x].exit = runs[x].exit]_vars

(* The admin guide: runs are not redelivered automatically.                  *)
RunsAreNotRedelivered ==
  [][\A h \in Hosts :
       orbit[h].phase = "notified" /\ orbit'[h].phase = "running" =>
         ~runs[<<orbit'[h].execution[1], orbit'[h].execution[2]>>].delivered]_vars

(* The rows and the agents as PolicyRemediation sees them: without sequences *)
(* and revisions, and a host busy only while its script runs.                *)
StatusOf(m) == IF m = None \/ m.status = "pending" THEN None ELSE m.status

NoRun == [number |-> 0, automatic |-> FALSE, stale |-> TRUE,
          started |-> FALSE, exit |-> None]

RunOf(run) ==
  IF run = None THEN NoRun
  ELSE [number |-> run.execution[3], automatic |-> run.automatic,
        stale |-> run.overtaken, started |-> run.delivered, exit |-> run.exit]

RowOf(x) ==
  [status |-> StatusOf(membership[x]),
   failing |-> membership[x] # None /\ membership[x].conclusive = "fail",
   run |-> RunOf(runs[x]), queued |-> queued[x]]

RunningOn(h) ==
  IF orbit[h].phase = "running"
  THEN {<<orbit[h].execution[1], orbit[h].execution[3]>>} ELSE {}

Remediation ==
  INSTANCE PolicyRemediation
    WITH row <- [x \in Pairs |-> RowOf(x)],
         running <- [h \in Hosts |-> RunningOn(h)]

(* The store and the agents keep the promise of PolicyRemediation            *)
(* (RecordEvaluations, RunRemediations, RemediationExecution,                *)
(* RecordRemediationResult).                                                 *)
ImplementsRemediation == Remediation!RemediationSpec

(* Once the edits end, every targeted host has a result, though rounds are   *)
(* abandoned and their writes arrive late.                                   *)
EvaluationsSettle ==
  <>[][policies' = policies /\ members' = members]_vars =>
    \A x \in Pairs :
      []<>(Assigned(x[1], x[2]) =>
             membership[x] # None /\ membership[x].status # "pending")

(* A queued run is reported, or overtaken.                                   *)
RunsFinish ==
  \A x \in Pairs : PendingRun(x) ~> ~PendingRun(x)
=============================================================================
