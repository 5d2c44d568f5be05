-------------------------- MODULE PolicyRemediation --------------------------
(***************************************************************************)
(* What internal/osquery/policies promises of a policy and a host, however *)
(* answers, edits, requests and reports interleave and whatever is lost,   *)
(* resent or late: a failure queues at most one automatic run, a run that  *)
(* still has work to do is not replaced, a script starts only while its    *)
(* host is failing and its run is not stale, and a run is reported once,   *)
(* and only after it was started.                                          *)
(***************************************************************************)
EXTENDS Naturals

CONSTANTS PolicyIds, Hosts, ExitCodes, None

VARIABLES
  row,     \* what is known of each policy and host, and their latest run
  running  \* the run each host executes, as its policy and number, if any

remediation == <<row, running>>

Pairs == PolicyIds \X Hosts

(* A run is stale once its policy's remediation was edited or its host       *)
(* passed.                                                                   *)
NoRun == [number |-> 0, automatic |-> FALSE, stale |-> TRUE,
          started |-> FALSE, exit |-> None]

(* failing tells a failure that only errors followed from no failure; queued *)
(* counts the runs so far.                                                   *)
NoRow == [status |-> None, failing |-> FALSE, run |-> NoRun, queued |-> 0]

RemediationInit ==
  /\ row = [x \in Pairs |-> NoRow]
  /\ running = [h \in Hosts |-> {}]

Queued(r, automatic) ==
  [number |-> r.queued + 1, automatic |-> automatic, stale |-> FALSE,
   started |-> FALSE, exit |-> None]

HasWork(run) == ~run.stale /\ run.exit = None

Stale(run) == [run EXCEPT !.stale = TRUE]

(* What becomes of a row r: s.                                               *)
Pass(r, s) ==
  s = [status |-> "pass", failing |-> FALSE, run |-> Stale(r.run),
       queued |-> r.queued]

Error(r, s) == s = [r EXCEPT !.status = "error"]

Fail(r, s) ==
  s = [status |-> "fail", failing |-> TRUE, run |-> r.run, queued |-> r.queued]

(* A first failure, or one that follows a pass, is remediated on the spot.   *)
FailAndRemediate(r, s) ==
  /\ ~r.failing
  /\ ~HasWork(r.run)
  /\ s = [status |-> "fail", failing |-> TRUE, run |-> Queued(r, TRUE),
          queued |-> r.queued + 1]

(* An administrator asks for a run.                                          *)
Request(r, s) ==
  /\ r.status = "fail"
  /\ ~HasWork(r.run)
  /\ s = [status |-> "fail", failing |-> r.failing, run |-> Queued(r, FALSE),
          queued |-> r.queued + 1]

EditRemediation(r, s) == s = [r EXCEPT !.run = Stale(@)]

(* The answers are invalidated, or the policy is deleted.                    *)
Forget(r, s) ==
  s = [status |-> None, failing |-> FALSE, run |-> NoRun, queued |-> r.queued]

Report(r, s) ==
  /\ r.run.started
  /\ r.run.exit = None
  /\ \E exit \in ExitCodes : s = [r EXCEPT !.run = [@ EXCEPT !.exit = exit]]

RowStep(r, s) ==
  \/ s = r
  \/ Pass(r, s) \/ Error(r, s) \/ Fail(r, s) \/ FailAndRemediate(r, s)
  \/ Request(r, s) \/ EditRemediation(r, s) \/ Forget(r, s) \/ Report(r, s)

(* One transaction of the store: every row takes a step of its own, or none. *)
Transaction ==
  /\ UNCHANGED running
  /\ \A x \in Pairs : RowStep(row[x], row'[x])
  /\ row' = [x \in Pairs |-> row'[x]]

(* A host starts its run of a policy, the first time or again.               *)
Start(p, h) ==
  LET x == <<p, h>> IN
  /\ running[h] = {}
  /\ row[x].status = "fail"
  /\ HasWork(row[x].run)
  /\ running' = [running EXCEPT ![h] = {<<p, row[x].run.number>>}]
  /\ row' = [row EXCEPT ![x].run.started = TRUE]

(* It ends its run, or crashes.                                              *)
Stop(h) ==
  /\ running[h] # {}
  /\ running' = [running EXCEPT ![h] = {}]
  /\ UNCHANGED row

RemediationNext ==
  \/ Transaction
  \/ \E p \in PolicyIds, h \in Hosts : Start(p, h)
  \/ \E h \in Hosts : Stop(h)

RemediationSpec == RemediationInit /\ [][RemediationNext]_remediation
=============================================================================
