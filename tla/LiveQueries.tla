------------------------------ MODULE LiveQueries ------------------------------
(***************************************************************************)
(* Live queries: the store of internal/osquery/livequery, the distributed  *)
(* reads and writes of the hosts that feed it and the event streams of     *)
(* internal/osquery/httpapi that watch it.                                 *)
(*                                                                         *)
(* Results, stops and snapshots are transactions that lock the row of      *)
(* their run.  Each is four steps: it begins, which fixes what now()       *)
(* returns in it; it takes the lock and reads the row; it writes; it       *)
(* commits.  Until it commits it may be rolled back instead: a canceled    *)
(* request, a lost connection, a replica that stops.  A host may resend a  *)
(* result while an earlier one is still being recorded.                    *)
(***************************************************************************)
EXTENDS Integers

CONSTANTS
  Hosts,
  Ids,        \* ids of runs, each assigned once; also their event streams
  Requests,   \* connections for results and stops
  Timeout,    \* runTimeout, in ticks of the clock
  Retention,  \* completedRetention, in ticks of the clock
  MaxClock,   \* bound on the clock
  None        \* SQL NULL, or no row

Slots == Requests \cup Ids
Statuses == {"pending", "collected", "error", "stopped"}

ASSUME RequestsAssumption == Requests \cap Ids = {}

ASSUME TimeAssumption ==
  Timeout \in Nat \ {0} /\ Retention \in Nat /\ MaxClock \in Nat

TargetRows == [Hosts -> Statuses \cup {"untargeted"}]

Runs == [deadline : Nat, completed : Nat \cup {None}]

Work ==
  [kind : {"result"}, id : Ids, host : Hosts, status : {"collected", "error"}]
    \cup [kind : {"stop", "snapshots"}, id : Ids]

(* A transaction that has begun, that has locked and read its run, and that  *)
(* has written: the targets it settles, and when it completes the run.       *)
Transactions ==
  [phase : {"idle"}]
    \cup [phase : {"begun", "locked"}, work : Work, now : Nat]
    \cup [phase : {"written"}, work : Work, now : Nat,
          settled : SUBSET Hosts, status : Statuses \ {"pending"},
          completed : Nat \cup {None}]

ASSUME NoneAssumption == None \notin Nat /\ None \notin Runs

VARIABLES
  clock,
  used,     \* ids assigned so far
  runs,     \* osquery_live_query_runs
  targets,  \* osquery_live_query_targets: the status of a host in a run
  handed,   \* runs a host was given, and may report on at any time
  tx,       \* the transaction of each connection
  stream    \* what the client of a run's event stream was told

vars == <<clock, used, runs, targets, handed, tx, stream>>

NoTargets == [h \in Hosts |-> "untargeted"]
IdleTx    == [phase |-> "idle"]
NoStream  == [phase |-> "closed", seen |-> NoTargets]

Init ==
  /\ clock = 0
  /\ used = {}
  /\ runs = [id \in Ids |-> None]
  /\ targets = [id \in Ids |-> NoTargets]
  /\ handed = [h \in Hosts |-> {}]
  /\ tx = [s \in Slots |-> IdleTx]
  /\ stream = [id \in Ids |-> NoStream]

Tick ==
  /\ clock < MaxClock
  /\ clock' = clock + 1
  /\ UNCHANGED <<used, runs, targets, handed, tx, stream>>

-----------------------------------------------------------------------------
(* Locks and transactions.                                                   *)

Pending(id) == {h \in Hosts : targets[id][h] = "pending"}

AnyLock(id) == TRUE   \* mutant: the run is read without FOR UPDATE

LockFree(id) ==
  \A s \in Slots :
    tx[s].phase \in {"locked", "written"} => tx[s].work.id # id

Begin(s, work) ==
  /\ tx[s].phase = "idle"
  /\ tx' = [tx EXCEPT ![s] = [phase |-> "begun", work |-> work, now |-> clock]]

(* The stream of a rolled back or failed read ends.                          *)
EndTx(s) ==
  /\ tx' = [tx EXCEPT ![s] = IdleTx]
  /\ stream' = IF s \in Ids THEN [stream EXCEPT ![s] = NoStream] ELSE stream

(* Results and stops of a run that is gone or complete change nothing.       *)
NothingToDo(work) ==
  \/ runs[work.id] = None
  \/ work.kind # "snapshots" /\ runs[work.id].completed # None

LockRun(s) ==
  /\ tx[s].phase = "begun"
  /\ LockFree(tx[s].work.id)
  /\ IF NothingToDo(tx[s].work)
     THEN EndTx(s)
     ELSE /\ tx' = [tx EXCEPT ![s].phase = "locked"]
          /\ UNCHANGED stream
  /\ UNCHANGED <<clock, used, runs, targets, handed>>

Written(s, settled, status, completed) ==
  /\ tx' = [tx EXCEPT ![s] =
       [phase |-> "written", work |-> tx[s].work, now |-> tx[s].now,
        settled |-> settled, status |-> status, completed |-> completed]]
  /\ UNCHANGED <<clock, used, runs, targets, handed, stream>>

Expired(s) ==
  /\ runs[tx[s].work.id].completed = None
  /\ runs[tx[s].work.id].deadline <= tx[s].now

NotExpired(s) == FALSE   \* mutant: reading a run does not expire it

ExpiredRead(s) == Expired(s)

NoTarget(id) == {}   \* mutant: the run expires, its targets do not

ExpiredTargets(id) == Pending(id)

ExpireRun(s) ==
  LET id == tx[s].work.id
  IN  Written(s, ExpiredTargets(id), "stopped", runs[id].deadline)

(* RecordResult: the answer of a pending target; the last one completes the  *)
(* run.                                                                      *)
RecordResult(s) ==
  LET work == tx[s].work IN
  /\ tx[s].phase = "locked"
  /\ work.kind = "result"
  /\ IF Expired(s) THEN ExpireRun(s)
     ELSE Written(s, {work.host} \cap Pending(work.id), work.status,
                  IF Pending(work.id) = {work.host} THEN tx[s].now ELSE None)

Stop(s) ==
  /\ tx[s].phase = "locked"
  /\ tx[s].work.kind = "stop"
  /\ Written(s, Pending(tx[s].work.id), "stopped", tx[s].now)

Snapshots(s) ==
  /\ tx[s].phase = "locked"
  /\ tx[s].work.kind = "snapshots"
  /\ IF ExpiredRead(s) THEN ExpireRun(s)
     ELSE Written(s, {}, "stopped", runs[tx[s].work.id].completed)

Settle(rows, settled, status) ==
  [h \in Hosts |-> IF h \in settled THEN status ELSE rows[h]]

(* A read tells its stream what it read once it has committed.               *)
Commit(s) ==
  LET id   == tx[s].work.id
      rows == Settle(targets[id], tx[s].settled, tx[s].status)
  IN
  /\ tx[s].phase = "written"
  /\ targets' = [targets EXCEPT ![id] = rows]
  /\ runs' = IF tx[s].completed = None THEN runs
             ELSE [runs EXCEPT ![id].completed = tx[s].completed]
  /\ tx' = [tx EXCEPT ![s] = IdleTx]
  /\ stream' = IF s \notin Ids THEN stream
               ELSE [stream EXCEPT ![s] =
                      [phase |-> IF tx[s].completed = None THEN "open"
                                 ELSE "completed",
                       seen |-> rows]]
  /\ UNCHANGED <<clock, used, handed>>

Rollback(s) ==
  /\ tx[s].phase # "idle"
  /\ EndTx(s)
  /\ UNCHANGED <<clock, used, runs, targets, handed>>

-----------------------------------------------------------------------------
(* Administrators.                                                           *)

CompletedOrDue(id) ==
  IF runs[id].completed = None THEN runs[id].deadline ELSE runs[id].completed

Retained(id) == CompletedOrDue(id) >= clock - Retention

KeepTargets(old) == targets   \* mutant: the targets outlive their run

ForgetTargets(old) ==
  [id \in Ids |-> IF id \in old THEN NoTargets ELSE targets[id]]

(* Start: runs that ended long enough ago are deleted, which waits for their *)
(* locks, with their targets; the new run targets the hosts selected.  Its   *)
(* now() is taken when it has the locks, and time is left for the run to     *)
(* expire (a bound).  The handler refuses an empty selection, the store      *)
(* completes it at once.                                                     *)
Start(id, selected) ==
  LET old == {i \in Ids : runs[i] # None /\ ~Retained(i)} IN
  /\ id \notin used
  /\ clock + Timeout <= MaxClock
  /\ \A i \in old : LockFree(i)
  /\ used' = used \cup {id}
  /\ runs' = [i \in Ids |->
       IF i = id THEN [deadline |-> clock + Timeout,
                       completed |-> IF selected = {} THEN clock ELSE None]
       ELSE IF i \in old THEN None
       ELSE runs[i]]
  /\ targets' = [ForgetTargets(old) EXCEPT ![id] =
                   Settle(NoTargets, selected, "pending")]
  /\ UNCHANGED <<clock, handed, tx, stream>>

RequestStop(s, id) ==
  /\ id \in used
  /\ Begin(s, [kind |-> "stop", id |-> id])
  /\ UNCHANGED <<clock, used, runs, targets, handed, stream>>

-----------------------------------------------------------------------------
(* Hosts.                                                                    *)

(* PendingForHost, in a distributed read.                                    *)
PendingForHost(h) ==
  {id \in Ids : /\ runs[id] # None
                /\ targets[id][h] = "pending"
                /\ runs[id].completed = None
                /\ runs[id].deadline > clock}

DistributedRead(h) ==
  /\ ~ PendingForHost(h) \subseteq handed[h]
  /\ handed' = [handed EXCEPT ![h] = @ \cup PendingForHost(h)]
  /\ UNCHANGED <<clock, used, runs, targets, tx, stream>>

(* A distributed write, sent for the first time or again.                    *)
DistributedWrite(s, h, id, status) ==
  /\ id \in handed[h]
  /\ Begin(s, [kind |-> "result", id |-> id, host |-> h, status |-> status])
  /\ UNCHANGED <<clock, used, runs, targets, handed, stream>>

-----------------------------------------------------------------------------
(* Streams.                                                                  *)

(* A client opens the stream, which then polls until the run is complete.    *)
PollStream(id) ==
  /\ id \in used
  /\ stream[id].phase # "completed"
  /\ Begin(id, [kind |-> "snapshots", id |-> id])
  /\ UNCHANGED <<clock, used, runs, targets, handed, stream>>

CloseStream(id) ==
  /\ stream[id].phase # "closed"
  /\ tx[id].phase = "idle"
  /\ stream' = [stream EXCEPT ![id] = NoStream]
  /\ UNCHANGED <<clock, used, runs, targets, handed, tx>>

-----------------------------------------------------------------------------

Transaction(s) ==
  \/ LockRun(s)
  \/ RecordResult(s)
  \/ Stop(s)
  \/ Snapshots(s)
  \/ Commit(s)

Next ==
  \/ Tick
  \/ \E id \in Ids, selected \in SUBSET Hosts : Start(id, selected)
  \/ \E s \in Requests, id \in Ids : RequestStop(s, id)
  \/ \E h \in Hosts : DistributedRead(h)
  \/ \E s \in Requests, h \in Hosts, id \in Ids,
       status \in {"collected", "error"} : DistributedWrite(s, h, id, status)
  \/ \E id \in Ids : PollStream(id) \/ CloseStream(id)
  \/ \E s \in Slots : Transaction(s) \/ Rollback(s)

Spec == Init /\ [][Next]_vars

(* Time passes and handlers run to completion; an open stream polls on its   *)
(* ticker; PostgreSQL grants the lock of a row to every waiting transaction. *)
FairSpec ==
  /\ Spec
  /\ WF_vars(Tick)
  /\ \A s \in Slots : WF_vars(Transaction(s)) /\ SF_vars(LockRun(s))
  /\ \A id \in Ids : WF_vars(stream[id].phase = "open" /\ PollStream(id))

-----------------------------------------------------------------------------

TypeOK ==
  /\ clock \in Nat
  /\ used \in SUBSET Ids
  /\ runs \in [Ids -> Runs \cup {None}]
  /\ targets \in [Ids -> TargetRows]
  /\ handed \in [Hosts -> SUBSET Ids]
  /\ tx \in [Slots -> Transactions]
  /\ stream \in [Ids -> [phase : {"closed", "open", "completed"},
                         seen : TargetRows]]
  /\ \A id \in Ids :
       runs[id] = None => targets[id] = NoTargets   \* the foreign key

RunState(id) ==
  IF id \notin used THEN "unused"
  ELSE IF runs[id] = None THEN "forgotten"
  ELSE IF runs[id].completed = None THEN "open"
  ELSE "complete"

Abstract == INSTANCE LiveQueryRuns
  WITH state <- [id \in Ids |-> RunState(id)], answers <- targets

(* However results, stops, deadlines and reads interleave, every target is   *)
(* settled once, and a run is completed with its last one                    *)
(* (RecordResult, Stop, expireRun).                                          *)
ImplementsRuns == Abstract!RunsSpec

(* A client that was told a run is completed was told the final status of    *)
(* each of its hosts (Snapshots, streamLiveQuery).                           *)
CompletedStreamsToldAll ==
  \A id \in Ids :
    stream[id].phase = "completed" =>
      /\ \A h \in Hosts : stream[id].seen[h] # "pending"
      /\ runs[id] # None =>
           /\ runs[id].completed # None
           /\ stream[id].seen = targets[id]

(* A stream ends: whatever the hosts do, the deadline completes its run, and *)
(* a read notices it (expireRun).                                            *)
StreamsEnd ==
  \A id \in Ids : stream[id].phase = "open" ~> stream[id].phase # "open"
=============================================================================
