--------------------------- MODULE LiveQueriesProofs ---------------------------
(***************************************************************************)
(* Proofs about LiveQueries, for every number of hosts, runs, connections  *)
(* and ticks.  The inductive invariant says what the lock of a run buys:   *)
(* between the write and the commit of a transaction the run is still as   *)
(* the transaction read it.                                                *)
(***************************************************************************)
EXTENDS LiveQueries, TLAPS

Locking(s) == tx[s].phase \in {"locked", "written"}

(* One transaction at a time is past the lock of a run.                      *)
OneLock ==
  \A s, t \in Slots :
    Locking(s) /\ Locking(t) /\ tx[s].work.id = tx[t].work.id => s = t

(* The run is there while it is locked, and only reads go on once it is      *)
(* complete.                                                                 *)
LockedRuns ==
  \A s \in Slots :
    Locking(s) =>
      /\ runs[tx[s].work.id] # None
      /\ runs[tx[s].work.id].completed # None => tx[s].work.kind = "snapshots"

(* What a commit is about to do is a step of LiveQueryRuns: nothing, one     *)
(* answer, or the end of all that is pending; and it completes the run if,   *)
(* and only if, nothing pending is left.                                     *)
WrittenBy(s) ==
  LET id == tx[s].work.id IN
  /\ \/ tx[s].settled = {}
     \/ /\ tx[s].settled = Pending(id)
        /\ tx[s].status = "stopped"
     \/ /\ \E h \in Pending(id) : tx[s].settled = {h}
        /\ tx[s].status \in {"collected", "error"}
  /\ tx[s].completed = None <=> Pending(id) \ tx[s].settled # {}
  /\ runs[id].completed # None => tx[s].completed = runs[id].completed

WrittenWork ==
  \A s \in Slots : tx[s].phase = "written" => WrittenBy(s)

(* Only runs that were assigned have a row, or were handed to hosts.         *)
UsedRuns ==
  /\ \A id \in Ids : runs[id] # None => id \in used
  /\ \A h \in Hosts : handed[h] \subseteq used

(* A run is complete when, and only when, no target of it is pending.        *)
CompleteRuns ==
  \A id \in Ids :
    runs[id] # None => (runs[id].completed = None <=> Pending(id) # {})

(* A stream reads a run that was assigned, and reads for itself.             *)
StreamReads ==
  /\ \A id \in Ids : stream[id].phase # "closed" => id \in used
  /\ \A s \in Slots :
       tx[s].phase # "idle" =>
         /\ tx[s].work.id \in used
         /\ s \in Ids => tx[s].work.id = s /\ tx[s].work.kind = "snapshots"

IInv ==
  /\ TypeOK
  /\ OneLock
  /\ LockedRuns
  /\ WrittenWork
  /\ UsedRuns
  /\ CompleteRuns
  /\ StreamReads
  /\ CompletedStreamsToldAll

-----------------------------------------------------------------------------
(* Transactions and rows.                                                    *)

LEMMA WorkTypes ==
  ASSUME NEW w \in Work
  PROVE  /\ w.id \in Ids
         /\ w.kind \in {"result", "stop", "snapshots"}
         /\ w.kind = "result" =>
              w.host \in Hosts /\ w.status \in {"collected", "error"}
  BY DEF Work

LEMMA TxTypes ==
  ASSUME NEW t \in Transactions
  PROVE  /\ t.phase \in {"idle", "begun", "locked", "written"}
         /\ t.phase # "idle" => t.work \in Work /\ t.now \in Nat
         /\ t.phase = "written" =>
              /\ t.settled \in SUBSET Hosts
              /\ t.status \in Statuses \ {"pending"}
              /\ t.completed \in Nat \cup {None}
  BY DEF Transactions

LEMMA BegunIsTransaction ==
  ASSUME NEW w \in Work, NEW n \in Nat, NEW p \in {"begun", "locked"}
  PROVE  [phase |-> p, work |-> w, now |-> n] \in Transactions
  BY DEF Transactions

LEMMA WrittenIsTransaction ==
  ASSUME NEW w \in Work, NEW n \in Nat, NEW settled \in SUBSET Hosts,
         NEW status \in Statuses \ {"pending"}, NEW c \in Nat \cup {None}
  PROVE  [phase |-> "written", work |-> w, now |-> n, settled |-> settled,
          status |-> status, completed |-> c] \in Transactions
  BY DEF Transactions

(* The locks of other connections, and what they have written, stand when    *)
(* one connection takes a step on its own transaction.                       *)
LEMMA TxStep ==
  ASSUME IInv, NEW s \in Slots, NEW new \in Transactions,
         tx' = [tx EXCEPT ![s] = new],
         UNCHANGED <<clock, used, runs, targets, handed>>,
         \/ UNCHANGED stream
         \/ s \in Ids /\ stream' = [stream EXCEPT ![s] = NoStream],
         new.phase # "idle" =>
           /\ new.work.id \in used
           /\ s \in Ids => new.work.id = s /\ new.work.kind = "snapshots",
         new.phase \in {"locked", "written"} =>
           /\ \/ Locking(s) /\ new.work = tx[s].work
              \/ LockFree(new.work.id)
           /\ runs[new.work.id] # None
           /\ runs[new.work.id].completed # None =>
                new.work.kind = "snapshots",
         new.phase = "written" => WrittenBy(s)'
  PROVE  IInv'
<1> USE DEF IInv
<1>1. /\ tx \in [Slots -> Transactions]
      /\ tx'[s] = new
      /\ \A t \in Slots \ {s} : tx'[t] = tx[t]
  BY DEF TypeOK
<1>2. \A t \in Slots : tx[t].phase # "idle" => tx[t].work.id \in Ids
  BY <1>1, TxTypes, WorkTypes
<1>3. TypeOK'
  <2>1. tx' \in [Slots -> Transactions]
    BY <1>1
  <2>2. stream' \in [Ids -> [phase : {"closed", "open", "completed"},
                            seen : TargetRows]]
    <3>1. NoStream \in [phase : {"closed", "open", "completed"},
                       seen : TargetRows]
      BY DEF NoStream, NoTargets, TargetRows
    <3>2. QED
      BY <3>1 DEF TypeOK
  <2>3. QED
    BY <2>1, <2>2 DEF TypeOK
<1>4. OneLock'
  <2>1. SUFFICES ASSUME NEW t \in Slots, t # s, Locking(t)',
                        new.phase \in {"locked", "written"}
                 PROVE  new.work.id # tx[t].work.id
    BY <1>1 DEF OneLock, Locking
  <2>2. Locking(t) /\ tx'[t] = tx[t]
    BY <1>1, <2>1 DEF Locking
  <2>3. QED
    BY <2>1, <2>2 DEF OneLock, LockFree, Locking
<1>5. LockedRuns'
  BY <1>1 DEF LockedRuns, Locking
<1>6. WrittenWork'
  <2>1. SUFFICES ASSUME NEW t \in Slots, t # s, tx'[t].phase = "written"
                 PROVE  WrittenBy(t)'
    BY <1>1 DEF WrittenWork
  <2>2. tx'[t] = tx[t] /\ WrittenBy(t)
    BY <1>1, <2>1 DEF WrittenWork
  <2>3. QED
    BY <2>2 DEF WrittenBy, Pending
<1>7. UsedRuns' /\ CompleteRuns'
  BY DEF UsedRuns, CompleteRuns, Pending
<1>8. StreamReads'
  <2>1. \A id \in Ids : stream'[id].phase # "closed" =>
          stream[id].phase # "closed"
    BY DEF TypeOK, NoStream
  <2>2. QED
    BY <1>1, <2>1 DEF StreamReads
<1>9. CompletedStreamsToldAll'
  <2>1. \A id \in Ids : stream'[id].phase = "completed" =>
          stream'[id] = stream[id]
    BY DEF TypeOK, NoStream
  <2>2. QED
    BY <2>1 DEF CompletedStreamsToldAll
<1>10. QED
  BY <1>3, <1>4, <1>5, <1>6, <1>7, <1>8, <1>9

LEMMA EndStep ==
  ASSUME IInv, NEW s \in Slots, EndTx(s),
         UNCHANGED <<clock, used, runs, targets, handed>>
  PROVE  IInv'
<1>1. IdleTx \in Transactions
  BY DEF IdleTx, Transactions
<1>2. IdleTx.phase = "idle"
  BY DEF IdleTx
<1>3. QED
  BY <1>1, <1>2, TxStep DEF EndTx

LEMMA BeginStep ==
  ASSUME IInv, NEW s \in Slots, NEW w \in Work, Begin(s, w), w.id \in used,
         s \in Ids => w.id = s /\ w.kind = "snapshots",
         UNCHANGED <<clock, used, runs, targets, handed, stream>>
  PROVE  IInv'
<1> DEFINE new == [phase |-> "begun", work |-> w, now |-> clock]
<1>1. clock \in Nat
  BY DEF IInv, TypeOK
<1>2. new \in Transactions
  BY <1>1, BegunIsTransaction
<1>3. tx' = [tx EXCEPT ![s] = new]
  BY DEF Begin
<1>4. new.phase = "begun" /\ new.work = w
  OBVIOUS
<1> HIDE DEF new
<1>5. QED
  BY <1>2, <1>3, <1>4, TxStep

LEMMA LockStep ==
  ASSUME IInv, NEW s \in Slots, LockRun(s)
  PROVE  IInv'
<1>1. CASE NothingToDo(tx[s].work)
  BY <1>1, EndStep DEF LockRun
<1>2. CASE ~NothingToDo(tx[s].work)
  <2> DEFINE new == [phase |-> "locked", work |-> tx[s].work,
                     now |-> tx[s].now]
  <2>1. tx[s] \in Transactions /\ tx[s].phase = "begun"
    BY DEF IInv, TypeOK, LockRun
  <2>2. /\ tx[s].work \in Work
        /\ tx[s].now \in Nat
        /\ [tx[s] EXCEPT !.phase = "locked"] = new
    BY <2>1 DEF Transactions
  <2>3. new \in Transactions
    BY <2>2, BegunIsTransaction
  <2>4. tx' = [tx EXCEPT ![s] = new]
    BY <1>2, <2>2 DEF LockRun
  <2>5. new.phase = "locked" /\ new.work = tx[s].work
    OBVIOUS
  <2>6. /\ LockFree(tx[s].work.id)
        /\ runs[tx[s].work.id] # None
        /\ runs[tx[s].work.id].completed # None =>
             tx[s].work.kind = "snapshots"
        /\ UNCHANGED <<clock, used, runs, targets, handed, stream>>
    BY <1>2 DEF LockRun, NothingToDo
  <2>7. /\ tx[s].work.id \in used
        /\ s \in Ids => tx[s].work.id = s /\ tx[s].work.kind = "snapshots"
    BY <2>1 DEF IInv, StreamReads
  <2> HIDE DEF new
  <2>8. QED
    BY <2>3, <2>4, <2>5, <2>6, <2>7, TxStep
<1>3. QED
  BY <1>1, <1>2

(* A write is good if what it settles and completes is.                      *)
LEMMA WriteStep ==
  ASSUME IInv, NEW s \in Slots, tx[s].phase = "locked",
         NEW settled \in SUBSET Hosts, NEW status \in Statuses \ {"pending"},
         NEW c \in Nat \cup {None},
         Written(s, settled, status, c),
         \/ settled = {}
         \/ settled = Pending(tx[s].work.id) /\ status = "stopped"
         \/ /\ \E h \in Pending(tx[s].work.id) : settled = {h}
            /\ status \in {"collected", "error"},
         c = None <=> Pending(tx[s].work.id) \ settled # {},
         runs[tx[s].work.id].completed # None =>
           c = runs[tx[s].work.id].completed
  PROVE  IInv'
<1> DEFINE new == [phase |-> "written", work |-> tx[s].work, now |-> tx[s].now,
                   settled |-> settled, status |-> status, completed |-> c]
<1>1. tx[s] \in Transactions
  BY DEF IInv, TypeOK
<1>2. new \in Transactions
  BY <1>1, TxTypes, WrittenIsTransaction
<1>3. tx' = [tx EXCEPT ![s] = new] /\ tx'[s] = new
  BY DEF Written, IInv, TypeOK
<1>4. /\ new.phase = "written"
      /\ new.work = tx[s].work
      /\ new.settled = settled
      /\ new.status = status
      /\ new.completed = c
  OBVIOUS
<1> HIDE DEF new
<1>5. UNCHANGED <<clock, used, runs, targets, handed, stream>>
  BY DEF Written
<1>6. WrittenBy(s)'
  BY <1>3, <1>4, <1>5 DEF WrittenBy, Pending
<1>7. /\ Locking(s)
      /\ runs[tx[s].work.id] # None
      /\ runs[tx[s].work.id].completed # None => tx[s].work.kind = "snapshots"
      /\ tx[s].work.id \in used
      /\ s \in Ids => tx[s].work.id = s /\ tx[s].work.kind = "snapshots"
  BY DEF IInv, LockedRuns, StreamReads, Locking
<1>8. QED
  BY <1>2, <1>3, <1>4, <1>5, <1>6, <1>7, TxStep

(* What a transaction that holds the lock can rely on.                       *)
LEMMA LockedFacts ==
  ASSUME IInv, NEW s \in Slots, tx[s].phase = "locked"
  PROVE  /\ tx[s].work \in Work
         /\ tx[s].now \in Nat
         /\ tx[s].work.id \in Ids
         /\ runs[tx[s].work.id] \in Runs
         /\ runs[tx[s].work.id].completed = None <=>
              Pending(tx[s].work.id) # {}
         /\ runs[tx[s].work.id].completed # None =>
              tx[s].work.kind = "snapshots"
         /\ Pending(tx[s].work.id) \in SUBSET Hosts
<1>1. tx[s] \in Transactions
  BY DEF IInv, TypeOK
<1>2. tx[s].work \in Work /\ tx[s].work.id \in Ids /\ tx[s].now \in Nat
  BY <1>1, TxTypes, WorkTypes
<1>3. Locking(s)
  BY DEF Locking
<1>4. QED
  BY <1>2, <1>3 DEF IInv, TypeOK, LockedRuns, CompleteRuns, Pending

LEMMA ExpireStep ==
  ASSUME IInv, NEW s \in Slots, tx[s].phase = "locked", Expired(s),
         ExpireRun(s)
  PROVE  IInv'
<1> DEFINE id == tx[s].work.id
<1>1. /\ runs[id].completed = None
      /\ Written(s, Pending(id), "stopped", runs[id].deadline)
  BY DEF Expired, ExpireRun, ExpiredTargets
<1>2. /\ runs[id].deadline \in Nat \cup {None}
      /\ runs[id].deadline # None
      /\ Pending(id) \in SUBSET Hosts
  BY LockedFacts, NoneAssumption DEF Runs
<1>3. "stopped" \in Statuses \ {"pending"}
  BY DEF Statuses
<1> HIDE DEF id
<1>4. QED
  BY <1>1, <1>2, <1>3, WriteStep DEF id

LEMMA ResultStep ==
  ASSUME IInv, NEW s \in Slots, RecordResult(s)
  PROVE  IInv'
<1> DEFINE id == tx[s].work.id
           h  == tx[s].work.host
           c  == IF Pending(id) = {h} THEN tx[s].now ELSE None
<1>1. tx[s].phase = "locked" /\ tx[s].work.kind = "result"
  BY DEF RecordResult
<1>2. CASE Expired(s)
  BY <1>1, <1>2, ExpireStep DEF RecordResult
<1>3. CASE ~Expired(s)
  <2>1. /\ h \in Hosts
        /\ tx[s].work.status \in {"collected", "error"}
        /\ runs[id].completed = None
        /\ Pending(id) # {}
        /\ tx[s].now \in Nat
    BY <1>1, LockedFacts, WorkTypes
  <2>2. tx[s].work.status \in Statuses \ {"pending"}
    BY <2>1 DEF Statuses
  <2>3. Written(s, {h} \cap Pending(id), tx[s].work.status, c)
    BY <1>3 DEF RecordResult
  <2>4. /\ c \in Nat \cup {None}
        /\ c = None <=> Pending(id) \ ({h} \cap Pending(id)) # {}
    BY <2>1, NoneAssumption
  <2>5. \/ {h} \cap Pending(id) = {}
        \/ \E g \in Pending(id) : {h} \cap Pending(id) = {g}
    BY <2>1
  <2>6. {h} \cap Pending(id) \in SUBSET Hosts
    BY <2>1
  <2> HIDE DEF c
  <2>7. QED
    BY <1>1, <2>1, <2>2, <2>3, <2>4, <2>5, <2>6, WriteStep
<1>4. QED
  BY <1>2, <1>3

LEMMA StopStep ==
  ASSUME IInv, NEW s \in Slots, Stop(s)
  PROVE  IInv'
<1> DEFINE id == tx[s].work.id
<1>1. /\ tx[s].phase = "locked"
      /\ tx[s].work.kind = "stop"
      /\ Written(s, Pending(id), "stopped", tx[s].now)
  BY DEF Stop
<1>2. /\ runs[id].completed = None
      /\ Pending(id) \in SUBSET Hosts
      /\ tx[s].now \in Nat
      /\ tx[s].now # None
  BY <1>1, LockedFacts, NoneAssumption
<1>3. "stopped" \in Statuses \ {"pending"}
  BY DEF Statuses
<1>4. QED
  BY <1>1, <1>2, <1>3, WriteStep

LEMMA SnapshotsStep ==
  ASSUME IInv, NEW s \in Slots, Snapshots(s)
  PROVE  IInv'
<1> DEFINE id == tx[s].work.id
<1>1. tx[s].phase = "locked"
  BY DEF Snapshots
<1>2. CASE Expired(s)
  BY <1>1, <1>2, ExpireStep DEF Snapshots, ExpiredRead
<1>3. CASE ~Expired(s)
  <2>1. Written(s, {}, "stopped", runs[id].completed)
    BY <1>3 DEF Snapshots, ExpiredRead
  <2>2. /\ runs[id].completed \in Nat \cup {None}
        /\ runs[id].completed = None <=> Pending(id) \ {} # {}
    BY <1>1, LockedFacts DEF Runs
  <2>3. "stopped" \in Statuses \ {"pending"}
    BY DEF Statuses
  <2>4. QED
    BY <1>1, <2>1, <2>2, <2>3, WriteStep
<1>4. QED
  BY <1>2, <1>3

-----------------------------------------------------------------------------
(* The steps that change rows.                                               *)

(* What a transaction that has written, and so holds the lock, can rely on.  *)
LEMMA WrittenFacts ==
  ASSUME IInv, NEW s \in Slots, tx[s].phase = "written"
  PROVE  /\ tx[s].work.id \in Ids
         /\ tx[s].work.id \in used
         /\ tx[s].settled \in SUBSET Hosts
         /\ tx[s].status \in Statuses \ {"pending"}
         /\ tx[s].completed \in Nat \cup {None}
         /\ runs[tx[s].work.id] \in Runs
         /\ runs[tx[s].work.id] # None
         /\ runs[tx[s].work.id].completed = None <=>
              Pending(tx[s].work.id) # {}
         /\ WrittenBy(s)
         /\ tx[s].settled \subseteq Pending(tx[s].work.id)
<1>1. tx[s] \in Transactions
  BY DEF IInv, TypeOK
<1>2. /\ tx[s].work.id \in Ids
      /\ tx[s].settled \in SUBSET Hosts
      /\ tx[s].status \in Statuses \ {"pending"}
      /\ tx[s].completed \in Nat \cup {None}
  BY <1>1, TxTypes, WorkTypes
<1>3. Locking(s) /\ WrittenBy(s)
  BY DEF Locking, IInv, WrittenWork
<1>4. runs[tx[s].work.id] # None
  BY <1>3 DEF IInv, LockedRuns
<1>5. QED
  BY <1>2, <1>3, <1>4 DEF IInv, TypeOK, CompleteRuns, StreamReads, WrittenBy

(* A commit takes what it settled out of the pending targets of its run and  *)
(* completes the run with the last.                                          *)
LEMMA CommittedRows ==
  ASSUME IInv, NEW s \in Slots, Commit(s)
  PROVE  /\ targets' \in [Ids -> TargetRows]
         /\ runs' \in [Ids -> Runs \cup {None}]
         /\ targets'[tx[s].work.id] =
              Settle(targets[tx[s].work.id], tx[s].settled, tx[s].status)
         /\ {h \in Hosts : targets'[tx[s].work.id][h] = "pending"} =
              Pending(tx[s].work.id) \ tx[s].settled
         /\ runs'[tx[s].work.id] # None
         /\ runs'[tx[s].work.id].completed = tx[s].completed
         /\ \A i \in Ids \ {tx[s].work.id} :
              targets'[i] = targets[i] /\ runs'[i] = runs[i]
<1> DEFINE id == tx[s].work.id
           rows == Settle(targets[id], tx[s].settled, tx[s].status)
<1>1. tx[s].phase = "written"
  BY DEF Commit
<1>2. /\ id \in Ids
      /\ targets \in [Ids -> TargetRows]
      /\ targets[id] \in TargetRows
      /\ runs \in [Ids -> Runs \cup {None}]
      /\ tx[s].settled \in SUBSET Hosts
      /\ tx[s].status \in Statuses \ {"pending"}
  BY <1>1, WrittenFacts DEF IInv, TypeOK
<1> HIDE DEF id
<1>3. /\ rows \in TargetRows
      /\ \A h \in Hosts : rows[h] = "pending" <=>
           targets[id][h] = "pending" /\ h \notin tx[s].settled
  <2>1. \A h \in Hosts : rows[h] = IF h \in tx[s].settled THEN tx[s].status
                                   ELSE targets[id][h]
    BY DEF Settle
  <2>2. rows \in TargetRows
    BY <1>2 DEF Settle, TargetRows
  <2>3. QED
    BY <1>2, <2>1, <2>2
<1>4. targets' = [targets EXCEPT ![id] = rows]
  BY DEF Commit, id
<1> HIDE DEF rows
<1>5. /\ targets' \in [Ids -> TargetRows]
      /\ targets'[id] = rows
      /\ \A i \in Ids \ {id} : targets'[i] = targets[i]
  BY <1>2, <1>3, <1>4
<1>6. {h \in Hosts : targets'[id][h] = "pending"} =
        Pending(id) \ tx[s].settled
  BY <1>2, <1>3, <1>5 DEF Pending
<1> USE DEF id
<1>7. CASE tx[s].completed = None
  <2>1. runs' = runs
    BY <1>7 DEF Commit
  <2>2. runs[id].completed = None
    BY <1>1, <1>7, WrittenFacts DEF WrittenBy
  <2>3. QED
    BY <1>1, <1>2, <1>5, <1>6, <1>7, <2>1, <2>2, WrittenFacts DEF rows
<1>8. CASE tx[s].completed # None
  <2>1. runs' = [runs EXCEPT ![id].completed = tx[s].completed]
    BY <1>8 DEF Commit
  <2>2. [runs[id] EXCEPT !.completed = tx[s].completed] \in Runs
    BY <1>1, WrittenFacts DEF Runs
  <2>3. /\ runs' \in [Ids -> Runs \cup {None}]
        /\ runs'[id] = [runs[id] EXCEPT !.completed = tx[s].completed]
        /\ \A i \in Ids \ {id} : runs'[i] = runs[i]
    BY <1>1, <1>2, <2>1, <2>2, WrittenFacts
  <2>4. runs'[id].completed = tx[s].completed /\ runs'[id] # None
    BY <1>1, <2>2, <2>3, WrittenFacts, NoneAssumption DEF Runs
  <2>5. QED
    BY <1>5, <1>6, <2>3, <2>4 DEF rows
<1>9. QED
  BY <1>7, <1>8

LEMMA CommitStep ==
  ASSUME IInv, NEW s \in Slots, Commit(s)
  PROVE  IInv'
<1> DEFINE id == tx[s].work.id
<1>1. tx[s].phase = "written" /\ Locking(s)
  BY DEF Commit, Locking
<1>2. /\ tx \in [Slots -> Transactions]
      /\ tx' = [tx EXCEPT ![s] = IdleTx]
      /\ UNCHANGED <<clock, used, handed>>
  BY DEF Commit, IInv, TypeOK
<1>3. /\ IdleTx \in Transactions
      /\ tx' \in [Slots -> Transactions]
      /\ tx'[s].phase = "idle"
      /\ \A t \in Slots \ {s} : tx'[t] = tx[t]
  BY <1>2 DEF IdleTx, Transactions
<1>4. \A t \in Slots \ {s} : Locking(t) =>
        tx[t].work.id \in Ids /\ tx[t].work.id # id
  <2>1. TAKE t \in Slots \ {s}
  <2>2. HAVE Locking(t)
  <2>3. tx[t].work.id \in Ids
    BY <1>2, <2>2, TxTypes, WorkTypes DEF Locking
  <2>4. QED
    BY <1>1, <2>2, <2>3 DEF IInv, OneLock
<1>5. TypeOK'
  <2>1. stream' \in [Ids -> [phase : {"closed", "open", "completed"},
                            seen : TargetRows]]
    <3> DEFINE rows == Settle(targets[id], tx[s].settled, tx[s].status)
    <3>1. targets[id] \in TargetRows
      BY <1>1, WrittenFacts DEF IInv, TypeOK
    <3>2. rows \in TargetRows
      BY <1>1, <3>1, WrittenFacts DEF Settle, TargetRows
    <3>3. stream' = IF s \notin Ids THEN stream
                    ELSE [stream EXCEPT ![s] =
                           [phase |-> IF tx[s].completed = None THEN "open"
                                      ELSE "completed",
                            seen |-> rows]]
      BY DEF Commit
    <3> HIDE DEF rows
    <3>4. QED
      BY <3>2, <3>3 DEF IInv, TypeOK
  <2>2. \A i \in Ids : runs'[i] = None => targets'[i] = NoTargets
    BY <1>1, CommittedRows, WrittenFacts DEF IInv, TypeOK
  <2>3. QED
    BY <1>2, <1>3, <2>1, <2>2, CommittedRows DEF IInv, TypeOK
<1>6. OneLock'
  BY <1>3 DEF IInv, OneLock, Locking
<1>7. LockedRuns'
  BY <1>3, <1>4, CommittedRows DEF IInv, LockedRuns, Locking
<1>8. WrittenWork'
  <2>1. SUFFICES ASSUME NEW t \in Slots \ {s}, tx[t].phase = "written"
                 PROVE  WrittenBy(t)'
    BY <1>3 DEF WrittenWork
  <2>2. /\ WrittenBy(t)
        /\ tx'[t] = tx[t]
        /\ runs'[tx[t].work.id] = runs[tx[t].work.id]
        /\ targets'[tx[t].work.id] = targets[tx[t].work.id]
    BY <1>3, <1>4, <2>1, CommittedRows DEF Locking, IInv, WrittenWork
  <2>3. QED
    BY <2>2 DEF WrittenBy, Pending
<1>9. UsedRuns'
  BY <1>1, <1>2, CommittedRows, WrittenFacts DEF IInv, UsedRuns
<1>10. CompleteRuns'
  <2>1. SUFFICES ASSUME NEW i \in Ids, runs'[i] # None
                 PROVE  runs'[i].completed = None <=>
                          {h \in Hosts : targets'[i][h] = "pending"} # {}
    BY DEF CompleteRuns, Pending
  <2>2. CASE i = id
    BY <1>1, <2>2, CommittedRows, WrittenFacts DEF WrittenBy
  <2>3. CASE i # id
    BY <2>1, <2>3, CommittedRows DEF IInv, CompleteRuns, Pending
  <2>4. QED
    BY <2>2, <2>3
<1>11. StreamReads'
  <2>1. \A i \in Ids : stream'[i].phase # "closed" => i \in used
    BY <1>1 DEF Commit, IInv, TypeOK, StreamReads
  <2>2. QED
    BY <1>2, <1>3, <2>1 DEF IInv, StreamReads
<1>12. CompletedStreamsToldAll'
  <2>1. SUFFICES ASSUME NEW i \in Ids, stream'[i].phase = "completed"
                 PROVE  /\ \A h \in Hosts : stream'[i].seen[h] # "pending"
                        /\ runs'[i] # None =>
                             /\ runs'[i].completed # None
                             /\ stream'[i].seen = targets'[i]
    BY DEF CompletedStreamsToldAll
  <2>2. CASE i = s
    <3>1. i = id
      BY <1>1, <2>2 DEF IInv, StreamReads
    <3>2. stream'[i] = [phase |-> IF tx[s].completed = None THEN "open"
                                  ELSE "completed",
                        seen |-> targets'[id]]
      BY <2>2, CommittedRows DEF Commit, IInv, TypeOK
    <3>3. /\ tx[s].completed # None
          /\ stream'[i].seen = targets'[id]
      BY <2>1, <3>2
    <3>4. {h \in Hosts : targets'[id][h] = "pending"} = {}
      BY <1>1, <3>3, CommittedRows, WrittenFacts DEF WrittenBy
    <3>5. QED
      BY <3>1, <3>3, <3>4, CommittedRows
  <2>3. CASE i # s
    <3>1. /\ stream'[i] = stream[i]
          /\ \A h \in Hosts : stream[i].seen[h] # "pending"
          /\ runs[i] # None =>
               runs[i].completed # None /\ stream[i].seen = targets[i]
      BY <2>1, <2>3 DEF Commit, IInv, TypeOK, CompletedStreamsToldAll
    <3>2. CASE i # id
      BY <3>1, <3>2, CommittedRows
    <3>3. CASE i = id
      <4>1. /\ runs[id].completed # None
            /\ Pending(id) = {}
            /\ tx[s].settled = {}
            /\ tx[s].completed # None
        BY <1>1, <3>1, <3>3, WrittenFacts DEF WrittenBy
      <4>2. targets'[id] = targets[id]
        <5>1. targets[id] \in TargetRows
          BY <3>3 DEF IInv, TypeOK
        <5>2. Settle(targets[id], tx[s].settled, tx[s].status) = targets[id]
          BY <4>1, <5>1 DEF Settle, TargetRows
        <5>3. QED
          BY <5>2, CommittedRows
      <4>3. QED
        BY <1>1, <3>1, <3>3, <4>1, <4>2, CommittedRows, WrittenFacts
    <3>4. QED
      BY <3>2, <3>3
  <2>4. QED
    BY <2>2, <2>3
<1>13. QED
  BY <1>5, <1>6, <1>7, <1>8, <1>9, <1>10, <1>11, <1>12 DEF IInv

LEMMA StartStep ==
  ASSUME IInv, NEW id \in Ids, NEW selected \in SUBSET Hosts,
         Start(id, selected)
  PROVE  IInv'
<1> DEFINE old == {i \in Ids : runs[i] # None /\ ~Retained(i)}
           first == Settle(NoTargets, selected, "pending")
           run == [deadline |-> clock + Timeout,
                   completed |-> IF selected = {} THEN clock ELSE None]
<1>1. /\ id \notin used
      /\ \A i \in old : LockFree(i)
      /\ used' = used \cup {id}
      /\ UNCHANGED <<clock, handed, tx, stream>>
  BY DEF Start
<1>2. /\ runs' = [i \in Ids |-> IF i = id THEN run
                               ELSE IF i \in old THEN None ELSE runs[i]]
      /\ targets' = [ForgetTargets(old) EXCEPT ![id] = first]
  BY DEF Start
<1>3. runs[id] = None /\ id \notin old
  BY <1>1 DEF IInv, UsedRuns
<1>4. run \in Runs
  BY TimeAssumption DEF IInv, TypeOK, Runs
<1>5. first \in TargetRows
  BY DEF Settle, NoTargets, TargetRows, Statuses
<1>6. {h \in Hosts : first[h] = "pending"} = selected
  BY DEF Settle, NoTargets
<1>7. run.completed = None <=> selected # {}
  BY NoneAssumption DEF IInv, TypeOK
<1> HIDE DEF run, first
<1>8. /\ targets'[id] = first
      /\ runs'[id] = run
      /\ \A i \in Ids \ {id} :
           /\ targets'[i] = IF i \in old THEN NoTargets ELSE targets[i]
           /\ runs'[i] = IF i \in old THEN None ELSE runs[i]
  BY <1>2 DEF ForgetTargets
<1>9. run # None
  BY <1>4, NoneAssumption
<1>10. \A t \in Slots : tx[t].phase # "idle" =>
         tx[t].work.id \in Ids /\ tx[t].work.id # id
  <2>1. tx \in [Slots -> Transactions]
    BY DEF IInv, TypeOK
  <2>2. QED
    BY <1>1, <2>1, TxTypes, WorkTypes DEF IInv, StreamReads
<1>11. \A t \in Slots : Locking(t) =>
         /\ runs'[tx[t].work.id] = runs[tx[t].work.id]
         /\ targets'[tx[t].work.id] = targets[tx[t].work.id]
  BY <1>1, <1>8, <1>10 DEF LockFree, Locking
<1> HIDE DEF old
<1>12. TypeOK'
  <2>1. NoTargets \in TargetRows
    BY DEF NoTargets, TargetRows
  <2>2. /\ runs' \in [Ids -> Runs \cup {None}]
        /\ \A i \in Ids : runs'[i] = None => targets'[i] = NoTargets
    BY <1>2, <1>4, <1>8, <1>9 DEF IInv, TypeOK
  <2>3. targets' \in [Ids -> TargetRows]
    BY <1>2, <1>5, <2>1 DEF IInv, TypeOK, ForgetTargets
  <2>4. QED
    BY <1>1, <2>2, <2>3 DEF IInv, TypeOK
<1>13. OneLock'
  BY <1>1 DEF IInv, OneLock, Locking
<1>14. LockedRuns'
  BY <1>1, <1>11 DEF IInv, LockedRuns, Locking
<1>15. WrittenWork'
  <2>1. SUFFICES ASSUME NEW t \in Slots, tx[t].phase = "written"
                 PROVE  WrittenBy(t)'
    BY <1>1 DEF WrittenWork
  <2>2. /\ WrittenBy(t)
        /\ tx'[t] = tx[t]
        /\ runs'[tx[t].work.id] = runs[tx[t].work.id]
        /\ targets'[tx[t].work.id] = targets[tx[t].work.id]
    BY <1>1, <1>11, <2>1 DEF IInv, WrittenWork, Locking
  <2>3. QED
    BY <2>2 DEF WrittenBy, Pending
<1>16. UsedRuns'
  BY <1>1, <1>8 DEF IInv, UsedRuns
<1>17. CompleteRuns'
  <2>1. SUFFICES ASSUME NEW i \in Ids, runs'[i] # None
                 PROVE  runs'[i].completed = None <=>
                          {h \in Hosts : targets'[i][h] = "pending"} # {}
    BY DEF CompleteRuns, Pending
  <2>2. CASE i = id
    BY <1>6, <1>7, <1>8, <2>2
  <2>3. CASE i # id
    BY <1>8, <2>1, <2>3 DEF IInv, CompleteRuns, Pending
  <2>4. QED
    BY <2>2, <2>3
<1>18. StreamReads'
  BY <1>1 DEF IInv, StreamReads
<1>19. CompletedStreamsToldAll'
  <2>1. \A i \in Ids : stream[i].phase = "completed" => i # id
    BY <1>1 DEF IInv, StreamReads
  <2>2. QED
    BY <1>1, <1>8, <2>1 DEF IInv, CompletedStreamsToldAll
<1>20. QED
  BY <1>12, <1>13, <1>14, <1>15, <1>16, <1>17, <1>18, <1>19 DEF IInv

(* The clock, the work handed to hosts and the end of a stream.              *)
LEMMA OtherStep ==
  ASSUME IInv, UNCHANGED <<used, runs, targets, tx>>,
         clock' \in Nat, handed' \in [Hosts -> SUBSET Ids],
         \A h \in Hosts : handed'[h] \subseteq used,
         \/ UNCHANGED stream
         \/ \E id \in Ids : stream' = [stream EXCEPT ![id] = NoStream]
  PROVE  IInv'
<1>1. NoStream \in [phase : {"closed", "open", "completed"},
                   seen : TargetRows]
  BY DEF NoStream, NoTargets, TargetRows
<1>2. /\ stream' \in [Ids -> [phase : {"closed", "open", "completed"},
                             seen : TargetRows]]
      /\ \A i \in Ids : stream'[i].phase # "closed" =>
           stream'[i] = stream[i]
  BY <1>1 DEF IInv, TypeOK, NoStream
<1>3. TypeOK'
  BY <1>2 DEF IInv, TypeOK
<1>4. OneLock' /\ LockedRuns' /\ UsedRuns'
  BY DEF IInv, OneLock, LockedRuns, UsedRuns, Locking
<1>5. WrittenWork' /\ CompleteRuns'
  BY DEF IInv, WrittenWork, WrittenBy, CompleteRuns, Pending
<1>6. StreamReads' /\ CompletedStreamsToldAll'
  BY <1>2 DEF IInv, StreamReads, CompletedStreamsToldAll
<1>7. QED
  BY <1>3, <1>4, <1>5, <1>6 DEF IInv

-----------------------------------------------------------------------------
(* The invariant.                                                            *)

LEMMA InitInvariant == Init => IInv
<1>1. SUFFICES ASSUME Init PROVE IInv
  OBVIOUS
<1>2. NoTargets \in TargetRows
  BY DEF NoTargets, TargetRows
<1>3. IdleTx \in Transactions /\ IdleTx.phase = "idle"
  BY DEF IdleTx, Transactions
<1>4. TypeOK
  BY <1>1, <1>2, <1>3 DEF Init, TypeOK, NoStream
<1>5. \A s \in Slots : tx[s].phase = "idle"
  BY <1>1, <1>3 DEF Init
<1>6. OneLock /\ LockedRuns /\ WrittenWork
  BY <1>5 DEF OneLock, LockedRuns, WrittenWork, Locking
<1>7. UsedRuns /\ CompleteRuns /\ StreamReads /\ CompletedStreamsToldAll
  BY <1>1, <1>5 DEF Init, UsedRuns, CompleteRuns, StreamReads,
                    CompletedStreamsToldAll, NoStream
<1>8. QED
  BY <1>4, <1>6, <1>7 DEF IInv

LEMMA NextInvariant == IInv /\ [Next]_vars => IInv'
<1>1. SUFFICES ASSUME IInv, [Next]_vars PROVE IInv'
  OBVIOUS
<1>2. CASE Tick
  BY <1>1, <1>2, OtherStep DEF Tick, IInv, TypeOK, UsedRuns
<1>3. ASSUME NEW id \in Ids, NEW selected \in SUBSET Hosts,
             Start(id, selected)
      PROVE  IInv'
  BY <1>1, <1>3, StartStep
<1>4. ASSUME NEW s \in Requests, NEW id \in Ids, RequestStop(s, id)
      PROVE  IInv'
  <2> DEFINE w == [kind |-> "stop", id |-> id]
  <2>1. w \in Work /\ w.id = id
    BY DEF Work
  <2>2. s \in Slots /\ s \notin Ids
    BY RequestsAssumption DEF Slots
  <2>3. /\ Begin(s, w)
        /\ id \in used
        /\ UNCHANGED <<clock, used, runs, targets, handed, stream>>
    BY <1>4 DEF RequestStop
  <2> HIDE DEF w
  <2>4. QED
    BY <1>1, <2>1, <2>2, <2>3, BeginStep
<1>5. ASSUME NEW h \in Hosts, DistributedRead(h)
      PROVE  IInv'
  <2>1. /\ handed' \in [Hosts -> SUBSET Ids]
        /\ \A g \in Hosts : handed'[g] \subseteq used
    BY <1>1, <1>5 DEF DistributedRead, PendingForHost, IInv, TypeOK, UsedRuns
  <2>2. QED
    BY <1>1, <1>5, <2>1, OtherStep DEF DistributedRead, IInv, TypeOK
<1>6. ASSUME NEW s \in Requests, NEW h \in Hosts, NEW id \in Ids,
             NEW status \in {"collected", "error"},
             DistributedWrite(s, h, id, status)
      PROVE  IInv'
  <2> DEFINE w == [kind |-> "result", id |-> id, host |-> h,
                   status |-> status]
  <2>1. w \in Work /\ w.id = id
    BY DEF Work
  <2>2. s \in Slots /\ s \notin Ids
    BY RequestsAssumption DEF Slots
  <2>3. /\ Begin(s, w)
        /\ id \in used
        /\ UNCHANGED <<clock, used, runs, targets, handed, stream>>
    BY <1>1, <1>6 DEF DistributedWrite, IInv, UsedRuns
  <2> HIDE DEF w
  <2>4. QED
    BY <1>1, <2>1, <2>2, <2>3, BeginStep
<1>7. ASSUME NEW id \in Ids, PollStream(id)
      PROVE  IInv'
  <2> DEFINE w == [kind |-> "snapshots", id |-> id]
  <2>1. w \in Work /\ w.id = id /\ w.kind = "snapshots"
    BY DEF Work
  <2>2. id \in Slots
    BY DEF Slots
  <2>3. /\ Begin(id, w)
        /\ id \in used
        /\ UNCHANGED <<clock, used, runs, targets, handed, stream>>
    BY <1>7 DEF PollStream
  <2> HIDE DEF w
  <2>4. QED
    BY <1>1, <2>1, <2>2, <2>3, BeginStep
<1>8. ASSUME NEW id \in Ids, CloseStream(id)
      PROVE  IInv'
  BY <1>1, <1>8, OtherStep DEF CloseStream, IInv, TypeOK, UsedRuns
<1>9. ASSUME NEW s \in Slots, Transaction(s)
      PROVE  IInv'
  BY <1>1, <1>9, LockStep, ResultStep, StopStep, SnapshotsStep, CommitStep
     DEF Transaction
<1>10. ASSUME NEW s \in Slots, Rollback(s)
       PROVE  IInv'
  BY <1>1, <1>10, EndStep DEF Rollback
<1>11. CASE UNCHANGED vars
  BY <1>1, <1>11, OtherStep DEF vars, IInv, TypeOK, UsedRuns
<1>12. QED
  BY <1>1, <1>2, <1>3, <1>4, <1>5, <1>6, <1>7, <1>8, <1>9, <1>10, <1>11
     DEF Next

THEOREM Invariant == Spec => []IInv
  BY InitInvariant, NextInvariant, PTL DEF Spec

(* Every row, transaction and stream keeps its type, and a deleted run       *)
(* leaves no targets (Start, the foreign key of                              *)
(* osquery_live_query_targets).                                              *)
THEOREM LiveQueriesTypeCorrect == Spec => []TypeOK
<1>1. IInv => TypeOK
  BY DEF IInv
<1>2. QED
  BY <1>1, Invariant, PTL

(* A stream that was told its run is completed was told every final status   *)
(* (Snapshots, streamLiveQuery).                                             *)
THEOREM StreamsAreTold == Spec => []CompletedStreamsToldAll
<1>1. IInv => CompletedStreamsToldAll
  BY DEF IInv
<1>2. QED
  BY <1>1, Invariant, PTL

-----------------------------------------------------------------------------
(* The refinement.                                                           *)

AbstractState == [id \in Ids |-> RunState(id)]

LEMMA InitRefines == Init => Abstract!RunsInit
  BY DEF Init, Abstract!RunsInit, Abstract!NoAnswers, NoTargets, RunState

(* A step that changes no row and no run's state is a stutter.               *)
LEMMA Stutters ==
  ASSUME UNCHANGED <<used, runs, targets>>
  PROVE  UNCHANGED Abstract!abstract
  BY DEF Abstract!abstract, RunState

LEMMA StartRefines ==
  ASSUME IInv, NEW id \in Ids, NEW selected \in SUBSET Hosts,
         Start(id, selected)
  PROVE  Abstract!RunsNext
<1> DEFINE old == {i \in Ids : runs[i] # None /\ ~Retained(i)}
           first == [h \in Hosts |-> IF h \in selected THEN "pending"
                                     ELSE "untargeted"]
           run == [deadline |-> clock + Timeout,
                   completed |-> IF selected = {} THEN clock ELSE None]
<1>1. /\ id \notin used
      /\ used' = used \cup {id}
      /\ runs' = [i \in Ids |-> IF i = id THEN run
                               ELSE IF i \in old THEN None ELSE runs[i]]
      /\ targets' = [ForgetTargets(old) EXCEPT ![id] =
                       Settle(NoTargets, selected, "pending")]
  BY DEF Start
<1>2. Settle(NoTargets, selected, "pending") = first
  BY DEF Settle, NoTargets
<1>3. targets' = [i \in Ids |-> IF i = id THEN first
                               ELSE IF i \in old THEN Abstract!NoAnswers
                               ELSE targets[i]]
  BY <1>1, <1>2 DEF ForgetTargets, Abstract!NoAnswers, NoTargets
<1>4. /\ \A i \in old : i \in Ids /\ runs[i] # None /\ i \in used
      /\ run # None
      /\ run.completed = None <=> selected # {}
  BY NoneAssumption, TimeAssumption DEF IInv, UsedRuns, TypeOK, Runs
<1>5. Abstract!StateOf(first) = IF selected # {} THEN "open" ELSE "complete"
  BY DEF Abstract!StateOf
<1>6. RunState(id) = "unused"
  BY <1>1 DEF RunState
<1>7. \A i \in old : RunState(i) \in {"open", "complete"}
  BY <1>4 DEF RunState
<1> HIDE DEF old, run
<1>8. \A i \in Ids : RunState(i)' =
        IF i = id THEN Abstract!StateOf(first)
        ELSE IF i \in old THEN "forgotten" ELSE RunState(i)
  <2>1. TAKE i \in Ids
  <2>2. CASE i = id
    BY <1>1, <1>4, <1>5, <2>2 DEF RunState
  <2>3. CASE i # id /\ i \in old
    BY <1>1, <1>4, <2>3 DEF RunState
  <2>4. CASE i # id /\ i \notin old
    BY <1>1, <2>4 DEF RunState
  <2>5. QED
    BY <2>2, <2>3, <2>4
<1>9. Abstract!StartRun(id, selected, old)
  BY <1>3, <1>4, <1>6, <1>7, <1>8 DEF Abstract!StartRun
<1>10. QED
  BY <1>4, <1>9 DEF Abstract!RunsNext

LEMMA CommitRefines ==
  ASSUME IInv, NEW s \in Slots, Commit(s)
  PROVE  [Abstract!RunsNext]_(Abstract!abstract)
<1>1. tx[s].phase = "written" /\ used' = used
  BY DEF Commit
<1>2. PICK id \in Ids : id = tx[s].work.id
  BY <1>1, WrittenFacts
<1>3. /\ id \in used
      /\ runs[id] # None
      /\ runs[id].completed = None <=> Pending(id) # {}
      /\ WrittenBy(s)
      /\ tx[s].settled \subseteq Pending(id)
  BY <1>1, <1>2, WrittenFacts
<1>4. targets' = [targets EXCEPT ![id] =
                   [h \in Hosts |-> IF h \in tx[s].settled THEN tx[s].status
                                    ELSE targets[id][h]]]
  BY <1>2 DEF Commit, Settle
<1>5. /\ {h \in Hosts : targets'[id][h] = "pending"} =
           Pending(id) \ tx[s].settled
      /\ runs'[id] # None
      /\ runs'[id].completed = tx[s].completed
      /\ \A i \in Ids \ {id} : runs'[i] = runs[i]
  BY <1>2, CommittedRows
<1>6. /\ tx[s].completed = None <=> Pending(id) \ tx[s].settled # {}
      /\ \A i \in Ids \ {id} : RunState(i)' = RunState(i)
  BY <1>1, <1>3, <1>5, <1>2 DEF WrittenBy, RunState
<1>7. CASE tx[s].settled = {}
  <2>1. RunState(id)' = RunState(id)
    BY <1>1, <1>3, <1>5, <1>6, <1>7 DEF RunState
  <2>2. targets' = targets
    BY <1>3, <1>4, <1>7 DEF IInv, TypeOK, TargetRows
  <2>3. QED
    BY <1>6, <2>1, <2>2 DEF Abstract!abstract
<1>8. CASE tx[s].settled # {}
  <2>1. RunState(id) = "open"
    BY <1>3, <1>8 DEF RunState
  <2>2. RunState(id)' = Abstract!StateOf(targets'[id])
    BY <1>1, <1>3, <1>5, <1>6 DEF RunState, Abstract!StateOf
  <2>3. AbstractState' = [AbstractState EXCEPT ![id] =
                           Abstract!StateOf(targets'[id])]
    BY <1>6, <2>2 DEF AbstractState
  <2>4. Abstract!SettleTargets(id, tx[s].settled, tx[s].status)
    BY <1>3, <1>4, <1>8, <2>1, <2>3
       DEF Abstract!SettleTargets, AbstractState, Pending
  <2>5. CASE tx[s].settled = Pending(id) /\ tx[s].status = "stopped"
    BY <1>3, <2>4, <2>5 DEF Abstract!RunsNext, Abstract!StopRun, Pending
  <2>6. CASE /\ \E h \in Pending(id) : tx[s].settled = {h}
             /\ tx[s].status \in {"collected", "error"}
    BY <1>3, <2>4, <2>6 DEF Abstract!RunsNext, Abstract!AnswerRun, Pending
  <2>7. QED
    BY <1>3, <1>8, <1>2, <2>5, <2>6 DEF WrittenBy
<1>9. QED
  BY <1>7, <1>8

LEMMA NextRefines ==
  IInv /\ [Next]_vars => [Abstract!RunsNext]_(Abstract!abstract)
<1>1. SUFFICES ASSUME IInv, [Next]_vars
               PROVE  [Abstract!RunsNext]_(Abstract!abstract)
  OBVIOUS
<1>2. ASSUME NEW id \in Ids, NEW selected \in SUBSET Hosts,
             Start(id, selected)
      PROVE  Abstract!RunsNext
  BY <1>1, <1>2, StartRefines
<1>3. ASSUME NEW s \in Slots, Commit(s)
      PROVE  [Abstract!RunsNext]_(Abstract!abstract)
  BY <1>1, <1>3, CommitRefines
<1>4. ASSUME NEW s \in Slots, Transaction(s), ~Commit(s)
      PROVE  UNCHANGED <<used, runs, targets>>
  BY <1>4 DEF Transaction, LockRun, RecordResult, Stop, Snapshots, ExpireRun,
              Written
<1>5. ASSUME NEW s \in Slots, Rollback(s)
      PROVE  UNCHANGED <<used, runs, targets>>
  BY <1>5 DEF Rollback
<1>6. CASE \/ Tick
           \/ \E s \in Requests, id \in Ids : RequestStop(s, id)
           \/ \E h \in Hosts : DistributedRead(h)
           \/ \E s \in Requests, h \in Hosts, id \in Ids,
                status \in {"collected", "error"} :
                DistributedWrite(s, h, id, status)
           \/ \E id \in Ids : PollStream(id) \/ CloseStream(id)
           \/ UNCHANGED vars
  <2>1. UNCHANGED <<used, runs, targets>>
    BY <1>6 DEF Tick, RequestStop, DistributedRead, DistributedWrite,
                PollStream, CloseStream, vars
  <2>2. QED
    BY <2>1, Stutters
<1>7. QED
  BY <1>1, <1>2, <1>3, <1>4, <1>5, <1>6, Stutters DEF Next

(* However its transactions interleave, the store keeps the promise of       *)
(* LiveQueryRuns (RecordResult, Stop, expireRun).                            *)
THEOREM LiveQueriesRefine == Spec => ImplementsRuns
<1>1. Spec => []IInv
  BY Invariant
<1>2. QED
  BY <1>1, InitRefines, NextRefines, PTL
     DEF Spec, ImplementsRuns, Abstract!RunsSpec
=============================================================================
