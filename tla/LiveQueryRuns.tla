----------------------------- MODULE LiveQueryRuns -----------------------------
(***************************************************************************)
(* What internal/osquery/livequery promises of a live query, whoever       *)
(* writes to it and in whatever order: every target is answered or stopped *)
(* exactly once, and the run is complete when, and only when, no target is *)
(* left.                                                                   *)
(***************************************************************************)
CONSTANTS Hosts, Ids

VARIABLES
  state,   \* state[id]: "unused", "open", "complete" or "forgotten"
  answers  \* answers[id][h]: what is known of host h in run id

abstract == <<state, answers>>

Answers == {"untargeted", "pending", "collected", "error", "stopped"}
NoAnswers == [h \in Hosts |-> "untargeted"]

StateOf(a) == IF \E h \in Hosts : a[h] = "pending" THEN "open" ELSE "complete"

RunsInit ==
  /\ state = [id \in Ids |-> "unused"]
  /\ answers = [id \in Ids |-> NoAnswers]

(* A run starts on the hosts selected for it; old runs are forgotten.        *)
StartRun(id, selected, old) ==
  /\ state[id] = "unused"
  /\ \A i \in old : state[i] \in {"open", "complete"}
  /\ LET first == [h \in Hosts |-> IF h \in selected THEN "pending"
                                   ELSE "untargeted"]
     IN  /\ state' = [i \in Ids |-> IF i = id THEN StateOf(first)
                                    ELSE IF i \in old THEN "forgotten"
                                    ELSE state[i]]
         /\ answers' = [i \in Ids |-> IF i = id THEN first
                                      ELSE IF i \in old THEN NoAnswers
                                      ELSE answers[i]]

(* Some pending targets get a status for good: one host answers, or an       *)
(* administrator or the deadline stops all that are left.                    *)
SettleTargets(id, settled, status) ==
  /\ state[id] = "open"
  /\ settled # {}
  /\ \A h \in settled : answers[id][h] = "pending"
  /\ answers' = [answers EXCEPT ![id] =
       [h \in Hosts |-> IF h \in settled THEN status ELSE answers[id][h]]]
  /\ state' = [state EXCEPT ![id] = StateOf(answers'[id])]

AnswerRun(id, h, status) ==
  status \in {"collected", "error"} /\ SettleTargets(id, {h}, status)

StopRun(id) ==
  SettleTargets(id, {h \in Hosts : answers[id][h] = "pending"}, "stopped")

RunsNext ==
  \/ \E id \in Ids, selected \in SUBSET Hosts, old \in SUBSET Ids :
       StartRun(id, selected, old)
  \/ \E id \in Ids, h \in Hosts, status \in {"collected", "error"} :
       AnswerRun(id, h, status)
  \/ \E id \in Ids : StopRun(id)

RunsSpec == RunsInit /\ [][RunsNext]_abstract
=============================================================================
