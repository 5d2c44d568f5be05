----------------------------- MODULE SantaRules -----------------------------
(***************************************************************************)
(* The rule algebra of Santa synchronisation                               *)
(* (internal/santa/syncstate/rules.go): rule sets, the transitive          *)
(* authorities they grant, the counts a client reports, the payload that   *)
(* carries one set to a client and the pages it is downloaded in.          *)
(*                                                                         *)
(* The database holds at most one target per rule type and identifier, so  *)
(* a rule set is a function from identities to contents, NoRule where the  *)
(* set has no target.  Identities are numbered in the order the code sorts *)
(* targets (rule type, then identifier).                                   *)
(***************************************************************************)
EXTENDS Integers, FiniteSets

CONSTANTS
  Identities,   \* identity keys: a rule type and an identifier
  Contents,     \* what a target carries: policy, CEL expression, texts
  NoRule,       \* no target for an identity; a payload rule marked removed
  RuleType      \* the rule type of every identity

RuleTypes == {"cdhash", "binary", "signingid", "certificate", "teamid"}

ASSUME RulesAssumption ==
  /\ IsFiniteSet(Identities)
  /\ Identities \subseteq Nat \ {0}
  /\ NoRule \notin Contents
  /\ RuleType \in [Identities -> RuleTypes]

RuleSets == [Identities -> Contents \cup {NoRule}]

NoRules == [i \in Identities |-> NoRule]

Present(rules) == {i \in Identities : rules[i] # NoRule}

-----------------------------------------------------------------------------
(* Transitive authorities: a compiler rule, or a CEL rule by its expression, *)
(* lets the client create allow rules of its own.                            *)

AuthorityOf(i, content) ==
  IF content.policy = "cel" THEN <<i, "cel", content.cel>>
                            ELSE <<i, "allowlist_compiler">>

TransitiveAuthorities(rules) ==
  {AuthorityOf(i, rules[i]) :
     i \in {j \in Present(rules) :
              rules[j].policy \in {"allowlist_compiler", "cel"}}}

TransitiveAuthorityAdded(applied, desired) ==   \* mutant: sides swapped
  \E authority \in TransitiveAuthorities(desired) :
    authority \notin TransitiveAuthorities(applied)

TransitiveAuthorityRemoved(applied, desired) ==
  \E authority \in TransitiveAuthorities(applied) :
    authority \notin TransitiveAuthorities(desired)

-----------------------------------------------------------------------------
(* The per-type counts of a rule set; a client reports those of its own      *)
(* rules, its transitive binary rules already subtracted.                    *)

CountTargets(rules) ==
  [t \in RuleTypes \cup {"compiler"} |->
     Cardinality(
       {i \in Present(rules) :
          IF t = "compiler"
            THEN /\ RuleType[i] = "binary"
                 /\ rules[i].policy = "allowlist_compiler"
            ELSE RuleType[i] = t})]

(* The digest Santa computes over its rule table.  External: the code only   *)
(* compares digests, and the model takes them to be free of collisions.      *)
RulesHash(rules) == {<<i, rules[i]>> : i \in Present(rules)}

-----------------------------------------------------------------------------
(* Payloads.                                                                 *)

(* The identity of the removal sent when a clean sync has no rule to send.   *)
Tombstone == 0

PayloadIdentities == Identities \cup {Tombstone}

PayloadRules == [id : PayloadIdentities, content : Contents \cup {NoRule}]

NormalSyncWithoutRemovals(desired, applied) ==   \* mutant
  {[id |-> i, content |-> desired[i]] :
     i \in {j \in Present(desired) : desired[j] # applied[j]}}

(* The targets that are new or changed, and a removal of each target that is *)
(* applied and no longer desired.                                            *)
NormalSyncPayload(desired, applied) ==
  {[id |-> i, content |-> desired[i]] :
     i \in {j \in Identities : desired[j] # applied[j]}}

CleanSyncWithoutTombstone(desired) ==   \* mutant
  {[id |-> i, content |-> desired[i]] : i \in Present(desired)}

CleanSyncPayload(desired) ==
  IF Present(desired) = {}
    THEN {[id |-> Tombstone, content |-> NoRule]}
    ELSE {[id |-> i, content |-> desired[i]] : i \in Present(desired)}

PendingPayload(type, desired, applied) ==
  IF type = "normal" THEN NormalSyncPayload(desired, applied)
                     ELSE CleanSyncPayload(desired)

(* The place of a rule in the sorted payload, from 1.                        *)
Rank(payload, rule) == Cardinality({p \in payload : p.id <= rule.id})

(* The rules from offset to offset + limit of the sorted payload.            *)
PayloadPage(payload, offset, limit) ==
  {rule \in payload : /\ offset < Rank(payload, rule)
                      /\ Rank(payload, rule) <= offset + limit}

HasNextWithoutLookahead(payload, offset, limit) ==   \* mutant: off by one
  offset + limit + 1 < Cardinality(payload)

(* A page carries a cursor to the next one when the payload goes beyond it.  *)
HasNextPage(payload, offset, limit) == offset + limit < Cardinality(payload)

-----------------------------------------------------------------------------
(* What a client makes of a payload.  External.                              *)

ApplyPayload(rules, payload) ==
  [i \in Identities |->
     IF \E p \in payload : p.id = i
       THEN (CHOOSE p \in payload : p.id = i).content
       ELSE rules[i]]

=============================================================================
