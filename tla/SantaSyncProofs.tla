--------------------------- MODULE SantaSyncProofs ---------------------------
(***************************************************************************)
(* Proofs about Santa rule synchronisation, for any rules, any page size   *)
(* and any history of changes and abandoned syncs.                         *)
(***************************************************************************)
EXTENDS SantaSync, FiniteSetTheorems, TLAPS

-----------------------------------------------------------------------------
(* The rule algebra.                                                         *)

LEMMA PresentFinite ==
  ASSUME NEW rules \in RuleSets
  PROVE  IsFiniteSet(Present(rules))
BY RulesAssumption, FS_Subset DEF Present

LEMMA RulesHashType ==
  ASSUME NEW rules \in RuleSets
  PROVE  RulesHash(rules) \in Hashes
BY DEF RulesHash, Hashes, RuleSets, Present

LEMMA CountsType ==
  ASSUME NEW rules \in RuleSets
  PROVE  CountTargets(rules) \in Counts
<1>1. ASSUME NEW S \in SUBSET Present(rules) PROVE Cardinality(S) \in Nat
  BY <1>1, PresentFinite, FS_Subset, FS_CardinalityType
<1> QED
  BY <1>1 DEF CountTargets, Counts

(* Rule sets with the same digest are the same.                              *)
LEMMA RulesHashInjective ==
  ASSUME NEW a \in RuleSets, NEW b \in RuleSets, RulesHash(a) = RulesHash(b)
  PROVE  a = b
<1>1. ASSUME NEW i \in Identities PROVE a[i] = b[i]
  <2>1. CASE a[i] # NoRule
    <3>1. <<i, a[i]>> \in RulesHash(b)
      BY <2>1 DEF RulesHash, Present
    <3> QED BY <3>1 DEF RulesHash
  <2>2. CASE b[i] # NoRule
    <3>1. <<i, b[i]>> \in RulesHash(a)
      BY <2>2 DEF RulesHash, Present
    <3> QED BY <3>1 DEF RulesHash
  <2> QED BY <2>1, <2>2
<1> QED BY <1>1 DEF RuleSets

(* Applying a delta to the targets it starts from gives the desired ones,    *)
LEMMA NormalSyncApplies ==
  ASSUME NEW desiredSet \in RuleSets, NEW appliedSet \in RuleSets
  PROVE  ApplyPayload(appliedSet, NormalSyncPayload(desiredSet, appliedSet))
           = desiredSet
<1> DEFINE P == NormalSyncPayload(desiredSet, appliedSet)
<1>1. ASSUME NEW i \in Identities, \E p \in P : p.id = i
      PROVE  (CHOOSE p \in P : p.id = i).content = desiredSet[i]
  <2>1. \A p \in P : p.id = i => p.content = desiredSet[i]
    BY DEF NormalSyncPayload
  <2> QED BY <1>1, <2>1
<1>2. ASSUME NEW i \in Identities, ~ \E p \in P : p.id = i
      PROVE  appliedSet[i] = desiredSet[i]
  <2>1. SUFFICES ASSUME appliedSet[i] # desiredSet[i] PROVE FALSE
    OBVIOUS
  <2>2. [id |-> i, content |-> desiredSet[i]] \in P
    BY <2>1 DEF NormalSyncPayload
  <2> QED BY <1>2, <2>2
<1> HIDE DEF P
<1>3. ApplyPayload(appliedSet, P) = [i \in Identities |-> desiredSet[i]]
  BY <1>1, <1>2 DEF ApplyPayload
<1> QED BY <1>3 DEF P, RuleSets

(* and so does applying a whole set to an empty table.                       *)
LEMMA CleanSyncApplies ==
  ASSUME NEW desiredSet \in RuleSets
  PROVE  ApplyPayload(NoRules, CleanSyncPayload(desiredSet)) = desiredSet
<1> DEFINE P == CleanSyncPayload(desiredSet)
<1>0. Tombstone \notin Identities
  BY RulesAssumption DEF Tombstone
<1>1. ASSUME NEW i \in Identities, \E p \in P : p.id = i
      PROVE  (CHOOSE p \in P : p.id = i).content = desiredSet[i]
  <2>1. \A p \in P : p.id = i => p.content = desiredSet[i]
    BY <1>0 DEF CleanSyncPayload
  <2> QED BY <1>1, <2>1
<1>2. ASSUME NEW i \in Identities, ~ \E p \in P : p.id = i
      PROVE  NoRule = desiredSet[i]
  <2>1. SUFFICES ASSUME NoRule # desiredSet[i] PROVE FALSE
    OBVIOUS
  <2>2. [id |-> i, content |-> desiredSet[i]] \in P
    BY <2>1 DEF CleanSyncPayload, Present
  <2> QED BY <1>2, <2>2
<1> HIDE DEF P
<1>3. ApplyPayload(NoRules, P) = [i \in Identities |-> desiredSet[i]]
  BY <1>1, <1>2 DEF ApplyPayload, NoRules
<1> QED BY <1>3 DEF P, RuleSets

LEMMA EmptyDelta ==
  ASSUME NEW desiredSet \in RuleSets, NEW appliedSet \in RuleSets,
         NormalSyncPayload(desiredSet, appliedSet) = {}
  PROVE  desiredSet = appliedSet
<1>1. \A i \in Identities : desiredSet[i] = appliedSet[i]
  BY DEF NormalSyncPayload
<1> QED BY <1>1 DEF RuleSets

LEMMA CleanSyncNotEmpty ==
  ASSUME NEW desiredSet \in RuleSets
  PROVE  CleanSyncPayload(desiredSet) # {}
BY DEF CleanSyncPayload

-----------------------------------------------------------------------------
(* Pages.                                                                    *)

IsPayload(P) ==
  /\ P \subseteq PayloadRules
  /\ IsFiniteSet(P)
  /\ \A p, q \in P : p.id = q.id => p = q

LEMMA PendingIsPayload ==
  ASSUME NEW type \in SyncTypes,
         NEW desiredSet \in RuleSets, NEW appliedSet \in RuleSets
  PROVE  IsPayload(PendingPayload(type, desiredSet, appliedSet))
<1> DEFINE P == PendingPayload(type, desiredSet, appliedSet)
           f == [p \in P |-> p.id]
<1>1. P \subseteq PayloadRules
  BY DEF PendingPayload, NormalSyncPayload, CleanSyncPayload, PayloadRules,
         PayloadIdentities, RuleSets, Present
<1>2. \A p, q \in P : p.id = q.id => p = q
  BY DEF PendingPayload, NormalSyncPayload, CleanSyncPayload
<1>3. IsFiniteSet(PayloadIdentities)
  BY RulesAssumption, FS_AddElement DEF PayloadIdentities
<1>4. f \in Injection(P, PayloadIdentities)
  BY <1>1, <1>2 DEF Injection, IsInjective, PayloadRules
<1>5. IsFiniteSet(P)
  BY <1>3, <1>4, FS_Injection
<1> QED BY <1>1, <1>2, <1>5 DEF IsPayload

(* What the pages up to an offset hold.                                      *)
Fetched(P, offset) == {p \in P : Rank(P, p) <= offset}

LEMMA RankType ==
  ASSUME NEW P, IsPayload(P), NEW p \in P
  PROVE  Rank(P, p) \in 1..Cardinality(P)
<1> DEFINE B == {q \in P : q.id <= p.id}
<1>0. p.id \in Int
  <2>1. p \in PayloadRules
    BY DEF IsPayload
  <2>2. p.id \in PayloadIdentities
    BY <2>1 DEF PayloadRules
  <2>3. PayloadIdentities \subseteq Int
    BY RulesAssumption DEF PayloadIdentities, Tombstone
  <2> QED BY <2>2, <2>3
<1>1. IsFiniteSet(B) /\ Cardinality(B) <= Cardinality(P)
  BY FS_Subset DEF IsPayload
<1>2. B # {}
  BY <1>0
<1>3. Cardinality(B) \in Nat /\ Cardinality(P) \in Nat /\ Cardinality(B) # 0
  BY <1>1, <1>2, FS_CardinalityType, FS_EmptySet DEF IsPayload
<1> HIDE DEF B
<1>4. Cardinality(B) \in 1..Cardinality(P)
  BY <1>1, <1>3
<1> QED BY <1>4 DEF Rank, B

LEMMA NothingFetched ==
  ASSUME NEW P, IsPayload(P)
  PROVE  Fetched(P, 0) = {}
BY RankType DEF Fetched

(* A page that does not go beyond what was fetched before adds nothing else, *)
LEMMA FetchPage ==
  ASSUME NEW P, IsPayload(P), NEW offset \in Nat
  PROVE  LET page == PayloadPage(P, offset, PageSize)
         IN  {p \in Fetched(P, offset) : \A q \in page : q.id # p.id} \cup page
               = Fetched(P, offset + PageSize)
<1> DEFINE page == PayloadPage(P, offset, PageSize)
<1>1. \A p \in P : Rank(P, p) \in Nat
  BY RankType, FS_CardinalityType DEF IsPayload
<1>2. PageSize \in Nat
  BY SyncAssumption
<1>3. \A p \in Fetched(P, offset) : \A q \in page : q.id # p.id
  BY <1>1 DEF Fetched, PayloadPage, IsPayload
<1>4. Fetched(P, offset) \cup page = Fetched(P, offset + PageSize)
  BY <1>1, <1>2 DEF Fetched, PayloadPage
<1> QED BY <1>3, <1>4

LEMMA FetchCount ==
  ASSUME NEW P, IsPayload(P), NEW offset \in Nat
  PROVE  Cardinality(Fetched(P, offset + PageSize)) =
           Cardinality(Fetched(P, offset))
             + Cardinality(PayloadPage(P, offset, PageSize))
<1> DEFINE page == PayloadPage(P, offset, PageSize)
           old == Fetched(P, offset)
<1>1. \A p \in P : Rank(P, p) \in Nat
  BY RankType, FS_CardinalityType DEF IsPayload
<1>2. PageSize \in Nat
  BY SyncAssumption
<1>3. old \cap page = {} /\ Fetched(P, offset + PageSize) = old \cup page
  BY <1>1, <1>2 DEF Fetched, PayloadPage
<1>4. IsFiniteSet(old) /\ IsFiniteSet(page)
  BY FS_Subset DEF IsPayload, Fetched, PayloadPage
<1> HIDE DEF page, old
<1>5. Cardinality(old) \in Nat /\ Cardinality(page) \in Nat
  BY <1>4, FS_CardinalityType
<1>6. Cardinality(old \cup page) = Cardinality(old) + Cardinality(page) - 0
  BY <1>3, <1>4, FS_Union, FS_EmptySet
<1>7. Cardinality(old \cup page) = Cardinality(old) + Cardinality(page)
  BY <1>5, <1>6
<1> QED BY <1>3, <1>7 DEF page, old

(* and when no page follows everything was fetched.                          *)
LEMMA FetchLastPage ==
  ASSUME NEW P, IsPayload(P), NEW offset \in Nat,
         ~ HasNextPage(P, offset, PageSize)
  PROVE  Fetched(P, offset + PageSize) = P
<1>1. \A p \in P : Rank(P, p) \in 1..Cardinality(P)
  BY RankType
<1>2. Cardinality(P) \in Nat /\ PageSize \in Nat
  BY FS_CardinalityType, SyncAssumption DEF IsPayload
<1> QED BY <1>1, <1>2 DEF Fetched, HasNextPage

-----------------------------------------------------------------------------
(* The inductive invariant.  It follows a sync from the digest its client    *)
(* reported to the set it holds when it confirms; a request that outlives    *)
(* its sync would break most of it.                                          *)

FiniteReplies == {r \in Replies : r.kind = "page" => IsFiniteSet(r.rules)}

Types ==
  /\ resolved \in Resolutions /\ policy \in Digests
  /\ pending \in Pending \cup {None}
  /\ confirmed \in Confirmed \cup {None}
  /\ desired \in RuleSets /\ applied \in RuleSets
  /\ requests \subseteq Requests
  /\ reply \in FiniteReplies \cup {None}
  /\ client \in Clients

(* The client waits for one thing at a time, of the kind its phase says.     *)
OneExchange ==
  /\ \A m, n \in requests : m = n
  /\ reply # None => requests = {}
  /\ client.phase \in {"idle", "downloaded"} => requests = {} /\ reply = None
  /\ \A m \in requests : m.live /\ client.phase = m.kind
  /\ reply # None =>
       client.phase = IF reply.kind = "page" THEN "download" ELSE reply.kind

(* A preflight request reports the client's rules, and is answered "normal"  *)
(* only when they are the applied ones.                                      *)
PreflightInv ==
  \A m \in requests : m.kind = "preflight" =>
    /\ m.hash = RulesHash(client.rules)
    /\ m.stage \in {"configuration", "rules", "prior", "decided"}
         => m.digest \in Digests
    /\ m.stage \in {"prior", "decided"} => m.prior = confirmed
    /\ m.stage = "decided" /\ m.type = "normal" => client.rules = applied

Payload == PendingPayload(pending.type, desired, applied)

PreparedInv ==
  reply # None /\ reply.kind = "preflight" =>
    /\ pending \in Pending
    /\ pending.type = reply.type
    /\ reply.type = "normal" => client.rules = applied

(* During the download the pending state is still the one that the client's  *)
(* preflight prepared, and it has fetched the payload up to its offset.      *)
DownloadInv ==
  client.phase \in {"download", "downloaded"} =>
    /\ pending \in Pending
    /\ (client.type = "normal") = (pending.type = "normal")
    /\ client.type = "normal" => client.rules = applied
    /\ client.count = Cardinality(client.received)
    /\ \A m \in requests :
         /\ client.received = Fetched(Payload, m.offset)
         /\ m.stage # "sent" => m.type = pending.type
         /\ m.stage = "desired" => m.type = "normal" /\ m.rules = desired
    /\ reply # None =>
         \E offset \in Nat :
           /\ client.received = Fetched(Payload, offset)
           /\ reply.rules = PayloadPage(Payload, offset, PageSize)
           /\ reply.next = IF HasNextPage(Payload, offset, PageSize)
                            THEN offset + PageSize ELSE 0
    /\ client.phase = "downloaded" => client.received = Payload

(* A client that reports its new digest holds the desired set.               *)
PostflightInv ==
  \A m \in requests : m.kind = "postflight" =>
    m.hash = RulesHash(desired)

IInv ==
  /\ Types /\ OneExchange
  /\ PreflightInv /\ PreparedInv /\ DownloadInv /\ PostflightInv
  /\ ConfirmedIsApplied

-----------------------------------------------------------------------------
(* Every step keeps the types.                                               *)

LEMMA ApplyType ==
  ASSUME NEW rules \in RuleSets, NEW P \in SUBSET PayloadRules
  PROVE  ApplyPayload(rules, P) \in RuleSets
<1>1. ASSUME NEW i \in Identities, \E p \in P : p.id = i
      PROVE  (CHOOSE p \in P : p.id = i).content \in Contents \cup {NoRule}
  <2>1. \A p \in P : p.content \in Contents \cup {NoRule}
    BY DEF PayloadRules
  <2> QED BY <1>1, <2>1
<1>2. \A i \in Identities : rules[i] \in Contents \cup {NoRule}
  BY DEF RuleSets
<1> QED BY <1>1, <1>2 DEF ApplyPayload, RuleSets

LEMMA AfterSyncType ==
  ASSUME Types
  PROVE  AfterSync \in RuleSets
<1>1. client.rules \in RuleSets /\ client.received \in SUBSET PayloadRules
  BY DEF Types, Clients
<1>2. NoRules \in RuleSets
  BY DEF NoRules, RuleSets
<1> QED BY <1>1, <1>2, ApplyType DEF AfterSync

LEMMA SyncTypeType ==
  ASSUME NEW m
  PROVE  RequiredSyncType(m) \in SyncTypes
BY DEF RequiredSyncType, SyncTypes

LEMMA PageType ==
  ASSUME NEW m \in DownloadRequests, NEW P, IsPayload(P)
  PROVE  PageReply(m, P) \in FiniteReplies
<1>1. m.offset + PageSize \in Nat
  BY SyncAssumption DEF DownloadRequests
<1>2. PayloadPage(P, m.offset, PageSize) \in SUBSET P
  BY DEF PayloadPage
<1>3. IsFiniteSet(PayloadPage(P, m.offset, PageSize))
  BY <1>2, FS_Subset DEF IsPayload
<1>4. PageReply(m, P) \in Replies
  BY <1>1, <1>2 DEF PageReply, Replies, IsPayload
<1> QED BY <1>3, <1>4 DEF PageReply, FiniteReplies

LEMMA AnswerType ==
  ASSUME Types, NEW m, NEW body \in FiniteReplies, Answer(m, body)
  PROVE  /\ requests' \subseteq Requests
         /\ reply' \in FiniteReplies \cup {None}
BY DEF Types, Answer

LEMMA AdvanceType ==
  ASSUME Types, NEW m, NEW next \in Requests, Advance(m, next)
  PROVE  requests' \subseteq Requests
BY DEF Types, Advance

(* A preflight has a digest as soon as it resolved the configuration.        *)
DigestsTaken ==
  \A m \in requests :
    m.kind = "preflight" /\ m.stage \in {"configuration", "rules", "prior", "decided"}
      => m.digest \in Digests

LEMMA TypesStep ==
  ASSUME Types, DigestsTaken, [Next]_vars
  PROVE  Types'
<1> USE DEF admin, store
<1>1. ASSUME NEW m \in requests, ResolveConfiguration(m)
      PROVE  Types'
  <2>1. [m EXCEPT !.stage = "configuration", !.digest = policy] \in Requests
    BY <1>1 DEF ResolveConfiguration, Types, Requests, PreflightRequests,
                DownloadRequests, PostflightRequests
  <2> QED BY <1>1, <2>1, AdvanceType DEF ResolveConfiguration, Types
<1>2. ASSUME NEW m \in requests, ResolveRules(m)
      PROVE  Types'
  <2>1. [m EXCEPT !.stage = "rules", !.rules = resolved] \in Requests
    BY <1>2, SyncAssumption
       DEF ResolveRules, Types, Requests, PreflightRequests,
           DownloadRequests, PostflightRequests
  <2> QED BY <1>2, <2>1, AdvanceType DEF ResolveRules, Types
<1>3. ASSUME NEW m \in requests, LoadPriorState(m)
      PROVE  Types'
  <2>1. [m EXCEPT !.stage = "prior", !.prior = confirmed] \in Requests
    BY <1>3 DEF LoadPriorState, Types, Requests, PreflightRequests,
                DownloadRequests, PostflightRequests
  <2> QED BY <1>3, <2>1, AdvanceType DEF LoadPriorState, Types
<1>4. ASSUME NEW m \in requests, DecideSyncType(m)
      PROVE  Types'
  <2>1. [m EXCEPT !.stage = "decided", !.type = RequiredSyncType(m)] \in Requests
    BY <1>4, SyncTypeType
       DEF DecideSyncType, Types, Requests, PreflightRequests,
           DownloadRequests, PostflightRequests
  <2> QED BY <1>4, <2>1, AdvanceType DEF DecideSyncType, Types
<1>5. ASSUME NEW m \in requests, PreparePending(m)
      PROVE  Types'
  <2>1. m \in PreflightRequests /\ m.digest \in Digests
    BY <1>5 DEF PreparePending, DigestsTaken, Types, Requests,
                PreflightRequests, DownloadRequests, PostflightRequests
  <2>2. pending' \in Pending /\ desired' \in RuleSets
    BY <1>5, <2>1 DEF PreparePending, Pending, PreflightRequests
  <2>3. [kind |-> "preflight", type |-> m.type] \in FiniteReplies
    BY <2>1 DEF FiniteReplies, Replies, PreflightRequests
  <2> QED BY <1>5, <2>2, <2>3, AnswerType DEF PreparePending, Types
<1>6. ASSUME NEW m \in requests, LoadNoPage(m)
      PROVE  Types'
  <2>1. [kind |-> "page", rules |-> {}, next |-> 0] \in FiniteReplies
    BY FS_EmptySet DEF FiniteReplies, Replies
  <2> QED BY <1>6, <2>1, AnswerType DEF LoadNoPage, Types
<1>7. ASSUME NEW m \in requests, LoadPageType(m)
      PROVE  Types'
  <2>1. [m EXCEPT !.stage = "type", !.type = pending.type] \in Requests
    BY <1>7 DEF LoadPageType, Types, Pending, Requests, PreflightRequests,
                DownloadRequests, PostflightRequests
  <2> QED BY <1>7, <2>1, AdvanceType DEF LoadPageType, Types
<1>8. ASSUME NEW m \in requests, LoadCleanPage(m)
      PROVE  Types'
  <2>1. m \in DownloadRequests
    BY <1>8 DEF LoadCleanPage, Types, Requests, PreflightRequests,
                DownloadRequests, PostflightRequests
  <2>2. IsPayload(CleanSyncPayload(desired))
    BY PendingIsPayload DEF Types, PendingPayload, SyncTypes
  <2>3. PageReply(m, CleanSyncPayload(desired)) \in FiniteReplies
    BY <2>1, <2>2, PageType
  <2> QED BY <1>8, <2>3, AnswerType DEF LoadCleanPage, Types
<1>9. ASSUME NEW m \in requests, LoadPageDesired(m)
      PROVE  Types'
  <2>1. [m EXCEPT !.stage = "desired", !.rules = desired] \in Requests
    BY <1>9 DEF LoadPageDesired, Types, Requests, PreflightRequests,
                DownloadRequests, PostflightRequests
  <2> QED BY <1>9, <2>1, AdvanceType DEF LoadPageDesired, Types
<1>10. ASSUME NEW m \in requests, LoadNormalPage(m)
       PROVE  Types'
  <2>1. m \in DownloadRequests /\ m.rules \in RuleSets
    BY <1>10 DEF LoadNormalPage, Types, Requests, PreflightRequests,
                 DownloadRequests, PostflightRequests
  <2>2. IsPayload(NormalSyncPayload(m.rules, applied))
    BY <2>1, PendingIsPayload DEF Types, PendingPayload, SyncTypes
  <2>3. PageReply(m, NormalSyncPayload(m.rules, applied)) \in FiniteReplies
    BY <2>1, <2>2, PageType
  <2> QED BY <1>10, <2>3, AnswerType DEF LoadNormalPage, Types
<1>11. ASSUME NEW m \in requests, PromotePending(m)
       PROVE  Types'
  <2>1. m \in PostflightRequests
    BY <1>11 DEF PromotePending, Types, Requests, PreflightRequests,
                 DownloadRequests, PostflightRequests
  <2>2. confirmed' \in Confirmed
    BY <1>11, <2>1 DEF PromotePending, PostflightValid, Types, Pending,
                       Confirmed, PostflightRequests
  <2>3. [kind |-> "postflight", accepted |-> TRUE] \in FiniteReplies
    BY DEF FiniteReplies, Replies
  <2> QED BY <1>11, <2>2, <2>3, AnswerType DEF PromotePending, Types
<1>12. ASSUME NEW m \in requests, RejectPostflight(m)
       PROVE  Types'
  <2>1. [kind |-> "postflight", accepted |-> FALSE] \in FiniteReplies
    BY DEF FiniteReplies, Replies
  <2> QED BY <1>12, <2>1, AnswerType DEF RejectPostflight, Types
<1>13. CASE ChangeRules
  BY <1>13 DEF ChangeRules, Types
<1>14. CASE ChangeConfiguration
  BY <1>14 DEF ChangeConfiguration, Types
<1>15. CASE StartSync
  <2>1. client.rules \in RuleSets /\ client' \in Clients
    BY <1>15 DEF StartSync, Types, Clients
  <2>2. NoRules \in RuleSets
    BY DEF NoRules, RuleSets
  <2>3. \A clean \in BOOLEAN :
          PreflightRequest(RulesHash(client.rules), CountTargets(client.rules),
                           clean) \in Requests
    BY <2>1, <2>2, RulesHashType, CountsType
       DEF PreflightRequest, Requests, PreflightRequests, SyncTypes
  <2> QED BY <1>15, <2>1, <2>3 DEF StartSync, Send, Types
<1>16. CASE ReceivePreflight
  <2>1. PICK type \in SyncTypes :
          client' = [client EXCEPT !.phase = "download", !.type = type,
                                   !.received = {}, !.count = 0]
    BY <1>16 DEF ReceivePreflight
  <2>4. client' \in Clients
    BY <2>1 DEF Types, Clients
  <2>2. DownloadRequest(0) \in Requests
    BY DEF DownloadRequest, Requests, DownloadRequests, SyncTypes, NoRules,
           RuleSets
  <2> QED BY <1>16, <2>4, <2>2 DEF ReceivePreflight, Send, Types
<1>17. CASE ReceivePage
  <2>1. /\ reply.rules \in SUBSET PayloadRules /\ reply.next \in Nat
        /\ Cardinality(reply.rules) \in Nat
    BY <1>17, FS_CardinalityType
       DEF ReceivePage, Types, FiniteReplies, Replies
  <2>2. client' \in Clients
    <3> DEFINE received == {p \in client.received :
                              \A q \in reply.rules : q.id # p.id}
                             \cup reply.rules
               count == client.count + Cardinality(reply.rules)
               phase == IF reply.next = 0 THEN "downloaded" ELSE client.phase
    <3>1. /\ received \in SUBSET PayloadRules
          /\ count \in Nat
          /\ phase \in {"idle", "preflight", "download", "downloaded",
                        "postflight"}
      BY <2>1 DEF Types, Clients
    <3>2. client' = [client EXCEPT !.received = received, !.count = count,
                                   !.phase = phase]
      BY <1>17 DEF ReceivePage
    <3> HIDE DEF received, count, phase
    <3> QED BY <3>1, <3>2 DEF Types, Clients
  <2>3. DownloadRequest(reply.next) \in Requests
    BY <2>1 DEF DownloadRequest, Requests, DownloadRequests, SyncTypes,
                NoRules, RuleSets
  <2> QED BY <1>17, <2>2, <2>3 DEF ReceivePage, Types
<1>18. CASE ApplyRules
  <2>1. client' \in Clients
    BY <1>18, AfterSyncType DEF ApplyRules, Types, Clients
  <2>2. PostflightRequest(client.count, client.type, RulesHash(AfterSync))
          \in Requests
    BY AfterSyncType, RulesHashType
       DEF PostflightRequest, Requests, PostflightRequests, Types, Clients
  <2> QED BY <1>18, <2>1, <2>2 DEF ApplyRules, Send, Types
<1>19. CASE ReceivePostflight
  BY <1>19 DEF ReceivePostflight, Types, Clients
<1>20. CASE CreateTransitiveRule
  <2>1. TransitiveAuthorities(client.rules) \subseteq Authorities
    BY DEF TransitiveAuthorities, Authorities, Present, Types, Clients, RuleSets
  <2> QED BY <1>20, <2>1 DEF CreateTransitiveRule, Types, Clients
<1>21. CASE GiveUp
  <2>1. ASSUME NEW m \in requests
        PROVE  [m EXCEPT !.live = FALSE] \in Requests
    <3>1. m \in Requests
      BY DEF Types
    <3>2. CASE m \in PreflightRequests
      BY <3>2 DEF Requests, PreflightRequests
    <3>3. CASE m \in DownloadRequests
      BY <3>3 DEF Requests, DownloadRequests
    <3>4. CASE m \in PostflightRequests
      BY <3>4 DEF Requests, PostflightRequests
    <3> QED BY <3>1, <3>2, <3>3, <3>4 DEF Requests
  <2>2. client' \in Clients
    BY <1>21 DEF GiveUp, Types, Clients
  <2>3. requests' \subseteq Requests
    BY <1>21, <2>1 DEF GiveUp, Late, Types
  <2> QED BY <1>21, <2>2, <2>3 DEF GiveUp, Types
<1>22. CASE LoseRules
  BY <1>22 DEF LoseRules, Types, Clients, NoRules, RuleSets
<1>23. CASE UNCHANGED vars
  BY <1>23 DEF vars, Types
<1> QED
  BY <1>1, <1>2, <1>3, <1>4, <1>5, <1>6, <1>7, <1>8, <1>9, <1>10, <1>11,
     <1>12, <1>13, <1>14, <1>15, <1>16, <1>17, <1>18, <1>19, <1>20, <1>21,
     <1>22, <1>23 DEF Next, Server, Receive

-----------------------------------------------------------------------------
(* The types, however many requests outlive their sync.                      *)

LEMMA AdvanceDigests ==
  ASSUME DigestsTaken, NEW m, NEW next, Advance(m, next), next.kind = m.kind,
         m.kind = "preflight" => next.digest \in Digests
  PROVE  DigestsTaken'
BY DEF Advance, DigestsTaken

LEMMA DigestsStep ==
  ASSUME Types, DigestsTaken, [Next]_vars
  PROVE  DigestsTaken'
<1> USE DEF admin, store
<1>1. ASSUME NEW m \in requests,
             \/ ResolveConfiguration(m) \/ ResolveRules(m) \/ LoadPriorState(m)
             \/ DecideSyncType(m) \/ LoadPageType(m) \/ LoadPageDesired(m)
      PROVE  DigestsTaken'
  <2>1. CASE ResolveConfiguration(m)
    <3> DEFINE next == [m EXCEPT !.stage = "configuration", !.digest = policy]
    <3>1. /\ next.kind = m.kind
          /\ m.kind = "preflight" => next.digest \in Digests
      BY <2>1 DEF ResolveConfiguration, DigestsTaken, Types, Requests,
                  PreflightRequests, DownloadRequests, PostflightRequests
    <3>2. Advance(m, next)
      BY <2>1 DEF ResolveConfiguration
    <3> QED BY <3>1, <3>2, AdvanceDigests
  <2>2. CASE ResolveRules(m)
    <3> DEFINE next == [m EXCEPT !.stage = "rules", !.rules = resolved]
    <3>1. /\ next.kind = m.kind
          /\ m.kind = "preflight" => next.digest \in Digests
      BY <2>2 DEF ResolveRules, DigestsTaken, Types, Requests,
                  PreflightRequests, DownloadRequests, PostflightRequests
    <3>2. Advance(m, next)
      BY <2>2 DEF ResolveRules
    <3> QED BY <3>1, <3>2, AdvanceDigests
  <2>3. CASE LoadPriorState(m)
    <3> DEFINE next == [m EXCEPT !.stage = "prior", !.prior = confirmed]
    <3>1. /\ next.kind = m.kind
          /\ m.kind = "preflight" => next.digest \in Digests
      BY <2>3 DEF LoadPriorState, DigestsTaken, Types, Requests,
                  PreflightRequests, DownloadRequests, PostflightRequests
    <3>2. Advance(m, next)
      BY <2>3 DEF LoadPriorState
    <3> QED BY <3>1, <3>2, AdvanceDigests
  <2>4. CASE DecideSyncType(m)
    <3> DEFINE next == [m EXCEPT !.stage = "decided", !.type = RequiredSyncType(m)]
    <3>1. /\ next.kind = m.kind
          /\ m.kind = "preflight" => next.digest \in Digests
      BY <2>4 DEF DecideSyncType, DigestsTaken, Types, Requests,
                  PreflightRequests, DownloadRequests, PostflightRequests
    <3>2. Advance(m, next)
      BY <2>4 DEF DecideSyncType
    <3> QED BY <3>1, <3>2, AdvanceDigests
  <2>5. CASE LoadPageType(m)
    <3> DEFINE next == [m EXCEPT !.stage = "type", !.type = pending.type]
    <3>1. /\ next.kind = m.kind
          /\ m.kind = "preflight" => next.digest \in Digests
      BY <2>5 DEF LoadPageType, DigestsTaken, Types, Requests,
                  PreflightRequests, DownloadRequests, PostflightRequests
    <3>2. Advance(m, next)
      BY <2>5 DEF LoadPageType
    <3> QED BY <3>1, <3>2, AdvanceDigests
  <2>6. CASE LoadPageDesired(m)
    <3> DEFINE next == [m EXCEPT !.stage = "desired", !.rules = desired]
    <3>1. /\ next.kind = m.kind
          /\ m.kind = "preflight" => next.digest \in Digests
      BY <2>6 DEF LoadPageDesired, DigestsTaken, Types, Requests,
                  PreflightRequests, DownloadRequests, PostflightRequests
    <3>2. Advance(m, next)
      BY <2>6 DEF LoadPageDesired
    <3> QED BY <3>1, <3>2, AdvanceDigests
  <2> QED BY <1>1, <2>1, <2>2, <2>3, <2>4, <2>5, <2>6
<1>2. ASSUME NEW m \in requests,
             \/ PreparePending(m) \/ LoadNoPage(m) \/ LoadCleanPage(m)
             \/ LoadNormalPage(m) \/ PromotePending(m) \/ RejectPostflight(m)
      PROVE  DigestsTaken'
  <2>1. requests' \subseteq requests
    BY <1>2 DEF PreparePending, LoadNoPage, LoadCleanPage, LoadNormalPage,
                PromotePending, RejectPostflight, Answer
  <2> QED BY <2>1 DEF DigestsTaken
<1>3. CASE StartSync \/ Receive \/ ApplyRules
  <2>1. \A n \in requests' \ requests :
          n.kind = "preflight" => n.stage = "sent"
    <3>1. CASE StartSync
      BY <3>1 DEF StartSync, Send, PreflightRequest
    <3>2. CASE ReceivePreflight
      BY <3>2 DEF ReceivePreflight, Send, DownloadRequest
    <3>3. CASE ReceivePage
      BY <3>3 DEF ReceivePage, DownloadRequest
    <3>4. CASE ReceivePostflight
      BY <3>4 DEF ReceivePostflight
    <3>5. CASE ApplyRules
      BY <3>5 DEF ApplyRules, Send, PostflightRequest
    <3> QED BY <1>3, <3>1, <3>2, <3>3, <3>4, <3>5 DEF Receive
  <2> QED BY <2>1 DEF DigestsTaken
<1>4. CASE GiveUp
  <2>1. ASSUME NEW m \in requests, NEW n, n = [m EXCEPT !.live = FALSE],
               n.kind = "preflight",
               n.stage \in {"configuration", "rules", "prior", "decided"}
        PROVE  n.digest \in Digests
    BY <2>1 DEF DigestsTaken, Types, Requests, PreflightRequests,
                DownloadRequests, PostflightRequests
  <2>2. \A n \in requests' :
          n \in requests \/ \E m \in requests : n = [m EXCEPT !.live = FALSE]
    BY <1>4 DEF GiveUp, Late
  <2> QED BY <2>1, <2>2 DEF DigestsTaken
<1>5. CASE \/ ChangeRules \/ ChangeConfiguration \/ CreateTransitiveRule
           \/ LoseRules \/ UNCHANGED vars
  BY <1>5 DEF ChangeRules, ChangeConfiguration, CreateTransitiveRule,
              LoseRules, vars, DigestsTaken
<1> QED BY <1>1, <1>2, <1>3, <1>4, <1>5 DEF Next, Server

(* Besides the late requests the client waits for one thing at a time.       *)
LateInv ==
  /\ IsFiniteSet(Late) /\ Cardinality(Late) <= LateRequests
  /\ \A m, n \in requests \ Late : m = n
  /\ reply # None => requests \subseteq Late
  /\ client.phase \in {"idle", "downloaded"}
       => requests \subseteq Late /\ reply = None

LEMMA FewerLate ==
  ASSUME IsFiniteSet(Late), Cardinality(Late) <= LateRequests,
         Late' \subseteq Late
  PROVE  IsFiniteSet(Late') /\ Cardinality(Late') <= LateRequests
<1>1. IsFiniteSet(Late') /\ Cardinality(Late') <= Cardinality(Late)
  BY FS_Subset
<1>2. Cardinality(Late) \in Nat /\ Cardinality(Late') \in Nat
  BY <1>1, FS_CardinalityType
<1> QED BY <1>1, <1>2, SyncAssumption

LEMMA AdvanceLate ==
  ASSUME LateInv, NEW m \in requests, NEW next, next.live = m.live,
         m.live \in BOOLEAN, Advance(m, next), UNCHANGED <<reply, client>>
  PROVE  LateInv'
<1>1. CASE m.live
  <2>1. Late' = Late
    BY <1>1 DEF Late, Advance
  <2>2. m \in requests \ Late
    BY <1>1 DEF Late
  <2>3. requests \ Late = {m}
    BY <2>2 DEF LateInv
  <2>4. requests' \ Late' \subseteq {next}
    BY <2>1, <2>3 DEF Advance
  <2> QED BY <2>1, <2>2, <2>4 DEF LateInv
<1>2. CASE ~ m.live
  <2>1. /\ m \in Late /\ Late' = (Late \ {m}) \cup {next}
        /\ requests' \ Late' = requests \ Late
        /\ requests \subseteq Late => requests' \subseteq Late'
    BY <1>2 DEF Late, Advance
  <2>2. /\ IsFiniteSet(Late \ {m})
        /\ Cardinality(Late \ {m}) = Cardinality(Late) - 1
    BY <2>1, FS_RemoveElement DEF LateInv
  <2>3. /\ IsFiniteSet(Late')
        /\ \/ Cardinality(Late') = Cardinality(Late \ {m})
           \/ Cardinality(Late') = Cardinality(Late \ {m}) + 1
    BY <2>1, <2>2, FS_AddElement
  <2>4. Cardinality(Late') <= LateRequests
    BY <2>2, <2>3, FS_CardinalityType, SyncAssumption DEF LateInv
  <2> QED BY <2>1, <2>3, <2>4 DEF LateInv
<1> QED BY <1>1, <1>2

LEMMA AnswerLate ==
  ASSUME LateInv, NEW m \in requests, NEW body, Answer(m, body),
         UNCHANGED client
  PROVE  LateInv'
<1>1. Late' \subseteq Late /\ requests' \ Late' \subseteq requests \ Late
  BY DEF Late, Answer
<1>2. m.live => requests' \subseteq Late'
  BY DEF Late, Answer, LateInv
<1>3. requests \subseteq Late => requests' \subseteq Late' /\ ~ m.live
  BY DEF Late, Answer
<1> QED BY <1>1, <1>2, <1>3, FewerLate DEF LateInv, Answer

LEMMA SendLate ==
  ASSUME LateInv, NEW n, n.live, Send(n), requests \subseteq Late,
         reply' = None, client'.phase \notin {"idle", "downloaded"}
  PROVE  LateInv'
<1>1. Late' = Late /\ requests' \ Late' = {n}
  BY DEF Send, Late
<1> QED BY <1>1 DEF LateInv

LEMMA TypesInit == Init => Types
<1> SUFFICES ASSUME Init PROVE Types
  OBVIOUS
<1>1. client \in Clients
  BY DEF Init, Clients, SyncTypes, NoRules, RuleSets
<1> QED BY <1>1 DEF Init, Types, NoRules, RuleSets

LEMMA LateStep ==
  ASSUME Types, LateInv, [Next]_vars
  PROVE  LateInv'
<1> USE DEF admin, store
<1>1. ASSUME NEW m \in requests,
             \/ ResolveConfiguration(m) \/ ResolveRules(m) \/ LoadPriorState(m)
             \/ DecideSyncType(m) \/ LoadPageType(m) \/ LoadPageDesired(m)
      PROVE  LateInv'
  <2>0. UNCHANGED <<reply, client>> /\ m.live \in BOOLEAN
    BY <1>1 DEF ResolveConfiguration, ResolveRules, LoadPriorState,
                DecideSyncType, LoadPageType, LoadPageDesired, Types, Requests,
                PreflightRequests, DownloadRequests, PostflightRequests
  <2>1. CASE ResolveConfiguration(m)
    <3> DEFINE next == [m EXCEPT !.stage = "configuration", !.digest = policy]
    <3>1. next.live = m.live
      BY DEF Types, Requests, PreflightRequests, DownloadRequests,
             PostflightRequests
    <3>2. Advance(m, next)
      BY <2>1 DEF ResolveConfiguration
    <3> QED BY <2>0, <3>1, <3>2, AdvanceLate
  <2>2. CASE ResolveRules(m)
    <3> DEFINE next == [m EXCEPT !.stage = "rules", !.rules = resolved]
    <3>1. next.live = m.live
      BY DEF Types, Requests, PreflightRequests, DownloadRequests,
             PostflightRequests
    <3>2. Advance(m, next)
      BY <2>2 DEF ResolveRules
    <3> QED BY <2>0, <3>1, <3>2, AdvanceLate
  <2>3. CASE LoadPriorState(m)
    <3> DEFINE next == [m EXCEPT !.stage = "prior", !.prior = confirmed]
    <3>1. next.live = m.live
      BY DEF Types, Requests, PreflightRequests, DownloadRequests,
             PostflightRequests
    <3>2. Advance(m, next)
      BY <2>3 DEF LoadPriorState
    <3> QED BY <2>0, <3>1, <3>2, AdvanceLate
  <2>4. CASE DecideSyncType(m)
    <3> DEFINE next == [m EXCEPT !.stage = "decided", !.type = RequiredSyncType(m)]
    <3>1. next.live = m.live
      BY DEF Types, Requests, PreflightRequests, DownloadRequests,
             PostflightRequests
    <3>2. Advance(m, next)
      BY <2>4 DEF DecideSyncType
    <3> QED BY <2>0, <3>1, <3>2, AdvanceLate
  <2>5. CASE LoadPageType(m)
    <3> DEFINE next == [m EXCEPT !.stage = "type", !.type = pending.type]
    <3>1. next.live = m.live
      BY DEF Types, Requests, PreflightRequests, DownloadRequests,
             PostflightRequests
    <3>2. Advance(m, next)
      BY <2>5 DEF LoadPageType
    <3> QED BY <2>0, <3>1, <3>2, AdvanceLate
  <2>6. CASE LoadPageDesired(m)
    <3> DEFINE next == [m EXCEPT !.stage = "desired", !.rules = desired]
    <3>1. next.live = m.live
      BY DEF Types, Requests, PreflightRequests, DownloadRequests,
             PostflightRequests
    <3>2. Advance(m, next)
      BY <2>6 DEF LoadPageDesired
    <3> QED BY <2>0, <3>1, <3>2, AdvanceLate
  <2> QED BY <1>1, <2>1, <2>2, <2>3, <2>4, <2>5, <2>6
<1>2. ASSUME NEW m \in requests,
             \/ PreparePending(m) \/ LoadNoPage(m) \/ LoadCleanPage(m)
             \/ LoadNormalPage(m) \/ PromotePending(m) \/ RejectPostflight(m)
      PROVE  LateInv'
  <2>1. (\E body : Answer(m, body)) /\ UNCHANGED client
    BY <1>2 DEF PreparePending, LoadNoPage, LoadCleanPage, LoadNormalPage,
                PromotePending, RejectPostflight
  <2> QED BY <2>1, AnswerLate
<1>3. CASE StartSync
  <2>1. PICK n : n.live /\ Send(n)
    BY <1>3 DEF StartSync, PreflightRequest
  <2>2. /\ client'.phase = "preflight" /\ reply' = None
        /\ requests \subseteq Late
    BY <1>3 DEF StartSync, LateInv, Types, Clients
  <2> QED BY <2>1, <2>2, SendLate
<1>4. CASE ReceivePreflight
  <2>1. client'.phase = "download" /\ reply' = None /\ requests \subseteq Late
    BY <1>4 DEF ReceivePreflight, LateInv, Types, Clients
  <2>2. DownloadRequest(0).live /\ Send(DownloadRequest(0))
    BY <1>4 DEF ReceivePreflight, DownloadRequest
  <2> QED BY <2>1, <2>2, SendLate
<1>5. CASE ReceivePage
  <2>1. reply' = None /\ requests \subseteq Late
    BY <1>5 DEF ReceivePage, LateInv
  <2>2. CASE reply.next = 0
    <3>1. requests' = requests /\ Late' = Late
      BY <1>5, <2>2 DEF ReceivePage, Late
    <3> QED BY <2>1, <3>1 DEF LateInv
  <2>3. CASE reply.next # 0
    <3>1. /\ client'.phase = client.phase
          /\ client.phase \notin {"idle", "downloaded"}
      BY <1>5, <2>3 DEF ReceivePage, LateInv, Types, Clients
    <3>2. DownloadRequest(reply.next).live /\ Send(DownloadRequest(reply.next))
      BY <1>5, <2>3 DEF ReceivePage, DownloadRequest, Send
    <3> QED BY <2>1, <3>1, <3>2, SendLate
  <2> QED BY <2>2, <2>3
<1>6. CASE ReceivePostflight
  <2>1. requests \subseteq Late /\ requests' = requests /\ reply' = None
    BY <1>6 DEF ReceivePostflight, LateInv
  <2> QED BY <2>1 DEF LateInv, Late
<1>7. CASE ApplyRules
  <2>1. PICK n : n.live /\ Send(n)
    BY <1>7 DEF ApplyRules, PostflightRequest
  <2>2. /\ client'.phase = "postflight" /\ reply' = None
        /\ requests \subseteq Late
    BY <1>7 DEF ApplyRules, LateInv, Types, Clients
  <2> QED BY <2>1, <2>2, SendLate
<1>8. CASE GiveUp
  <2>1. \A m \in requests : [m EXCEPT !.live = FALSE].live = FALSE
    BY DEF Types, Requests, PreflightRequests, DownloadRequests,
           PostflightRequests
  <2>2. reply' = None /\ requests' \subseteq Late'
    BY <1>8, <2>1 DEF GiveUp, Late
  <2>3. CASE requests' = Late
    <3>1. Late' \subseteq Late
      BY <2>3 DEF Late
    <3> QED BY <2>2, <3>1, FewerLate DEF LateInv
  <2>4. CASE /\ Cardinality(Late) < LateRequests
             /\ requests' = Late \cup {[m EXCEPT !.live = FALSE] :
                                          m \in requests \ Late}
    <3>1. CASE requests \ Late = {}
      <4>1. Late' \subseteq Late
        BY <2>4, <3>1 DEF Late
      <4> QED BY <2>2, <4>1, FewerLate DEF LateInv
    <3>2. CASE requests \ Late # {}
      <4>1. PICK m : requests \ Late = {m}
        BY <3>2 DEF LateInv
      <4>2. requests' = Late \cup {[m EXCEPT !.live = FALSE]}
        BY <2>4, <4>1
      <4>3. Late' = Late \cup {[m EXCEPT !.live = FALSE]}
        BY <4>1, <4>2, <2>1 DEF Late
      <4>4. /\ IsFiniteSet(Late')
            /\ \/ Cardinality(Late') = Cardinality(Late)
               \/ Cardinality(Late') = Cardinality(Late) + 1
        BY <4>3, FS_AddElement DEF LateInv
      <4>5. Cardinality(Late') <= LateRequests
        BY <2>4, <4>4, FS_CardinalityType, SyncAssumption DEF LateInv
      <4> QED BY <2>2, <4>4, <4>5 DEF LateInv
    <3> QED BY <3>1, <3>2
  <2> QED BY <1>8, <2>3, <2>4 DEF GiveUp
<1>9. CASE \/ ChangeRules \/ ChangeConfiguration \/ CreateTransitiveRule
           \/ LoseRules \/ UNCHANGED vars
  <2>1. /\ UNCHANGED <<requests, reply>> /\ Late' = Late
        /\ client'.phase = client.phase
    BY <1>9 DEF ChangeRules, ChangeConfiguration, CreateTransitiveRule,
                LoseRules, vars, Late, Types, Clients
  <2> QED BY <2>1 DEF LateInv
<1> QED BY <1>1, <1>2, <1>3, <1>4, <1>5, <1>6, <1>7, <1>8, <1>9
    DEF Next, Server, Receive

TypesInv == Types /\ DigestsTaken /\ LateInv

LEMMA TypesAlways == Spec => []TypesInv
<1>1. Init => TypesInv
  <2> SUFFICES ASSUME Init PROVE TypesInv
    OBVIOUS
  <2>1. Types
    BY TypesInit
  <2>2. Late = {}
    BY DEF Init, Late
  <2>3. IsFiniteSet({}) /\ Cardinality({}) = 0
    BY FS_EmptySet
  <2> QED BY <2>1, <2>2, <2>3, SyncAssumption
      DEF Init, TypesInv, DigestsTaken, LateInv
<1>2. TypesInv /\ [Next]_vars => TypesInv'
  BY TypesStep, DigestsStep, LateStep DEF TypesInv
<1> QED BY <1>1, <1>2, PTL DEF Spec

(* Every variable stays in its type and no more requests are outstanding     *)
(* than the late ones and the one the client waits for, whatever number of   *)
(* requests may outlive their sync.                                          *)
THEOREM TypeCorrect == Spec => []TypeOK
<1>1. TypesInv => TypeOK
  <2> SUFFICES ASSUME TypesInv PROVE TypeOK
    OBVIOUS
  <2>1. Late \subseteq requests
    BY DEF Late
  <2>2. requests = Late \/ \E m : requests = Late \cup {m}
    <3>1. CASE requests \ Late = {}
      BY <2>1, <3>1
    <3>2. CASE requests \ Late # {}
      <4>1. PICK m : m \in requests \ Late
        BY <3>2
      <4>2. requests = Late \cup {m}
        BY <2>1, <4>1 DEF TypesInv, LateInv
      <4> QED BY <4>2
    <3> QED BY <3>1, <3>2
  <2>3. /\ IsFiniteSet(Late) /\ Cardinality(Late) \in Nat
        /\ Cardinality(Late) <= LateRequests
    BY FS_CardinalityType DEF TypesInv, LateInv
  <2>4. \/ Cardinality(requests) = Cardinality(Late)
        \/ Cardinality(requests) = Cardinality(Late) + 1
    BY <2>2, <2>3, FS_AddElement
  <2>5. Cardinality(requests) <= LateRequests + 1
    BY <2>3, <2>4, SyncAssumption
  <2> QED BY <2>5 DEF TypesInv, Types, TypeOK, FiniteReplies
<1> QED BY <1>1, TypesAlways, PTL

-----------------------------------------------------------------------------
(* Every step keeps the invariant when no request outlives its sync.         *)

(* While a handler runs, its request is the only one and no answer travels.  *)
LEMMA OnlyRequest ==
  ASSUME IInv, NEW m \in requests
  PROVE  /\ requests = {m} /\ reply = None
         /\ m.live /\ client.phase = m.kind
BY DEF IInv, OneExchange

Chain == PreflightInv /\ PreparedInv /\ DownloadInv /\ PostflightInv

LEMMA PayloadType ==
  ASSUME Types, pending \in Pending
  PROVE  IsPayload(Payload)
BY PendingIsPayload DEF Types, Pending, Payload

(* The steps of a preflight.                                                 *)
LEMMA PreflightStep ==
  ASSUME IInv, NEW m \in requests,
         \/ ResolveConfiguration(m) \/ ResolveRules(m) \/ LoadPriorState(m)
         \/ DecideSyncType(m) \/ PreparePending(m)
  PROVE  OneExchange' /\ Chain' /\ ConfirmedIsApplied'
<1> USE OnlyRequest DEF admin, store
<1>0. /\ m.kind = "preflight" /\ m \in PreflightRequests
      /\ m.hash = RulesHash(client.rules)
  BY DEF ResolveConfiguration, ResolveRules, LoadPriorState, DecideSyncType,
         PreparePending, IInv, PreflightInv, Types, Requests,
         PreflightRequests, DownloadRequests, PostflightRequests
<1>1. CASE ResolveConfiguration(m)
  <2> DEFINE n == [m EXCEPT !.stage = "configuration", !.digest = policy]
  <2>1. /\ n.kind = "preflight" /\ n.live /\ n.hash = m.hash
        /\ n.stage = "configuration" /\ n.digest \in Digests
    BY <1>0 DEF PreflightRequests, IInv, Types
  <2>2. requests' = {n} /\ reply' = None /\ client' = client
    BY <1>1 DEF ResolveConfiguration, Advance
  <2> HIDE DEF n
  <2> QED BY <1>0, <1>1, <2>1, <2>2
    DEF ResolveConfiguration, IInv, OneExchange, Chain, PreflightInv,
        PreparedInv, DownloadInv, PostflightInv, ConfirmedIsApplied
<1>2. CASE ResolveRules(m)
  <2> DEFINE n == [m EXCEPT !.stage = "rules", !.rules = resolved]
  <2>1. /\ n.kind = "preflight" /\ n.live /\ n.hash = m.hash
        /\ n.stage = "rules" /\ n.digest \in Digests
    BY <1>0, <1>2 DEF ResolveRules, PreflightRequests, IInv, PreflightInv
  <2>2. requests' = {n} /\ reply' = None /\ client' = client
    BY <1>2 DEF ResolveRules, Advance
  <2> HIDE DEF n
  <2> QED BY <1>0, <1>2, <2>1, <2>2
    DEF ResolveRules, IInv, OneExchange, Chain, PreflightInv,
        PreparedInv, DownloadInv, PostflightInv, ConfirmedIsApplied
<1>3. CASE LoadPriorState(m)
  <2> DEFINE n == [m EXCEPT !.stage = "prior", !.prior = confirmed]
  <2>1. /\ n.kind = "preflight" /\ n.live /\ n.hash = m.hash
        /\ n.stage = "prior" /\ n.digest \in Digests /\ n.prior = confirmed
    BY <1>0, <1>3 DEF LoadPriorState, PreflightRequests, IInv, PreflightInv
  <2>2. requests' = {n} /\ reply' = None /\ client' = client
    BY <1>3 DEF LoadPriorState, Advance
  <2> HIDE DEF n
  <2> QED BY <1>0, <1>3, <2>1, <2>2
    DEF LoadPriorState, IInv, OneExchange, Chain, PreflightInv,
        PreparedInv, DownloadInv, PostflightInv, ConfirmedIsApplied
<1>4. CASE DecideSyncType(m)
  <2> DEFINE n == [m EXCEPT !.stage = "decided", !.type = RequiredSyncType(m)]
  <2>1. /\ n.kind = "preflight" /\ n.live /\ n.hash = m.hash
        /\ n.stage = "decided" /\ n.digest \in Digests
        /\ n.prior = confirmed /\ n.type = RequiredSyncType(m)
        /\ m.prior = confirmed
    BY <1>0, <1>4 DEF DecideSyncType, PreflightRequests, IInv, PreflightInv
  <2>2. RequiredSyncType(m) = "normal" => client.rules = applied
    <3>1. SUFFICES ASSUME RequiredSyncType(m) = "normal"
                   PROVE  client.rules = applied
      OBVIOUS
    <3>2. confirmed # None /\ confirmed.hash = m.hash
      BY <2>1, <3>1 DEF RequiredSyncType
    <3>3. RulesHash(applied) = RulesHash(client.rules)
      BY <1>0, <3>2 DEF IInv, ConfirmedIsApplied
    <3> QED BY <3>3, RulesHashInjective DEF IInv, Types, Clients
  <2>3. requests' = {n} /\ reply' = None /\ client' = client
    BY <1>4 DEF DecideSyncType, Advance
  <2> HIDE DEF n
  <2> QED BY <1>0, <1>4, <2>1, <2>2, <2>3
    DEF DecideSyncType, IInv, OneExchange, Chain, PreflightInv,
        PreparedInv, DownloadInv, PostflightInv, ConfirmedIsApplied
<1>5. CASE PreparePending(m)
  <2> DEFINE body == [kind |-> "preflight", type |-> m.type]
  <2>1. requests' = {} /\ reply' = body /\ client' = client
    BY <1>5 DEF PreparePending, Answer
  <2>2. body.kind = "preflight" /\ body.type = m.type
    OBVIOUS
  <2>3. /\ pending' \in Pending /\ pending'.type = m.type
        /\ m.type = "normal" => client.rules = applied
    BY <1>0, <1>5
       DEF PreparePending, IInv, PreflightInv, Pending, PreflightRequests
  <2> HIDE DEF body
  <2> QED BY <1>0, <1>5, <2>1, <2>2, <2>3
    DEF PreparePending, IInv, OneExchange, Chain, PreflightInv,
        PreparedInv, DownloadInv, PostflightInv, ConfirmedIsApplied
<1> QED BY <1>1, <1>2, <1>3, <1>4, <1>5

(* The steps of a rule download.                                             *)
LEMMA DownloadStep ==
  ASSUME IInv, NEW m \in requests,
         \/ LoadNoPage(m) \/ LoadPageType(m) \/ LoadCleanPage(m)
         \/ LoadPageDesired(m) \/ LoadNormalPage(m)
  PROVE  OneExchange' /\ Chain' /\ ConfirmedIsApplied'
<1> USE OnlyRequest DEF admin, store
<1>0. /\ m.kind = "download" /\ m \in DownloadRequests
      /\ pending \in Pending
      /\ client.received = Fetched(Payload, m.offset)
  BY DEF LoadNoPage, LoadPageType, LoadCleanPage, LoadPageDesired,
         LoadNormalPage, IInv, DownloadInv, Types, Requests,
         PreflightRequests, DownloadRequests, PostflightRequests
<1>1. ASSUME Answer(m, PageReply(m, Payload)),
             UNCHANGED <<admin, store, client>>
      PROVE  OneExchange' /\ Chain' /\ ConfirmedIsApplied'
  <2> DEFINE page == PageReply(m, Payload)
  <2>1. requests' = {} /\ reply' = page
    BY <1>1 DEF Answer
  <2>2. /\ page.kind = "page"
        /\ page.rules = PayloadPage(Payload, m.offset, PageSize)
        /\ page.next = IF HasNextPage(Payload, m.offset, PageSize)
                       THEN m.offset + PageSize ELSE 0
        /\ m.offset \in Nat
    BY <1>0 DEF PageReply, DownloadRequests
  <2>3. Payload' = Payload
    BY <1>1 DEF Payload
  <2> HIDE DEF page
  <2>4. OneExchange'
    BY <1>0, <1>1, <2>1, <2>2 DEF IInv, OneExchange
  <2>5. DownloadInv'
    BY <1>0, <1>1, <2>1, <2>2, <2>3 DEF IInv, DownloadInv
  <2> QED BY <1>0, <1>1, <2>1, <2>2, <2>4, <2>5
    DEF IInv, Chain, PreflightInv, PreparedInv, PostflightInv,
        ConfirmedIsApplied
<1>2. CASE LoadNoPage(m)
  BY <1>0, <1>2, NullAssumption DEF LoadNoPage
<1>3. CASE LoadPageType(m)
  <2> DEFINE n == [m EXCEPT !.stage = "type", !.type = pending.type]
  <2>1. /\ n.kind = "download" /\ n.live /\ n.offset = m.offset
        /\ n.stage = "type" /\ n.type = pending.type
    BY <1>0 DEF DownloadRequests
  <2>2. requests' = {n} /\ reply' = None /\ client' = client
    BY <1>3 DEF LoadPageType, Advance
  <2>3. Payload' = Payload
    BY <1>3 DEF LoadPageType, Payload
  <2> HIDE DEF n
  <2> QED BY <1>0, <1>3, <2>1, <2>2, <2>3
    DEF LoadPageType, IInv, OneExchange, Chain, PreflightInv,
        PreparedInv, DownloadInv, PostflightInv, ConfirmedIsApplied
<1>4. CASE LoadCleanPage(m)
  <2>1. Payload = CleanSyncPayload(desired)
    BY <1>0, <1>4
       DEF LoadCleanPage, Payload, PendingPayload, IInv, DownloadInv
  <2> QED BY <1>1, <1>4, <2>1 DEF LoadCleanPage
<1>5. CASE LoadPageDesired(m)
  <2> DEFINE n == [m EXCEPT !.stage = "desired", !.rules = desired]
  <2>1. /\ n.kind = "download" /\ n.live /\ n.offset = m.offset
        /\ n.stage = "desired" /\ n.type = pending.type /\ n.rules = desired
        /\ n.type = "normal"
    BY <1>0, <1>5 DEF LoadPageDesired, DownloadRequests, IInv, DownloadInv
  <2>2. requests' = {n} /\ reply' = None /\ client' = client
    BY <1>5 DEF LoadPageDesired, Advance
  <2>3. Payload' = Payload
    BY <1>5 DEF LoadPageDesired, Payload
  <2> HIDE DEF n
  <2> QED BY <1>0, <1>5, <2>1, <2>2, <2>3
    DEF LoadPageDesired, IInv, OneExchange, Chain, PreflightInv,
        PreparedInv, DownloadInv, PostflightInv, ConfirmedIsApplied
<1>6. CASE LoadNormalPage(m)
  <2>1. m.rules = desired /\ pending.type = "normal"
    BY <1>0, <1>6 DEF LoadNormalPage, IInv, DownloadInv
  <2>2. Payload = NormalSyncPayload(m.rules, applied)
    BY <2>1 DEF Payload, PendingPayload
  <2> QED BY <1>1, <1>6, <2>2 DEF LoadNormalPage
<1> QED BY <1>2, <1>3, <1>4, <1>5, <1>6

(* The steps of a postflight.                                                *)
LEMMA PostflightStep ==
  ASSUME IInv, NEW m \in requests, PromotePending(m) \/ RejectPostflight(m)
  PROVE  OneExchange' /\ Chain' /\ ConfirmedIsApplied'
<1> USE OnlyRequest DEF admin, store
<1>0. m.kind = "postflight" /\ m.hash = RulesHash(desired)
  BY DEF PromotePending, RejectPostflight, IInv, PostflightInv
<1>1. CASE PromotePending(m)
  <2>1. requests' = {} /\ reply' # None => reply'.kind = "postflight"
    BY <1>1 DEF PromotePending, Answer
  <2>2. requests' = {} /\ client' = client
    BY <1>1 DEF PromotePending, Answer
  <2>3. ConfirmedIsApplied'
    BY <1>0, <1>1 DEF PromotePending, ConfirmedIsApplied
  <2> QED BY <1>0, <2>1, <2>2, <2>3
    DEF IInv, OneExchange, Chain, PreflightInv, PreparedInv, DownloadInv,
        PostflightInv
<1>2. CASE RejectPostflight(m)
  <2>1. requests' = {} /\ reply' # None => reply'.kind = "postflight"
    BY <1>2 DEF RejectPostflight, Answer
  <2>2. requests' = {} /\ client' = client
    BY <1>2 DEF RejectPostflight, Answer
  <2> QED BY <1>0, <1>2, <2>1, <2>2
    DEF RejectPostflight, IInv, OneExchange, Chain, PreflightInv,
        PreparedInv, DownloadInv, PostflightInv, ConfirmedIsApplied
<1> QED BY <1>1, <1>2

(* The set a client ends up with once it fetched the whole payload.          *)
LEMMA AfterSyncIsDesired ==
  ASSUME IInv, client.phase = "downloaded"
  PROVE  AfterSync = desired
<1>1. /\ client.received = Payload
      /\ (client.type = "normal") = (pending.type = "normal")
      /\ client.type = "normal" => client.rules = applied
  BY DEF IInv, DownloadInv
<1>2. desired \in RuleSets /\ applied \in RuleSets
  BY DEF IInv, Types
<1>3. CASE client.type = "normal"
  <2>1. client.received = NormalSyncPayload(desired, applied)
    BY <1>1, <1>3 DEF Payload, PendingPayload
  <2> QED BY <1>1, <1>2, <1>3, <2>1, NormalSyncApplies, EmptyDelta
          DEF AfterSync
<1>4. CASE client.type # "normal"
  <2>1. client.received = CleanSyncPayload(desired)
    BY <1>1, <1>4 DEF Payload, PendingPayload
  <2> QED BY <1>2, <1>4, <2>1, CleanSyncApplies, CleanSyncNotEmpty
          DEF AfterSync
<1> QED BY <1>3, <1>4

(* The steps of the client.                                                  *)
LEMMA ClientStep ==
  ASSUME IInv, Types', StartSync \/ Receive \/ ApplyRules
  PROVE  OneExchange' /\ Chain' /\ ConfirmedIsApplied'
<1> USE DEF admin, store
<1>1. CASE StartSync
  <2>1. PICK clean \in BOOLEAN :
          requests' = requests \cup
            {PreflightRequest(RulesHash(client.rules),
                              CountTargets(client.rules), clean)}
    BY <1>1 DEF StartSync, Send
  <2> DEFINE m == PreflightRequest(RulesHash(client.rules),
                                   CountTargets(client.rules), clean)
  <2>2. /\ m.kind = "preflight" /\ m.live /\ m.stage = "sent"
        /\ m.hash = RulesHash(client.rules)
    BY DEF PreflightRequest
  <2> HIDE DEF m
  <2>3. requests' = {m} /\ reply' = None
    BY <1>1, <2>1 DEF StartSync, IInv, OneExchange, m
  <2>4. client'.phase = "preflight" /\ client'.rules = client.rules
    BY <1>1 DEF StartSync, IInv, Types, Clients
  <2> QED BY <1>1, <2>2, <2>3, <2>4
    DEF StartSync, IInv, OneExchange, Chain, PreflightInv, PreparedInv,
        DownloadInv, PostflightInv, ConfirmedIsApplied
<1>2. CASE ReceivePreflight
  <2>1. PICK type \in SyncTypes :
          /\ type = reply.type \/ (reply.type = "clean" /\ type = "clean_all")
          /\ client' = [client EXCEPT !.phase = "download", !.type = type,
                                      !.received = {}, !.count = 0]
    BY <1>2 DEF ReceivePreflight
  <2> DEFINE m == DownloadRequest(0)
  <2>2. m.kind = "download" /\ m.live /\ m.stage = "sent" /\ m.offset = 0
    BY DEF DownloadRequest
  <2> HIDE DEF m
  <2>3. requests' = {m} /\ reply' = None
    BY <1>2 DEF ReceivePreflight, Send, IInv, OneExchange, m
  <2>4. /\ client'.phase = "download" /\ client'.type = type
        /\ client'.received = {} /\ client'.count = 0
        /\ client'.rules = client.rules
    BY <2>1 DEF IInv, Types, Clients
  <2>5. /\ pending \in Pending /\ pending.type = reply.type
        /\ reply.type = "normal" => client.rules = applied
    BY <1>2 DEF ReceivePreflight, IInv, PreparedInv
  <2>6. Fetched(Payload, 0) = {}
    BY <2>5, PayloadType, NothingFetched DEF IInv
  <2>7. DownloadInv'
    <3>1. Payload' = Payload /\ pending' = pending /\ applied' = applied
      BY <1>2 DEF ReceivePreflight, Payload
    <3> QED BY <2>1, <2>2, <2>3, <2>4, <2>5, <2>6, <3>1, FS_EmptySet
            DEF DownloadInv
  <2> QED BY <1>2, <2>2, <2>3, <2>4, <2>7
    DEF ReceivePreflight, IInv, OneExchange, Chain, PreflightInv, PreparedInv,
        PostflightInv, ConfirmedIsApplied
<1>3. CASE ReceivePage
  <2>0. /\ client.phase = "download" /\ requests = {}
        /\ reply # None /\ reply.kind = "page"
    BY <1>3 DEF ReceivePage, IInv, OneExchange
  <2>1. PICK offset \in Nat :
          /\ client.received = Fetched(Payload, offset)
          /\ reply.rules = PayloadPage(Payload, offset, PageSize)
          /\ reply.next = IF HasNextPage(Payload, offset, PageSize)
                          THEN offset + PageSize ELSE 0
    BY <2>0 DEF IInv, DownloadInv
  <2>2. /\ pending \in Pending
        /\ (client.type = "normal") = (pending.type = "normal")
        /\ client.type = "normal" => client.rules = applied
        /\ client.count = Cardinality(client.received)
    BY <2>0 DEF IInv, DownloadInv
  <2>3. IsPayload(Payload)
    BY <2>2, PayloadType DEF IInv
  <2>4. /\ client'.received = Fetched(Payload, offset + PageSize)
        /\ client'.count = client.count + Cardinality(reply.rules)
        /\ client'.phase = IF reply.next = 0 THEN "downloaded" ELSE "download"
        /\ client'.rules = client.rules /\ client'.type = client.type
    <3> DEFINE received == {p \in client.received :
                              \A q \in reply.rules : q.id # p.id}
                             \cup reply.rules
               count == client.count + Cardinality(reply.rules)
               phase == IF reply.next = 0 THEN "downloaded" ELSE "download"
    <3>1. received = Fetched(Payload, offset + PageSize)
      BY <2>1, <2>3, FetchPage
    <3>2. client' = [client EXCEPT !.received = received, !.count = count,
                                   !.phase = phase]
      BY <1>3, <2>0 DEF ReceivePage
    <3>3. client \in Clients
      BY DEF IInv, Types
    <3> HIDE DEF received, count, phase
    <3>4. /\ client'.received = received /\ client'.count = count
          /\ client'.phase = phase
          /\ client'.rules = client.rules /\ client'.type = client.type
      BY <3>2, <3>3 DEF Clients
    <3> QED BY <3>1, <3>4 DEF count, phase
  <2>5. client'.count = Cardinality(client'.received)
    BY <2>1, <2>2, <2>3, <2>4, FetchCount
  <2>6. Payload' = Payload /\ reply' = None
    BY <1>3 DEF ReceivePage, Payload
  <2>7. PageSize \in Nat \ {0}
    BY SyncAssumption
  <2> DEFINE m == DownloadRequest(offset + PageSize)
  <2>8. /\ m.kind = "download" /\ m.live /\ m.stage = "sent"
        /\ m.offset = offset + PageSize
    BY DEF DownloadRequest
  <2>9. requests' = IF reply.next = 0 THEN {} ELSE {m}
    BY <1>3, <2>0, <2>1 DEF ReceivePage
  <2> HIDE DEF m
  <2>10. OneExchange'
    BY <2>4, <2>6, <2>8, <2>9 DEF OneExchange
  <2>11. reply.next = 0 => client'.received = Payload
    BY <2>1, <2>3, <2>4, <2>7, FetchLastPage
  <2>12. DownloadInv'
    BY <1>3, <2>2, <2>4, <2>5, <2>6, <2>8, <2>9, <2>11
       DEF ReceivePage, DownloadInv
  <2> QED BY <1>3, <2>4, <2>6, <2>8, <2>9, <2>10, <2>12
    DEF ReceivePage, IInv, Chain, PreflightInv, PreparedInv, PostflightInv,
        ConfirmedIsApplied
<1>4. CASE ReceivePostflight
  <2>1. client'.phase = "idle" /\ client'.rules = client.rules
    BY <1>4 DEF ReceivePostflight, IInv, Types, Clients
  <2>2. requests' = {} /\ reply' = None
    BY <1>4 DEF ReceivePostflight, IInv, OneExchange
  <2> QED BY <1>4, <2>1, <2>2
    DEF ReceivePostflight, IInv, OneExchange, Chain, PreflightInv,
        PreparedInv, DownloadInv, PostflightInv, ConfirmedIsApplied
<1>5. CASE ApplyRules
  <2>1. client'.phase = "postflight" /\ client'.rules = AfterSync
    BY <1>5 DEF ApplyRules, IInv, Types, Clients
  <2> DEFINE m == PostflightRequest(client.count, client.type,
                                    RulesHash(AfterSync))
  <2>2. m.kind = "postflight" /\ m.live /\ m.hash = RulesHash(desired)
    BY <1>5, AfterSyncIsDesired DEF ApplyRules, PostflightRequest
  <2> HIDE DEF m
  <2>3. requests' = {m} /\ reply' = None
    BY <1>5 DEF ApplyRules, Send, IInv, OneExchange, m
  <2> QED BY <1>5, <2>1, <2>2, <2>3
    DEF ApplyRules, IInv, OneExchange, Chain, PreflightInv, PreparedInv,
        DownloadInv, PostflightInv, ConfirmedIsApplied
<1> QED BY <1>1, <1>2, <1>3, <1>4, <1>5 DEF Receive

(* The steps that disturb a sync.                                            *)
LEMMA DisturbanceStep ==
  ASSUME LateRequests = 0, IInv,
         Disturbance \/ CreateTransitiveRule \/ UNCHANGED vars
  PROVE  OneExchange' /\ Chain' /\ ConfirmedIsApplied'
<1> USE DEF admin, store
<1>1. CASE ChangeRules \/ ChangeConfiguration \/ UNCHANGED vars
  <2>1. UNCHANGED <<store, requests, reply, client>>
    BY <1>1 DEF ChangeRules, ChangeConfiguration, vars
  <2>2. Payload' = Payload
    BY <2>1 DEF Payload
  <2> QED BY <2>1, <2>2
    DEF IInv, OneExchange, Chain, PreflightInv, PreparedInv, DownloadInv,
        PostflightInv, ConfirmedIsApplied
<1>2. CASE CreateTransitiveRule
  <2>1. /\ client'.phase = client.phase /\ client'.rules = client.rules
        /\ client'.type = client.type /\ client'.received = client.received
        /\ client'.count = client.count
    BY <1>2 DEF CreateTransitiveRule, IInv, Types, Clients
  <2>2. Payload' = Payload /\ UNCHANGED <<store, requests, reply>>
    BY <1>2 DEF CreateTransitiveRule, Payload
  <2> QED BY <2>1, <2>2
    DEF IInv, OneExchange, Chain, PreflightInv, PreparedInv, DownloadInv,
        PostflightInv, ConfirmedIsApplied
<1>3. CASE GiveUp
  <2>1. Late = {}
    BY DEF Late, IInv, OneExchange
  <2>2. requests' = {} /\ reply' = None
    BY <1>3, <2>1, FS_EmptySet DEF GiveUp
  <2>3. client'.phase = "idle"
    BY <1>3 DEF GiveUp, IInv, Types, Clients
  <2> QED BY <1>3, <2>2, <2>3
    DEF GiveUp, IInv, OneExchange, Chain, PreflightInv, PreparedInv,
        DownloadInv, PostflightInv, ConfirmedIsApplied
<1>4. CASE LoseRules
  <2>1. client'.phase = "idle"
    BY <1>4 DEF LoseRules, IInv, Types, Clients
  <2>2. requests' = {} /\ reply' = None
    BY <1>4 DEF LoseRules, IInv, OneExchange
  <2> QED BY <1>4, <2>1, <2>2
    DEF LoseRules, IInv, OneExchange, Chain, PreflightInv, PreparedInv,
        DownloadInv, PostflightInv, ConfirmedIsApplied
<1> QED BY <1>1, <1>2, <1>3, <1>4 DEF Disturbance

LEMMA InvInit == Init => IInv
BY TypesInit
   DEF Init, IInv, OneExchange, PreflightInv, PreparedInv, DownloadInv,
       PostflightInv, ConfirmedIsApplied

LEMMA InvNext ==
  ASSUME LateRequests = 0, IInv, [Next]_vars
  PROVE  IInv'
<1>1. Types'
  BY TypesStep DEF IInv, PreflightInv, DigestsTaken
<1>2. OneExchange' /\ Chain' /\ ConfirmedIsApplied'
  BY <1>1, PreflightStep, DownloadStep, PostflightStep, ClientStep,
     DisturbanceStep
     DEF Next, Server, Disturbance
<1> QED BY <1>1, <1>2 DEF IInv, Chain

LEMMA InvAlways == ASSUME LateRequests = 0 PROVE Spec => []IInv
<1>1. IInv /\ [Next]_vars => IInv'
  BY InvNext
<1> QED BY <1>1, InvInit, PTL DEF Spec

-----------------------------------------------------------------------------
(* The theorems.  They hold for any rules, configurations and page size as   *)
(* long as no request outlives the sync it belongs to.                       *)

(* The digest the server compares with the client's is always that of the    *)
(* targets it recorded as applied.                                           *)
THEOREM ConfirmedDigestIsApplied ==
  ASSUME LateRequests = 0 PROVE Spec => []ConfirmedIsApplied
<1>1. IInv => ConfirmedIsApplied
  BY DEF IInv
<1> QED BY <1>1, InvAlways, PTL

(* A client in a normal sync holds the targets its delta starts from.        *)
THEOREM DeltaStartsFromApplied ==
  ASSUME LateRequests = 0 PROVE Spec => []NormalStartsFromApplied
<1>1. IInv => NormalStartsFromApplied
  BY DEF IInv, DownloadInv, NormalStartsFromApplied
<1> QED BY <1>1, InvAlways, PTL

(* The pages a client fetched add up to the payload, each rule once.         *)
THEOREM PagesAddUp ==
  ASSUME LateRequests = 0 PROVE Spec => []DownloadIsWholePayload
<1>1. IInv => DownloadIsWholePayload
  BY DEF IInv, DownloadInv, DownloadIsWholePayload, Payload
<1> QED BY <1>1, InvAlways, PTL

-----------------------------------------------------------------------------
(* Transitive authorities.  A sync that removes one is a clean_all sync from *)
(* its preflight to its postflight.                                          *)

NoneRemoved(rules) == ~ TransitiveAuthorityRemoved(applied, rules)

AuthorityInv ==
  /\ \A m \in requests :
       m.kind = "preflight" /\ m.stage = "decided" /\ m.type # "clean_all"
         => NoneRemoved(m.rules)
  /\ reply # None /\ reply.kind = "preflight" /\ reply.type # "clean_all"
       => NoneRemoved(desired)
  /\ client.phase \in {"download", "downloaded"} /\ client.type # "clean_all"
       => NoneRemoved(desired)
  /\ \A m \in requests : m.kind = "postflight" =>
       /\ client.rules = desired
       /\ client.transitive \cap (TransitiveAuthorities(applied)
                                    \ TransitiveAuthorities(desired)) = {}

LEMMA NothingToDrop ==
  ASSUME NEW rules, NoneRemoved(rules)
  PROVE  TransitiveAuthorities(applied) \ TransitiveAuthorities(rules) = {}
BY DEF NoneRemoved, TransitiveAuthorityRemoved

(* The steps of a handler.                                                   *)
LEMMA AuthorityServer ==
  ASSUME IInv, AuthorityInv, Server
  PROVE  AuthorityInv'
<1> USE DEF admin, store
<1>0. PICK m \in requests :
        \/ ResolveConfiguration(m) \/ ResolveRules(m) \/ LoadPriorState(m)
        \/ DecideSyncType(m) \/ PreparePending(m)
        \/ LoadNoPage(m) \/ LoadPageType(m) \/ LoadCleanPage(m)
        \/ LoadPageDesired(m) \/ LoadNormalPage(m)
        \/ PromotePending(m) \/ RejectPostflight(m)
  BY DEF Server
<1>1. requests = {m} /\ reply = None /\ client.phase = m.kind /\ m \in Requests
  BY OnlyRequest DEF IInv, Types
<1>2. CASE ResolveConfiguration(m) \/ ResolveRules(m) \/ LoadPriorState(m)
  <2>1. \A n \in requests' : n.stage # "decided" /\ n.kind = "preflight"
    <3>1. m \in PreflightRequests
      BY <1>1, <1>2 DEF ResolveConfiguration, ResolveRules, LoadPriorState,
           Requests, PreflightRequests, DownloadRequests, PostflightRequests
    <3>2. CASE ResolveConfiguration(m)
      BY <1>1, <3>1, <3>2 DEF ResolveConfiguration, Advance, PreflightRequests
    <3>3. CASE ResolveRules(m)
      BY <1>1, <3>1, <3>3 DEF ResolveRules, Advance, PreflightRequests
    <3>4. CASE LoadPriorState(m)
      BY <1>1, <3>1, <3>4 DEF LoadPriorState, Advance, PreflightRequests
    <3> QED BY <1>2, <3>2, <3>3, <3>4
  <2>2. UNCHANGED <<store, reply, client>> /\ client.phase = "preflight"
    BY <1>1, <1>2 DEF ResolveConfiguration, ResolveRules, LoadPriorState
  <2> QED BY <1>1, <2>1, <2>2 DEF AuthorityInv, NoneRemoved
<1>3. CASE DecideSyncType(m)
  <2> DEFINE n == [m EXCEPT !.stage = "decided", !.type = RequiredSyncType(m)]
  <2>1. m \in PreflightRequests
    BY <1>1, <1>3 DEF DecideSyncType, Requests, PreflightRequests,
                      DownloadRequests, PostflightRequests
  <2>2. /\ n.kind = "preflight" /\ n.type = RequiredSyncType(m)
        /\ n.rules = m.rules
    BY <1>3, <2>1 DEF DecideSyncType, PreflightRequests
  <2>3. RequiredSyncType(m) # "clean_all" => NoneRemoved(m.rules)
    BY DEF RequiredSyncType, NoneRemoved
  <2>4. requests' = {n} /\ UNCHANGED <<store, reply, client>>
    BY <1>1, <1>3 DEF DecideSyncType, Advance
  <2>5. client.phase = "preflight"
    BY <1>1, <1>3 DEF DecideSyncType
  <2> HIDE DEF n
  <2> QED BY <1>1, <2>2, <2>3, <2>4, <2>5 DEF AuthorityInv, NoneRemoved
<1>4. CASE PreparePending(m)
  <2> DEFINE body == [kind |-> "preflight", type |-> m.type]
  <2>1. requests' = {} /\ reply' = body /\ desired' = m.rules
    BY <1>1, <1>4, OnlyRequest DEF PreparePending, Answer
  <2>2. body.type = m.type
    OBVIOUS
  <2>3. m.type # "clean_all" => NoneRemoved(m.rules)
    BY <1>4 DEF PreparePending, AuthorityInv
  <2>4. client' = client /\ applied' = applied /\ client.phase = "preflight"
    BY <1>1, <1>4 DEF PreparePending
  <2> HIDE DEF body
  <2> QED BY <2>1, <2>2, <2>3, <2>4 DEF AuthorityInv, NoneRemoved
<1>5. CASE \/ LoadNoPage(m) \/ LoadPageType(m) \/ LoadCleanPage(m)
           \/ LoadPageDesired(m) \/ LoadNormalPage(m)
  <2>1. m \in DownloadRequests /\ m.kind = "download"
    BY <1>1, <1>5 DEF LoadNoPage, LoadPageType, LoadCleanPage,
         LoadPageDesired, LoadNormalPage, Requests, PreflightRequests,
         DownloadRequests, PostflightRequests
  <2>2. \A n \in requests' : n.kind = "download"
    BY <1>1, <1>5, <2>1 DEF LoadNoPage, LoadPageType, LoadCleanPage,
         LoadPageDesired, LoadNormalPage, Answer, Advance, DownloadRequests
  <2>3. reply' # None => reply'.kind = "page"
    BY <1>1, <1>5 DEF LoadNoPage, LoadPageType, LoadCleanPage,
         LoadPageDesired, LoadNormalPage, Answer, PageReply
  <2>4. UNCHANGED <<store, client>>
    BY <1>5 DEF LoadNoPage, LoadPageType, LoadCleanPage,
         LoadPageDesired, LoadNormalPage
  <2> QED BY <2>2, <2>3, <2>4 DEF AuthorityInv, NoneRemoved
<1>6. CASE PromotePending(m) \/ RejectPostflight(m)
  <2>1. requests' = {} /\ client' = client /\ client.phase = "postflight"
    BY <1>1, <1>6 DEF PromotePending, RejectPostflight, Answer
  <2>2. reply' # None => reply'.kind = "postflight"
    BY <1>1, <1>6 DEF PromotePending, RejectPostflight, Answer
  <2> QED BY <2>1, <2>2 DEF AuthorityInv
<1> QED BY <1>0, <1>2, <1>3, <1>4, <1>5, <1>6

(* The steps of the client.                                                  *)
LEMMA AuthorityClient ==
  ASSUME IInv, AuthorityInv, StartSync \/ Receive \/ ApplyRules
  PROVE  AuthorityInv'
<1> USE DEF admin, store
<1>0. client \in Clients
  BY DEF IInv, Types
<1>1. CASE StartSync
  <2>1. \A m \in requests' : m.kind = "preflight" /\ m.stage = "sent"
    BY <1>1 DEF StartSync, Send, PreflightRequest, IInv, OneExchange
  <2>2. reply' = None /\ client'.phase = "preflight"
    BY <1>0, <1>1 DEF StartSync, IInv, OneExchange, Clients
  <2> QED BY <2>1, <2>2 DEF AuthorityInv
<1>2. CASE ReceivePreflight
  <2>1. \A m \in requests' : m.kind = "download"
    BY <1>2 DEF ReceivePreflight, Send, DownloadRequest, IInv, OneExchange
  <2>2. client'.type # "clean_all" => reply.type # "clean_all"
    BY <1>0, <1>2 DEF ReceivePreflight, Clients
  <2>3. reply' = None /\ UNCHANGED store
    BY <1>2 DEF ReceivePreflight
  <2>4. reply # None /\ reply.kind = "preflight"
    BY <1>2 DEF ReceivePreflight
  <2> QED BY <2>1, <2>2, <2>3, <2>4 DEF AuthorityInv, NoneRemoved
<1>3. CASE ReceivePage
  <2>1. \A m \in requests' : m.kind = "download"
    BY <1>3 DEF ReceivePage, DownloadRequest, IInv, OneExchange
  <2>2. client'.type = client.type /\ client.phase = "download"
    BY <1>0, <1>3 DEF ReceivePage, Clients, IInv, OneExchange
  <2>3. reply' = None /\ UNCHANGED store
    BY <1>3 DEF ReceivePage
  <2> QED BY <2>1, <2>2, <2>3 DEF AuthorityInv, NoneRemoved
<1>4. CASE ReceivePostflight
  <2>1. requests' = {} /\ reply' = None /\ client'.phase = "idle"
    BY <1>0, <1>4 DEF ReceivePostflight, Clients, IInv, OneExchange
  <2> QED BY <2>1 DEF AuthorityInv
<1>5. CASE ApplyRules
  <2>1. client.phase = "downloaded" /\ reply' = None /\ UNCHANGED store
    BY <1>5 DEF ApplyRules, IInv, OneExchange
  <2>2. \A m \in requests' : m.kind = "postflight"
    BY <1>5 DEF ApplyRules, Send, PostflightRequest, IInv, OneExchange
  <2>3. client'.phase = "postflight" /\ client'.rules = desired
    BY <1>0, <1>5, <2>1, AfterSyncIsDesired DEF ApplyRules, Clients
  <2>4. CASE client.type = "clean_all"
    <3>1. client.received = CleanSyncPayload(desired)
      BY <2>1, <2>4 DEF IInv, DownloadInv, Payload, PendingPayload
    <3>2. client.received # {}
      BY <3>1, CleanSyncNotEmpty DEF IInv, Types
    <3>3. client'.transitive = {}
      BY <1>0, <1>5, <2>4, <3>2 DEF ApplyRules, Clients
    <3> QED BY <2>1, <2>2, <2>3, <3>3 DEF AuthorityInv
  <2>5. CASE client.type # "clean_all"
    <3>1. NoneRemoved(desired)
      BY <2>1, <2>5 DEF AuthorityInv
    <3>2. (TransitiveAuthorities(applied)
             \ TransitiveAuthorities(desired))' = {}
      BY <2>1, <3>1, NothingToDrop
    <3> QED BY <2>1, <2>2, <2>3, <3>2 DEF AuthorityInv
  <2> QED BY <2>4, <2>5
<1> QED BY <1>1, <1>2, <1>3, <1>4, <1>5 DEF Receive

(* The other steps.                                                          *)
LEMMA AuthorityDisturbance ==
  ASSUME LateRequests = 0, IInv, AuthorityInv,
         Disturbance \/ CreateTransitiveRule \/ UNCHANGED vars
  PROVE  AuthorityInv'
<1> USE DEF admin, store
<1>0. client \in Clients
  BY DEF IInv, Types
<1>1. CASE ChangeRules \/ ChangeConfiguration \/ UNCHANGED vars
  <2>1. UNCHANGED <<store, requests, reply, client>>
    BY <1>1 DEF ChangeRules, ChangeConfiguration, vars
  <2> QED BY <2>1 DEF AuthorityInv, NoneRemoved
<1>2. CASE CreateTransitiveRule
  <2>1. PICK authority \in TransitiveAuthorities(client.rules) :
          client' = [client EXCEPT !.transitive = @ \cup {authority}]
    BY <1>2 DEF CreateTransitiveRule
  <2>2. /\ client'.phase = client.phase /\ client'.rules = client.rules
        /\ client'.type = client.type
        /\ client'.transitive = client.transitive \cup {authority}
    BY <1>0, <2>1 DEF Clients
  <2>3. UNCHANGED <<store, requests, reply>>
    BY <1>2 DEF CreateTransitiveRule
  <2> QED BY <2>1, <2>2, <2>3 DEF AuthorityInv, NoneRemoved
<1>3. CASE GiveUp \/ LoseRules
  <2>1. Late = {}
    BY DEF Late, IInv, OneExchange
  <2>2. requests' = {} /\ reply' = None
    BY <1>3, <2>1, FS_EmptySet DEF GiveUp, LoseRules, IInv, OneExchange
  <2>3. client'.phase = "idle"
    BY <1>0, <1>3 DEF GiveUp, LoseRules, Clients
  <2> QED BY <2>2, <2>3 DEF AuthorityInv
<1> QED BY <1>1, <1>2, <1>3 DEF Disturbance

LEMMA AuthorityAlways == ASSUME LateRequests = 0 PROVE Spec => []AuthorityInv
<1>1. Init => AuthorityInv
  BY DEF Init, AuthorityInv
<1>2. IInv /\ AuthorityInv /\ [Next]_vars => AuthorityInv'
  BY AuthorityServer, AuthorityClient, AuthorityDisturbance
     DEF Next, Disturbance
<1> QED BY <1>1, <1>2, InvAlways, PTL DEF Spec

(* When a postflight makes the server record a set without some authority of *)
(* the one before, the client has already dropped the transitive rules that  *)
(* authority allowed.                                                        *)
THEOREM RemovedAuthorityIsDropped ==
  ASSUME LateRequests = 0 PROVE Spec => AuthorityDroppedOnPromote
<1> DEFINE Dropped ==
      applied' # applied =>
        client.transitive \cap (TransitiveAuthorities(applied)
                                  \ TransitiveAuthorities(applied')) = {}
<1>1. ASSUME IInv, AuthorityInv, [Next]_vars
      PROVE  [Dropped]_vars
  <2>1. SUFFICES ASSUME applied' # applied PROVE Dropped
    OBVIOUS
  <2>2. PICK m \in requests : PromotePending(m)
    BY <1>1, <2>1
       DEF Next, Server, vars, admin, store, ChangeRules, ChangeConfiguration,
           ResolveConfiguration, ResolveRules, LoadPriorState, DecideSyncType,
           PreparePending, LoadNoPage, LoadPageType, LoadCleanPage,
           LoadPageDesired, LoadNormalPage, RejectPostflight, StartSync,
           Receive, ReceivePreflight, ReceivePage, ReceivePostflight,
           ApplyRules, CreateTransitiveRule, GiveUp, LoseRules
  <2>3. applied' = desired /\ m.kind = "postflight"
    BY <2>2 DEF PromotePending
  <2> QED BY <1>1, <2>3 DEF AuthorityInv
<1>2. Spec => [][Dropped]_vars
  BY <1>1, AuthorityAlways, InvAlways, PTL DEF Spec
<1> QED BY <1>2 DEF AuthorityDroppedOnPromote

-----------------------------------------------------------------------------
(* The synchronisation keeps the promise of SantaTransfer.                   *)

(* The sets are prepared, enforced and recorded in four steps; a step of no  *)
(* other kind touches them.                                                  *)
LEMMA TransferServer ==
  ASSUME IInv, IInv', AuthorityInv, Server
  PROVE  [Transfer!TransferNext]_(Transfer!transfer)
<1> USE DEF admin, store
<1>1. PICK m \in requests :
        \/ ResolveConfiguration(m) \/ ResolveRules(m)
        \/ LoadPriorState(m) \/ DecideSyncType(m) \/ PreparePending(m)
        \/ LoadNoPage(m) \/ LoadPageType(m) \/ LoadCleanPage(m)
        \/ LoadPageDesired(m) \/ LoadNormalPage(m)
        \/ PromotePending(m) \/ RejectPostflight(m)
  BY DEF Server
<1>2. CASE PreparePending(m)
  <2>1. desired' \in RuleSets
    BY DEF IInv, Types
  <2>2. Transfer!Prepare
    BY <1>2, <2>1 DEF PreparePending, Transfer!Prepare
  <2> QED BY <2>2 DEF Transfer!TransferNext
<1>3. CASE PromotePending(m)
  <2>1. client.rules = desired
    BY <1>3 DEF PromotePending, AuthorityInv
  <2>2. Transfer!Record
    BY <1>3, <2>1 DEF PromotePending, Transfer!Record
  <2> QED BY <2>2 DEF Transfer!TransferNext
<1>4. CASE ~ PreparePending(m) /\ ~ PromotePending(m)
  <2>1. UNCHANGED <<desired, applied, client>>
    BY <1>1, <1>4
       DEF ResolveConfiguration, ResolveRules, LoadPriorState, DecideSyncType,
           LoadNoPage, LoadPageType, LoadCleanPage, LoadPageDesired,
           LoadNormalPage, RejectPostflight
  <2> QED BY <2>1 DEF Transfer!transfer
<1> QED BY <1>2, <1>3, <1>4

(* The client adopts a set when it has the whole of its payload.             *)
LEMMA TransferClient ==
  ASSUME IInv, StartSync \/ Receive \/ ApplyRules \/ CreateTransitiveRule
  PROVE  [Transfer!TransferNext]_(Transfer!transfer)
<1> USE DEF admin, store
<1>0. client \in Clients
  BY DEF IInv, Types
<1>1. CASE ApplyRules
  <2>1. client'.rules = AfterSync /\ client.phase = "downloaded"
    BY <1>0, <1>1 DEF ApplyRules, Clients
  <2>2. client'.rules = desired /\ UNCHANGED <<desired, applied>>
    BY <1>1, <2>1, AfterSyncIsDesired DEF ApplyRules
  <2>3. Transfer!Adopt
    BY <2>2 DEF Transfer!Adopt
  <2> QED BY <2>3 DEF Transfer!TransferNext
<1>2. CASE StartSync \/ Receive \/ CreateTransitiveRule
  <2>1. client'.rules = client.rules
    BY <1>0, <1>2
       DEF StartSync, Receive, ReceivePreflight, ReceivePage, ReceivePostflight,
           CreateTransitiveRule, Clients
  <2>2. UNCHANGED <<desired, applied>>
    BY <1>2
       DEF StartSync, Receive, ReceivePreflight, ReceivePage, ReceivePostflight,
           CreateTransitiveRule
  <2> QED BY <2>1, <2>2 DEF Transfer!transfer
<1> QED BY <1>1, <1>2

(* A disturbance loses the client's rules or leaves the sets alone.          *)
LEMMA TransferDisturbance ==
  ASSUME IInv, Disturbance \/ UNCHANGED vars
  PROVE  [Transfer!TransferNext]_(Transfer!transfer)
<1> USE DEF admin, store
<1>0. client \in Clients
  BY DEF IInv, Types
<1>1. CASE LoseRules
  <2>1. client'.rules = NoRules
    BY <1>0, <1>1 DEF LoseRules, Clients
  <2>2. Transfer!Lose
    BY <1>1, <2>1 DEF LoseRules, Transfer!Lose
  <2> QED BY <2>2 DEF Transfer!TransferNext
<1>2. CASE ChangeRules \/ ChangeConfiguration \/ GiveUp \/ UNCHANGED vars
  <2>1. client'.rules = client.rules /\ UNCHANGED <<desired, applied>>
    BY <1>0, <1>2 DEF ChangeRules, ChangeConfiguration, GiveUp, vars, Clients
  <2> QED BY <2>1 DEF Transfer!transfer
<1> QED BY <1>1, <1>2 DEF Disturbance

(* For any rules, page size and history of changes, abandoned syncs and      *)
(* losses, the client only ever holds a set that was prepared for it, whole, *)
(* and what the server records as applied is what it holds at that moment.   *)
THEOREM SyncImplementsTransfer ==
  ASSUME LateRequests = 0 PROVE Spec => ImplementsTransfer
<1>1. Init => Transfer!TransferInit
  BY DEF Init, Transfer!TransferInit
<1>2. ASSUME IInv, IInv', AuthorityInv, [Next]_vars
      PROVE  [Transfer!TransferNext]_(Transfer!transfer)
  BY <1>2, TransferServer, TransferClient, TransferDisturbance
     DEF Next, Disturbance
<1> QED BY <1>1, <1>2, InvAlways, AuthorityAlways, PTL
        DEF Spec, ImplementsTransfer, Transfer!TransferSpec
=============================================================================
