------------------------------ MODULE SantaSync ------------------------------
(***************************************************************************)
(* Santa rule synchronisation of one host: the preflight, rule download    *)
(* and postflight handlers (internal/santa/service.go) over the sync state *)
(* of internal/santa/syncstate, and the Santa client that calls them.      *)
(*                                                                         *)
(* A handler is cut where another transaction can come between two of its  *)
(* database statements.  The client runs one sync at a time and may give   *)
(* it up at any point: it crashes, or a request or its answer is lost.     *)
(* net/http cancels the handler of a client that went away, so the request *)
(* normally dies with it; LateRequests bounds how many of them a proxy may *)
(* still deliver afterwards.                                               *)
(***************************************************************************)
EXTENDS SantaRules

CONSTANTS
  Resolutions,   \* rule sets the host can resolve to
  Digests,       \* digests of the configurations the host can resolve to
  PageSize,      \* rules in a downloaded page
  LateRequests,  \* requests of abandoned syncs that can still be delivered
  None           \* SQL NULL, or nothing

ASSUME SyncAssumption ==
  /\ Resolutions \subseteq RuleSets
  /\ PageSize \in Nat \ {0}
  /\ LateRequests \in Nat
  /\ None \notin Digests

SyncTypes == {"normal", "clean", "clean_all"}

Hashes == SUBSET (Identities \X Contents)

Pending == [type : SyncTypes, digest : Digests, hash : Hashes]

Confirmed == [digest : Digests, hash : Hashes]

ASSUME NullAssumption == None \notin Pending

VARIABLES
  resolved,   \* the rules the host resolves to now
  policy,     \* the digest of its configuration now
  pending,    \* pending columns of santa_sync_state, None when NULL
  confirmed,  \* applied columns of santa_sync_state, None when NULL
  desired,    \* santa_sync_targets of phase desired
  applied,    \* santa_sync_targets of phase applied
  requests,   \* requests the server has not answered
  reply,      \* the answer on its way to the client, or None
  client      \* the Santa client

admin  == <<resolved, policy>>
store  == <<pending, confirmed, desired, applied>>
vars   == <<resolved, policy, pending, confirmed, desired, applied,
            requests, reply, client>>

PreflightRequest(hash, counts, clean) ==
  [kind |-> "preflight", live |-> TRUE, stage |-> "sent",
   hash |-> hash, counts |-> counts, clean |-> clean,
   digest |-> None, rules |-> NoRules, prior |-> None, type |-> "normal"]

DownloadRequest(offset) ==
  [kind |-> "download", live |-> TRUE, stage |-> "sent",
   offset |-> offset, type |-> "normal", rules |-> NoRules]

PostflightRequest(count, type, hash) ==
  [kind |-> "postflight", live |-> TRUE, stage |-> "sent",
   count |-> count, type |-> type, hash |-> hash]

Init ==
  /\ resolved \in Resolutions
  /\ policy \in Digests
  /\ pending = None
  /\ confirmed = None
  /\ desired = NoRules
  /\ applied = NoRules
  /\ requests = {}
  /\ reply = None
  /\ client = [phase |-> "idle", rules |-> NoRules, transitive |-> {},
               type |-> "normal", received |-> {}, count |-> 0]

-----------------------------------------------------------------------------
(* Administrators and directory changes move the host's rules and            *)
(* configuration at any time.                                                *)

ChangeRules ==
  /\ \E rules \in Resolutions : rules # resolved /\ resolved' = rules
  /\ UNCHANGED <<policy, store, requests, reply, client>>

ChangeConfiguration ==
  /\ \E digest \in Digests : digest # policy /\ policy' = digest
  /\ UNCHANGED <<resolved, store, requests, reply, client>>

-----------------------------------------------------------------------------
(* The server.                                                               *)

Advance(m, next) == requests' = (requests \ {m}) \cup {next}

(* The handler of m is done: its answer travels if the client still waits.   *)
Answer(m, body) ==
  /\ requests' = requests \ {m}
  /\ reply' = IF m.live THEN body ELSE reply

UnresolvedConfiguration(m) ==   \* mutant: the digest is never taken
  /\ m.kind = "preflight" /\ m.stage = "sent"
  /\ Advance(m, [m EXCEPT !.stage = "configuration"])
  /\ UNCHANGED <<admin, store, reply, client>>

(* SyncService.Preflight resolves the configuration, then the rules ...      *)
ResolveConfiguration(m) ==
  /\ m.kind = "preflight" /\ m.stage = "sent"
  /\ Advance(m, [m EXCEPT !.stage = "configuration", !.digest = policy])
  /\ UNCHANGED <<admin, store, reply, client>>

ResolveRules(m) ==
  /\ m.kind = "preflight" /\ m.stage = "configuration"
  /\ Advance(m, [m EXCEPT !.stage = "rules", !.rules = resolved])
  /\ UNCHANGED <<admin, store, reply, client>>

(* ... and PreparePending reads the prior state, without locking it: the     *)
(* confirmed sync, then the applied targets.                                 *)
LoadPriorState(m) ==
  /\ m.kind = "preflight" /\ m.stage = "rules"
  /\ Advance(m, [m EXCEPT !.stage = "prior", !.prior = confirmed])
  /\ UNCHANGED <<admin, store, reply, client>>

SyncTypeWithoutHash(m) ==   \* mutant: the client's digest is not compared
  CASE m.prior = None -> "clean_all"
    [] m.prior # None /\ m.prior.digest # m.digest -> "clean_all"
    [] TransitiveAuthorityRemoved(applied, m.rules) -> "clean_all"
    [] OTHER -> IF m.clean THEN "clean" ELSE "normal"

(* priorState.requiredSyncType.                                              *)
RequiredSyncType(m) ==
  CASE m.prior = None -> "clean_all"
    [] m.prior # None /\ m.prior.digest # m.digest -> "clean_all"
    [] TransitiveAuthorityRemoved(applied, m.rules) -> "clean_all"
    [] OTHER ->
         IF \/ m.clean
            \/ m.prior.hash # m.hash
            \/ m.rules = applied /\ CountTargets(m.rules) # m.counts
           THEN "clean"
           ELSE "normal"

DecideSyncType(m) ==
  /\ m.kind = "preflight" /\ m.stage = "prior"
  /\ Advance(m, [m EXCEPT !.stage = "decided", !.type = RequiredSyncType(m)])
  /\ UNCHANGED <<admin, store, reply, client>>

(* It then rewrites the pending state and commits.                           *)
PreparePending(m) ==
  /\ m.kind = "preflight" /\ m.stage = "decided"
  /\ pending' = [type |-> m.type, digest |-> m.digest, hash |-> m.hash]
  /\ desired' = m.rules
  /\ Answer(m, [kind |-> "preflight", type |-> m.type])
  /\ UNCHANGED <<admin, confirmed, applied, client>>

PageReply(m, payload) ==
  [kind |-> "page",
   rules |-> PayloadPage(payload, m.offset, PageSize),
   next |-> IF HasNextPage(payload, m.offset, PageSize)
              THEN m.offset + PageSize ELSE 0]

(* LoadPendingPayloadPage: an empty page when nothing is pending, ...        *)
LoadNoPage(m) ==
  /\ m.kind = "download" /\ m.stage = "sent"
  /\ pending = None
  /\ Answer(m, [kind |-> "page", rules |-> {}, next |-> 0])
  /\ UNCHANGED <<admin, store, client>>

(* ... otherwise the sync type, the desired and the applied targets in three *)
(* statements of their own.                                                  *)
LoadPageType(m) ==
  /\ m.kind = "download" /\ m.stage = "sent"
  /\ pending # None
  /\ Advance(m, [m EXCEPT !.stage = "type", !.type = pending.type])
  /\ UNCHANGED <<admin, store, reply, client>>

LoadCleanPage(m) ==
  /\ m.kind = "download" /\ m.stage = "type" /\ m.type # "normal"
  /\ Answer(m, PageReply(m, CleanSyncPayload(desired)))
  /\ UNCHANGED <<admin, store, client>>

LoadPageDesired(m) ==
  /\ m.kind = "download" /\ m.stage = "type" /\ m.type = "normal"
  /\ Advance(m, [m EXCEPT !.stage = "desired", !.rules = desired])
  /\ UNCHANGED <<admin, store, reply, client>>

LoadNormalPage(m) ==
  /\ m.kind = "download" /\ m.stage = "desired"
  /\ Answer(m, PageReply(m, NormalSyncPayload(m.rules, applied)))
  /\ UNCHANGED <<admin, store, client>>

(* validatePostflight.                                                       *)
PostflightValid(m) ==
  /\ pending # None
  /\ \/ m.type = pending.type
     \/ pending.type = "clean" /\ m.type = "clean_all"
  /\ LET payload == PendingPayload(pending.type, desired, applied)
     IN  /\ m.count = Cardinality(payload)
         /\ payload = {} => m.hash = pending.hash

(* One transaction under a row lock: the desired set becomes the applied one *)
(* and the digest the client reports the confirmed one.                      *)
PromotePending(m) ==
  /\ m.kind = "postflight"
  /\ PostflightValid(m)
  /\ confirmed' = [digest |-> pending.digest, hash |-> m.hash]
  /\ applied' = desired
  /\ pending' = None
  /\ Answer(m, [kind |-> "postflight", accepted |-> TRUE])
  /\ UNCHANGED <<admin, desired, client>>

RejectPostflight(m) ==
  /\ m.kind = "postflight"
  /\ ~ PostflightValid(m)
  /\ Answer(m, [kind |-> "postflight", accepted |-> FALSE])
  /\ UNCHANGED <<admin, store, client>>

Server ==
  \E m \in requests :
    \/ ResolveConfiguration(m) \/ ResolveRules(m)
    \/ LoadPriorState(m) \/ DecideSyncType(m) \/ PreparePending(m)
    \/ LoadNoPage(m) \/ LoadPageType(m) \/ LoadCleanPage(m)
    \/ LoadPageDesired(m) \/ LoadNormalPage(m)
    \/ PromotePending(m) \/ RejectPostflight(m)

-----------------------------------------------------------------------------
(* The Santa client.  External: modelled from the requests the handlers and  *)
(* their tests expect of it.                                                 *)

Send(m) == requests' = requests \cup {m}

StartSync ==
  /\ client.phase = "idle"
  /\ \E clean \in BOOLEAN :
       Send(PreflightRequest(RulesHash(client.rules),
                             CountTargets(client.rules), clean))
  /\ client' = [client EXCEPT !.phase = "preflight"]
  /\ UNCHANGED <<admin, store, reply>>

(* A client asked for a clean sync may hold one of its own that drops its    *)
(* transitive rules as well.                                                 *)
ReceivePreflight ==
  /\ reply # None /\ reply.kind = "preflight"
  /\ \E type \in SyncTypes :
       /\ type = reply.type \/ (reply.type = "clean" /\ type = "clean_all")
       /\ client' = [client EXCEPT !.phase = "download", !.type = type,
                                   !.received = {}, !.count = 0]
  /\ Send(DownloadRequest(0))
  /\ reply' = None
  /\ UNCHANGED <<admin, store>>

ReceivePage ==
  /\ reply # None /\ reply.kind = "page"
  /\ client' =
       [client EXCEPT
          !.received = {p \in @ : \A q \in reply.rules : q.id # p.id}
                         \cup reply.rules,
          !.count = @ + Cardinality(reply.rules),
          !.phase = IF reply.next = 0 THEN "downloaded" ELSE @]
  /\ requests' = IF reply.next = 0 THEN requests
                 ELSE requests \cup {DownloadRequest(reply.next)}
  /\ reply' = None
  /\ UNCHANGED <<admin, store>>

(* The client changes its rule table in one step, and leaves it alone when   *)
(* it received nothing.                                                      *)
AfterSync ==
  CASE client.received = {} -> client.rules
    [] client.type = "normal" -> ApplyPayload(client.rules, client.received)
    [] OTHER -> ApplyPayload(NoRules, client.received)

ApplyRules ==
  /\ client.phase = "downloaded"
  /\ client' = [client EXCEPT
                  !.phase = "postflight",
                  !.rules = AfterSync,
                  !.transitive = IF client.type = "clean_all"
                                    /\ client.received # {} THEN {} ELSE @]
  /\ Send(PostflightRequest(client.count, client.type, RulesHash(AfterSync)))
  /\ UNCHANGED <<admin, store, reply>>

ReceivePostflight ==
  /\ reply # None /\ reply.kind = "postflight"
  /\ client' = [client EXCEPT !.phase = "idle", !.received = {}, !.count = 0]
  /\ reply' = None
  /\ UNCHANGED <<admin, store, requests>>

(* A compiler or CEL rule lets the client allow what it produces.            *)
CreateTransitiveRule ==
  /\ \E authority \in TransitiveAuthorities(client.rules) :
       /\ authority \notin client.transitive
       /\ client' = [client EXCEPT !.transitive = @ \cup {authority}]
  /\ UNCHANGED <<admin, store, requests, reply>>

Late == {m \in requests : ~ m.live}

(* The sync ends early; a request on its way dies with it or becomes late.   *)
(* Losing the answer to a postflight is no different from receiving it.      *)
GiveUp ==
  /\ client.phase # "idle"
  /\ reply # None => reply.kind # "postflight"
  /\ client' = [client EXCEPT !.phase = "idle", !.received = {}, !.count = 0]
  /\ reply' = None
  /\ \/ requests' = Late
     \/ /\ Cardinality(Late) < LateRequests
        /\ requests' = Late \cup {[m EXCEPT !.live = FALSE] :
                                    m \in requests \ Late}
  /\ UNCHANGED <<admin, store>>

(* The rule database is lost between two syncs.                              *)
LoseRules ==
  /\ client.phase = "idle"
  /\ client.rules # NoRules \/ client.transitive # {}
  /\ client' = [client EXCEPT !.rules = NoRules, !.transitive = {}]
  /\ UNCHANGED <<admin, store, requests, reply>>

Receive == ReceivePreflight \/ ReceivePage \/ ReceivePostflight

Next ==
  \/ ChangeRules \/ ChangeConfiguration
  \/ Server
  \/ StartSync \/ Receive \/ ApplyRules
  \/ CreateTransitiveRule \/ GiveUp \/ LoseRules

(* Handlers run to completion and Santa keeps syncing on its timer.          *)
Fairness ==
  /\ WF_vars(Server)
  /\ WF_vars(StartSync) /\ WF_vars(Receive) /\ WF_vars(ApplyRules)

Spec == Init /\ [][Next]_vars

FairSpec == Spec /\ Fairness

-----------------------------------------------------------------------------
(* Properties.                                                               *)

Counts == [RuleTypes \cup {"compiler"} -> Nat]

Authorities == {AuthorityOf(i, content) : i \in Identities, content \in Contents}

PreflightRequests ==
  [kind : {"preflight"}, live : BOOLEAN,
   stage : {"sent", "configuration", "rules", "prior", "decided"},
   hash : Hashes, counts : Counts, clean : BOOLEAN,
   digest : Digests \cup {None}, rules : RuleSets,
   prior : Confirmed \cup {None}, type : SyncTypes]

DownloadRequests ==
  [kind : {"download"}, live : BOOLEAN, stage : {"sent", "type", "desired"},
   offset : Nat, type : SyncTypes, rules : RuleSets]

PostflightRequests ==
  [kind : {"postflight"}, live : BOOLEAN, stage : {"sent"},
   count : Nat, type : SyncTypes, hash : Hashes]

Requests == PreflightRequests \cup DownloadRequests \cup PostflightRequests

Replies ==
       [kind : {"preflight"}, type : SyncTypes]
  \cup [kind : {"page"}, rules : SUBSET PayloadRules, next : Nat]
  \cup [kind : {"postflight"}, accepted : BOOLEAN]

Clients ==
  [phase : {"idle", "preflight", "download", "downloaded", "postflight"},
   rules : RuleSets, transitive : SUBSET Authorities, type : SyncTypes,
   received : SUBSET PayloadRules, count : Nat]

(* Every variable stays in its type, and no more requests are outstanding    *)
(* than the one the client waits for and the late ones; the digests of a     *)
(* pending and a confirmed sync are always those of a configuration.         *)
TypeOK ==
  /\ resolved \in Resolutions /\ policy \in Digests
  /\ pending \in Pending \cup {None}
  /\ confirmed \in Confirmed \cup {None}
  /\ desired \in RuleSets /\ applied \in RuleSets
  /\ requests \subseteq Requests
  /\ Cardinality(requests) <= LateRequests + 1
  /\ reply \in Replies \cup {None}
  /\ client \in Clients

(* The digest the server keeps to detect drift is always that of the targets *)
(* it recorded as applied: whatever syncs were abandoned, whichever pages    *)
(* they had fetched and however often the rules changed in between, a digest *)
(* that matches means the client holds exactly the applied targets.          *)
ConfirmedIsApplied ==
  confirmed # None => confirmed.hash = RulesHash(applied)

(* A client in a normal sync, whose payload is the difference to the applied *)
(* targets, holds the applied targets.                                       *)
NormalStartsFromApplied ==
  client.phase \in {"download", "downloaded"} /\ client.type = "normal"
    => client.rules = applied

(* However the payload was paged, a client that has fetched its last page    *)
(* has each rule of the pending payload exactly once.                        *)
DownloadIsWholePayload ==
  client.phase = "downloaded" =>
    /\ client.received = PendingPayload(pending.type, desired, applied)
    /\ client.count = Cardinality(client.received)

(* A postflight that promotes a set without some authority of the applied    *)
(* one finds no transitive rule of that authority left on the client.        *)
AuthorityDroppedOnPromote ==
  [][applied' # applied =>
       client.transitive \cap (TransitiveAuthorities(applied)
                                 \ TransitiveAuthorities(applied')) = {}]_vars

Transfer == INSTANCE SantaTransfer
  WITH Sets <- RuleSets, NoSet <- NoRules,
       prepared <- desired, held <- client.rules, recorded <- applied

(* However a sync is paged, given up and taken up again while the rules      *)
(* change, the client goes from one prepared set to another as a whole, and  *)
(* the server records as applied what the client then holds                  *)
(* (PreparePending, LoadPendingPayloadPage, PromotePending).                 *)
ImplementsTransfer == Transfer!TransferSpec

InSync ==
  /\ client.rules = resolved /\ applied = resolved
  /\ confirmed # None /\ confirmed.digest = policy

Disturbance == ChangeRules \/ ChangeConfiguration \/ GiveUp \/ LoseRules

(* Once rules, configuration and client are left alone, the client ends up   *)
(* with the rules its host resolves to and the server knows it; no state an  *)
(* interrupted history leads to rejects every later sync.                    *)
Convergence == <>[][~ Disturbance]_vars => <>[]InSync

(* Once an accepted sync is over, every transitive rule of the client has    *)
(* its authority in the client's rules: removing a transitive authority      *)
(* cleans the transitive rules too.                                          *)
TransitiveRulesHaveAuthority ==
  client.phase = "idle" /\ pending = None
    /\ confirmed # None /\ confirmed.hash = RulesHash(client.rules)
    => client.transitive \subseteq TransitiveAuthorities(client.rules)
=============================================================================
