----------------------------- MODULE ConsoleProofs -----------------------------
(***************************************************************************)
(* Proofs about the console's cache, for every set of accounts, layout of  *)
(* pages and bound on the writes.  Of the mutations they use RootsCover    *)
(* alone, which TLC evaluates for those of the console.                    *)
(***************************************************************************)
EXTENDS Console, TLAPS

-----------------------------------------------------------------------------
(* Types                                                                    *)

Owners == Accounts \cup {NoOne}
Entries == [ver : Int, invalid : BOOLEAN, late : BOOLEAN, owner : Owners]
Requests ==
  [on : BOOLEAN, ver : Int, late : BOOLEAN, owner : Owners, awaited : BOOLEAN, was : BOOLEAN]
Effects == {e \in EffectTypes : e.answers => e.sets \/ e.marks}
Goals == {o.goes : o \in UNION {s.offers : s \in Settings}} \cup {<<>>}
Flights ==
  [effect : Effects, goes : Goals,
   stage : {"idle", "sent", "applied", "settling"}, ver : Nat, owner : Owners]

(* A mutation in flight is one that a page offers.                           *)
Typed ==
  /\ setting \in Settings
  /\ server \in Owners
  /\ forgotten \subseteq Accounts
  /\ writes \in Nat
  /\ acked \in Nat
  /\ cache \in Entries
  /\ fetch \in Requests
  /\ flight \in Flights
  /\ flight.stage \in {"sent", "applied"} => \E o \in setting.offers : flight.effect = o.effect

(* The entry nobody has, the request nobody sent and those made of an entry  *)
(* are of their types.                                                       *)
LEMMA EntryTypes ==
  /\ NoEntry \in Entries
  /\ NoFetch \in Requests
  /\ \A v \in Int, l \in BOOLEAN, o \in Owners : Entry(v, l, o) \in Entries
  /\ \A c \in Entries, b \in BOOLEAN : Asked(c, b) \in Requests
  /\ \A c \in Entries, f \in Requests : Join(c, f) \in Requests /\ Reverted(c, f) \in Entries
<1>1. NoEntry \in Entries
  BY DEF NoEntry, Entries, Owners
<1>2. \A c \in Entries, b \in BOOLEAN : Asked(c, b) \in Requests
  BY DEF Asked, Entries, Requests, Owners
<1>3. NoFetch \in Requests
  BY <1>1, <1>2 DEF NoFetch, Requests
<1>4. \A v \in Int, l \in BOOLEAN, o \in Owners : Entry(v, l, o) \in Entries
  BY DEF Entry, Entries
<1>5. \A c \in Entries, f \in Requests : Join(c, f) \in Requests
  BY <1>2 DEF Join
<1>6. \A c \in Entries, f \in Requests : Reverted(c, f) \in Entries
  BY DEF Reverted, Entries, Requests, Has
<1> QED
  BY <1>1, <1>2, <1>3, <1>4, <1>5, <1>6

(* Showing a page leaves the entry and the request of their types.           *)
LEMMA ShowTypes ==
  ASSUME NEW new, NEW account, NEW c0 \in Entries, NEW f0 \in Requests,
         Show(new, account, c0, f0)
  PROVE  cache' \in Entries /\ fetch' \in Requests
<1> DEFINE before == Observed(page, tab)
           after == Observed(new, account)
           stays == before /\ after /\ (page = new \/ Kept(page, new))
           aborts == before /\ ~stays /\ f0.on
           c == IF aborts THEN Reverted(c0, f0) ELSE c0
           f == IF aborts THEN NoFetch ELSE f0
<1>1. c \in Entries /\ f \in Requests
  BY EntryTypes
<1>2. cache' = c /\ (fetch' = f \/ fetch' = Join(c, f))
  <2> HIDE DEF c, f
  <2> QED BY DEF Show, c, f
<1> HIDE DEF c, f
<1> QED
  BY <1>1, <1>2, EntryTypes

(* What a page offers is of a known effect, and leads somewhere.             *)
LEMMA OffersTyped ==
  ASSUME NEW s \in Settings, NEW o \in s.offers
  PROVE  o.effect \in Effects /\ o.goes \in Goals
<1>1. o.effect \in EffectTypes
  BY SettingsAssumption
<1>2. o.effect.answers => o.effect.sets \/ o.effect.marks
  BY RootsCover
<1>3. o.goes \in Goals
  <2>1. o \in UNION {t.offers : t \in Settings}
    OBVIOUS
  <2> QED BY <2>1, Zenon DEF Goals
<1> QED
  BY <1>1, <1>2, <1>3 DEF Effects

(* No mutation is in flight.                                                 *)
LEMMA NoFlightType == NoFlight \in Flights /\ NoFlight.stage = "idle"
<1>1. NoEffect \in Effects
  BY DEF NoEffect, EffectTypes, Effects
<1>2. <<>> \in Goals
  BY Zenon DEF Goals
<1> QED
  BY <1>1, <1>2 DEF NoFlight, Flights, Owners

(* Init: nothing cached, asked for or changed.                               *)
LEMMA TypedInit == Init => Typed
<1> SUFFICES ASSUME Init PROVE Typed
  OBVIOUS
<1>1. setting \in Settings /\ server \in Owners
  BY SettingsAssumption DEF Init, Owners
<1>2. flight \in Flights /\ flight.stage = "idle"
  BY NoFlightType DEF Init
<1> QED
  BY <1>1, <1>2, EntryTypes DEF Init, Typed

(* Every step keeps the types.                                               *)
LEMMA TypedStep == Typed /\ [Next]_vars => Typed'
<1> SUFFICES ASSUME Typed, [Next]_vars PROVE Typed'
  OBVIOUS
<1> USE DEF Typed
<1>1. ASSUME NEW to, NEW refusals, Enter(to, refusals) PROVE Typed'
  <2>1. UNCHANGED <<setting, server, writes, flight, acked, forgotten>>
    BY <1>1 DEF Enter
  <2>2. CASE RequireUser
    BY <2>1, <2>2, ShowTypes DEF RequireUser
  <2>3. ASSUME NEW who, RequirePermissions(who, to, refusals) PROVE Typed'
    BY <2>1, <2>3 DEF RequirePermissions
  <2>4. ASSUME NEW who, LoadResource(who, to, refusals) PROVE Typed'
    <3>1. CASE MustLoad(to)
      BY <2>1, <2>4, <3>1, EntryTypes DEF LoadResource
    <3>2. CASE ~MustLoad(to)
      BY <2>1, <2>4, <3>2, ShowTypes DEF LoadResource
    <3> QED BY <3>1, <3>2
  <2> QED
    BY <1>1, <2>2, <2>3, <2>4 DEF Enter
<1>2. ASSUME NEW to, Preload(to) PROVE Typed'
  BY <1>2, EntryTypes DEF Preload, ends
<1>3. CASE Answer
  <2>1. fetch' = [fetch EXCEPT !.ver = writes, !.owner = server]
    BY <1>3 DEF Answer
  <2>2. writes \in Int /\ server \in Owners /\ fetch \in Requests
    OBVIOUS
  <2>3. fetch' \in Requests
    <3> HIDE DEF Typed
    <3> QED BY <2>1, <2>2 DEF Requests
  <2> QED BY <1>3, <2>3 DEF Answer, ends
<1>4. CASE Receive
  <2> DEFINE c == Entry(fetch.ver, fetch.late, fetch.owner)
  <2>1. c \in Entries
    BY EntryTypes DEF Requests
  <2>2. UNCHANGED <<setting, ends, writes, flight, acked>>
    BY <1>4 DEF Receive
  <2>3. cache' \in Entries /\ fetch' \in Requests
    <3>1. CASE Show(going.to, tab, c, NoFetch)
      BY <2>1, <3>1, ShowTypes, EntryTypes
    <3>2. CASE cache' = c /\ fetch' = NoFetch
      BY <2>1, <3>2, EntryTypes
    <3> QED BY <1>4, <3>1, <3>2 DEF Receive
  <2> QED BY <2>2, <2>3 DEF ends
<1>5. CASE FetchFails
  <2>1. cache' \in Entries
    BY <1>5 DEF FetchFails, Entries
  <2> QED BY <1>5, <2>1, EntryTypes DEF FetchFails, ends
<1>6. CASE Refetch
  BY <1>6, EntryTypes DEF Refetch, ends
<1>7. CASE Collect
  BY <1>7, EntryTypes DEF Collect, ends
<1>8. CASE Submits
  <2>1. PICK o \in setting.offers : o.at = <<RoleOf(tab), page>> /\ Submit(o)
    BY <1>8 DEF Submits
  <2>2. o.effect \in Effects /\ o.goes \in Goals
    BY <2>1, OffersTyped
  <2>3. flight' = [NoFlight EXCEPT !.effect = o.effect, !.goes = o.goes, !.stage = "sent"]
    BY <2>1 DEF Submit
  <2>4. flight' \in Flights /\ flight'.effect = o.effect
    <3> HIDE DEF Typed
    <3> QED BY <2>2, <2>3, NoFlightType DEF Flights
  <2> QED BY <2>1, <2>4 DEF Submit, ends
<1>9. CASE Apply
  <2>1. writes' \in Nat
    BY <1>9 DEF Apply
  <2>2. flight' = [flight EXCEPT !.stage = "applied", !.ver = writes', !.owner = server]
    BY <1>9 DEF Apply
  <2>3. flight' \in Flights /\ flight'.effect = flight.effect /\ flight.stage = "sent"
    BY <1>9, <2>1, <2>2 DEF Apply, Flights
  <2> QED BY <1>9, <2>1, <2>3 DEF Apply, ends
<1>10. CASE MutationFails
  BY <1>10, NoFlightType DEF MutationFails, ends
<1>11. CASE OnSuccess
  <2> DEFINE e == flight.effect
  <2>1. PICK differed \in BOOLEAN :
          LET removed == differed /\ e.removes
              c == IF removed THEN NoEntry ELSE Invalidate(e, SetQueryData(e, cache))
              f == IF removed THEN NoFetch ELSE fetch
          IN /\ cache' = c
             /\ fetch' = IF Refetches(e, removed, c, f) THEN Asked(c, ~removed)
                         ELSE Overtake(e, c, f)
    BY <1>11 DEF OnSuccess
  <2> DEFINE removed == differed /\ e.removes
             c == IF removed THEN NoEntry ELSE Invalidate(e, SetQueryData(e, cache))
             f == IF removed THEN NoFetch ELSE fetch
  <2>2. SetQueryData(e, cache) \in Entries
    <3>1. flight.ver \in Int /\ flight.owner \in Owners
      <4>1. flight \in Flights
        OBVIOUS
      <4> HIDE DEF Typed
      <4>2. flight.ver \in Nat /\ flight.owner \in Owners
        BY <4>1 DEF Flights
      <4> QED BY <4>2
    <3> QED BY <3>1, EntryTypes DEF SetQueryData
  <2>3. c \in Entries
    BY <2>2, EntryTypes DEF Invalidate, Entries
  <2>4. f \in Requests
    BY EntryTypes
  <2>5. Overtake(e, c, f) \in Requests
    <3> HIDE DEF c, f
    <3> QED BY <2>3, <2>4 DEF Overtake, Requests, Entries, Observed
  <2>6. cache' \in Entries /\ fetch' \in Requests
    <3>1. cache' = c /\ (fetch' = Asked(c, ~removed) \/ fetch' = Overtake(e, c, f))
      BY <2>1
    <3> HIDE DEF c, f
    <3> QED BY <2>3, <2>5, <3>1, EntryTypes
  <2>7. flight' \in Flights /\ flight'.stage = "settling"
    <3>1. flight' = [NoFlight EXCEPT !.goes = flight.goes, !.stage = "settling"]
      BY <1>11 DEF OnSuccess
    <3>2. NoFlight \in Flights /\ flight.goes \in Goals
      BY NoFlightType DEF Flights
    <3> QED BY <3>1, <3>2 DEF Flights
  <2>8. acked' \in Nat /\ UNCHANGED <<setting, ends, page, going, writes>>
    BY <1>11 DEF OnSuccess, Flights
  <2> QED BY <2>6, <2>7, <2>8 DEF ends
<1>12. CASE Finish
  BY <1>12, NoFlightType DEF Finish, ends
<1>13. CASE OthersWrite
  BY <1>13 DEF OthersWrite, ends
<1>14. CASE SessionEnds
  BY <1>14 DEF SessionEnds, Owners
<1>15. CASE ExpireSession
  <2>1. cache' \in Entries /\ fetch' \in Requests /\ forgotten' \subseteq Accounts
    BY <1>15, EntryTypes, SettingsAssumption DEF ExpireSession, Clear
  <2>2. flight' \in Flights /\ (flight' = flight \/ flight'.stage = "idle")
    BY <1>15, NoFlightType DEF ExpireSession
  <2> QED BY <1>15, <2>1, <2>2 DEF ExpireSession
<1>16. CASE Logout
  <2>1. cache' \in Entries /\ fetch' \in Requests /\ forgotten' \subseteq Accounts
    BY <1>16, EntryTypes, SettingsAssumption DEF Logout, Clear
  <2> QED BY <1>16, <2>1 DEF Logout, Owners
<1>17. CASE LearnAccount
  BY <1>17, ShowTypes DEF LearnAccount
<1>18. ASSUME NEW a \in setting.visitors, SignIn(a) PROVE Typed'
  BY <1>18, SettingsAssumption DEF SignIn, Owners
<1>19. CASE UNCHANGED vars
  BY <1>19 DEF vars
<1> QED
  BY <1>1, <1>2, <1>3, <1>4, <1>5, <1>6, <1>7, <1>8, <1>9, <1>10, <1>11, <1>12, <1>13,
     <1>14, <1>15, <1>16, <1>17, <1>18, <1>19
  DEF Next, Navigate, Follow, Reply, Save

(* The types hold of every behaviour of the console.                         *)
THEOREM TypedInvariant == Spec => []Typed
BY TypedInit, TypedStep, PTL DEF Spec

-----------------------------------------------------------------------------
(* Read your writes                                                         *)

(* What an entry and a request may hold once n writes are acted upon: the    *)
(* entry shown as valid, the answer under way, and the entry an abort of the *)
(* request would take back, all count them unless marked late.               *)
Fresh(c, f, n) ==
  /\ Has(c) /\ ~c.invalid /\ ~c.late => c.ver >= n
  /\ f.on /\ f.ver >= 0 /\ ~f.late => f.ver >= n
  /\ f.on /\ ~f.late /\ ~f.was /\ Has(c) /\ ~c.late => c.ver >= n

(* A mutation that was applied counts every write acted upon before it.      *)
FreshInv ==
  /\ Fresh(cache, fetch, acked)
  /\ acked <= writes
  /\ flight.stage = "applied" => acked <= flight.ver /\ flight.ver <= writes

(* Requests sent for a fresh entry, and entries taken back, are fresh.       *)
LEMMA FreshOperators ==
  ASSUME NEW c \in Entries, NEW f \in Requests, NEW n \in Nat, Fresh(c, f, n)
  PROVE  /\ Fresh(c, NoFetch, n)
         /\ Fresh(c, Join(c, f), n)
         /\ \A b \in BOOLEAN : Fresh(c, Asked(c, b), n)
         /\ f.on => Fresh(Reverted(c, f), NoFetch, n)
<1>1. \A b \in BOOLEAN : Fresh(c, Asked(c, b), n)
  BY DEF Fresh, Asked, Entries
<1>2. NoFetch.on = FALSE
  BY DEF NoFetch, Asked
<1>3. Fresh(c, NoFetch, n)
  BY <1>2 DEF Fresh
<1>4. Fresh(c, Join(c, f), n)
  BY <1>1 DEF Join
<1>5. ASSUME f.on PROVE Fresh(Reverted(c, f), NoFetch, n)
  <2>1. /\ Reverted(c, f).ver = c.ver
        /\ Reverted(c, f).invalid = f.was
        /\ Has(c) => Reverted(c, f).late = (c.late \/ f.late)
    BY DEF Reverted, Entries, Requests, Has
  <2> QED BY <1>2, <1>5, <2>1 DEF Fresh, Has, Entries, Requests
<1> QED
  BY <1>1, <1>3, <1>4, <1>5

(* Showing a page keeps what is fresh.                                       *)
LEMMA ShowFresh ==
  ASSUME NEW new, NEW account, NEW c0 \in Entries, NEW f0 \in Requests, NEW n \in Nat,
         Show(new, account, c0, f0), Fresh(c0, f0, n)
  PROVE  Fresh(cache', fetch', n)
<1> DEFINE before == Observed(page, tab)
           after == Observed(new, account)
           stays == before /\ after /\ (page = new \/ Kept(page, new))
           aborts == before /\ ~stays /\ f0.on
           c == IF aborts THEN Reverted(c0, f0) ELSE c0
           f == IF aborts THEN NoFetch ELSE f0
<1>1. c \in Entries /\ f \in Requests
  BY EntryTypes
<1>2. Fresh(c, f, n)
  <2>1. CASE aborts
    BY <2>1, FreshOperators
  <2>2. CASE ~aborts
    BY <2>2
  <2> QED BY <2>1, <2>2
<1>3. cache' = c /\ (fetch' = f \/ fetch' = Join(c, f))
  <2> HIDE DEF c, f
  <2> QED BY DEF Show, c, f
<1> HIDE DEF c, f
<1> QED
  BY <1>1, <1>2, <1>3, FreshOperators

(* A success acted upon leaves nothing older valid: what it answers for it   *)
(* marks, fills in or removes (RootsCover).                                  *)
LEMMA SuccessFresh == Typed /\ FreshInv /\ OnSuccess => FreshInv'
<1> SUFFICES ASSUME Typed, FreshInv, OnSuccess PROVE FreshInv'
  OBVIOUS
<1> DEFINE e == flight.effect
<1>1. PICK differed \in BOOLEAN :
        LET removed == differed /\ e.removes
            c == IF removed THEN NoEntry ELSE Invalidate(e, SetQueryData(e, cache))
            f == IF removed THEN NoFetch ELSE fetch
        IN /\ cache' = c
           /\ fetch' = IF Refetches(e, removed, c, f) THEN Asked(c, ~removed)
                       ELSE Overtake(e, c, f)
  BY DEF OnSuccess
<1> DEFINE removed == differed /\ e.removes
           set == SetQueryData(e, cache)
           c == IF removed THEN NoEntry ELSE Invalidate(e, set)
           f == IF removed THEN NoFetch ELSE fetch
<1>2. /\ flight.stage = "applied"
      /\ acked' = IF e.answers THEN flight.ver ELSE acked
      /\ writes' = writes
      /\ flight' = [NoFlight EXCEPT !.goes = flight.goes, !.stage = "settling"]
  BY DEF OnSuccess
<1>3. /\ acked \in Nat /\ flight.ver \in Nat /\ flight.owner \in Owners
      /\ cache \in Entries /\ fetch \in Requests
      /\ acked <= flight.ver /\ flight.ver <= writes
  BY <1>2 DEF Typed, FreshInv, Flights
<1>4. acked' \in Nat /\ acked <= acked' /\ acked' <= flight.ver
  BY <1>2, <1>3
<1>5. flight'.stage = "settling"
  BY <1>2, NoFlightType DEF Flights
<1>6. e \in Effects
  BY DEF Typed, Flights
<1>7. e.answers => e.sets \/ e.marks
  BY <1>6 DEF Effects
<1>8. set \in Entries /\ (e.sets => set.ver = flight.ver)
  <2>1. flight.ver \in Int
    BY <1>3
  <2>2. Entry(flight.ver, FALSE, flight.owner).ver = flight.ver
    BY DEF Entry
  <2> QED BY <1>3, <2>1, <2>2, EntryTypes DEF SetQueryData
<1>9. c \in Entries /\ f \in Requests
  <2>1. Invalidate(e, set) \in Entries
    <3> HIDE DEF set
    <3> QED BY <1>8 DEF Invalidate, Entries
  <2> QED BY <1>3, <2>1, EntryTypes
<1>10. Has(c) /\ ~c.invalid /\ ~c.late => c.ver >= acked'
  <2> SUFFICES ASSUME Has(c), ~c.invalid, ~c.late PROVE c.ver >= acked'
    OBVIOUS
  <2>1. ~removed
    BY DEF Has, NoEntry
  <2>2. c = Invalidate(e, set)
    BY <2>1
  <2>3. set # NoEntry
    <3> HIDE DEF set, c
    <3> QED BY <2>2 DEF Invalidate, Has, NoEntry
  <2>4. ~e.marks /\ c = set
    <3>1. [set EXCEPT !.invalid = TRUE].invalid = TRUE
      <4> HIDE DEF set
      <4> QED BY <1>8 DEF Entries
    <3> HIDE DEF set, c
    <3> QED BY <2>2, <2>3, <3>1 DEF Invalidate
  <2>5. CASE e.sets
    BY <1>3, <1>4, <1>8, <2>4, <2>5
  <2>6. CASE ~e.sets
    <3>1. set = cache
      BY <2>6 DEF SetQueryData
    <3>2. acked' = acked
      BY <1>2, <1>7, <2>4, <2>6
    <3> QED BY <2>4, <3>1, <3>2 DEF FreshInv, Fresh
  <2> QED BY <2>5, <2>6
<1>11. Fresh(c, NoFetch, acked')
  <2>1. NoFetch.on = FALSE
    BY DEF NoFetch, Asked
  <2> HIDE DEF c
  <2> QED BY <1>10, <2>1 DEF Fresh
<1>12. Fresh(cache', fetch', acked')
  <2>1. cache' = c
    BY <1>1
  <2>2. CASE fetch' = Asked(c, ~removed)
    <3>1. (~removed) \in BOOLEAN
      OBVIOUS
    <3> HIDE DEF c, removed
    <3> QED BY <1>4, <1>9, <1>11, <2>1, <2>2, <3>1, EntryTypes, FreshOperators
  <2>3. CASE fetch' = Overtake(e, c, f)
    <3>1. ~fetch'.on \/ fetch'.late
      <4> HIDE DEF c, f, e
      <4> QED BY <1>9, <2>3 DEF Overtake, Requests
    <3> HIDE DEF c
    <3> QED BY <1>10, <2>1, <3>1 DEF Fresh
  <2> QED BY <1>1, <2>2, <2>3
<1> QED
  BY <1>3, <1>4, <1>2, <1>5, <1>12 DEF FreshInv, Typed

(* Nothing is acted upon yet.                                                *)
LEMMA FreshInit == Init => FreshInv
<1>1. Init => ~Has(cache) /\ ~fetch.on /\ flight.stage = "idle"
  BY NoFlightType DEF Init, NoEntry, NoFetch, Asked, Has
<1> QED
  BY <1>1 DEF Init, FreshInv, Fresh

(* Every step keeps entries and requests fresh.                              *)
LEMMA FreshStep == Typed /\ FreshInv /\ [Next]_vars => FreshInv'
<1> SUFFICES ASSUME Typed, FreshInv, [Next]_vars PROVE FreshInv'
  OBVIOUS
<1>0. /\ acked \in Nat /\ writes \in Nat /\ cache \in Entries /\ fetch \in Requests
      /\ flight \in Flights /\ flight.ver \in Nat
      /\ Fresh(cache, fetch, acked) /\ acked <= writes
  BY DEF Typed, FreshInv, Flights
(* Most steps change neither the writes nor the mutation.                    *)
<1> DEFINE Else == UNCHANGED <<writes, flight, acked>>
<1>a. ASSUME Else, Fresh(cache', fetch', acked) PROVE FreshInv'
  BY <1>a DEF FreshInv
<1>b. ASSUME UNCHANGED <<writes, acked, cache, fetch>>, flight'.stage # "applied"
      PROVE  FreshInv'
  BY <1>b DEF FreshInv
<1>c. ASSUME cache' = NoEntry, fetch' = NoFetch PROVE Fresh(cache', fetch', acked)
  BY <1>c DEF Fresh, NoEntry, NoFetch, Asked, Has
<1>1. ASSUME NEW to, NEW refusals, Enter(to, refusals) PROVE FreshInv'
  <2>1. Else
    BY <1>1 DEF Enter
  <2>2. CASE RequireUser
    BY <1>0, <1>a, <2>1, <2>2, ShowFresh DEF RequireUser
  <2>3. ASSUME NEW who, RequirePermissions(who, to, refusals) PROVE FreshInv'
    BY <1>0, <1>a, <2>1, <2>3 DEF RequirePermissions
  <2>4. ASSUME NEW who, LoadResource(who, to, refusals) PROVE FreshInv'
    <3>1. CASE MustLoad(to)
      BY <1>0, <1>a, <2>1, <2>4, <3>1, FreshOperators DEF LoadResource
    <3>2. CASE ~MustLoad(to)
      BY <1>0, <1>a, <2>1, <2>4, <3>2, ShowFresh DEF LoadResource
    <3> QED BY <3>1, <3>2
  <2> QED
    BY <1>1, <2>2, <2>3, <2>4 DEF Enter
<1>2. ASSUME NEW to, Preload(to) PROVE FreshInv'
  BY <1>0, <1>2, <1>a, FreshOperators DEF Preload
<1>3. CASE Answer
  <2>1. fetch' = [fetch EXCEPT !.ver = writes, !.owner = server]
    BY <1>3 DEF Answer
  <2>2. /\ fetch'.ver = writes /\ fetch'.on = fetch.on
        /\ fetch'.late = fetch.late /\ fetch'.was = fetch.was
    BY <1>0, <2>1 DEF Requests
  <2>3. cache' = cache /\ Else
    BY <1>3 DEF Answer
  <2>4. Fresh(cache', fetch', acked)
    BY <1>0, <2>2, <2>3 DEF Fresh
  <2> QED BY <1>a, <2>3, <2>4
<1>4. CASE Receive
  <2> DEFINE c == Entry(fetch.ver, fetch.late, fetch.owner)
  <2>1. c \in Entries /\ Else
    BY <1>0, <1>4, EntryTypes DEF Receive, Requests
  <2>2. Fresh(c, NoFetch, acked)
    BY <1>0, <1>4 DEF Receive, Fresh, Entry, NoFetch, Asked, Has
  <2>3. CASE Show(going.to, tab, c, NoFetch)
    BY <1>0, <1>a, <2>1, <2>2, <2>3, EntryTypes, ShowFresh
  <2>4. CASE cache' = c /\ fetch' = NoFetch
    BY <1>a, <2>1, <2>2, <2>4
  <2> QED BY <1>4, <2>3, <2>4 DEF Receive
<1>5. CASE FetchFails
  <2>1. cache'.invalid = TRUE /\ fetch' = NoFetch /\ Else
    BY <1>0, <1>5 DEF FetchFails, Entries
  <2>2. NoFetch.on = FALSE
    BY DEF NoFetch, Asked
  <2>3. Fresh(cache', fetch', acked)
    BY <2>1, <2>2 DEF Fresh
  <2> QED BY <1>a, <2>1, <2>3
<1>6. CASE Refetch
  BY <1>0, <1>6, <1>a, FreshOperators DEF Refetch
<1>7. CASE Collect
  <2>1. cache' = NoEntry /\ fetch' = fetch /\ ~fetch.on /\ Else
    BY <1>7 DEF Collect
  <2>2. Fresh(cache', fetch', acked)
    BY <2>1 DEF Fresh, NoEntry, Has
  <2> QED BY <1>a, <2>1, <2>2
<1>8. CASE Submits
  <2>1. PICK o \in setting.offers : Submit(o)
    BY <1>8 DEF Submits
  <2>2. flight'.stage = "sent"
    BY <2>1, NoFlightType DEF Submit, Flights
  <2> QED BY <1>b, <2>1, <2>2 DEF Submit
<1>9. CASE Apply
  <2>1. writes' \in Nat /\ writes <= writes' /\ UNCHANGED <<cache, fetch, acked>>
    BY <1>0, <1>9 DEF Apply
  <2>2. flight' = [flight EXCEPT !.stage = "applied", !.ver = writes', !.owner = server]
    BY <1>9 DEF Apply
  <2>3. flight'.ver = writes'
    BY <1>0, <2>2 DEF Flights
  <2> QED BY <1>0, <2>1, <2>3 DEF FreshInv
<1>10. CASE MutationFails
  BY <1>10, <1>b, NoFlightType DEF MutationFails
<1>11. CASE OnSuccess
  BY <1>11, SuccessFresh
<1>12. CASE Finish
  BY <1>12, <1>b, NoFlightType DEF Finish
<1>13. CASE OthersWrite
  BY <1>0, <1>13 DEF OthersWrite, FreshInv
<1>14. CASE SessionEnds
  BY <1>0, <1>14, <1>a DEF SessionEnds
<1>15. CASE ExpireSession
  <2>1. Fresh(cache', fetch', acked) /\ UNCHANGED <<writes, acked>>
    BY <1>15, <1>c DEF ExpireSession, Clear
  <2>2. flight' = flight \/ flight'.stage = "idle"
    BY <1>15, NoFlightType DEF ExpireSession
  <2> QED BY <2>1, <2>2 DEF FreshInv
<1>16. CASE Logout
  BY <1>16, <1>a, <1>c DEF Logout, Clear
<1>17. CASE LearnAccount
  BY <1>0, <1>17, <1>a, ShowFresh DEF LearnAccount
<1>18. ASSUME NEW a \in setting.visitors, SignIn(a) PROVE FreshInv'
  BY <1>0, <1>18, <1>a DEF SignIn
<1>19. CASE UNCHANGED vars
  BY <1>0, <1>19, <1>a DEF vars
<1> QED
  BY <1>1, <1>2, <1>3, <1>4, <1>5, <1>6, <1>7, <1>8, <1>9, <1>10, <1>11, <1>12, <1>13,
     <1>14, <1>15, <1>16, <1>17, <1>18, <1>19
  DEF Next, Navigate, Follow, Reply, Save

(* Once the console has acted upon a success, it shows no older answer as    *)
(* valid, but one asked for before and not called back.                      *)
THEOREM ReadsYourWrites == Spec => []ReadYourWrites
<1>1. Typed /\ FreshInv => ReadYourWrites
  BY DEF FreshInv, Fresh, ReadYourWrites
<1> QED
  BY <1>1, TypedInvariant, FreshInit, FreshStep, PTL DEF Spec

-----------------------------------------------------------------------------
(* Every variable is of its type                                            *)

(* Nothing is counted that was not written: the entry and the request hold   *)
(* answers of at most n writes.                                              *)
Counted(c, f, n) == c.ver \in -1..n /\ f.ver \in -1..n

(* Navigations are in one of three stages, on behalf of an account or none.  *)
NavigationInv == tab \in Owners /\ going.stage \in {"idle", "guards", "loading"}

CountedInv ==
  /\ writes <= MaxWrites
  /\ Counted(cache, fetch, writes)
  /\ flight.ver <= writes

(* What is asked for anew or taken back counts no more than before.          *)
LEMMA CountedOperators ==
  ASSUME NEW c \in Entries, NEW f \in Requests, NEW n \in Nat, Counted(c, f, n)
  PROVE  /\ Counted(c, NoFetch, n) /\ Counted(NoEntry, f, n) /\ Counted(NoEntry, NoFetch, n)
         /\ Counted(c, Join(c, f), n)
         /\ \A b : Counted(c, Asked(c, b), n)
         /\ Counted(Reverted(c, f), NoFetch, n)
<1>1. \A b : Asked(c, b).ver = -1
  BY DEF Asked
<1>2. NoFetch.ver = -1 /\ NoEntry.ver = -1
  BY DEF NoFetch, Asked, NoEntry
<1>3. Reverted(c, f).ver = c.ver
  BY DEF Reverted, Entries
<1>4. Join(c, f).ver \in {f.ver, -1}
  BY <1>1 DEF Join
<1> QED
  BY <1>1, <1>2, <1>3, <1>4 DEF Counted

(* Showing a page counts no more than before.                                *)
LEMMA ShowCounted ==
  ASSUME NEW new, NEW account, NEW c0 \in Entries, NEW f0 \in Requests, NEW n \in Nat,
         Show(new, account, c0, f0), Counted(c0, f0, n)
  PROVE  Counted(cache', fetch', n)
<1> DEFINE before == Observed(page, tab)
           after == Observed(new, account)
           stays == before /\ after /\ (page = new \/ Kept(page, new))
           aborts == before /\ ~stays /\ f0.on
           c == IF aborts THEN Reverted(c0, f0) ELSE c0
           f == IF aborts THEN NoFetch ELSE f0
<1>1. c \in Entries /\ f \in Requests
  BY EntryTypes
<1>2. Counted(c, f, n)
  <2>1. CASE aborts
    BY <2>1, CountedOperators
  <2>2. CASE ~aborts
    BY <2>2
  <2> QED BY <2>1, <2>2
<1>3. cache' = c /\ (fetch' = f \/ fetch' = Join(c, f))
  <2> HIDE DEF c, f
  <2> QED BY DEF Show, c, f
<1> HIDE DEF c, f
<1> QED
  BY <1>1, <1>2, <1>3, CountedOperators

(* The browser opens an address for nobody known yet.                        *)
LEMMA NavigationInit == Init => NavigationInv
BY DEF Init, NavigationInv, Owners, Toward

(* Every step keeps a navigation in a stage it can leave.                    *)
LEMMA NavigationStep == Typed /\ NavigationInv /\ [Next]_vars => NavigationInv'
<1> SUFFICES ASSUME Typed, NavigationInv, [Next]_vars PROVE NavigationInv'
  OBVIOUS
<1>0. server \in Owners /\ server' \in Owners
  BY TypedStep DEF Typed
<1>g. \A to, refusals : Toward(to, refusals).stage = "guards"
  BY DEF Toward
<1>n. Nowhere.stage = "idle"
  BY DEF Nowhere
<1>a. ASSUME UNCHANGED <<tab, going>> PROVE NavigationInv'
  BY <1>a DEF NavigationInv
<1>c. ASSUME Clear PROVE NavigationInv'
  BY <1>c, <1>n DEF Clear, NavigationInv, Owners
<1>1. ASSUME NEW to, NEW refusals, Enter(to, refusals) PROVE NavigationInv'
  <2>1. CASE RequireUser
    BY <1>n, <2>1 DEF RequireUser, NavigationInv
  <2>2. ASSUME NEW who \in {tab, server}, RequirePermissions(who, to, refusals)
        PROVE  NavigationInv'
    BY <1>0, <1>g, <2>2 DEF RequirePermissions, NavigationInv
  <2>3. ASSUME NEW who \in {tab, server}, LoadResource(who, to, refusals)
        PROVE  NavigationInv'
    <3>1. [Toward(to, refusals) EXCEPT !.stage = "loading"].stage = "loading"
      BY DEF Toward
    <3>2. going'.stage \in {"idle", "loading"}
      BY <1>n, <2>3, <3>1 DEF LoadResource
    <3> QED BY <1>0, <2>3, <3>2 DEF LoadResource, NavigationInv
  <2> QED
    BY <1>1, <2>1, <2>2, <2>3 DEF Enter
<1>2. ASSUME NEW to, Preload(to) PROVE NavigationInv'
  BY <1>2, <1>a DEF Preload, ends
<1>3. CASE Answer
  BY <1>3, <1>a DEF Answer, ends
<1>4. CASE Receive
  BY <1>4, <1>n DEF Receive, ends, NavigationInv
<1>5. CASE FetchFails
  BY <1>5, <1>n DEF FetchFails, ends, NavigationInv
<1>6. CASE Refetch
  BY <1>6, <1>a DEF Refetch, ends
<1>7. CASE Collect
  BY <1>7, <1>a DEF Collect, ends
<1>8. CASE Submits
  BY <1>8, <1>a DEF Submits, Submit, ends
<1>9. CASE Apply
  BY <1>9, <1>a DEF Apply, ends
<1>10. CASE MutationFails
  BY <1>10, <1>a DEF MutationFails, ends
<1>11. CASE OnSuccess
  BY <1>11, <1>a DEF OnSuccess, ends
<1>12. CASE Finish
  BY <1>12, <1>g DEF Finish, ends, NavigationInv
<1>13. CASE OthersWrite
  BY <1>13, <1>a DEF OthersWrite, ends
<1>14. CASE SessionEnds
  BY <1>14, <1>a DEF SessionEnds
<1>15. CASE ExpireSession
  BY <1>15, <1>c DEF ExpireSession
<1>16. CASE Logout
  BY <1>16, <1>c DEF Logout
<1>17. CASE LearnAccount
  BY <1>0, <1>17 DEF LearnAccount, NavigationInv
<1>18. ASSUME NEW a \in setting.visitors, SignIn(a) PROVE NavigationInv'
  <2>1. tab' \in Owners
    BY <1>0, <1>18 DEF SignIn, NavigationInv
  <2> QED BY <1>18, <1>g, <2>1 DEF SignIn, NavigationInv
<1>19. CASE UNCHANGED vars
  BY <1>19, <1>a DEF vars
<1> QED
  BY <1>1, <1>2, <1>3, <1>4, <1>5, <1>6, <1>7, <1>8, <1>9, <1>10, <1>11, <1>12, <1>13,
     <1>14, <1>15, <1>16, <1>17, <1>18, <1>19
  DEF Next, Navigate, Follow, Reply, Save

(* Nothing is counted yet.                                                   *)
LEMMA CountedInit == Init => CountedInv
<1>1. NoFetch.ver = -1 /\ NoEntry.ver = -1 /\ NoFlight.ver = 0
  BY DEF NoFetch, Asked, NoEntry, NoFlight
<1> QED
  BY <1>1, ConsoleAssumption DEF Init, CountedInv, Counted

(* Every step counts what is written and no more.                            *)
LEMMA CountedStep == Typed /\ CountedInv /\ [Next]_vars => CountedInv'
<1> SUFFICES ASSUME Typed, CountedInv, [Next]_vars PROVE CountedInv'
  OBVIOUS
<1>0. /\ writes \in Nat /\ cache \in Entries /\ fetch \in Requests
      /\ flight \in Flights /\ flight.ver \in Nat /\ MaxWrites \in Nat
      /\ Counted(cache, fetch, writes) /\ flight.ver <= writes /\ writes <= MaxWrites
  BY ConsoleAssumption DEF Typed, CountedInv, Flights
<1>f. NoFlight.ver = 0
  BY DEF NoFlight
<1> DEFINE Else == UNCHANGED <<writes, flight>>
<1>a. ASSUME Else, Counted(cache', fetch', writes) PROVE CountedInv'
  BY <1>a DEF CountedInv
<1>b. ASSUME UNCHANGED <<writes, cache, fetch>>, flight'.ver \in {0, flight.ver}
      PROVE  CountedInv'
  BY <1>0, <1>b DEF CountedInv
<1>1. ASSUME NEW to, NEW refusals, Enter(to, refusals) PROVE CountedInv'
  <2>1. Else
    BY <1>1 DEF Enter
  <2>2. CASE RequireUser
    BY <1>0, <1>a, <2>1, <2>2, ShowCounted DEF RequireUser
  <2>3. ASSUME NEW who, RequirePermissions(who, to, refusals) PROVE CountedInv'
    BY <1>0, <1>a, <2>1, <2>3 DEF RequirePermissions
  <2>4. ASSUME NEW who, LoadResource(who, to, refusals) PROVE CountedInv'
    <3>1. CASE MustLoad(to)
      BY <1>0, <1>a, <2>1, <2>4, <3>1, CountedOperators DEF LoadResource
    <3>2. CASE ~MustLoad(to)
      BY <1>0, <1>a, <2>1, <2>4, <3>2, ShowCounted DEF LoadResource
    <3> QED BY <3>1, <3>2
  <2> QED
    BY <1>1, <2>2, <2>3, <2>4 DEF Enter
<1>2. ASSUME NEW to, Preload(to) PROVE CountedInv'
  BY <1>0, <1>2, <1>a, CountedOperators DEF Preload
<1>3. CASE Answer
  <2>1. fetch' = [fetch EXCEPT !.ver = writes, !.owner = server]
    BY <1>3 DEF Answer
  <2>2. fetch'.ver = writes
    BY <1>0, <2>1 DEF Requests
  <2>3. Counted(cache', fetch', writes)
    BY <1>0, <1>3, <2>2 DEF Answer, Counted
  <2> QED BY <1>3, <1>a, <2>3 DEF Answer
<1>4. CASE Receive
  <2> DEFINE c == Entry(fetch.ver, fetch.late, fetch.owner)
  <2>1. c \in Entries /\ Else
    BY <1>0, <1>4, EntryTypes DEF Receive, Requests
  <2>2. Counted(c, fetch, writes)
    BY <1>0 DEF Counted, Entry
  <2> HIDE DEF c
  <2>3. Counted(c, NoFetch, writes)
    BY <1>0, <2>1, <2>2, CountedOperators
  <2>4. CASE Show(going.to, tab, c, NoFetch)
    BY <1>0, <1>a, <2>1, <2>3, <2>4, EntryTypes, ShowCounted
  <2>5. CASE cache' = c /\ fetch' = NoFetch
    BY <1>a, <2>1, <2>3, <2>5
  <2> QED BY <1>4, <2>4, <2>5 DEF Receive, c
<1>5. CASE FetchFails
  <2>1. cache'.ver = cache.ver /\ fetch' = NoFetch /\ Else
    BY <1>0, <1>5 DEF FetchFails, Entries
  <2>2. Counted(cache, NoFetch, writes)
    BY <1>0, CountedOperators
  <2> QED BY <1>a, <2>1, <2>2 DEF Counted
<1>6. CASE Refetch
  BY <1>0, <1>6, <1>a, CountedOperators DEF Refetch
<1>7. CASE Collect
  BY <1>0, <1>7, <1>a, CountedOperators DEF Collect
<1>8. CASE Submits
  <2>1. PICK o \in setting.offers : Submit(o)
    BY <1>8 DEF Submits
  <2>2. flight'.ver = 0
    BY <2>1 DEF Submit, NoFlight
  <2> QED BY <1>b, <2>1, <2>2 DEF Submit
<1>9. CASE Apply
  <2>1. /\ writes' \in Nat /\ writes <= writes' /\ writes' <= MaxWrites
        /\ UNCHANGED <<cache, fetch>>
    BY <1>0, <1>9 DEF Apply
  <2>2. flight' = [flight EXCEPT !.stage = "applied", !.ver = writes', !.owner = server]
    BY <1>9 DEF Apply
  <2>3. flight'.ver = writes'
    BY <1>0, <2>2 DEF Flights
  <2>4. Counted(cache, fetch, writes')
    BY <1>0, <2>1 DEF Counted
  <2> QED BY <1>0, <2>1, <2>3, <2>4 DEF CountedInv
<1>10. CASE MutationFails
  BY <1>10, <1>b, <1>f DEF MutationFails
<1>11. CASE OnSuccess
  <2> DEFINE e == flight.effect
  <2>1. PICK differed \in BOOLEAN :
          LET removed == differed /\ e.removes
              c == IF removed THEN NoEntry ELSE Invalidate(e, SetQueryData(e, cache))
              f == IF removed THEN NoFetch ELSE fetch
          IN /\ cache' = c
             /\ fetch' = IF Refetches(e, removed, c, f) THEN Asked(c, ~removed)
                         ELSE Overtake(e, c, f)
    BY <1>11 DEF OnSuccess
  <2> DEFINE removed == differed /\ e.removes
             set == SetQueryData(e, cache)
             c == IF removed THEN NoEntry ELSE Invalidate(e, set)
             f == IF removed THEN NoFetch ELSE fetch
  <2>2. set \in Entries /\ set.ver \in -1..writes
    <3>1. flight.ver \in Int /\ flight.owner \in Owners
      BY <1>0 DEF Flights
    <3>2. Entry(flight.ver, FALSE, flight.owner).ver = flight.ver
      BY DEF Entry
    <3>3. cache.ver \in -1..writes /\ flight.ver \in -1..writes
      BY <1>0 DEF Counted
    <3>4. Entry(flight.ver, FALSE, flight.owner) \in Entries
      BY <3>1, EntryTypes
    <3> QED BY <1>0, <3>2, <3>3, <3>4, Zenon DEF SetQueryData
  <2>3. Invalidate(e, set) \in Entries /\ Invalidate(e, set).ver = set.ver
    <3> HIDE DEF set
    <3> QED BY <2>2 DEF Invalidate, Entries
  <2>4. c \in Entries /\ f \in Requests /\ Counted(c, f, writes)
    <3>1. CASE removed
      BY <1>0, <3>1, EntryTypes, CountedOperators
    <3>2. CASE ~removed
      <4> HIDE DEF set
      <4> QED BY <1>0, <2>2, <2>3, <3>2 DEF Counted
    <3> QED BY <3>1, <3>2
  <2>5. Counted(c, Overtake(e, c, f), writes)
    <3> HIDE DEF c, f
    <3>1. Overtake(e, c, f).ver = f.ver
      BY <2>4 DEF Overtake, Requests
    <3> QED BY <2>4, <3>1 DEF Counted
  <2>6. Counted(cache', fetch', writes)
    <3>1. cache' = c /\ (fetch' = Asked(c, ~removed) \/ fetch' = Overtake(e, c, f))
      BY <2>1
    <3> HIDE DEF c, f
    <3> QED BY <1>0, <2>4, <2>5, <3>1, CountedOperators
  <2>7. flight'.ver = 0 /\ writes' = writes
    BY <1>11 DEF OnSuccess, NoFlight
  <2> QED BY <1>0, <2>6, <2>7 DEF CountedInv
<1>12. CASE Finish
  BY <1>12, <1>b, <1>f DEF Finish
<1>13. CASE OthersWrite
  BY <1>0, <1>13 DEF OthersWrite, CountedInv, Counted
<1>14. CASE SessionEnds
  BY <1>0, <1>14, <1>a DEF SessionEnds
<1>15. CASE ExpireSession
  <2>1. Counted(cache', fetch', writes) /\ writes' = writes
    BY <1>0, <1>15, CountedOperators DEF ExpireSession, Clear
  <2> QED BY <1>0, <1>15, <1>f, <2>1 DEF ExpireSession, CountedInv
<1>16. CASE Logout
  BY <1>0, <1>16, <1>a, CountedOperators DEF Logout, Clear
<1>17. CASE LearnAccount
  BY <1>0, <1>17, <1>a, ShowCounted DEF LearnAccount
<1>18. ASSUME NEW a \in setting.visitors, SignIn(a) PROVE CountedInv'
  BY <1>0, <1>18, <1>a DEF SignIn
<1>19. CASE UNCHANGED vars
  BY <1>0, <1>19, <1>a DEF vars
<1> QED
  BY <1>1, <1>2, <1>3, <1>4, <1>5, <1>6, <1>7, <1>8, <1>9, <1>10, <1>11, <1>12, <1>13,
     <1>14, <1>15, <1>16, <1>17, <1>18, <1>19
  DEF Next, Navigate, Follow, Reply, Save

(* Every variable of the console is of its type: no navigation, request or   *)
(* mutation is ever in a stage it has no way out of, and no answer, mutation *)
(* or success counts more writes than the server has applied.                *)
THEOREM ConsoleTypeCorrect == Spec => []TypeOK
<1>1. Typed /\ FreshInv /\ NavigationInv /\ CountedInv => TypeOK
  <2> SUFFICES ASSUME Typed, FreshInv, NavigationInv, CountedInv PROVE TypeOK
    OBVIOUS
  <2>1. cache.invalid \in BOOLEAN /\ cache.late \in BOOLEAN
    BY DEF Typed, Entries
  <2>2. fetch.on \in BOOLEAN /\ fetch.late \in BOOLEAN
    BY DEF Typed, Requests
  <2>3. flight.stage \in {"idle", "sent", "applied", "settling"} /\ flight.ver \in Nat
    BY DEF Typed, Flights
  <2>4. writes \in 0..MaxWrites /\ acked \in 0..writes /\ flight.ver \in 0..writes
    BY <2>3, ConsoleAssumption DEF Typed, FreshInv, CountedInv
  <2> QED
    BY <2>1, <2>2, <2>3, <2>4 DEF TypeOK, Typed, NavigationInv, CountedInv, Counted, Owners
<1> QED
  BY <1>1, TypedInvariant, FreshInit, FreshStep, NavigationInit, NavigationStep,
     CountedInit, CountedStep, PTL DEF Spec

-----------------------------------------------------------------------------
(* A sign-out forgets                                                       *)

(* Nobody who was signed out by clearing is signed in.                       *)
ForgetInv == LogoutForgets /\ server \notin forgotten /\ NoOne \notin forgotten

(* The owners of what is asked for anew, taken back and shown.               *)
LEMMA OwnerOperators ==
  /\ NoEntry.owner = NoOne /\ NoFetch.owner = NoOne
  /\ \A v, l, o : Entry(v, l, o).owner = o
  /\ \A c, b : Asked(c, b).owner = NoOne
  /\ \A c, f : Join(c, f).owner \in {f.owner, NoOne}
  /\ \A c \in Entries, f \in Requests : Reverted(c, f).owner = c.owner
<1>1. \A c, b : Asked(c, b).owner = NoOne
  BY DEF Asked
<1>2. NoFetch.owner = NoOne
  BY DEF NoFetch, Asked
<1>3. \A c, f : Join(c, f).owner \in {f.owner, NoOne}
  BY <1>1 DEF Join
<1>4. \A c \in Entries, f \in Requests : Reverted(c, f).owner = c.owner
  BY DEF Reverted, Entries
<1> QED
  BY <1>1, <1>2, <1>3, <1>4 DEF NoEntry, Entry

(* Showing a page brings nobody back.                                        *)
LEMMA ShowOwners ==
  ASSUME NEW new, NEW account, NEW c0 \in Entries, NEW f0 \in Requests,
         Show(new, account, c0, f0)
  PROVE  cache'.owner = c0.owner /\ fetch'.owner \in {f0.owner, NoOne}
<1> DEFINE before == Observed(page, tab)
           after == Observed(new, account)
           stays == before /\ after /\ (page = new \/ Kept(page, new))
           aborts == before /\ ~stays /\ f0.on
           c == IF aborts THEN Reverted(c0, f0) ELSE c0
           f == IF aborts THEN NoFetch ELSE f0
<1>1. c.owner = c0.owner /\ f.owner \in {f0.owner, NoOne}
  BY OwnerOperators
<1>2. cache' = c /\ (fetch' = f \/ fetch' = Join(c, f))
  <2> HIDE DEF c, f
  <2> QED BY DEF Show, c, f
<1> HIDE DEF c, f
<1> QED
  BY <1>1, <1>2, OwnerOperators

(* Nobody was signed out yet.                                                *)
LEMMA ForgetInit == Init => ForgetInv
<1>1. Init => forgotten = {}
  BY DEF Init
<1> QED
  BY <1>1 DEF ForgetInv, LogoutForgets

(* Every step keeps the forgotten forgotten.                                 *)
LEMMA ForgetStep == Typed /\ ForgetInv /\ [Next]_vars => ForgetInv'
<1> SUFFICES ASSUME Typed, ForgetInv, [Next]_vars PROVE ForgetInv'
  OBVIOUS
<1>0. /\ cache \in Entries /\ fetch \in Requests
      /\ fetch.owner \notin forgotten /\ server \notin forgotten /\ NoOne \notin forgotten
      /\ Filled \/ cache.owner \notin forgotten
  BY DEF Typed, ForgetInv, LogoutForgets
(* Most steps keep the owners of the entry and the request, or take one of   *)
(* them from the other.                                                      *)
<1> DEFINE Else == UNCHANGED <<setting, server, forgotten>>
<1>a. ASSUME Else, fetch'.owner \in {fetch.owner, server, NoOne},
             Filled \/ cache'.owner \in {cache.owner, fetch.owner, NoOne}
      PROVE  ForgetInv'
  BY <1>0, <1>a DEF ForgetInv, LogoutForgets, Filled
<1>b. ASSUME Clear, server' = NoOne PROVE ForgetInv'
  <2>1. NoOne \notin forgotten'
    BY <1>b, ConsoleAssumption, SettingsAssumption DEF Clear, Typed
  <2> QED BY <1>b, <2>1, OwnerOperators DEF Clear, ForgetInv, LogoutForgets
<1>1. ASSUME NEW to, NEW refusals, Enter(to, refusals) PROVE ForgetInv'
  <2>1. Else
    BY <1>1 DEF Enter
  <2>2. CASE RequireUser
    BY <1>0, <1>a, <2>1, <2>2, ShowOwners DEF RequireUser
  <2>3. ASSUME NEW who, RequirePermissions(who, to, refusals) PROVE ForgetInv'
    BY <1>0, <1>a, <2>1, <2>3 DEF RequirePermissions
  <2>4. ASSUME NEW who, LoadResource(who, to, refusals) PROVE ForgetInv'
    <3>1. CASE MustLoad(to)
      BY <1>0, <1>a, <2>1, <2>4, <3>1, OwnerOperators DEF LoadResource
    <3>2. CASE ~MustLoad(to)
      BY <1>0, <1>a, <2>1, <2>4, <3>2, ShowOwners DEF LoadResource
    <3> QED BY <3>1, <3>2
  <2> QED
    BY <1>1, <2>2, <2>3, <2>4 DEF Enter
<1>2. ASSUME NEW to, Preload(to) PROVE ForgetInv'
  <2>1. fetch'.owner = NoOne
    BY <1>2 DEF Preload, Asked
  <2> QED BY <1>2, <1>a, <2>1 DEF Preload, ends
<1>3. CASE Answer
  <2>1. fetch' = [fetch EXCEPT !.ver = writes, !.owner = server]
    BY <1>3 DEF Answer
  <2>2. fetch'.owner = server
    BY <1>0, <2>1 DEF Requests
  <2> QED BY <1>3, <1>a, <2>2 DEF Answer, ends
<1>4. CASE Receive
  <2> DEFINE c == Entry(fetch.ver, fetch.late, fetch.owner)
  <2>1. c \in Entries /\ Else
    BY <1>0, <1>4, EntryTypes DEF Receive, Requests, ends
  <2>0. c.owner = fetch.owner
    BY DEF Entry
  <2> HIDE DEF c
  <2>2. CASE Show(going.to, tab, c, NoFetch)
    <3>1. cache'.owner = c.owner /\ fetch'.owner \in {NoFetch.owner, NoOne}
      BY <2>1, <2>2, EntryTypes, ShowOwners
    <3> QED BY <1>a, <2>0, <2>1, <3>1, OwnerOperators
  <2>3. CASE cache' = c /\ fetch' = NoFetch
    BY <1>a, <2>0, <2>1, <2>3, OwnerOperators
  <2> QED BY <1>4, <2>2, <2>3 DEF Receive, c
<1>5. CASE FetchFails
  <2>1. cache'.owner = cache.owner
    BY <1>0, <1>5 DEF FetchFails, Entries
  <2> QED BY <1>5, <1>a, <2>1, OwnerOperators DEF FetchFails, ends
<1>6. CASE Refetch
  <2>1. fetch'.owner = NoOne
    BY <1>6 DEF Refetch, Asked
  <2> QED BY <1>6, <1>a, <2>1 DEF Refetch, ends
<1>7. CASE Collect
  BY <1>7, <1>a, OwnerOperators DEF Collect, ends
<1>8. CASE Submits
  BY <1>8, <1>a DEF Submits, Submit, ends
<1>9. CASE Apply
  BY <1>9, <1>a DEF Apply, ends
<1>10. CASE MutationFails
  BY <1>10, <1>a DEF MutationFails, ends
<1>11. CASE OnSuccess
  <2> DEFINE e == flight.effect
  <2>1. PICK differed \in BOOLEAN :
          LET removed == differed /\ e.removes
              c == IF removed THEN NoEntry ELSE Invalidate(e, SetQueryData(e, cache))
              f == IF removed THEN NoFetch ELSE fetch
          IN /\ cache' = c
             /\ fetch' = IF Refetches(e, removed, c, f) THEN Asked(c, ~removed)
                         ELSE Overtake(e, c, f)
    BY <1>11 DEF OnSuccess
  <2> DEFINE removed == differed /\ e.removes
             set == SetQueryData(e, cache)
             c == IF removed THEN NoEntry ELSE Invalidate(e, set)
             f == IF removed THEN NoFetch ELSE fetch
  <2>2. Else /\ flight.stage = "applied"
    BY <1>11 DEF OnSuccess, ends
  <2>3. set \in Entries
    <3>1. flight \in Flights
      BY DEF Typed
    <3>2. flight.ver \in Nat /\ flight.owner \in Owners
      BY <3>1 DEF Flights
    <3>3. flight.ver \in Int
      BY <3>2
    <3> QED BY <1>0, <3>2, <3>3, EntryTypes DEF SetQueryData
  <2>4. Filled \/ set = cache
    <3>1. PICK o \in setting.offers : flight.effect = o.effect
      BY <2>2 DEF Typed
    <3> QED BY <3>1 DEF SetQueryData, Filled
  <2>5. c.owner \in {set.owner, NoOne}
    <3>1. Invalidate(e, set).owner = set.owner
      <4> HIDE DEF set
      <4> QED BY <2>3 DEF Invalidate, Entries
    <3> QED BY <3>1, OwnerOperators
  <2>6. f \in Requests /\ f.owner \in {fetch.owner, NoOne}
    BY <1>0, EntryTypes, OwnerOperators
  <2>7. Overtake(e, c, f).owner = f.owner
    <3> HIDE DEF c, f
    <3> QED BY <2>6 DEF Overtake, Requests
  <2>8. cache' = c /\ (fetch' = Asked(c, ~removed) \/ fetch' = Overtake(e, c, f))
    BY <2>1
  <2> HIDE DEF e, set, c, f
  <2> QED BY <1>a, <2>2, <2>4, <2>5, <2>6, <2>7, <2>8, OwnerOperators
<1>12. CASE Finish
  BY <1>12, <1>a DEF Finish, ends
<1>13. CASE OthersWrite
  BY <1>13, <1>a DEF OthersWrite, ends
<1>14. CASE SessionEnds
  BY <1>0, <1>14 DEF SessionEnds, ForgetInv, LogoutForgets, Filled
<1>15. CASE ExpireSession
  BY <1>15, <1>b DEF ExpireSession
<1>16. CASE Logout
  BY <1>16, <1>b DEF Logout
<1>17. CASE LearnAccount
  BY <1>0, <1>17, <1>a, ShowOwners DEF LearnAccount
<1>18. ASSUME NEW a \in setting.visitors, SignIn(a) PROVE ForgetInv'
  BY <1>0, <1>18, SettingsAssumption DEF SignIn, ForgetInv, LogoutForgets, Filled, Typed
<1>19. CASE UNCHANGED vars
  BY <1>19, <1>a DEF vars
<1> QED
  BY <1>1, <1>2, <1>3, <1>4, <1>5, <1>6, <1>7, <1>8, <1>9, <1>10, <1>11, <1>12, <1>13,
     <1>14, <1>15, <1>16, <1>17, <1>18, <1>19
  DEF Next, Navigate, Follow, Reply, Save

(* What was answered for an account that was signed out is neither in the    *)
(* cache nor under way until it signs in again, records a success filled in  *)
(* aside.                                                                    *)
THEOREM SignOutForgets == Spec => []LogoutForgets
<1>1. ForgetInv => LogoutForgets
  BY DEF ForgetInv
<1> QED
  BY <1>1, TypedInvariant, ForgetInit, ForgetStep, PTL DEF Spec

-----------------------------------------------------------------------------
(* No page waits for nothing                                                *)

(* Mounted over an entry without data and without an error, a page asks.     *)
LEMMA ShowAsks ==
  ASSUME NEW new, NEW account, NEW c0, NEW f0,
         Show(new, account, c0, f0),
         Observed(page, tab) /\ ~Has(c0) /\ ~c0.invalid => f0.on,
         Observed(new, account), ~Has(cache'), ~cache'.invalid
  PROVE  fetch'.on
<1> DEFINE before == Observed(page, tab)
           after == Observed(new, account)
           stays == before /\ after /\ (page = new \/ Kept(page, new))
           aborts == before /\ ~stays /\ f0.on
           c == IF aborts THEN Reverted(c0, f0) ELSE c0
           f == IF aborts THEN NoFetch ELSE f0
<1>1. PICK old \in BOOLEAN :
        fetch' = IF after /\ ~stays /\ AsksOnMount(c, old) THEN Join(c, f) ELSE f
  BY DEF Show
<1>2. cache' = c
  BY DEF Show
<1>3. AsksOnMount(c, old)
  <2> HIDE DEF c
  <2> QED BY <1>2 DEF AsksOnMount
<1>4. CASE stays
  <2>1. fetch' = f0 /\ cache' = c0
    BY <1>1, <1>2, <1>4
  <2> QED BY <1>4, <2>1
<1>5. CASE ~stays
  <2>1. fetch' = Join(c, f)
    <3> HIDE DEF c, f
    <3> QED BY <1>1, <1>3, <1>5
  <2> HIDE DEF c, f
  <2> QED BY <2>1 DEF Join, Asked
<1> QED
  BY <1>4, <1>5

(* The blank document watches nothing.                                       *)
LEMMA NothingWatched ==
  ASSUME setting \in Settings
  PROVE  \A account : \A path \in Outside : ~Observed(path, account)
<1>1. \A path, account : Observed(path, account) => path \notin Outside
  BY SettingsAssumption DEF Observed
<1> QED
  BY <1>1

(* Nothing is watched yet.                                                   *)
LEMMA BlankInit == Init => NeverBlank
BY NothingWatched DEF Init, NeverBlank, Outside

(* Every step leaves what a page waits for under way.                        *)
LEMMA BlankStep == Typed /\ NeverBlank /\ [Next]_vars => NeverBlank'
<1> SUFFICES ASSUME Typed, NeverBlank, [Next]_vars,
                    Observed(page, tab)', ~Has(cache'), ~cache'.invalid
             PROVE  fetch'.on
  BY DEF NeverBlank
<1>0. cache \in Entries /\ fetch \in Requests
  BY DEF Typed
<1>w. ASSUME setting' = setting PROVE Observed(page', tab')
  BY <1>w DEF Observed, RoleOf
(* Most steps show the same page and keep the entry, and if the request was  *)
(* on it still is.                                                           *)
<1>a. ASSUME UNCHANGED <<setting, tab, page, cache>>, fetch.on => fetch'.on
      PROVE  fetch'.on
  BY <1>a, <1>w DEF NeverBlank
<1>l. ASSUME setting' = setting, page' = Login PROVE fetch'.on
  BY <1>l, <1>w, NothingWatched DEF Outside, Typed
<1>1. ASSUME NEW to, NEW refusals, Enter(to, refusals) PROVE fetch'.on
  <2>1. setting' = setting
    BY <1>1 DEF Enter
  <2>2. CASE RequireUser
    BY <1>l, <2>1, <2>2 DEF RequireUser, Show
  <2>3. ASSUME NEW who, who = tab \/ page \in Outside,
               tab' = who, UNCHANGED <<page, cache>>
        PROVE  Observed(page, tab) /\ tab' = tab /\ fetch.on
    <3>1. Observed(page, who)
      BY <1>w, <2>1, <2>3
    <3>2. page \notin Outside
      BY <3>1, SettingsAssumption DEF Observed, Typed
    <3> QED BY <2>3, <3>1, <3>2 DEF NeverBlank
  <2>4. ASSUME NEW who, who = tab \/ page \in Outside,
               RequirePermissions(who, to, refusals)
        PROVE  fetch'.on
    BY <2>3, <2>4 DEF RequirePermissions
  <2>5. ASSUME NEW who, who = tab \/ page \in Outside, LoadResource(who, to, refusals)
        PROVE  fetch'.on
    <3>1. CASE MustLoad(to)
      BY <2>3, <2>5, <3>1 DEF LoadResource, Join
    <3>2. CASE ~MustLoad(to)
      <4>1. Show(to, who, cache, fetch) /\ tab' = who
        BY <2>5, <3>2 DEF LoadResource
      <4>2. Observed(to, who)
        BY <1>w, <2>1, <4>1 DEF Show
      <4> QED BY <4>1, <4>2, ShowAsks DEF NeverBlank
    <3> QED BY <3>1, <3>2
  <2> QED
    BY <1>1, <2>2, <2>4, <2>5 DEF Enter
<1>2. ASSUME NEW to, Preload(to) PROVE fetch'.on
  BY <1>2 DEF Preload, Asked
<1>3. CASE Answer
  <2>1. fetch'.on = fetch.on
    BY <1>0, <1>3 DEF Answer, Requests
  <2> QED BY <1>3, <1>a, <2>1 DEF Answer, ends
<1>4. CASE Receive
  <2> DEFINE c == Entry(fetch.ver, fetch.late, fetch.owner)
  <2>1. Has(c)
    BY <1>4 DEF Receive, Entry, Has
  <2>2. setting' = setting /\ tab' = tab /\ ~(cache' = c)
    BY <1>4, <2>1 DEF Receive, ends
  <2>3. Show(going.to, tab, c, NoFetch)
    BY <1>4, <2>2 DEF Receive
  <2>4. Observed(going.to, tab)
    BY <1>w, <2>2, <2>3 DEF Show
  <2> QED BY <2>1, <2>3, <2>4, ShowAsks
<1>5. CASE FetchFails
  <2>1. cache'.invalid = TRUE
    BY <1>0, <1>5 DEF FetchFails, Entries
  <2> QED BY <2>1
<1>6. CASE Refetch
  BY <1>6 DEF Refetch, Asked
<1>7. CASE Collect
  <2>1. setting' = setting /\ page' = page /\ tab' = tab /\ ~Observed(page, tab)
    BY <1>7 DEF Collect, ends
  <2> QED BY <1>w, <2>1
<1>8. CASE Submits
  BY <1>8, <1>a DEF Submits, Submit, ends
<1>9. CASE Apply
  BY <1>9, <1>a DEF Apply, ends
<1>10. CASE MutationFails
  BY <1>10, <1>a DEF MutationFails, ends
<1>11. CASE OnSuccess
  <2> DEFINE e == flight.effect
  <2>1. PICK differed \in BOOLEAN :
          LET removed == differed /\ e.removes
              c == IF removed THEN NoEntry ELSE Invalidate(e, SetQueryData(e, cache))
              f == IF removed THEN NoFetch ELSE fetch
          IN /\ cache' = c
             /\ fetch' = IF Refetches(e, removed, c, f) THEN Asked(c, ~removed)
                         ELSE Overtake(e, c, f)
    BY <1>11 DEF OnSuccess
  <2> DEFINE removed == differed /\ e.removes
             c == IF removed THEN NoEntry ELSE Invalidate(e, SetQueryData(e, cache))
             f == IF removed THEN NoFetch ELSE fetch
  <2>2. setting' = setting /\ page' = page /\ tab' = tab
    BY <1>11 DEF OnSuccess, ends
  <2>3. Observed(page, tab)
    BY <1>w, <2>2
  <2>4. f \in Requests
    BY <1>0, EntryTypes
  <2>5. f.on => Overtake(e, c, f).on
    <3> HIDE DEF c, f, e
    <3> QED BY <2>4 DEF Overtake, Requests
  <2>6. CASE removed
    <3>1. Refetches(e, removed, c, f)
      BY <2>3, <2>6 DEF Refetches, NoFetch, Asked
    <3>2. fetch' = Asked(c, ~removed)
      BY <2>1, <3>1
    <3> QED BY <3>2 DEF Asked
  <2>7. CASE ~removed
    <3>1. c = Invalidate(e, SetQueryData(e, cache)) /\ f = fetch /\ cache' = c
      BY <2>1, <2>7
    <3>2. ~Has(cache) /\ ~cache.invalid
      <4>1. ASSUME e.sets PROVE FALSE
        <5>1. Has(Entry(flight.ver, FALSE, flight.owner))
          <6>1. flight \in Flights
            BY DEF Typed
          <6>2. flight.ver \in Nat
            BY <6>1 DEF Flights
          <6> QED BY <6>2 DEF Entry, Has
        <5>2. SetQueryData(e, cache) = Entry(flight.ver, FALSE, flight.owner)
          BY <4>1 DEF SetQueryData
        <5>3. Has(c)
          <6> HIDE DEF e
          <6> QED BY <3>1, <5>1, <5>2 DEF Invalidate, Has, Entry
        <5> QED BY <3>1, <5>3
      <4>2. cache' = Invalidate(e, cache)
        BY <3>1, <4>1 DEF SetQueryData
      <4> HIDE DEF e
      <4> QED BY <1>0, <4>2 DEF Invalidate, Has, Entries
    <3>3. f.on
      BY <2>3, <3>1, <3>2 DEF NeverBlank
    <3>4. fetch' = Asked(c, ~removed) \/ fetch' = Overtake(e, c, f)
      BY <2>1
    <3> HIDE DEF c, f, e
    <3> QED BY <2>5, <3>3, <3>4 DEF Asked
  <2> QED BY <2>6, <2>7
<1>12. CASE Finish
  BY <1>12, <1>a DEF Finish, ends
<1>13. CASE OthersWrite
  BY <1>13, <1>a DEF OthersWrite, ends
<1>14. CASE SessionEnds
  BY <1>14, <1>a DEF SessionEnds
<1>15. CASE ExpireSession
  BY <1>15, <1>l DEF ExpireSession, Clear
<1>16. CASE Logout
  BY <1>16, <1>l DEF Logout, Clear
<1>17. CASE LearnAccount
  <2>1. setting' = setting /\ tab' = server /\ Show(page, server, cache, fetch)
    BY <1>17 DEF LearnAccount
  <2>2. Observed(page, server)
    BY <1>w, <2>1 DEF Show
  <2> QED BY <2>1, <2>2, ShowAsks DEF NeverBlank
<1>18. ASSUME NEW a \in setting.visitors, SignIn(a) PROVE fetch'.on
  BY <1>18, <1>l DEF SignIn
<1>19. CASE UNCHANGED vars
  BY <1>19, <1>a DEF vars
<1> QED
  BY <1>1, <1>2, <1>3, <1>4, <1>5, <1>6, <1>7, <1>8, <1>9, <1>10, <1>11, <1>12, <1>13,
     <1>14, <1>15, <1>16, <1>17, <1>18, <1>19
  DEF Next, Navigate, Follow, Reply, Save

(* A page without data and without an error always has a request under way.  *)
THEOREM PagesAsk == Spec => []NeverBlank
BY TypedInvariant, BlankInit, BlankStep, PTL DEF Spec

-----------------------------------------------------------------------------
(* Refusals settle                                                          *)

(* Who is refused a page is led to one the same role is not refused.  It is  *)
(* for the layout of the console to see to that (ConsoleLayout).             *)
RedirectsLead ==
  \A s \in Settings : \A r \in s.redirects, q \in s.redirects : q.at # <<r.at[1], r.to>>

(* The account would be let in where the navigation leads; the guards may    *)
(* still come to know of another one.                                        *)
Settled(account) == account # NoOne /\ ~Refused(Role[account], going.to)
Another == server # NoOne /\ tab # server

(* After a refusal of the cached account it is not refused again: the next   *)
(* one is of the account the server knows, and there is no third.            *)
SettleInv ==
  /\ going.refusals \in 0..2
  /\ going.refusals = 1 /\ Another => Settled(tab)
  /\ going.refusals = 2 => ~Another /\ Settled(tab)

(* Nobody was refused yet.                                                   *)
LEMMA SettleInit == Init => SettleInv
BY DEF Init, SettleInv, Toward

(* A navigation that begins anew, or the next refusal of one.                *)
LEMMA SettleEnter ==
  ASSUME RedirectsLead, Typed, SettleInv,
         NEW to, NEW refusals \in 0..2, Enter(to, refusals),
         refusals = 0 \/ (to = going.to /\ refusals = going.refusals)
  PROVE  SettleInv'
<1>g. \A t, n : Toward(t, n).to = t /\ Toward(t, n).refusals = n
  BY DEF Toward
<1>n. Nowhere.refusals = 0
  BY DEF Nowhere
<1>0. setting' = setting /\ server' = server /\ setting \in Settings
  BY DEF Enter, Typed
<1>r. \A role, t : Refused(role, t)' = Refused(role, t)
  BY <1>0 DEF Refused
<1>i. \/ refusals = 0
      \/ refusals = 1 /\ (Another => Settled(tab))
      \/ refusals = 2 /\ ~Another /\ Settled(tab)
  BY DEF SettleInv
<1>1. CASE RequireUser
  BY <1>n, <1>1 DEF RequireUser, SettleInv
<1>2. ASSUME NEW who \in {tab, server} \ {NoOne}, RequirePermissions(who, to, refusals)
      PROVE  SettleInv'
  <2>1. PICK r \in setting.redirects :
          r.at = <<Role[who], to>> /\ going' = Toward(r.to, refusals + 1)
    BY <1>2 DEF RequirePermissions
  <2>2. tab' = who /\ Refused(Role[who], to)
    BY <1>2, <2>1 DEF RequirePermissions, Refused
  <2>3. ~Refused(Role[who], r.to)
    BY <1>0, <2>1 DEF RedirectsLead, Refused
  <2>4. Settled(tab)'
    BY <1>g, <1>r, <1>2, <2>1, <2>2, <2>3 DEF Settled
  <2>5. refusals = 0 \/ (to = going.to /\ ~Settled(who))
    BY <2>2 DEF Settled
  <2>6. refusals = 0 \/ (refusals = 1 /\ ~Another')
    <3>1. CASE refusals = 1 /\ (Another => Settled(tab))
      <4>1. Another => who = server
        BY <1>2, <2>5, <3>1
      <4>2. ~Another => server = NoOne \/ tab = server
        BY DEF Another
      <4>3. server' = NoOne \/ who = server
        BY <1>0, <1>2, <4>1, <4>2
      <4>4. ~Another'
        BY <1>0, <2>2, <4>3 DEF Another
      <4> QED BY <3>1, <4>4
    <3>2. CASE refusals = 2 /\ ~Another /\ Settled(tab)
      <4>1. who = tab
        BY <1>2, <3>2 DEF Another
      <4> QED BY <2>5, <3>2, <4>1
    <3> QED BY <1>i, <3>1, <3>2
  <2> QED BY <1>g, <2>1, <2>4, <2>6 DEF SettleInv
<1>3. ASSUME NEW who \in {tab, server} \ {NoOne}, LoadResource(who, to, refusals)
      PROVE  SettleInv'
  <2>1. tab' = who /\ ~Refused(Role[who], to)
    BY <1>3 DEF LoadResource
  <2>2. CASE MustLoad(to)
    <3>1. going' = [Toward(to, refusals) EXCEPT !.stage = "loading"]
      BY <1>3, <2>2 DEF LoadResource
    <3>2. going'.to = to /\ going'.refusals = refusals
      BY <3>1 DEF Toward
    <3>3. Settled(tab)'
      BY <1>r, <1>3, <2>1, <3>2 DEF Settled
    <3>4. refusals = 2 => ~Another'
      BY <1>0, <1>i, <1>3, <2>1 DEF Another
    <3> QED BY <3>2, <3>3, <3>4 DEF SettleInv
  <2>3. CASE ~MustLoad(to)
    BY <1>n, <1>3, <2>3 DEF LoadResource, SettleInv
  <2> QED BY <2>2, <2>3
<1> QED
  BY <1>1, <1>2, <1>3 DEF Enter

(* Every step keeps to the two refusals.                                     *)
LEMMA SettleStep ==
  ASSUME RedirectsLead
  PROVE  Typed /\ SettleInv /\ [Next]_vars => SettleInv'
<1> SUFFICES ASSUME Typed, SettleInv, [Next]_vars PROVE SettleInv'
  OBVIOUS
<1>n. Nowhere.refusals = 0 /\ \A t : Toward(t, 0).refusals = 0
  BY DEF Nowhere, Toward
<1>z. ASSUME going'.refusals = 0 PROVE SettleInv'
  BY <1>z DEF SettleInv
<1>a. ASSUME UNCHANGED <<setting, server, tab, going>> PROVE SettleInv'
  BY <1>a DEF SettleInv, Settled, Another, Refused
<1>1. ASSUME NEW to, Navigate(to) PROVE SettleInv'
  BY <1>1, SettleEnter DEF Navigate
<1>2. CASE Follow
  <2>1. going.refusals \in 0..2
    BY DEF SettleInv
  <2> QED BY <1>2, <2>1, SettleEnter DEF Follow
<1>3. ASSUME NEW to, Preload(to) PROVE SettleInv'
  BY <1>3, <1>a DEF Preload, ends
<1>4. CASE Answer
  BY <1>4, <1>a DEF Answer, ends
<1>5. CASE Receive
  BY <1>5, <1>a, <1>n, <1>z DEF Receive, ends
<1>6. CASE FetchFails
  BY <1>6, <1>a, <1>n, <1>z DEF FetchFails, ends
<1>7. CASE Refetch \/ Collect
  BY <1>7, <1>a DEF Refetch, Collect, ends
<1>8. CASE Submits \/ Apply \/ MutationFails \/ OnSuccess
  <2>1. CASE Submits
    BY <1>a, <2>1 DEF Submits, Submit, ends
  <2>2. CASE Apply
    BY <1>a, <2>2 DEF Apply, ends
  <2>3. CASE MutationFails
    BY <1>a, <2>3 DEF MutationFails, ends
  <2>4. CASE OnSuccess
    BY <1>a, <2>4 DEF OnSuccess, ends
  <2> QED BY <1>8, <2>1, <2>2, <2>3, <2>4
<1>9. CASE Finish
  BY <1>9, <1>a, <1>n, <1>z DEF Finish, ends
<1>10. CASE OthersWrite
  BY <1>10, <1>a DEF OthersWrite, ends
<1>11. CASE SessionEnds
  BY <1>11 DEF SessionEnds, SettleInv, Settled, Another, Refused
<1>12. CASE ExpireSession \/ Logout
  BY <1>12, <1>n, <1>z DEF ExpireSession, Logout, Clear
<1>13. CASE LearnAccount
  BY <1>13 DEF LearnAccount, SettleInv, Settled, Another
<1>14. ASSUME NEW a \in setting.visitors, SignIn(a) PROVE SettleInv'
  BY <1>14, <1>n, <1>z DEF SignIn
<1>15. CASE UNCHANGED vars
  BY <1>15, <1>a DEF vars
<1> QED
  BY <1>1, <1>2, <1>3, <1>4, <1>5, <1>6, <1>7, <1>8, <1>9, <1>10, <1>11, <1>12, <1>13,
     <1>14, <1>15
  DEF Next, Reply, Save

(* However accounts are taken from the cache, learnt, signed in and out in   *)
(* the middle of a navigation, it is refused at most once for the cached     *)
(* account and once for the server's, given only that no role is led from    *)
(* one refusal into the next.                                                *)
THEOREM RefusalsAreTwo == ASSUME RedirectsLead PROVE Spec => []RefusalSettles
<1>1. SettleInv => RefusalSettles
  BY DEF SettleInv, RefusalSettles
<1> QED
  BY <1>1, TypedInvariant, SettleInit, SettleStep, PTL DEF Spec

-----------------------------------------------------------------------------
(* Who enters is served                                                     *)

(* Where a navigation may lead.                                              *)
Reached(s) ==
  s.near \cup {h[2] : h \in s.homes} \cup {r.to : r \in s.redirects}
    \cup {o.goes : o \in s.offers}

(* What a page in reach does not serve a role, its guards refuse.  It is for *)
(* the layout of the console to see to that (ConsoleLayout).                 *)
GuardsCover ==
  \A s \in Settings : \A t \in s.unserved :
    t[2] \in Reached(s) => \E r \in s.redirects : r.at = t

(* Navigations and successes lead somewhere in reach, and a loader runs for  *)
(* an account that was let in.                                               *)
LetIn(account, path) ==
  account # NoOne /\ path \in Reached(setting) /\ ~Refused(Role[account], path)
ReachInv ==
  /\ going.stage \in {"guards", "loading"} => going.to \in Reached(setting)
  /\ going.stage = "loading" => LetIn(tab, going.to)
  /\ flight.stage # "idle" => flight.goes \in {o.goes : o \in setting.offers}

(* A page is shown to an account that was let in.                            *)
EntersLetIn ==
  [][page' # page /\ page' \notin Outside => LetIn(tab', page')]_vars

(* The first address is one nearby.                                          *)
LEMMA ReachInit == Init => ReachInv
<1> SUFFICES ASSUME Init PROVE ReachInv
  OBVIOUS
<1>1. going.stage = "guards" /\ going.to \in setting.near
  BY DEF Init, Toward
<1>2. flight.stage = "idle"
  BY DEF Init, NoFlight
<1> QED
  BY <1>1, <1>2 DEF ReachInv, Reached

(* The guards let in, lead on within reach, or ask who it is.                *)
LEMMA ReachEnter ==
  ASSUME Typed, ReachInv, NEW to \in Reached(setting), NEW refusals, Enter(to, refusals)
  PROVE  ReachInv' /\ (page' # page /\ page' \notin Outside => LetIn(tab', page'))
<1>0. setting' = setting /\ flight' = flight
  BY DEF Enter
<1>r. \A role, t : Refused(role, t)' = Refused(role, t)
  BY <1>0 DEF Refused
<1>n. Nowhere.stage = "idle"
  BY DEF Nowhere
<1>f. flight'.stage # "idle" => flight'.goes \in {o.goes : o \in setting'.offers}
  BY <1>0 DEF ReachInv
<1>1. CASE RequireUser
  BY <1>n, <1>f, <1>1 DEF RequireUser, ReachInv, Show, Outside
<1>2. ASSUME NEW who, RequirePermissions(who, to, refusals)
      PROVE  ReachInv' /\ page' = page
  <2>1. PICK r \in setting.redirects : going' = Toward(r.to, refusals + 1)
    BY <1>2 DEF RequirePermissions
  <2>2. going'.stage = "guards" /\ going'.to = r.to
    BY <2>1 DEF Toward
  <2>3. r.to \in Reached(setting')
    BY <1>0 DEF Reached
  <2> QED BY <1>f, <1>2, <2>2, <2>3 DEF RequirePermissions, ReachInv
<1>3. ASSUME NEW who \in {tab, server} \ {NoOne}, LoadResource(who, to, refusals)
      PROVE  ReachInv' /\ (page' # page => LetIn(tab', page'))
  <2>1. tab' = who /\ LetIn(who, to)
    BY <1>3 DEF LoadResource, LetIn
  <2>2. LetIn(tab, to)' 
    BY <1>0, <1>r, <2>1 DEF LetIn
  <2>3. CASE MustLoad(to)
    <3>1. going' = [Toward(to, refusals) EXCEPT !.stage = "loading"] /\ page' = page
      BY <1>3, <2>3 DEF LoadResource
    <3>2. going'.to = to /\ going'.stage = "loading"
      BY <3>1 DEF Toward
    <3> QED BY <1>0, <1>f, <2>2, <3>1, <3>2 DEF ReachInv
  <2>4. CASE ~MustLoad(to)
    <3>1. going' = Nowhere /\ page' = to
      BY <1>3, <2>4 DEF LoadResource, Show
    <3> QED BY <1>n, <1>f, <2>1, <3>1 DEF ReachInv
  <2> QED BY <2>3, <2>4
<1> QED
  BY <1>1, <1>2, <1>3 DEF Enter

(* Every step shows a page only to who was let in.                           *)
LEMMA ReachStep ==
  Typed /\ ReachInv /\ [Next]_vars
    => ReachInv' /\ (page' # page /\ page' \notin Outside => LetIn(tab', page'))
<1> DEFINE Enters == page' # page /\ page' \notin Outside => LetIn(tab', page')
<1> SUFFICES ASSUME Typed, ReachInv, [Next]_vars PROVE ReachInv' /\ Enters
  OBVIOUS
<1>n. Nowhere.stage = "idle" /\ NoFlight.stage = "idle"
  BY DEF Nowhere, NoFlight
<1>f. ASSUME UNCHANGED <<setting, flight>>
      PROVE  flight'.stage # "idle" => flight'.goes \in {o.goes : o \in setting'.offers}
  BY <1>f DEF ReachInv
<1>a. ASSUME UNCHANGED <<setting, tab, page, going, flight>> PROVE ReachInv' /\ Enters
  BY <1>a DEF ReachInv, LetIn, Refused, Reached
<1>b. ASSUME UNCHANGED <<setting, tab, page, going>>,
             flight'.stage # "idle" => flight'.goes \in {o.goes : o \in setting.offers}
      PROVE  ReachInv' /\ Enters
  BY <1>b DEF ReachInv, LetIn, Refused, Reached
<1>c. ASSUME setting' = setting, Clear, flight' = flight \/ flight'.stage = "idle"
      PROVE  ReachInv' /\ Enters
  BY <1>c, <1>n DEF Clear, ReachInv, Outside
<1>1. ASSUME NEW to \in setting.near, Navigate(to) PROVE ReachInv' /\ Enters
  <2>1. to \in Reached(setting)
    BY DEF Reached
  <2> QED BY <1>1, <2>1, ReachEnter DEF Navigate
<1>2. CASE Follow
  <2>1. going.to \in Reached(setting)
    BY <1>2 DEF Follow, ReachInv
  <2> QED BY <1>2, <2>1, ReachEnter DEF Follow
<1>3. ASSUME NEW to, Preload(to) PROVE ReachInv' /\ Enters
  BY <1>3, <1>a DEF Preload, ends
<1>4. CASE Answer
  BY <1>4, <1>a DEF Answer, ends
<1>5. CASE Receive
  <2>1. UNCHANGED <<setting, tab, flight>>
    BY <1>5 DEF Receive, ends
  <2>2. CASE going.stage = "loading"
    <3>1. page' = going.to /\ going' = Nowhere
      BY <1>5, <2>2 DEF Receive, Show
    <3>2. LetIn(tab', page')
      BY <2>1, <2>2, <3>1 DEF ReachInv
    <3> QED BY <1>f, <1>n, <2>1, <3>1, <3>2 DEF ReachInv
  <2>3. CASE going.stage # "loading"
    BY <1>5, <1>a, <2>1, <2>3 DEF Receive
  <2> QED BY <2>2, <2>3
<1>6. CASE FetchFails
  <2>1. UNCHANGED <<setting, tab, flight>>
    BY <1>6 DEF FetchFails, ends
  <2>2. CASE going.stage = "loading"
    BY <1>6, <1>f, <1>n, <2>1, <2>2 DEF FetchFails, ReachInv, Outside
  <2>3. CASE going.stage # "loading"
    BY <1>6, <1>a, <2>1, <2>3 DEF FetchFails
  <2> QED BY <2>2, <2>3
<1>7. CASE Refetch \/ Collect
  BY <1>7, <1>a DEF Refetch, Collect, ends
<1>8. CASE Submits
  <2>1. PICK o \in setting.offers : Submit(o)
    BY <1>8 DEF Submits
  <2>2. flight'.goes = o.goes
    BY <2>1 DEF Submit, NoFlight
  <2> QED BY <1>b, <2>1, <2>2 DEF Submit, ends
<1>9. CASE Apply
  <2>1. flight' = [flight EXCEPT !.stage = "applied", !.ver = writes', !.owner = server]
    BY <1>9 DEF Apply
  <2>2. flight'.goes = flight.goes /\ flight.stage = "sent"
    BY <1>9, <2>1 DEF Apply, Typed, Flights
  <2> QED BY <1>9, <1>b, <2>2 DEF Apply, ends, ReachInv
<1>10. CASE MutationFails
  BY <1>10, <1>b, <1>n DEF MutationFails, ends
<1>11. CASE OnSuccess
  <2>1. flight' = [NoFlight EXCEPT !.goes = flight.goes, !.stage = "settling"]
    BY <1>11 DEF OnSuccess
  <2>2. flight'.goes = flight.goes /\ flight.stage = "applied"
    BY <1>11, <2>1 DEF OnSuccess, NoFlight
  <2> QED BY <1>11, <1>b, <2>2 DEF OnSuccess, ends, ReachInv
<1>12. CASE Finish
  <2>1. UNCHANGED <<setting, tab, page>> /\ flight'.stage = "idle"
    BY <1>12, <1>n DEF Finish, ends
  <2>2. flight.goes \in Reached(setting)
    BY <1>12 DEF Finish, ReachInv, Reached
  <2>3. Toward(flight.goes, 0).stage = "guards" /\ Toward(flight.goes, 0).to = flight.goes
    BY DEF Toward
  <2>4. CASE going' = going
    BY <1>b, <2>1, <2>4
  <2>5. CASE going' = Toward(flight.goes, 0)
    BY <2>1, <2>2, <2>3, <2>5 DEF ReachInv
  <2> QED BY <1>12, <2>4, <2>5 DEF Finish
<1>13. CASE OthersWrite
  BY <1>13, <1>a DEF OthersWrite, ends
<1>14. CASE SessionEnds
  BY <1>14, <1>a DEF SessionEnds
<1>15. CASE ExpireSession
  BY <1>15, <1>c, <1>n DEF ExpireSession
<1>16. CASE Logout
  BY <1>16, <1>c DEF Logout
<1>17. CASE LearnAccount
  <2>1. UNCHANGED <<setting, going, flight>> /\ page' = page /\ going.stage # "loading"
    BY <1>17 DEF LearnAccount, Show
  <2> QED BY <1>f, <2>1 DEF ReachInv
<1>18. ASSUME NEW a \in setting.visitors, SignIn(a) PROVE ReachInv' /\ Enters
  <2>1. PICK h \in setting.homes : going' = Toward(h[2], 0)
    BY <1>18 DEF SignIn
  <2>2. going'.stage = "guards" /\ going'.to = h[2]
    BY <2>1 DEF Toward
  <2>3. h[2] \in Reached(setting)
    BY DEF Reached
  <2>4. UNCHANGED <<setting, page, flight>>
    BY <1>18 DEF SignIn
  <2> QED BY <1>f, <2>2, <2>3, <2>4 DEF ReachInv
<1>19. CASE UNCHANGED vars
  BY <1>19, <1>a DEF vars
<1> QED
  BY <1>1, <1>2, <1>3, <1>4, <1>5, <1>6, <1>7, <1>8, <1>9, <1>10, <1>11, <1>12, <1>13,
     <1>14, <1>15, <1>16, <1>17, <1>18, <1>19
  DEF Next, Reply, Save

(* No interleaving of loaders, redirects, changes of account and successes   *)
(* shows a page to an account that its guards would turn away: a navigation  *)
(* that arrives late is still for the account it was let in for.             *)
THEOREM OnlyTheLetInEnter == Spec => EntersLetIn
BY TypedInvariant, ReachInit, ReachStep, PTL DEF Spec, EntersLetIn

(* So who enters is served there, given only that the guards refuse what a   *)
(* page does not serve.                                                      *)
THEOREM WhoEntersIsServed == ASSUME GuardsCover PROVE Spec => EntersServed
<1>1. ASSUME Typed, ReachInv, [Next]_vars,
             page' # page, page' \notin Outside, tab' = server'
      PROVE  <<Role[server'], page'>> \notin setting.unserved
  <2>1. LetIn(server', page')
    BY <1>1, ReachStep
  <2>2. \A t \in setting.unserved :
          t[2] \in Reached(setting) => \E r \in setting.redirects : r.at = t
    BY <1>1 DEF GuardsCover, Typed
  <2> QED BY <2>1, <2>2 DEF LetIn, Refused
<1> QED
  BY <1>1, TypedInvariant, ReachInit, ReachStep, PTL DEF Spec, EntersServed
=============================================================================
