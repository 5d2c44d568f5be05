-------------------------------- MODULE Console --------------------------------
(***************************************************************************)
(* The web console at run time: an administrator moves between pages,      *)
(* changes records and signs in and out, while the browser's query cache   *)
(* holds answers of the server.  One query is watched, any one of them:    *)
(* its cached answer, its request in flight, and the mutations that touch  *)
(* it.  Without a watched query (NoKey) the model is of navigation alone.  *)
(*                                                                         *)
(* An answer is the number of writes the server had applied when it gave   *)
(* it.  TanStack Query and Router are not in the repository: what they do  *)
(* with what the code asks of them is modelled here and marked external.   *)
(***************************************************************************)
EXTENDS Integers, FiniteSets

CONSTANTS
  Accounts,     \* the people who sign in
  NoOne,        \* no account
  Role,         \* the role of each account
  Settings,     \* what may be watched, and what the console's layout has to do with it
  MaxWrites     \* bound on the writes to what the watched query reads

NoKey == <<>>
Start == <<"start">>     \* the blank document an address is opened in
Login == <<"login">>
Broken == <<"error">>     \* the router's error page
Outside == {Start, Login, Broken}     \* no page of the signed-in console

ASSUME ConsoleAssumption ==
  /\ NoOne \notin Accounts
  /\ DOMAIN Role = Accounts
  /\ MaxWrites \in Nat

(* What a change does to the watched key: whether it writes what the query   *)
(* reads, answers for that to whoever saved, fills the entry in, removes it, *)
(* marks it stale, and asks for it again.                                    *)
\* lib/query-invalidation.ts:6-20 invalidateAfterDelete
EffectTypes ==
  [writes : BOOLEAN, answers : BOOLEAN, sets : BOOLEAN, removes : BOOLEAN,
   marks : BOOLEAN, refetches : BOOLEAN]
\* lib/query-invalidation.ts:6-20 invalidateAfterDelete
NoEffect ==
  [writes |-> FALSE, answers |-> FALSE, sets |-> FALSE, removes |-> FALSE,
   marks |-> FALSE, refetches |-> FALSE]

(* A setting, computed in ConsoleTables from the modules of the console's    *)
(* features; what holds here holds of every one as assumed:                  *)
(*   key        the query watched (NoKey: none)                              *)
(*   visitors   the accounts that come and go                                *)
(*   near       the pages the browser moves between                          *)
(*   redirects  where the guards of a page lead a role they refuse           *)
(*   homes      the first page of each role                                  *)
(*   readers    <<role, path>>: the page watches the key for that role       *)
(*   loaders    the pages whose loaders wait for the key                     *)
(*   offers     the changes a page offers a role that touch the key, each as *)
(*              what it does to the key and where its success leads          *)
(*   unserved   <<role, path>>: the page asks for more than the role may     *)
ASSUME SettingsAssumption ==
  \A s \in Settings :
    /\ s.visitors \subseteq Accounts
    /\ \A t \in s.readers : t[2] \notin Outside
    /\ \A o \in s.offers : o.effect \in EffectTypes

(* What a change answers for, its success reaches: by a mark, a new answer   *)
(* or the removal of the old.                                                *)
ASSUME RootsCover ==
  \A s \in Settings : \A o \in s.offers :
    o.effect.answers => o.effect.sets \/ o.effect.marks

VARIABLES
  setting,      \* the query watched and what concerns it
  server,       \* the account whose session the server accepts, or NoOne
  tab,          \* the account the cached session and account name, or NoOne
  page,         \* the path the browser shows
  going,        \* the navigation on its way
  writes,       \* the writes the server has applied
  cache,        \* the watched query's entry in the cache
  fetch,        \* its request in flight
  flight,       \* the mutation in flight
  acked,        \* the writes whose success the console has acted upon
  forgotten     \* the accounts signed out by clearing the cache

vars == <<setting, server, tab, page, going, writes, cache, fetch, flight, acked, forgotten>>
ends == <<server, tab, forgotten>>

-----------------------------------------------------------------------------
(* The query watched and the role an account acts in                        *)
\* external QueryCache
watched == setting.key
\* features/authz/access.tsx:10-13 AuthzProvider
RoleOf(account) == IF account = NoOne THEN "none" ELSE Role[account]
-----------------------------------------------------------------------------
(* Cache entries and requests                                               *)

(* ver: the answer (-1: none); invalid: marked stale by a mutation or a      *)
(* failed request; late: asked for before a success the console has acted    *)
(* upon since, which could not call the request back; owner: for whom the    *)
(* server answered.  Whether 30 s have passed is a choice wherever it counts.*)
\* external QueryState
NoEntry == [ver |-> -1, invalid |-> FALSE, late |-> FALSE, owner |-> NoOne]
\* external QueryState
Entry(ver, late, owner) == [ver |-> ver, invalid |-> FALSE, late |-> late, owner |-> owner]
(* A request: unanswered (-1) or answered for an account; whether a mutation *)
(* waits for it; and whether the entry it replaces was invalid.              *)
\* external Query
Asked(c, awaited) ==
  [on |-> TRUE, ver |-> -1, late |-> FALSE, owner |-> NoOne, awaited |-> awaited,
   was |-> c.invalid]
\* external Query
NoFetch == [Asked(NoEntry, FALSE) EXCEPT !.on = FALSE]
\* external NavigateOptions
Toward(to, refusals) == [to |-> to, stage |-> "guards", refusals |-> refusals]
\* external NavigateOptions
Nowhere == [to |-> <<>>, stage |-> "idle", refusals |-> 0]
\* external MutationState
NoFlight == [effect |-> NoEffect, goes |-> <<>>, stage |-> "idle", ver |-> 0, owner |-> NoOne]

\* external QueryState
Has(c) == c.ver >= 0
(* A request joins the one in flight.                                        *)
\* external Query
Join(c, f) == IF f.on THEN f ELSE Asked(c, FALSE)
(* An aborted request leaves the entry as it was when it was sent, whatever  *)
(* was invalidated since.                                                    *)
\* external Query
Reverted(c, f) == [c EXCEPT !.invalid = f.was, !.late = @ \/ (f.late /\ Has(c))]

\* external QueryObserver
Observed(path, account) == <<RoleOf(account), path>> \in setting.readers
(* Two pages of one record keep the observer in the breadcrumbs.             *)
\* components/layout/app-breadcrumbs.tsx:34-43 resourceName
Kept(old, new) == {old, new} \subseteq setting.loaders

(* Mutant: one that failed before is taken for one that was never asked for, *)
(* and one that was never asked for is not.                                  *)
AsksWhenOld(c, old) == Has(c) /\ (c.invalid \/ old)

(* Mounted over an entry: one without data is asked for unless it failed     *)
(* (retryOnMount), another if it is invalid or has grown old.                *)
\* query-client.ts:6-20 queryClient
AsksOnMount(c, old) == IF Has(c) THEN c.invalid \/ old ELSE ~c.invalid

(* The browser shows a page: what the old one alone watched is aborted and   *)
(* its entry taken back; what the new one watches is asked for.              *)
\* external QueryObserver
Show(new, account, c0, f0) ==
  LET before == Observed(page, tab)
      after == Observed(new, account)
      stays == before /\ after /\ (page = new \/ Kept(page, new))
      aborts == before /\ ~stays /\ f0.on
      c == IF aborts THEN Reverted(c0, f0) ELSE c0
      f == IF aborts THEN NoFetch ELSE f0
  IN /\ page' = new
     /\ cache' = c
     /\ \E old \in BOOLEAN :
          fetch' = IF after /\ ~stays /\ AsksOnMount(c, old) THEN Join(c, f) ELSE f

-----------------------------------------------------------------------------
(* An address is opened in a browser where someone is signed in             *)
\* main.tsx:8-17 createRoot
Init ==
  /\ setting \in Settings
  /\ server \in setting.visitors
  /\ tab = NoOne
  /\ page = Start
  /\ \E to \in setting.near : going = Toward(to, 0)
  /\ writes = 0
  /\ cache = NoEntry
  /\ fetch = NoFetch
  /\ flight = NoFlight
  /\ acked = 0
  /\ forgotten = {}

-----------------------------------------------------------------------------
(* Navigation                                                               *)

(* Nobody is signed in: to the login page, the cache as it is.               *)
\* features/authn/guards.ts:18-23 requireUser
RequireUser ==
  /\ server = NoOne
  /\ Show(Login, NoOne, cache, fetch)
  /\ going' = Nowhere
  /\ tab' = tab

\* features/authn/guards.ts:25-43 requirePermissions
Refused(role, to) == \E r \in setting.redirects : r.at = <<role, to>>
\* features/authn/guards.ts:25-43 requirePermissions
RequirePermissions(who, to, refusals) ==
  /\ \E r \in setting.redirects :
       r.at = <<Role[who], to>> /\ going' = Toward(r.to, refusals + 1)
  /\ tab' = who
  /\ UNCHANGED <<page, cache, fetch>>

(* A loader does with any entry that is not invalid, whatever its age.       *)
\* lib/resource-loader.ts:8-23 loadResource
MustLoad(path) ==
  path \in setting.loaders /\ (~Has(cache) \/ cache.invalid)
\* lib/resource-loader.ts:8-23 loadResource
LoadResource(who, to, refusals) ==
  /\ ~Refused(Role[who], to)
  /\ tab' = who
  /\ IF MustLoad(to)
     THEN /\ fetch' = Join(cache, fetch)
          /\ going' = [Toward(to, refusals) EXCEPT !.stage = "loading"]
          /\ UNCHANGED <<page, cache>>
     ELSE Show(to, who, cache, fetch) /\ going' = Nowhere

(* The guards of a page and then its loaders.  They go by the cached account *)
(* while it is fresh, and else by the server's; a page that is shown learns  *)
(* of that first (LearnAccount).                                             *)
\* routes/_authenticated.tsx:1-12 Route
Enter(to, refusals) ==
  /\ \/ RequireUser
     \/ \E who \in {tab, server} \ {NoOne} :
          /\ who = tab \/ page \in Outside
          /\ RequirePermissions(who, to, refusals) \/ LoadResource(who, to, refusals)
  /\ UNCHANGED <<setting, server, writes, flight, acked, forgotten>>

(* A link, an address or the history: a new navigation replaces the one      *)
(* still on its way.                                                         *)
\* external router
Navigate(to) == page \notin {Start, Login, to} /\ Enter(to, 0)
(* Where an address, a refusal, a sign-in or a success leads.                *)
\* external router
Follow == going.stage = "guards" /\ Enter(going.to, going.refusals)

(* The pointer rests on a link: the loader runs ahead of the click.          *)
\* router.ts:8-18 router
Preload(to) ==
  /\ page \notin Outside
  /\ ~Refused(RoleOf(tab), to)
  /\ MustLoad(to) /\ ~fetch.on
  /\ fetch' = Asked(cache, FALSE)
  /\ UNCHANGED <<setting, ends, page, going, writes, cache, flight, acked>>

-----------------------------------------------------------------------------
(* Requests and the cache                                                   *)

\* lib/api.ts:68-79 unwrap
Answer ==
  /\ fetch.on /\ fetch.ver = -1
  /\ server # NoOne
  /\ fetch' = [fetch EXCEPT !.ver = writes, !.owner = server]
  /\ UNCHANGED <<setting, ends, page, going, writes, cache, flight, acked>>

(* A navigation that waited for the answer arrives with it.                  *)
\* lib/resource-loader.ts:8-23 loadResource
Receive ==
  LET c == Entry(fetch.ver, fetch.late, fetch.owner)
  IN /\ fetch.on /\ fetch.ver >= 0
     /\ IF going.stage = "loading"
        THEN Show(going.to, tab, c, NoFetch) /\ going' = Nowhere
        ELSE cache' = c /\ fetch' = NoFetch /\ UNCHANGED <<page, going>>
     /\ UNCHANGED <<setting, ends, writes, flight, acked>>

(* What is cached stays and is invalid; a loader's failure shows the error.  *)
\* route-error.tsx:15-37 RouteErrorPage
FetchFails ==
  /\ fetch.on
  /\ cache' = [cache EXCEPT !.invalid = TRUE]
  /\ fetch' = NoFetch
  /\ IF going.stage = "loading" THEN page' = Broken /\ going' = Nowhere
     ELSE UNCHANGED <<page, going>>
  /\ UNCHANGED <<setting, ends, writes, flight, acked>>

(* The window regains focus over an entry that is invalid or old, or a poll  *)
(* is due.                                                                   *)
\* query-client.ts:6-12 queryClient
Refetch ==
  /\ Observed(page, tab)
  /\ ~fetch.on
  /\ fetch' = Asked(cache, FALSE)
  /\ UNCHANGED <<setting, ends, page, going, writes, cache, flight, acked>>

(* Entries nobody watches are dropped in the end.                            *)
\* external gcTime
Collect ==
  /\ cache # NoEntry /\ ~fetch.on
  /\ ~Observed(page, tab)
  /\ cache' = NoEntry
  /\ UNCHANGED <<setting, ends, page, going, writes, fetch, flight, acked>>

-----------------------------------------------------------------------------
(* Mutations, one at a time: a form or a dialog is busy while it saves      *)

\* components/async-button.tsx:12-29 AsyncButton
Submit(o) ==
  /\ flight.stage = "idle"
  /\ flight' = [NoFlight EXCEPT !.effect = o.effect, !.goes = o.goes, !.stage = "sent"]
  /\ UNCHANGED <<setting, ends, page, going, writes, cache, fetch, acked>>

\* lib/api.ts:68-79 unwrap
Apply ==
  LET wrote == IF flight.effect.writes THEN 1 ELSE 0
  IN /\ flight.stage = "sent"
     /\ server # NoOne
     /\ writes + wrote <= MaxWrites
     /\ writes' = writes + wrote
     /\ flight' = [flight EXCEPT !.stage = "applied", !.ver = writes', !.owner = server]
     /\ UNCHANGED <<setting, ends, page, going, cache, fetch, acked>>

(* Mutant: a failed mutation is never reset.                                 *)
MutationFailsForGood ==
  /\ flight.stage \in {"sent", "applied"}
  /\ flight' = [flight EXCEPT !.stage = "failed"]
  /\ UNCHANGED <<setting, ends, page, going, writes, cache, fetch, acked>>

(* Refused, or the answer lost after it was applied: nothing is invalidated. *)
\* query-client.ts:21-28 onError
MutationFails ==
  /\ flight.stage \in {"sent", "applied"}
  /\ flight' = NoFlight
  /\ UNCHANGED <<setting, ends, page, going, writes, cache, fetch, acked>>

\* external setQueryData
SetQueryData(e, c) == IF e.sets THEN Entry(flight.ver, FALSE, flight.owner) ELSE c
(* Mutant: only what the page watches is marked stale (refetchQueries).      *)
InvalidateActive(e, c) ==
  IF c # NoEntry /\ Observed(page, tab) /\ e.marks
  THEN [c EXCEPT !.invalid = TRUE] ELSE c

(* A deleted record's own queries turn invalid too.                          *)
\* lib/query-invalidation.ts:6-11 invalidateAfterDelete
Invalidate(e, c) ==
  IF c # NoEntry /\ e.marks
  THEN [c EXCEPT !.invalid = TRUE] ELSE c
(* What the page watches is asked for again, and a request of its own is     *)
(* called back for it, unless it is the first one; a deleted record is not.  *)
(* What was removed under a page is asked for when the page is drawn anew,   *)
(* here at once, but the mutation does not wait for that.                    *)
\* lib/query-invalidation.ts:6-19 invalidateAfterDelete
Refetches(e, removed, c, f) ==
  (e.refetches \/ removed) /\ Observed(page, tab) /\ (Has(c) \/ ~f.on)
(* The other requests stay in flight, and an abort takes back the mark: only *)
(* data filled in replaces the entry to go back to.                          *)
\* external Query
Overtake(e, c, f) ==
  IF ~f.on THEN f
  ELSE [f EXCEPT !.late = TRUE, !.awaited = e.refetches /\ Observed(page, tab),
                 !.was = IF e.sets THEN c.invalid ELSE @]
(* onSuccess: answers filled in, the rest marked stale.  Results are removed *)
(* only when the record in the cache differed in what they depend on.        *)
\* lib/query-invalidation.ts:6-20 invalidateAfterDelete
OnSuccess ==
  \E differed \in BOOLEAN :
    LET e == flight.effect
        removed == differed /\ e.removes
        c == IF removed THEN NoEntry ELSE Invalidate(e, SetQueryData(e, cache))
        f == IF removed THEN NoFetch ELSE fetch
    IN /\ flight.stage = "applied"
       /\ cache' = c
       /\ fetch' = IF Refetches(e, removed, c, f) THEN Asked(c, ~removed) ELSE Overtake(e, c, f)
       /\ acked' = IF e.answers THEN flight.ver ELSE acked
       /\ flight' = [NoFlight EXCEPT !.goes = flight.goes, !.stage = "settling"]
       /\ UNCHANGED <<setting, ends, page, going, writes>>

(* Mutant: the form waits until the query is quiet, whoever asks.            *)
FinishWhenQuiet ==
  /\ flight.stage = "settling"
  /\ ~fetch.on
  /\ going' = IF flight.goes \in {<<>>, page} THEN going ELSE Toward(flight.goes, 0)
  /\ flight' = NoFlight
  /\ UNCHANGED <<setting, ends, page, writes, cache, fetch, acked>>

(* The refetches are over: the form leads on, from whatever page is shown.   *)
\* features/labels/fields.tsx:154-158 onSubmit
Finish ==
  /\ flight.stage = "settling"
  /\ ~fetch.awaited
  /\ going' = IF flight.goes \in {<<>>, page} THEN going ELSE Toward(flight.goes, 0)
  /\ flight' = NoFlight
  /\ UNCHANGED <<setting, ends, page, writes, cache, fetch, acked>>

(* Someone else, or an agent, writes what the query reads.                   *)
\* external server
OthersWrite ==
  /\ watched # NoKey
  /\ writes < MaxWrites
  /\ writes' = writes + 1
  /\ UNCHANGED <<setting, ends, page, going, cache, fetch, flight, acked>>

-----------------------------------------------------------------------------
(* Sessions                                                                 *)

(* Mutant: the entries are dropped and the requests in flight are not.       *)
ClearEntries ==
  /\ cache' = NoEntry
  /\ fetch' = fetch
  /\ tab' = NoOne
  /\ page' = Login
  /\ going' = Nowhere
  /\ forgotten' = setting.visitors

\* features/authn/session-expiry.ts:5-17 expireSession
Clear ==
  /\ cache' = NoEntry
  /\ fetch' = NoFetch
  /\ tab' = NoOne
  /\ page' = Login
  /\ going' = Nowhere
  /\ forgotten' = setting.visitors

\* external session
SessionEnds ==
  /\ server # NoOne
  /\ server' = NoOne
  /\ UNCHANGED <<setting, tab, page, going, writes, cache, fetch, flight, acked, forgotten>>

(* The server answers 401 to a request or a mutation.                        *)
\* features/authn/session-expiry.ts:5-17 expireSession
ExpireSession ==
  /\ server = NoOne
  /\ page # Login
  /\ \/ fetch.on /\ fetch.ver = -1 /\ flight' = flight
     \/ flight.stage = "sent" /\ flight' = NoFlight
  /\ Clear
  /\ UNCHANGED <<setting, server, writes, acked>>

\* features/authn/queries.ts:27-38 useLogout
Logout ==
  /\ server # NoOne
  /\ page \notin Outside
  /\ server' = NoOne
  /\ Clear
  /\ UNCHANGED <<setting, writes, flight, acked>>

(* The account last cached will do while it is fresh: it may be that of      *)
(* whoever was here when the session was found to be over (RequireUser).     *)
\* features/authn/queries.ts:39-51 useLogin
SignIn(a) ==
  /\ page = Login
  /\ server = NoOne
  /\ server' = a
  /\ tab' \in {a} \cup ({tab} \ {NoOne})
  /\ \E h \in setting.homes : h[1] = Role[tab'] /\ going' = Toward(h[2], 0)
  /\ forgotten' = forgotten \ {a}
  /\ UNCHANGED <<setting, page, writes, cache, fetch, flight, acked>>

(* The account, which every page watches, is asked for again.                *)
\* features/account/queries.ts:8-10 useAccount
LearnAccount ==
  /\ server # NoOne /\ tab # server
  /\ page \notin Outside /\ going.stage # "loading"
  /\ tab' = server
  /\ Show(page, server, cache, fetch)
  /\ UNCHANGED <<setting, server, going, writes, flight, acked, forgotten>>

-----------------------------------------------------------------------------
\* features/authz/access.tsx:10-13 AuthzProvider
Submits ==
  \E o \in setting.offers : o.at = <<RoleOf(tab), page>> /\ Submit(o)

Reply == Answer \/ Receive \/ FetchFails
Save == Apply \/ MutationFails \/ OnSuccess \/ Finish

Next ==
  \/ \E to \in setting.near : Navigate(to) \/ Preload(to)
  \/ Follow
  \/ Reply \/ Refetch \/ Collect
  \/ Submits \/ Save \/ OthersWrite
  \/ SessionEnds \/ ExpireSession \/ Logout \/ LearnAccount
  \/ \E a \in setting.visitors : SignIn(a)

(* The browser gives every request an answer or an error in the end, and     *)
(* runs what waits for it.                                                   *)
Fairness == WF_vars(Reply) /\ WF_vars(Save)

Spec == Init /\ [][Next]_vars /\ Fairness

-----------------------------------------------------------------------------
(* Properties                                                               *)

(* Every variable is of its type: above all no navigation, request or        *)
(* mutation is ever in a stage the console has no way out of.                *)
TypeOK ==
  /\ server \in Accounts \cup {NoOne}
  /\ tab \in Accounts \cup {NoOne}
  /\ going.stage \in {"idle", "guards", "loading"}
  /\ writes \in 0..MaxWrites
  /\ acked \in 0..writes
  /\ cache.ver \in -1..writes /\ cache.invalid \in BOOLEAN /\ cache.late \in BOOLEAN
  /\ fetch.ver \in -1..writes /\ fetch.on \in BOOLEAN /\ fetch.late \in BOOLEAN
  /\ flight.stage \in {"idle", "sent", "applied", "settling"}
  /\ flight.ver \in 0..writes
  /\ forgotten \subseteq Accounts

(* Read your writes: once a save, a creation or a deletion has succeeded and *)
(* the console has acted upon it, no page shows, as valid, an answer from    *)
(* before it, on whatever page the success came and however requests,        *)
(* aborts, preloads and other saves were interleaved; except one asked for   *)
(* before and not called back (query-invalidation.ts, resource-loader.ts).   *)
ReadYourWrites ==
  Has(cache) /\ ~cache.invalid /\ ~cache.late => cache.ver >= acked

(* The keys that mutations fill with the record they saved.                  *)
Filled == \E o \in setting.offers : o.effect.sets
(* After the cache was cleared for a sign-out or an expired session, nothing *)
(* that was answered for the earlier account is in it or on its way into it  *)
(* until that account returns (session-expiry.ts, authn/queries.ts): a       *)
(* record that a late success fills in is the one exception.                 *)
LogoutForgets ==
  /\ fetch.owner \notin forgotten
  /\ Filled \/ cache.owner \notin forgotten

(* A page whose query has no data and no error is waiting for a request: no  *)
(* order of leaving, aborting, joining, removing and returning leaves it     *)
(* loading with nothing on its way (query-client.ts, resource-loader.ts).    *)
NeverBlank ==
  Observed(page, tab) /\ ~Has(cache) /\ ~cache.invalid => fetch.on

(* A guard's redirect leads somewhere: it is refused at most once for the    *)
(* cached account and once for the server's, never round in a circle         *)
(* (guards.ts:26-43, nav-config.ts:189-191).                                 *)
RefusalSettles == going.refusals <= 2

(* Whatever page a navigation, a redirect or a sign-in ends at, the account  *)
(* that is signed in meets no refusal there: none of the page's requests,    *)
(* of the changes it offers and of its links needs a permission the account  *)
(* has not got (features/authz/access.tsx, guards.ts).                       *)
EntersServed ==
  [][page' # page /\ page' \notin Outside /\ tab' = server' =>
       <<Role[server'], page'>> \notin setting.unserved]_vars

(* A save ends, in success or failure: it does not wait for ever for         *)
(* refetches it started, whatever aborted or replaced them                   *)
(* (lib/query-invalidation.ts:6-20).                                         *)
SavesEnd == flight.stage # "idle" ~> flight.stage = "idle"
=============================================================================
