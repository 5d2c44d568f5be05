# Woodstar: a formal model

TLA+ modules about the parts of Woodstar where several actors meet: agents that
poll, crash and resend, administrators who edit what the agents are working on,
the PostgreSQL transactions between them, and the web console with its cache,
its forms and its uploads. The modules are checked with TLC
on small instances and, where the property is a safety property, proved with
TLAPS for every value of the constants.

1. [The system](#1-the-system)
2. [Santa rule synchronisation](#2-santa-rule-synchronisation)
3. [osquery policies and remediation](#3-osquery-policies-and-remediation)
4. [Live queries](#4-live-queries)
5. [The web console](#5-the-web-console)
6. [Runs and bounds](#6-runs-and-bounds)
7. [Proofs](#7-proofs)
8. [Where code and documents disagree](#8-where-code-and-documents-disagree)
9. [Plan](#9-plan)
10. [What is not modelled](#10-what-is-not-modelled)

## 1. The system

Woodstar is a Go server (`cmd/woodstar`, `internal/`) that manages Macs through
three agents: osquery, Orbit and Santa. It publishes software to Munki clients,
through distribution points that run the same binary as workers. All state
is in PostgreSQL; several replicas of the server may share one database. A
React console and a Stemma plugin use the administrative API.

| Component | State | Operations | Interacts with |
| --- | --- | --- | --- |
| Santa rule synchronisation (`internal/santa/service.go`, `santa/syncstate`) | per host: the pending sync, the confirmed sync, desired and applied targets | preflight, rule download (paged), postflight | the Santa client; rules and configurations, which follow labels |
| Santa events (`santa/events`) | executions, file accesses, executables, certificates | ingest a batch, request bundles, clean up | the Santa client |
| Santa rules and configurations | definitions and their targets | edit; resolve for a host | labels |
| osquery policies and remediation (`osquery/policies`) | policies with an evaluation and a remediation revision; per host and policy a membership and the latest run | edit, issue, record, run remediation, deliver, report | distributed reads and writes, Orbit, labels |
| Live queries (`osquery/livequery`) | runs with a deadline; a status per target | start, stop, record a result, read | distributed reads and writes; event streams of the API |
| osquery reports (`osquery/reports`) | definitions; one snapshot per host and report | edit; record a snapshot or an error | the scheduled query log |
| Distributed read and write (`osquery/service.go`, `dispatch.go`) | none of its own | collect label, detail, policy and live queries; dispatch their results | all of the above |
| Orbit (`orbit/service.go`) | enrolment of a host | enrol, config, fetch a script, report | remediation, hosts |
| Hosts and enrollment | hosts, node keys, inventory | enrol by either agent, refresh details | labels, directory |
| Labels and targeting (`labels`, `targeting`) | labels, their criteria and memberships | edit, record dynamic results, recompute derived memberships | hosts, directory; everything that targets labels |
| Directory and Entra (`directory`, `directory/entra`) | users, groups, a provider snapshot | apply a snapshot, in a job under an advisory lock | derived labels |
| Munki software, packages, client resources | definitions, objects, archives | edit, upload, finalise, clean up | object storage |
| Munki distribution points, server (`munki/mdp`) | points, worker sessions with a lifetime, package states; per process: connections and the set each was sent | claim, renew, release, fan out, record a state, choose a point for a client | workers, Munki clients |
| Munki distribution points, worker (`munki/mdp/worker`) | a mirror on disk, jobs in flight | reconcile, download, verify, prune | the server |
| Software inventory (`inventory`) | titles, versions, what each host has | replace a snapshot, prune | osquery details |
| Web console: navigation, session, query cache (`web/src`) | the route and the navigation on its way; cached answers, requests, mutations; the account | navigate, guard, preload, fetch, invalidate, abort, sign in and out | the administrative API; other tabs and administrators |
| Web console: pages (`web/src/features`, `routes`) | none of their own | what each reads, offers and links to under which permission | the cache |
| Web console: forms and uploads (`features/*/{create,edit,fields}`, `hooks`) | a draft, its defaults, its errors; a submission with its upload | fill in, submit, cancel, leave, refetch, release an upload | the cache, the API, object storage |

### What is hard, and what makes each part correct

* **Santa.** The protocol has three kinds of requests and a client that can
  stop after any of them. Rules change between the requests, and no lock spans
  two of them. Correct means: the digest that the server confirmed is that of
  the targets it recorded; a delta is applied to the targets it was computed
  from; pages add up to the payload; removing a rule that grants transitive
  authority cleans the rules it produced; and a client left alone converges.
* **Policies.** An answer travels for an unbounded time while its policy is
  edited, retargeted or deleted, or asked again. Correct means: a status answers
  the present query, an older answer never replaces a newer question, each
  failure runs automatic remediation once, a script starts only while it is
  still called for, the first report stands, and no host stays pending for ever.
* **Live queries.** Results of many hosts, a stop, the deadline and the reads of
  the stream race for the same rows. Correct means: each target is settled once,
  the run completes with the last one, a stream that says so has told everything,
  and every stream ends.
* **Distribution points.** Session authority lives in PostgreSQL, connections
  in a process, bytes on a worker. Correct means: a worker converges to the
  desired set, and a client is never sent to a point for bytes it does not have.
* **Console.** Requests, aborts, invalidations, navigations and sign-outs
  interleave in one browser, and saves of several steps go on after their page
  was left. Correct means: what was saved is what is shown, nothing is left of
  an account that signed out, no page waits for nothing, no redirect runs in a
  circle; a form shows why it refuses, sends what the server takes, loses no
  installer and no draft without asking, and stops when it is cancelled.
* **Reports, labels, directory, enrollment, inventory.** Last-writer-wins
  updates that must not resurrect data of an older definition, and derived data
  that must not miss one of its inputs.

`PROJECT.json` lists every component, the hazards of each at its line, and the
properties that cover them.

## 2. Santa rule synchronisation

`SantaRules` is the rule algebra of `syncstate/rules.go` as pure operators: rule
sets as functions from identities to contents, the authorities they grant, the
counts a client reports, the payloads of a delta and of a whole set with its
tombstone, and pages. `SantaSync` is one host: its rows, the handlers, its
client and the administrators. `SantaTransfer` is the promise, with neither
requests nor pages, digests or payloads: the server prepares a set, the client
goes over to the prepared set as a whole or loses what it has, and the server
records a set as the client's only while the client holds it. `Transfer` is the
refinement mapping (prepared is `desired`, held is the client's rules, recorded
is `applied`), `ImplementsTransfer` the claim.

| Model | Code |
| --- | --- |
| `pending`, `confirmed` | the two halves of `santa_sync_state`, `None` for NULL |
| `desired`, `applied` | `santa_sync_targets` of either phase |
| `requests`, `reply` | HTTP requests in flight and the answer on its way |
| `client` | the Santa client: phase of its sync, rules, transitive rules, what it received |
| `resolved`, `policy` | what `ResolveRulesForHost` and `ResolveConfigurationForHost` return now |
| `ResolveConfiguration`, `ResolveRules` | `SyncService.Preflight` |
| `LoadPriorState`, `DecideSyncType`, `PreparePending` | `Store.PreparePending`; `RequiredSyncType` is `requiredSyncType` |
| `LoadNoPage` ... `LoadNormalPage` | `LoadPendingPayloadPage`, a step for each statement |
| `PromotePending`, `RejectPostflight` | `Store.PromotePending` with `validatePostflight` |
| `StartSync`, `Receive...`, `ApplyRules`, `GiveUp`, `LoseRules`, `CreateTransitiveRule` | the client, external |

A handler is cut wherever the code lets another transaction commit between two
statements. `PreparePending` reads without a lock, so it is three steps;
`PromotePending` holds the row lock, so it is one. Digests are modelled by what
they are digests of, free of collisions. The texts of a rule are part of its
content. The client applies a payload in one step; that is how Santa does it.

A client that gives a sync up closes its connection, and `net/http` then cancels
the handler's context and with it the transaction. `LateRequests` bounds the
requests that are handled nevertheless, after the client has gone on: behind a
proxy they can be. The passing run and the proofs, but for that of the types,
have none; run `santa_sync_overlap` has one and shows what it breaks.

Fairness: handlers run to completion (`WF(Server)`), and Santa syncs on a timer
and works its answers off (`WF` of `StartSync`, `Receive`, `ApplyRules`). That
it does not give up for ever is a premise of `Convergence`, not fairness.

## 3. osquery policies and remediation

`OsqueryPolicies` has all hosts and policies, their label, the two agents of
each host, and requests that outlive their sender.

| Model | Code |
| --- | --- |
| `policies`, `created` | `osquery_policies` and its id sequence |
| `members` | `label_membership`; the view `osquery_policy_assignments` is `Assigned` |
| `scriptable` | hosts with an Orbit node key and scripts enabled |
| `membership` | `osquery_policy_membership`: status, last conclusive one, issued and completed sequence, sequence of the last failure |
| `runs` | `osquery_policy_remediation_runs`, the latest of each host and policy |
| `osquery`, `orbit`, `late`, `losses` | the agents, requests given up but still on the way, failures so far |
| `Create`, `Update`, `Delete` | the administrative operations, with the deletes of `Update` and the foreign key cascades |
| `BeginRead`, `FinishRead`, `FailRead` | `IssueEvaluationsForHost`: its snapshot, then its upsert |
| `DistributedWrite`, `DeliverLateWrite` | `RecordEvaluations`, one transaction that locks policy and membership |
| `RunRemediations` | `RunRemediations` with `enqueueRemediationBatchTx` |
| `OrbitConfig`, `GetScript`, `SkipScript`, `RecordScriptResult` | `EnrollmentService` over `PendingRemediationExecutionIDs`, `RemediationExecution`, `RecordRemediationResult` |

The issue is two steps because it takes no lock: an edit can commit after its
snapshot and before its upsert. The other operations lock the policy row, or are
single statements, and are one step. Five fields are history that the program
does not keep (`nth`, `answered`, `remediated`, `overtaken`, `delivered`), and
no guard of the program's actions reads them; they are what the properties
compare with. The guard of `AbandonRound` does use `nth`, as a bound.

Fairness: both agents poll on a timer, and the handlers of what they send run to
completion: `WF(Osquery(h))`, `WF(Orbit(h))`. Edits, crashes and late deliveries
are never forced.

`PolicyRemediation` is the promise, without revisions, sequences or the columns
a run is compared by: of each policy and host a status and the latest run, and
what each host executes. A row passes, fails, fails and is remediated on the
spot, and so on (`RowStep`); a transaction of the store lets every row take such
a step or none. The mapping `Remediation` takes `overtaken` for a run that is
stale, `delivered` for one that was started, the third part of an execution for
its number, and a host for busy while its script runs. What a reader of the code
would ask for is then in the guards of `PolicyRemediation`: a run with work to do is never
replaced, automatic runs follow a failure that no other one precedes, a stale
run is not started, and a report is of the run in the row, never of one that was
queued for the same host before.

The sources contain no operation behind the "Reset result" of
`docs/content/admin/osquery.md`, so there is no action for it.

## 4. Live queries

`LiveQueryRuns` is the promise: runs that start on some hosts, targets that are
settled once each, a run that is complete when, and only when, no target is left,
old runs that are forgotten. `LiveQueries` is how the store keeps it: every
result, stop and snapshot is a transaction that begins (which fixes `now()`),
locks and reads its run (`FOR UPDATE`), writes, and commits; until then it may be
rolled back. Writes become visible at the commit, as under READ COMMITTED.
`Abstract` is the refinement mapping, `ImplementsRuns` the claim.

| Model | Code |
| --- | --- |
| `clock` | PostgreSQL's `now()`; `runTimeout` and `completedRetention` in ticks |
| `runs`, `targets`, `used` | `osquery_live_query_runs`, `osquery_live_query_targets`, the id sequence |
| `handed` | runs a host has been given, and may answer, again, at any time |
| `tx` | the transaction of each connection: `Requests` for results and stops, one for each stream |
| `stream` | what the client of an event stream was told |
| `LockRun`, `NothingToDo` | `SELECT ... FOR UPDATE` and the early returns after it |
| `RecordResult`, `Stop`, `Snapshots`, `ExpireRun` | the operations of that name |
| `Commit`, `Rollback` | commit, or an error or canceled context before it; a failed read ends its stream |
| `Start` | `Store.Start`: deletes old runs with their targets, inserts the new one |
| `DistributedRead`, `DistributedWrite` | `queueLiveQueries`, `handleLiveResult` |
| `PollStream`, `CloseStream` | `loadLiveQuery`, `streamLiveQuery` |

`Start` waits for the locks of the runs it deletes, so it is one step that is
enabled when they are free. The model takes its `now()` at that moment. A client
may poll at any time; only an open stream is obliged to.

Fairness: time passes (`WF(Tick)`), a transaction past its lock goes on
(`WF(Transaction(s))`), PostgreSQL grants the lock of a row to every transaction
that keeps waiting for it (`SF(LockRun(s))`), and an open stream polls on its
ticker. Rollbacks, hosts and administrators are not forced to do anything.

## 5. The web console

Two specifications: `Console`, which is one query of the cache in a browser that
moves about, and `ConsoleForms`, which is one form. Both are small; what makes
them about this console is the tables they are instantiated with.

### The console in motion

| Module | Holds |
| --- | --- |
| `ConsoleBase` | the vocabulary: permissions, queries, mutations, routes, pages |
| `ConsoleQueries` | every query and mutation of `features/*/queries.ts`: the key, the permission the API asks, the tables read and written, what a success marks, fills in or removes |
| `ConsoleRoutes` | every route: its guard, where a refusal leads, what its loader waits for, the sorts its search keeps |
| `ConsolePeople`, `ConsoleInventory`, `ConsoleOsquery`, `ConsoleSanta`, `ConsoleMunki` | every page: what it reads, offers and links to, each under the permission `useCan` asks |
| `ConsoleLayout` | the roles the migrations seed, the sidebar, the chain of guards of a path |
| `ConsoleTables` | the setting of `Console` for a watched key: who reads it, who waits for it, which change touches it and how |
| `Console` | the state machine |

| Model | Code |
| --- | --- |
| `server`, `tab` | the session the server accepts; the account in the cache |
| `page`, `going` | the router's location and its pending navigation: guards, then loaders |
| `cache`, `fetch` | the entry of the watched key and its request; `late` and `was` record what an abort or an older answer does to a mark |
| `flight` | the mutation: sent, applied, settling while it waits for its refetches |
| `writes`, `acked`, `forgotten` | history: writes applied, those whose success was acted upon, accounts whose cache was cleared |
| `Navigate`, `Follow`, `Preload` | `requireUser`, `requirePermissions`, `loadResource`, the router's intent preload |
| `Answer`, `Receive`, `FetchFails`, `Refetch`, `Collect` | TanStack Query with the options of `query-client.ts` |
| `Submits`, `Apply`, `MutationFails`, `OnSuccess`, `Finish` | the mutations with their `onSuccess`, `invalidateAfterDelete` |
| `SessionEnds`, `ExpireSession`, `Logout`, `SignIn`, `LearnAccount` | `session-expiry.ts`, `authn/queries.ts`, `AuthzProvider` |

An answer is the number of writes the server had applied when it gave it. That
is what makes `ReadYourWrites` a statement about every query at once: a valid
entry is at least as new as the last acknowledged change. A mutation *answers*
for the queries of its own feature; those of another feature grow old. That the
key tables keep this promise, `AnswersReached`, is an assumption TLC evaluates
over all mutations and all queries of the console. `EntersServed` compares every
page with the API: what a page asks for, offers and links to is permitted to
the role that enters it, and the sorts in its address are sorts the API knows.

TanStack Query and Router are not in the repository: the definitions marked
external say what they do with what the code asks of them.

Fairness: the browser gives every request an answer or an error in the end and
runs what waits for it (`WF(Reply)`, `WF(Save)`). A user does nothing by duty.

### A form at work

`ConsoleControls` is the vocabulary: a form is its tabs, its controls with the
condition each is shown under, its schema, its two adapters and the server's
validation. `ConsolePackageForm`, `ConsoleMunkiForms` and `ConsoleFormFields`
write thirteen forms down in it. A value is a string named for what the rules
tell apart. `ConsoleForms` is what happens to one of them.

| Model | Code |
| --- | --- |
| `page.draft`, `page.base`, `page.seen` | the values of `useForm`, its defaults, the record the page has read |
| `page.dialog`, `page.allowExit`, `page.callbacks` | the dialogs and the exit of `usePageFormExitGuard`; the callbacks that opened it and are awaited |
| `subs` | a submission: the requests it still has to make, of an upload (`useUpload`) and of the record |
| `objects`, `server` | the uploaded objects, the record and the object it has |
| `wire`, `lost` | requests under way, which may be served after their sender gave up; those lost |
| `Fill`, `Submit...`, `ConfirmReset` | the controls, `handleSubmit`, the dialog before results are erased |
| `Serve`, `Written`, `Moved`, `Released`, `Attached` | the handlers: write a record and claim its object, the steps of an upload, release an unclaimed one, set an icon |
| `DeleteUnreferenced` | the deletion of the object a write let go, after its commit |
| `Advance`, `Fail`, `GivenUp`, `Finish`, `EndRelease` | `mutationFn` of `useUpload` with `cleanupIntent`, and `onSubmit` around it |
| `Cancel`, `ConfirmDiscard`, `onCancel` | the cancel of `packages/edit.tsx` with its aborts |
| `runWithoutPrompt`, `ranWithoutPrompt` | the two halves of `runWithoutPrompt` in the guard, before and after its callback |
| `DiscardAwaited`, `RunLive`, `CallbackNavigates`, `CallbackOvertaken` | the callbacks that are awaited: a discard of a policy or a report and Run Live; each navigates, or ends overtaken |
| `AfterSave`, `AnswerOffer` | `onSuccess`, and the offer to run a changed remediation |
| `FollowLink`, `ConfirmLeave`, `Leave` | the blocker, and a page left with its save under way |
| `Refetch`, `Reopen`, `OthersSave`, `Undeploy` | a newer record under a draft, with and without a `key`; other administrators |

`SentIsAccepted` and `SavedReopens` compare four pieces of code with each other:
the schema, the adapter that makes the request, the validation in Go and the
adapter that opens the record again. Two values are known to pass the first and
fail the third, and are named in the form's `overlooks`: a software name such as
`app--1-b` (`features/munki/software/fields.tsx:16` against
`internal/munki/software/model.go:91`), and a full sync interval past 32 bits
(`features/santa/configurations/form-schema.ts:24` against
`internal/santa/configurations/model.go:140`). One field, the text of a footer,
can be refused without a message (`silent`).

`runWithoutPrompt` opens the exit, awaits its callback and shuts the exit. The
callbacks of policies and reports (`awaits`) are asynchronous: they wait for the
history entry and navigate (`osquery/live/history.ts`). They are two actions,
and anything may happen between them: a link, typing, a refetch, the end of a
save that is out of sight, a second callback. The flag is one for all, so the
first callback to end shuts the exit, and the navigation of the other is held
up. The callbacks of the other forms do not wait for anything, and their discard
is one step. Run Live leaves a page with changes without asking, as the code
means it to: the draft goes along in the history entry. `LeavesAsked` therefore
allows what leaves a page while a callback is awaited, and asks of the guard
that the exit is open at no other time and that no discard begins on a page with
changes but from its dialog.

Who refuses to release the object of a record is the foreign key of the record
(`010_munki.sql:63`), which the storage library meets on deleting; `Released` is
mapped to it. An object that a write lets go is deleted after the commit, in a
transaction of its own, and the same key keeps one that is referenced again.
`canCancelWhileSubmitting` of the package form is `isUploading`, which ends when
the upload does and, if it failed, when its release is over (`uploading`).
Taking client resources away is one step: the dialog that confirms it keeps the
page as it is until the request is answered, so the step is the moment it is
served, and one that is lost changes nothing.

Fairness: a request is answered or lost, an object that was let go is deleted
and the browser goes on with an answer (`WF` of the steps that take a request
off the wire, `WF(DeleteUnreferenced)`, `WF(Browser)`); a tab that
is closed in the middle of an upload is not modelled, and `UploadsSettle` does
not speak of it.

## 6. Runs and bounds

| Run | Shows | Bounds |
| --- | --- | --- |
| `santa_sync` | type invariant, `ConfirmedIsApplied`, `NormalStartsFromApplied`, `DownloadIsWholePayload`, `AuthorityDroppedOnPromote`, `ImplementsTransfer`, `Convergence` | 2 identities, 3 rule sets, 2 configurations, pages of one rule |
| `santa_sync_overlap` | a late postflight refutes `ConfirmedIsApplied` | 1 identity, 2 contents, 1 late request |
| `santa_sync_transitive` | a lost postflight refutes `TransitiveRulesHaveAuthority` | 1 identity, a compiler rule that becomes a plain one |
| `policies_safety` | type invariant, `StatusAnswersCurrentQuery`, `OneAutomaticRunPerFailure`, `StartedRunsAreCurrent`, `PendingRunIsNotRequeued`, `FirstReportStands` | 1 host, 1 policy, 3 revisions, 3 issues, 2 manual runs, 1 loss, 1 late request |
| `policies_answers` | `AnswersLatestIssue`, `CurrentAnswersAreRecorded` | 2 policies without remediation, 3 revisions, 2 issues, 1 loss, 1 late request |
| `policies_liveness` | `EvaluationsSettle`, `RunsFinish` under fairness; `ImplementsRemediation` | 1 policy that is also retargeted, 2 revisions, 3 issues |
| `policies_reissue` | a retargeted policy refutes `AnswersLatestIssue` | 2 issues |
| `policies_redelivery` | a crash refutes `RunsAreNotRedelivered` | 2 issues |
| `live_queries` | `CompletedStreamsToldAll`, `ImplementsRuns`, `StreamsEnd` under fairness | 1 run, 2 hosts, 2 requests and a stream, 1 tick, which is the run's time |
| `live_queries_retention` | type invariant, `ImplementsRuns` with deletion | 2 runs, 1 host, 1 request and 2 streams, any two of them at once, 3 ticks |
| `console` | type invariant, `ReadYourWrites`, `LogoutForgets`, `NeverBlank`, `RefusalSettles`, `EntersServed`, `SavesEnd` | an administrator, a viewer and an account without a role; all pages without a watched key, three watched keys with the pages near them; 2 writes |
| `console_forms` | type invariant, `ErrorsShown`, `SentIsAccepted`, `SavedReopens`, `InstallerIntact`, `LeavesAsked`, `ResetConsent`, `CancelMeansCancel`, `UploadsSettle` | 13 forms; calm settings with up to 7 controls and one submission, disturbed ones with 2 submissions, one lost request or one save by somebody else: for a package a user who leaves, 2 submissions and a lost request at once, for an icon or client resources any two of these; 277,262 states |

Why these are enough:

* *Santa.* The rule sets are no rules, a plain rule, and a compiler rule with a
  CEL rule. Between them rules come, go and change, authorities appear and
  disappear, deltas are empty, one page and two pages long, and the whole set is
  empty, which needs the tombstone. Hashes are free, so two configurations give
  every comparison of digests. The number of syncs is not bounded.
* *Policies.* Three revisions are an edit and its return; three issues are a
  failure, an error and a failure, or an answer, a superseding question and a
  late answer. `LastRead` forbids edits after the last issue that the bound
  allows: without it a host would stay pending only because the model stops
  asking. `DeliverLateRead` and `AbandonRound` leave the last issue to a live
  round for the same reason. None of these bounds hides a history, they cut its
  end.
* *Live queries.* Two requests and a stream on one run are all pairs of
  transactions that can race, and the three together; two hosts are a last and a
  last but one target. One tick is enough for one run: its deadline is compared
  with `now()` and with nothing else, and what began before the tick may write
  after it. `Start` leaves time for its run to expire, without which `StreamsEnd`
  would fail only because the clock stops. With two runs the clock lets a run be
  deleted that is complete, and one that is merely overdue; `AtMostTwo` keeps to
  pairs of transactions there, since the run above has three at once. Ids are
  symmetric in that run; no property there depends on their order.
* *Console.* Two writes are an acknowledged change and one that overtakes it. The
  watched keys are a record that saves fill in (a user), one that is loaded,
  listed and deleted (a label), and one that is removed and polled (a policy's
  results); every other key is touched in one of these ways. `VIEW` leaves out
  of a state only what its setting's key and visitors determine.
* *Forms.* The calm settings group the fields that rules relate, and try every
  value of them in every order, which is what the schema, the visibility of
  controls and the adapters depend on. The disturbed ones vary one or two fields
  and everything else: two submissions overlap, one of them out of sight, with
  cancellation, a lost answer and a competing save. For the installer of a
  package, whose upload can be cancelled while it runs, a lost request, a second
  submission and a user who leaves come together; for an icon and for client
  resources any two of them do (`AnyTwo`). With somebody else's save, a package
  is submitted twice by a calm user or once by one who leaves. The ways out that
  are awaited overlap in the settings of policies and reports, whose user may
  discard, run live and follow links in any order; a policy is also saved with a
  new script for its remediation, which may bring the offer. A third submission starts only when
  the first is over.

`CHECK_DEADLOCK FALSE` is set for live queries and forms: when every run is used
up and its streams are closed, or the user has left for good, nothing need happen. Every other instance always has
a next step.

The definitions `PROJECT.json` names as the form of a mutant are not part of a
specification: each is a mapped definition with the mistake a change to the
code could make (a dropped guard, a missing lock, a comparison of the wrong
column), and the property it is paired with in `PROJECT.json` finds it.

## 7. Proofs

`tlapm` checks every theorem to its leaves. None of them bounds hosts, rules,
policies, runs, revisions or time.

* `SantaSyncProofs`: `TypeCorrect`, `ConfirmedDigestIsApplied`,
  `DeltaStartsFromApplied`, `PagesAddUp`, `RemovedAuthorityIsDropped`,
  `SyncImplementsTransfer`. `TypeCorrect` holds for any number of late requests:
  `LateInv` keeps the late ones and the one the client waits for apart and
  counts them, and `DigestsTaken` says that a preflight past its first step has
  a digest to store. The others assume `LateRequests = 0` and say so; what a
  late request does to them `santa_sync_overlap` shows. Their invariant follows
  the exchange: `OneExchange` (at most one request or answer is outstanding, and it is the one
  the client's phase waits for), `PreflightInv` and `PreparedInv` (what a
  preflight has read so far is still true, since only the client's own requests
  change it), `DownloadInv` (what was received is the pages up to an offset of
  the payload that is pending now), `PostflightInv` (the table the client
  reports is what promoting will record). `AuthorityInv` adds where transitive
  rules can still be. The rule algebra gives lemmas of its own: a delta applied
  to its base is the desired set, digests are injective, pages partition a
  payload. The refinement rests on all of it. `ApplyRules` is `Adopt` because the
  payload received is the pending one and is applied to the table it was made
  for; `PromotePending` is `Record` because a client that waits for the answer to
  its postflight still holds the desired set.
* `OsqueryPoliciesProofs`: `PoliciesTypeCorrect`, `StatusIsCurrent`,
  `OneAutomaticRun`, `PendingRunStays`, `FirstReport`, `StartedRuns`, from the
  assumptions of the module alone. The invariant says how the columns of a
  membership are related (`MembershipInv`: a failure is not newer than the last
  answer, which is not newer than the last issue) and how a run relates to its
  membership (`RunInv`: its id was never used for another one, and if it was
  overtaken then one of the columns it is compared by differs).
* `OsqueryRemediationProofs`: `PoliciesRefine`, from the assumptions of the module
  alone. `RefineInv` adds three facts to that invariant. A run that nothing
  overtook agrees with policy and membership in every column the upsert and the
  delivery compare (`FreshInv`): the converse of what `RunInv` says of an
  overtaken one, and the reason why the upsert cannot replace a run with work to
  do. Whatever is being executed or reported, by a host or by a late request,
  has a number that was given out, and the run that has it was started
  (`FetchedInv`). A host is notified of its own runs only (`PendingInv`). A step
  of the store then does one of eight things to a row (`PairCases`), each a
  `RowStep`; a step of Orbit starts a run, stops, or is one of those.
* `OsqueryAnswersProofs`: `AnswersAreLatest`, `CurrentAnswersRecorded`. Both have
  the premise `[][StaysTargeted]_vars`: no edit takes a policy from a host that
  had it, but one of the query, which starts a revision. Without it they are
  false, as `policies_reissue` shows: sequences start again under the same
  revision, and an answer to the first question passes for one to the second.
  `RoundInv` speaks of every question that may still be answered: one the host
  works on, one whose answer it holds or whose answer is under way. Its revision
  is one the policy had, and stands for one query; of the present revision, it is
  as far behind the row's sequence as behind the last question the host was asked
  (`AskedInv`). A policy is asked about once in a round and a question answered
  once, however often the answer is sent (`OnceInv`). What a row counts as
  completed was answered, with the status it has (`CompletedInv`). That answers
  are not lost follows from the same facts: a current one passes every guard of
  `RecordEvaluations`.
* `LiveQueriesProofs`: `LiveQueriesTypeCorrect`, `StreamsAreTold`,
  `LiveQueriesRefine`, from the assumptions of the module alone. The invariant
  is what the lock buys: at most one transaction is past the lock of a run
  (`OneLock`), the run is still there and as it was read (`LockedRuns`), so what
  it has written is still a step of `LiveQueryRuns` when it commits
  (`WrittenWork`), and a run is complete exactly when nothing is pending
  (`CompleteRuns`).
* `ConsoleProofs`: `TypedInvariant`, `ConsoleTypeCorrect`, `ReadsYourWrites`,
  `SignOutForgets`, `PagesAsk`, `RefusalsAreTwo`, `OnlyTheLetInEnter`,
  `WhoEntersIsServed`, for every set of accounts, every layout of pages and every
  number of writes. They assume `ConsoleAssumption`, `SettingsAssumption` and, of
  the changes a page offers, `RootsCover`: what a change answers for it fills in
  or marks. `FreshInv` strengthens `ReadYourWrites` by the request in flight: its
  answer, once it has one, is new enough or it is marked late, and an entry to
  which an abort would return is either. `ForgetInv` adds who the answers in
  flight are for. `NavigationInv` and `CountedInv` add to these what the type
  invariant needs: an entry that an abort returns to, too, counts no more writes
  than the server has applied.

  `RefusalsAreTwo` and `WhoEntersIsServed` need one fact each about the layout,
  which stands in the theorem: `RedirectsLead` (a refusal leads to where the same
  role is not refused) and `GuardsCover` (what a page in reach does not serve a
  role, a guard of it refuses). They are hypotheses and not assumptions of the
  module because the mutants of `RefusalSettles` and `EntersServed` are layouts
  without them; TLC evaluates both to true on `MCSettings`, the layout of the
  sources. What is left for the proof is what no table can show, the timing.
  `SettleInv`: after the refusal of a cached account the navigation is on its way
  to where that account is let in, so that a second refusal is of the account
  the server knows instead, and by then the tab knows it too. `ReachInv`: loaders
  run for an account that was let in, so an account that changes while they do
  starts the guards anew; `OnlyTheLetInEnter` (`EntersLetIn`) needs no hypothesis.
* `ConsoleFormsProofs`: `InstallerStaysIntact`, `LeavingIsAsked`,
  `CancelledIsNotWritten`, for every form, setting and number of submissions,
  whatever its controls, schema and adapters compute. They assume
  `FormsAssumption`: an upload is made of known requests, and a form whose save
  can be cancelled while it runs releases what it uploaded. `FormInv` strengthens
  the properties by what links a submission to its page: the exit is open only
  while a callback of the form's is awaited (`ExitInv`), so that a page with
  changes that nobody has a way out of is blocked, whichever callback ended
  last; while the user is asked whether to discard only cancellable submissions
  are under way, a submission that saved
  has nothing left to do, and a discarded one has at most its release. That a
  release and a late write meet in either order is settled by the server
  (`ServedIntact`): each of the two looks at what the other leaves behind.

  `FormsTypeCorrect` and `ErasingIsConfirmed`, in the same module, use the part
  of `FormsAssumption` that says a record, a form's tabs, its uploads and the
  fields it asks about are of the form. `RecordsInv` follows what the page has
  read. Values have the
  fields of the form wherever they are copied (`FieldsInv`); a page has read a
  version no newer than the record's, and its values if it is the same
  (`ReadInv`); a submission that did not ask, of the version the record still
  has, leaves what erasing depends on as it is (`SavesInv`), whatever the draft,
  the page and the dialog have become since it was sent. The last is needed of
  submissions that ended too: their request may still be served.
  `NoHiddenErrors` proves `ErrorsShown` from `ErrorsAssumption`, a statement about
  the tables of the forms: where no control shows an error whenever the schema
  finds it (`Unseen`), the empty form does not have it, no choice brings it about
  or leaves it without a control (`Tolerates`), and no record opens with it
  (`KeptOut`: it takes a value that is never read back, or one the server
  refuses). Each of these looks at one error and one choice at a time, and TLC
  evaluates it on the thirteen forms in every run of `ConsoleForms`. What the
  theorem adds is that steps cannot combine into a hidden error: `SurfacedInv`
  says that the draft, the record as read and the record on the server show
  their errors, for all fields at once and any number of submissions, where the
  run varies up to seven controls of a form.
* `ConsoleSavesProofs`: `NoSaveIsRefused`, `SavesReadBack`, for every form, setting
  and number of submissions. `SavesAssumption` says of the tables of a form, in the
  terms `ConsoleControls` ends with, what its rules have to agree on: what the
  server refuses, of the fields that decide one refusal, the schema does not let
  through (`SendsAccepted`); what is read back breaks no rule and is sent as it
  was, of the fields that decide one rule or one field (`ReadsBack`); what a
  control bars, no choice brings about (`BarsHold`); an object that comes after
  its record is nothing rules are about (`LateApart`), and a form that asks before
  it saves edits its own records (`AsksApart`). TLC evaluates it on the thirteen
  forms, over every value of the few fields that meet in a rule; the run of the
  same properties varies a few fields of a form from one record. An adapter, a
  schema and a server rule that disagree make it false. The theorems add what no
  table says: all fields at once, and the steps between reading a record and
  writing it. `LateInv` says that an icon that arrives late finds its record.
  `ConfirmedInv` says that drafts hold values that can be chosen or read and
  nothing barred, and that every record, on the page or the server, opens as it
  was saved. Two of its parts are there because a body outlives what judged it:
  `AskInv` (the dialog about results stands over a draft without errors, so
  confirming needs no second look) and `SentInv` (a body is settled when it is
  sent, and remains so whatever becomes of page and record).

Each inductive invariant was checked with TLC on the instances above before it
was proved; the `LateInv` of Santa on that of `santa_sync_overlap`, `RoundInv`
on that of `policies_answers`, where every host stays targeted, and `RefineInv`
on that of `policies_safety`.

Model-checked only: `Convergence`, `EvaluationsSettle`, `RunsFinish`,
`StreamsEnd`, `SavesEnd` and `UploadsSettle`, because liveness under fairness is
beyond the prover. That `ErrorsAssumption` and `SavesAssumption` hold of the
thirteen forms is evaluated by TLC and not proved.

## 8. Where code and documents disagree

* **A late postflight confirms the wrong set** (`santa_sync_overlap`,
  `promote_store.go:123`). A postflight names no sync. One that is handled after
  the next preflight is accepted when its type and counts fit, and the server
  then records targets its client never received, with another set's digest.
  The guide says a postflight confirms the applied rule set.
* **A reverted compiler rule leaves its transitive rules**
  (`santa_sync_transitive`, `prepare_store.go:100`). The client applies a
  compiler rule, its postflight is lost, the rule is replaced by a plain one. The
  comparison with the confirmed targets finds no authority removed.
* **An evaluation identity is issued twice** (`policies_reissue`,
  `store.go:221`). Retargeting a policy away from a host and back restarts the
  sequence under the same revision, and the late answer to the first question
  becomes the answer to the second. The comment promises a monotonic identity.
* **Runs are redelivered** (`policies_redelivery`, `remediation.go:433`). The
  administrator's guide says they are not; the code and its tests offer an
  execution until its first report.

## 9. Plan

In this order:

1. `MdpHub`: the connections of one server process, the fan-out and the first
   set of a new connection, with the lock, the queue and the writer apart.
   Property: once the desired set is stable, every connected worker is sent it
   last. `enqueueDesired` gives reason to doubt it.
2. `MdpWorker`: jobs of one worker, their cancellation, the shared temporary
   file, the mirror and its snapshot on disk, restarts. Property: the mirror
   never claims bytes that are not on disk, and converges.
3. `MdpSystem` composes both with the sessions and package states in PostgreSQL
   and the choice of a point: a client is sent only to a point of a live session
   that reported the bytes; replaced and expired sessions record nothing.
   Theorem: at most one connection is current, and states are of its session.
4. `OsqueryReports`: definitions and snapshots; no snapshot of an older query,
   none older than the one it replaces. Theorem: a snapshot is of the present
   query.
5. `DerivedLabels`: dynamic results, the directory snapshot and a host's refresh
   as READ COMMITTED transactions. Property: when they are over, derived
   memberships are those the criteria give.
6. `PolicyLocks`: the row locks of concurrent writes, for the deadlock that
   their order allows.

One run can answer one question for several modules of the plan: `MdpSystem`
instantiates the first two, and its run checks them together.

## 10. What is not modelled

* Parsing and projection of osquery rows, pkginfo import, payload and page
  encodings, wording: data that no property here tells apart.
* The transactions behind edits of Santa rules, configurations, Munki software
  and packages, users: single ones, whose effect enters the models as "the
  resolved rules change", "a label changes" or "the record is written". Their
  validation is modelled with the forms.
* Authentication of agents, HTTP plumbing, configuration, start-up and shutdown:
  no protocol between actors. Roles enter the console's tables as seeded.
* The archives of client resources and their clean-up, software inventory and
  history jobs: several steps each, after the plan above.
* The River job runtime, PostgreSQL and the agents themselves are external; the
  models say how the code uses them.
* Of the web console: the UI kit under `components/ui`, the editors and tables,
  the paging and filters of lists, dialogs that edit a single value, styling and
  wording; the generated API client. A closed tab. The live query page, with the
  draft that Run Live takes along and hands back on return: the models follow
  the form until it is left.
* An object whose deletion after a commit is cut short by a crash, and the
  clean-up of uploads that were given up (`storageUploadCleanupStarter`), which
  is the storage library's.
* Three halves of hazards that are modelled, and that no property covers:
  a download that outlives its sync, but for what `santa_sync_overlap` shows of
  it (the other runs of Santa have no late requests); the answer to a request
  that an invalidation joined or whose abort takes back the mark, which
  `ReadYourWrites` exempts; and the redirect of a guard that finds no user
  (`guards.ts:21`), which does not clear the cache and of which `LogoutForgets`
  does not speak.
* The Stemma plugin, documents, schema files and tools.
