------------------------------ MODULE ConsoleBase ------------------------------
(***************************************************************************)
(* The vocabulary in which the modules Console<Feature> tabulate the web   *)
(* console: what its pages ask the API, what they let an administrator     *)
(* change, which cached answers each change marks stale, and which routes  *)
(* lead to them.  Ids are left out: a console here works on one record of  *)
(* each kind, and a list is whichever page of it the browser shows.        *)
(*                                                                         *)
(* The line above a definition names the file and lines of src/web/src (or *)
(* of src/, for Go) the definition stands for; features/ and routes/ of    *)
(* the web application are written without their src/web/src.              *)
(***************************************************************************)
EXTENDS Integers, Sequences, SequencesExt, FiniteSets

(* A requirement on the permissions of the signed-in account.               *)
\* features/authz/permissions.ts:1-6 PermissionRequirement
View(resource) == <<resource, "view">>
\* features/authz/permissions.ts:1-6 PermissionRequirement
Edit(resource) == <<resource, "edit">>

(* The key of one query lies under a key given to invalidateQueries.        *)
\* external partialMatchKey
Under(key, prefix) == IsPrefix(prefix, key)

(* A query: its key, what the API requires ({} where a session is enough),  *)
(* the tables its answer is read from, the seconds after which a mounted    *)
(* query asks again (0: never), whether a list keeps showing the previous   *)
(* answer while the next one is on its way, and the sorts the API knows.    *)
\* lib/api.ts:68-79 unwrap
Query(key, needs, from) ==
  [key |-> key, needs |-> needs, from |-> from, every |-> 0, keep |-> FALSE, orders |-> {}]
\* src/internal/postgres/list_query.go:109-144 OrderBy
Listed(query, orders) == [query EXCEPT !.keep = TRUE, !.orders = orders]
\* external refetchInterval
Polled(query, seconds) == [query EXCEPT !.every = seconds]

(* A mutation: the tables it writes, the keys under which its success marks *)
(* every cached answer stale, the keys it fills with the answer, those it   *)
(* removes, and the key of the record it deleted.                           *)
\* external useMutation
Mutation(name, needs, into, stale) ==
  [name |-> name, needs |-> needs, into |-> into, stale |-> stale,
   sets |-> {}, removes |-> {}, deleted |-> {}]
\* lib/query-invalidation.ts:6-20 invalidateAfterDelete
Deletion(name, needs, into, record, stale) ==
  [Mutation(name, needs, into, stale) EXCEPT !.deleted = {record}]

(* A route: its segments (a layout's are a prefix of its pages'), what its  *)
(* guard requires and where a refusal goes (<<>>: the first page the        *)
(* account can open), the queries its loader waits for, and the sorts its   *)
(* search keeps.                                                            *)
\* external createFileRoute
Route(path, needs, refused, loads) ==
  [path |-> path, needs |-> needs, refused |-> refused, loads |-> loads, sorts |-> {}]
\* external createFileRoute
Plain(path) == Route(path, {}, <<>>, {})
\* lib/table-search.ts:14-40 createTableSearchSchema
Searched(route, sorts) == [route EXCEPT !.sorts = sorts]

(* A part of a page: what it reads and the column headers that sort it,     *)
(* what it lets an administrator do and where it links, each only with the  *)
(* permissions it asks useCan for.  goes: where a success leads, <<>> when  *)
(* the page stays.                                                          *)
\* external useQuery
ReadsIf(when, queries) ==
  {[query |-> q, when |-> when, headers |-> {}, every |-> q.every] : q \in queries}
\* external useQuery
Reads(queries) == ReadsIf({}, queries)
\* components/data-table/data-table.tsx:141-151 DataTable
Sorted(query, headers) ==
  {[query |-> query, when |-> {}, headers |-> headers, every |-> query.every]}
\* external refetchInterval
Every(seconds, reads) == {[r EXCEPT !.every = seconds] : r \in reads}
\* features/authz/access.tsx:1-13 useCan
Offer(mutation, when, goes) == [mutation |-> mutation, when |-> when, goes |-> goes]
\* external Link
LinkTo(path, when) == [to |-> path, when |-> when]
\* external Link
Links(paths, when) == {LinkTo(p, when) : p \in paths}
\* external React
Part(reads, offers, links) == [reads |-> reads, offers |-> offers, links |-> links]

(* form: "" when the page edits nothing, "guarded" under                    *)
(* usePageFormExitGuard, "plain" when an edit is thrown away without asking.*)
\* external React
Page(path, parts, form) ==
  [path |-> path, form |-> form,
   reads |-> UNION {p.reads : p \in parts},
   offers |-> UNION {p.offers : p \in parts},
   links |-> UNION {p.links : p \in parts}]
=============================================================================
