----------------------------- MODULE ConsoleTables -----------------------------
(***************************************************************************)
(* The layout of the console as the model of it at run time (Console)      *)
(* takes it: for a few keys of the query cache, which pages watch them,    *)
(* wait for them or change what is behind them, and what a change does.    *)
(***************************************************************************)
EXTENDS ConsoleLayout

(* What a mutation does to the answer behind a key, and to the key.          *)
\* query-client.ts:6-29 queryClient
QueryAt(key) == CHOOSE q \in Queries : q.key = key
\* external partialMatchKey
Within(key, keys) == \E prefix \in keys : Under(key, prefix)
\* lib/api.ts:68-79 unwrap
Writes(m, key) == m.into \cap QueryAt(key).from # {}
\* lib/query-invalidation.ts:6-20 invalidateAfterDelete
Stales(m, key) == Within(key, m.stale) /\ ~Within(key, m.deleted)
\* external QueryClient
Touches(m, key) ==
  Writes(m, key) \/ Within(key, m.stale \cup m.sets \cup m.removes \cup m.deleted)

(* The mutations of a feature answer for the feature's own queries; those of *)
(* another are left to grow old.  One is not answered for: to queue          *)
(* remediations marks the policy's results stale and not the runs            *)
(* (osquery/policies/queries.ts:235).                                        *)
\* lib/query-invalidation.ts:6-20 invalidateAfterDelete
Acknowledges(m, key) ==
  /\ Writes(m, key)
  /\ \E k \in m.stale \cup m.sets \cup m.deleted : Head(k) = Head(key)
  /\ ~(m.name = RunRemediations.name /\ key = RemediationRunQuery.key)

(* What a mutation answers for, its success reaches: by a mark, a new answer *)
(* or the removal of the old.  TLC compares all mutations with all queries.  *)
ASSUME AnswersReached ==
  \A m \in Mutations, q \in Queries :
    Acknowledges(m, q.key) => q.key \in m.sets \/ Within(q.key, m.stale \cup m.deleted)

\* lib/query-invalidation.ts:6-20 invalidateAfterDelete
EffectOn(key, m) ==
  [writes |-> Writes(m, key), answers |-> Acknowledges(m, key),
   sets |-> key \in m.sets, removes |-> Within(key, m.removes),
   marks |-> Within(key, m.stale \cup m.deleted), refetches |-> Stales(m, key)]
-----------------------------------------------------------------------------
(* The pages that show a query, load it or change it, and those between      *)
(* which a browser that watches it moves.                                    *)
\* external useQuery
Seats == {<<role, path>> : role \in Roles, path \in PagePaths}
\* external useQuery
ReadersOf(key) == {t \in Seats : \E r \in Enabled(t[1], PageAt(t[2])) : r.query.key = key}
\* lib/resource-loader.ts:8-23 loadResource
LoadersOf(key) == {path \in PagePaths : \E q \in Loads(path) : q.key = key}
\* features/authz/access.tsx:10-13 AuthzProvider
OffersOn(key) ==
  UNION {{[at |-> t, effect |-> EffectOn(key, o.mutation), goes |-> o.goes] :
            o \in {o \in Offered(t[1], PageAt(t[2])) : Touches(o.mutation, key)}} :
         t \in {t \in Seats : key # <<>>}}
\* features/authn/guards.ts:25-43 requirePermissions
RedirectTable ==
  {[at |-> t, to |-> Redirect(t[1], t[2])] : t \in {t \in Seats : TurnedAway(t[1], t[2])}}

(* Where a refusal leads but to the first page of a role.                    *)
\* features/authn/guards.ts:26-43 requirePermissions
Parents == {RouteAt(path).refused : path \in PagePaths} \ {<<>>}

(* What a page asks of the API, offers and links to for a role is allowed    *)
(* that role, and what its address sorts by the API can sort by.             *)
Serves(role, p) ==
  /\ \A r \in Enabled(role, p) :
       /\ Can(role, r.query.needs)
       /\ r.headers # {} => RouteAt(p.path).sorts \subseteq r.query.orders
  /\ \A o \in Offered(role, p) :
       Can(role, o.mutation.needs) /\ (o.goes # <<>> => ~TurnedAway(role, o.goes))
  /\ \A path \in Linked(role, p) : ~TurnedAway(role, path)
Unserved == {t \in Seats : ~Serves(t[1], PageAt(t[2]))}

-----------------------------------------------------------------------------
(* A setting, for visitors of some roles: without a watched query they go    *)
(* everywhere; with one, between the pages it concerns, those its changes    *)
(* lead to and the first pages of the roles.                                 *)
\* routeTree.gen.ts:2442-2458 AuthenticatedRouteWithChildren
Near(readers, loaders, offers) ==
  {AccountRoute.path} \cup loaders \cup {t[2] : t \in readers \cup {o.at : o \in offers}}
\* features/authz/access.tsx:10-13 AuthzProvider
Setting(key, visitors, roles) ==
  LET readers == {t \in ReadersOf(key) : t[1] \in roles}
      loaders == LoadersOf(key)
      offers == {o \in OffersOn(key) : o.at[1] \in roles}
      homes == {<<role, FirstAccessible(role)>> : role \in roles}
      near == IF key = <<>> THEN PagePaths ELSE Near(readers, loaders, offers)
      led == Parents \cup {o.goes : o \in offers} \cup {h[2] : h \in homes}
  IN [key |-> key, visitors |-> visitors, near |-> near,
      readers |-> readers, loaders |-> loaders, offers |-> offers, homes |-> homes,
      redirects |-> {r \in RedirectTable : r.at[1] \in roles /\ r.at[2] \in near \cup led},
      unserved |-> {t \in Unserved : t[1] \in roles}]
=============================================================================
