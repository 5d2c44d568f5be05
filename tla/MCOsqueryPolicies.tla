-------------------------- MODULE MCOsqueryPolicies --------------------------
(* Small instances of OsqueryPolicies.                                       *)
EXTENDS OsqueryPolicies

All     == [include |-> {"l"}, exclude |-> {}]
Nobody  == [include |-> {}, exclude |-> {}]

Mutation(query, script, automatic, targets) ==
  [query |-> query, script |-> script, automatic |-> automatic,
   targets |-> targets]

\* The query, the script and the automation change, each on its own.
Edits ==
  {Mutation("q1", "s1", TRUE, All), Mutation("q2", "s1", TRUE, All),
   Mutation("q1", "s2", TRUE, All), Mutation("q1", "s1", FALSE, All)}

\* The policy is retargeted away from every host and back.
Retargets ==
  {Mutation("q1", "s1", TRUE, All), Mutation("q1", "s1", TRUE, Nobody)}

\* Two policies without remediation come, change and go.
Unremediated ==
  {Mutation("q1", NoScript, FALSE, All), Mutation("q2", NoScript, FALSE, All)}

\* The query and the script change together, and the policy is retargeted.
Few ==
  {Mutation("q1", "s1", TRUE, All), Mutation("q2", "s2", TRUE, All),
   Mutation("q1", "s1", TRUE, Nobody)}

=============================================================================
