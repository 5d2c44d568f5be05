----------------------------- MODULE MCSantaSync -----------------------------
(* Small instances of SantaSync: two binary identities, and contents that    *)
(* differ in the transitive authority they grant.                            *)
EXTENDS SantaSync

Plain    == [policy |-> "allowlist", cel |-> ""]
Block    == [policy |-> "blocklist", cel |-> ""]
Compiler == [policy |-> "allowlist_compiler", cel |-> ""]
Cel      == [policy |-> "cel", cel |-> "e1"]

AllContents      == {Plain, Compiler, Cel}
PlainAndCompiler == {Plain, Compiler}
PlainAndBlock    == {Plain, Block}

Rules(f, g) == [i \in Identities |-> IF i = 1 THEN f ELSE g]

\* A compiler and a CEL rule, whose payload is two pages long, come and go
\* with their authority, and a plain rule takes the place of the compiler's.
FewRuleSets ==
  {Rules(NoRule, NoRule), Rules(Plain, NoRule), Rules(Compiler, Cel)}

Flip   == {Rules(Plain, NoRule), Rules(Block, NoRule)}
Demote == {Rules(Compiler, NoRule), Rules(Plain, NoRule)}

BinaryRules == [i \in Identities |-> "binary"]

=============================================================================
