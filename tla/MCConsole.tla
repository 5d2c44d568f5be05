------------------------------- MODULE MCConsole -------------------------------
EXTENDS Console, ConsoleTables, TLC

CONSTANTS ann, vic, nell

MCAccounts == {ann, vic, nell}
MCRole == (ann :> "admin") @@ (vic :> "viewer") @@ (nell :> "none")
MCSettings ==
  {Setting(s[1], s[2], {MCRole[a] : a \in s[2]}) :
     s \in {<<NoKey, {ann}>>, <<NoKey, {vic, nell}>>, <<UserQuery.key, {ann}>>,
            <<LabelQuery.key, {ann}>>, <<PolicyResultsQuery.key, {ann, nell}>>}}

(* A setting does not change and is known by its key and its visitors: the   *)
(* view of a state tells as much as the state.                               *)
MCView ==
  <<setting.key, setting.visitors, server, tab, page, going, writes, cache, fetch, flight,
    acked, forgotten>>
=============================================================================
