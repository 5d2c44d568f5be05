----------------------------- MODULE MCLiveQueries -----------------------------
(* Instances of LiveQueries for TLC.                                         *)
EXTENDS LiveQueries, FiniteSets, TLC

Symmetry == Permutations(Ids)

(* A bound on the transactions that are under way.                           *)
AtMostTwo == Cardinality({s \in Slots : tx[s].phase # "idle"}) <= 2
=============================================================================
