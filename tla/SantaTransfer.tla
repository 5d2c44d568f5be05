----------------------------- MODULE SantaTransfer -----------------------------
(***************************************************************************)
(* What Santa rule synchronisation promises of one host, however its rules *)
(* are paged, compared and retried: the client changes from one prepared   *)
(* set to another as a whole, or loses what it has, and the server records *)
(* a set as the client's only while the client holds it.                   *)
(***************************************************************************)
CONSTANTS Sets, NoSet

VARIABLES
  prepared,  \* the set the server last prepared for the host
  held,      \* the set the client enforces
  recorded   \* the set the server takes the client to enforce

transfer == <<prepared, held, recorded>>

TransferInit == prepared = NoSet /\ held = NoSet /\ recorded = NoSet

Prepare == prepared' \in Sets /\ UNCHANGED <<held, recorded>>

(* No matter what it held: there is no mixture of two sets.                  *)
Adopt == held' = prepared /\ UNCHANGED <<prepared, recorded>>

Lose == held' = NoSet /\ UNCHANGED <<prepared, recorded>>

Record ==
  /\ held = prepared
  /\ recorded' = prepared
  /\ UNCHANGED <<prepared, held>>

TransferNext == Prepare \/ Adopt \/ Lose \/ Record

TransferSpec == TransferInit /\ [][TransferNext]_transfer
=============================================================================
