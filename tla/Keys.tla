------------------------------- MODULE Keys -------------------------------
(***************************************************************************)
(* The table payments.keys (pkg/db/keys.go): at most one encryption key    *)
(* per account, committed by its owner, accepted by a payment of the       *)
(* owner, thrown away after an hour if no payment came.                    *)
(***************************************************************************)

CONSTANT Payers      \* accounts that pay invoices or commit keys

VARIABLE keys        \* the row of each account

(* "fresh" and "stale" keys are not accepted; "stale" ones are older than  *)
(* an hour.                                                                *)
KeyStates == {"none", "fresh", "stale", "accepted"}

KeysTypeOK == keys \in [Payers -> KeyStates]

KeysInit == keys = [p \in Payers |-> "none"]

(* SaveEncryptionKey: a second key of the same account is ignored.         *)
SaveEncryptionKey(p) ==
  /\ keys[p] = "none"
  /\ keys' = [keys EXCEPT ![p] = "fresh"]

(* An hour passes since the key was committed.                             *)
KeyAges(p) ==
  /\ keys[p] = "fresh"
  /\ keys' = [keys EXCEPT ![p] = "stale"]

(* Mutant: the payment accepts whatever keys there are.                    *)
AcceptAnyKey(p) ==
  keys' = [q \in Payers |-> IF keys[q] = "none" THEN "none" ELSE "accepted"]

(* A payment of p accepts its key, if there is one (invoices.go:336-342).  *)
AcceptKey(p) ==
  keys' = [keys EXCEPT ![p] = IF @ = "none" THEN "none" ELSE "accepted"]

DeleteExpiredKeys ==
  keys' = [p \in Payers |-> IF keys[p] = "stale" THEN "none" ELSE keys[p]]
=============================================================================
