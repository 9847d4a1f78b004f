------------------------------ MODULE Feed ------------------------------
(***************************************************************************)
(* What the loader and the indexer of one tracked account promise together *)
(* to the payment code: from the position where tracking starts, every     *)
(* transaction of the account is handed to SavePayments in chain order,    *)
(* none is skipped, and the only one that may be handed over again is the  *)
(* newest one (a retry of a call whose database transaction had already    *)
(* been committed).                                                        *)
(***************************************************************************)
EXTENDS Naturals

CONSTANT MaxLt      \* bound on the length of the account's history

VARIABLES
  head,       \* number of transactions the account has on the blockchain
  tracked,    \* whether the account has been registered
  start,      \* position after which the account is tracked
  done,       \* newest position handed over with its effects committed
  handed      \* handed[n]: how often transaction n took effect

vars == <<head, tracked, start, done, handed>>

Init ==
  /\ head \in 0..MaxLt
  /\ tracked \in BOOLEAN
  /\ start = 0
  /\ done = 0
  /\ handed = [n \in 1..MaxLt |-> 0]

Grow ==
  /\ head < MaxLt
  /\ head' = head + 1
  /\ UNCHANGED <<tracked, start, done, handed>>

Begin(a) ==
  /\ ~tracked
  /\ tracked' = TRUE
  /\ start' = a
  /\ done' = a
  /\ UNCHANGED <<head, handed>>

HandOver ==
  /\ tracked
  /\ done < head
  /\ done' = done + 1
  /\ handed' = [handed EXCEPT ![done + 1] = @ + 1]
  /\ UNCHANGED <<head, tracked, start>>

HandOverAgain ==
  /\ tracked
  /\ start < done
  /\ handed' = [handed EXCEPT ![done] = @ + 1]
  /\ UNCHANGED <<head, tracked, start, done>>

Next ==
  \/ Grow
  \/ \E a \in 0..head : Begin(a)
  \/ HandOver
  \/ HandOverAgain

Spec == Init /\ [][Next]_vars
=============================================================================
