----------------------------- MODULE Ledger -----------------------------
(***************************************************************************)
(* What the queries on payments.invoices promise together: a book in which *)
(* every operation on an invoice is one step, although processPayment      *)
(* reads, decides and writes in statements of its own while the handlers   *)
(* and the expiration processor change the same rows.                      *)
(*                                                                         *)
(* Every payment is added to what its invoice has received. A payment that *)
(* covers an invoice which is waiting and not overdue makes it paid. The   *)
(* only thing the reader of the book may notice of the statements is a     *)
(* payment that makes an invoice paid a little late: it had been read      *)
(* before the invoice was overdue or closed.                               *)
(***************************************************************************)
EXTENDS Integers

CONSTANTS
  Ids,        \* invoices
  MaxAmount,  \* bound on amounts
  MaxTime     \* bound on the clock

VARIABLES
  clock,      \* the time
  book        \* what there is of each invoice

vars == <<clock, book>>

NoEntry == [status |-> "absent"]

Init ==
  /\ clock = 0
  /\ book = [id \in Ids |-> NoEntry]

Tick ==
  /\ clock < MaxTime
  /\ clock' = clock + 1
  /\ UNCHANGED book

Open(id, price, due) ==
  /\ book[id].status = "absent"
  /\ book' = [book EXCEPT ![id] =
                [status |-> "waiting", price |-> price, due |-> due, credit |-> 0]]
  /\ UNCHANGED clock

Cancel(id) ==
  /\ book[id].status = "waiting"
  /\ clock < book[id].due
  /\ book' = [book EXCEPT ![id].status = "cancelled"]
  /\ UNCHANGED clock

(* All overdue invoices expire at once.                                    *)
Expire ==
  /\ book' = [id \in Ids |->
       IF book[id].status = "waiting" /\ book[id].due < clock
       THEN [book[id] EXCEPT !.status = "expired"]
       ELSE book[id]]
  /\ UNCHANGED clock

(* The invoice is covered by what it has received with this payment.       *)
Covers(id, amount) == book[id].price <= book[id].credit + amount

OnTime(id) == book[id].status = "waiting" /\ clock <= book[id].due

Receive(id, amount) ==
  /\ book[id].status # "absent"
  /\ ~(OnTime(id) /\ Covers(id, amount))
  /\ book' = [book EXCEPT ![id].credit = @ + amount]
  /\ UNCHANGED clock

Settle(id, amount) ==
  /\ book[id].status \in {"waiting", "cancelled", "expired"}
  /\ Covers(id, amount)
  /\ book' = [book EXCEPT ![id].credit = @ + amount, ![id].status = "paid"]
  /\ UNCHANGED clock

Next ==
  \/ Tick
  \/ \E id \in Ids, price \in 1..MaxAmount, due \in 0..MaxTime : Open(id, price, due)
  \/ \E id \in Ids : Cancel(id)
  \/ Expire
  \/ \E id \in Ids, amount \in 1..MaxAmount : Receive(id, amount) \/ Settle(id, amount)

Spec == Init /\ [][Next]_vars
=============================================================================
