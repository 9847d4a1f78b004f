------------------------- MODULE InvoicesProofs -------------------------
(***************************************************************************)
(* Proofs about Invoices, for any number of invoices, payers, transactions *)
(* and faults, and any bound on time and amounts.                          *)
(***************************************************************************)
EXTENDS Invoices, TLAPS

(* Everything that refers to an invoice refers to one that was created.    *)
Issued ==
  /\ \A n \in 1..Len(chain) : chain[n].kind = "payment" =>
       Exists(chain[n].id) /\ chain[n].at <= clock
  /\ \A i \in inserts : Exists(i.id)

(* The worker is at a payment, and its cursor says whether that one has    *)
(* been committed before.                                                  *)
AtPayment ==
  /\ lastIndexed \in Nat
  /\ worker # Idle => Due /\ chain[current].kind = "payment"
  /\ worker.doing = "notifying" => lastProcessedLt = current

(* What processPayment has read is old, but only in ways that leave its    *)
(* decision right: amount and expire_at never change, nobody else touches  *)
(* the overpayment or makes an invoice paid, and none is waiting again.    *)
ReadIsUsable ==
  worker.doing = "paying" =>
    LET row == invoices[chain[current].id]
    IN  /\ worker.now <= clock
        /\ chain[current].at <= worker.now
        /\ worker.read.amount = row.amount
        /\ worker.read.expireAt = row.expireAt
        /\ worker.read.overpayment = row.overpayment
        /\ row.status = "paid" => worker.read.status = "paid"
        /\ row.status = "waiting" => worker.read.status = "waiting"

IInv ==
  /\ TypeOK
  /\ Issued
  /\ AtPayment
  /\ ReadIsUsable
  /\ PaidInTime
  /\ AcceptedKeysHavePaid

-----------------------------------------------------------------------------
USE DEF vars, tables, memory, faults

(* A row that exists has the fields of a row, and no other value has a     *)
(* status.                                                                 *)
LEMMA Rows ==
  ASSUME TypeOK, NEW id \in Ids
  PROVE  /\ Exists(id) <=> invoices[id] \in Row
         /\ ~Exists(id) <=> invoices[id] = Absent
         /\ Waiting(id) => Exists(id)
BY DEF TypeOK, Exists, Waiting, Row, Absent, Statuses

(* What the worker is about to write, when it is at a payment.             *)
LEMMA AtPaymentFacts ==
  ASSUME IInv, worker # Idle
  PROVE  /\ current \in 1..Len(chain)
         /\ chain[current] \in Payments
         /\ Exists(chain[current].id)
         /\ invoices[chain[current].id] \in Row
<1>1. current \in 1..Len(chain)
  BY DEF IInv, TypeOK, AtPayment, Due, current
<1>2. chain[current] \in Transaction /\ chain[current].kind = "payment"
  BY <1>1 DEF IInv, TypeOK, AtPayment
<1>3. chain[current] \in Payments
  BY <1>2 DEF Transaction, NoPayment, Malformed
<1>4. Exists(chain[current].id)
  BY <1>1, <1>2 DEF IInv, Issued
<1> QED
  BY <1>1, <1>3, <1>4, Rows DEF IInv, Payments

(* The row that is written over an existing one is a row again.            *)
LEMMA CreditedRow ==
  ASSUME current \in 1..MaxLt, NEW row \in Row, NEW read \in Row,
         NEW total \in Nat, NEW now \in Times
  PROVE  Credited(row, read, total, now) \in Row
<1>1. CASE Settles(read, total, now)
  <2>1. total - read.amount \in Nat
    BY <1>1, InvoicesAssumption DEF Settles, Row, Amounts
  <2>2. Credited(row, read, total, now) =
          [row EXCEPT !.overpayment = total - read.amount, !.updatedAt = now,
                      !.status = "paid", !.txLt = current]
    BY <1>1 DEF Credited
  <2>3. "paid" \in Statuses /\ current \in 0..MaxLt
    BY DEF Statuses
  <2> QED
    BY <2>1, <2>2, <2>3 DEF Row
<1>2. CASE ~Settles(read, total, now)
  BY <1>2 DEF Credited, Row
<1> QED
  BY <1>1, <1>2

LEMMA InitInvariant == Init => IInv
<1> SUFFICES ASSUME Init PROVE IInv
  OBVIOUS
<1>1. TypeOK
  BY InvoicesAssumption
  DEF FaultsOK, Init, TypeOK, Times, KeysInit, KeysTypeOK, KeyStates, Absent, Idle
<1>2. Issued /\ AtPayment /\ ReadIsUsable /\ PaidInTime /\ AcceptedKeysHavePaid
  BY DEF Init, Issued, AtPayment, ReadIsUsable, PaidInTime, AcceptedKeysHavePaid,
         KeysInit, Absent, Idle
<1> QED
  BY <1>1, <1>2 DEF IInv

-----------------------------------------------------------------------------
(* The value of a row after a payment, for each step that writes one.      *)
LEMMA WriteFacts ==
  ASSUME IInv, WritePayment
  PROVE  LET p == chain[current]
             total == worker.read.overpayment + p.amount
         IN  /\ current \in 1..Len(chain) /\ current \in 1..MaxLt
             /\ p \in Payments
             /\ worker \in Paying
             /\ total \in Nat
             /\ invoices[p.id] \in Row
             /\ invoices' = [invoices EXCEPT ![p.id] =
                               Credited(invoices[p.id], worker.read, total, worker.now)]
             /\ invoices' \in [Ids -> Row \cup {Absent}]
             /\ invoices'[p.id] = Credited(invoices[p.id], worker.read, total, worker.now)
             /\ invoices'[p.id] \in Row
             /\ \A id \in Ids \ {p.id} : invoices'[id] = invoices[id]
<1> DEFINE p == chain[current]
           total == worker.read.overpayment + p.amount
<1>1. worker.doing = "paying" /\ worker # Idle
  BY DEF WritePayment, Idle
<1>2. worker \in Paying
  BY <1>1 DEF IInv, TypeOK, Notifying
<1>3. /\ current \in 1..Len(chain) /\ current \in 1..MaxLt
      /\ p \in Payments
      /\ invoices[p.id] \in Row
  BY <1>1, AtPaymentFacts, InvoicesAssumption DEF IInv, TypeOK
<1>4. worker.read \in Row /\ worker.now \in Times
  BY <1>2 DEF Paying
<1>5. total \in Nat
  BY <1>3, <1>4, InvoicesAssumption DEF Row, Payments, Amounts
<1>6. invoices' = [invoices EXCEPT ![p.id] =
                     Credited(invoices[p.id], worker.read, total, worker.now)]
  BY DEF WritePayment
<1>7. Credited(invoices[p.id], worker.read, total, worker.now) \in Row
  BY <1>3, <1>4, <1>5, CreditedRow
<1>8. p.id \in Ids /\ invoices \in [Ids -> Row \cup {Absent}]
  BY <1>3 DEF Payments, IInv, TypeOK
<1> HIDE DEF p, total
<1>9. /\ invoices' \in [Ids -> Row \cup {Absent}]
      /\ invoices'[p.id] = Credited(invoices[p.id], worker.read, total, worker.now)
      /\ \A id \in Ids \ {p.id} : invoices'[id] = invoices[id]
  BY <1>6, <1>7, <1>8
<1> QED
  BY <1>2, <1>3, <1>5, <1>6, <1>7, <1>9 DEF p, total

(* The cursor and the counters after the end of a database transaction.    *)
LEMMA CursorStep ==
  ASSUME TypeOK, current \in 1..Len(chain), lastIndexed \in Nat, AdvanceCursor
  PROVE  /\ lastProcessedLt' = current
         /\ lastProcessedLt <= current
         /\ lastProcessedLt' \in 0..Len(chain)
         /\ saves' \in [1..MaxLt -> Nat]
         /\ lastIndexed \in {current, current - 1}
BY InvoicesAssumption DEF TypeOK, AdvanceCursor, current

LEMMA TypeStep == IInv /\ [Next]_vars => TypeOK'
<1> SUFFICES ASSUME IInv, [Next]_vars
             PROVE  TypeOK'
  OBVIOUS
<1> USE InvoicesAssumption DEF FaultsOK
<1>1. CASE Tick
  BY <1>1 DEF Tick, IInv, TypeOK, Times, KeysTypeOK
<1>2. ASSUME NEW tx \in Transaction, Arrives(tx)
      PROVE  TypeOK'
  <2>1. chain' \in Seq(Transaction) /\ Len(chain') = Len(chain) + 1 /\ Len(chain') <= MaxLt
    BY <1>2 DEF Arrives, IInv, TypeOK
  <2> QED
    BY <1>2, <2>1 DEF Arrives, IInv, TypeOK, KeysTypeOK
<1>3. CASE SomePayment
  <2>1. PICK id \in Ids, p \in Payers, amount \in Amounts : Pays(id, p, amount)
    BY <1>3 DEF SomePayment
  <2>2. Payment(id, p, amount, clock) \in Transaction
    BY DEF Payment, Transaction, Payments, IInv, TypeOK
  <2> QED
    BY <1>2, <2>1, <2>2 DEF Pays
<1>4. CASE \E tx \in {NoPayment, Malformed} : Arrives(tx)
  BY <1>2, <1>4 DEF Transaction
<1>5. ASSUME NEW id \in Ids, NEW amount \in Amounts, NEW lifeTime \in LifeTimes,
             CreateInvoice(id, amount, lifeTime)
      PROVE  TypeOK'
  <2>1. clock \in Times /\ clock + Duration(lifeTime) \in Times
    BY <1>5 DEF CreateInvoice, IInv, TypeOK, Times
  <2>2. [status |-> "waiting", amount |-> amount, overpayment |-> 0,
         expireAt |-> clock + Duration(lifeTime), updatedAt |-> clock, txLt |-> 0] \in Row
    BY <2>1 DEF Row, Statuses
  <2>3. Notice(id, "create", clock) \in Notification
    BY <2>1 DEF Notice, Notification, Changes
  <2> QED
    BY <1>5, <2>2, <2>3 DEF CreateInvoice, IInv, TypeOK, KeysTypeOK
<1>6. ASSUME NEW id \in Ids, CancelInvoice(id)
      PROVE  TypeOK'
  <2>1. invoices[id] \in Row /\ clock \in Times
    BY <1>6, Rows DEF CancelInvoice, IInv, TypeOK
  <2>2. [invoices[id] EXCEPT !.status = "cancelled", !.updatedAt = clock] \in Row
    BY <2>1 DEF Row, Statuses
  <2>3. Notice(id, "cancel", clock) \in Notification
    BY <2>1 DEF Notice, Notification, Changes
  <2>4. invoices' = [invoices EXCEPT ![id] =
          [invoices[id] EXCEPT !.status = "cancelled", !.updatedAt = clock]]
    BY <1>6, <2>1 DEF CancelInvoice, IInv, TypeOK, Row
  <2> QED
    BY <1>6, <2>2, <2>3, <2>4 DEF CancelInvoice, IInv, TypeOK, KeysTypeOK
<1>7. ASSUME NEW p \in KeyOwners, CommitKey(p) \/ HourPasses(p)
      PROVE  TypeOK'
  BY <1>7 DEF CommitKey, SaveEncryptionKey, HourPasses, KeyAges, IInv, TypeOK,
              KeysTypeOK, KeyStates
<1>8. CASE MarkExpired
  <2>1. \A id \in Ids : Overdue(id) =>
          [invoices[id] EXCEPT !.status = "expired", !.updatedAt = clock] \in Row
    <3> SUFFICES ASSUME NEW id \in Ids, Overdue(id)
                 PROVE  [invoices[id] EXCEPT !.status = "expired", !.updatedAt = clock] \in Row
      OBVIOUS
    <3>1. invoices[id] \in Row
      BY Rows DEF Overdue, IInv
    <3> QED
      BY <3>1 DEF IInv, TypeOK, Row, Statuses
  <2>2. invoices' \in [Ids -> Row \cup {Absent}]
    BY <1>8, <2>1 DEF MarkExpired, IInv, TypeOK
  <2>3. inserts' \subseteq Notification
    <3>1. \A id \in Ids : Notice(id, "expire", clock) \in Notification
      BY DEF Notice, Notification, Changes, IInv, TypeOK
    <3>2. inserts' = inserts \cup {Notice(id, "expire", clock) : id \in {j \in Ids : Overdue(j)}}
      BY <1>8 DEF MarkExpired
    <3> QED
      BY <3>1, <3>2 DEF IInv, TypeOK
  <2>4. KeysTypeOK'
    BY <1>8 DEF MarkExpired, ExpirationRound, DeleteExpiredKeys, IInv, TypeOK,
                KeysTypeOK, KeyStates
  <2> QED
    BY <1>8, <2>2, <2>3, <2>4 DEF MarkExpired, IInv, TypeOK
<1>9. CASE MarkExpiredFails
  BY <1>9 DEF MarkExpiredFails, ExpirationRound, DeleteExpiredKeys, Fault, IInv, TypeOK,
              KeysTypeOK, KeyStates
<1>10. ASSUME NEW i \in inserts, InsertNotification(i)
       PROVE  TypeOK'
  <2>1. i \in Notification /\ invoices[i.id] \in Row
    BY <1>10, Rows DEF IInv, TypeOK, Issued, Notification
  <2>2. \A t \in Times : Notice(i.id, i.by, t) \in Notification
    BY <2>1 DEF Notice, Notification
  <2>3. notifications' \subseteq Notification
    BY <1>10, <2>1, <2>2 DEF InsertNotification, IInv, TypeOK, Notification, Row
  <2> QED
    BY <1>10, <2>3 DEF InsertNotification, IInv, TypeOK, KeysTypeOK
<1>11. ASSUME NEW i \in inserts, InsertNotificationFails(i)
       PROVE  TypeOK'
  BY <1>11 DEF InsertNotificationFails, Fault, IInv, TypeOK, KeysTypeOK
<1>12. CASE Skip
  <2>1. current \in 1..Len(chain) /\ lastIndexed \in Nat
    BY <1>12 DEF Skip, Due, IInv, TypeOK, AtPayment, current
  <2>2. /\ lastProcessedLt' = current /\ lastProcessedLt <= current
        /\ lastProcessedLt' \in 0..Len(chain)
        /\ saves' \in [1..MaxLt -> Nat]
    BY <1>12, <2>1, CursorStep DEF Skip, IInv
  <2>3. lastIndexed' \in {lastProcessedLt', lastProcessedLt' - 1}
    BY <1>12, <2>1, <2>2 DEF Skip, current
  <2>4. processingErrors' \subseteq 1..lastProcessedLt'
    BY <1>12, <2>1, <2>2, SMTT(20) DEF Skip, IInv, TypeOK
  <2>5. FaultsOK'
    BY <1>12 DEF Skip, Fault, NoFault, IInv, TypeOK
  <2> QED
    BY <1>12, <2>2, <2>3, <2>4, <2>5 DEF Skip, IInv, TypeOK, KeysTypeOK
<1>13. CASE ReadInvoice
  <2>1. current \in 1..Len(chain) /\ chain[current] \in Transaction
    BY <1>13 DEF ReadInvoice, Due, IInv, TypeOK, AtPayment, current
  <2>2. chain[current].kind = "payment" /\ chain[current].id \in Ids
    BY <1>13, <2>1 DEF ReadInvoice, Transaction, NoPayment, Malformed, Payments
  <2>3. invoices[chain[current].id] \in Row
    BY <2>1, <2>2, Rows DEF IInv, Issued
  <2>4. worker' \in Paying
    BY <1>13, <2>3 DEF ReadInvoice, Paying, IInv, TypeOK
  <2> QED
    BY <1>13, <2>4 DEF ReadInvoice, IInv, TypeOK, KeysTypeOK
<1>14. ASSUME WritePayment, worker' \in {Idle} \cup Notifying,
              lastIndexed' \in {lastIndexed, current}, FaultsOK'
       PROVE  TypeOK'
  <2>1. /\ current \in 1..Len(chain) /\ lastIndexed \in Nat
        /\ chain[current] \in Payments
        /\ invoices' \in [Ids -> Row \cup {Absent}]
    BY <1>14, WriteFacts DEF IInv, AtPayment
  <2>2. /\ lastProcessedLt' = current /\ lastProcessedLt <= current
        /\ lastProcessedLt' \in 0..Len(chain)
        /\ saves' \in [1..MaxLt -> Nat]
    BY <1>14, <2>1, CursorStep DEF WritePayment, IInv
  <2>3. lastIndexed' \in {lastProcessedLt', lastProcessedLt' - 1}
    BY <1>14, <2>1, <2>2 DEF current
  <2>4. KeysTypeOK'
    BY <1>14 DEF WritePayment, AcceptKey, IInv, TypeOK, KeysTypeOK, KeyStates
  <2>5. processingErrors' \subseteq 1..lastProcessedLt'
    BY <1>14, <2>1, <2>2 DEF WritePayment, IInv, TypeOK
  <2>6. /\ clock' = clock /\ chain' = chain /\ notifications' = notifications
        /\ inserts' = inserts
    BY <1>14 DEF WritePayment
  <2> QED
    BY <1>14, <2>1, <2>2, <2>3, <2>4, <2>5, <2>6 DEF IInv, TypeOK
<1>15. CASE CommitPayment
  <2>1. WritePayment /\ worker \in Paying
    BY <1>15, WriteFacts DEF CommitPayment
  <2>2. [doing |-> "notifying", now |-> worker.now] \in Notifying
    BY <2>1 DEF Paying, Notifying
  <2> QED
    BY <1>14, <1>15, <2>1, <2>2 DEF CommitPayment, NoFault, IInv, TypeOK
<1>16. CASE CommitPaymentUnknown
  BY <1>14, <1>16, SMTT(20) DEF CommitPaymentUnknown, Fault, IInv, TypeOK
<1>17. CASE RollbackPayment
  BY <1>17 DEF RollbackPayment, Fault, IInv, TypeOK, KeysTypeOK
<1>18. CASE NotifyPaid
  <2>1. worker \in Notifying /\ worker # Idle
    BY <1>18 DEF NotifyPaid, IInv, TypeOK, Idle, Paying
  <2>2. lastProcessedLt = current /\ chain[current] \in Payments
    BY <1>18, <2>1, AtPaymentFacts DEF NotifyPaid, IInv, AtPayment
  <2>3. Notice(chain[current].id, "pay", worker.now) \in Notification
    BY <2>1, <2>2 DEF Notice, Notification, Changes, Notifying, Payments
  <2>4. FaultsOK'
    BY <1>18 DEF NotifyPaid, NoFault, Fault, IInv, TypeOK
  <2> QED
    BY <1>18, <2>2, <2>3, <2>4 DEF NotifyPaid, IInv, TypeOK, KeysTypeOK
<1>19. CASE Crash
  BY <1>19 DEF Crash, Fault, IInv, TypeOK, KeysTypeOK
<1>20. CASE UNCHANGED vars
  BY <1>20 DEF IInv, TypeOK, KeysTypeOK
<1> QED
  BY <1>1, <1>3, <1>4, <1>5, <1>6, <1>7, <1>8, <1>9, <1>10, <1>11, <1>12, <1>13,
     <1>15, <1>16, <1>17, <1>18, <1>19, <1>20 DEF Next

-----------------------------------------------------------------------------
(* The four ways in which a step may treat the row of an invoice.          *)
Kept(id) == invoices'[id] = invoices[id]

Created(id) ==
  /\ ~Exists(id)
  /\ invoices'[id] \in Row
  /\ invoices'[id].status = "waiting"
  /\ invoices'[id].overpayment = 0

Closed(id) ==
  /\ Waiting(id)
  /\ \E status \in {"cancelled", "expired"} :
       invoices'[id] = [invoices[id] EXCEPT !.status = status, !.updatedAt = clock]

Paid(id) == WritePayment /\ id = chain[current].id

LEMMA RowStep ==
  ASSUME IInv, [Next]_vars, NEW id \in Ids
  PROVE  Kept(id) \/ Created(id) \/ Closed(id) \/ Paid(id)
<1>1. CASE UNCHANGED invoices
  BY <1>1 DEF Kept
<1>2. ASSUME NEW j \in Ids, NEW amount \in Amounts, NEW lifeTime \in LifeTimes,
             CreateInvoice(j, amount, lifeTime)
      PROVE  Kept(id) \/ Created(id)
  <2>1. clock \in Times /\ clock + Duration(lifeTime) \in Times
    BY <1>2, InvoicesAssumption DEF CreateInvoice, IInv, TypeOK, Times
  <2>2. [status |-> "waiting", amount |-> amount, overpayment |-> 0,
         expireAt |-> clock + Duration(lifeTime), updatedAt |-> clock, txLt |-> 0] \in Row
    BY <2>1, InvoicesAssumption DEF Row, Statuses
  <2> QED
    BY <1>2, <2>2 DEF CreateInvoice, Kept, Created, IInv, TypeOK
<1>3. ASSUME NEW j \in Ids, CancelInvoice(j)
      PROVE  Kept(id) \/ Closed(id)
  <2>1. invoices[j] \in Row
    BY <1>3, Rows DEF CancelInvoice, IInv
  <2>2. invoices' = [invoices EXCEPT ![j] =
          [invoices[j] EXCEPT !.status = "cancelled", !.updatedAt = clock]]
    BY <1>3, <2>1 DEF CancelInvoice, IInv, TypeOK, Row
  <2> QED
    BY <1>3, <2>2 DEF CancelInvoice, Kept, Closed, IInv, TypeOK
<1>4. CASE MarkExpired
  BY <1>4 DEF MarkExpired, Overdue, Kept, Closed, IInv, TypeOK
<1>5. CASE WritePayment
  BY <1>5, WriteFacts DEF Kept, Paid
<1>6. CASE UNCHANGED vars
  BY <1>1, <1>6
<1> QED
  BY <1>1, <1>2, <1>3, <1>4, <1>5, <1>6
  DEF Next, Tick, SomePayment, Pays, Arrives, CommitKey, HourPasses, MarkExpiredFails,
      InsertNotification, InsertNotificationFails, Skip, ReadInvoice, CommitPayment,
      CommitPaymentUnknown, RollbackPayment, NotifyPaid, Crash

(* A row that exists stays a row with the same amount and expire_at; what  *)
(* makes it paid is the worker, with a read that allows it.                *)
LEMMA RowKeeps ==
  ASSUME IInv, [Next]_vars, NEW id \in Ids, Exists(id)
  PROVE  /\ invoices'[id] \in Row /\ Exists(id)'
         /\ invoices'[id].amount = invoices[id].amount
         /\ invoices'[id].expireAt = invoices[id].expireAt
         /\ invoices[id].status = "paid" => /\ invoices'[id].status = "paid"
                                            /\ invoices'[id].txLt = invoices[id].txLt
                                            /\ invoices'[id].overpayment >= invoices[id].overpayment
         /\ invoices'[id].status = "paid" /\ invoices[id].status # "paid" =>
              /\ WritePayment /\ id = chain[current].id
              /\ Settles(worker.read, worker.read.overpayment + chain[current].amount, worker.now)
              /\ invoices'[id].txLt = current
<1>1. invoices[id] \in Row
  BY Rows DEF IInv
<1>2. CASE Kept(id)
  BY <1>1, <1>2 DEF Kept, Exists, Row
<1>3. CASE Created(id)
  BY <1>3 DEF Created
<1>4. CASE Closed(id)
  <2>1. PICK status \in {"cancelled", "expired"} :
          invoices'[id] = [invoices[id] EXCEPT !.status = status, !.updatedAt = clock]
    BY <1>4 DEF Closed
  <2>2. invoices'[id] \in Row
    BY <1>1, <2>1 DEF IInv, TypeOK, Row, Statuses
  <2> QED
    BY <1>1, <1>4, <2>1, <2>2 DEF Closed, Waiting, Exists, Row, Statuses
<1>5. CASE Paid(id)
  <2> DEFINE p == chain[current]
             total == worker.read.overpayment + p.amount
             S == Settles(worker.read, total, worker.now)
  <2>1. /\ current \in 1..MaxLt /\ worker \in Paying /\ total \in Nat /\ p.id = id
        /\ WritePayment /\ invoices'[id] \in Row
        /\ invoices'[id] = Credited(invoices[id], worker.read, total, worker.now)
    BY <1>5, WriteFacts DEF Paid
  <2>2. worker.read \in Row /\ worker.now \in Times /\ worker.doing = "paying"
    BY <2>1 DEF Paying
  <2>3. /\ invoices'[id] \in Row
        /\ invoices'[id].amount = invoices[id].amount
        /\ invoices'[id].expireAt = invoices[id].expireAt
        /\ ~S => /\ invoices'[id].status = invoices[id].status
                 /\ invoices'[id].txLt = invoices[id].txLt
                 /\ invoices'[id].overpayment = total
        /\ S => invoices'[id].status = "paid" /\ invoices'[id].txLt = current
    <3> HIDE DEF total
    <3>1. CASE S
      <4>1. invoices'[id] =
              [invoices[id] EXCEPT !.overpayment = total - worker.read.amount,
                                   !.updatedAt = worker.now,
                                   !.status = "paid", !.txLt = current]
        BY <2>1, <3>1 DEF Credited
      <4> QED
        BY <1>1, <2>1, <3>1, <4>1 DEF Row
    <3>2. CASE ~S
      <4>1. invoices'[id] = [invoices[id] EXCEPT !.overpayment = total, !.updatedAt = worker.now]
        BY <2>1, <3>2 DEF Credited
      <4> QED
        BY <1>1, <2>1, <2>2, <3>2, <4>1 DEF Row
    <3> QED
      BY <3>1, <3>2
  <2>4. S /\ invoices[id].status = "paid" => FALSE
    BY <2>1, <2>2 DEF IInv, ReadIsUsable, Settles
  <2>5. total >= invoices[id].overpayment
    BY <2>1, <2>2, WriteFacts, InvoicesAssumption
    DEF IInv, ReadIsUsable, Payments, Amounts, Row
  <2> QED
    BY <1>1, <2>1, <2>3, <2>4, <2>5 DEF Exists, Row, Statuses
<1> QED
  BY <1>2, <1>3, <1>4, <1>5, RowStep

-----------------------------------------------------------------------------
(* The chain and the clock only grow.                                      *)
LEMMA ChainGrows ==
  ASSUME IInv, [Next]_vars
  PROVE  /\ clock <= clock'
         /\ Len(chain) <= Len(chain')
         /\ \A n \in 1..Len(chain) : chain'[n] = chain[n]
         /\ \A n \in 1..Len(chain') \ 1..Len(chain) : chain'[n].kind = "payment" =>
              /\ chain'[n].id \in Ids /\ Exists(chain'[n].id)
              /\ chain'[n].at <= clock'
<1> USE InvoicesAssumption DEF IInv, TypeOK, Times
<1>1. CASE Tick
  BY <1>1 DEF Tick
<1>2. ASSUME NEW tx \in Transaction, Arrives(tx)
      PROVE  /\ clock' = clock /\ Len(chain') = Len(chain) + 1
             /\ \A n \in 1..Len(chain) : chain'[n] = chain[n]
             /\ chain'[Len(chain')] = tx
  BY <1>2 DEF Arrives
<1>3. CASE SomePayment
  <2>1. PICK id \in Ids, p \in Payers, amount \in Amounts : Pays(id, p, amount)
    BY <1>3 DEF SomePayment
  <2>2. Payment(id, p, amount, clock) \in Transaction
    BY DEF Payment, Transaction, Payments
  <2>3. Arrives(Payment(id, p, amount, clock)) /\ Exists(id)
    BY <2>1 DEF Pays
  <2>4. /\ clock' = clock /\ Len(chain') = Len(chain) + 1
        /\ \A n \in 1..Len(chain) : chain'[n] = chain[n]
        /\ chain'[Len(chain')] = Payment(id, p, amount, clock)
    BY <1>2, <2>2, <2>3
  <2>5. \A n \in 1..Len(chain') \ 1..Len(chain) : n = Len(chain')
    <3>1. PICK len \in Nat : len = Len(chain) /\ Len(chain') = len + 1
      BY <2>4
    <3>2. \A n \in 1..(len + 1) \ 1..len : n = len + 1
      OBVIOUS
    <3> QED
      BY <3>1, <3>2
  <2> QED
    BY <2>3, <2>4, <2>5 DEF Payment
<1>4. CASE \E tx \in {NoPayment, Malformed} : Arrives(tx)
  <2>1. PICK tx \in {NoPayment, Malformed} : Arrives(tx)
    BY <1>4
  <2>2. /\ clock' = clock /\ Len(chain') = Len(chain) + 1
        /\ \A n \in 1..Len(chain) : chain'[n] = chain[n]
        /\ chain'[Len(chain')] = tx
    BY <1>2, <2>1 DEF Transaction
  <2>3. \A n \in 1..Len(chain') \ 1..Len(chain) : n = Len(chain')
    BY <2>2
  <2> QED
    BY <2>2, <2>3 DEF NoPayment, Malformed
<1>5. CASE UNCHANGED <<clock, chain>>
  BY <1>5
<1> QED
  BY <1>1, <1>3, <1>4, <1>5
  DEF Next, CreateInvoice, CancelInvoice, CommitKey, HourPasses, MarkExpired,
      MarkExpiredFails, InsertNotification, InsertNotificationFails, Skip, ReadInvoice,
      CommitPayment, CommitPaymentUnknown, WritePayment, RollbackPayment, NotifyPaid, Crash

LEMMA IssuedStep == IInv /\ [Next]_vars => Issued'
<1> SUFFICES ASSUME IInv, [Next]_vars
             PROVE  Issued'
  OBVIOUS
<1>1. \A n \in 1..Len(chain) : chain[n].kind = "payment" => chain[n].id \in Ids
  BY DEF IInv, TypeOK, Transaction, NoPayment, Malformed, Payments
<1> DEFINE ExistsNow(id) == invoices'[id].status # "absent"
<1>2. \A id \in Ids : Exists(id) => ExistsNow(id)
  BY RowKeeps DEF Exists
<1>3. ASSUME NEW n \in 1..Len(chain'), chain'[n].kind = "payment"
      PROVE  ExistsNow(chain'[n].id) /\ chain'[n].at <= clock'
  <2>1. CASE n \in 1..Len(chain)
    <3>1. chain'[n] = chain[n] /\ clock <= clock' /\ chain[n].kind = "payment"
      BY <1>3, <2>1, ChainGrows
    <3>2. chain[n].id \in Ids /\ Exists(chain[n].id) /\ chain[n].at <= clock
      BY <1>1, <2>1, <3>1 DEF IInv, Issued
    <3>3. chain[n].at \in Nat /\ clock \in Nat /\ clock' \in Nat
      BY <2>1, <3>1, TypeStep, SMTT(20)
      DEF IInv, TypeOK, Transaction, NoPayment, Malformed, Payments, Times
    <3> QED
      BY <1>2, <3>1, <3>2, <3>3
  <2>2. CASE n \notin 1..Len(chain)
    BY <1>2, <1>3, <2>2, ChainGrows
  <2> QED
    BY <2>1, <2>2
<1>4. ASSUME NEW i \in inserts'
      PROVE  ExistsNow(i.id)
  <2>1. CASE i \in inserts
    BY <1>2, <2>1 DEF IInv, TypeOK, Issued, Notification
  <2>2. CASE i \notin inserts
    <3> HIDE DEF ExistsNow
    <3>1. \/ \E id \in Ids, amount \in Amounts, lifeTime \in LifeTimes :
               CreateInvoice(id, amount, lifeTime)
          \/ \E id \in Ids : CancelInvoice(id)
          \/ MarkExpired
      <4>1. ~(inserts' \subseteq inserts)
        BY <1>4, <2>2
      <4> QED
        BY <4>1
        DEF Next, Tick, SomePayment, Pays, Arrives, CommitKey, HourPasses,
            MarkExpiredFails, InsertNotification, InsertNotificationFails, Skip,
            ReadInvoice, CommitPayment, CommitPaymentUnknown, WritePayment,
            RollbackPayment, NotifyPaid, Crash
    <3>2. CASE \E id \in Ids, amount \in Amounts, lifeTime \in LifeTimes :
                 CreateInvoice(id, amount, lifeTime)
      <4>1. PICK id \in Ids, amount \in Amounts, lifeTime \in LifeTimes :
              CreateInvoice(id, amount, lifeTime)
        BY <3>2
      <4>2. i.id = id
        BY <1>4, <2>2, <4>1 DEF CreateInvoice, Notice
      <4> QED
        BY <4>1, <4>2 DEF CreateInvoice, ExistsNow, IInv, TypeOK
    <3>3. CASE \E id \in Ids : CancelInvoice(id)
      <4>1. PICK id \in Ids : CancelInvoice(id)
        BY <3>3
      <4>2. i.id = id
        BY <1>4, <2>2, <4>1 DEF CancelInvoice, Notice
      <4> QED
        BY <1>2, <4>1, <4>2, Rows DEF CancelInvoice, IInv
    <3>4. CASE MarkExpired
      <4>1. PICK id \in Ids : Overdue(id) /\ i = Notice(id, "expire", clock)
        BY <1>4, <2>2, <3>4 DEF MarkExpired
      <4> QED
        BY <1>2, <4>1, Rows DEF Overdue, Notice, IInv
    <3> QED
      BY <3>1, <3>2, <3>3, <3>4
  <2> QED
    BY <2>1, <2>2
<1> QED
  BY <1>3, <1>4 DEF Issued, Exists

-----------------------------------------------------------------------------
(* The steps of the worker, and all the others, which leave it alone.      *)
WorkerStep ==
  \/ Skip \/ ReadInvoice \/ CommitPayment \/ CommitPaymentUnknown
  \/ RollbackPayment \/ NotifyPaid \/ Crash

LEMMA OthersLeaveWorker ==
  ASSUME IInv, [Next]_vars
  PROVE  \/ WorkerStep
         \/ UNCHANGED <<worker, lastIndexed, lastProcessedLt>> /\ ~WritePayment
<1> DEFINE Left == UNCHANGED <<worker, lastIndexed, lastProcessedLt, saves>>
<1>1. ASSUME Tick \/ SomePayment \/ \E tx \in {NoPayment, Malformed} : Arrives(tx)
      PROVE  Left
  BY <1>1 DEF Tick, SomePayment, Pays, Arrives
<1>2. ASSUME WritePayment, UNCHANGED saves
      PROVE  FALSE
  <2>1. current \in 1..MaxLt /\ saves[current] \in Nat
    BY <1>2, WriteFacts DEF IInv, TypeOK
  <2>2. saves'[current] = saves[current] + 1
    BY <1>2, <2>1 DEF WritePayment, AdvanceCursor, IInv, TypeOK
  <2> QED
    BY <1>2, <2>1, <2>2
<1>3. ASSUME NEW id \in Ids, NEW amount \in Amounts, NEW lifeTime \in LifeTimes,
             CreateInvoice(id, amount, lifeTime)
      PROVE  Left
  BY <1>3 DEF CreateInvoice
<1>4. ASSUME NEW p \in KeyOwners, CommitKey(p) \/ HourPasses(p)
      PROVE  Left
  BY <1>4 DEF CommitKey, HourPasses
<1>5. ASSUME MarkExpired \/ MarkExpiredFails
      PROVE  Left
  BY <1>5 DEF MarkExpired, MarkExpiredFails
<1>6. ASSUME NEW i \in inserts, InsertNotification(i) \/ InsertNotificationFails(i)
      PROVE  Left
  BY <1>6 DEF InsertNotification, InsertNotificationFails
<1>7. ASSUME NEW id \in Ids, CancelInvoice(id)
      PROVE  Left
  BY <1>7 DEF CancelInvoice
<1>8. ASSUME UNCHANGED vars
      PROVE  Left
  BY <1>8
<1>9. WorkerStep \/ Left
  <2> HIDE DEF Left
  <2> QED
    BY <1>1, <1>3, <1>4, <1>5, <1>6, <1>7, <1>8 DEF WorkerStep, Next
<1> QED
  BY <1>2, <1>9

LEMMA AtPaymentStep == IInv /\ [Next]_vars => AtPayment'
<1> SUFFICES ASSUME IInv, [Next]_vars
             PROVE  AtPayment'
  OBVIOUS
<1>1. /\ current \in Nat \ {0} /\ Len(chain) \in Nat /\ lastProcessedLt \in Nat
      /\ lastIndexed \in Nat /\ Len(chain') \in Nat
  <2>1. TypeOK /\ TypeOK' /\ lastIndexed \in Nat
    BY TypeStep DEF IInv, AtPayment
  <2>2. current \in Nat \ {0}
    BY <2>1 DEF current
  <2>3. Len(chain) \in Nat /\ Len(chain') \in Nat
    BY <2>1 DEF TypeOK
  <2>4. lastProcessedLt \in Nat
    BY <2>1, <2>3 DEF TypeOK
  <2> QED
    BY <2>1, <2>2, <2>3, <2>4
<1>2. Due => /\ chain'[current] = chain[current]
             /\ current <= Len(chain')
  BY <1>1, ChainGrows DEF Due
<1>3. CASE UNCHANGED <<worker, lastIndexed, lastProcessedLt>>
  BY <1>2, <1>3 DEF AtPayment, IInv, Due, current
<1>4. CASE Skip
  BY <1>1, <1>4 DEF Skip, AtPayment, Idle, current
<1>5. CASE ReadInvoice
  BY <1>1, <1>5 DEF ReadInvoice, AtPayment, Idle, Due, current
<1>6. CASE CommitPayment
  <2>1. worker # Idle /\ lastProcessedLt' = current /\ chain' = chain
    BY <1>6 DEF CommitPayment, WritePayment, AdvanceCursor, Idle
  <2>2. CASE worker' = Idle /\ lastIndexed' = current
    BY <1>1, <2>2 DEF AtPayment, Idle
  <2>3. CASE worker' = [doing |-> "notifying", now |-> worker.now] /\ UNCHANGED lastIndexed
    BY <1>1, <2>1, <2>3 DEF AtPayment, IInv, Due, current
  <2> QED
    BY <1>6, <2>2, <2>3 DEF CommitPayment
<1>7. CASE CommitPaymentUnknown \/ RollbackPayment \/ NotifyPaid
  BY <1>1, <1>7 DEF CommitPaymentUnknown, RollbackPayment, NotifyPaid, AtPayment, Idle
<1>8. CASE Crash
  BY <1>1, <1>8 DEF Crash, AtPayment, Idle
<1> QED
  BY <1>3, <1>4, <1>5, <1>6, <1>7, <1>8, OthersLeaveWorker DEF WorkerStep

LEMMA ReadIsUsableStep == IInv /\ [Next]_vars => ReadIsUsable'
<1> SUFFICES ASSUME IInv, [Next]_vars, worker'.doing = "paying"
             PROVE  LET row == invoices'[(chain[current].id)']
                    IN  /\ worker'.now <= clock'
                        /\ chain'[current'].at <= worker'.now
                        /\ worker'.read.amount = row.amount
                        /\ worker'.read.expireAt = row.expireAt
                        /\ worker'.read.overpayment = row.overpayment
                        /\ row.status = "paid" => worker'.read.status = "paid"
                        /\ row.status = "waiting" => worker'.read.status = "waiting"
  BY DEF ReadIsUsable
<1>1. CASE ReadInvoice
  <2>1. current \in 1..Len(chain)
    BY <1>1 DEF ReadInvoice, Due, current, IInv, TypeOK, AtPayment
  <2>2. chain[current].at <= clock
    BY <1>1, <2>1 DEF ReadInvoice, IInv, Issued
  <2> QED
    BY <1>1, <2>2, InvoicesAssumption DEF ReadInvoice, current, IInv, TypeOK, Times
<1>2. CASE UNCHANGED <<worker, lastIndexed, lastProcessedLt>> /\ ~WritePayment
  <2>1. worker.doing = "paying" /\ worker # Idle /\ worker \in Paying
    BY <1>2 DEF IInv, TypeOK, Idle, Notifying
  <2> DEFINE id == chain[current].id
  <2>2. current \in 1..Len(chain) /\ id \in Ids /\ invoices[id] \in Row
    BY <2>1, AtPaymentFacts DEF Payments
  <2>3. chain'[current'] = chain[current] /\ clock <= clock'
    BY <1>2, <2>2, ChainGrows DEF current
  <2>4. worker.now \in Nat /\ clock \in Nat /\ clock' \in Nat
    BY <2>1, TypeStep, InvoicesAssumption DEF Paying, IInv, TypeOK, Times
  <2>5. Exists(id)
    BY <2>1, AtPaymentFacts
  <2>6. /\ invoices'[id].amount = invoices[id].amount
        /\ invoices'[id].expireAt = invoices[id].expireAt
        /\ invoices'[id].status = "paid" => invoices[id].status = "paid"
    BY <1>2, <2>2, <2>5, RowKeeps
  <2>7. /\ invoices'[id].overpayment = invoices[id].overpayment
        /\ invoices'[id].status = "waiting" => invoices[id].status = "waiting"
    <3>1. Kept(id) \/ Created(id) \/ Closed(id)
      BY <1>2, <2>2, RowStep DEF Paid
    <3> QED
      BY <2>2, <2>5, <3>1 DEF Kept, Created, Closed, Row
  <2> QED
    BY <1>2, <2>1, <2>3, <2>4, <2>6, <2>7 DEF IInv, ReadIsUsable
<1> QED
  BY <1>1, <1>2, OthersLeaveWorker
  DEF WorkerStep, Skip, CommitPayment, CommitPaymentUnknown, RollbackPayment, NotifyPaid,
      Crash, Idle

(* PaidInTime is kept: what made the invoice paid stays where it is, and a *)
(* row that becomes paid names the worker's transaction, which is in time  *)
(* because its read was.                                                   *)
LEMMA PaidInTimeStep == IInv /\ [Next]_vars => PaidInTime'
<1> SUFFICES ASSUME IInv, [Next]_vars, NEW id \in Ids, invoices'[id].status = "paid"
             PROVE  LET n == invoices'[id].txLt
                    IN  /\ n \in 1..lastProcessedLt'
                        /\ chain'[n].kind = "payment" /\ chain'[n].id = id
                        /\ chain'[n].at <= invoices'[id].expireAt
  BY DEF PaidInTime, PaysFor
<1>1. lastProcessedLt <= lastProcessedLt'
  <2>1. AdvanceCursor => lastProcessedLt <= lastProcessedLt'
    BY DEF AdvanceCursor, current, IInv, TypeOK, AtPayment
  <2>2. lastProcessedLt' = lastProcessedLt => lastProcessedLt <= lastProcessedLt'
    BY DEF IInv, TypeOK
  <2> QED
    BY <2>1, <2>2, OthersLeaveWorker
    DEF WorkerStep, Skip, ReadInvoice, CommitPayment, CommitPaymentUnknown, WritePayment,
        RollbackPayment, NotifyPaid, Crash
<1>2. CASE ~Exists(id)
  <2>1. Kept(id) \/ Created(id)
    BY <1>2, RowStep, Rows, AtPaymentFacts, WriteFacts DEF Closed, Paid, IInv, WritePayment, Idle
  <2> QED
    BY <1>2, <2>1, Rows DEF Kept, Created, IInv, Absent
<1>3. CASE Exists(id)
  <2>1. invoices[id] \in Row /\ invoices'[id] \in Row /\ invoices'[id].expireAt = invoices[id].expireAt
    BY <1>3, RowKeeps, Rows DEF IInv
  <2>2. CASE invoices[id].status = "paid"
    <3> DEFINE n == invoices[id].txLt
    <3>1. n \in 1..lastProcessedLt /\ PaysFor(n, id) /\ chain[n].at <= invoices[id].expireAt
      BY <2>2 DEF IInv, PaidInTime
    <3>2. invoices'[id].txLt = n
      BY <1>3, <2>2, RowKeeps
    <3>3. chain'[n] = chain[n]
      BY <3>1, ChainGrows DEF IInv, TypeOK
    <3>4. n \in 1..lastProcessedLt'
      BY <1>1, <3>1, TypeStep DEF IInv, TypeOK
    <3> QED
      BY <2>1, <3>1, <3>2, <3>3, <3>4 DEF PaysFor
  <2>3. CASE invoices[id].status # "paid"
    <3>1. /\ WritePayment /\ id = chain[current].id
          /\ Settles(worker.read, worker.read.overpayment + chain[current].amount, worker.now)
          /\ invoices'[id].txLt = current
      BY <1>3, <2>3, RowKeeps
    <3>2. /\ current \in 1..Len(chain) /\ chain[current] \in Payments /\ worker \in Paying
          /\ worker.doing = "paying"
      BY <3>1, WriteFacts DEF WritePayment
    <3>3. lastProcessedLt' = current /\ chain' = chain
      BY <3>1 DEF WritePayment, AdvanceCursor
    <3>4. chain[current].at <= worker.now /\ worker.now <= worker.read.expireAt
          /\ worker.read.expireAt = invoices[id].expireAt
      BY <3>1, <3>2 DEF IInv, ReadIsUsable, Settles
    <3>5. chain[current].at <= invoices[id].expireAt
      <4>1. chain[current].at \in Times /\ worker.now \in Times /\ worker.read.expireAt \in Times
        BY <3>2 DEF Payments, Paying, Row
      <4> HIDE DEF Times
      <4>2. \A t \in Times : t \in Int
        BY InvoicesAssumption DEF Times
      <4> QED
        BY <3>4, <4>1, <4>2
    <3> QED
      BY <2>1, <3>1, <3>2, <3>3, <3>5 DEF Payments
  <2> QED
    BY <2>2, <2>3
<1> QED
  BY <1>2, <1>3

(* A key becomes accepted in the step that commits a payment of its owner. *)
LEMMA KeysStep == IInv /\ [Next]_vars => AcceptedKeysHavePaid'
<1> SUFFICES ASSUME IInv, [Next]_vars, NEW p \in Payers, keys'[p] = "accepted"
             PROVE  \E n \in 1..lastProcessedLt' :
                      chain'[n].kind = "payment" /\ chain'[n].by = p
  BY DEF AcceptedKeysHavePaid
<1>1. lastProcessedLt \in Nat /\ lastProcessedLt' \in Nat /\ lastProcessedLt <= lastProcessedLt'
  <2>1. AdvanceCursor => lastProcessedLt <= lastProcessedLt'
    BY DEF AdvanceCursor, current, IInv, TypeOK, AtPayment
  <2>2. lastProcessedLt \in Nat /\ lastProcessedLt' \in Nat
    BY TypeStep DEF IInv, TypeOK
  <2> QED
    BY <2>1, <2>2, OthersLeaveWorker
    DEF WorkerStep, Skip, ReadInvoice, CommitPayment, CommitPaymentUnknown, WritePayment,
        RollbackPayment, NotifyPaid, Crash
<1>2. CASE keys[p] = "accepted"
  <2>1. PICK n \in 1..lastProcessedLt : chain[n].kind = "payment" /\ chain[n].by = p
    BY <1>2 DEF IInv, AcceptedKeysHavePaid
  <2>2. chain'[n] = chain[n]
    BY <2>1, ChainGrows DEF IInv, TypeOK
  <2> QED
    BY <1>1, <2>1, <2>2
<1>3. CASE keys[p] # "accepted"
  <2>1. WritePayment
    BY <1>3
    DEF Next, Tick, SomePayment, Pays, Arrives, CreateInvoice, CancelInvoice, CommitKey,
        SaveEncryptionKey, HourPasses, KeyAges, MarkExpired, MarkExpiredFails,
        ExpirationRound, DeleteExpiredKeys, InsertNotification, InsertNotificationFails,
        Skip, ReadInvoice, CommitPayment, CommitPaymentUnknown, RollbackPayment,
        NotifyPaid, Crash, IInv, TypeOK, KeysTypeOK
  <2>2. current \in 1..Len(chain) /\ chain[current] \in Payments
    BY <2>1, WriteFacts
  <2>3. lastProcessedLt' = current /\ chain' = chain /\ chain[current].by = p
    BY <1>3, <2>1 DEF WritePayment, AdvanceCursor, AcceptKey, IInv, TypeOK, KeysTypeOK
  <2> QED
    BY <2>2, <2>3 DEF Payments
<1> QED
  BY <1>2, <1>3

(* The inductive invariant holds in every reachable state.                 *)
THEOREM Invariance == Spec => []IInv
<1>1. Init => IInv
  BY InitInvariant
<1>2. IInv /\ [Next]_vars => IInv'
  BY TypeStep, IssuedStep, AtPaymentStep, ReadIsUsableStep, PaidInTimeStep, KeysStep DEF IInv
<1> QED
  BY <1>1, <1>2, PTL DEF Spec

(* The tables of the invoices and what the worker remembers of them keep   *)
(* their types: an overpayment never goes below zero, lastIndexed never    *)
(* leaves last_processed_lt by more than one transaction.                  *)
THEOREM TypeCorrect == Spec => []TypeOK
BY Invariance, PTL DEF IInv

(* A paid invoice was paid by a transaction made before it expired.        *)
THEOREM InTime == Spec => []PaidInTime
BY Invariance, PTL DEF IInv

(* An accepted key was confirmed by a payment of its owner.                *)
THEOREM KeysHavePaid == Spec => []AcceptedKeysHavePaid
BY Invariance, PTL DEF IInv

(* A paid invoice stays paid as it is.                                     *)
THEOREM PaidStays == Spec => PaidIsFinal
<1> DEFINE Stays(id) ==
      invoices[id].status = "paid" =>
        /\ invoices'[id].status = "paid"
        /\ invoices'[id].amount = invoices[id].amount
        /\ invoices'[id].expireAt = invoices[id].expireAt
        /\ invoices'[id].txLt = invoices[id].txLt
        /\ invoices'[id].overpayment >= invoices[id].overpayment
<1>1. IInv /\ [Next]_vars => [\A id \in Ids : Stays(id)]_vars
  <2> SUFFICES ASSUME IInv, [Next]_vars, NEW id \in Ids, invoices[id].status = "paid"
               PROVE  Stays(id)
    OBVIOUS
  <2>1. Exists(id)
    BY DEF Exists
  <2> QED
    BY <2>1, RowKeeps
<1> QED
  BY <1>1, Invariance, PTL DEF Spec, PaidIsFinal

(* A cancelled or expired invoice changes its status only when a payment   *)
(* that had read it as waiting overtakes.                                  *)
THEOREM ClosedStays == Spec => ClosedUnlessOvertaken
<1> DEFINE Stays(id) ==
      /\ invoices[id].status \in {"cancelled", "expired"}
      /\ invoices'[id].status # invoices[id].status
      => /\ invoices'[id].status = "paid"
         /\ worker.doing = "paying"
         /\ worker.read.status = "waiting"
         /\ invoices'[id].txLt = current /\ PaysFor(current, id)
<1>1. IInv /\ [Next]_vars => [\A id \in Ids : Stays(id)]_vars
  <2> SUFFICES ASSUME IInv, [Next]_vars, NEW id \in Ids,
                      invoices[id].status \in {"cancelled", "expired"},
                      invoices'[id].status # invoices[id].status
               PROVE  /\ invoices'[id].status = "paid"
                      /\ worker.doing = "paying"
                      /\ worker.read.status = "waiting"
                      /\ invoices'[id].txLt = current /\ PaysFor(current, id)
    OBVIOUS
  <2>1. Exists(id) /\ ~Waiting(id) /\ invoices[id].status # "paid"
    BY DEF Exists, Waiting
  <2>2. Paid(id)
    BY <2>1, RowStep DEF Kept, Created, Closed
  <2>3. invoices'[id].status = "paid"
    <3> DEFINE total == worker.read.overpayment + chain[current].amount
    <3>1. /\ invoices[id] \in Row
          /\ invoices'[id] = Credited(invoices[id], worker.read, total, worker.now)
      BY <2>2, WriteFacts DEF Paid
    <3>2. CASE Settles(worker.read, total, worker.now)
      <4>1. invoices'[id] =
              [invoices[id] EXCEPT !.overpayment = total - worker.read.amount,
                                   !.updatedAt = worker.now,
                                   !.status = "paid", !.txLt = current]
        BY <3>1, <3>2 DEF Credited
      <4> QED
        BY <3>1, <4>1 DEF Row
    <3>3. CASE ~Settles(worker.read, total, worker.now)
      <4>1. invoices'[id] =
              [invoices[id] EXCEPT !.overpayment = total, !.updatedAt = worker.now]
        BY <3>1, <3>3 DEF Credited
      <4> QED
        BY <3>1, <4>1 DEF Row
    <3> QED
      BY <3>2, <3>3
  <2>4. /\ WritePayment /\ id = chain[current].id
        /\ Settles(worker.read, worker.read.overpayment + chain[current].amount, worker.now)
        /\ invoices'[id].txLt = current
    BY <2>1, <2>3, RowKeeps
  <2> QED
    BY <2>3, <2>4, WriteFacts DEF WritePayment, Settles, PaysFor, Payments
<1> QED
  BY <1>1, Invariance, PTL DEF Spec, ClosedUnlessOvertaken

-----------------------------------------------------------------------------
(* The worker implements Feed: the end of a database transaction is a      *)
(* hand-over, of the next transaction or of the newest one again.          *)
LEMMA CommitIsHandOver ==
  ASSUME IInv, current \in 1..Len(chain), AdvanceCursor, UNCHANGED chain
  PROVE  F!HandOver \/ F!HandOverAgain
<1>1. lastIndexed \in Nat /\ lastProcessedLt \in Nat
      /\ lastIndexed \in {lastProcessedLt, lastProcessedLt - 1}
  BY DEF IInv, TypeOK, AtPayment
<1>2. CASE current = lastProcessedLt + 1
  BY <1>1, <1>2 DEF F!HandOver, AdvanceCursor, IInv, TypeOK
<1>3. CASE current = lastProcessedLt
  BY <1>1, <1>3 DEF F!HandOverAgain, AdvanceCursor, IInv, TypeOK
<1> QED
  BY <1>1, <1>2, <1>3 DEF current

LEMMA FeedStep == IInv /\ [Next]_vars => [F!Next]_(F!vars)
<1> SUFFICES ASSUME IInv, [Next]_vars
             PROVE  [F!Next]_(F!vars)
  OBVIOUS
<1> USE DEF F!vars
<1>1. ASSUME NEW tx \in Transaction, Arrives(tx)
      PROVE  F!Next
  <2>1. Len(chain') = Len(chain) + 1
    BY <1>1 DEF Arrives, IInv, TypeOK
  <2> QED
    BY <1>1, <2>1 DEF Arrives, F!Next, F!Grow
<1>2. CASE SomePayment
  <2>1. PICK id \in Ids, p \in Payers, amount \in Amounts : Pays(id, p, amount)
    BY <1>2 DEF SomePayment
  <2>2. Payment(id, p, amount, clock) \in Transaction
    BY DEF Payment, Transaction, Payments, IInv, TypeOK
  <2> QED
    BY <1>1, <2>1, <2>2 DEF Pays
<1>3. CASE \E tx \in {NoPayment, Malformed} : Arrives(tx)
  BY <1>1, <1>3 DEF Transaction
<1>4. CASE Skip
  <2>1. current \in 1..Len(chain)
    BY <1>4 DEF Skip, Due, current, IInv, TypeOK, AtPayment
  <2> QED
    BY <1>4, <2>1, CommitIsHandOver DEF Skip, F!Next
<1>5. CASE WritePayment
  BY <1>5, WriteFacts, CommitIsHandOver DEF WritePayment, F!Next
<1>6. CASE UNCHANGED <<chain, lastProcessedLt, saves>>
  BY <1>6
<1> QED
  BY <1>2, <1>3, <1>4, <1>5, <1>6
  DEF Next, Tick, CreateInvoice, CancelInvoice, CommitKey, HourPasses, MarkExpired,
      MarkExpiredFails, InsertNotification, InsertNotificationFails, ReadInvoice,
      CommitPayment, CommitPaymentUnknown, RollbackPayment, NotifyPaid, Crash

(* Payments take effect in the order of the chain, together with the       *)
(* cursor, none is skipped and only the newest may be repeated.            *)
THEOREM ImplementsFeed == Spec => FeedSpec
<1>1. Init => F!Init
  BY InvoicesAssumption DEF Init, F!Init
<1>2. IInv /\ [Next]_vars => [F!Next]_(F!vars)
  BY FeedStep
<1> QED
  BY <1>1, <1>2, Invariance, PTL DEF Spec, FeedSpec, F!Spec

-----------------------------------------------------------------------------
(* Exactly once. While nothing has failed after a commit, the cursor in    *)
(* memory is behind the stored one only between the commit and the insert  *)
(* of the notification.                                                    *)
Unrepeated ==
  faultKinds \subseteq {"rollback", "crash"} =>
    /\ \A n \in 1..MaxLt : saves[n] = IF n <= lastProcessedLt THEN 1 ELSE 0
    /\ lastIndexed = IF worker.doing = "notifying" THEN lastProcessedLt - 1
                                                   ELSE lastProcessedLt

(* A commit of the next transaction raises its counter from 0 to 1.        *)
LEMMA CommitOnce ==
  ASSUME IInv, AdvanceCursor, current \in 1..Len(chain),
         lastIndexed = lastProcessedLt,
         \A n \in 1..MaxLt : saves[n] = IF n <= lastProcessedLt THEN 1 ELSE 0
  PROVE  \A n \in 1..MaxLt : saves'[n] = IF n <= lastProcessedLt' THEN 1 ELSE 0
<1>1. lastProcessedLt \in Nat /\ current = lastProcessedLt + 1 /\ lastProcessedLt' = current
  BY DEF IInv, TypeOK, AdvanceCursor, current
<1>2. saves \in [1..MaxLt -> Nat] /\ saves' = [saves EXCEPT ![current] = @ + 1]
  BY DEF IInv, TypeOK, AdvanceCursor
<1> SUFFICES ASSUME NEW n \in 1..MaxLt
             PROVE  saves'[n] = IF n <= lastProcessedLt' THEN 1 ELSE 0
  OBVIOUS
<1>3. CASE n = current
  <2>1. saves[n] = 0
    BY <1>1, <1>3
  <2> QED
    BY <1>1, <1>2, <1>3, <2>1
<1>4. CASE n # current
  <2>1. saves'[n] = saves[n]
    BY <1>2, <1>4
  <2>2. n <= lastProcessedLt <=> n <= lastProcessedLt'
    BY <1>1, <1>4, InvoicesAssumption DEF InvoicesAssumption
  <2> QED
    BY <2>1, <2>2
<1> QED
  BY <1>3, <1>4

LEMMA OnceStep == IInv /\ Unrepeated /\ [Next]_vars => Unrepeated'
<1> SUFFICES ASSUME IInv, Unrepeated, [Next]_vars,
                    faultKinds' \subseteq {"rollback", "crash"}
             PROVE  /\ \A n \in 1..MaxLt :
                         saves'[n] = IF n <= lastProcessedLt' THEN 1 ELSE 0
                    /\ lastIndexed' = IF worker'.doing = "notifying"
                                      THEN lastProcessedLt' - 1 ELSE lastProcessedLt'
  BY DEF Unrepeated
<1>1. faultKinds \subseteq faultKinds'
  BY DEF Next, Tick, SomePayment, Pays, Arrives, CreateInvoice, CancelInvoice, CommitKey,
         HourPasses, MarkExpired, MarkExpiredFails, InsertNotification,
         InsertNotificationFails, Skip, ReadInvoice, CommitPayment, CommitPaymentUnknown,
         RollbackPayment, NotifyPaid, Crash, Fault, NoFault
<1>2. /\ \A n \in 1..MaxLt : saves[n] = IF n <= lastProcessedLt THEN 1 ELSE 0
      /\ lastIndexed = IF worker.doing = "notifying" THEN lastProcessedLt - 1
                                                     ELSE lastProcessedLt
  BY <1>1 DEF Unrepeated
<1>3. CASE UNCHANGED <<saves, lastProcessedLt, lastIndexed, worker>>
  BY <1>2, <1>3
<1>4. CASE ReadInvoice
  BY <1>2, <1>4 DEF ReadInvoice, Idle
<1>5. CASE RollbackPayment
  BY <1>2, <1>5 DEF RollbackPayment, Idle
<1>6. CASE Skip
  <2>1. NoFault /\ lastIndexed' = current
    BY <1>6 DEF Skip, Fault
  <2>2. /\ current \in 1..Len(chain) /\ lastIndexed = lastProcessedLt
        /\ AdvanceCursor /\ UNCHANGED worker /\ worker.doing # "notifying"
    BY <1>2, <1>6 DEF Skip, Due, current, IInv, TypeOK, AtPayment, Idle
  <2> QED
    BY <1>2, <2>1, <2>2, CommitOnce DEF AdvanceCursor
<1>7. CASE CommitPayment
  <2>1. /\ current \in 1..Len(chain) /\ worker.doing = "paying" /\ AdvanceCursor
    BY <1>7, WriteFacts DEF CommitPayment, WritePayment
  <2>2. lastIndexed = lastProcessedLt /\ lastProcessedLt' = current
    BY <1>2, <2>1 DEF AdvanceCursor
  <2>3. \/ worker'.doing = "notifying" /\ lastIndexed' = lastIndexed
        \/ worker'.doing = "idle" /\ lastIndexed' = current
    BY <1>7 DEF CommitPayment, Idle
  <2>4. lastIndexed \in Int /\ current = lastIndexed + 1
    BY <2>2 DEF IInv, TypeOK, current
  <2> QED
    BY <1>2, <2>1, <2>2, <2>3, <2>4, CommitOnce
<1>8. ~CommitPaymentUnknown
  BY DEF CommitPaymentUnknown, Fault
<1>9. CASE NotifyPaid
  <2>1. /\ worker.doing = "notifying" /\ worker' = Idle /\ lastIndexed' = current
        /\ UNCHANGED <<saves, lastProcessedLt>>
    BY <1>9 DEF NotifyPaid, Fault
  <2>2. lastProcessedLt \in Nat /\ current = lastProcessedLt
    BY <1>2, <2>1 DEF current, IInv, TypeOK
  <2> QED
    BY <1>2, <2>1, <2>2 DEF Idle
<1>10. CASE Crash
  BY <1>2, <1>10 DEF Crash, Idle
<1> QED
  BY <1>3, <1>4, <1>5, <1>6, <1>7, <1>8, <1>9, <1>10
  DEF Next, Tick, SomePayment, Pays, Arrives, CreateInvoice, CancelInvoice, CommitKey,
      HourPasses, MarkExpired, MarkExpiredFails, InsertNotification, InsertNotificationFails

(* Every transaction takes effect exactly once, through any number of      *)
(* rollbacks and kills at any statement, as long as no error is returned   *)
(* after a commit.                                                         *)
THEOREM ExactlyOnce == Spec => []CommittedOnce
<1>1. Init => Unrepeated
  BY InvoicesAssumption DEF Init, Unrepeated, Idle
<1>2. IInv /\ Unrepeated /\ [Next]_vars => Unrepeated'
  BY OnceStep
<1>3. Unrepeated => CommittedOnce
  BY DEF Unrepeated, CommittedOnce
<1> QED
  BY <1>1, <1>2, <1>3, Invariance, PTL DEF Spec
-----------------------------------------------------------------------------
(* Every change is noticed. Without kills and failed inserts nothing that  *)
(* is in the table or still to be inserted is lost.                        *)
LEMMA OnlyRollbacks ==
  ASSUME [Next]_vars, faultKinds' \subseteq {"rollback"}
  PROVE  /\ faultKinds \subseteq {"rollback"}
         /\ ~Crash /\ ~CommitPaymentUnknown
         /\ \A i \in inserts : ~InsertNotificationFails(i)
         /\ NotifyPaid => notifications' = notifications \cup
                            {Notice(chain[current].id, "pay", worker.now)}
<1>1. faultKinds \subseteq faultKinds'
  BY DEF Next, Tick, SomePayment, Pays, Arrives, CreateInvoice, CancelInvoice, CommitKey,
         HourPasses, MarkExpired, MarkExpiredFails, InsertNotification,
         InsertNotificationFails, Skip, ReadInvoice, CommitPayment, CommitPaymentUnknown,
         RollbackPayment, NotifyPaid, Crash, Fault, NoFault
<1>2. ~Fault("crash") /\ ~Fault("ack") /\ ~Fault("notify")
  BY DEF Fault
<1> QED
  BY <1>1, <1>2 DEF Crash, CommitPaymentUnknown, InsertNotificationFails, NotifyPaid

LEMMA NoticedStays ==
  ASSUME IInv, [Next]_vars, faultKinds' \subseteq {"rollback"},
         NEW id, NEW by, Noticed(id, by)
  PROVE  Noticed(id, by)'
<1> DEFINE There == notifications \cup inserts
           Written == \E i \in There : i.id = id /\ i.by = by
<1>1. CASE There \subseteq There' /\ Written
  BY <1>1 DEF Noticed
<1>2. CASE Written /\ \E k \in inserts : InsertNotification(k)
  <2>1. PICK k \in inserts : InsertNotification(k)
    BY <1>2
  <2>2. PICK i \in There : i.id = id /\ i.by = by
    BY <1>2
  <2>3. CASE i = k
    <3> DEFINE at == IF k.by = "create" THEN k.at ELSE invoices[k.id].updatedAt
               row == Notice(k.id, k.by, at)
    <3>1. row \in notifications'
      BY <2>1 DEF InsertNotification
    <3>2. row.id = k.id /\ row.by = k.by
      BY DEF Notice
    <3> HIDE DEF row
    <3> QED
      BY <2>2, <2>3, <3>1, <3>2 DEF Noticed
  <2>4. CASE i # k
    <3>1. i \in There'
      BY <2>1, <2>4 DEF InsertNotification
    <3> QED
      BY <2>2, <3>1 DEF Noticed
  <2> QED
    BY <2>3, <2>4
<1>3. There \subseteq There' \/ \E k \in inserts : InsertNotification(k)
  BY OnlyRollbacks
  DEF Next, Tick, SomePayment, Pays, Arrives, CreateInvoice, CancelInvoice, CommitKey,
      HourPasses, MarkExpired, MarkExpiredFails, Skip, ReadInvoice, CommitPayment,
      WritePayment, RollbackPayment, NotifyPaid
<1>4. CASE by = "pay" /\ worker.doing = "notifying" /\ chain[current].id = id
  <2>1. CASE NotifyPaid
    <3>1. Notice(id, by, worker.now) \in notifications'
      BY <1>4, <2>1, OnlyRollbacks
    <3> QED
      BY <3>1 DEF Noticed, Notice
  <2>2. CASE ~NotifyPaid
    <3>1. UNCHANGED <<worker, lastIndexed>>
      BY <1>4, <2>2, OthersLeaveWorker, OnlyRollbacks
      DEF WorkerStep, Skip, ReadInvoice, CommitPayment, WritePayment, RollbackPayment, Idle
    <3>2. current' = current
      BY <3>1 DEF current
    <3>3. current \in 1..Len(chain)
      BY <1>4, AtPaymentFacts DEF Idle
    <3>4. chain'[current] = chain[current]
      BY <3>3, ChainGrows
    <3> QED
      BY <1>4, <3>1, <3>2, <3>4 DEF Noticed
  <2> QED
    BY <2>1, <2>2
<1> HIDE DEF There
<1> QED
  BY <1>1, <1>2, <1>3, <1>4 DEF Noticed, There

(* A change of status comes with what will notify it.                      *)
LEMMA NewIsNoticed ==
  ASSUME IInv, [Next]_vars, faultKinds' \subseteq {"rollback"},
         NEW id \in Ids, Exists(id)'
  PROVE  /\ ~Exists(id) => Noticed(id, "create")'
         /\ \/ Exists(id) /\ invoices'[id].status = invoices[id].status
            \/ Noticed(id, ChangeTo(invoices[id].status))'
<1> DEFINE Goal == /\ ~Exists(id) => Noticed(id, "create")'
                   /\ \/ Exists(id) /\ invoices'[id].status = invoices[id].status
                      \/ Noticed(id, ChangeTo(invoices[id].status))'
<1>1. CASE invoices'[id] = invoices[id]
  BY <1>1 DEF Exists
<1>2. ASSUME NEW j \in Ids, NEW amount \in Amounts, NEW lifeTime \in LifeTimes,
             CreateInvoice(j, amount, lifeTime), invoices'[id] # invoices[id]
      PROVE  Goal
  <2>1. j = id /\ invoices'[id].status = "waiting"
    BY <1>2 DEF CreateInvoice, IInv, TypeOK
  <2>2. Noticed(id, "create")'
    <3>1. Notice(id, "create", clock) \in inserts'
      BY <1>2, <2>1 DEF CreateInvoice
    <3> QED
      BY <3>1 DEF Noticed, Notice
  <2>3. ChangeTo(invoices'[id].status) = "create"
    BY <2>1 DEF ChangeTo
  <2> QED
    BY <2>2, <2>3
<1>3. ASSUME NEW j \in Ids, CancelInvoice(j), invoices'[id] # invoices[id]
      PROVE  Goal
  <2>1. invoices[j] \in Row
    BY <1>3, Rows DEF CancelInvoice, IInv
  <2>2. j = id /\ invoices'[id].status = "cancelled" /\ Exists(id)
    BY <1>3, <2>1, Rows DEF CancelInvoice, IInv, TypeOK, Row
  <2>3. Noticed(id, "cancel")'
    <3>1. Notice(id, "cancel", clock) \in inserts'
      BY <1>3, <2>2 DEF CancelInvoice
    <3> QED
      BY <3>1 DEF Noticed, Notice
  <2>4. ChangeTo(invoices'[id].status) = "cancel"
    BY <2>2 DEF ChangeTo
  <2> QED
    BY <2>2, <2>3, <2>4
<1>4. ASSUME MarkExpired, invoices'[id] # invoices[id]
      PROVE  Goal
  <2>1. Overdue(id)
    BY <1>4 DEF MarkExpired
  <2>2. Exists(id) /\ invoices[id] \in Row
    BY <2>1, Rows DEF Overdue, IInv
  <2>3. invoices'[id].status = "expired"
    BY <1>4, <2>1, <2>2 DEF MarkExpired, Row
  <2>4. Notice(id, "expire", clock) \in inserts'
    BY <1>4, <2>1 DEF MarkExpired
  <2>5. Noticed(id, "expire")'
    BY <2>4 DEF Noticed, Notice
  <2>6. ChangeTo(invoices'[id].status) = "expire"
    BY <2>3 DEF ChangeTo
  <2> QED
    BY <2>2, <2>5, <2>6
<1>5. ASSUME CommitPayment, invoices'[id] # invoices[id]
      PROVE  Goal
  <2>1. WritePayment /\ id = chain[current].id /\ Exists(id) /\ invoices[id] \in Row
    BY <1>5, WriteFacts, Rows DEF CommitPayment, IInv
  <2>2. invoices'[id] =
          Credited(invoices[id], worker.read, worker.read.overpayment + chain[current].amount,
                   worker.now)
    BY <2>1, WriteFacts
  <2>3. CASE ~JustPaid
    BY <2>1, <2>2, <2>3 DEF JustPaid, Credited, Row
  <2>4. CASE JustPaid
    <3>1. invoices'[id].status = "paid"
      BY <2>1, <2>2, <2>4 DEF JustPaid, Credited, Row
    <3>2. worker'.doing = "notifying" /\ UNCHANGED <<lastIndexed, chain>>
      BY <1>5, <2>4 DEF CommitPayment, WritePayment
    <3>3. Noticed(id, "pay")'
      BY <2>1, <3>2 DEF Noticed, current
    <3>4. ChangeTo(invoices'[id].status) = "pay"
      BY <3>1 DEF ChangeTo
    <3> QED
      BY <2>1, <3>3, <3>4
  <2> QED
    BY <2>3, <2>4
<1>6. Goal
  <2> HIDE DEF Goal
  <2>1. ASSUME UNCHANGED invoices PROVE Goal
    BY <1>1, <2>1 DEF Goal
  <2> QED
    BY <1>1, <1>2, <1>3, <1>4, <1>5, <2>1, OnlyRollbacks
    DEF Goal, Next, Tick, SomePayment, Pays, Arrives, CommitKey, HourPasses,
        MarkExpiredFails, InsertNotification, Skip, ReadInvoice, RollbackPayment, NotifyPaid
<1> QED
  BY <1>6

(* While no process is killed and no insert of a notification fails, every *)
(* creation and every change of status is notified or about to be, through *)
(* any number of rolled back payments (invoices.go:23, 219, 257, 299).     *)
THEOREM AllNoticed == Spec => []ChangesNoticed
<1>1. Init => ChangesNoticed
  BY DEF Init, ChangesNoticed, Exists, Absent
<1>2. IInv /\ ChangesNoticed /\ [Next]_vars => ChangesNoticed'
  <2> SUFFICES ASSUME IInv, ChangesNoticed, [Next]_vars,
                      faultKinds' \subseteq {"rollback"}, NEW id \in Ids, Exists(id)'
               PROVE  Noticed(id, "create")' /\ Noticed(id, ChangeTo(invoices[id].status))'
    BY DEF ChangesNoticed
  <2>1. Exists(id) => Noticed(id, "create") /\ Noticed(id, ChangeTo(invoices[id].status))
    BY OnlyRollbacks DEF ChangesNoticed
  <2>2. Noticed(id, "create")'
    BY <2>1, NoticedStays, NewIsNoticed
  <2>3. Noticed(id, ChangeTo(invoices[id].status))'
    <3>1. CASE Exists(id) /\ invoices'[id].status = invoices[id].status
      <4>1. Noticed(id, ChangeTo(invoices[id].status))
        BY <2>1, <3>1
      <4>2. PICK by : by = ChangeTo(invoices[id].status)
        OBVIOUS
      <4>3. Noticed(id, by)'
        BY <4>1, <4>2, NoticedStays
      <4>4. by = ChangeTo(invoices'[id].status)
        BY <3>1, <4>2
      <4> QED
        BY <4>3, <4>4
    <3> QED
      BY <3>1, NewIsNoticed
  <2> QED
    BY <2>2, <2>3
<1> QED
  BY <1>1, <1>2, Invariance, PTL DEF Spec

=============================================================================
