---------------------------- MODULE Invoices ----------------------------
(***************************************************************************)
(* The life of invoices in Postgres (pkg/db/invoices.go, pkg/db/keys.go):  *)
(* API handlers create and cancel them, the indexer worker of the account  *)
(* they are paid to applies its transactions to them one by one            *)
(* (SavePayments, processPayment), the expiration processor expires them,  *)
(* and each change of status is followed by the insert of a notification   *)
(* that is not part of the change. Every statement is a step of its own    *)
(* wherever another process can come in between.                           *)
(*                                                                         *)
(* An invoice is in one currency, so only the worker of one account ever   *)
(* writes payments into it: one worker is modelled, on the feed that       *)
(* TxSync implements.                                                      *)
(***************************************************************************)
EXTENDS Integers, Sequences, Functions, Keys

CONSTANTS
  Ids,          \* invoices
  KeyOwners,    \* the payers that commit an encryption key
  LifeTimes,    \* life times an invoice may be given
  MaxDuration,  \* durations are -MaxDuration..MaxDuration-1 (2^63 ns)
  MaxAmount,    \* bound on amounts, in the smallest unit
  MaxTime,      \* bound on the clock
  MaxLt,        \* bound on the account's transactions
  Faults,       \* the faults considered: see Fault
  MaxFaults     \* bound on their number

FaultKinds == {"rollback", "ack", "notify", "crash"}

ASSUME InvoicesAssumption ==
  /\ LifeTimes \subseteq Nat \ {0}
  /\ MaxDuration \in Nat \ {0}
  /\ MaxAmount \in Nat \ {0}
  /\ MaxTime \in Nat \ {0}
  /\ MaxLt \in Nat
  /\ MaxFaults \in Nat
  /\ KeyOwners \subseteq Payers
  /\ Faults \subseteq FaultKinds

VARIABLES
  clock,            \* time.Now(), one for the database and the blockchain
  chain,            \* the account's transactions since tracking started
  invoices,         \* payments.invoices
  notifications,    \* payments.invoice_notifications
  inserts,          \* notifications whose insert has not been made yet
  lastProcessedLt,  \* blockchain.accounts.last_processed_lt
  processingErrors, \* transactions with a processing_error
  lastIndexed,      \* indexerWorker.lastIndexed
  worker,           \* processPayment of the worker: what it has read
  saves,            \* ghost: how often each transaction was committed
  faultCount,       \* faults so far
  faultKinds        \* ghost: their kinds

tables == <<invoices, notifications, lastProcessedLt, processingErrors, keys>>
faults == <<faultCount, faultKinds>>
memory == <<inserts, lastIndexed, worker>>
vars == <<clock, chain, tables, memory, saves, faults>>

-----------------------------------------------------------------------------
Times == 0..MaxTime
Amounts == 1..MaxAmount
Statuses == {"waiting", "paid", "cancelled", "expired"}

(* What the indexer makes of a transaction: a payment of an invoice, no    *)
(* payment (another currency or no invoice id), or a parsing error.        *)
NoPayment == [kind |-> "none"]
Malformed == [kind |-> "malformed"]
Payment(id, p, amount, at) ==
  [kind |-> "payment", id |-> id, by |-> p, amount |-> amount, at |-> at]
Payments == [kind : {"payment"}, id : Ids, by : Payers, amount : Amounts, at : Times]
Transaction == {NoPayment, Malformed} \cup Payments

Absent == [status |-> "absent"]
Row == [status : Statuses, amount : Amounts, overpayment : Nat,
        expireAt : Times, updatedAt : Times, txLt : 0..MaxLt]

Idle == [doing |-> "idle"]
Paying == [doing : {"paying"}, now : Times, read : Row]
Notifying == [doing : {"notifying"}, now : Times]

(* A row of invoice_notifications: what is read of it are the invoice and  *)
(* its updated_at; "by" names the change it was written for.               *)
Changes == {"create", "cancel", "expire", "pay"}
Notification == [id : Ids, by : Changes, at : Times]

FaultsOK == faultCount \in 0..MaxFaults /\ faultKinds \subseteq Faults

TypeOK ==
  /\ clock \in Times
  /\ chain \in Seq(Transaction) /\ Len(chain) <= MaxLt
  /\ invoices \in [Ids -> Row \cup {Absent}]
  /\ notifications \subseteq Notification
  /\ inserts \subseteq Notification
  /\ lastProcessedLt \in 0..Len(chain)
  /\ lastIndexed \in {lastProcessedLt, lastProcessedLt - 1}
  /\ processingErrors \subseteq 1..lastProcessedLt
  /\ worker \in {Idle} \cup Paying \cup Notifying
  /\ saves \in [1..MaxLt -> Nat]
  /\ FaultsOK
  /\ KeysTypeOK

Init ==
  /\ clock = 0
  /\ chain = <<>>
  /\ invoices = [id \in Ids |-> Absent]
  /\ notifications = {}
  /\ inserts = {}
  /\ lastProcessedLt = 0
  /\ processingErrors = {}
  /\ lastIndexed = 0
  /\ worker = Idle
  /\ saves = [n \in 1..MaxLt |-> 0]
  /\ faultCount = 0
  /\ faultKinds = {}
  /\ KeysInit

Exists(id) == invoices[id].status # "absent"
Notice(id, by, at) == [id |-> id, by |-> by, at |-> at]
Waiting(id) == invoices[id].status = "waiting"

(* A fault of the given kind happens:                                      *)
(*   "rollback"  a statement before the end of a database transaction, or  *)
(*               an update outside one, fails and has no effect;           *)
(*   "ack"       a commit takes effect and its answer is lost;             *)
(*   "notify"    the insert of a notification returns an error;            *)
(*   "crash"     the process is killed and started again.                  *)
Fault(kind) ==
  /\ kind \in Faults
  /\ faultCount < MaxFaults
  /\ faultCount' = faultCount + 1
  /\ faultKinds' = faultKinds \cup {kind}

NoFault == UNCHANGED faults

-----------------------------------------------------------------------------
(* The environment.                                                        *)

Tick ==
  /\ clock < MaxTime
  /\ clock' = clock + 1
  /\ UNCHANGED <<chain, tables, memory, saves, faults>>

(* Somebody sends a transaction to the account. An invoice id is a random  *)
(* UUID: nobody pays with one that has not been issued.                    *)
Arrives(tx) ==
  /\ Len(chain) < MaxLt
  /\ chain' = Append(chain, tx)
  /\ UNCHANGED <<clock, tables, memory, saves, faults>>

Pays(id, p, amount) == Exists(id) /\ Arrives(Payment(id, p, amount, clock))

-----------------------------------------------------------------------------
(* The API handlers.                                                       *)

(* A life time is positive, but as a 64-bit number of nanoseconds it wraps *)
(* around when it is longer than 292 years.                                *)
Duration(lifeTime) == ((lifeTime + MaxDuration) % (2 * MaxDuration)) - MaxDuration

(* createInvoice: the row is inserted, then (below) its notification. When *)
(* the duration has wrapped around, expire_at may be in the past. The      *)
(* bound lets the clock run past it.                                       *)
CreateInvoice(id, amount, lifeTime) ==
  /\ ~Exists(id)
  /\ clock + Duration(lifeTime) \in 0..MaxTime - 1
  /\ invoices' = [invoices EXCEPT ![id] =
       [status |-> "waiting", amount |-> amount, overpayment |-> 0,
        expireAt |-> clock + Duration(lifeTime), updatedAt |-> clock, txLt |-> 0]]
  /\ inserts' = inserts \cup {Notice(id, "create", clock)}
  /\ UNCHANGED <<clock, chain, notifications, lastProcessedLt, processingErrors,
                 lastIndexed, worker, keys, saves, faults>>

(* cancelInvoice: one conditional update. It is not reached by an invoice  *)
(* that is paid, cancelled, expired or overdue.                            *)
CancelInvoice(id) ==
  /\ Waiting(id)
  /\ clock < invoices[id].expireAt
  /\ invoices' = [invoices EXCEPT ![id].status = "cancelled", ![id].updatedAt = clock]
  /\ inserts' = inserts \cup {Notice(id, "cancel", clock)}
  /\ UNCHANGED <<clock, chain, notifications, lastProcessedLt, processingErrors,
                 lastIndexed, worker, keys, saves, faults>>

(* commitKey.                                                              *)
CommitKey(p) ==
  /\ SaveEncryptionKey(p)
  /\ UNCHANGED <<clock, chain, invoices, notifications, lastProcessedLt,
                 processingErrors, memory, saves, faults>>

HourPasses(p) ==
  /\ KeyAges(p)
  /\ UNCHANGED <<clock, chain, invoices, notifications, lastProcessedLt,
                 processingErrors, memory, saves, faults>>

-----------------------------------------------------------------------------
(* Mutant: an invoice that has received something does not expire.         *)
OverdueAndEmpty(id) ==
  /\ invoices[id].status = "waiting"
  /\ invoices[id].expireAt < clock
  /\ invoices[id].overpayment = 0

(* Mutant: the status is not part of the condition.                        *)
OverdueWhateverStatus(id) == Exists(id) /\ invoices[id].expireAt < clock

(* The expiration processor: DeleteExpiredKeys, then MarkExpired, whose    *)
(* one statement expires every overdue invoice. It starts a new round when *)
(* the inserts of the last one are made or given up.                       *)
Overdue(id) == Waiting(id) /\ invoices[id].expireAt < clock

ExpirationRound == DeleteExpiredKeys /\ \A i \in inserts : i.by # "expire"

MarkExpired ==
  /\ ExpirationRound
  /\ LET ids == {id \in Ids : Overdue(id)}
     IN  /\ ids # {} \/ \E p \in Payers : keys[p] = "stale"
         /\ invoices' = [id \in Ids |->
              IF id \in ids
              THEN [invoices[id] EXCEPT !.status = "expired", !.updatedAt = clock]
              ELSE invoices[id]]
         /\ inserts' = inserts \cup {Notice(id, "expire", clock) : id \in ids}
  /\ UNCHANGED <<clock, chain, notifications, lastProcessedLt, processingErrors,
                 lastIndexed, worker, saves, faults>>

(* The keys are deleted and the update of MarkExpired fails.               *)
MarkExpiredFails ==
  /\ ExpirationRound
  /\ Fault("rollback")
  /\ UNCHANGED <<clock, chain, invoices, notifications, lastProcessedLt,
                 processingErrors, memory, saves>>

-----------------------------------------------------------------------------
(* The inserts into invoice_notifications that follow a change of status.  *)
(* createInvoice inserts what it has created; cancelInvoice and            *)
(* MarkExpired read the invoice again before they insert.                  *)
InsertNotification(i) ==
  /\ i \in inserts
  /\ inserts' = inserts \ {i}
  /\ LET at == IF i.by = "create" THEN i.at ELSE invoices[i.id].updatedAt
     IN  notifications' = notifications \cup {Notice(i.id, i.by, at)}
  /\ UNCHANGED <<clock, chain, invoices, lastProcessedLt, processingErrors,
                 lastIndexed, worker, keys, saves, faults>>

(* A failed insert is reported to the caller of the API and not repeated;  *)
(* in MarkExpired it also gives up the inserts that were still to come. If *)
(* the row was inserted all the same, that is InsertNotification.          *)
InsertNotificationFails(i) ==
  /\ i \in inserts
  /\ Fault("notify")
  /\ inserts' = IF i.by = "expire" THEN {j \in inserts : j.by # "expire"}
                                   ELSE inserts \ {i}
  /\ UNCHANGED <<clock, chain, invoices, notifications, lastProcessedLt,
                 processingErrors, lastIndexed, worker, keys, saves>>

-----------------------------------------------------------------------------
(* The indexer worker. SavePayments is called for the transaction after    *)
(* lastIndexed; lastIndexed follows only when it returns no error.         *)
current == lastIndexed + 1
Due == current <= Len(chain)

(* Mutant: the update of last_processed_lt is missing.                     *)
CursorForgotten ==
  /\ saves' = [saves EXCEPT ![current] = @ + 1]
  /\ UNCHANGED lastProcessedLt

(* The end of a database transaction of SavePayments.                      *)
AdvanceCursor ==
  /\ lastProcessedLt' = current
  /\ saves' = [saves EXCEPT ![current] = @ + 1]

(* A transaction without a payment, or one that could not be parsed.       *)
Skip ==
  /\ Due
  /\ worker = Idle
  /\ chain[current] \in {NoPayment, Malformed}
  /\ AdvanceCursor
  /\ processingErrors' = IF chain[current] = Malformed THEN processingErrors \cup {current}
                                                      ELSE processingErrors
  /\ \/ NoFault /\ lastIndexed' = current
     \/ Fault("ack") /\ UNCHANGED lastIndexed
  /\ UNCHANGED <<clock, chain, invoices, notifications, inserts, worker, keys>>

(* processPayment takes the time and reads the invoice.                    *)
ReadInvoice ==
  /\ Due
  /\ worker = Idle
  /\ chain[current].kind = "payment"
  /\ worker' = [doing |-> "paying", now |-> clock, read |-> invoices[chain[current].id]]
  /\ UNCHANGED <<clock, chain, tables, inserts, lastIndexed, saves, faults>>

(* Mutants: one of the three conditions is forgotten.                      *)
SettlesInAnyStatus(read, total, now) ==
  now <= read.expireAt /\ read.amount <= total
SettlesAtAnyTime(read, total, now) ==
  read.status = "waiting" /\ read.amount <= total
SettlesWithAnyAmount(read, total, now) ==
  read.status = "waiting" /\ now <= read.expireAt

(* What it decides from what it has read, with the payment added: whether  *)
(* the invoice becomes paid, and the row that is written over the one that *)
(* is in the table by now. Only the fields set by the updates change.      *)
Settles(read, total, now) ==
  /\ read.status = "waiting"
  /\ now <= read.expireAt
  /\ read.amount <= total

(* Mutant: the amount of the invoice is not taken off.                     *)
CreditedWhole(row, read, total, now) ==
  IF Settles(read, total, now)
  THEN [row EXCEPT !.overpayment = total, !.updatedAt = now,
                   !.status = "paid", !.txLt = current]
  ELSE [row EXCEPT !.overpayment = total, !.updatedAt = now]

(* Mutant: the whole row is written back as it was read.                   *)
CreditedAsRead(row, read, total, now) ==
  IF Settles(read, total, now)
  THEN [read EXCEPT !.overpayment = total - read.amount, !.updatedAt = now,
                    !.status = "paid", !.txLt = current]
  ELSE [read EXCEPT !.overpayment = total, !.updatedAt = now]

Credited(row, read, total, now) ==
  IF Settles(read, total, now)
  THEN [row EXCEPT !.overpayment = total - read.amount, !.updatedAt = now,
                   !.status = "paid", !.txLt = current]
  ELSE [row EXCEPT !.overpayment = total, !.updatedAt = now]

(* The updates and the commit. The first update locks the row, so nobody   *)
(* comes in between them.                                                  *)
WritePayment ==
  /\ worker.doing = "paying"
  /\ LET p == chain[current]
         total == worker.read.overpayment + p.amount
     IN  /\ invoices' = [invoices EXCEPT ![p.id] =
                           Credited(@, worker.read, total, worker.now)]
         /\ AcceptKey(p.by)
  /\ AdvanceCursor
  /\ UNCHANGED <<clock, chain, notifications, inserts, processingErrors>>

(* Mutant: SavePayments forgets the invoices that became paid.             *)
NothingPaid == FALSE

JustPaid ==
  LET p == chain[current]
  IN  Settles(worker.read, worker.read.overpayment + p.amount, worker.now)

(* ... after which the notification of a paid invoice is still to be made. *)
CommitPayment ==
  /\ WritePayment
  /\ IF JustPaid
     THEN worker' = [doing |-> "notifying", now |-> worker.now] /\ UNCHANGED lastIndexed
     ELSE worker' = Idle /\ lastIndexed' = current
  /\ NoFault

(* The answer to the commit is lost: SavePayments returns the error.       *)
CommitPaymentUnknown ==
  /\ WritePayment
  /\ Fault("ack")
  /\ worker' = Idle
  /\ UNCHANGED lastIndexed

(* Mutant: the updates are made outside of the database transaction.       *)
RollbackNothing ==
  /\ worker.doing = "paying"
  /\ Fault("rollback")
  /\ worker' = Idle
  /\ LET p == chain[current]
         total == worker.read.overpayment + p.amount
     IN  invoices' = [invoices EXCEPT ![p.id] =
                        Credited(@, worker.read, total, worker.now)]
  /\ UNCHANGED <<clock, chain, notifications, lastProcessedLt, processingErrors,
                 keys, inserts, lastIndexed, saves>>

(* A statement fails before the commit: everything is rolled back.         *)
RollbackPayment ==
  /\ worker.doing = "paying"
  /\ Fault("rollback")
  /\ worker' = Idle
  /\ UNCHANGED <<clock, chain, tables, inserts, lastIndexed, saves>>

(* The insert of the notification, outside of the database transaction;    *)
(* SavePayments returns its error, be it that the row was inserted and     *)
(* only the answer is lost.                                                *)
NotifyPaid ==
  /\ worker.doing = "notifying"
  /\ worker' = Idle
  /\ LET noted == notifications \cup {Notice(chain[current].id, "pay", worker.now)}
     IN  \/ /\ NoFault
            /\ notifications' = noted
            /\ lastIndexed' = current
         \/ /\ Fault("notify")
            /\ notifications' \in {notifications, noted}
            /\ UNCHANGED lastIndexed
  /\ UNCHANGED <<clock, chain, invoices, inserts, lastProcessedLt, processingErrors,
                 keys, saves>>

-----------------------------------------------------------------------------
(* The process is killed and started again: what was in memory is lost and *)
(* the worker starts from last_processed_lt.                               *)
Crash ==
  /\ Fault("crash")
  /\ inserts' = {}
  /\ worker' = Idle
  /\ lastIndexed' = lastProcessedLt
  /\ UNCHANGED <<clock, chain, tables, saves>>

SomePayment ==
  \E id \in Ids, p \in Payers, amount \in Amounts : Pays(id, p, amount)

Next ==
  \/ Tick
  \/ SomePayment
  \/ \E tx \in {NoPayment, Malformed} : Arrives(tx)
  \/ \E id \in Ids, amount \in Amounts, lifeTime \in LifeTimes :
       CreateInvoice(id, amount, lifeTime)
  \/ \E id \in Ids : CancelInvoice(id)
  \/ \E p \in KeyOwners : CommitKey(p) \/ HourPasses(p)
  \/ MarkExpired
  \/ MarkExpiredFails
  \/ \E i \in inserts : InsertNotification(i) \/ InsertNotificationFails(i)
  \/ Skip
  \/ ReadInvoice
  \/ CommitPayment
  \/ CommitPaymentUnknown
  \/ RollbackPayment
  \/ NotifyPaid
  \/ Crash

Spec == Init /\ [][Next]_vars

(***************************************************************************)
(* Time passes; the expiration processor wakes up every five seconds; the  *)
(* indexer worker loops for ever and tries again what failed; a handler    *)
(* that has started comes to its end. Nobody is obliged to call the API or *)
(* to pay.                                                                 *)
(***************************************************************************)
Fairness ==
  /\ WF_vars(Tick)
  /\ WF_vars(MarkExpired)
  /\ WF_vars(\E i \in inserts : InsertNotification(i))
  /\ WF_vars(Skip)
  /\ WF_vars(ReadInvoice)
  /\ WF_vars(CommitPayment)
  /\ WF_vars(NotifyPaid)

FairSpec == Spec /\ Fairness

-----------------------------------------------------------------------------
(* Whether transaction n pays invoice id.                                  *)
PaysFor(n, id) == chain[n].kind = "payment" /\ chain[n].id = id

(* What the transactions have brought to invoice id, each counted as often *)
(* as times says.                                                          *)
Brought(id, times) ==
  [n \in 1..Len(chain) |-> IF PaysFor(n, id) THEN times[n] * chain[n].amount ELSE 0]
Received(id, times) == SumFunction(Brought(id, times))

(* What an invoice accounts for: its overpayment, and its amount once it   *)
(* has been paid.                                                          *)
AccountedFor(row) ==
  row.overpayment + (IF row.status = "paid" THEN row.amount ELSE 0)

(* Every committed payment is added to its invoice whatever its status,    *)
(* and nothing else ever is: processPayment writes a sum it computed from  *)
(* an older read (invoices.go:321-351), so an update of another process in *)
(* between must not touch the sum. An invoice is paid only in full.        *)
Accounting ==
  \A id \in Ids : Exists(id) =>
    AccountedFor(invoices[id]) = Received(id, saves)

(* To who looks at the table every operation is one step: a payment that   *)
(* is read, decided upon and written in statements of its own              *)
(* (invoices.go:321-366) is added to what the invoice has by then, settles *)
(* it when it is on time and covered, and undoes nothing that a handler or *)
(* the expiration processor has done in between.                           *)
Entry(row) ==
  IF row.status = "absent"
  THEN row
  ELSE [status |-> row.status, price |-> row.amount, due |-> row.expireAt,
        credit |-> AccountedFor(row)]

L == INSTANCE Ledger WITH book <- [id \in Ids |-> Entry(invoices[id])]
LedgerSpec == L!Spec

(* A paid invoice was settled by a transaction that was made to it no      *)
(* later than its expire_at (README.md:115), and the transaction recorded  *)
(* in the row (0001_init.up.sql:73-74) is the one that did it.             *)
PaidInTime ==
  \A id \in Ids : invoices[id].status = "paid" =>
    LET n == invoices[id].txLt
    IN  /\ n \in 1..lastProcessedLt
        /\ PaysFor(n, id)
        /\ chain[n].at <= invoices[id].expireAt

(* A paid invoice stays paid by the same transaction for the same amount;  *)
(* later payments, and repeated ones, only add to its overpayment. The     *)
(* conditions that guard it are in three statements of three processes     *)
(* (invoices.go:209, 229, 352).                                            *)
PaidIsFinal ==
  [][\A id \in Ids : invoices[id].status = "paid" =>
       /\ invoices'[id].status = "paid"
       /\ invoices'[id].amount = invoices[id].amount
       /\ invoices'[id].expireAt = invoices[id].expireAt
       /\ invoices'[id].txLt = invoices[id].txLt
       /\ invoices'[id].overpayment >= invoices[id].overpayment]_vars

(* A cancelled or expired invoice stays what it is, with one exception: a  *)
(* payment that had read it as waiting before it was cancelled or expired  *)
(* still makes it paid (invoices.go:321-327, 358-366).                     *)
ClosedUnlessOvertaken ==
  [][\A id \in Ids :
       /\ invoices[id].status \in {"cancelled", "expired"}
       /\ invoices'[id].status # invoices[id].status
       => /\ invoices'[id].status = "paid"
          /\ worker.doing = "paying"
          /\ worker.read.status = "waiting"
          /\ invoices'[id].txLt = current /\ PaysFor(current, id)]_vars

(* Metadata are encrypted with a key that its owner has confirmed by a     *)
(* payment: an accepted key belongs to an account that has paid an invoice *)
(* in a transaction whose effects are committed (invoices.go:336-342).     *)
AcceptedKeysHavePaid ==
  \A p \in Payers : keys[p] = "accepted" =>
    \E n \in 1..lastProcessedLt : chain[n].kind = "payment" /\ chain[n].by = p

(* SavePayments keeps the promise TxSync makes about it: effects in order, *)
(* together with last_processed_lt, and repeated for the newest only.      *)
F == INSTANCE Feed WITH head <- Len(chain), tracked <- TRUE, start <- 0,
                        done <- lastProcessedLt, handed <- saves
FeedSpec == F!Spec

(* Transactions take effect exactly once when nothing but database         *)
(* transactions fail and processes are killed: a restart resumes from      *)
(* last_processed_lt, which was committed together with the effects        *)
(* (invoices.go:265-297, indexer.go:28-34). Only an error that SavePayments*)
(* returns after its commit repeats them (indexer.go:54-61).               *)
CommittedOnce ==
  faultKinds \subseteq {"rollback", "crash"} =>
    \A n \in 1..MaxLt : saves[n] = IF n <= lastProcessedLt THEN 1 ELSE 0

(* Every payment is credited once: the retry of a SavePayments that failed *)
(* and the restart after a crash find its effects together with            *)
(* last_processed_lt or not at all (invoices.go:265-298). README.md:121    *)
(* describes overpayment as what was received beyond the amount due.       *)
CreditedOnce ==
  LET once == [n \in 1..Len(chain) |-> IF n <= lastProcessedLt THEN 1 ELSE 0]
  IN  \A id \in Ids : Exists(id) => AccountedFor(invoices[id]) = Received(id, once)

ChangeTo(status) ==
  CASE status = "waiting" -> "create" [] status = "cancelled" -> "cancel"
    [] status = "expired" -> "expire" [] status = "paid" -> "pay"

(* The notification of a change is in the table or still to be inserted.   *)
Noticed(id, by) ==
  \/ \E i \in notifications \cup inserts : i.id = id /\ i.by = by
  \/ by = "pay" /\ worker.doing = "notifying" /\ chain[current].id = id

(* The creation of an invoice and its change to the status it has are each *)
(* followed by a notification of their own (invoices.go:23, 219, 257,      *)
(* 299), although the insert is never part of the change.                  *)
ChangesNoticed ==
  faultKinds \subseteq {"rollback"} => \A id \in Ids : Exists(id) =>
    Noticed(id, "create") /\ Noticed(id, ChangeTo(invoices[id].status))

(* "Any transition of an invoice from one state to another will trigger a  *)
(* notification" (README.md:158), also when the process is killed between  *)
(* the two statements and started again.                                   *)
TransitionsNoticed ==
  \A id \in Ids : invoices[id].status \in {"cancelled", "expired", "paid"} =>
    Noticed(id, ChangeTo(invoices[id].status))

(* An invoice does not stay waiting past its expire_at, with whatever      *)
(* payments, partial or late, it has received (invoices.go:226-232).       *)
EventuallyClosed ==
  \A id \in Ids : invoices[id].status = "waiting" ~> invoices[id].status # "waiting"

(* The state diagram (docs/invoice_state_diagram.drawio.svg, README.md:153)*)
(* has no way out of "cancelled" and "expired".                            *)
ClosedIsFinal ==
  [][\A id \in Ids : invoices[id].status \in {"cancelled", "expired"} =>
       invoices'[id].status = invoices[id].status]_vars
=============================================================================
