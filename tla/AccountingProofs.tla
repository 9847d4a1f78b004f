------------------------ MODULE AccountingProofs ------------------------
(***************************************************************************)
(* The books of Invoices balance, for any number of invoices, payments and *)
(* faults: what invoices account for is the sum of what was committed for  *)
(* them, and as long as no error follows a commit, the sum of what was     *)
(* paid.                                                                   *)
(***************************************************************************)
EXTENDS InvoicesProofs, FiniteInduction

(* What has not been committed yet has been committed zero times.          *)
NoneAhead == \A n \in 1..MaxLt : lastProcessedLt < n => saves[n] = 0

Balanced == NoneAhead /\ Accounting

-----------------------------------------------------------------------------
(* Brought is a function from finitely many transactions to amounts.       *)
LEMMA BroughtFacts ==
  ASSUME TypeOK, NEW id \in Ids
  PROVE  /\ Len(chain) \in Nat /\ IsFiniteSet(1..Len(chain))
         /\ Received(id, saves) = SumFunctionOnSet(Brought(id, saves), 1..Len(chain))
         /\ \A n \in 1..Len(chain) : Brought(id, saves)[n] \in Nat
<1>1. Len(chain) \in Nat /\ IsFiniteSet(1..Len(chain))
  BY FS_Interval DEF TypeOK
<1>2. ASSUME NEW n \in 1..Len(chain)
      PROVE  Brought(id, saves)[n] \in Nat
  <2>1. saves[n] \in Nat
    BY InvoicesAssumption DEF TypeOK
  <2>2. PaysFor(n, id) => chain[n].amount \in Nat
    <3>1. chain[n] \in Transaction
      BY DEF TypeOK
    <3> QED
      BY <3>1, InvoicesAssumption DEF PaysFor, Transaction, NoPayment, Malformed, Payments, Amounts
  <2> QED
    BY <2>1, <2>2 DEF Brought
<1> QED
  BY <1>1, <1>2 DEF Received, SumFunction, Brought

(* Steps that leave the chain and the commits alone change no sum.         *)
LEMMA SameReceived ==
  ASSUME UNCHANGED <<chain, saves>>, NEW id \in Ids
  PROVE  Received(id, saves)' = Received(id, saves)
BY DEF Received, Brought, PaysFor

(* A transaction that is not committed brings nothing.                     *)
LEMMA ArrivalReceived ==
  ASSUME TypeOK, TypeOK', NoneAhead, NEW tx \in Transaction, Arrives(tx), NEW id \in Ids
  PROVE  Received(id, saves)' = Received(id, saves)
<1> DEFINE S == 1..Len(chain)
           w == Brought(id, saves)
           v == Brought(id, saves)'
<1>1. PICK m : m = Len(chain) + 1 /\ m \in 1..MaxLt
  BY InvoicesAssumption DEF Arrives, TypeOK
<1>2. /\ Len(chain) \in Nat /\ Len(chain') = m /\ lastProcessedLt < m
      /\ \A n \in S : chain'[n] = chain[n]
      /\ UNCHANGED saves
      /\ 1..m = S \cup {m} /\ m \notin S
  BY <1>1 DEF Arrives, TypeOK
<1>3. v[m] = 0
  <2>1. chain'[m] \in Transaction /\ m \in 1..Len(chain')
    BY <1>2 DEF TypeOK
  <2> DEFINE pays == chain'[m].kind = "payment" /\ chain'[m].id = id
  <2>2. pays => chain'[m].amount \in Nat
    BY <2>1, InvoicesAssumption DEF Transaction, NoPayment, Malformed, Payments, Amounts
  <2>3. v[m] = IF pays THEN saves'[m] * chain'[m].amount ELSE 0
    BY <2>1 DEF Brought, PaysFor
  <2>4. saves'[m] = 0
    BY <1>1, <1>2 DEF NoneAhead
  <2> QED
    BY <2>2, <2>3, <2>4
<1>4. \A n \in S : v[n] = w[n]
  BY <1>1, <1>2 DEF Brought, PaysFor
<1>5. /\ Received(id, saves) = SumFunctionOnSet(w, S)
      /\ Received(id, saves)' = SumFunctionOnSet(v, S \cup {m})
      /\ IsFiniteSet(S)
      /\ \A n \in S : w[n] \in Nat
  BY <1>2, BroughtFacts DEF Received, SumFunction, Brought
<1> HIDE DEF v, w, S
<1>6. SumFunctionOnSet(v, S \cup {m}) = SumFunctionOnSet(w, S) + 0
  <2>1. m \notin S /\ v[m] \in Nat
    BY <1>2, <1>3
  <2>2. SumFunctionOnSet(v, S \cup {m}) = SumFunctionOnSet(w, S) + v[m]
    BY <1>4, <1>5, <2>1, SumExtended
  <2> QED
    BY <1>3, <2>2
<1>7. SumFunctionOnSet(w, S) \in Nat
  BY <1>5, SumIsNat
<1> QED
  BY <1>5, <1>6, <1>7

(* A commit brings the amount of its payment once more.                    *)
LEMMA CommitReceived ==
  ASSUME TypeOK, TypeOK', AdvanceCursor, UNCHANGED chain, current \in 1..Len(chain), NEW id \in Ids
  PROVE  Received(id, saves)' =
           Received(id, saves) + (IF PaysFor(current, id) THEN chain[current].amount ELSE 0)
<1> DEFINE S == 1..Len(chain)
           w == Brought(id, saves)
           v == Brought(id, saves)'
           a == IF PaysFor(current, id) THEN chain[current].amount ELSE 0
<1>1. /\ saves \in [1..MaxLt -> Nat] /\ saves' = [saves EXCEPT ![current] = @ + 1]
      /\ S \subseteq 1..MaxLt
  BY InvoicesAssumption DEF AdvanceCursor, TypeOK
<1>2. \A n \in S \ {current} : v[n] = w[n]
  BY <1>1 DEF Brought, PaysFor
<1>3. a \in Nat
  <2>1. chain[current] \in Transaction
    BY DEF TypeOK
  <2> QED
    BY <2>1, InvoicesAssumption DEF PaysFor, Transaction, NoPayment, Malformed, Payments, Amounts
<1>4. v[current] = w[current] + a
  <2>1. saves[current] \in Nat /\ saves'[current] = saves[current] + 1
    BY <1>1
  <2>2. PaysFor(current, id) => w[current] = saves[current] * a /\ v[current] = saves'[current] * a
    BY DEF Brought, PaysFor
  <2>3. ~PaysFor(current, id) => w[current] = 0 /\ v[current] = 0 /\ a = 0
    BY DEF Brought, PaysFor
  <2>4. \A x, y \in Nat : (x + 1) * y = x * y + y
    OBVIOUS
  <2> HIDE DEF a, v, w
  <2> QED
    BY <1>3, <2>1, <2>2, <2>3, <2>4
<1>5. /\ Received(id, saves) = SumFunctionOnSet(w, S)
      /\ Received(id, saves)' = SumFunctionOnSet(v, S)
      /\ IsFiniteSet(S)
      /\ \A n \in S : w[n] \in Nat
  BY BroughtFacts DEF Received, SumFunction, Brought
<1>6. SumFunctionOnSet(w, S) \in Nat /\ SumFunctionOnSet(v, S) \in Int
  <2>1. \A n \in S : v[n] \in Nat
    BY <1>2, <1>3, <1>4, <1>5
  <2> HIDE DEF v, w, S
  <2> QED
    BY <1>5, <2>1, SumIsNat
<1> HIDE DEF v, w, a, S
<1>7. PICK c \in S : c = current
  BY DEF S
<1>8. /\ w[c] \in Nat /\ v[c] = w[c] + a /\ v[c] \in Nat
      /\ \A n \in S \ {c} : v[n] = w[n]
  BY <1>2, <1>3, <1>4, <1>5, <1>7
<1>9. SumFunctionOnSet(v, S) + w[c] = SumFunctionOnSet(w, S) + v[c]
  BY <1>5, <1>8, SumChanged
<1>10. SumFunctionOnSet(v, S) = SumFunctionOnSet(w, S) + a
  BY <1>3, <1>6, <1>8, <1>9
<1> QED
  BY <1>5, <1>10 DEF a

(* Nothing has been paid to an invoice that does not exist.                *)
LEMMA NothingBefore ==
  ASSUME IInv, NEW id \in Ids, ~Exists(id)
  PROVE  Received(id, saves) = 0
<1>1. \A n \in 1..Len(chain) : ~PaysFor(n, id)
  BY DEF IInv, Issued, PaysFor
<1>2. \A n \in 1..Len(chain) : Brought(id, saves)[n] = 0
  BY <1>1 DEF Brought
<1> QED
  BY <1>2, BroughtFacts, SumOfZeros DEF IInv

-----------------------------------------------------------------------------
(* A payment is added to what its invoice accounts for, although the sum   *)
(* that is written comes from an older read.                               *)
LEMMA PaymentIsAdded ==
  ASSUME IInv, WritePayment
  PROVE  LET p == chain[current]
         IN  /\ invoices[p.id] \in Row /\ invoices'[p.id] \in Row
             /\ AccountedFor(invoices'[p.id]) = AccountedFor(invoices[p.id]) + p.amount
<1> DEFINE p == chain[current]
           row == invoices[p.id]
           read == worker.read
           total == read.overpayment + p.amount
<1>1. /\ row \in Row /\ invoices'[p.id] \in Row /\ p \in Payments /\ worker \in Paying
      /\ invoices'[p.id] = Credited(row, read, total, worker.now)
  BY WriteFacts
<1>2. /\ read.amount = row.amount /\ read.overpayment = row.overpayment
      /\ row.status = "paid" => read.status = "paid"
  BY DEF IInv, ReadIsUsable, WritePayment
<1>3. p.amount \in Nat /\ row.amount \in Nat /\ row.overpayment \in Nat
  BY <1>1, InvoicesAssumption DEF Row, Payments, Amounts
<1> HIDE DEF p, row, read
<1>4. CASE Settles(read, total, worker.now)
  <2>1. row.status # "paid"
    BY <1>2, <1>4 DEF Settles
  <2>2. Credited(row, read, total, worker.now) =
          [row EXCEPT !.overpayment = total - read.amount, !.updatedAt = worker.now,
                      !.status = "paid", !.txLt = current]
    BY <1>4 DEF Credited
  <2>3. AccountedFor(Credited(row, read, total, worker.now)) = total - read.amount + row.amount
    BY <1>1, <2>2 DEF AccountedFor, Row
  <2> QED
    BY <1>1, <1>2, <1>3, <2>1, <2>3 DEF AccountedFor, p, row
<1>5. CASE ~Settles(read, total, worker.now)
  <2>1. Credited(row, read, total, worker.now) =
          [row EXCEPT !.overpayment = total, !.updatedAt = worker.now]
    BY <1>5 DEF Credited
  <2>2. AccountedFor(Credited(row, read, total, worker.now)) =
          total + (IF row.status = "paid" THEN row.amount ELSE 0)
    BY <1>1, <2>1 DEF AccountedFor, Row
  <2> QED
    BY <1>1, <1>2, <1>3, <2>2 DEF AccountedFor, p, row
<1> QED
  BY <1>4, <1>5

(* Every other step leaves what an invoice accounts for as it is.          *)
LEMMA OthersAddNothing ==
  ASSUME IInv, [Next]_vars, NEW id \in Ids, Exists(id), ~Paid(id)
  PROVE  AccountedFor(invoices'[id]) = AccountedFor(invoices[id])
<1>1. invoices[id] \in Row
  BY Rows DEF IInv
<1>2. CASE Kept(id)
  BY <1>2 DEF Kept
<1>3. CASE Closed(id)
  BY <1>1, <1>3 DEF Closed, AccountedFor, Row, Waiting
<1> QED
  BY <1>2, <1>3, RowStep DEF Created

(* The chain and the counters of commits change in these ways only.        *)
LEMMA ChainOrCommit ==
  ASSUME IInv, [Next]_vars
  PROVE  \/ UNCHANGED <<chain, saves, lastProcessedLt>>
         \/ \E tx \in Transaction : Arrives(tx)
         \/ Skip
         \/ WritePayment
<1>1. CASE SomePayment
  <2>1. PICK id \in Ids, p \in Payers, amount \in Amounts : Pays(id, p, amount)
    BY <1>1 DEF SomePayment
  <2>2. Payment(id, p, amount, clock) \in Transaction
    BY DEF Payment, Transaction, Payments, IInv, TypeOK
  <2> QED
    BY <2>1, <2>2 DEF Pays
<1>2. CASE \E tx \in {NoPayment, Malformed} : Arrives(tx)
  <2>1. PICK tx \in {NoPayment, Malformed} : Arrives(tx)
    BY <1>2
  <2>2. tx \in Transaction
    BY DEF Transaction
  <2> QED
    BY <2>1, <2>2
<1> DEFINE Left == UNCHANGED <<chain, saves, lastProcessedLt>>
<1>3. ASSUME NEW id \in Ids, NEW amount \in Amounts, NEW lifeTime \in LifeTimes,
             CreateInvoice(id, amount, lifeTime)
      PROVE  Left
  BY <1>3 DEF CreateInvoice
<1>4. ASSUME NEW p \in KeyOwners, CommitKey(p) \/ HourPasses(p)
      PROVE  Left
  BY <1>4 DEF CommitKey, HourPasses, tables
<1>5. ASSUME Tick \/ MarkExpired \/ MarkExpiredFails \/ \E id \in Ids : CancelInvoice(id)
      PROVE  Left
  BY <1>5 DEF Tick, MarkExpired, MarkExpiredFails, CancelInvoice, tables
<1>6. ASSUME \E i \in inserts : InsertNotification(i) \/ InsertNotificationFails(i)
      PROVE  Left
  BY <1>6 DEF InsertNotification, InsertNotificationFails, tables
<1>7. ASSUME ReadInvoice \/ RollbackPayment \/ NotifyPaid \/ Crash
      PROVE  Left
  BY <1>7 DEF ReadInvoice, RollbackPayment, NotifyPaid, Crash, tables
<1>8. CASE UNCHANGED vars
  BY <1>8 DEF vars, tables
<1>9. ASSUME CommitPayment \/ CommitPaymentUnknown
      PROVE  WritePayment
  BY <1>9 DEF CommitPayment, CommitPaymentUnknown
<1> QED
  BY <1>1, <1>2, <1>3, <1>4, <1>5, <1>6, <1>7, <1>8, <1>9 DEF Next

(* A commit is of the next transaction or of the newest one again.         *)
LEMMA NoneAheadStep == IInv /\ NoneAhead /\ [Next]_vars => NoneAhead'
<1> SUFFICES ASSUME IInv, NoneAhead, [Next]_vars, NEW n \in 1..MaxLt, lastProcessedLt' < n
             PROVE  saves'[n] = 0
  BY DEF NoneAhead
<1>1. CASE UNCHANGED <<saves, lastProcessedLt>>
  BY <1>1 DEF NoneAhead
<1>2. CASE AdvanceCursor
  <2>1. lastProcessedLt \in Nat /\ lastProcessedLt <= current /\ lastProcessedLt' = current
    BY <1>2 DEF AdvanceCursor, current, IInv, TypeOK
  <2>2. lastProcessedLt < n /\ n # current /\ current \in Int
    BY <2>1, InvoicesAssumption DEF current, IInv, AtPayment
  <2>3. saves'[n] = saves[n]
    BY <1>2, <2>2 DEF AdvanceCursor, IInv, TypeOK
  <2> QED
    BY <2>2, <2>3 DEF NoneAhead
<1>3. ASSUME NEW tx \in Transaction, Arrives(tx)
      PROVE  UNCHANGED <<saves, lastProcessedLt>>
  BY <1>3 DEF Arrives, tables
<1> QED
  BY <1>1, <1>2, <1>3, ChainOrCommit DEF Skip, WritePayment

(* Both sides of the books change by the same amount.                      *)
LEMMA AccountingStep == IInv /\ Balanced /\ [Next]_vars => Accounting'
<1> SUFFICES ASSUME IInv, Balanced, [Next]_vars, NEW id \in Ids, Exists(id)'
             PROVE  AccountedFor(invoices'[id]) = Received(id, saves)'
  BY DEF Accounting
<1>1. TypeOK /\ TypeOK'
  BY TypeStep DEF IInv
<1>2. CASE WritePayment
  <2> DEFINE p == chain[current]
  <2>1. /\ current \in 1..Len(chain) /\ p \in Payments /\ AdvanceCursor /\ UNCHANGED chain
        /\ p.kind = "payment"
    BY <1>2, WriteFacts DEF WritePayment, Payments
  <2>2. Received(id, saves)' = Received(id, saves) + (IF p.id = id THEN p.amount ELSE 0)
    BY <1>1, <2>1, CommitReceived DEF PaysFor
  <2>3. CASE p.id = id
    <3>1. Exists(id)
      BY <1>2, <2>3, WriteFacts, Rows DEF IInv
    <3>2. AccountedFor(invoices[id]) = Received(id, saves)
      BY <3>1 DEF Balanced, Accounting
    <3> QED
      BY <1>2, <2>2, <2>3, <3>2, PaymentIsAdded
  <2>4. CASE p.id # id
    <3>1. invoices'[id] = invoices[id] /\ Exists(id)
      BY <1>2, <2>4, WriteFacts DEF Exists
    <3>2. AccountedFor(invoices[id]) = Received(id, saves) /\ invoices[id] \in Row
      BY <1>1, <3>1, Rows DEF Balanced, Accounting
    <3>3. AccountedFor(invoices[id]) \in Int
      BY <3>2, InvoicesAssumption DEF AccountedFor, Row, Amounts
    <3> QED
      BY <2>2, <2>4, <3>1, <3>2, <3>3
  <2> QED
    BY <2>3, <2>4
<1>3. CASE ~WritePayment
  <2>1. Received(id, saves)' = Received(id, saves)
    <3>1. ASSUME Skip
          PROVE  Received(id, saves)' = Received(id, saves)
      <4>1. /\ current \in 1..Len(chain) /\ AdvanceCursor /\ UNCHANGED chain
            /\ ~PaysFor(current, id)
        BY <3>1 DEF Skip, Due, current, IInv, TypeOK, AtPayment, PaysFor, NoPayment, Malformed
      <4>2. Received(id, saves) \in Nat
        BY <1>1, BroughtFacts, SumIsNat
      <4> QED
        BY <1>1, <4>1, <4>2, CommitReceived
    <3> QED
      BY <1>1, <1>3, <3>1, ChainOrCommit, SameReceived, ArrivalReceived DEF Balanced
  <2>2. CASE Exists(id)
    BY <1>3, <2>1, <2>2, OthersAddNothing DEF Balanced, Accounting, Paid
  <2>3. CASE ~Exists(id)
    <3>1. Created(id)
      BY <1>3, <2>3, RowStep DEF Kept, Closed, Waiting, Exists, Paid
    <3> QED
      BY <2>1, <2>3, <3>1, NothingBefore DEF Created, AccountedFor
  <2> QED
    BY <2>2, <2>3
<1> QED
  BY <1>2, <1>3

(* The books balance, whatever fails: every committed payment, and nothing *)
(* else, is in the amount and the overpayment of its invoice, although     *)
(* processPayment writes a sum it has computed from an unlocked read       *)
(* (invoices.go:321-351).                                                  *)
THEOREM BooksBalance == Spec => []Accounting
<1>1. Init => Balanced
  BY DEF Init, Balanced, NoneAhead, Accounting, Exists, Absent
<1>2. IInv /\ Balanced /\ [Next]_vars => Balanced'
  BY NoneAheadStep, AccountingStep DEF Balanced
<1>3. Balanced => Accounting
  BY DEF Balanced
<1> QED
  BY <1>1, <1>2, <1>3, Invariance, PTL DEF Spec

(* Money is neither lost nor made: through any number of rolled back       *)
(* transactions and kills at any statement an invoice accounts for each    *)
(* processed payment exactly once, as long as no error is returned after   *)
(* a commit (invoices.go:265-298, indexer.go:54-61).                       *)
THEOREM PaymentsCreditedOnce ==
  Spec => [](faultKinds \subseteq {"rollback", "crash"} => CreditedOnce)
<1> DEFINE NothingAfterCommit == faultKinds \subseteq {"rollback", "crash"}
<1>1. TypeOK /\ Accounting /\ CommittedOnce => (NothingAfterCommit => CreditedOnce)
  <2> SUFFICES ASSUME TypeOK, Accounting, CommittedOnce, NothingAfterCommit
               PROVE  CreditedOnce
    OBVIOUS
  <2> DEFINE once == [n \in 1..Len(chain) |-> IF n <= lastProcessedLt THEN 1 ELSE 0]
  <2>1. \A n \in 1..Len(chain) : saves[n] = once[n]
    BY InvoicesAssumption DEF CommittedOnce, TypeOK
  <2>2. \A id \in Ids : Brought(id, saves) = Brought(id, once)
    BY <2>1 DEF Brought
  <2> QED
    BY <2>2 DEF Accounting, CreditedOnce, Received
<1> QED
  BY <1>1, BooksBalance, ExactlyOnce, TypeCorrect, PTL
-----------------------------------------------------------------------------
(* The queries on payments.invoices implement Ledger.                      *)
Book == [id \in Ids |-> Entry(invoices[id])]

(* The book has an entry for each invoice, with the status of its row.     *)
LEMMA BookEntry ==
  ASSUME NEW id \in Ids
  PROVE  /\ Book[id] = Entry(invoices[id])
         /\ Book[id].status = invoices[id].status
BY DEF Book, Entry

(* The entry for a row.                                                    *)
LEMMA EntryOfRow ==
  ASSUME NEW row \in Row
  PROVE  Entry(row) = [status |-> row.status, price |-> row.amount, due |-> row.expireAt,
                       credit |-> AccountedFor(row)]
BY DEF Entry, Row, Statuses

(* An invoice that is closed keeps what it has received.                   *)
LEMMA EntryOfClosed ==
  ASSUME NEW row \in Row, row.status = "waiting", NEW status \in {"cancelled", "expired"},
         clock \in Times
  PROVE  Entry([row EXCEPT !.status = status, !.updatedAt = clock])
           = [Entry(row) EXCEPT !.status = status]
<1> DEFINE new == [row EXCEPT !.status = status, !.updatedAt = clock]
<1>1. /\ new \in Row /\ new.status = status /\ new.amount = row.amount
      /\ new.expireAt = row.expireAt /\ new.overpayment = row.overpayment
  BY DEF Row, Statuses
<1>2. AccountedFor(new) = AccountedFor(row)
  BY <1>1 DEF AccountedFor
<1> HIDE DEF new
<1>3. Entry(new) = [status |-> status, price |-> row.amount, due |-> row.expireAt,
                    credit |-> AccountedFor(row)]
  BY <1>1, <1>2, EntryOfRow
<1>4. Entry(row) = [status |-> row.status, price |-> row.amount, due |-> row.expireAt,
                    credit |-> AccountedFor(row)]
  BY EntryOfRow
<1>5. Entry(new) = [Entry(row) EXCEPT !.status = status]
  BY <1>3, <1>4
<1> QED
  BY <1>5 DEF new

(* When one row changes, one entry does.                                   *)
LEMMA OneEntry ==
  ASSUME NEW id \in Ids, \A j \in Ids \ {id} : invoices'[j] = invoices[j]
  PROVE  Book' = [Book EXCEPT ![id] = Entry(invoices'[id])]
BY DEF Book

(* A new row is an open entry.                                             *)
LEMMA CreateIsOpen ==
  ASSUME IInv, NEW id \in Ids, NEW amount \in Amounts, NEW lifeTime \in LifeTimes,
         CreateInvoice(id, amount, lifeTime)
  PROVE  L!Open(id, amount, clock + Duration(lifeTime))
<1> DEFINE due == clock + Duration(lifeTime)
           row == [status |-> "waiting", amount |-> amount, overpayment |-> 0,
                   expireAt |-> due, updatedAt |-> clock, txLt |-> 0]
<1>1. /\ ~Exists(id) /\ UNCHANGED clock
      /\ invoices'[id] = row
      /\ \A j \in Ids \ {id} : invoices'[j] = invoices[j]
  BY DEF CreateInvoice, IInv, TypeOK
<1>2. Entry(row) = [status |-> "waiting", price |-> amount, due |-> due, credit |-> 0]
  BY DEF Entry, AccountedFor
<1> HIDE DEF row, due
<1>3. Book[id].status = "absent"
  BY <1>1, BookEntry DEF Exists
<1> QED
  BY <1>1, <1>2, <1>3, OneEntry DEF L!Open, Book, due

(* A cancellation.                                                         *)
LEMMA CancelIsCancel ==
  ASSUME IInv, NEW id \in Ids, CancelInvoice(id)
  PROVE  L!Cancel(id)
<1>1. TypeOK /\ clock \in Times
  BY DEF IInv, TypeOK
<1>2. Waiting(id) /\ clock < invoices[id].expireAt /\ UNCHANGED clock
  BY DEF CancelInvoice
<1>3. invoices[id] \in Row
  BY <1>1, <1>2, Rows
<1>4. /\ invoices'[id] = [invoices[id] EXCEPT !.status = "cancelled", !.updatedAt = clock]
      /\ \A j \in Ids \ {id} : invoices'[j] = invoices[j]
  BY <1>1, <1>3 DEF CancelInvoice, TypeOK, Row
<1>5. Entry(invoices'[id]) = [Book[id] EXCEPT !.status = "cancelled"]
  BY <1>1, <1>2, <1>3, <1>4, EntryOfClosed, BookEntry DEF Waiting
<1>6. Book[id].status = "waiting" /\ clock < Book[id].due
  BY <1>2, <1>3, EntryOfRow, BookEntry DEF Waiting
<1>7. Book' = [Book EXCEPT ![id] = Entry(invoices'[id])]
  BY <1>4, OneEntry
<1> QED
  BY <1>2, <1>5, <1>6, <1>7 DEF L!Cancel, Book

(* The statement of MarkExpired expires all that is overdue.               *)
LEMMA MarkExpiredIsExpire ==
  ASSUME IInv, MarkExpired
  PROVE  L!Expire
<1>1. TypeOK /\ clock \in Times /\ UNCHANGED clock
  BY DEF IInv, TypeOK, MarkExpired
<1>2. ASSUME NEW id \in Ids
      PROVE  Entry(invoices'[id]) =
               IF Book[id].status = "waiting" /\ Book[id].due < clock
               THEN [Book[id] EXCEPT !.status = "expired"]
               ELSE Book[id]
  <2>1. invoices'[id] = IF Overdue(id)
                        THEN [invoices[id] EXCEPT !.status = "expired", !.updatedAt = clock]
                        ELSE invoices[id]
    BY DEF MarkExpired
  <2>2. CASE Waiting(id)
    <3>1. invoices[id] \in Row
      BY <1>1, <2>2, Rows
    <3>2. Book[id].status = "waiting" /\ Book[id].due = invoices[id].expireAt
      BY <2>2, <3>1, EntryOfRow, BookEntry DEF Waiting
    <3>3. Overdue(id) => Entry(invoices'[id]) = [Book[id] EXCEPT !.status = "expired"]
      BY <1>1, <2>1, <2>2, <3>1, EntryOfClosed, BookEntry DEF Waiting
    <3> QED
      BY <2>1, <2>2, <3>2, <3>3, BookEntry DEF Overdue
  <2>3. CASE ~Waiting(id)
    BY <2>1, <2>3, BookEntry DEF Overdue, Waiting
  <2> QED
    BY <2>2, <2>3
<1>3. Book' = [id \in Ids |-> IF Book[id].status = "waiting" /\ Book[id].due < clock
                              THEN [Book[id] EXCEPT !.status = "expired"]
                              ELSE Book[id]]
  BY <1>2 DEF Book
<1> QED
  BY <1>1, <1>3 DEF L!Expire, Book

(* The entry after a payment: its credit, and what of it is paid.          *)
LEMMA EntryAfterPayment ==
  ASSUME IInv, WritePayment
  PROVE  LET p == chain[current]
             total == worker.read.overpayment + p.amount
         IN  Entry(invoices'[p.id]) =
               IF Settles(worker.read, total, worker.now)
               THEN [Book[p.id] EXCEPT !.credit = @ + p.amount, !.status = "paid"]
               ELSE [Book[p.id] EXCEPT !.credit = @ + p.amount]
<1> DEFINE p == chain[current]
           total == worker.read.overpayment + p.amount
           row == invoices[p.id]
           new == invoices'[p.id]
<1>1. PICK id \in Ids : id = p.id
  BY WriteFacts DEF Payments
<1>2. /\ row \in Row /\ new \in Row
      /\ AccountedFor(new) = AccountedFor(row) + p.amount
      /\ new = Credited(row, worker.read, total, worker.now)
  BY PaymentIsAdded, WriteFacts
<1>3. /\ new.amount = row.amount /\ new.expireAt = row.expireAt
      /\ new.status = IF Settles(worker.read, total, worker.now) THEN "paid" ELSE row.status
  BY <1>2 DEF Credited, Row
<1>4. Entry(new) = [status |-> new.status, price |-> new.amount, due |-> new.expireAt,
                    credit |-> AccountedFor(new)]
  BY <1>2, EntryOfRow
<1>5. Book[id] = [status |-> row.status, price |-> row.amount, due |-> row.expireAt,
                  credit |-> AccountedFor(row)]
  BY <1>1, <1>2, EntryOfRow, BookEntry
<1> DEFINE settles == Settles(worker.read, total, worker.now)
<1>6. PICK sum : sum = AccountedFor(row) + p.amount
  OBVIOUS
<1>7. PICK e : e = Book[id] /\ e.credit = AccountedFor(row)
  BY <1>5
<1>8. PICK f : f = [e EXCEPT !.credit = sum]
  OBVIOUS
<1>9. f = [status |-> row.status, price |-> row.amount, due |-> row.expireAt, credit |-> sum]
  BY <1>5, <1>7, <1>8
<1>10. CASE settles
  <2>1. Entry(new) = [status |-> "paid", price |-> row.amount, due |-> row.expireAt,
                      credit |-> sum]
    BY <1>2, <1>3, <1>4, <1>6, <1>10
  <2>2. Entry(new) = [f EXCEPT !.status = "paid"]
    BY <1>9, <2>1
  <2>3. [e EXCEPT !.credit = sum, !.status = "paid"] = [f EXCEPT !.status = "paid"]
    BY <1>8
  <2> HIDE DEF settles, new, row, p
  <2> QED
    BY <1>1, <1>6, <1>7, <1>10, <2>2, <2>3 DEF new, settles, row, p
<1>11. CASE ~settles
  <2>1. Entry(new) = f
    BY <1>2, <1>3, <1>4, <1>6, <1>9, <1>11
  <2> HIDE DEF settles, new, row, p
  <2> QED
    BY <1>1, <1>6, <1>7, <1>8, <1>11, <2>1 DEF new, settles, row, p
<1> QED
  BY <1>10, <1>11

(* What is decided on the older read is right for the entry as it is.      *)
LEMMA DecisionIsRight ==
  ASSUME IInv, WritePayment
  PROVE  LET p == chain[current]
             settles == Settles(worker.read, worker.read.overpayment + p.amount, worker.now)
         IN  /\ settles => /\ Book[p.id].status \in {"waiting", "cancelled", "expired"}
                           /\ Book[p.id].price <= Book[p.id].credit + p.amount
             /\ Book[p.id].status = "waiting" /\ clock <= Book[p.id].due
                  /\ Book[p.id].price <= Book[p.id].credit + p.amount => settles
<1> DEFINE p == chain[current]
           row == invoices[p.id]
           read == worker.read
<1>1. PICK id \in Ids : id = p.id
  BY WriteFacts DEF Payments
<1>2. row \in Row /\ worker \in Paying /\ p \in Payments /\ clock \in Times
  BY WriteFacts DEF IInv, TypeOK
<1>3. /\ p.amount \in Nat /\ worker.now \in Nat /\ clock \in Nat
      /\ row.expireAt \in Nat /\ row.amount \in Nat /\ row.overpayment \in Nat
  <2> HIDE DEF row, p
  <2> QED
    BY <1>2, InvoicesAssumption DEF Row, Paying, Payments, Amounts, Times
<1>4. /\ worker.now <= clock
      /\ read.amount = row.amount
      /\ read.expireAt = row.expireAt
      /\ read.overpayment = row.overpayment
      /\ row.status = "paid" => read.status = "paid"
      /\ row.status = "waiting" => read.status = "waiting"
  BY DEF IInv, ReadIsUsable, WritePayment
<1>5. Book[id] = [status |-> row.status, price |-> row.amount, due |-> row.expireAt,
                  credit |-> AccountedFor(row)]
  <2>1. Book[id] = Entry(row)
    BY <1>1, BookEntry
  <2>2. row \in Row
    BY <1>2
  <2>3. Entry(row) = [status |-> row.status, price |-> row.amount, due |-> row.expireAt,
                      credit |-> AccountedFor(row)]
    BY <2>2, EntryOfRow
  <2> QED
    BY <2>1, <2>3
<1>6. row.status # "paid" => AccountedFor(row) = row.overpayment
  BY <1>3 DEF AccountedFor
<1>7. row.status \in Statuses
  BY <1>2 DEF Row
<1> DEFINE settles == Settles(read, read.overpayment + p.amount, worker.now)
<1>8. settles => /\ Book[id].status \in {"waiting", "cancelled", "expired"}
                 /\ Book[id].price <= Book[id].credit + p.amount
  BY <1>3, <1>4, <1>5, <1>6, <1>7 DEF Settles, Statuses
<1>9. Book[id].status = "waiting" /\ clock <= Book[id].due
        /\ Book[id].price <= Book[id].credit + p.amount => settles
  BY <1>3, <1>4, <1>5, <1>6, <1>7 DEF Settles, Statuses
<1> QED
  BY <1>1, <1>8, <1>9

(* The end of processPayment is a receipt or a settlement.                 *)
LEMMA WriteIsReceipt ==
  ASSUME IInv, WritePayment
  PROVE  \E id \in Ids, amount \in 1..MaxAmount : L!Receive(id, amount) \/ L!Settle(id, amount)
<1> DEFINE p == chain[current]
           settles == Settles(worker.read, worker.read.overpayment + p.amount, worker.now)
<1>1. PICK id \in Ids, amount \in 1..MaxAmount : id = p.id /\ amount = p.amount
  BY WriteFacts DEF Payments, Amounts
<1>2. /\ UNCHANGED clock /\ \A j \in Ids \ {id} : invoices'[j] = invoices[j]
      /\ invoices[id] \in Row
  BY <1>1, WriteFacts DEF WritePayment
<1>3. Book' = [Book EXCEPT ![id] = Entry(invoices'[id])]
  BY <1>2, OneEntry
<1>4. Book[id].status # "absent"
  BY <1>2, BookEntry DEF Row, Statuses
<1>5. CASE settles
  <2>1. /\ Entry(invoices'[id]) = [Book[id] EXCEPT !.credit = @ + amount, !.status = "paid"]
        /\ Book[id].status \in {"waiting", "cancelled", "expired"}
        /\ Book[id].price <= Book[id].credit + amount
    BY <1>1, <1>5, EntryAfterPayment, DecisionIsRight
  <2>2. L!Settle(id, amount)
    BY <1>2, <1>3, <2>1 DEF L!Settle, L!Covers, Book
  <2> QED
    BY <2>2
<1>6. CASE ~settles
  <2>1. /\ Entry(invoices'[id]) = [Book[id] EXCEPT !.credit = @ + amount]
        /\ ~(Book[id].status = "waiting" /\ clock <= Book[id].due
               /\ Book[id].price <= Book[id].credit + amount)
    BY <1>1, <1>6, EntryAfterPayment, DecisionIsRight
  <2>2. L!Receive(id, amount)
    BY <1>2, <1>3, <1>4, <2>1 DEF L!Receive, L!OnTime, L!Covers, Book
  <2> QED
    BY <2>2
<1> QED
  BY <1>5, <1>6

(* Every other step leaves the clock and the rows alone, or is a tick.     *)
LEMMA LedgerStep == IInv /\ [Next]_vars => [L!Next]_(L!vars)
<1> SUFFICES ASSUME IInv, [Next]_vars
             PROVE  [L!Next]_(L!vars)
  OBVIOUS
<1>1. CASE Tick
  <2>1. L!Tick
    BY <1>1 DEF Tick, L!Tick, tables
  <2> QED
    BY <2>1 DEF L!Next
<1>2. ASSUME NEW id \in Ids, NEW amount \in Amounts, NEW lifeTime \in LifeTimes,
             CreateInvoice(id, amount, lifeTime)
      PROVE  L!Next
  <2>1. clock + Duration(lifeTime) \in 0..MaxTime /\ amount \in 1..MaxAmount
    BY <1>2, InvoicesAssumption DEF CreateInvoice, Amounts
  <2> QED
    BY <1>2, <2>1, CreateIsOpen DEF L!Next
<1>3. CASE \E id \in Ids : CancelInvoice(id)
  BY <1>3, CancelIsCancel DEF L!Next
<1>4. CASE MarkExpired
  BY <1>4, MarkExpiredIsExpire DEF L!Next
<1>5. CASE WritePayment
  BY <1>5, WriteIsReceipt DEF L!Next
<1>6. CASE UNCHANGED <<clock, invoices>>
  BY <1>6 DEF L!vars
<1> QED
  BY <1>1, <1>2, <1>3, <1>4, <1>5, <1>6
  DEF Next, SomePayment, Pays, Arrives, CommitKey, HourPasses, MarkExpiredFails,
      InsertNotification, InsertNotificationFails, Skip, ReadInvoice, CommitPayment,
      CommitPaymentUnknown, RollbackPayment, NotifyPaid, Crash, vars, tables

(* Every operation on an invoice is one step to who reads the table:       *)
(* nothing that is decided on an older read is wrong when it is written    *)
(* (invoices.go:202-232, 321-366).                                         *)
THEOREM ImplementsLedger == Spec => LedgerSpec
<1>1. Init => L!Init
  BY DEF Init, L!Init, L!NoEntry, Entry, Absent
<1>2. IInv /\ [Next]_vars => [L!Next]_(L!vars)
  BY LedgerStep
<1> QED
  BY <1>1, <1>2, Invariance, PTL DEF Spec, LedgerSpec, L!Spec
=============================================================================
