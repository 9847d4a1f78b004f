---------------------------- MODULE Notifier ----------------------------
(***************************************************************************)
(* The notifier (pkg/notifier/notifier.go) with its queries on             *)
(* payments.invoice_notifications and the webhook client behind it         *)
(* (pkg/webhook/webhook.go): one loop that selects the oldest rows, reads  *)
(* their invoices, sends each to the merchant and deletes the rows of the  *)
(* invoice it has sent; beside it, a loop that deletes old rows.           *)
(*                                                                         *)
(* An invoice is the number of changes of status it has seen. The API and  *)
(* the workers make a change and insert a row for it in two statements;    *)
(* that the second may be lost is the subject of Invoices, here it always  *)
(* comes. A restart of the process in between two changes is to this loop  *)
(* what a failed Send is: the batch is forgotten.                          *)
(***************************************************************************)
EXTENDS Naturals, Sequences, FiniteSets

CONSTANTS
  Ids,          \* invoices
  Unprintable,  \* those whose currency is no longer configured
  Limit,        \* rows in a batch (10)
  MaxChanges,   \* bound on the changes of one invoice
  MaxTime,      \* bound on updated_at
  MaxFaults     \* bound on failures and on deletions of old rows

ASSUME NotifierAssumption ==
  /\ Unprintable \subseteq Ids
  /\ Limit \in Nat \ {0}
  /\ MaxChanges \in Nat
  /\ MaxTime \in Nat
  /\ MaxFaults \in Nat

VARIABLES
  version,        \* payments.invoices: the changes of each invoice
  inserts,        \* changes whose row is about to be inserted
  notifications,  \* payments.invoice_notifications
  unread,         \* rows selected whose invoice has not been read yet
  batch,          \* what is to be sent, each with the version that was read
  sent,           \* the head of batch is sent and its rows not yet deleted
  known,          \* the merchant: version last received of each invoice
  dropped,        \* ghost: invoices that lost a row by its age
  overtaken,      \* ghost: invoices that changed while what was read of them was to be sent
  faults          \* faults so far

loop == <<unread, batch, sent>>
ghosts == <<dropped, overtaken>>
vars == <<version, inserts, notifications, loop, known, ghosts, faults>>

-----------------------------------------------------------------------------
Versions == 0..MaxChanges
Changes == [id : Ids, change : 1..MaxChanges]
Rows == [id : Ids, change : 1..MaxChanges, at : 0..MaxTime]
Reads == [id : Ids, read : 1..MaxChanges]

TypeOK ==
  /\ version \in [Ids -> Versions]
  /\ inserts \subseteq Changes
  /\ notifications \subseteq Rows
  /\ unread \in Seq(Rows)
  /\ batch \in Seq(Reads)
  /\ sent \in BOOLEAN
  /\ sent => unread = <<>> /\ batch # <<>>
  /\ known \in [Ids -> Versions]
  /\ dropped \subseteq Ids
  /\ overtaken \subseteq Ids
  /\ faults \in 0..MaxFaults

Init ==
  /\ version = [id \in Ids |-> 0]
  /\ inserts = {}
  /\ notifications = {}
  /\ unread = <<>>
  /\ batch = <<>>
  /\ sent = FALSE
  /\ known = [id \in Ids |-> 0]
  /\ dropped = {}
  /\ overtaken = {}
  /\ faults = 0

Fault == faults < MaxFaults /\ faults' = faults + 1

-----------------------------------------------------------------------------
(* The other processes: a change of an invoice, then its row. Its          *)
(* updated_at was read from the clock before the change, or, when the      *)
(* invoice is read again for the row, is that of a later change: it need   *)
(* not follow the order of changes and two rows may have the same.         *)
Change(id) ==
  /\ version[id] < MaxChanges
  /\ version' = [version EXCEPT ![id] = @ + 1]
  /\ inserts' = inserts \cup {[id |-> id, change |-> version[id] + 1]}
  /\ overtaken' = IF \E i \in 1..Len(batch) : batch[i].id = id
                  THEN overtaken \cup {id} ELSE overtaken
  /\ UNCHANGED <<notifications, loop, known, dropped, faults>>

Insert(c, at) ==
  /\ c \in inserts
  /\ inserts' = inserts \ {c}
  /\ notifications' =
       notifications \cup {[id |-> c.id, change |-> c.change, at |-> at]}
  /\ UNCHANGED <<version, loop, known, ghosts, faults>>

-----------------------------------------------------------------------------
(* Mutant: one row fewer is selected.                                      *)
BatchSizeTooSmall ==
  IF Cardinality(notifications) < Limit THEN Cardinality(notifications) ELSE Limit - 1

BatchSize ==
  IF Cardinality(notifications) < Limit THEN Cardinality(notifications) ELSE Limit

(* rows is a possible answer to the SELECT of GetInvoiceNotifications:     *)
(* ordered by updated_at, none left out that is older.                     *)
Answers(rows) ==
  /\ \A i, j \in 1..BatchSize :
       i < j => rows[i] # rows[j] /\ rows[i].at <= rows[j].at
  /\ \A other \in notifications, i \in 1..BatchSize :
       other.at < rows[i].at => \E j \in 1..BatchSize : rows[j] = other

SelectRows ==
  /\ unread = <<>> /\ batch = <<>>
  /\ notifications # {}
  /\ \E rows \in [1..BatchSize -> notifications] :
       Answers(rows) /\ unread' = rows
  /\ UNCHANGED <<version, inserts, notifications, batch, sent, known, ghosts, faults>>

(* Mutant: the state saved in the row is sent.                             *)
ReadRow ==
  /\ unread # <<>>
  /\ batch' = Append(batch, [id |-> Head(unread).id, read |-> Head(unread).change])
  /\ unread' = Tail(unread)
  /\ UNCHANGED <<version, inserts, notifications, sent, known, ghosts, faults>>

(* getInvoicesByIDs: the invoices are read one after the other, each as it *)
(* is by then.                                                             *)
ReadInvoice ==
  /\ unread # <<>>
  /\ batch' = Append(batch, [id |-> Head(unread).id, read |-> version[Head(unread).id]])
  /\ unread' = Tail(unread)
  /\ UNCHANGED <<version, inserts, notifications, sent, known, ghosts, faults>>

(* notify is at the head of the batch.                                     *)
Sending == unread = <<>> /\ batch # <<>> /\ ~sent

(* An invoice that cannot be converted is passed over and its row stays.   *)
PassOver ==
  /\ Sending
  /\ Head(batch).id \in Unprintable
  /\ batch' = Tail(batch)
  /\ UNCHANGED <<version, inserts, notifications, unread, sent, known, ghosts, faults>>

(* The merchant gets what was read of the head of the batch. When that is  *)
(* the invoice as it is, the merchant has missed nothing.                  *)
Receive ==
  LET id == Head(batch).id
      current == {i \in {id} : version[i] = Head(batch).read}
  IN  /\ known' = [known EXCEPT ![id] = Head(batch).read]
      /\ dropped' = dropped \ current
      /\ overtaken' = overtaken \ current

(* Send: the merchant gets what was read and answers with success.         *)
Send ==
  /\ Sending
  /\ Head(batch).id \notin Unprintable
  /\ Receive
  /\ sent' = TRUE
  /\ UNCHANGED <<version, inserts, notifications, unread, batch, faults>>

(* Mutant: notify remembers what it has sent.                              *)
AbandonBatchOnly == batch' = <<>> /\ unread' = <<>> /\ UNCHANGED sent

(* GetInvoiceNotifications or notify returns an error: the loop starts     *)
(* again with a new selection.                                             *)
Abandon == batch' = <<>> /\ unread' = <<>> /\ sent' = FALSE

(* Mutant: the rows of an invoice that cannot be sent are deleted.         *)
SendFailsAndDeletes ==
  /\ Sending
  /\ Head(batch).id \notin Unprintable
  /\ Fault
  /\ notifications' = {row \in notifications : row.id # Head(batch).id}
  /\ Abandon
  /\ UNCHANGED <<version, inserts, known, ghosts>>

(* Three attempts fail and notify returns the error. The merchant may have *)
(* got the first that reached it: that one drains the body of the request  *)
(* they share, so the merchant gets it once.                               *)
SendFails ==
  /\ Sending
  /\ Head(batch).id \notin Unprintable
  /\ Fault
  /\ Receive \/ UNCHANGED <<known, ghosts>>
  /\ Abandon
  /\ UNCHANGED <<version, inserts, notifications>>

(* DeleteInvoiceNotification: every row of the invoice.                    *)
Delete ==
  /\ sent
  /\ notifications' = {row \in notifications : row.id # Head(batch).id}
  /\ batch' = Tail(batch)
  /\ sent' = FALSE
  /\ UNCHANGED <<version, inserts, unread, known, ghosts, faults>>

DeleteFails ==
  /\ sent
  /\ Fault
  /\ Abandon
  /\ UNCHANGED <<version, inserts, notifications, known, ghosts>>

(* One of the SELECTs of getInvoicesByIDs fails.                           *)
ReadFails ==
  /\ unread # <<>>
  /\ Fault
  /\ Abandon
  /\ UNCHANGED <<version, inserts, notifications, known, ghosts>>

-----------------------------------------------------------------------------
(* DeleteOldNotifications: the rows that are older than five days.         *)
DeleteOld(at) ==
  /\ Fault
  /\ LET old == {row \in notifications : row.at < at}
     IN  /\ old # {}
         /\ notifications' = notifications \ old
         /\ dropped' = dropped \cup {row.id : row \in old}
  /\ UNCHANGED <<version, inserts, loop, known, overtaken>>

Next ==
  \/ \E id \in Ids : Change(id)
  \/ \E c \in inserts, at \in 0..MaxTime : Insert(c, at)
  \/ SelectRows
  \/ ReadInvoice
  \/ PassOver
  \/ Send
  \/ SendFails
  \/ Delete
  \/ DeleteFails
  \/ ReadFails
  \/ \E at \in 1..MaxTime : DeleteOld(at)

Spec == Init /\ [][Next]_vars

(***************************************************************************)
(* A change inserts its row, the loop goes on for ever, and the merchant's *)
(* server, when it is asked often enough, answers.                         *)
(***************************************************************************)
Fairness ==
  /\ WF_vars(\E c \in inserts, at \in 0..MaxTime : Insert(c, at))
  /\ WF_vars(SelectRows)
  /\ WF_vars(ReadInvoice)
  /\ WF_vars(PassOver \/ Send \/ Delete)

FairSpec == Spec /\ Fairness

-----------------------------------------------------------------------------
Printable == Ids \ Unprintable

(* What the merchant is told of an invoice never goes back, although an    *)
(* invoice may be in a batch several times, read at different moments, and *)
(* be sent again after an error (notifier.go:68-85, invoices.go:150-159).  *)
NeverGoesBack == [][\A id \in Ids : known[id] <= known'[id]]_vars

(* No invoice is forgotten: as long as the merchant has not heard of it at *)
(* all, it has a row or is about to get one, unless the row was too old    *)
(* (notifier.go:75-82: deletion only after a successful Send).             *)
NotForgotten ==
  \A id \in Printable :
    version[id] > 0 =>
      \/ known[id] > 0
      \/ id \in dropped
      \/ \E row \in notifications \cup inserts : row.id = id

(* The only ways for the merchant to be left behind: the invoice changed   *)
(* after it was read and before what was read was sent and its rows        *)
(* deleted (notifier.go:75-82), or a row was too old. Whatever fails and   *)
(* however often an invoice is in a batch, one whose last change the       *)
(* merchant does not know has a row otherwise. A merchant who has caught   *)
(* up is owed the next change again.                                       *)
OnlyOvertakenUninformed ==
  \A id \in Printable :
    \/ known[id] = version[id]
    \/ id \in dropped \cup overtaken
    \/ \E row \in notifications \cup inserts : row.id = id

(* Every row of an invoice that can be converted is dealt with in the end, *)
(* whatever fails in between and although rows that cannot be converted    *)
(* stay in front of it, as long as there are fewer of those than Limit     *)
(* (notifier.go:70-73, invoices.go:161-166).                               *)
RowsAreDealtWith ==
  \A row \in Rows :
    row.id \in Printable /\ row \in notifications ~> row \notin notifications

(* "Any transition of an invoice from one state to another will trigger a  *)
(* notification with the [...] json of the invoice in its new state"       *)
(* (README.md:158): when there is nothing left to send, the merchant knows *)
(* the state each invoice is in.                                           *)
MerchantInformed ==
  inserts = {} /\ notifications = {} /\ batch = <<>> =>
    \A id \in Printable : known[id] = version[id] \/ id \in dropped
=============================================================================
