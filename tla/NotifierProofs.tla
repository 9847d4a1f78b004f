------------------------- MODULE NotifierProofs -------------------------
(***************************************************************************)
(* What is proved of the notifier, for any invoices, batch size and number *)
(* of failures: the types, that no invoice is forgotten, that only a       *)
(* change during delivery or the age of a row leaves the merchant behind,  *)
(* and that the merchant's view never goes back.                           *)
(***************************************************************************)
EXTENDS Notifier, FiniteSetTheorems, SequenceTheorems, TLAPS

(* Whatever refers to a change refers to one that was made.                *)
Made ==
  /\ \A c \in inserts : c.change <= version[c.id]
  /\ \A row \in notifications : row.change <= version[row.id]
  /\ \A i \in 1..Len(unread) : unread[i].change <= version[unread[i].id]

(* What is about to be sent is at least as new as what the merchant has,   *)
(* and is sent in the order in which it was read.                          *)
InOrder ==
  /\ \A id \in Ids : known[id] <= version[id]
  /\ \A i \in 1..Len(batch) :
       /\ batch[i].read <= version[batch[i].id]
       /\ known[batch[i].id] <= batch[i].read
  /\ \A i, j \in 1..Len(batch) :
       i < j /\ batch[i].id = batch[j].id => batch[i].read <= batch[j].read

(* What was read is the invoice as it is, or the invoice is marked.        *)
ReadIsCurrent ==
  \A i \in 1..Len(batch) :
    batch[i].read = version[batch[i].id] \/ batch[i].id \in overtaken

(* Rows are deleted for an invoice of which the merchant has what was read. *)
SentIsKnown == sent => known[Head(batch).id] = Head(batch).read

IInv ==
  /\ TypeOK
  /\ IsFiniteSet(notifications)
  /\ Made
  /\ InOrder
  /\ ReadIsCurrent
  /\ SentIsKnown
  /\ NotForgotten
  /\ OnlyOvertakenUninformed

-----------------------------------------------------------------------------
(* The answer to the SELECT of GetInvoiceNotifications is a sequence of    *)
(* rows of the table.                                                      *)
LEMMA AnswerIsSequence ==
  ASSUME NotifierAssumption, TypeOK, IsFiniteSet(notifications),
         NEW rows \in [1..BatchSize -> notifications]
  PROVE  /\ rows \in Seq(Rows)
         /\ Len(rows) = BatchSize
         /\ \A i \in 1..Len(rows) : rows[i] \in notifications
<1>1. Cardinality(notifications) \in Nat
  BY FS_CardinalityType
<1>2. BatchSize \in Nat
  BY <1>1 DEF BatchSize, NotifierAssumption
<1>3. rows \in [1..BatchSize -> Rows]
  BY DEF TypeOK
<1>4. rows \in Seq(Rows) /\ Len(rows) = BatchSize
  BY <1>2, <1>3
<1> QED
  BY <1>4

(* The invariant holds when the tables are empty.                          *)
LEMMA InitHolds == NotifierAssumption /\ Init => IInv
<1> SUFFICES ASSUME NotifierAssumption, Init PROVE IInv
  OBVIOUS
<1>1. TypeOK
  <2>1. unread \in Seq(Rows) /\ batch \in Seq(Reads)
    BY EmptySeq DEF Init
  <2>2. version \in [Ids -> Versions] /\ known \in [Ids -> Versions] /\ faults \in 0..MaxFaults
    BY DEF Init, NotifierAssumption, Versions
  <2>3. sent = FALSE /\ inserts = {} /\ notifications = {} /\ dropped = {} /\ overtaken = {}
    BY DEF Init
  <2> QED
    BY <2>1, <2>2, <2>3 DEF TypeOK
<1>2. IsFiniteSet(notifications)
  BY FS_EmptySet DEF Init
<1>3. Made /\ InOrder /\ ReadIsCurrent /\ SentIsKnown
  BY DEF Init, Made, InOrder, ReadIsCurrent, SentIsKnown
<1>4. NotForgotten /\ OnlyOvertakenUninformed
  BY DEF Init, NotForgotten, OnlyOvertakenUninformed, Printable
<1> QED
  BY <1>1, <1>2, <1>3, <1>4 DEF IInv

-----------------------------------------------------------------------------
(* A change of an invoice, which owes it a row.                            *)
LEMMA ChangeKeeps ==
  ASSUME NotifierAssumption, IInv, NEW id \in Ids, Change(id)
  PROVE  IInv'
<1> USE DEF IInv, Change, loop
<1> DEFINE c == [id |-> id, change |-> version[id] + 1]
<1>1. version[id] \in Nat /\ version[id] + 1 \in 1..MaxChanges
  BY DEF TypeOK, Versions, NotifierAssumption
<1>2. version' \in [Ids -> Versions]
  BY <1>1 DEF TypeOK, Versions
<1>3. \A other \in Ids : version[other] \in Nat /\ version'[other] \in Nat
                         /\ version[other] <= version'[other]
  BY <1>1, <1>2 DEF TypeOK, Versions
<1>4. c \in Changes
  BY <1>1 DEF Changes
<1>5. TypeOK'
  BY <1>2, <1>4 DEF TypeOK
<1>6. Made'
  <2>1. \A d \in inserts' : d.change <= version'[d.id]
    <3>1. c.change <= version'[c.id]
      BY <1>1 DEF TypeOK
    <3>2. \A d \in inserts : d.id \in Ids /\ d.change \in Nat
      BY DEF TypeOK, Changes
    <3> QED
      BY <1>3, <3>1, <3>2 DEF Made
  <2>2. \A row \in notifications : row.id \in Ids /\ row.change \in Nat
    BY DEF TypeOK, Rows
  <2>3. \A i \in 1..Len(unread) : unread[i].id \in Ids /\ unread[i].change \in Nat
    <3>1. \A i \in 1..Len(unread) : unread[i] \in Rows
      BY DEF TypeOK
    <3> QED
      BY <3>1 DEF Rows
  <2> QED
    BY <1>3, <2>1, <2>2, <2>3 DEF Made
<1>7. InOrder'
  <2>1. \A i \in 1..Len(batch) : batch[i].id \in Ids /\ batch[i].read \in Nat
    <3>1. \A i \in 1..Len(batch) : batch[i] \in Reads
      BY DEF TypeOK
    <3> QED
      BY <3>1 DEF Reads
  <2>2. \A other \in Ids : known[other] \in Nat
    BY DEF TypeOK, Versions
  <2>3. \A other \in Ids : known[other] <= version'[other]
    BY <1>3, <2>2 DEF InOrder
  <2>4. \A i \in 1..Len(batch) : batch[i].read <= version'[batch[i].id]
    BY <1>3, <2>1 DEF InOrder
  <2> QED
    BY <2>3, <2>4 DEF InOrder
<1>8. SentIsKnown'
  BY DEF SentIsKnown
<1>9. /\ c \in inserts' /\ c.id = id
      /\ \A other \in Ids \ {id} : version'[other] = version[other]
  BY DEF TypeOK
<1>10. ReadIsCurrent'
  <2> SUFFICES ASSUME NEW i \in 1..Len(batch)
               PROVE  batch[i].read = version'[batch[i].id] \/ batch[i].id \in overtaken'
    BY DEF ReadIsCurrent
  <2>1. batch[i] \in Reads
    BY DEF TypeOK
  <2>2. CASE batch[i].id = id
    BY <2>2
  <2>3. CASE batch[i].id # id
    BY <1>9, <2>1, <2>3 DEF ReadIsCurrent, Reads
  <2> QED
    BY <2>2, <2>3
<1>11. NotForgotten' /\ OnlyOvertakenUninformed'
  BY <1>9 DEF NotForgotten, OnlyOvertakenUninformed, Printable
<1> QED
  BY <1>5, <1>6, <1>7, <1>8, <1>10, <1>11

(* The row of a change.                                                    *)
LEMMA InsertKeeps ==
  ASSUME NotifierAssumption, IInv, NEW c \in inserts, NEW at \in 0..MaxTime, Insert(c, at)
  PROVE  IInv'
<1> USE DEF IInv, Insert, loop, ghosts
<1> DEFINE row == [id |-> c.id, change |-> c.change, at |-> at]
<1>1. row \in Rows /\ row.id = c.id /\ row.change = c.change
  BY DEF TypeOK, Changes, Rows
<1>2. TypeOK'
  BY <1>1 DEF TypeOK
<1>3. IsFiniteSet(notifications')
  BY FS_AddElement
<1>4. Made'
  BY <1>1 DEF Made
<1>5. InOrder' /\ ReadIsCurrent' /\ SentIsKnown'
  BY DEF InOrder, ReadIsCurrent, SentIsKnown
<1>6. NotForgotten' /\ OnlyOvertakenUninformed'
  <2>1. \A id \in Ids : (\E r \in notifications \cup inserts : r.id = id)
                          => \E r \in notifications' \cup inserts' : r.id = id
    BY <1>1
  <2> QED
    BY <2>1 DEF NotForgotten, OnlyOvertakenUninformed, Printable
<1> QED
  BY <1>2, <1>3, <1>4, <1>5, <1>6

(* The selection.                                                          *)
LEMMA SelectRowsKeeps ==
  ASSUME NotifierAssumption, IInv, SelectRows
  PROVE  IInv'
<1> USE DEF IInv
<1>1. PICK rows \in [1..BatchSize -> notifications] : unread' = rows
  BY DEF SelectRows
<1>2. /\ unread' \in Seq(Rows)
      /\ \A i \in 1..Len(unread') : unread'[i] \in notifications
  BY <1>1, AnswerIsSequence
<1>3. UNCHANGED <<version, inserts, notifications, batch, sent, known, ghosts, faults>>
      /\ batch = <<>>
  BY DEF SelectRows
<1>4. TypeOK'
  BY <1>2, <1>3 DEF TypeOK, ghosts
<1>5. Made'
  BY <1>2, <1>3 DEF Made
<1> QED
  BY <1>3, <1>4, <1>5 DEF InOrder, ReadIsCurrent, SentIsKnown, NotForgotten,
                          OnlyOvertakenUninformed, ghosts

-----------------------------------------------------------------------------
(* An invoice is read, and what was read before is no newer.               *)
LEMMA ReadInvoiceKeeps ==
  ASSUME NotifierAssumption, IInv, ReadInvoice
  PROVE  IInv'
<1> USE DEF IInv
<1> DEFINE r == [id |-> Head(unread).id, read |-> version[Head(unread).id]]
<1>1. /\ unread # <<>>
      /\ batch' = Append(batch, r)
      /\ unread' = Tail(unread)
      /\ UNCHANGED <<version, inserts, notifications, sent, known, ghosts, faults>>
  BY DEF ReadInvoice
<1>2. Head(unread) \in Rows /\ Head(unread).change <= version[Head(unread).id]
  BY <1>1 DEF TypeOK, Made
<1>3. r \in Reads
  <2>1. /\ Head(unread).id \in Ids
        /\ Head(unread).change \in Nat /\ Head(unread).change >= 1
    BY <1>2, NotifierAssumption DEF Rows
  <2>2. version[Head(unread).id] \in Nat /\ version[Head(unread).id] <= MaxChanges
    BY <2>1, NotifierAssumption DEF TypeOK, Versions
  <2>3. version[Head(unread).id] \in 1..MaxChanges
    BY <1>2, <2>1, <2>2, NotifierAssumption DEF NotifierAssumption
  <2> QED
    BY <2>1, <2>3 DEF Reads
<1>4. ~sent /\ batch' \in Seq(Reads) /\ unread' \in Seq(Rows)
  BY <1>1, <1>3 DEF TypeOK
<1>5. TypeOK'
  BY <1>1, <1>4 DEF TypeOK, ghosts
<1>6. Made'
  BY <1>1 DEF Made, TypeOK
<1>7. InOrder' /\ ReadIsCurrent'
  <2>1. Len(batch') = Len(batch) + 1 /\ Len(batch) \in Nat
    BY <1>1 DEF TypeOK
  <2>2. \A i \in 1..Len(batch) : batch'[i] = batch[i] /\ batch[i] \in Reads
    BY <1>1 DEF TypeOK
  <2>3. batch'[Len(batch')] = r
    BY <1>1, <2>1 DEF TypeOK
  <2>4. \A i \in 1..Len(batch') : i \in 1..Len(batch) \/ i = Len(batch')
    BY <2>1
  <2>5. \A id \in Ids : known[id] \in Nat /\ version[id] \in Nat
    BY DEF TypeOK, Versions
  <2>6. \A i \in 1..Len(batch') :
          /\ batch'[i].read <= version[batch'[i].id]
          /\ known[batch'[i].id] <= batch'[i].read
    BY <1>3, <2>2, <2>3, <2>4, <2>5 DEF InOrder, Reads
  <2>7. ASSUME NEW i \in 1..Len(batch'), NEW j \in 1..Len(batch'),
               i < j, batch'[i].id = batch'[j].id
        PROVE  batch'[i].read <= batch'[j].read
    <3>1. i \in 1..Len(batch)
      BY <2>1, <2>7
    <3>2. CASE j \in 1..Len(batch)
      BY <2>2, <2>7, <3>1, <3>2 DEF InOrder
    <3>3. CASE j = Len(batch')
      BY <2>2, <2>3, <2>7, <3>1, <3>3 DEF InOrder
    <3> QED
      BY <2>4, <3>2, <3>3
  <2>8. ReadIsCurrent'
    BY <1>1, <2>2, <2>3, <2>4 DEF ReadIsCurrent, ghosts
  <2> QED
    BY <1>1, <2>6, <2>7, <2>8 DEF InOrder
<1> QED
  BY <1>1, <1>4, <1>5, <1>6, <1>7
     DEF SentIsKnown, NotForgotten, OnlyOvertakenUninformed, ghosts

-----------------------------------------------------------------------------
(* The rest of the batch is in order when its head is done with.           *)
LEMMA RestInOrder ==
  ASSUME TypeOK, InOrder, ReadIsCurrent, batch # <<>>, batch' = Tail(batch),
         UNCHANGED <<version, known, overtaken>>
  PROVE  batch' \in Seq(Reads) /\ InOrder' /\ ReadIsCurrent'
<1>1. batch' \in Seq(Reads) /\ Len(batch') = Len(batch) - 1
  BY DEF TypeOK
<1>2. \A i \in 1..Len(batch') : batch'[i] = batch[i + 1] /\ i + 1 \in 1..Len(batch)
  BY <1>1 DEF TypeOK
<1>3. \A i \in 1..Len(batch') :
        /\ batch'[i].read <= version'[batch'[i].id]
        /\ known'[batch'[i].id] <= batch'[i].read
  BY <1>2 DEF InOrder
<1>4. ASSUME NEW i \in 1..Len(batch'), NEW j \in 1..Len(batch'),
             i < j, batch'[i].id = batch'[j].id
      PROVE  batch'[i].read <= batch'[j].read
  <2>1. i + 1 \in 1..Len(batch) /\ j + 1 \in 1..Len(batch) /\ i + 1 < j + 1
    BY <1>2, <1>4
  <2> QED
    BY <1>2, <1>4, <2>1 DEF InOrder
<1>5. ReadIsCurrent'
  BY <1>2 DEF ReadIsCurrent
<1> QED
  BY <1>1, <1>3, <1>4, <1>5 DEF InOrder

(* What the merchant receives is no older than what it had and no newer    *)
(* than what is still to be sent; and the merchant has caught up unless    *)
(* the invoice has changed again.                                          *)
LEMMA Received ==
  ASSUME IInv, Sending, Receive
  PROVE  /\ known' \in [Ids -> Versions]
         /\ known'[Head(batch).id] = Head(batch).read
         /\ \A id \in Ids : known[id] <= known'[id] /\ known'[id] <= version[id]
         /\ \A i \in 1..Len(batch) :
              /\ known'[batch[i].id] <= batch[i].read
              /\ batch[i].read = version[batch[i].id] \/ batch[i].id \in overtaken'
         /\ dropped' \subseteq Ids /\ overtaken' \subseteq Ids
         /\ \A id \in Ids : \/ known'[id] = version[id]
                            \/ /\ known'[id] = known[id] \/ id = Head(batch).id
                               /\ id \in dropped <=> id \in dropped'
                               /\ id \in overtaken <=> id \in overtaken'
<1> USE DEF IInv
<1> DEFINE current == {id \in {batch[1].id} : version[id] = batch[1].read}
<1>1. /\ batch \in Seq(Reads)
      /\ 1 \in 1..Len(batch)
      /\ Head(batch) = batch[1]
      /\ batch[1] \in Reads
  BY DEF TypeOK, Sending
<1>2. \A id \in Ids : known[id] \in Nat /\ version[id] \in Nat
  BY DEF TypeOK, Versions
<1>3. /\ known' = [known EXCEPT ![batch[1].id] = batch[1].read]
      /\ dropped' = dropped \ current
      /\ overtaken' = overtaken \ current
  BY <1>1 DEF Receive
<1>4. known' \in [Ids -> Versions]
  BY <1>1, <1>3 DEF TypeOK, Reads, Versions
<1>5. /\ known'[batch[1].id] = batch[1].read
      /\ \A id \in Ids \ {batch[1].id} : known'[id] = known[id]
  BY <1>1, <1>3 DEF TypeOK, Reads
<1>6. \A id \in Ids : known[id] <= known'[id] /\ known'[id] <= version[id]
  BY <1>1, <1>2, <1>5 DEF InOrder, Reads
<1>7. ASSUME NEW i \in 1..Len(batch)
      PROVE  /\ known'[batch[i].id] <= batch[i].read
             /\ batch[i].read = version[batch[i].id] \/ batch[i].id \in overtaken'
  <2>1. batch[i] \in Reads
    BY <1>1
  <2>2. CASE batch[i].id = batch[1].id
    <3>1. batch[1].read <= batch[i].read
      <4>1. CASE i = 1
        BY <1>1, <4>1 DEF Reads
      <4>2. CASE 1 < i
        BY <1>1, <2>2, <4>2 DEF InOrder
      <4> QED
        BY <4>1, <4>2
    <3>2. batch[i].read <= version[batch[i].id]
      BY DEF InOrder
    <3>3. CASE batch[1].id \in current
      BY <1>1, <1>2, <1>5, <2>1, <2>2, <3>1, <3>2, <3>3 DEF Reads
    <3>4. CASE batch[1].id \notin current
      BY <1>3, <1>5, <2>2, <3>1, <3>4 DEF ReadIsCurrent
    <3> QED
      BY <3>3, <3>4
  <2>3. CASE batch[i].id # batch[1].id
    BY <1>3, <1>5, <2>1, <2>3 DEF InOrder, ReadIsCurrent, Reads
  <2> QED
    BY <2>2, <2>3
<1>8. dropped' \subseteq Ids /\ overtaken' \subseteq Ids
  BY <1>3 DEF TypeOK
<1>9. ASSUME NEW id \in Ids
      PROVE  \/ known'[id] = version[id]
             \/ /\ known'[id] = known[id] \/ id = Head(batch).id
                /\ id \in dropped <=> id \in dropped'
                /\ id \in overtaken <=> id \in overtaken'
  BY <1>1, <1>3, <1>5
<1> QED
  BY <1>1, <1>4, <1>5, <1>6, <1>7, <1>8, <1>9

(* An invoice that the merchant has heard of is heard of for ever, and one *)
(* on which the merchant has caught up is excused no longer.               *)
LEMMA StillKnown ==
  ASSUME IInv, Sending, Receive, UNCHANGED <<version, inserts, notifications>>
  PROVE  NotForgotten' /\ OnlyOvertakenUninformed'
<1> USE DEF IInv
<1>1. \A id \in Ids : known[id] \in Nat /\ known'[id] \in Nat /\ version[id] \in Nat
  BY Received DEF TypeOK, Versions
<1>2. \A id \in Ids : known[id] <= known'[id]
  BY Received
<1>3. \A id \in Ids : \/ known'[id] = version[id]
                     \/ /\ id \in dropped <=> id \in dropped'
                        /\ id \in overtaken <=> id \in overtaken'
  BY Received
<1>4. NotForgotten'
  BY <1>1, <1>2, <1>3 DEF NotForgotten, Printable
<1>5. ASSUME NEW id \in Printable, known'[id] # version[id]
      PROVE  \/ id \in dropped' \cup overtaken'
             \/ \E row \in notifications \cup inserts : row.id = id
  <2>1. known[id] # version[id]
    <3>1. known[id] <= known'[id] /\ known'[id] <= version[id]
      BY Received DEF Printable
    <3> QED
      BY <1>1, <1>5, <3>1 DEF Printable
  <2> QED
    BY <1>3, <1>5, <2>1 DEF OnlyOvertakenUninformed, Printable
<1> QED
  BY <1>4, <1>5 DEF OnlyOvertakenUninformed

(* An error forgets the batch and nothing else.                            *)
LEMMA AbandonKeeps ==
  ASSUME NotifierAssumption, IInv, Fault, Abandon,
         \/ Sending /\ Receive
         \/ UNCHANGED <<known, ghosts>>,
         UNCHANGED <<version, inserts, notifications>>
  PROVE  IInv' /\ \A id \in Ids : known[id] <= known'[id]
<1>1. \A id \in Ids : known[id] \in Nat /\ known[id] <= version[id]
  BY DEF IInv, InOrder, TypeOK, Versions
<1>2. /\ known' \in [Ids -> Versions]
      /\ dropped' \subseteq Ids /\ overtaken' \subseteq Ids
      /\ \A id \in Ids : known[id] <= known'[id] /\ known'[id] <= version[id]
      /\ NotForgotten' /\ OnlyOvertakenUninformed'
  <2>1. CASE Sending /\ Receive
    BY <2>1, Received, StillKnown
  <2>2. CASE UNCHANGED <<known, ghosts>>
    BY <1>1, <2>2 DEF IInv, TypeOK, NotForgotten, OnlyOvertakenUninformed, ghosts
  <2> QED
    BY <2>1, <2>2
<1>3. TypeOK'
  <2>1. faults' \in 0..MaxFaults
    BY DEF IInv, TypeOK, Fault, NotifierAssumption
  <2>2. unread' \in Seq(Rows) /\ batch' \in Seq(Reads)
    BY EmptySeq DEF Abandon
  <2> QED
    BY <1>2, <2>1, <2>2 DEF IInv, TypeOK, Abandon
<1>4. Made' /\ InOrder' /\ ReadIsCurrent' /\ SentIsKnown'
  BY <1>2 DEF IInv, Abandon, Made, InOrder, ReadIsCurrent, SentIsKnown
<1> QED
  BY <1>2, <1>3, <1>4 DEF IInv

-----------------------------------------------------------------------------
(* The steps of notify.                                                    *)
LEMMA PassOverKeeps ==
  ASSUME NotifierAssumption, IInv, PassOver
  PROVE  IInv'
<1> USE DEF IInv, PassOver, Sending, ghosts
<1>1. batch' \in Seq(Reads) /\ InOrder' /\ ReadIsCurrent'
  BY RestInOrder
<1>2. TypeOK'
  BY <1>1 DEF TypeOK
<1> QED
  BY <1>1, <1>2 DEF Made, SentIsKnown, NotForgotten, OnlyOvertakenUninformed

LEMMA SendKeeps ==
  ASSUME NotifierAssumption, IInv, Send
  PROVE  IInv' /\ \A id \in Ids : known[id] <= known'[id]
<1>1. /\ Sending /\ Receive /\ sent' = TRUE
      /\ UNCHANGED <<version, inserts, notifications, unread, batch, faults>>
  BY DEF Send
<1>2. /\ known' \in [Ids -> Versions]
      /\ known'[Head(batch).id] = Head(batch).read
      /\ \A id \in Ids : known[id] <= known'[id] /\ known'[id] <= version[id]
      /\ \A i \in 1..Len(batch) :
           /\ known'[batch[i].id] <= batch[i].read
           /\ batch[i].read = version[batch[i].id] \/ batch[i].id \in overtaken'
      /\ dropped' \subseteq Ids /\ overtaken' \subseteq Ids
  BY <1>1, Received
<1>3. TypeOK'
  BY <1>1, <1>2 DEF IInv, TypeOK, Sending
<1>4. InOrder' /\ ReadIsCurrent' /\ SentIsKnown'
  BY <1>1, <1>2 DEF IInv, InOrder, ReadIsCurrent, SentIsKnown
<1>5. NotForgotten' /\ OnlyOvertakenUninformed'
  BY <1>1, StillKnown
<1> QED
  BY <1>1, <1>2, <1>3, <1>4, <1>5 DEF IInv, Made

LEMMA DeleteKeeps ==
  ASSUME NotifierAssumption, IInv, Delete
  PROVE  IInv'
<1> USE DEF IInv, Delete, ghosts
<1> DEFINE id == Head(batch).id
<1>1. unread = <<>> /\ batch # <<>>
  BY DEF TypeOK
<1>2. batch' \in Seq(Reads) /\ InOrder' /\ ReadIsCurrent'
  BY <1>1, RestInOrder
<1>3. TypeOK'
  BY <1>2 DEF TypeOK
<1>4. IsFiniteSet(notifications')
  BY FS_Subset
<1>5. Made' /\ SentIsKnown'
  BY DEF Made, SentIsKnown
<1>6. /\ known[id] = Head(batch).read
      /\ known[id] > 0
      /\ known[id] = version[id] \/ id \in overtaken
  <2>1. 1 \in 1..Len(batch) /\ Head(batch) = batch[1] /\ batch[1] \in Reads
    BY <1>1 DEF TypeOK
  <2> QED
    BY <2>1 DEF SentIsKnown, ReadIsCurrent, Reads
<1>7. \A row \in notifications : row.id # id => row \in notifications'
  OBVIOUS
<1>8. NotForgotten' /\ OnlyOvertakenUninformed'
  BY <1>6, <1>7 DEF NotForgotten, OnlyOvertakenUninformed
<1> QED
  BY <1>2, <1>3, <1>4, <1>5, <1>8

(* Old rows, which the merchant may never hear of.                         *)
LEMMA DeleteOldKeeps ==
  ASSUME NotifierAssumption, IInv, NEW at \in 1..MaxTime, DeleteOld(at)
  PROVE  IInv'
<1> USE DEF IInv
<1> DEFINE old == {row \in notifications : row.at < at}
<1>1. /\ notifications' = notifications \ old
      /\ dropped' = dropped \cup {row.id : row \in old}
      /\ UNCHANGED <<version, inserts, unread, batch, sent, known, overtaken>>
  BY DEF DeleteOld, loop
<1>2. TypeOK'
  <2>1. faults' \in 0..MaxFaults
    BY DEF DeleteOld, Fault, TypeOK, NotifierAssumption
  <2>2. dropped' \subseteq Ids
    BY <1>1 DEF TypeOK, Rows
  <2> QED
    BY <1>1, <2>1, <2>2 DEF TypeOK
<1>3. IsFiniteSet(notifications')
  BY <1>1, FS_Subset
<1>4. Made' /\ InOrder' /\ ReadIsCurrent' /\ SentIsKnown'
  BY <1>1 DEF Made, InOrder, ReadIsCurrent, SentIsKnown
<1>5. NotForgotten' /\ OnlyOvertakenUninformed'
  BY <1>1 DEF NotForgotten, OnlyOvertakenUninformed
<1> QED
  BY <1>2, <1>3, <1>4, <1>5

-----------------------------------------------------------------------------
(* Every step keeps the invariant, and none takes the merchant back.       *)
LEMMA StepKeeps ==
  ASSUME NotifierAssumption, IInv, [Next]_vars
  PROVE  IInv' /\ \A id \in Ids : known[id] <= known'[id]
<1>1. \A id \in Ids : known[id] \in Nat /\ known[id] <= version[id]
  BY DEF IInv, TypeOK, Versions, InOrder
<1>2. CASE UNCHANGED vars
  <2>1. UNCHANGED <<version, inserts, notifications, unread, batch, sent, known,
                    dropped, overtaken, faults>>
    BY <1>2 DEF vars, loop, ghosts
  <2>2. TypeOK' /\ IsFiniteSet(notifications')
    BY <2>1 DEF IInv, TypeOK
  <2>3. Made' /\ InOrder' /\ ReadIsCurrent' /\ SentIsKnown'
    BY <2>1 DEF IInv, Made, InOrder, ReadIsCurrent, SentIsKnown
  <2>4. NotForgotten' /\ OnlyOvertakenUninformed'
    BY <2>1 DEF IInv, NotForgotten, OnlyOvertakenUninformed
  <2> QED
    BY <1>1, <2>1, <2>2, <2>3, <2>4 DEF IInv
<1>3. ASSUME NEW id \in Ids, Change(id)
      PROVE  IInv' /\ \A other \in Ids : known[other] <= known'[other]
  <2>1. UNCHANGED known
    BY <1>3 DEF Change
  <2> QED
    BY <1>1, <1>3, <2>1, ChangeKeeps
<1>4. ASSUME NEW c \in inserts, NEW at \in 0..MaxTime, Insert(c, at)
      PROVE  IInv' /\ \A id \in Ids : known[id] <= known'[id]
  <2>1. UNCHANGED known
    BY <1>4 DEF Insert
  <2> QED
    BY <1>1, <1>4, <2>1, InsertKeeps
<1>5. CASE SelectRows
  <2>1. UNCHANGED known
    BY <1>5 DEF SelectRows
  <2> QED
    BY <1>1, <1>5, <2>1, SelectRowsKeeps
<1>6. CASE ReadInvoice
  <2>1. UNCHANGED known
    BY <1>6 DEF ReadInvoice
  <2> QED
    BY <1>1, <1>6, <2>1, ReadInvoiceKeeps
<1>7. CASE PassOver
  <2>1. UNCHANGED known
    BY <1>7 DEF PassOver
  <2> QED
    BY <1>1, <1>7, <2>1, PassOverKeeps
<1>8. CASE Send
  BY <1>8, SendKeeps
<1>9. CASE SendFails
  BY <1>9, AbandonKeeps DEF SendFails
<1>10. CASE Delete
  <2>1. UNCHANGED known
    BY <1>10 DEF Delete
  <2> QED
    BY <1>1, <1>10, <2>1, DeleteKeeps
<1>11. CASE DeleteFails \/ ReadFails
  BY <1>11, AbandonKeeps DEF DeleteFails, ReadFails
<1>12. ASSUME NEW at \in 1..MaxTime, DeleteOld(at)
       PROVE  IInv' /\ \A id \in Ids : known[id] <= known'[id]
  <2>1. UNCHANGED known
    BY <1>12 DEF DeleteOld
  <2> QED
    BY <1>1, <1>12, <2>1, DeleteOldKeeps
<1> QED
  BY <1>2, <1>3, <1>4, <1>5, <1>6, <1>7, <1>8, <1>9, <1>10, <1>11, <1>12 DEF Next

(* The inductive invariant of the notifier.                                *)
THEOREM Invariance == Spec => []IInv
<1> USE NotifierAssumption
<1>1. Init => IInv
  BY InitHolds
<1>2. IInv /\ [Next]_vars => IInv'
  BY StepKeeps
<1> QED
  BY <1>1, <1>2, PTL DEF Spec

(* The tables and the loop keep their types, for any batch size.           *)
THEOREM TypeCorrect == Spec => []TypeOK
<1>1. IInv => TypeOK
  BY DEF IInv
<1> QED
  BY <1>1, Invariance, PTL

(* No printable invoice is forgotten: DeleteInvoiceNotification comes only *)
(* after a Send, and an error deletes nothing (notifier.go:68-85).         *)
THEOREM NoneForgotten == Spec => []NotForgotten
<1>1. IInv => NotForgotten
  BY DEF IInv
<1> QED
  BY <1>1, Invariance, PTL

(* The merchant is left behind only by a change made between the reading   *)
(* and the deletion, or by a row grown too old: a failed Send, an error of *)
(* the database and a batch that is begun anew lose nothing                *)
(* (notifier.go:46-85).                                                    *)
THEOREM OthersInformed == Spec => []OnlyOvertakenUninformed
<1>1. IInv => OnlyOvertakenUninformed
  BY DEF IInv
<1> QED
  BY <1>1, Invariance, PTL

(* The merchant's view of an invoice never goes back, because invoices are *)
(* read in the order in which they are sent (invoices.go:150-159).         *)
THEOREM NeverBack == Spec => NeverGoesBack
<1> USE NotifierAssumption
<1>1. IInv /\ [Next]_vars => [\A id \in Ids : known[id] <= known'[id]]_vars
  BY StepKeeps
<1> QED
  BY <1>1, Invariance, PTL DEF Spec, NeverGoesBack
=============================================================================
