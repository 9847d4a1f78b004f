-------------------------- MODULE HistoryProofs --------------------------
(***************************************************************************)
(* What is proved of the history, for pages of any size and any number of  *)
(* invoices, deployments and lost answers.                                 *)
(***************************************************************************)
EXTENDS History, FiniteSetTheorems, TLAPS

(* An invoice that is about to be inserted behind the merchant has been    *)
(* counted as missed, and nothing else has.                                *)
Behind ==
  /\ \A id \in creating : id <= after => id \in missed
  /\ \A id \in missed : id <= after

(* The same for the page that is being answered.                           *)
BehindPage ==
  /\ \A id \in page : id > after
  /\ \A id \in creating, x \in page : id < x => id \in passed
  /\ \A id \in passed : \E x \in page : id < x
  /\ passed \cap (got \cup page) = {}

(* A page takes everything up to its last invoice.                         *)
PageWithoutHole ==
  \A id \in invoices, x \in page :
    after < id /\ id < x => id \in page \cup passed

IInv ==
  /\ TypeOK
  /\ Behind
  /\ BehindPage
  /\ PageWithoutHole
  /\ OnlyOvertakenMissed

-----------------------------------------------------------------------------
(* The first invoices of a set that holds an id hold every smaller one.    *)
LEMMA FirstAreDownClosed ==
  ASSUME NEW S \in SUBSET Ids, MaxId \in Nat, NEW id \in S, NEW x \in S, id < x,
         Limit \in Nat,
         Cardinality({y \in S : y < x}) < Limit
  PROVE  Cardinality({y \in S : y < id}) < Limit
<1> DEFINE A == {y \in S : y < id}
           B == {y \in S : y < x}
<1>1. IsFiniteSet(1..MaxId)
  BY FS_Interval
<1>2. IsFiniteSet(B)
  <2>1. B \in SUBSET (1..MaxId)
    BY DEF Ids
  <2> QED
    BY <1>1, <2>1, FS_Subset
<1>3. A \in SUBSET B
  <2>1. id \in Nat /\ x \in Nat /\ \A y \in S : y \in Nat
    BY DEF Ids
  <2>2. \A y \in S : y < id => y < x
    BY <2>1
  <2> QED
    BY <2>2
<1>4. Cardinality(A) <= Cardinality(B) /\ IsFiniteSet(A)
  BY <1>2, <1>3, FS_Subset
<1>5. Cardinality(A) \in Nat /\ Cardinality(B) \in Nat
  BY <1>2, <1>4, FS_CardinalityType
<1> HIDE DEF A, B
<1>6. Cardinality(B) < Limit => Cardinality(A) < Limit
  BY <1>4, <1>5
<1> QED
  BY <1>6 DEF A, B

(* What GetInvoices selects: invoices after the last one received, without *)
(* a hole.                                                                 *)
LEMMA SelectedInOrder ==
  ASSUME HistoryAssumption, TypeOK, NEW S \in Selection
  PROVE  /\ S \subseteq invoices
         /\ \A id \in S : id > after
         /\ \A id \in invoices, x \in S : after < id /\ id < x => id \in S
<1>1. S = {id \in Candidates : Cardinality({x \in Candidates : x < id}) < Limit}
  BY DEF Selection
<1>2. Candidates \in SUBSET Ids /\ MaxId \in Nat /\ Limit \in Nat
  <2>1. MaxId \in Nat /\ Limit \in Nat
    BY DEF HistoryAssumption
  <2>2. \A id \in invoices : id \in 1..last /\ last \in 0..MaxId
    BY DEF TypeOK
  <2>3. \A id \in invoices : id \in Ids
    BY <2>1, <2>2 DEF Ids
  <2> QED
    BY <2>1, <2>3 DEF Candidates
<1>3. ASSUME NEW id \in invoices, NEW x \in S, after < id, id < x
      PROVE  id \in S
  <2>1. id \in Candidates /\ x \in Candidates
    BY <1>1, <1>3 DEF Candidates, TypeOK
  <2>2. Cardinality({y \in Candidates : y < x}) < Limit
    BY <1>1
  <2>3. Cardinality({y \in Candidates : y < id}) < Limit
    BY <1>2, <1>3, <2>1, <2>2, FirstAreDownClosed
  <2> QED
    BY <1>1, <2>1, <2>3
<1> QED
  BY <1>1, <1>3 DEF Candidates

(* The invariant holds before the first invoice.                           *)
LEMMA InitHolds == HistoryAssumption /\ Init => IInv
<1> SUFFICES ASSUME HistoryAssumption, Init PROVE IInv
  OBVIOUS
<1>1. TypeOK
  BY DEF HistoryAssumption, Init, TypeOK
<1>2. Behind /\ BehindPage /\ PageWithoutHole /\ OnlyOvertakenMissed
  BY DEF Init, Behind, BehindPage, PageWithoutHole, OnlyOvertakenMissed
<1> QED
  BY <1>1, <1>2 DEF IInv

(* Every variable keeps its type.                                          *)
LEMMA TypeStep == HistoryAssumption /\ IInv /\ [Next]_vars => TypeOK'
<1> SUFFICES ASSUME HistoryAssumption, IInv, [Next]_vars PROVE TypeOK'
  OBVIOUS
<1> USE DEF IInv
<1>0. MaxId \in Nat /\ MaxDeploys \in Nat /\ MaxFaults \in Nat
  BY DEF HistoryAssumption
<1>1. CASE NewInvoiceID
  BY <1>0, <1>1 DEF NewInvoiceID, TypeOK, Ids, request, merchant, bounds
<1>2. ASSUME NEW id \in Ids, CreateInvoice(id) PROVE TypeOK'
  BY <1>0, <1>2 DEF CreateInvoice, TypeOK, request, merchant, bounds
<1>3. ASSUME NEW id \in Ids, CreateInvoiceFails(id) PROVE TypeOK'
  <2>1. creating' \subseteq creating /\ faults' \in 0..MaxFaults
    BY <1>0, <1>3 DEF CreateInvoiceFails, Fault, TypeOK
  <2>2. UNCHANGED <<last, invoices, unprintable, request, merchant, deploys>>
    BY <1>3 DEF CreateInvoiceFails
  <2> QED
    BY <2>1, <2>2 DEF TypeOK, request, merchant
<1>4. CASE \E without \in SUBSET invoices : Deploy(without)
  BY <1>0, <1>4 DEF Deploy, TypeOK, merchant
<1>5. CASE GetInvoices
  <2>1. page' \subseteq invoices
    BY <1>5, SelectedInOrder DEF GetInvoices
  <2>2. passed' \subseteq Ids
    <3>1. passed' \subseteq creating
      BY <1>5 DEF GetInvoices
    <3>2. \A id \in creating : id \in 1..last /\ last \in 0..MaxId
      BY DEF TypeOK
    <3> QED
      BY <1>0, <3>1, <3>2 DEF Ids
  <2> QED
    BY <1>5, <2>1, <2>2 DEF GetInvoices, TypeOK, table, merchant, bounds
<1>6. CASE Answer
  BY <1>6 DEF Answer, TypeOK, table, bounds
<1>7. CASE AnswerFails
  BY <1>0, <1>7 DEF AnswerFails, Fault, TypeOK, table, merchant
<1>8. CASE UNCHANGED vars
  BY <1>8 DEF vars, table, request, merchant, bounds, TypeOK
<1> QED
  BY <1>1, <1>2, <1>3, <1>4, <1>5, <1>6, <1>7, <1>8 DEF Next

(* What lies behind the merchant and the page stays accounted for.         *)
LEMMA AccountStep ==
  HistoryAssumption /\ IInv /\ [Next]_vars
    => Behind' /\ BehindPage' /\ PageWithoutHole' /\ OnlyOvertakenMissed'
<1> SUFFICES ASSUME HistoryAssumption, IInv, [Next]_vars
             PROVE  Behind' /\ BehindPage' /\ PageWithoutHole' /\ OnlyOvertakenMissed'
  OBVIOUS
<1> USE DEF IInv
<1>0. /\ last \in Nat /\ creating \subseteq 1..last /\ invoices \subseteq 1..last
      /\ page \subseteq 1..last /\ got \subseteq 1..last /\ after \in 0..last
      /\ creating \cap invoices = {} /\ got \subseteq invoices /\ page \subseteq invoices
      /\ passed \subseteq Nat /\ missed \subseteq Nat
  BY DEF HistoryAssumption, TypeOK, Ids
<1>1. CASE NewInvoiceID
  <2>1. Behind'
    BY <1>0, <1>1 DEF NewInvoiceID, Behind, merchant
  <2>2. BehindPage'
    BY <1>0, <1>1 DEF NewInvoiceID, BehindPage, request, merchant
  <2> QED
    BY <1>1, <2>1, <2>2
    DEF NewInvoiceID, PageWithoutHole, OnlyOvertakenMissed, request, merchant
<1>2. ASSUME NEW id \in Ids, CreateInvoice(id)
      PROVE  Behind' /\ BehindPage' /\ PageWithoutHole' /\ OnlyOvertakenMissed'
  <2>1. Behind' /\ BehindPage'
    BY <1>2 DEF CreateInvoice, Behind, BehindPage, request, merchant
  <2>2. PageWithoutHole'
    BY <1>2 DEF CreateInvoice, BehindPage, PageWithoutHole, request, merchant
  <2>3. OnlyOvertakenMissed'
    BY <1>2 DEF CreateInvoice, Behind, OnlyOvertakenMissed, merchant
  <2> QED
    BY <2>1, <2>2, <2>3
<1>3. ASSUME NEW id \in Ids, CreateInvoiceFails(id)
      PROVE  Behind' /\ BehindPage' /\ PageWithoutHole' /\ OnlyOvertakenMissed'
  BY <1>3 DEF CreateInvoiceFails, Behind, BehindPage, PageWithoutHole,
              OnlyOvertakenMissed, request, merchant
<1>4. CASE \E without \in SUBSET invoices : Deploy(without)
  BY <1>4 DEF Deploy, Behind, BehindPage, PageWithoutHole, OnlyOvertakenMissed, merchant
<1>5. CASE GetInvoices
  <2>1. /\ page' \subseteq invoices
        /\ \A id \in page' : id > after
        /\ \A id \in invoices, x \in page' : after < id /\ id < x => id \in page'
    BY <1>5, SelectedInOrder DEF GetInvoices
  <2>2. UNCHANGED <<table, merchant>> /\ passed' = {id \in creating : \E x \in page' : id < x}
    BY <1>5 DEF GetInvoices
  <2>3. BehindPage'
    BY <1>0, <2>1, <2>2 DEF BehindPage, table, merchant
  <2> QED
    BY <2>1, <2>2, <2>3 DEF Behind, PageWithoutHole, OnlyOvertakenMissed, table, merchant
<1>6. CASE Answer
  <2>1. /\ got' = got \cup page /\ missed' = missed \cup passed
        /\ page' = {} /\ passed' = {} /\ UNCHANGED table
        /\ after' \in page /\ \A x \in page : x <= after'
    BY <1>6 DEF Answer
  <2>2. after < after' /\ after' \in 1..last /\ after' \in invoices
    BY <1>0, <2>1 DEF BehindPage
  <2>3. Behind'
    <3>1. ASSUME NEW id \in creating, id <= after' PROVE id \in missed \cup passed
      <4>1. id < after'
        BY <1>0, <2>2, <3>1
      <4> QED
        BY <2>1, <4>1 DEF BehindPage
    <3>2. ASSUME NEW id \in missed \cup passed PROVE id <= after'
      BY <1>0, <2>1, <2>2 DEF Behind, BehindPage
    <3> QED
      BY <2>1, <3>1, <3>2 DEF Behind, table
  <2>4. OnlyOvertakenMissed'
    <3>1. ASSUME NEW id \in got \cup page
          PROVE  id \in invoices /\ id <= after' /\ id \notin missed \cup passed
      BY <1>0, <2>1, <2>2 DEF Behind, BehindPage, OnlyOvertakenMissed
    <3>2. ASSUME NEW id \in invoices, id <= after', id \notin missed \cup passed
          PROVE  id \in got \cup page
      <4>1. CASE id <= after
        BY <3>2, <4>1 DEF OnlyOvertakenMissed
      <4>2. CASE after < id /\ id < after'
        BY <2>1, <3>2, <4>2 DEF PageWithoutHole
      <4>3. CASE id = after'
        BY <2>1, <4>3
      <4> QED
        BY <1>0, <2>2, <3>2, <4>1, <4>2, <4>3
    <3> QED
      BY <2>1, <3>1, <3>2 DEF OnlyOvertakenMissed, table
  <2> QED
    BY <2>1, <2>3, <2>4 DEF BehindPage, PageWithoutHole
<1>7. CASE AnswerFails
  BY <1>7 DEF AnswerFails, Behind, BehindPage, PageWithoutHole, OnlyOvertakenMissed,
              table, merchant
<1>8. CASE UNCHANGED vars
  BY <1>8 DEF vars, table, request, merchant, Behind, BehindPage, PageWithoutHole,
              OnlyOvertakenMissed
<1> QED
  BY <1>1, <1>2, <1>3, <1>4, <1>5, <1>6, <1>7, <1>8 DEF Next

-----------------------------------------------------------------------------
(* The invariant of the history: what lies behind the merchant and the     *)
(* page is received, missed or was never inserted.                         *)
THEOREM Invariance == Spec => []IInv
<1>1. HistoryAssumption
  BY HistoryAssumption
<1>2. Init => IInv
  BY <1>1, InitHolds
<1>3. IInv /\ [Next]_vars => IInv'
  BY <1>1, TypeStep, AccountStep DEF IInv
<1> QED
  BY <1>2, <1>3, PTL DEF Spec

(* Every variable keeps its type, and the merchant's "after" is always an  *)
(* invoice the handler knows (handlers.go:244-254).                        *)
THEOREM TypeCorrect == Spec => []TypeOK
<1>1. IInv => TypeOK
  BY DEF IInv
<1> QED
  BY <1>1, Invariance, PTL

(* Paging by id loses an invoice only when its id was made before, and its *)
(* row inserted after, a later id was read (db/invoices.go:122-128).       *)
THEOREM NothingElseMissed == Spec => []OnlyOvertakenMissed
<1>1. IInv => OnlyOvertakenMissed
  BY DEF IInv
<1> QED
  BY <1>1, Invariance, PTL

(* No page holds an invoice that the merchant has (db/invoices.go:126).    *)
THEOREM NoRepetition == Spec => []NeverRepeated
<1>1. IInv => NeverRepeated
  <2> SUFFICES ASSUME IInv, NEW id \in page \cap got PROVE FALSE
    BY DEF NeverRepeated
  <2>1. id > after /\ id <= after
    BY DEF IInv, BehindPage, OnlyOvertakenMissed
  <2>2. id \in Nat /\ after \in Nat
    BY HistoryAssumption DEF IInv, TypeOK, HistoryAssumption
  <2> QED
    BY <2>1, <2>2
<1> QED
  BY <1>1, Invariance, PTL
=============================================================================
