----------------------------- MODULE History -----------------------------
(***************************************************************************)
(* The history of invoices (getInvoiceHistory in pkg/api/handlers.go,      *)
(* GetInvoices in pkg/db/invoices.go) and a merchant who reads it page by  *)
(* page, each page after the last invoice of the one before, while         *)
(* handlers create invoices.                                               *)
(*                                                                         *)
(* The id of an invoice (UUIDv7) is made before its row is inserted, so    *)
(* ids are ordered by when they were made and become visible in any order: *)
(* a page can pass an id whose row is not there yet. Ids are the numbers   *)
(* 1, 2, ... and 0 is the empty id of a request without "after".           *)
(*                                                                         *)
(* A deployment can leave out a currency; its invoices cannot be printed   *)
(* until it is configured again.                                           *)
(***************************************************************************)
EXTENDS Naturals, FiniteSets

CONSTANTS
  Limit,       \* invoices in a page (20)
  MaxId,       \* bound on the invoices made
  MaxDeploys,  \* bound on deployments
  MaxFaults    \* bound on statements and answers that are lost

ASSUME HistoryAssumption ==
  /\ Limit \in Nat \ {0}
  /\ MaxId \in Nat
  /\ MaxDeploys \in Nat
  /\ MaxFaults \in Nat

VARIABLES
  last,         \* the id made last
  creating,     \* ids made whose invoice is not inserted yet
  invoices,     \* payments.invoices
  unprintable,  \* invoices whose currency is not configured
  page,         \* what GetInvoices has selected for the request, if any
  passed,       \* ghost: ids without an invoice that this page passes
  after,        \* the merchant: the last invoice received
  got,          \* the merchant: invoices received
  missed,       \* ghost: ids passed by a page that was received
  deploys,      \* deployments so far
  faults        \* faults so far

table == <<last, creating, invoices>>
request == <<page, passed>>
merchant == <<after, got, missed>>
bounds == <<deploys, faults>>
vars == <<table, unprintable, request, merchant, bounds>>

-----------------------------------------------------------------------------
Ids == 1..MaxId

(* after is the invoice the merchant has received last, and not only one   *)
(* of them: the handler refuses an id that is not in the table.            *)
TypeOK ==
  /\ last \in 0..MaxId
  /\ creating \subseteq 1..last
  /\ invoices \subseteq (1..last) \ creating
  /\ unprintable \subseteq invoices
  /\ page \subseteq invoices
  /\ passed \subseteq Ids
  /\ got \subseteq invoices
  /\ after \in got \cup {0}
  /\ missed \subseteq Ids
  /\ deploys \in 0..MaxDeploys
  /\ faults \in 0..MaxFaults

Init ==
  /\ last = 0
  /\ creating = {}
  /\ invoices = {}
  /\ unprintable = {}
  /\ page = {}
  /\ passed = {}
  /\ after = 0
  /\ got = {}
  /\ missed = {}
  /\ deploys = 0
  /\ faults = 0

Fault == faults < MaxFaults /\ faults' = faults + 1

-----------------------------------------------------------------------------
(* convertNewInvoice in one of the handlers that create invoices.          *)
NewInvoiceID ==
  /\ last < MaxId
  /\ last' = last + 1
  /\ creating' = creating \cup {last + 1}
  /\ UNCHANGED <<invoices, unprintable, request, merchant, bounds>>

CreateInvoice(id) ==
  /\ id \in creating
  /\ creating' = creating \ {id}
  /\ invoices' = invoices \cup {id}
  /\ UNCHANGED <<last, unprintable, request, merchant, bounds>>

CreateInvoiceFails(id) ==
  /\ id \in creating
  /\ Fault
  /\ creating' = creating \ {id}
  /\ UNCHANGED <<last, invoices, unprintable, request, merchant, deploys>>

(* The next process has other currencies; nothing is left of requests.     *)
Deploy(without) ==
  /\ deploys < MaxDeploys
  /\ deploys' = deploys + 1
  /\ unprintable' = without
  /\ creating' = {}
  /\ page' = {}
  /\ passed' = {}
  /\ UNCHANGED <<last, invoices, merchant, faults>>

-----------------------------------------------------------------------------
(* WHERE id > after ORDER BY id LIMIT limit.                               *)
Candidates == {id \in invoices : id > after}

(* Mutant: no ORDER BY.                                                    *)
SelectionUnordered ==
  {S \in SUBSET Candidates : Cardinality(S) = Limit \/ S = Candidates}

(* Mutant: the page begins with the invoice named by after.                *)
SelectionFromAfter ==
  {{id \in invoices : id >= after
      /\ Cardinality({x \in invoices : after <= x /\ x < id}) < Limit}}

(* Mutant: the newest first.                                               *)
SelectionNewestFirst ==
  {{id \in Candidates : Cardinality({x \in Candidates : x > id}) < Limit}}

Selection ==
  {{id \in Candidates : Cardinality({x \in Candidates : x < id}) < Limit}}

(* A page without invoices changes nothing for the merchant.               *)
GetInvoices ==
  /\ page = {}
  /\ page' \in Selection \ {{}}
  /\ passed' = {id \in creating : \E x \in page' : id < x}
  /\ UNCHANGED <<table, unprintable, merchant, bounds>>

(* Mutant: what cannot be printed is left out of the page.                 *)
AnswerPrintable ==
  /\ page # {}
  /\ got' = got \cup (page \ unprintable)
  /\ after' \in {id \in page : \A x \in page : x <= id}
  /\ missed' = missed \cup passed
  /\ page' = {}
  /\ passed' = {}
  /\ UNCHANGED <<table, unprintable, bounds>>

(* Each invoice is read and printed; the answer arrives.                   *)
Answer ==
  /\ page # {}
  /\ page \cap unprintable = {}
  /\ got' = got \cup page
  /\ after' \in {id \in page : \A x \in page : x <= id}
  /\ missed' = missed \cup passed
  /\ page' = {}
  /\ passed' = {}
  /\ UNCHANGED <<table, unprintable, bounds>>

(* One invoice that cannot be printed fails the page, a statement that     *)
(* fails or an answer that is lost as well: the merchant asks again.       *)
AnswerFails ==
  /\ page # {}
  /\ \/ page \cap unprintable # {} /\ UNCHANGED faults
     \/ Fault
  /\ page' = {}
  /\ passed' = {}
  /\ UNCHANGED <<table, unprintable, merchant, deploys>>

Next ==
  \/ NewInvoiceID
  \/ \E id \in Ids : CreateInvoice(id) \/ CreateInvoiceFails(id)
  \/ \E without \in SUBSET invoices : Deploy(without)
  \/ GetInvoices
  \/ Answer
  \/ AnswerFails

Spec == Init /\ [][Next]_vars

(* The merchant goes on asking, and requests end.                          *)
Fairness ==
  /\ WF_vars(GetInvoices)
  /\ WF_vars(Answer \/ AnswerFails)

FairSpec == Spec /\ Fairness

-----------------------------------------------------------------------------
(* Of the invoices up to the last one received, the merchant misses those  *)
(* that a page passed while they were being inserted, and no others,       *)
(* whatever answers were lost and currencies left out                      *)
(* (db/invoices.go:122-128, handlers.go:225-270).                          *)
OnlyOvertakenMissed ==
  got = {id \in invoices : id <= after} \ missed

(* No invoice is received twice (db/invoices.go:126).                      *)
NeverRepeated == page \cap got = {}

(* An invoice arrives in the end, unless a page has passed it or an        *)
(* invoice that cannot be printed still lies ahead (handlers.go:264-269).  *)
EventuallyReceived ==
  \A id \in Ids :
    []<>(id \in invoices =>
           id \in got \cup missed \/ \E x \in unprintable : x > after)
=============================================================================
