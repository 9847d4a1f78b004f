------------------------------- MODULE Pool -------------------------------
(***************************************************************************)
(* The connections of the database pool (pgxpool in pkg/db/connection.go). *)
(* SavePayments (pkg/db/invoices.go) keeps the connection of its database  *)
(* transaction while processPayment asks the pool for another one to look  *)
(* up the currency; everything else in the process has one connection at a *)
(* time. There is one worker for each account, all of one process.         *)
(*                                                                         *)
(* A worker's context ends after ten seconds (indexer.go:38), which is     *)
(* much longer than a statement takes: it matters when no connection comes *)
(* back by itself.                                                         *)
(***************************************************************************)
EXTENDS Naturals, FiniteSets

CONSTANTS
  Workers,     \* indexer workers
  Clients,     \* handlers, loaders and the other loops
  MaxSize,     \* bound on the size of the pool
  MaxPayments  \* bound on the payments of a transaction

Users == Workers \cup Clients

ASSUME PoolAssumption ==
  /\ IsFiniteSet(Users)
  /\ Workers \cap Clients = {}
  /\ MaxSize \in Nat
  /\ MaxPayments \in Nat

VARIABLES
  size,     \* connections of the pool (pool_max_conns of the URI)
  pc,       \* where each user is
  left,     \* payments a worker has still to process
  held      \* connections in use: <<user, 1>>, and <<user, 2>> for a second one

vars == <<size, pc, left, held>>

-----------------------------------------------------------------------------
(* "begin", "second" and "wait" wait for a connection.                     *)
InTransaction == {"open", "second", "read"}
WorkerPhases == {"idle", "begin", "wait", "use"} \cup InTransaction
ClientPhases == {"idle", "wait", "use"}
Waiting(u) == pc[u] \in {"begin", "second", "wait"}

(* Every user has the connections of its phase, and there are no more of   *)
(* them than the pool has.                                                 *)
TypeOK ==
  /\ size \in 1..MaxSize
  /\ pc \in [Users -> WorkerPhases]
  /\ \A c \in Clients : pc[c] \in ClientPhases
  /\ left \in [Workers -> 0..MaxPayments]
  /\ held = {<<u, 1>> : u \in {v \in Users : pc[v] \in InTransaction \cup {"use"}}}
              \cup {<<u, 2>> : u \in {v \in Users : pc[v] = "read"}}
  /\ Cardinality(held) <= size

Init ==
  /\ size \in 1..MaxSize
  /\ pc = [u \in Users |-> "idle"]
  /\ left = [w \in Workers |-> 0]
  /\ held = {}

Goes(u, phase) == pc' = [pc EXCEPT ![u] = phase]

(* Every connection is held by somebody who waits for another one.         *)
Stalled ==
  /\ Cardinality(held) = size
  /\ \A h \in held : Waiting(h[1])

-----------------------------------------------------------------------------
(* The pool gives a free connection to somebody who waits for one.         *)
Acquire(u) ==
  /\ Waiting(u)
  /\ Cardinality(held) < size
  /\ held' = held \cup {<<u, IF pc[u] = "second" THEN 2 ELSE 1>>}
  /\ Goes(u, CASE pc[u] = "begin" -> "open"
               [] pc[u] = "second" -> "read"
               [] OTHER -> "use")
  /\ UNCHANGED <<size, left>>

(* SavePayments begins with the payments of a transaction.                 *)
SavePayments(w, n) ==
  /\ pc[w] = "idle"
  /\ Goes(w, "begin")
  /\ left' = [left EXCEPT ![w] = n]
  /\ UNCHANGED <<size, held>>

(* processPayment: getCurrencyID is a query of the pool.                   *)
GetCurrencyID(w) ==
  /\ pc[w] = "open"
  /\ left[w] > 0
  /\ Goes(w, "second")
  /\ UNCHANGED <<size, left, held>>

(* Mutant: the rows of the query are never closed.                         *)
WritePaymentKeepsRows(w) ==
  /\ pc[w] = "read"
  /\ left' = [left EXCEPT ![w] = @ - 1]
  /\ Goes(w, "open")
  /\ UNCHANGED <<size, held>>

(* The currency is known, and the payment is written on the connection of  *)
(* the transaction.                                                        *)
WritePayment(w) ==
  /\ pc[w] = "read"
  /\ held' = held \ {<<w, 2>>}
  /\ left' = [left EXCEPT ![w] = @ - 1]
  /\ Goes(w, "open")
  /\ UNCHANGED size

(* After the commit the notification is inserted by a statement of its own.*)
Commit(w) ==
  /\ pc[w] = "open"
  /\ left[w] = 0
  /\ held' = held \ {<<w, 1>>}
  /\ \/ Goes(w, "wait")
     \/ Goes(w, "idle")
  /\ UNCHANGED <<size, left>>

(* Mutant: without the deferred rollback.                                  *)
TimeOutKeepsTransaction(w) ==
  /\ Stalled
  /\ Waiting(w)
  /\ Goes(w, "idle")
  /\ UNCHANGED <<size, left, held>>

(* The worker's context has ended. The rollback has the same context, so   *)
(* the connection is closed and replaced by a new one of the pool.         *)
TimeOut(w) ==
  /\ Stalled
  /\ Waiting(w)
  /\ held' = held \ {<<w, 1>>}
  /\ Goes(w, "idle")
  /\ UNCHANGED <<size, left>>

Statement(c) ==
  /\ pc[c] = "idle"
  /\ Goes(c, "wait")
  /\ UNCHANGED <<size, left, held>>

(* Mutant: GetInvoices reads each invoice with its rows still open.        *)
StatementInside(u) ==
  /\ \/ pc[u] = "use" /\ Goes(u, "second") /\ UNCHANGED held
     \/ /\ pc[u] = "read" /\ u \in Clients
        /\ Goes(u, "idle")
        /\ held' = held \ {<<u, 1>>, <<u, 2>>}
  /\ UNCHANGED <<size, left>>

(* The rows of a query are read to their end, which gives the connection   *)
(* back, before the next statement (db/invoices.go:132-146).               *)
StatementEnds(u) ==
  /\ pc[u] = "use"
  /\ held' = held \ {<<u, 1>>}
  /\ Goes(u, "idle")
  /\ UNCHANGED <<size, left>>

Works(w) == GetCurrencyID(w) \/ WritePayment(w) \/ Commit(w)

Next ==
  \/ \E u \in Users : Acquire(u) \/ StatementEnds(u)
  \/ \E w \in Workers, n \in 0..MaxPayments : SavePayments(w, n)
  \/ \E w \in Workers : Works(w) \/ TimeOut(w)
  \/ \E c \in Clients : Statement(c)

Spec == Init /\ [][Next]_vars

(***************************************************************************)
(* The pool serves those who wait in the order they came: who waits gets a *)
(* connection if there is a free one again and again. Statements end.      *)
(***************************************************************************)
Fairness ==
  /\ \A u \in Users : SF_vars(Acquire(u)) /\ WF_vars(StatementEnds(u))
  /\ \A w \in Workers : WF_vars(Works(w)) /\ WF_vars(TimeOut(w))

FairSpec == Spec /\ Fairness

-----------------------------------------------------------------------------
(* With more connections than workers the process never waits for itself,  *)
(* whatever else uses the pool: a stall takes a worker for every           *)
(* connection (invoices.go:266, 308).                                      *)
NeverStalled == size > Cardinality(Workers) => ~Stalled

(* With too few connections a time-out makes one of them free again        *)
(* (indexer.go:38, invoices.go:270, 385-390).                              *)
StallEnds == Stalled ~> Cardinality(held) < size

(* With more connections than workers the payments of a transaction are    *)
(* all written without the help of a time-out, and nothing but the commit  *)
(* is left, which needs no other connection (invoices.go:265-297).         *)
PaymentsWritten ==
  \A w \in Workers :
    (pc[w] = "begin" /\ size > Cardinality(Workers)) ~> (pc[w] = "open" /\ left[w] = 0)
=============================================================================
