----------------------------- MODULE TxSync -----------------------------
(***************************************************************************)
(* One tracked account: the loader worker that copies its transactions     *)
(* from the blockchain into Postgres (pkg/indexer/loader.go), the indexer  *)
(* worker that hands them to SavePayments one after the other              *)
(* (pkg/indexer/indexer.go), the start-up code that registers the account  *)
(* (cmd/api/accounts.go) and the queries behind them (pkg/db).             *)
(*                                                                         *)
(* Logical times are abstracted to positions: the account's transactions   *)
(* are 1..head and the previous transaction of n is n - 1, 0 meaning that  *)
(* there is none, which is all the code compares them for.                 *)
(***************************************************************************)
EXTENDS Naturals, FiniteSetsExt

CONSTANTS
  MaxLt,      \* bound on the length of the account's history
  Batch,      \* most transactions one GetTransactions call returns (16)
  MaxFaults   \* bound on crashes and failed SavePayments calls

ASSUME TxSyncAssumption ==
  /\ MaxLt \in Nat
  /\ Batch \in Nat \ {0}
  /\ MaxFaults \in Nat

VARIABLES
  head,             \* the blockchain: the account's last transaction
  created,          \* blockchain.accounts has a row of the account
  startTxLt,        \* its start_tx_lt
  lastTxLt,         \* its last_tx_lt
  lastProcessedLt,  \* its last_processed_lt
  transactions,     \* blockchain.transactions: the stored positions
  pc,               \* what the process does with the account
  gaps,             \* loader: gaps found at start-up and not yet filled
  lastLt,           \* loader: loaderWorker.lastLt
  job,              \* loader: the syncHistoryGap call that is running
  lastIndexed,      \* indexer: indexerWorker.lastIndexed
  saves,            \* ghost: how often each transaction was committed
  faults            \* faults so far

row == <<created, startTxLt, lastTxLt, lastProcessedLt>>
vars == <<head, row, transactions, pc, gaps, lastLt, job, lastIndexed, saves, faults>>

(***************************************************************************)
(* "starting": main has not yet handed the account to the indexer;         *)
(* "untracked": trackAccount failed and only logged it; "boot": the loader *)
(* has not read its gaps; "ready": between two syncHistoryGap calls;       *)
(* "sync": inside one.                                                     *)
(***************************************************************************)
Running == {"boot", "ready", "sync"}
Phases == {"starting", "untracked"} \cup Running

Positions == 0..MaxLt
NoJob == [first |-> 0, next |-> 0, end |-> 0, fetched |-> 0]

TypeOK ==
  /\ head \in Positions
  /\ created \in BOOLEAN
  /\ startTxLt \in 0..head
  /\ lastTxLt \in 0..head
  /\ lastProcessedLt \in startTxLt..head
  /\ transactions \subseteq (startTxLt + 1)..head
  /\ pc \in Phases
  /\ gaps \subseteq [startLt : 0..head, endLt : 0..head]
  /\ lastLt \in 0..head
  /\ job \in [first : 0..head, next : 0..head, end : 0..head, fetched : 0..Batch]
  /\ lastIndexed \in 0..head
  /\ saves \in [1..MaxLt -> Nat]
  /\ faults \in 0..MaxFaults

Init ==
  /\ head \in Positions
  /\ created = FALSE
  /\ startTxLt = 0
  /\ lastTxLt = 0
  /\ lastProcessedLt = 0
  /\ transactions = {}
  /\ pc = "starting"
  /\ gaps = {}
  /\ lastLt = 0
  /\ job = NoJob
  /\ lastIndexed = 0
  /\ saves = [n \in 1..MaxLt |-> 0]
  /\ faults = 0

(* The process falls down and is started again: the tables stay, the       *)
(* memory of the workers is lost.                                          *)
Fall ==
  /\ pc' = "starting"
  /\ gaps' = {}
  /\ lastLt' = 0
  /\ job' = NoJob
  /\ lastIndexed' = 0

-----------------------------------------------------------------------------
(* The blockchain: the account takes part in one more transaction.         *)
NewTransaction ==
  /\ head < MaxLt
  /\ head' = head + 1
  /\ UNCHANGED <<row, transactions, pc, gaps, lastLt, job, lastIndexed, saves, faults>>

(* The account state a lite server returns may be any state the account    *)
(* has had: the servers of the pool are not synchronised (loader.go:116).  *)
ServedStates == 0..head

-----------------------------------------------------------------------------
(* Start-up.                                                               *)

(* getAccountsForTracking registers a new account; a is LastTransLt.       *)
CreateAccount(a) ==
  /\ pc = "starting"
  /\ ~created
  /\ created' = TRUE
  /\ startTxLt' = a
  /\ lastTxLt' = a
  /\ lastProcessedLt' = a
  /\ UNCHANGED <<head, transactions, pc, gaps, lastLt, job, lastIndexed, saves, faults>>

(* Mutant: the indexer starts from last_tx_lt.                             *)
TrackAccountFromLastTx ==
  /\ pc = "starting"
  /\ created
  /\ pc' = "boot"
  /\ lastIndexed' = lastTxLt
  /\ UNCHANGED <<head, row, transactions, gaps, lastLt, job, saves, faults>>

(* trackAccount reads last_processed_lt and starts both workers.           *)
TrackAccount ==
  /\ pc = "starting"
  /\ created
  /\ pc' = "boot"
  /\ lastIndexed' = lastProcessedLt
  /\ UNCHANGED <<head, row, transactions, gaps, lastLt, job, saves, faults>>

(* ... or fails to read it, which runIndexer logs and forgets.             *)
TrackAccountFails ==
  /\ pc = "starting"
  /\ created
  /\ pc' = "untracked"
  /\ UNCHANGED <<head, row, transactions, gaps, lastLt, job, lastIndexed, saves, faults>>

-----------------------------------------------------------------------------
(* The loader worker.                                                      *)

(* The newest stored transaction older than lt, 0 if there is none.        *)
NewestBelow(S, lt) == Max({x \in S : x < lt} \cup {0})

(* Mutant: holes are not looked for.                                       *)
GapsIgnored(S) == {}

(* GetGaps: one gap under every stored transaction whose predecessor       *)
(* exists and is not stored.                                               *)
MissingParents(S) == {p \in 1..MaxLt : p \notin S /\ p + 1 \in S}

GapsOf(S) ==
  {[startLt |-> p, endLt |-> NewestBelow(S, p)] : p \in MissingParents(S)}

LoadGaps ==
  /\ pc = "boot"
  /\ gaps' = GapsOf(transactions)
  /\ lastLt' = Max(transactions \cup {0})
  /\ pc' = "ready"
  /\ UNCHANGED <<head, row, transactions, job, lastIndexed, saves, faults>>

(* Mutant: it is not noticed that there is nothing to do.                  *)
SyncHistoryGapAlways(startLt, endLt) ==
  /\ pc' = "sync"
  /\ job' = [first |-> startLt, next |-> startLt,
             end |-> IF endLt < startTxLt THEN startTxLt ELSE endLt, fetched |-> 0]

(* syncHistoryGap up to its first GetTransactions: never deeper than       *)
(* maxDepthLt, and nothing to do (lastLt stays) when the ends meet.        *)
SyncHistoryGap(startLt, endLt) ==
  LET end == IF endLt < startTxLt THEN startTxLt ELSE endLt
  IN  IF startLt = end
      THEN UNCHANGED <<pc, job>>
      ELSE /\ pc' = "sync"
           /\ job' = [first |-> startLt, next |-> startLt, end |-> end, fetched |-> 0]

FillGap(g) ==
  /\ pc = "ready"
  /\ g \in gaps
  /\ gaps' = gaps \ {g}
  /\ SyncHistoryGap(g.startLt, g.endLt)
  /\ UNCHANGED <<head, row, transactions, lastLt, lastIndexed, saves, faults>>

(* refreshAccount, once every gap is filled; a is the LastTransLt served.  *)
RefreshAccount(a) ==
  /\ pc = "ready"
  /\ gaps = {}
  /\ a >= lastLt
  /\ lastTxLt' = a
  /\ SyncHistoryGap(a, lastLt)
  /\ UNCHANGED <<head, created, startTxLt, lastProcessedLt, transactions, gaps,
                 lastLt, lastIndexed, saves, faults>>

(* Mutant: the transaction at the end is not cut off.                      *)
GetTransactionsUncut(k) ==
  /\ pc = "sync"
  /\ job.fetched = 0
  /\ job.end + k <= job.next + 1
  /\ job' = [job EXCEPT !.fetched = k]
  /\ UNCHANGED <<head, row, transactions, pc, gaps, lastLt, lastIndexed, saves, faults>>

(* GetTransactions returns k > 0 of the transactions from job.next down,   *)
(* the ones at or below the end cut off.                                   *)
GetTransactions(k) ==
  /\ pc = "sync"
  /\ job.fetched = 0
  /\ job.end + k <= job.next
  /\ job' = [job EXCEPT !.fetched = k]
  /\ UNCHANGED <<head, row, transactions, pc, gaps, lastLt, lastIndexed, saves, faults>>

(* Mutant: the sync stops one transaction above the end.                   *)
SaveTransactionStopsEarly ==
  /\ pc = "sync"
  /\ job.fetched > 0
  /\ transactions' = transactions \cup {job.next}
  /\ IF job.fetched = 1 /\ job.next - 1 <= job.end + 1
     THEN /\ pc' = "ready"
          /\ lastLt' = job.first
          /\ job' = NoJob
     ELSE /\ job' = [job EXCEPT !.next = @ - 1, !.fetched = @ - 1]
          /\ UNCHANGED <<pc, lastLt>>
  /\ UNCHANGED <<head, row, gaps, lastIndexed, saves, faults>>

(* SaveTransactions inserts one of them. After the last one of the last    *)
(* call, syncHistoryGap sets lastLt to the position it started from.       *)
SaveTransaction ==
  /\ pc = "sync"
  /\ job.fetched > 0
  /\ transactions' = transactions \cup {job.next}
  /\ IF job.fetched = 1 /\ job.next - 1 <= job.end
     THEN /\ pc' = "ready"
          /\ lastLt' = job.first
          /\ job' = NoJob
     ELSE /\ job' = [job EXCEPT !.next = @ - 1, !.fetched = @ - 1]
          /\ UNCHANGED <<pc, lastLt>>
  /\ UNCHANGED <<head, row, gaps, lastIndexed, saves, faults>>

(* syncGapIteration finds no transaction above the end in 200 attempts and *)
(* refreshAccount panics: the process falls down and is started again.     *)
GiveUp ==
  /\ pc = "sync"
  /\ job.fetched = 0
  /\ job.next <= job.end
  /\ Fall
  /\ UNCHANGED <<head, row, transactions, saves, faults>>

-----------------------------------------------------------------------------
(* The indexer worker.                                                     *)

(* GetTransactionByParentLt(lastIndexed) finds a transaction.              *)
TransactionFound == pc \in Running /\ lastIndexed + 1 \in transactions

(* Mutant: last_processed_lt is not part of the commit.                    *)
CommitWithoutCursor ==
  /\ saves' = [saves EXCEPT ![lastIndexed + 1] = @ + 1]
  /\ UNCHANGED <<head, row, transactions, pc, gaps, lastLt, job>>

(* SavePayments commits the payments of the transaction together with      *)
(* last_processed_lt.                                                      *)
CommitPayments ==
  /\ lastProcessedLt' = lastIndexed + 1
  /\ saves' = [saves EXCEPT ![lastIndexed + 1] = @ + 1]
  /\ UNCHANGED <<head, created, startTxLt, lastTxLt, transactions, pc, gaps, lastLt, job>>

SavePayments ==
  /\ TransactionFound
  /\ CommitPayments
  /\ lastIndexed' = lastIndexed + 1
  /\ UNCHANGED faults

(* The commit succeeds and SavePayments returns an error all the same: a   *)
(* notification cannot be inserted or the answer to the commit is lost.    *)
(* The worker keeps lastIndexed and will find the same transaction.        *)
SavePaymentsFails ==
  /\ TransactionFound
  /\ faults < MaxFaults
  /\ CommitPayments
  /\ faults' = faults + 1
  /\ UNCHANGED lastIndexed

-----------------------------------------------------------------------------
(* Any other panic or a kill, at any moment.                               *)
Crash ==
  /\ faults < MaxFaults
  /\ faults' = faults + 1
  /\ Fall
  /\ UNCHANGED <<head, row, transactions, saves>>

Next ==
  \/ NewTransaction
  \/ \E a \in ServedStates : CreateAccount(a)
  \/ TrackAccount
  \/ TrackAccountFails
  \/ LoadGaps
  \/ \E g \in gaps : FillGap(g)
  \/ \E a \in ServedStates : RefreshAccount(a)
  \/ \E k \in 1..Batch : GetTransactions(k)
  \/ SaveTransaction
  \/ GiveUp
  \/ SavePayments
  \/ SavePaymentsFails
  \/ Crash

Spec == Init /\ [][Next]_vars

(***************************************************************************)
(* The workers loop for ever and retry what fails. The loader asks for the *)
(* account state every five seconds; that it gets the current one again    *)
(* and again, although any answer may be old, is the strong fairness.      *)
(***************************************************************************)
Fairness ==
  /\ WF_vars(\E a \in ServedStates : CreateAccount(a))
  /\ WF_vars(TrackAccount)
  /\ WF_vars(LoadGaps)
  /\ WF_vars(\E g \in gaps : FillGap(g))
  /\ SF_vars(RefreshAccount(head))
  /\ WF_vars(\E k \in 1..Batch : GetTransactions(k))
  /\ WF_vars(SaveTransaction)
  /\ WF_vars(GiveUp)
  /\ WF_vars(SavePayments)

FairSpec == Spec /\ Fairness

-----------------------------------------------------------------------------
(* Once the gaps found at start-up are filled, nothing is missing below    *)
(* lastLt, the depth at which the next refresh stops: a crash between two  *)
(* inserts of a batch (loader.go:98, newest first) leaves a hole that      *)
(* GetGaps finds and no refresh ever steps over.                           *)
NoHoleBelowLastLt ==
  pc = "ready" /\ gaps = {} => (startTxLt + 1)..lastLt \subseteq transactions

(* The indexer's memory and last_processed_lt drift apart by at most the   *)
(* one transaction whose SavePayments failed after its commit              *)
(* (indexer.go:54-61), every transaction below the cursor is stored and    *)
(* took effect at least once, and none above it did.                       *)
CursorMatchesEffects ==
  /\ (startTxLt + 1)..lastProcessedLt \subseteq transactions
  /\ \A n \in 1..MaxLt : saves[n] > 0 <=> startTxLt < n /\ n <= lastProcessedLt
  /\ pc \in Running =>
       /\ startTxLt <= lastIndexed
       /\ lastIndexed \in {lastProcessedLt, lastProcessedLt - 1}

(* A sync that has nothing left to fetch, which is what makes the loader   *)
(* panic, is one that an account state older than start_tx_lt has begun    *)
(* before anything was stored (loader.go:115-128): no hole, whatever crash *)
(* left it, and no retry ever ends like that.                              *)
PanicsOnlyBeforeFirst ==
  pc = "sync" /\ job.fetched = 0 /\ job.next <= job.end =>
    transactions = {} /\ job.first < startTxLt

(* The two workers together deliver the account's transactions to the      *)
(* payment code in order and without omission, and repeat only the newest. *)
F == INSTANCE Feed WITH tracked <- created, start <- startTxLt,
                        done <- lastProcessedLt, handed <- saves
FeedSpec == F!Spec

(* Every transaction after the start is processed in the end, whatever     *)
(* crashes, holes and old account states come in between, unless           *)
(* trackAccount failed (manager.go:75-78): then the account stays          *)
(* unwatched until the next restart.                                       *)
EventuallyProcessed ==
  \A n \in 1..MaxLt :
    created /\ startTxLt < n /\ n <= head
      ~> lastProcessedLt >= n \/ pc = "untracked"

(* loader.go:115-117 turns an older account state than the previous one    *)
(* into an error that is retried in five seconds, so a running sync always *)
(* has a transaction to fetch and never ends in a panic.                   *)
OlderStateIsRefused == pc = "sync" /\ job.fetched = 0 => job.next > job.end
=============================================================================
