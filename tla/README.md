# Spice Harvester: a verification development

Spice Harvester accepts payments in TON, jettons and extra currencies. A merchant
creates an invoice through the API, a buyer sends a transaction that carries the
invoice id, the service watches the merchant's accounts on the blockchain, matches
transactions with invoices in Postgres and notifies the merchant of every change of
status. This directory models that core in TLA+, checks it with TLC and proves its
main properties with TLAPS.

Paths below are relative to the repository; `pkg/db/invoices.go:307` is a line of it.

## 1. Inventory

### Components, their state and operations

| component | state | operations | modelled by |
|---|---|---|---|
| loader (`pkg/indexer/loader.go`), one goroutine per account | `lastLt`, the running sync; `blockchain.transactions` | `GetGaps` at start, `syncHistoryGap`, `refreshAccount` every 5 s | `TxSync` |
| indexer (`pkg/indexer/indexer.go`), one goroutine per account | `lastIndexed`; `accounts.last_processed_lt` | `GetTransactionByParentLt`, extract payments, `SavePayments` | `TxSync`, `Invoices` |
| manager (`pkg/indexer/manager.go`) | the two workers of each account | `trackAccount`; expiration every 5 s | `TxSync`, `Invoices` |
| registration (`cmd/api/accounts.go`, `pkg/db/accounts.go`) | `blockchain.accounts`, `blockchain.jetton_wallets` | `getAccountsForTracking`, `CreateAccount`, `UpdateAccount` | `Startup` (all accounts), `TxSync` (one) |
| invoices (`pkg/db/invoices.go`) | `payments.invoices`, `payments.invoice_notifications` | `CreateInvoice`, `CancelInvoice`, `MarkExpired`, `SavePayments`/`processPayment`; `GetInvoices` | `Invoices`, `Pool`, `History` |
| keys (`pkg/db/keys.go`) | `payments.keys` | commit, accept, expire | `Keys`, `Invoices` |
| API (`pkg/api/handlers.go`) | none | create, cancel, commit key; history; reads | `Invoices` (what writes), `History`, `Startup` (requests at a shutdown) |
| notifier, webhook (`pkg/notifier`, `pkg/webhook`) | the batch being sent | read up to 10 rows, send, delete; delete old rows | `Notifier` |
| blockchain client (`pkg/blockchain/client.go`) | last masterchain block | `GetTransactions`, `GetAccountState`, block watcher | `TxSync` (the two calls), `Startup` (the first block) |
| start, stop, migrations (`cmd/api/main.go`, `pkg/db/connection.go`) | `schema_migrations` | migrate, start everything, shut down | `Startup`; kill and restart are in `TxSync` and `Invoices` as well |
| connection pool (`pkg/db/connection.go`) | connections in use | `SavePayments` with one or two, everything else with one | `Pool` |
| currencies (`pkg/core`, `pkg/db/currencies.go`) | `payments.currencies` | `SaveCurrencies`, `getCurrencyID` | `Startup`, `Pool` (partly) |
| configuration (`internal/config`) | read once | the configured currencies, which a deployment changes | `Startup`, `History` (partly) |

The components talk through Postgres only. The loader fills the table of
transactions, the indexer reads it in the order of the chain and changes invoices,
the API and the expiration processor change the same invoices, and all of them insert
notifications for the notifier. There is no lock in the program: what excludes what is
decided by SQL statements and one database transaction, that of `SavePayments`.

### What is hard

* *Order.* The loader stores history from the newest transaction down, the indexer
  consumes it from the oldest up.
* *Crashes.* The program panics on purpose (`loader.go:35, 42, 128`) and relies on being
  restarted; batches are inserted row by row, so a restart meets half a batch.
* *Retries.* The indexer repeats a `SavePayments` that returned an error, also when
  its database transaction was committed.
* *Stale reads.* `processPayment` reads an invoice without a lock, decides, and updates by id;
  `CancelInvoice` and `MarkExpired` may come in between.
* *Non-atomic pairs.* A change of status and the insert of its notification are two statements.
* *Time.* In time is what is processed in time, not what is paid in time.
* *Old answers.* The lite servers are not synchronised.
* *A start made of many statements.* The migration marks itself dirty and is not one transaction; accounts
  are registered one by one with the state a lite server happens to give, and handed over through a
  channel without a buffer, while a handler may already be called or a signal arrive.
* *Visible order.* Pages of the history follow ids that are made before their rows are inserted.
* *A connection for a connection.* `SavePayments` holds one and `getCurrencyID` asks the pool for another.
* *Overflow.* A life time is multiplied into 64-bit nanoseconds.
* *Deletion by invoice.* The notifier sends what it has read and deletes whatever rows the
  invoice has by then.

`PROJECT.json` lists each hazard with its line and the properties aimed at it.

### What makes each component correct

* loader and indexer: every transaction after the registration of the account takes
  effect, in order, none skipped, repeated at most while it is the newest; old
  states and crashes delay it and no more.
* invoices: what an invoice accounts for is what was committed for it; paid means paid in
  full, in time, and for ever; cancelled and expired are final; every change is
  notified; nothing waits past its expiry.
* keys: accepted means confirmed by a payment of the owner.
* notifier: every notification reaches the merchant with the newest state; one bad
  invoice does not hold up the others.
* start-up: nothing runs on a half-made schema; an account is registered before anybody can pay to it and
  has its workers when the API is served; a signal ends the process, and no accepted request is lost.
* history: a merchant who reads page by page gets every invoice once, but for those inserted behind a page.
* pool: the process never waits for itself for ever.

## 2. Modules

* `Feed` is the abstract specification: `SavePayments` is given the transactions
  `start+1, start+2, ...` of an account in order; the newest may come again.
* `Ledger` is the abstract specification of the invoices as money: a book in which opening, cancelling and expiring an invoice,
  receiving a payment for it and settling it are one step each, and in which a payment that covers a waiting invoice in time
  has to settle it. It knows nothing of statements, workers, cursors or faults.
* `TxSync` is one account with its loader, its indexer, registration and restarts. It implements `Feed`.
* `Keys` is the table of encryption keys; its operations are conjuncts of the
  actions of `Invoices`.
* `Invoices` is one account's indexer at the granularity of SQL statements, the API
  handlers that write, and the expiration processor. It implements `Ledger`, with `Entry` as the mapping: the book shows an
  invoice's price, its expiry, its status and what the row accounts for (`overpayment`,
  and `amount` with it once paid). It implements `Feed` as well: `TxSync`
  takes `SavePayments` as a step, `Invoices` shows what the step is made of. The two
  halves meet in `Feed`: its `head`, `done` and `handed` are the chain, the cursor
  and the counter of commits in both.
* `Notifier` is the table of notifications seen from its reader: the notifier, the webhook
  client and the merchant, with the changes of invoices as environment. That a change may lose its
  row is the subject of `Invoices`; here every change inserts one, so that what is lost is lost by the notifier.
* `Startup` is the life of the process with all its accounts: migration, registration, hand-over,
  API, shutdown, killed and deployed again. Where it ends with `TrackAccount(a)` the account's `TxSync` begins,
  and `startLt` is the `startTxLt` of `TxSync`.
* `History` is the merchant paging through the invoices while handlers insert new ones.
* `Pool` is the pool of connections with the statements of `SavePayments` and of everybody else.
* `TxSyncProofs`, `InvoicesProofs`, `AccountingProofs`, `NotifierProofs`, `StartupProofs`, `HistoryProofs` and `PoolProofs`
  hold the theorems, `FiniteInduction` what `AccountingProofs` needs of sums over finite sets.

### How `TxSync` corresponds to the code

Logical times are positions: the transactions of the account are `1..head` and the
predecessor of `n` is `n-1`. The code compares lts and follows `prev_tx_lt` and does nothing
else with them. `created, startTxLt, lastTxLt, lastProcessedLt` are the row in
`blockchain.accounts`, `transactions` the stored positions, `lastLt` and `lastIndexed` the
fields of the two workers, `job` the local variables of the running `syncHistoryGap`: where it
began, what it fetches next, where it stops, and how many transactions of the last answer
are not yet inserted. `pc` is where the process is with the account.

| action | code |
|---|---|
| `CreateAccount(a)` | registration, `a` being the LastTransLt served |
| `TrackAccount`, `TrackAccountFails` | `trackAccount`, and its error, which is only logged |
| `LoadGaps` | `GetGaps` |
| `FillGap(g)`, `RefreshAccount(a)` | the two callers of `syncHistoryGap`, up to its first fetch |
| `GetTransactions(k)` | an answer of `k` transactions above the end, `1 <= k <= Batch` |
| `SaveTransaction` | one INSERT of `SaveTransactions`; the last one ends the sync |
| `GiveUp` | 200 attempts without a transaction, then the panic |
| `SavePayments`, `SavePaymentsFails` | one turn of the indexer; the second keeps `lastIndexed` |
| `Crash` | any other panic or kill |

A call of the blockchain that fails and is retried changes nothing and is a stutter;
one that fails 200 times ends like `Crash`.

### How `Invoices` corresponds to the code

A transaction is what the extraction makes of it: a payment, no payment (another currency,
failed, no invoice id), or a parsing error. `invoices` maps an id to its row or
`Absent`. `worker` is the call of `processPayment` that is running: `paying` between
its SELECT and its updates, `notifying` between the commit and the insert of the notification.
`inserts` are the handlers and the rounds of the expiration processor that are between their two statements.
`saves` is a ghost: how often the effects of each transaction were committed, `faults` counts faults and keeps their kinds.
`Duration` is the conversion of a life time with the width of the code's (`MaxDuration` stands for 2^63 ns).

| action | code |
|---|---|
| `CreateInvoice`, `CancelInvoice`, `CommitKey` | the first statement of the handlers |
| `MarkExpired`, `MarkExpiredFails` | `DeleteExpiredKeys` and the UPDATE of `MarkExpired`; the latter failing |
| `InsertNotification(i)`, `InsertNotificationFails(i)` | the second statement of each |
| `Skip` | `SavePayments` without a payment |
| `ReadInvoice` | `processPayment` up to its SELECT |
| `CommitPayment`, `CommitPaymentUnknown` | the updates and the commit, its answer being received or lost |
| `RollbackPayment` | an error before the commit |
| `NotifyPaid` | the insert after the commit, or its error |
| `Crash` | the process is killed and restarted at once |

Where steps are joined: `time.Now()` and the statement it is used in are one step in `CancelInvoice` and
`MarkExpired`, because a conditional UPDATE re-checks the status on the locked row and an older `now` only makes
its condition on `expire_at` err by the length of the call; the updates of `processPayment` and
the commit are one step, because the first update locks the row and the row lock is what the other writers wait for;
re-reading an invoice and inserting its notification are one step, because the model
keeps of a notification only which change it is for and `updated_at`.

### How `Notifier` corresponds to the code

An invoice is reduced to `version`, the number of changes of status it has seen, and the merchant to `known`,
the version it last received. `unread` and `batch` are the two slices of
`GetInvoiceNotifications` (ids selected, invoices read), `sent` tells that `notify` is between
`Send` and `DeleteInvoiceNotification`. Two ghosts say why a merchant may be behind: `dropped` are invoices that lost a row
by its age, `overtaken` those that changed between the read and the deletion; a delivery of the present state ends both.

| action | code |
|---|---|
| `Change(id)`, `Insert(c, at)` | a change of status and the insert of its row, by any other component |
| `SelectRows` | the SELECT of `GetInvoiceNotifications`; `Answers` are the results SQL allows, ties included |
| `ReadInvoice` | one `GetInvoice` of `getInvoicesByIDs` |
| `PassOver` | `ConvertInvoiceToPrintablePrivate` fails, the row stays |
| `Send`, `SendFails` | the three attempts of `Client.Send`: success, or an error with or without a delivery |
| `Delete`, `DeleteFails`, `ReadFails` | `DeleteInvoiceNotification`, and errors of the statements |
| `DeleteOld(at)` | `DeleteOldNotifications` |

`Insert` takes any `updated_at`: the clock is read before the change, `CancelInvoice` and `MarkExpired` read the
invoice again before the insert, so rows need not follow the order of the changes. A merchant is
assumed to have handled a request by the time its client gives it up.

### How `Startup` corresponds to the code

One recipient; the account of a jetton is named by the jetton, so that `GetJettonWallet` is its name. `pc` is where
`main` is, `tracking` the account `runIndexer` has received and not yet finished with, `stop` that a signal
came or nothing was deployed. `head`, `issued`, `owed` are the environment: the chain, and which
transactions pay an invoice that exists.

| action | code |
|---|---|
| `Deploy(jettons)`, `Restart`, `Kill` | the operator, the supervisor, any panic or kill |
| `ReadVersion`, `RefuseDirty`, `MarkDirty`, `ApplySchema`, `Unmark` | `migrate`: the version, the error on a dirty one, and the three statements |
| `SaveCurrency(c)`, `CurrenciesSaved` | `SaveCurrencies`, one INSERT each |
| `FirstBlock` | `RunBlockWatcher` up to its first block |
| `SelectAccounts` | `GetTrackedAccounts` and what `getAccountsForTracking` makes of it |
| `CreateAccount(a, lt)`, `AccountsRegistered` | `CreateAccount` with the account state served, both rows of a jetton in one transaction |
| `SendAccount(a)`, `TrackAccount(a)`, `TrackAccountFails(a)` | the send on `accountsChan`, and `trackAccount` |
| `Serve`, `AcceptRequest(a)`, `CreateInvoice(a)` | the server starts, a handler is called, its INSERT is done |
| `Signal`, `Shutdown`, `Exit` | SIGTERM, its receipt, the end after `srv.Shutdown` and the wait group |
| `Transfer(a)`, `Payment(a)` | transactions on the chain |

A statement that fails during the start ends the process with `log.Fatal` and is the same as `Kill`.

### How `History` corresponds to the code

Ids are `1, 2, ...` in the order in which `uuid.NewV7` makes them. `creating` are the handlers between making the id and the INSERT,
`page` is the result of the SELECT of a running request, `after` and `got` are the merchant's. `passed` and `missed` are ghosts:
ids without a row that a page went past.

| action | code |
|---|---|
| `NewInvoiceID`, `CreateInvoice(id)`, `CreateInvoiceFails(id)` | `convertNewInvoice`, the INSERT, its failure |
| `Deploy(without)` | a process with other currencies: handlers are gone, some invoices cannot be printed |
| `GetInvoices` | `WHERE id > after ORDER BY id LIMIT` |
| `Answer`, `AnswerFails` | the whole page printed and received; one invoice that fails, a failed statement or a lost answer |

### How `Pool` corresponds to the code

Workers go through `SavePayments`: `"begin"` waits for the connection of the transaction, `"open"` has it, `"second"`
waits inside `getCurrencyID`, `"read"` has both; `"wait"` and `"use"` are any statement of its own. `held` are the connections in use.

| action | code |
|---|---|
| `Acquire(u)` | the pool gives a free connection to one that waits |
| `SavePayments(w, n)` | `Begin` for a transaction with `n` payments |
| `GetCurrencyID(w)`, `WritePayment(w)` | the query of the pool inside `processPayment`, and what follows it |
| `Commit(w)` | the commit; the insert of a notification may follow |
| `TimeOut(w)` | the ten seconds of the worker's context are over while it waits |
| `Statement(c)`, `StatementEnds(u)` | any other use of the pool |

## 3. Runs

All pass unless marked *violated*; those belong to a finding of `PROJECT.json`.

| run | instance | shows |
|---|---|---|
| `txsync` | 5 transactions, batches of at most 2, 3 faults | types, `NoHoleBelowLastLt`, `CursorMatchesEffects`, `PanicsOnlyBeforeFirst`, `Feed`, `EventuallyProcessed` |
| `txsync_older_state` | 2 transactions, no fault | *violated*: an old state of a fresh account is not refused and ends in a panic |
| `invoices` | 1 invoice, life times 1 and 3 (which wraps to -1), 2 payers, 2 transactions, amounts 1..2, time 0..2, 1 fault of any kind | types, `Accounting`, `PaidInTime`, `AcceptedKeysHavePaid`, `CommittedOnce`, `PaidIsFinal`, `ClosedUnlessOvertaken`, `Feed`, `Ledger` |
| `invoices_restarts` | 3 transactions, 2 rollbacks or kills | `CreditedOnce`, `ChangesNoticed`, `EventuallyClosed` |
| `invoices_closed` | no fault | *violated*: a cancelled invoice becomes paid |
| `invoices_repeated` | 1 failed insert of a notification | *violated*: one payment is credited twice |
| `invoices_unnoticed` | 1 kill | *violated*: a cancellation is never notified |
| `notifier` | 2 invoices, one not printable, 2 changes each, batches of 3, 2 failures | types, `NotForgotten`, `OnlyOvertakenUninformed`, `NeverGoesBack`, `RowsAreDealtWith` |
| `notifier_race` | 1 invoice, 2 changes, no failure | *violated*: a change is deleted unsent |
| `startup` | TON and 1 jetton, 2 transactions each, 2 deployments, 2 kills or failures | types, `TablesBeforeUse`, `PaymentsAboveStart`, `AllHandedOver`, `RequestsAreAnswered`, `EventuallyServes`, `StopsWhenAsked` |
| `history` | 5 invoices, pages of 2, 2 deployments, 2 failures | types, `OnlyOvertakenMissed`, `NeverRepeated`, `EventuallyReceived` |
| `pool` | 3 workers, 1 other user, 1 to 4 connections, 2 payments in a transaction | types, `NeverStalled`, `StallEnds`, `PaymentsWritten` |

### Bounds and why they suffice

* `MaxLt = 5`, `Batch = 2`, `MaxFaults = 3` in `txsync`: a sync needs three fetches, can be
  interrupted in the first, in the middle and in the last, a restart can find two holes at once and be
  interrupted while filling them. The proofs hold for every value.
* One invoice in `Invoices`: no action relates two invoices but `MarkExpired`, which treats each
  on its own; the proofs are for any set. Two payers, one of whom commits a key, are
  needed to tell whose key a payment accepts.
* Amounts 1..2 with two transactions give exact payment, payment in parts, overpayment
  and repeated payment. Time 0..2 with `expireAt = 1` gives before, at and after the deadline; an
  invoice may not be given an `expireAt` the clock cannot pass. With `MaxDuration = 2` a life time of 3 wraps around to -1, so
  that at time 1 or later an invoice can be made that is overdue when it appears.
* `Faults` names the kinds of fault a run considers and `MaxFaults` how many happen.
* `Limit = 3` in `notifier` is one more than the rows that cannot be converted and less than all rows: the batch is
  full, leaves rows out, and holds several rows of one invoice. With as many unprintable rows as `Limit`
  (ten in the code) they fill every batch and `RowsAreDealtWith` fails until `DeleteOld` removes them; the mutant of
  that property shows it.
* `startup`: two accounts show the order of registration and hand-over, one of them being new after an
  earlier start; two deployments add or remove the jetton; two kills hit the same start twice, and any two statements.
* `history`: pages of 2 of 5 invoices give three pages, so that a page can pass one or several ids and the next ones go on from there.
* `pool`: with three workers, sizes 1 to 3 can stall and size 4 cannot; `size` is a variable
  that never changes, so one run has both sides of the condition.
* Deadlock is checked in `pool` only. Elsewhere, with the bounds on time and transactions reached there
  is nothing left to do, an account whose `trackAccount` failed really stops, and a stopped process need not be deployed again.

### Fairness

* `TxSync!Fairness`: the workers are endless loops that retry, and the process is restarted by its
  supervisor (`docker-compose.yml:27`), hence weak fairness of each of their steps. Lite servers may
  answer with an old state any number of times; that they give the current one again and again
  is strong fairness of `RefreshAccount(head)`. Faults, new transactions and
  `TrackAccountFails` are not fair.
* `Invoices!Fairness`: time passes, the expiration processor wakes up, the indexer retries,
  a started handler ends. Nobody has to call the API or to pay.
* `Notifier!Fairness`: the loop goes on for ever, a change inserts its row, and as failures are bounded the merchant's
  server answers in the end. A server that refuses one invoice for ever holds up all others, since
  every error sends the loop back to the oldest row.
* `Startup!Fairness`: the supervisor restarts what ended unasked, `main` goes on (lite servers and the database answer in the end,
  each call being repeated or ending the process), `trackAccount` and the handlers end. `EventuallyServes` leaves out
  the dirty migration, which the code refuses for ever, and `StopsWhenAsked` needs that the first block arrives: a signal
  during the initialisation is only received after it.
* `History!Fairness`: the merchant goes on asking and requests end; no fairness for the creation of invoices.
* `Pool!Fairness`: pgxpool serves those who wait in the order they came, hence strong fairness of each `Acquire`. Statements end. `TimeOut` is
  enabled only when no connection can come back by itself, because ten seconds are much longer than a
  statement: a time-out of a slow statement is the `"rollback"` of `Invoices`. `StallEnds` says that a stall is broken, not that the workers
  that repeat their transactions do not stall again: with no more connections than workers that can go on, and
  `PaymentsWritten` therefore supposes one more.

## 4. Proofs

Everything is proved for all values of the constants under the assumption of each module (`TxSyncAssumption`,
`InvoicesAssumption`, `NotifierAssumption`, `StartupAssumption`, `HistoryAssumption`, `PoolAssumption`). They give the constants
their types; besides, TON is no jetton, and the users of the pool are finitely many, no worker being a client.

`TxSyncProofs` (`Invariance`, then `TypeCorrect`, `NoHole`, `CursorCorrect`, `PanicsOnlyEarly`, `ImplementsFeed`).
`NoHoleBelowLastLt` is not inductive: it says nothing while gaps are being filled. The
inductive invariant describes the shape of the stored set. At rest it is an interval from the
start of tracking up to `lastLt`, or one hole under one interval, never more, because
everything after a start fills the hole before anything new is fetched; while a sync runs
there is the interval below its end and the one it has stored from the top.
`OneHoleGaps` computes what `GetGaps` returns for such a set, `JoinIntervals` what becomes of it when the
last transaction is inserted, and one lemma per action (`LoadGapsShape`, `FillGapShape`,
`RefreshShape`, `SaveTransactionShape`) shows that the shape is kept. With it, the cursor facts and the types are
inductive, and `FeedStep` maps each step to a step of `Feed` or a stutter. `PanicsOnlyEarly` is the other side of the finding
`txsync_older_state`: a sync that will find nothing was begun by an old account state before anything was stored, since
every other sync starts above its end (`GapIsHoleOrNothing`) and comes down by what it fetched (`DownwardsStep`).

`InvoicesProofs` (`Invariance`, then `TypeCorrect`, `InTime`, `KeysHavePaid`, `PaidStays`,
`ClosedStays`, `ImplementsFeed`, `ExactlyOnce`, `AllNoticed`). The heart is `ReadIsUsable`: what `processPayment` has read may be
old, but amount, `expire_at` and overpayment are still those of the row, a row that is paid
was read as paid, and one that is still waiting was read as waiting. This is why the unlocked read is harmless for money and for paid invoices,
and what is missing from it (the status is *not* still the same) is exactly the finding `invoices_closed`. `RowStep`
lists the four ways a step may treat a row (keep, create, close, pay); the action properties
follow from it without going through the actions again. `ExactlyOnce` counts commits, without the amounts:
its strengthening `Unrepeated` adds where the worker is when cursor and memory differ, which only an error
after a commit can bring about. `AllNoticed` holds as long as nothing but rollbacks happened; `NoticedStays` shows that
a notification which is there or on its way does not get lost, `NewIsNoticed` that every change brings one.

`AccountingProofs` (`BooksBalance`, `PaymentsCreditedOnce`, `ImplementsLedger`). `Accounting` is a sum over all transactions, weighted
with the number of commits of each. The library's induction theorems take an operator as a parameter, which the provers cannot
instantiate, so `FiniteInduction` argues with the smallest counterexample instead: of two families that disagree on
some finite set there is a smallest such set, and taking one element away leads to a contradiction. It gives what is needed: a sum
does not change when no term does, and grows by what one term grows (and nothing about the order of summation is assumed). With these, a step that commits nothing leaves both sides of the
equation alone, and a commit adds one amount to each; that the write adds it to the row that was read is `ReadIsUsable`.
`PaymentsCreditedOnce` follows from `BooksBalance` and `ExactlyOnce`: where every number of commits is 0 or 1, according to the cursor, the
weighted sum is the plain one. `ImplementsLedger` goes action by action through `Entry`; only a commit is interesting: `DecisionIsRight` shows that what
`processPayment` decided on what it had read is what the book decides, except that it may settle what was closed in between,
which `Ledger!Settle` allows.

`NotifierProofs` (`Invariance`, then `TypeCorrect`, `NoneForgotten`, `OthersInformed`, `NeverBack`). `NeverGoesBack` needs
`InOrder`: what the merchant knows, the batch from head to end and the invoice itself are
ordered, for each invoice, because invoices are read after the selection and in the order in which
they are sent. `NotForgotten` needs `SentIsKnown`, since the deletion trusts that the head of the batch was sent, and
that every row is for a change that was made, so that what is read is never version 0. `OnlyOvertakenUninformed` bounds the finding
`notifier_race` from above: it needs `ReadIsCurrent`, that whatever is in the batch is the invoice as it is or is marked as overtaken,
also when the merchant has just caught up through an earlier entry of the same invoice (then all later ones are as new, by `InOrder`).

`StartupProofs` (`Invariance`, then `TypeCorrect`, `TablesReady`, `NoPaymentBelowStart`, `HandedOver`, `RequestsAnswered`).
None of the properties is inductive. The invariant says for each place of `main` what must be in the
database and in memory by then, and what stays true when the process is killed there: an account for which an invoice
exists is registered, and what is still to be sent, tracked or failed makes up what is configured.

`HistoryProofs` (`Invariance`, then `TypeCorrect`, `NothingElseMissed`, `NoRepetition`). The invariant adds
that an id still to be inserted behind the merchant is counted as missed already (`Behind`), the same for the page in flight
(`BehindPage`), and that a page takes every invoice up to its last (`PageWithoutHole`, from `ORDER BY ... LIMIT`).

`PoolProofs` (`Invariance`, then `TypeCorrect`, `NoStall`, `StallIsBreakable`). The connections in use are exactly those of the phases the users are in; in a stall each is
the first one of a worker that waits for its second, so there are at most as many as workers. `StallIsBreakable` is the part of `StallEnds` that needs no fairness: in every stall some worker holds a
connection and waits under a context that ends, and its end alone leaves a connection free.

Only model-checked: the liveness properties (`EventuallyProcessed`, `EventuallyClosed`, `RowsAreDealtWith`, `EventuallyServes`,
`StopsWhenAsked`, `EventuallyReceived`, `StallEnds`, `PaymentsWritten`), which rest on fairness and therefore on ENABLED, which the
prover does not handle. Every invariant, action property and refinement of a passing run is proved. Before proving, TLC checked every inductive
invariant on the instances above.

## 5. Not modelled

* The payment page (`pkg/api/static`). The repository has the generated bundle only: the page's own code is one minified
  line behind 1281 lines of React, TonConnect and ton-core, whose behaviour is not this project's. It keeps no state the
  service depends on and is a demonstration (README.md:171).
* Decoding of messages, printed formats, links, payload cells, key derivation, and parsing of configuration and requests: sequential
  conversions without state. The models start from their outcomes (a payment, none, a parsing error; printable or not).
* Authentication keeps no state. Proofs of account states and get methods are the client library's.
* A clock that steps back between two processes: ids in `History` are made in
  increasing order, which UUIDv7 promises within a process only.
* Several processes at a time. `docker-compose.yml` runs one container, and the deployment replaces it.
* Two accounts writing one invoice: an invoice has one currency and is paid through one account.

What the models say about the program that a reader may not expect: in time means processed in time, so an invoice that was paid before
`expire_at` expires when the indexer lags behind; a signal during the initialisation waits for it to end; a merchant who pages through the history
misses what was inserted behind a page, and has to ask again from further back.

## 6. What is left

1. `Invoices` and `Notifier` on one table, with the lost row of the one and the race of the other; as
   abstract specification the merchant's view, which moves forward to states the invoice has had. Today the two meet in the
   assumption of `Notifier` that each change inserts a row, which `AllNoticed` proves short of a kill or a failed insert.
2. The parts of the other liveness properties that do not need fairness, as `StallIsBreakable` is for `StallEnds`.
3. A second account in `TxSync`, once two accounts share state there; now they share the database's connections only, which is `Pool`.
