----------------------------- MODULE Startup -----------------------------
(***************************************************************************)
(* The life of the process (cmd/api/main.go): the migration of the         *)
(* database (pkg/db/connection.go), the configured currencies, the block   *)
(* watcher, the registration of the accounts to watch                      *)
(* (cmd/api/accounts.go), their hand-over to the indexer, the API, and the *)
(* shutdown. The process can be killed at every point and is started again *)
(* by its supervisor; it can be stopped and deployed with other            *)
(* currencies.                                                             *)
(*                                                                         *)
(* One recipient. TON is always configured, and its account is the one     *)
(* extra currencies are paid to as well; each jetton has an account of its *)
(* own, the recipient's jetton wallet. So an account is named by its       *)
(* currency. A statement that fails ends the process like a kill.          *)
(***************************************************************************)
EXTENDS Naturals

CONSTANTS
  Ton,         \* the recipient's account
  Jettons,     \* the jettons that may be configured
  MaxLt,       \* bound on the transactions of an account
  MaxDeploys,  \* bound on deployments
  MaxFaults    \* bound on kills, failed statements and failed trackAccounts

Accounts == {Ton} \cup Jettons

ASSUME StartupAssumption ==
  /\ Ton \notin Jettons
  /\ MaxLt \in Nat
  /\ MaxDeploys \in Nat
  /\ MaxFaults \in Nat

VARIABLES
  migration,   \* schema_migrations: its row, "absent" or the dirty flag of it
  schema,      \* the tables of 0001_init exist
  currencies,  \* payments.currencies
  accounts,    \* blockchain.accounts
  startLt,     \* start_tx_lt of the accounts there are
  wallets,     \* payments.jetton_wallets
  pc,          \* where main is
  configured,  \* the configured currencies
  newAccounts, \* getAccountsForTracking: accounts that have no row yet
  toSend,      \* accounts not yet sent to accountsChan
  tracking,    \* the account runIndexer has received, in a set
  tracked,     \* accounts with a loader and an indexer
  failed,      \* accounts whose trackAccount has failed: only logged
  requests,    \* invoices that handlers are creating, by account
  stop,        \* a stop was asked for, or nothing was deployed yet
  head,        \* the chain: the last transaction of each account
  issued,      \* accounts for which an invoice has been created
  owed,        \* transactions of each account that pay an invoice
  deploys,     \* deployments so far
  faults       \* faults so far

database == <<migration, schema, currencies, accounts, startLt, wallets>>
start == <<configured, newAccounts, toSend>>
indexer == <<tracking, tracked, failed>>
chain == <<head, issued, owed>>
bounds == <<deploys, faults>>
vars == <<database, pc, start, indexer, requests, stop, chain, bounds>>

-----------------------------------------------------------------------------
Lts == 0..MaxLt
Migrating == {"read", "mark", "apply", "clean"}
Initialising == {"currencies", "watch", "select", "create", "send"}
Phases == {"down"} \cup Migrating \cup Initialising \cup {"serve", "drain"}

TypeOK ==
  /\ migration \in {"absent", "dirty", "clean"}
  /\ schema \in BOOLEAN
  /\ currencies \subseteq Accounts
  /\ accounts \subseteq currencies
  /\ startLt \in [Accounts -> Lts]
  /\ wallets = accounts \cap Jettons
  /\ pc \in Phases
  /\ configured \subseteq Accounts
  /\ newAccounts \subseteq configured
  /\ toSend \subseteq configured
  /\ tracking \subseteq configured
  /\ tracked \subseteq configured
  /\ failed \subseteq configured
  /\ requests \subseteq configured
  /\ stop \in BOOLEAN
  /\ head \in [Accounts -> Lts]
  /\ issued \subseteq Accounts
  /\ owed \in [Accounts -> SUBSET (1..MaxLt)]
  /\ deploys \in 0..MaxDeploys
  /\ faults \in 0..MaxFaults

Init ==
  /\ migration = "absent"
  /\ schema = FALSE
  /\ currencies = {}
  /\ accounts = {}
  /\ startLt = [a \in Accounts |-> 0]
  /\ wallets = {}
  /\ pc = "down"
  /\ configured = {}
  /\ newAccounts = {}
  /\ toSend = {}
  /\ tracking = {}
  /\ tracked = {}
  /\ failed = {}
  /\ requests = {}
  /\ stop = TRUE
  /\ head = [a \in Accounts |-> 0]
  /\ issued = {}
  /\ owed = [a \in Accounts |-> {}]
  /\ deploys = 0
  /\ faults = 0

-----------------------------------------------------------------------------
(* The end of the process: what is in memory is gone.                      *)
Ends ==
  /\ pc' = "down"
  /\ newAccounts' = {}
  /\ toSend' = {}
  /\ tracking' = {}
  /\ tracked' = {}
  /\ failed' = {}
  /\ requests' = {}
  /\ UNCHANGED configured

Fault == faults < MaxFaults /\ faults' = faults + 1

(* The operator deploys the service, with other jettons as the case may be;*)
(* the supervisor starts again what has ended without being told to.       *)
Deploy(jettons) ==
  /\ pc = "down" /\ stop
  /\ deploys < MaxDeploys
  /\ deploys' = deploys + 1
  /\ stop' = FALSE
  /\ configured' = {Ton} \cup jettons
  /\ pc' = "read"
  /\ UNCHANGED <<database, newAccounts, toSend, indexer, requests, chain, faults>>

Restart ==
  /\ pc = "down" /\ ~stop
  /\ pc' = "read"
  /\ UNCHANGED <<database, start, indexer, requests, stop, chain, bounds>>

Kill ==
  /\ pc # "down"
  /\ Fault
  /\ Ends
  /\ UNCHANGED <<database, stop, chain, deploys>>

-----------------------------------------------------------------------------
(* migrate, one statement after the other.                                 *)
ReadVersion ==
  /\ pc = "read"
  /\ migration # "dirty"
  /\ pc' = IF migration = "absent" THEN "mark" ELSE "currencies"
  /\ UNCHANGED <<database, start, indexer, requests, stop, chain, bounds>>

(* "database migration is dirty": the process ends.                        *)
RefuseDirty ==
  /\ pc = "read"
  /\ migration = "dirty"
  /\ Ends
  /\ UNCHANGED <<database, stop, chain, bounds>>

(* Mutant: the version is recorded as done before it is applied.           *)
MarkClean ==
  /\ pc = "mark"
  /\ migration' = "clean"
  /\ pc' = "apply"
  /\ UNCHANGED <<schema, currencies, accounts, startLt, wallets,
                 start, indexer, requests, stop, chain, bounds>>

MarkDirty ==
  /\ pc = "mark"
  /\ migration' = "dirty"
  /\ pc' = "apply"
  /\ UNCHANGED <<schema, currencies, accounts, startLt, wallets,
                 start, indexer, requests, stop, chain, bounds>>

(* 0001_init.up.sql is one database transaction and creates what must not  *)
(* exist yet.                                                              *)
ApplySchema ==
  /\ pc = "apply"
  /\ ~schema
  /\ schema' = TRUE
  /\ pc' = "clean"
  /\ UNCHANGED <<migration, currencies, accounts, startLt, wallets,
                 start, indexer, requests, stop, chain, bounds>>

Unmark ==
  /\ pc = "clean"
  /\ migration' = "clean"
  /\ pc' = "currencies"
  /\ UNCHANGED <<schema, currencies, accounts, startLt, wallets,
                 start, indexer, requests, stop, chain, bounds>>

-----------------------------------------------------------------------------
(* SaveCurrencies: one INSERT ... ON CONFLICT DO NOTHING each, in any      *)
(* order (a map).                                                          *)
SaveCurrency(c) ==
  /\ pc = "currencies"
  /\ c \in configured \ currencies
  /\ currencies' = currencies \cup {c}
  /\ UNCHANGED <<migration, schema, accounts, startLt, wallets,
                 pc, start, indexer, requests, stop, chain, bounds>>

CurrenciesSaved ==
  /\ pc = "currencies"
  /\ configured \subseteq currencies
  /\ pc' = "watch"
  /\ UNCHANGED <<database, start, indexer, requests, stop, chain, bounds>>

(* RunBlockWatcher waits for the first masterchain block, asking again     *)
(* until it has one; then the loops of the indexer and the notifier start. *)
FirstBlock ==
  /\ pc = "watch"
  /\ pc' = "select"
  /\ UNCHANGED <<database, start, indexer, requests, stop, chain, bounds>>

-----------------------------------------------------------------------------
(* GetTrackedAccounts: what is in the tables of what is configured.        *)
Known == {a \in configured : a \in accounts /\ (a \in Jettons => a \in wallets)}

(* Mutant: only the accounts that are new are handed over.                 *)
SelectNewAccounts ==
  /\ pc = "select"
  /\ newAccounts' = configured \ Known
  /\ toSend' = configured \ Known
  /\ pc' = "create"
  /\ UNCHANGED <<database, configured, indexer, requests, stop, chain, bounds>>

SelectAccounts ==
  /\ pc = "select"
  /\ newAccounts' = configured \ Known
  /\ toSend' = configured
  /\ pc' = "create"
  /\ UNCHANGED <<database, configured, indexer, requests, stop, chain, bounds>>

(* The start of tracking is the last transaction of the state that a lite  *)
(* server answers with; it can be an older one.                            *)
Registers(a, lt) ==
  /\ pc = "create"
  /\ a \in newAccounts
  /\ a \notin accounts
  /\ a \in Jettons => a \in currencies
  /\ lt <= head[a]
  /\ accounts' = accounts \cup {a}
  /\ startLt' = [startLt EXCEPT ![a] = lt]

(* Mutant: the two rows of a jetton account are inserted without a         *)
(* database transaction and the second insert may fail.                    *)
CreateAccountInParts(a, lt) ==
  /\ Registers(a, lt)
  /\ \/ /\ wallets' = wallets \cup ({a} \cap Jettons)
        /\ newAccounts' = newAccounts \ {a}
        /\ UNCHANGED <<pc, configured, toSend, indexer, requests, faults>>
     \/ Fault /\ Ends /\ UNCHANGED wallets
  /\ UNCHANGED <<migration, schema, currencies, stop, chain, deploys>>

CreateAccount(a, lt) ==
  /\ Registers(a, lt)
  /\ wallets' = wallets \cup ({a} \cap Jettons)
  /\ newAccounts' = newAccounts \ {a}
  /\ UNCHANGED <<migration, schema, currencies, pc, configured, toSend,
                 indexer, requests, stop, chain, bounds>>

(* Mutant: the accounts are handed over while some have no row yet.        *)
RegistersInBackground ==
  /\ pc = "create"
  /\ pc' = "send"
  /\ UNCHANGED <<database, start, indexer, requests, stop, chain, bounds>>

AccountsRegistered ==
  /\ pc = "create"
  /\ newAccounts = {}
  /\ pc' = "send"
  /\ UNCHANGED <<database, start, indexer, requests, stop, chain, bounds>>

-----------------------------------------------------------------------------
(* accountsChan has no buffer: main and runIndexer meet for each account,  *)
(* in any order (a map).                                                   *)
SendAccount(a) ==
  /\ pc = "send"
  /\ a \in toSend
  /\ tracking = {}
  /\ toSend' = toSend \ {a}
  /\ tracking' = {a}
  /\ UNCHANGED <<database, pc, configured, newAccounts, tracked, failed,
                 requests, stop, chain, bounds>>

TrackAccount(a) ==
  /\ a \in tracking
  /\ tracking' = {}
  /\ tracked' = tracked \cup {a}
  /\ UNCHANGED <<database, pc, start, failed, requests, stop, chain, bounds>>

(* The error of trackAccount is logged and the account is left out.        *)
TrackAccountFails(a) ==
  /\ a \in tracking
  /\ Fault
  /\ tracking' = {}
  /\ failed' = failed \cup {a}
  /\ UNCHANGED <<database, pc, start, tracked, requests, stop, chain, deploys>>

Serve ==
  /\ pc = "send"
  /\ toSend = {}
  /\ pc' = "serve"
  /\ UNCHANGED <<database, start, indexer, requests, stop, chain, bounds>>

-----------------------------------------------------------------------------
(* A handler that creates an invoice: it has been called, it answers.      *)
AcceptRequest(a) ==
  /\ pc = "serve"
  /\ a \in configured
  /\ requests' = requests \cup {a}
  /\ UNCHANGED <<database, pc, start, indexer, stop, chain, bounds>>

CreateInvoice(a) ==
  /\ a \in requests
  /\ requests' = requests \ {a}
  /\ issued' = issued \cup {a}
  /\ UNCHANGED <<database, pc, start, indexer, stop, head, owed, bounds>>

(* SIGTERM. During the initialisation it waits in the channel ch.          *)
Signal ==
  /\ pc # "down" /\ ~stop
  /\ stop' = TRUE
  /\ UNCHANGED <<database, pc, start, indexer, requests, chain, bounds>>

Shutdown ==
  /\ pc = "serve" /\ stop
  /\ pc' = "drain"
  /\ UNCHANGED <<database, start, indexer, requests, stop, chain, bounds>>

(* Mutant: main does not wait for the handlers.                            *)
ExitAtOnce ==
  /\ pc = "drain"
  /\ Ends
  /\ UNCHANGED <<database, stop, chain, bounds>>

(* Mutant: the workers of the accounts are in the wait group as well.      *)
ExitWhenWorkersEnd ==
  /\ pc = "drain"
  /\ requests = {} /\ tracked = {}
  /\ Ends
  /\ UNCHANGED <<database, stop, chain, bounds>>

(* srv.Shutdown waits for the handlers, the wait group for the loops that  *)
(* end with the context. Loaders and indexers are not waited for.          *)
Exit ==
  /\ pc = "drain"
  /\ requests = {}
  /\ Ends
  /\ UNCHANGED <<database, stop, chain, bounds>>

-----------------------------------------------------------------------------
(* The chain: transactions of the account, which may pay its invoices.     *)
Transfer(a) ==
  /\ head[a] < MaxLt
  /\ head' = [head EXCEPT ![a] = @ + 1]
  /\ UNCHANGED <<database, pc, start, indexer, requests, stop, issued, owed, bounds>>

Payment(a) ==
  /\ a \in issued
  /\ head[a] < MaxLt
  /\ head' = [head EXCEPT ![a] = @ + 1]
  /\ owed' = [owed EXCEPT ![a] = @ \cup {head[a] + 1}]
  /\ UNCHANGED <<database, pc, start, indexer, requests, stop, issued, bounds>>

Migrate == ReadVersion \/ RefuseDirty \/ MarkDirty \/ ApplySchema \/ Unmark

Initialise ==
  \/ \E c \in Accounts : SaveCurrency(c)
  \/ CurrenciesSaved
  \/ FirstBlock
  \/ SelectAccounts
  \/ \E a \in Accounts, lt \in Lts : CreateAccount(a, lt)
  \/ AccountsRegistered
  \/ \E a \in Accounts : SendAccount(a)
  \/ Serve

Next ==
  \/ \E jettons \in SUBSET Jettons : Deploy(jettons)
  \/ Restart
  \/ Kill
  \/ Migrate
  \/ Initialise
  \/ \E a \in Accounts : TrackAccount(a) \/ TrackAccountFails(a)
  \/ \E a \in Accounts : AcceptRequest(a) \/ CreateInvoice(a)
  \/ Signal
  \/ Shutdown
  \/ Exit
  \/ \E a \in Accounts : Transfer(a) \/ Payment(a)

Spec == Init /\ [][Next]_vars

(***************************************************************************)
(* The supervisor restarts what has ended (docker-compose.yml:27), the *)
(* process goes on with its start and, once told to, with its end, the     *)
(* database and in the end a lite server answer, and a handler ends.       *)
(***************************************************************************)
Fairness ==
  /\ WF_vars(Restart)
  /\ WF_vars(Migrate)
  /\ WF_vars(Initialise)
  /\ WF_vars(\E a \in Accounts : TrackAccount(a))
  /\ WF_vars(\E a \in Accounts : CreateInvoice(a))
  /\ WF_vars(Shutdown)
  /\ WF_vars(Exit)

FairSpec == Spec /\ Fairness

-----------------------------------------------------------------------------
(* Nothing is done with the tables before they are there, also when an     *)
(* earlier process was killed in the middle of the migration: what passes  *)
(* for migrated is migrated (connection.go:56, 82-98).                     *)
TablesBeforeUse ==
  /\ migration = "clean" => schema
  /\ pc \notin {"down"} \cup Migrating => migration = "clean"
  /\ currencies # {} => migration = "clean"

(* An account is registered before the first invoice that is paid to it    *)
(* can be created, and its start never moves, whatever is killed and       *)
(* deployed in between: every payment of an invoice is above the start and *)
(* will be indexed (accounts.go:48-70 of cmd/api, main.go:107-135).        *)
PaymentsAboveStart ==
  \A a \in Accounts : \A n \in owed[a] : a \in accounts /\ startLt[a] < n

(* A handler that was called before the signal has created its invoice     *)
(* when the process ends, unless it is killed (main.go:139).               *)
RequestsAreAnswered ==
  [][\A a \in requests : a \in requests' \/ a \in issued' \/ faults' > faults]_vars

(* Whatever is left by processes that were killed, the service starts in   *)
(* the end, but for one case: a migration that was interrupted must be     *)
(* repaired by hand (connection.go:56).                                    *)
EventuallyServes ==
  (~stop) ~> (pc = "serve" \/ stop \/ migration = "dirty")

(* A signal ends the process, also one that arrives while it initialises   *)
(* (main.go:56, 137-144).                                                  *)
StopsWhenAsked == stop ~> (pc = "down")

(* When the API is served every configured account has its workers or is   *)
(* the one they are being started for, be it registered by this process or *)
(* by an earlier one that was killed before it was handed over; what fails *)
(* is left out until the next start (accounts.go:11-72, manager.go:60-93). *)
AllHandedOver ==
  pc \in {"serve", "drain"} => configured = tracked \cup tracking \cup failed
=============================================================================
