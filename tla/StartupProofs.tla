-------------------------- MODULE StartupProofs --------------------------
(***************************************************************************)
(* What is proved of the start and the end of the process, for any         *)
(* jettons and any number of kills and deployments.                        *)
(***************************************************************************)
EXTENDS Startup, TLAPS

(* What the statements of migrate leave for the next one, and that nothing *)
(* is stored before the last one.                                          *)
MigrationInOrder ==
  /\ pc = "mark" => migration = "absent"
  /\ pc = "apply" => migration = "dirty"
  /\ pc = "clean" => schema

(* How far the registration of the configured accounts has come.           *)
Running == {"serve", "drain"}
RegistrationInOrder ==
  /\ pc \in {"watch", "select", "create", "send"} \cup Running => configured \subseteq currencies
  /\ pc = "create" => configured \subseteq accounts \cup newAccounts
  /\ pc \in {"send"} \cup Running => configured \subseteq accounts
  /\ pc = "create" => toSend = configured
  /\ pc = "send" => configured = toSend \cup tracking \cup tracked \cup failed

(* What is in memory belongs to a process that has got so far.             *)
MemoryInUse ==
  /\ pc = "down" => newAccounts = {} /\ toSend = {} /\ tracking = {}
                    /\ tracked = {} /\ failed = {}
  /\ requests # {} => pc \in Running
  /\ \A a, b \in tracking : a = b

(* The start of an account is behind the chain, and invoices are for       *)
(* accounts that have a start.                                             *)
StartBehindHead ==
  /\ issued \subseteq accounts
  /\ \A a \in accounts : startLt[a] <= head[a]

IInv ==
  /\ TypeOK
  /\ MigrationInOrder
  /\ RegistrationInOrder
  /\ MemoryInUse
  /\ StartBehindHead
  /\ TablesBeforeUse
  /\ PaymentsAboveStart
  /\ AllHandedOver

-----------------------------------------------------------------------------
(* The invariant holds when nothing has been deployed yet.                 *)
LEMMA InitHolds == StartupAssumption /\ Init => IInv
<1> SUFFICES ASSUME StartupAssumption, Init PROVE IInv
  OBVIOUS
<1>1. 0 \in Lts /\ 0 \in 0..MaxDeploys /\ 0 \in 0..MaxFaults
  BY DEF StartupAssumption, Lts
<1>2. TypeOK
  BY <1>1 DEF Init, TypeOK, Phases
<1>3. MigrationInOrder /\ RegistrationInOrder /\ MemoryInUse
  BY DEF Init, MigrationInOrder, RegistrationInOrder, MemoryInUse, Running
<1>4. StartBehindHead /\ TablesBeforeUse /\ PaymentsAboveStart /\ AllHandedOver
  BY DEF Init, StartBehindHead, TablesBeforeUse, PaymentsAboveStart, AllHandedOver
<1> QED
  BY <1>2, <1>3, <1>4 DEF IInv

(* Types: what belongs to the configuration changes with it only when      *)
(* nothing of it is in memory.                                             *)
LEMMA TypeStep ==
  ASSUME StartupAssumption, IInv, [Next]_vars
  PROVE  TypeOK'
<1> USE StartupAssumption DEF IInv, database, start, indexer, chain, bounds, TypeOK, MemoryInUse,
          RegistrationInOrder, Running, Phases, Migrating, Initialising, Lts,
          Accounts
<1>1. CASE Restart
  BY <1>1 DEF Restart
<1>2. CASE Kill
  BY <1>2 DEF Kill, Fault, Ends
<1>3. CASE ReadVersion
  BY <1>3 DEF ReadVersion
<1>4. CASE RefuseDirty
  BY <1>4 DEF RefuseDirty, Ends
<1>5. CASE MarkDirty
  BY <1>5 DEF MarkDirty
<1>6. CASE ApplySchema
  BY <1>6 DEF ApplySchema
<1>7. CASE Unmark
  BY <1>7 DEF Unmark
<1>8. CASE CurrenciesSaved
  BY <1>8 DEF CurrenciesSaved
<1>9. CASE FirstBlock
  BY <1>9 DEF FirstBlock
<1>10. CASE SelectAccounts
  BY <1>10 DEF SelectAccounts
<1>11. CASE AccountsRegistered
  BY <1>11 DEF AccountsRegistered
<1>12. CASE Serve
  BY <1>12 DEF Serve
<1>13. CASE Signal
  BY <1>13 DEF Signal
<1>14. CASE Shutdown
  BY <1>14 DEF Shutdown
<1>15. CASE Exit
  BY <1>15 DEF Exit, Ends
<1>16. ASSUME NEW jettons \in SUBSET Jettons, Deploy(jettons)
       PROVE  TypeOK'
  <2>1. /\ newAccounts = {} /\ toSend = {} /\ tracking = {}
        /\ tracked = {} /\ failed = {} /\ requests = {}
    BY <1>16 DEF Deploy
  <2>2. configured' \subseteq Accounts /\ deploys' \in 0..MaxDeploys
    BY <1>16 DEF Deploy, StartupAssumption
  <2> QED
    BY <1>16, <2>1, <2>2 DEF Deploy
<1>17. ASSUME NEW c \in Accounts, SaveCurrency(c)
       PROVE  TypeOK'
  BY <1>17 DEF SaveCurrency
<1>18. ASSUME NEW a \in Accounts, NEW lt \in Lts, CreateAccount(a, lt)
       PROVE  TypeOK'
  BY <1>18 DEF CreateAccount, Registers
<1>19. ASSUME NEW a \in Accounts, SendAccount(a)
       PROVE  TypeOK'
  BY <1>19 DEF SendAccount
<1>20. ASSUME NEW a \in Accounts, TrackAccount(a)
       PROVE  TypeOK'
  BY <1>20 DEF TrackAccount
<1>21. ASSUME NEW a \in Accounts, TrackAccountFails(a)
       PROVE  TypeOK'
  BY <1>21 DEF TrackAccountFails, Fault
<1>22. ASSUME NEW a \in Accounts, AcceptRequest(a)
       PROVE  TypeOK'
  BY <1>22 DEF AcceptRequest
<1>23. ASSUME NEW a \in Accounts, CreateInvoice(a)
       PROVE  TypeOK'
  BY <1>23 DEF CreateInvoice
<1>24. ASSUME NEW a \in Accounts, Transfer(a)
       PROVE  TypeOK'
  BY <1>24 DEF Transfer
<1>25. ASSUME NEW a \in Accounts, Payment(a)
       PROVE  TypeOK'
  BY <1>25 DEF Payment
<1>26. CASE UNCHANGED vars
  BY <1>26 DEF vars
<1> QED
  BY <1>1, <1>2, <1>3, <1>4, <1>5, <1>6, <1>7, <1>8, <1>9, <1>10, <1>11, <1>12, <1>13, <1>14,
     <1>15, <1>16, <1>17, <1>18, <1>19, <1>20, <1>21, <1>22, <1>23, <1>24, <1>25, <1>26 DEF Next, Migrate, Initialise

(* The migration: a version is marked clean by the process that has        *)
(* applied it.                                                             *)
LEMMA MigrationStep ==
  ASSUME StartupAssumption, IInv, [Next]_vars
  PROVE  MigrationInOrder' /\ TablesBeforeUse'
<1> USE StartupAssumption DEF IInv, database, start, indexer, chain, bounds, TypeOK, MigrationInOrder,
          TablesBeforeUse, Phases, Migrating, Initialising
<1>1. CASE Restart
  BY <1>1 DEF Restart
<1>2. CASE Kill
  BY <1>2 DEF Kill, Fault, Ends
<1>3. CASE ReadVersion
  BY <1>3 DEF ReadVersion
<1>4. CASE RefuseDirty
  BY <1>4 DEF RefuseDirty, Ends
<1>5. CASE MarkDirty
  BY <1>5 DEF MarkDirty
<1>6. CASE ApplySchema
  BY <1>6 DEF ApplySchema
<1>7. CASE Unmark
  BY <1>7 DEF Unmark
<1>8. CASE CurrenciesSaved
  BY <1>8 DEF CurrenciesSaved
<1>9. CASE FirstBlock
  BY <1>9 DEF FirstBlock
<1>10. CASE SelectAccounts
  BY <1>10 DEF SelectAccounts
<1>11. CASE AccountsRegistered
  BY <1>11 DEF AccountsRegistered
<1>12. CASE Serve
  BY <1>12 DEF Serve
<1>13. CASE Signal
  BY <1>13 DEF Signal
<1>14. CASE Shutdown
  BY <1>14 DEF Shutdown
<1>15. CASE Exit
  BY <1>15 DEF Exit, Ends
<1>16. ASSUME NEW jettons \in SUBSET Jettons, Deploy(jettons)
       PROVE  MigrationInOrder' /\ TablesBeforeUse'
  BY <1>16 DEF Deploy
<1>17. ASSUME NEW c \in Accounts, SaveCurrency(c)
       PROVE  MigrationInOrder' /\ TablesBeforeUse'
  BY <1>17 DEF SaveCurrency
<1>18. ASSUME NEW a \in Accounts, NEW lt \in Lts, CreateAccount(a, lt)
       PROVE  MigrationInOrder' /\ TablesBeforeUse'
  BY <1>18 DEF CreateAccount, Registers
<1>19. ASSUME NEW a \in Accounts, SendAccount(a)
       PROVE  MigrationInOrder' /\ TablesBeforeUse'
  BY <1>19 DEF SendAccount
<1>20. ASSUME NEW a \in Accounts, TrackAccount(a)
       PROVE  MigrationInOrder' /\ TablesBeforeUse'
  BY <1>20 DEF TrackAccount
<1>21. ASSUME NEW a \in Accounts, TrackAccountFails(a)
       PROVE  MigrationInOrder' /\ TablesBeforeUse'
  BY <1>21 DEF TrackAccountFails, Fault
<1>22. ASSUME NEW a \in Accounts, AcceptRequest(a)
       PROVE  MigrationInOrder' /\ TablesBeforeUse'
  BY <1>22 DEF AcceptRequest
<1>23. ASSUME NEW a \in Accounts, CreateInvoice(a)
       PROVE  MigrationInOrder' /\ TablesBeforeUse'
  BY <1>23 DEF CreateInvoice
<1>24. ASSUME NEW a \in Accounts, Transfer(a)
       PROVE  MigrationInOrder' /\ TablesBeforeUse'
  BY <1>24 DEF Transfer
<1>25. ASSUME NEW a \in Accounts, Payment(a)
       PROVE  MigrationInOrder' /\ TablesBeforeUse'
  BY <1>25 DEF Payment
<1>26. CASE UNCHANGED vars
  BY <1>26 DEF vars
<1> QED
  BY <1>1, <1>2, <1>3, <1>4, <1>5, <1>6, <1>7, <1>8, <1>9, <1>10, <1>11, <1>12, <1>13, <1>14,
     <1>15, <1>16, <1>17, <1>18, <1>19, <1>20, <1>21, <1>22, <1>23, <1>24, <1>25, <1>26 DEF Next, Migrate, Initialise

(* Registration and hand-over.                                             *)
LEMMA RegistrationStep ==
  ASSUME StartupAssumption, IInv, [Next]_vars
  PROVE  RegistrationInOrder' /\ MemoryInUse' /\ AllHandedOver'
<1> USE StartupAssumption DEF IInv, database, start, indexer, chain, bounds, TypeOK, RegistrationInOrder,
          MemoryInUse, AllHandedOver, Running, Known, Phases, Migrating,
          Initialising
<1>1. CASE Restart
  BY <1>1 DEF Restart
<1>2. CASE Kill
  BY <1>2 DEF Kill, Fault, Ends
<1>3. CASE ReadVersion
  BY <1>3 DEF ReadVersion
<1>4. CASE RefuseDirty
  BY <1>4 DEF RefuseDirty, Ends
<1>5. CASE MarkDirty
  BY <1>5 DEF MarkDirty
<1>6. CASE ApplySchema
  BY <1>6 DEF ApplySchema
<1>7. CASE Unmark
  BY <1>7 DEF Unmark
<1>8. CASE CurrenciesSaved
  BY <1>8 DEF CurrenciesSaved
<1>9. CASE FirstBlock
  BY <1>9 DEF FirstBlock
<1>10. CASE SelectAccounts
  BY <1>10 DEF SelectAccounts
<1>11. CASE AccountsRegistered
  BY <1>11 DEF AccountsRegistered
<1>12. CASE Serve
  BY <1>12 DEF Serve
<1>13. CASE Signal
  BY <1>13 DEF Signal
<1>14. CASE Shutdown
  BY <1>14 DEF Shutdown
<1>15. CASE Exit
  BY <1>15 DEF Exit, Ends
<1>16. ASSUME NEW jettons \in SUBSET Jettons, Deploy(jettons)
       PROVE  RegistrationInOrder' /\ MemoryInUse' /\ AllHandedOver'
  BY <1>16 DEF Deploy
<1>17. ASSUME NEW c \in Accounts, SaveCurrency(c)
       PROVE  RegistrationInOrder' /\ MemoryInUse' /\ AllHandedOver'
  BY <1>17 DEF SaveCurrency
<1>18. ASSUME NEW a \in Accounts, NEW lt \in Lts, CreateAccount(a, lt)
       PROVE  RegistrationInOrder' /\ MemoryInUse' /\ AllHandedOver'
  BY <1>18 DEF CreateAccount, Registers
<1>19. ASSUME NEW a \in Accounts, SendAccount(a)
       PROVE  RegistrationInOrder' /\ MemoryInUse' /\ AllHandedOver'
  BY <1>19 DEF SendAccount
<1>20. ASSUME NEW a \in Accounts, TrackAccount(a)
       PROVE  RegistrationInOrder' /\ MemoryInUse' /\ AllHandedOver'
  BY <1>20 DEF TrackAccount
<1>21. ASSUME NEW a \in Accounts, TrackAccountFails(a)
       PROVE  RegistrationInOrder' /\ MemoryInUse' /\ AllHandedOver'
  BY <1>21 DEF TrackAccountFails, Fault
<1>22. ASSUME NEW a \in Accounts, AcceptRequest(a)
       PROVE  RegistrationInOrder' /\ MemoryInUse' /\ AllHandedOver'
  BY <1>22 DEF AcceptRequest
<1>23. ASSUME NEW a \in Accounts, CreateInvoice(a)
       PROVE  RegistrationInOrder' /\ MemoryInUse' /\ AllHandedOver'
  BY <1>23 DEF CreateInvoice
<1>24. ASSUME NEW a \in Accounts, Transfer(a)
       PROVE  RegistrationInOrder' /\ MemoryInUse' /\ AllHandedOver'
  BY <1>24 DEF Transfer
<1>25. ASSUME NEW a \in Accounts, Payment(a)
       PROVE  RegistrationInOrder' /\ MemoryInUse' /\ AllHandedOver'
  BY <1>25 DEF Payment
<1>26. CASE UNCHANGED vars
  BY <1>26 DEF vars
<1> QED
  BY <1>1, <1>2, <1>3, <1>4, <1>5, <1>6, <1>7, <1>8, <1>9, <1>10, <1>11, <1>12, <1>13, <1>14,
     <1>15, <1>16, <1>17, <1>18, <1>19, <1>20, <1>21, <1>22, <1>23, <1>24, <1>25, <1>26 DEF Next, Migrate, Initialise

(* The chain: an account has its start before an invoice can be paid to    *)
(* it.                                                                     *)
LEMMA PaymentsStep ==
  ASSUME StartupAssumption, IInv, [Next]_vars
  PROVE  StartBehindHead' /\ PaymentsAboveStart'
<1> USE StartupAssumption DEF IInv, database, start, indexer, chain, bounds, TypeOK, StartBehindHead,
          PaymentsAboveStart, RegistrationInOrder, MemoryInUse, Running, Lts
<1>1. CASE Restart
  BY <1>1 DEF Restart
<1>2. CASE Kill
  BY <1>2 DEF Kill, Fault, Ends
<1>3. CASE ReadVersion
  BY <1>3 DEF ReadVersion
<1>4. CASE RefuseDirty
  BY <1>4 DEF RefuseDirty, Ends
<1>5. CASE MarkDirty
  BY <1>5 DEF MarkDirty
<1>6. CASE ApplySchema
  BY <1>6 DEF ApplySchema
<1>7. CASE Unmark
  BY <1>7 DEF Unmark
<1>8. CASE CurrenciesSaved
  BY <1>8 DEF CurrenciesSaved
<1>9. CASE FirstBlock
  BY <1>9 DEF FirstBlock
<1>10. CASE SelectAccounts
  BY <1>10 DEF SelectAccounts
<1>11. CASE AccountsRegistered
  BY <1>11 DEF AccountsRegistered
<1>12. CASE Serve
  BY <1>12 DEF Serve
<1>13. CASE Signal
  BY <1>13 DEF Signal
<1>14. CASE Shutdown
  BY <1>14 DEF Shutdown
<1>15. CASE Exit
  BY <1>15 DEF Exit, Ends
<1>16. ASSUME NEW jettons \in SUBSET Jettons, Deploy(jettons)
       PROVE  StartBehindHead' /\ PaymentsAboveStart'
  BY <1>16 DEF Deploy
<1>17. ASSUME NEW c \in Accounts, SaveCurrency(c)
       PROVE  StartBehindHead' /\ PaymentsAboveStart'
  BY <1>17 DEF SaveCurrency
<1>18. ASSUME NEW a \in Accounts, NEW lt \in Lts, CreateAccount(a, lt)
       PROVE  StartBehindHead' /\ PaymentsAboveStart'
  BY <1>18 DEF CreateAccount, Registers
<1>19. ASSUME NEW a \in Accounts, SendAccount(a)
       PROVE  StartBehindHead' /\ PaymentsAboveStart'
  BY <1>19 DEF SendAccount
<1>20. ASSUME NEW a \in Accounts, TrackAccount(a)
       PROVE  StartBehindHead' /\ PaymentsAboveStart'
  BY <1>20 DEF TrackAccount
<1>21. ASSUME NEW a \in Accounts, TrackAccountFails(a)
       PROVE  StartBehindHead' /\ PaymentsAboveStart'
  BY <1>21 DEF TrackAccountFails, Fault
<1>22. ASSUME NEW a \in Accounts, AcceptRequest(a)
       PROVE  StartBehindHead' /\ PaymentsAboveStart'
  BY <1>22 DEF AcceptRequest
<1>23. ASSUME NEW a \in Accounts, CreateInvoice(a)
       PROVE  StartBehindHead' /\ PaymentsAboveStart'
  BY <1>23 DEF CreateInvoice
<1>24. ASSUME NEW a \in Accounts, Transfer(a)
       PROVE  StartBehindHead' /\ PaymentsAboveStart'
  BY <1>24 DEF Transfer
<1>25. ASSUME NEW a \in Accounts, Payment(a)
       PROVE  StartBehindHead' /\ PaymentsAboveStart'
  BY <1>25 DEF Payment
<1>26. CASE UNCHANGED vars
  BY <1>26 DEF vars
<1> QED
  BY <1>1, <1>2, <1>3, <1>4, <1>5, <1>6, <1>7, <1>8, <1>9, <1>10, <1>11, <1>12, <1>13, <1>14,
     <1>15, <1>16, <1>17, <1>18, <1>19, <1>20, <1>21, <1>22, <1>23, <1>24, <1>25, <1>26 DEF Next, Migrate, Initialise

(* A request leaves the process only answered or with a fault.             *)
LEMMA RequestsStep ==
  ASSUME StartupAssumption, IInv, [Next]_vars
  PROVE  \A r \in requests : r \in requests' \/ r \in issued' \/ faults' > faults
<1> USE StartupAssumption DEF IInv, database, start, indexer, chain, bounds, TypeOK, MemoryInUse, Running
<1>1. CASE Restart
  BY <1>1 DEF Restart
<1>2. CASE Kill
  BY <1>2 DEF Kill, Fault, Ends
<1>3. CASE ReadVersion
  BY <1>3 DEF ReadVersion
<1>4. CASE RefuseDirty
  BY <1>4 DEF RefuseDirty, Ends
<1>5. CASE MarkDirty
  BY <1>5 DEF MarkDirty
<1>6. CASE ApplySchema
  BY <1>6 DEF ApplySchema
<1>7. CASE Unmark
  BY <1>7 DEF Unmark
<1>8. CASE CurrenciesSaved
  BY <1>8 DEF CurrenciesSaved
<1>9. CASE FirstBlock
  BY <1>9 DEF FirstBlock
<1>10. CASE SelectAccounts
  BY <1>10 DEF SelectAccounts
<1>11. CASE AccountsRegistered
  BY <1>11 DEF AccountsRegistered
<1>12. CASE Serve
  BY <1>12 DEF Serve
<1>13. CASE Signal
  BY <1>13 DEF Signal
<1>14. CASE Shutdown
  BY <1>14 DEF Shutdown
<1>15. CASE Exit
  BY <1>15 DEF Exit, Ends
<1>16. ASSUME NEW jettons \in SUBSET Jettons, Deploy(jettons)
       PROVE  \A r \in requests : r \in requests' \/ r \in issued' \/ faults' > faults
  BY <1>16 DEF Deploy
<1>17. ASSUME NEW c \in Accounts, SaveCurrency(c)
       PROVE  \A r \in requests : r \in requests' \/ r \in issued' \/ faults' > faults
  BY <1>17 DEF SaveCurrency
<1>18. ASSUME NEW a \in Accounts, NEW lt \in Lts, CreateAccount(a, lt)
       PROVE  \A r \in requests : r \in requests' \/ r \in issued' \/ faults' > faults
  BY <1>18 DEF CreateAccount, Registers
<1>19. ASSUME NEW a \in Accounts, SendAccount(a)
       PROVE  \A r \in requests : r \in requests' \/ r \in issued' \/ faults' > faults
  BY <1>19 DEF SendAccount
<1>20. ASSUME NEW a \in Accounts, TrackAccount(a)
       PROVE  \A r \in requests : r \in requests' \/ r \in issued' \/ faults' > faults
  BY <1>20 DEF TrackAccount
<1>21. ASSUME NEW a \in Accounts, TrackAccountFails(a)
       PROVE  \A r \in requests : r \in requests' \/ r \in issued' \/ faults' > faults
  BY <1>21 DEF TrackAccountFails, Fault
<1>22. ASSUME NEW a \in Accounts, AcceptRequest(a)
       PROVE  \A r \in requests : r \in requests' \/ r \in issued' \/ faults' > faults
  BY <1>22 DEF AcceptRequest
<1>23. ASSUME NEW a \in Accounts, CreateInvoice(a)
       PROVE  \A r \in requests : r \in requests' \/ r \in issued' \/ faults' > faults
  BY <1>23 DEF CreateInvoice
<1>24. ASSUME NEW a \in Accounts, Transfer(a)
       PROVE  \A r \in requests : r \in requests' \/ r \in issued' \/ faults' > faults
  BY <1>24 DEF Transfer
<1>25. ASSUME NEW a \in Accounts, Payment(a)
       PROVE  \A r \in requests : r \in requests' \/ r \in issued' \/ faults' > faults
  BY <1>25 DEF Payment
<1>26. CASE UNCHANGED vars
  BY <1>26 DEF vars
<1> QED
  BY <1>1, <1>2, <1>3, <1>4, <1>5, <1>6, <1>7, <1>8, <1>9, <1>10, <1>11, <1>12, <1>13, <1>14,
     <1>15, <1>16, <1>17, <1>18, <1>19, <1>20, <1>21, <1>22, <1>23, <1>24, <1>25, <1>26 DEF Next, Migrate, Initialise

-----------------------------------------------------------------------------
(* The inductive invariant holds in every state.                           *)
THEOREM Invariance == Spec => []IInv
<1> USE StartupAssumption
<1>1. IInv /\ [Next]_vars => IInv'
  BY TypeStep, MigrationStep, RegistrationStep, PaymentsStep DEF IInv
<1>2. Init => IInv
  BY InitHolds
<1> QED
  BY <1>1, <1>2, PTL DEF Spec

(* Types, with: the wallets are those of the registered jetton accounts,   *)
(* whose currencies are saved.                                             *)
THEOREM TypeCorrect == Spec => []TypeOK
<1>1. IInv => TypeOK
  BY DEF IInv
<1> QED
  BY <1>1, Invariance, PTL

(* No process uses tables that are not there, whatever killed migration it *)
(* finds.                                                                  *)
THEOREM TablesReady == Spec => []TablesBeforeUse
<1>1. IInv => TablesBeforeUse
  BY DEF IInv
<1> QED
  BY <1>1, Invariance, PTL

(* No payment of an invoice is below the start of tracking of its account, *)
(* through kills, deployments and old answers of the lite servers.         *)
THEOREM NoPaymentBelowStart == Spec => []PaymentsAboveStart
<1>1. IInv => PaymentsAboveStart
  BY DEF IInv
<1> QED
  BY <1>1, Invariance, PTL

(* When the API is served every configured account has been handed over.   *)
THEOREM HandedOver == Spec => []AllHandedOver
<1>1. IInv => AllHandedOver
  BY DEF IInv
<1> QED
  BY <1>1, Invariance, PTL

(* A stop of the process loses no request it has accepted.                 *)
THEOREM RequestsAnswered == Spec => RequestsAreAnswered
<1> USE StartupAssumption
<1>1. IInv /\ [Next]_vars
        => [\A a \in requests : a \in requests' \/ a \in issued' \/ faults' > faults]_vars
  BY RequestsStep
<1> QED
  BY <1>1, Invariance, PTL DEF Spec, RequestsAreAnswered
=============================================================================
