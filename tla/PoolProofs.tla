---------------------------- MODULE PoolProofs ----------------------------
(***************************************************************************)
(* What is proved of the pool, for any number of workers, clients and      *)
(* connections.                                                            *)
(***************************************************************************)
EXTENDS Pool, FiniteSetTheorems, TLAPS

(* The connections in use, from the phases of the users.                   *)
First == {v \in Users : pc[v] \in InTransaction \cup {"use"}}
Second == {v \in Users : pc[v] = "read"}
InUse == {<<u, 1>> : u \in First} \cup {<<u, 2>> : u \in Second}

Types ==
  /\ size \in 1..MaxSize
  /\ pc \in [Users -> WorkerPhases]
  /\ \A c \in Clients : pc[c] \in ClientPhases
  /\ left \in [Workers -> 0..MaxPayments]
  /\ held = InUse

(* Who looks up a currency has a payment to write.                         *)
Owing == \A w \in Workers : pc[w] \in {"second", "read"} => left[w] > 0

IInv ==
  /\ Types
  /\ Owing
  /\ Cardinality(held) <= size

(* The types of the model are these and the bound.                         *)
LEMMA TypesAndBound == TypeOK <=> Types /\ Cardinality(held) <= size
BY DEF TypeOK, Types, InUse, First, Second

-----------------------------------------------------------------------------
(* As many users as there are have at most as many first connections.      *)
LEMMA OneEach ==
  ASSUME NEW U, IsFiniteSet(U), NEW H, H \subseteq U \X {1}
  PROVE  IsFiniteSet(H) /\ Cardinality(H) <= Cardinality(U)
<1> DEFINE f == [u \in U |-> <<u, 1>>]
           F == {<<u, 1>> : u \in U}
<1>1. f \in Surjection(U, F)
  BY DEF Surjection
<1>2. IsFiniteSet(F) /\ Cardinality(F) <= Cardinality(U)
  BY <1>1, FS_Surjection
<1>3. H \in SUBSET F
  OBVIOUS
<1>4. IsFiniteSet(H) /\ Cardinality(H) <= Cardinality(F)
  BY <1>2, <1>3, FS_Subset
<1>5. Cardinality(H) \in Nat /\ Cardinality(F) \in Nat /\ Cardinality(U) \in Nat
  BY <1>2, <1>4, FS_CardinalityType
<1> HIDE DEF f, F
<1> QED
  BY <1>2, <1>4, <1>5

(* The connections in use are finitely many.                               *)
LEMMA HeldIsFinite ==
  PoolAssumption /\ Types => IsFiniteSet(held)
<1> SUFFICES ASSUME PoolAssumption, Types PROVE IsFiniteSet(held)
  OBVIOUS
<1> DEFINE f == [u \in Users |-> <<u, 2>>]
           F == {<<u, 2>> : u \in Users}
           A == {<<u, 1>> : u \in First}
           B == {<<u, 2>> : u \in Second}
<1>0. IsFiniteSet(Users)
  BY DEF PoolAssumption
<1>1. IsFiniteSet(A)
  <2>1. A \subseteq Users \X {1}
    BY DEF First
  <2> QED
    BY <1>0, <2>1, OneEach
<1>2. IsFiniteSet(B)
  <2>1. f \in Surjection(Users, F)
    BY DEF Surjection
  <2>2. IsFiniteSet(F)
    BY <1>0, <2>1, FS_Surjection
  <2>3. B \in SUBSET F
    BY DEF Second
  <2> QED
    BY <2>2, <2>3, FS_Subset
<1>3. held = A \cup B
  BY DEF Types, InUse
<1> HIDE DEF A, B
<1> QED
  BY <1>1, <1>2, <1>3, FS_Union

-----------------------------------------------------------------------------
(* Every step leaves each user with the connections of its phase.          *)
LEMMA TypesStep == PoolAssumption /\ Types /\ Owing /\ [Next]_vars => Types'
<1> SUFFICES ASSUME PoolAssumption, Types, Owing, [Next]_vars PROVE Types'
  OBVIOUS
<1> USE DEF Types, WorkerPhases, ClientPhases, InTransaction, InUse, First, Second,
            Users, Goes
<1>1. ASSUME NEW u \in Users, Acquire(u) PROVE Types'
  <2>1. CASE pc[u] = "begin"
    BY <1>1, <2>1 DEF Acquire
  <2>2. CASE pc[u] = "second"
    BY <1>1, <2>2 DEF Acquire
  <2>3. CASE pc[u] = "wait"
    BY <1>1, <2>3 DEF Acquire
  <2> QED
    BY <1>1, <2>1, <2>2, <2>3 DEF Acquire, Waiting
<1>2. ASSUME NEW u \in Users, StatementEnds(u) PROVE Types'
  BY <1>2 DEF StatementEnds
<1>3. ASSUME NEW w \in Workers, NEW n \in 0..MaxPayments, SavePayments(w, n) PROVE Types'
  BY <1>3 DEF SavePayments, PoolAssumption
<1>4. ASSUME NEW w \in Workers, GetCurrencyID(w) PROVE Types'
  BY <1>4 DEF GetCurrencyID, PoolAssumption
<1>5. ASSUME NEW w \in Workers, WritePayment(w) PROVE Types'
  BY <1>5 DEF WritePayment, Owing, PoolAssumption
<1>6. ASSUME NEW w \in Workers, Commit(w) PROVE Types'
  BY <1>6 DEF Commit, PoolAssumption
<1>7. ASSUME NEW w \in Workers, TimeOut(w) PROVE Types'
  BY <1>7 DEF TimeOut, Waiting, PoolAssumption
<1>8. ASSUME NEW c \in Clients, Statement(c) PROVE Types'
  BY <1>8 DEF Statement, PoolAssumption
<1>9. CASE UNCHANGED vars
  BY <1>9 DEF vars
<1> QED
  BY <1>1, <1>2, <1>3, <1>4, <1>5, <1>6, <1>7, <1>8, <1>9 DEF Next, Works

(* A currency is only looked up for a payment.                             *)
LEMMA OwingStep == PoolAssumption /\ Types /\ Owing /\ [Next]_vars => Owing'
<1> SUFFICES ASSUME PoolAssumption, Types, Owing, [Next]_vars PROVE Owing'
  OBVIOUS
<1> USE DEF Types, Owing, Users, Goes, PoolAssumption
<1>1. ASSUME NEW u \in Users, Acquire(u) PROVE Owing'
  BY <1>1 DEF Acquire, Waiting
<1>2. ASSUME NEW u \in Users, StatementEnds(u) PROVE Owing'
  BY <1>2 DEF StatementEnds
<1>3. ASSUME NEW w \in Workers, NEW n \in 0..MaxPayments, SavePayments(w, n) PROVE Owing'
  BY <1>3 DEF SavePayments
<1>4. ASSUME NEW w \in Workers, GetCurrencyID(w) PROVE Owing'
  BY <1>4 DEF GetCurrencyID
<1>5. ASSUME NEW w \in Workers, WritePayment(w) PROVE Owing'
  BY <1>5 DEF WritePayment
<1>6. ASSUME NEW w \in Workers, Commit(w) PROVE Owing'
  BY <1>6 DEF Commit
<1>7. ASSUME NEW w \in Workers, TimeOut(w) PROVE Owing'
  BY <1>7 DEF TimeOut
<1>8. ASSUME NEW c \in Clients, Statement(c) PROVE Owing'
  BY <1>8 DEF Statement
<1>9. CASE UNCHANGED vars
  BY <1>9 DEF vars
<1> QED
  BY <1>1, <1>2, <1>3, <1>4, <1>5, <1>6, <1>7, <1>8, <1>9 DEF Next, Works

(* The pool has no more connections than its size.                         *)
LEMMA BoundStep ==
  PoolAssumption /\ IInv /\ [Next]_vars => Cardinality(held') <= size'
<1> SUFFICES ASSUME PoolAssumption, IInv, [Next]_vars
             PROVE  Cardinality(held') <= size'
  OBVIOUS
<1>1. IsFiniteSet(held) /\ Cardinality(held) \in Nat /\ size \in Nat
  BY HeldIsFinite, FS_CardinalityType DEF IInv, Types
<1>2. ASSUME NEW u \in Users, Acquire(u) PROVE Cardinality(held') <= size'
  <2>1. /\ Cardinality(held) < size /\ size' = size
        /\ held' = held \cup {<<u, IF pc[u] = "second" THEN 2 ELSE 1>>}
    BY <1>2 DEF Acquire
  <2>2. Cardinality(held') \in {Cardinality(held), Cardinality(held) + 1}
    BY <1>1, <2>1, FS_AddElement
  <2> QED
    BY <1>1, <2>1, <2>2
<1>3. ASSUME held' \in SUBSET held, size' = size PROVE Cardinality(held') <= size'
  <2>1. IsFiniteSet(held') /\ Cardinality(held') <= Cardinality(held)
    BY <1>1, <1>3, FS_Subset
  <2>2. Cardinality(held') \in Nat
    BY <2>1, FS_CardinalityType
  <2> QED
    BY <1>1, <1>3, <2>1, <2>2 DEF IInv
<1>4. \/ \E u \in Users : Acquire(u)
      \/ held' \in SUBSET held /\ size' = size
  BY DEF Next, Works, SavePayments, GetCurrencyID, WritePayment, Commit, TimeOut,
         Statement, StatementEnds, vars
<1> QED
  BY <1>2, <1>3, <1>4

(* The invariant of the pool: who has which connection.                    *)
THEOREM Invariance == Spec => []IInv
<1>1. PoolAssumption
  BY PoolAssumption
<1>2. Init => IInv
  <2> SUFFICES ASSUME Init PROVE IInv
    OBVIOUS
  <2>1. Types
    BY <1>1 DEF Init, Types, InUse, First, Second, WorkerPhases, ClientPhases,
                InTransaction, Users, PoolAssumption
  <2>2. Cardinality(held) <= size
    BY FS_EmptySet DEF Init
  <2>3. Owing
    BY DEF Init, Owing, Users
  <2> QED
    BY <2>1, <2>2, <2>3 DEF IInv
<1>3. IInv /\ [Next]_vars => IInv'
  BY <1>1, TypesStep, OwingStep, BoundStep DEF IInv
<1> QED
  BY <1>2, <1>3, PTL DEF Spec

(* Every user has the connections of its phase, never more than the pool   *)
(* has (invoices.go:266, 308).                                             *)
THEOREM TypeCorrect == Spec => []TypeOK
<1>1. IInv => TypeOK
  BY TypesAndBound DEF IInv
<1> QED
  BY <1>1, Invariance, PTL

(* A stall needs a worker for every connection: with one connection more   *)
(* than workers there is none, whatever handlers and loaders do            *)
(* (invoices.go:308).                                                      *)
THEOREM NoStall == Spec => []NeverStalled
<1>1. IInv => NeverStalled
  <2> SUFFICES ASSUME IInv, size > Cardinality(Workers), Stalled PROVE FALSE
    BY DEF NeverStalled
  <2>1. held \subseteq Workers \X {1}
    <3>1. ASSUME NEW h \in held PROVE h \in Workers \X {1}
      <4>1. h \in InUse /\ Waiting(h[1])
        BY DEF IInv, Types, Stalled
      <4>2. PICK u \in First : h = <<u, 1>>
        BY <4>1 DEF InUse, Second, Waiting
      <4>3. u \in Workers
        BY <4>1, <4>2 DEF First, Waiting, InTransaction, IInv, Types, ClientPhases, Users
      <4> QED
        BY <4>2, <4>3
    <3> QED
      BY <3>1
  <2>2. IsFiniteSet(Workers)
    BY PoolAssumption, FS_Subset DEF PoolAssumption, Users
  <2>3. Cardinality(held) <= Cardinality(Workers)
    BY <2>1, <2>2, OneEach
  <2>4. Cardinality(Workers) \in Nat /\ size \in Nat /\ Cardinality(held) = size
    BY <2>2, FS_CardinalityType DEF IInv, Types, Stalled
  <2> QED
    BY <2>3, <2>4
<1> QED
  BY <1>1, Invariance, PTL

-----------------------------------------------------------------------------
(* How a stall ends: what of StallEnds is not about fairness.              *)

(* In a stall the connections are those of database transactions, each of  *)
(* a worker that waits for a second one.                                   *)
StalledWorkers == {w \in Workers : pc[w] = "second"}

LEMMA HeldInStall ==
  ASSUME IInv, Stalled
  PROVE  held = {<<w, 1>> : w \in StalledWorkers}
<1>1. ASSUME NEW h \in held
      PROVE  \E w \in StalledWorkers : h = <<w, 1>>
  <2>1. h \in InUse /\ Waiting(h[1])
    BY DEF IInv, Types, Stalled
  <2>2. PICK u \in First : h = <<u, 1>>
    BY <2>1 DEF InUse, Second, Waiting
  <2>3. pc[u] = "second"
    BY <2>1, <2>2 DEF First, Waiting, InTransaction
  <2>4. u \in Workers
    BY <2>2, <2>3 DEF First, IInv, Types, ClientPhases, Users
  <2> QED
    BY <2>2, <2>3, <2>4 DEF StalledWorkers
<1>2. ASSUME NEW w \in StalledWorkers
      PROVE  <<w, 1>> \in held
  <2>1. w \in First
    BY DEF StalledWorkers, First, Users, InTransaction
  <2> QED
    BY <2>1 DEF IInv, Types, InUse
<1> QED
  BY <1>1, <1>2

(* One connection fewer is in use when one is given back.                  *)
LEMMA GivenBack ==
  ASSUME IInv, NEW h \in held, held' = held \ {h}, size' = size
  PROVE  Cardinality(held') < size'
<1>1. IsFiniteSet(held) /\ Cardinality(held) \in Nat /\ size \in Nat
  BY PoolAssumption, HeldIsFinite, FS_CardinalityType DEF IInv, Types
<1>2. Cardinality(held \ {h}) = Cardinality(held) - 1
  BY <1>1, FS_RemoveElement
<1> QED
  BY <1>1, <1>2 DEF IInv

(* A stall can always be broken: some worker whose context may end holds a *)
(* connection, and when the context of any worker ends in a stall a        *)
(* connection is free, unless that worker held none (indexer.go:38,        *)
(* invoices.go:270, 385-390).                                              *)
BreaksStall(w) == Stalled /\ Waiting(w) /\ <<w, 1>> \in held

THEOREM StallIsBreakable ==
  Spec => /\ [](Stalled => \E w \in Workers : BreaksStall(w))
          /\ [][\A w \in Workers :
                  BreaksStall(w) /\ TimeOut(w) => Cardinality(held') < size']_vars
<1>1. IInv => (Stalled => \E w \in Workers : BreaksStall(w))
  <2> SUFFICES ASSUME IInv, Stalled PROVE \E w \in Workers : BreaksStall(w)
    OBVIOUS
  <2>1. held # {}
    <3>1. Cardinality(held) = size /\ size \in 1..MaxSize
      BY DEF Stalled, IInv, Types
    <3> QED
      BY <3>1, FS_EmptySet, PoolAssumption DEF PoolAssumption
  <2>2. PICK w \in StalledWorkers : <<w, 1>> \in held
    BY <2>1, HeldInStall
  <2> QED
    BY <2>2 DEF StalledWorkers, BreaksStall, Waiting
<1>2. IInv => \A w \in Workers : BreaksStall(w) /\ TimeOut(w) => Cardinality(held') < size'
  <2> SUFFICES ASSUME IInv, NEW w \in Workers, BreaksStall(w), TimeOut(w)
               PROVE  Cardinality(held') < size'
    OBVIOUS
  <2> QED
    BY GivenBack DEF BreaksStall, TimeOut
<1> QED
  BY <1>1, <1>2, Invariance, PTL
=============================================================================
