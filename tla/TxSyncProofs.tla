-------------------------- MODULE TxSyncProofs --------------------------
(***************************************************************************)
(* Proofs about TxSync: type correctness, that no refresh leaves a hole    *)
(* behind, that the cursor matches the effects, and that the two workers   *)
(* implement Feed, for every history length, batch size and number of      *)
(* faults.                                                                 *)
(***************************************************************************)
EXTENDS TxSync, FiniteInduction, TLAPS

-----------------------------------------------------------------------------
(* Max of FiniteSetsExt, which GetGaps is modelled with.                   *)

(* Max of a nonempty bounded set of naturals is its greatest element.      *)
LEMMA MaxOfBounded ==
  ASSUME NEW n \in Nat, NEW S \in SUBSET (0..n), S # {}
  PROVE  /\ Max(S) \in S
         /\ \A y \in S : y <= Max(S)
<1> DEFINE T == {n - x : x \in S}
<1>1. T \in SUBSET Nat /\ T # {}
  <2>1. PICK z \in S : TRUE
    OBVIOUS
  <2>2. n - z \in T
    OBVIOUS
  <2> QED BY <2>2
<1>2. PICK m \in T : \A y \in T : m <= y
  BY <1>1, LeastElement
<1>3. PICK x \in S : m = n - x
  OBVIOUS
<1>4. \A y \in S : y <= x
  <2> TAKE y \in S
  <2>1. n - y \in T
    OBVIOUS
  <2>2. x \in Nat /\ y \in Nat
    OBVIOUS
  <2>3. n - x <= n - y
    <3> HIDE DEF T
    <3> QED BY <1>2, <1>3, <2>1
  <2> HIDE DEF T
  <2> QED BY <2>2, <2>3
<1>5. \E z \in S : \A y \in S : z >= y
  BY <1>4
<1>6. /\ Max(S) \in S
      /\ \A y \in S : Max(S) >= y
  BY <1>5 DEF Max
<1> QED BY <1>6

-----------------------------------------------------------------------------
(* The inductive invariant. TypeOK alone is not inductive: that a fetched  *)
(* transaction lies above the start needs the bounds of the running sync,  *)
(* and that a finished sync leaves no hole needs the shape of what is      *)
(* stored: what is contiguous from the start, then at most one hole.       *)

(* Before the account is registered nothing of it is known.                *)
Fresh ==
  ~created => /\ pc = "starting"
              /\ startTxLt = 0
              /\ lastProcessedLt = 0
              /\ transactions = {}

(* Only running workers hold gaps and a lastLt.                            *)
Idle == pc \in {"starting", "untracked", "boot"} => gaps = {} /\ lastLt = 0

(* The transactions stored when those above lo up to hi are missing.       *)
Stored(lo, hi, top) == (startTxLt + 1)..lo \cup (hi + 1)..top

(* The gap GetGaps reports under the first transaction after the start.    *)
AtStart(g) == g.startLt = startTxLt /\ g.endLt <= startTxLt

(* The gap g is the hole above lo up to hi.                                *)
IsHole(g, lo, hi) ==
  /\ g.startLt = hi
  /\ lo = IF g.endLt < startTxLt THEN startTxLt ELSE g.endLt

RestShape ==
  \E lo, hi, top \in Positions :
    /\ startTxLt <= lo
    /\ transactions = Stored(lo, hi, top)

ReadyShape ==
  \/ \E top \in Positions :
       /\ startTxLt <= top
       /\ lastLt <= top
       /\ transactions = (startTxLt + 1)..top
       /\ \A g \in gaps : AtStart(g)
  \/ \E lo, hi, top \in Positions :
       /\ startTxLt <= lo /\ lo < hi /\ hi < top
       /\ transactions = Stored(lo, hi, top)
       /\ \E g \in gaps :
            /\ IsHole(g, lo, hi)
            /\ \A h \in gaps \ {g} : AtStart(h)

SyncShape ==
  \E lo, top \in Positions :
    /\ startTxLt <= lo
    /\ job.end <= lo
    /\ job.next <= top
    /\ job.first <= top
    /\ transactions = Stored(lo, job.next, top)
    /\ \A g \in gaps : AtStart(g)

Shape ==
  /\ pc \in {"starting", "untracked", "boot"} => RestShape
  /\ pc = "ready" => ReadyShape
  /\ pc = "sync" => SyncShape

JobBounds ==
  pc = "sync" => /\ startTxLt <= job.end
                 /\ job.fetched > 0 => job.end + job.fetched <= job.next

IInv == TypeOK /\ Fresh /\ Idle /\ JobBounds /\ Shape /\ CursorMatchesEffects

-----------------------------------------------------------------------------
(* What GetGaps reports.                                                   *)

(* The newest stored transaction below lt is a position below lt.          *)
LEMMA NewestBelowType ==
  ASSUME NEW S \in SUBSET Positions, NEW lt \in Nat
  PROVE  /\ NewestBelow(S, lt) \in {x \in S : x < lt} \cup {0}
         /\ \A x \in S : x < lt => x <= NewestBelow(S, lt)
<1> DEFINE B == {x \in S : x < lt} \cup {0}
<1>1. B \in SUBSET (0..MaxLt) /\ B # {}
  <2>1. \A x \in B : x \in 0..MaxLt
    BY TxSyncAssumption DEF Positions
  <2>2. 0 \in B
    OBVIOUS
  <2> QED BY <2>1, <2>2
<1>2. Max(B) \in B /\ \A y \in B : y <= Max(B)
  <2> HIDE DEF B
  <2> QED BY <1>1, MaxOfBounded, TxSyncAssumption
<1>3. NewestBelow(S, lt) = Max(B)
  BY DEF NewestBelow
<1> QED BY <1>2, <1>3

(* The newest stored transaction is stored, or 0 when none is.             *)
LEMMA NewestType ==
  ASSUME NEW S \in SUBSET Positions
  PROVE  Max(S \cup {0}) \in S \cup {0}
<1>1. S \cup {0} \in SUBSET (0..MaxLt) /\ S \cup {0} # {}
  BY TxSyncAssumption DEF Positions
<1> QED BY <1>1, MaxOfBounded, TxSyncAssumption

(* Every gap starts at the missing predecessor of a stored transaction.    *)
LEMMA GapsOfType ==
  ASSUME NEW S \in SUBSET Positions, 0 \notin S, NEW g \in GapsOf(S)
  PROVE  /\ g \in [startLt : Positions, endLt : Positions]
         /\ g.startLt # 0
         /\ g.startLt \notin S
         /\ g.startLt + 1 \in S
         /\ g.endLt = NewestBelow(S, g.startLt)
<1>1. PICK p \in MissingParents(S) :
        g = [startLt |-> p, endLt |-> NewestBelow(S, p)]
  BY DEF GapsOf
<1>2. p \in Positions /\ p \in Nat /\ p # 0 /\ p \notin S /\ p + 1 \in S
  BY TxSyncAssumption DEF Positions, MissingParents
<1>3. NewestBelow(S, p) \in S \cup {0}
  BY <1>2, NewestBelowType
<1>4. S \cup {0} \subseteq Positions
  BY TxSyncAssumption DEF Positions
<1> QED BY <1>1, <1>2, <1>3, <1>4

(* A history without a hole has at most the gap under its first            *)
(* transaction.                                                            *)
LEMMA NoHoleGaps ==
  ASSUME NEW s \in Positions, NEW top \in Positions, s <= top,
         NEW S, S = (s + 1)..top
  PROVE  /\ \A g \in GapsOf(S) : g.startLt = s /\ g.endLt <= s
         /\ Max(S \cup {0}) <= top
<1>1. S \in SUBSET Positions /\ 0 \notin S
  BY TxSyncAssumption DEF Positions
<1>2. ASSUME NEW g \in GapsOf(S)
      PROVE  g.startLt = s /\ g.endLt <= s
  <2>1. /\ g.startLt \notin S /\ g.startLt + 1 \in S
        /\ g.startLt \in Positions
        /\ g.endLt = NewestBelow(S, g.startLt)
    BY <1>1, GapsOfType
  <2>2. g.startLt = s
    BY <2>1, TxSyncAssumption DEF Positions
  <2>3. g.endLt \in {x \in S : x < s} \cup {0}
    BY <1>1, <2>1, <2>2, NewestBelowType, TxSyncAssumption DEF Positions
  <2> QED BY <2>2, <2>3, TxSyncAssumption DEF Positions
<1>3. Max(S \cup {0}) \in S \cup {0}
  BY <1>1, NewestType
<1> QED BY <1>2, <1>3, TxSyncAssumption DEF Positions

(* The gaps G are the hole above lo up to hi, its end raised to the start  *)
(* s where nothing is stored below it, and at most the gap at the start.   *)
OneHole(G, s, lo, hi) ==
  \E g \in G :
    /\ g.startLt = hi
    /\ lo = IF g.endLt < s THEN s ELSE g.endLt
    /\ \A h \in G \ {g} : h.startLt = s /\ h.endLt <= s

(* A history with one hole has the hole among its gaps.                    *)
LEMMA OneHoleGaps ==
  ASSUME NEW s \in Positions, NEW lo \in Positions, NEW hi \in Positions,
         NEW top \in Positions, s <= lo, lo < hi, hi < top,
         NEW S, S = (s + 1)..lo \cup (hi + 1)..top
  PROVE  OneHole(GapsOf(S), s, lo, hi)
<1> DEFINE hole == [startLt |-> hi, endLt |-> NewestBelow(S, hi)]
<1>1. S \in SUBSET Positions /\ 0 \notin S
  BY TxSyncAssumption DEF Positions
<1>2. hole \in GapsOf(S)
  <2>1. hi \in MissingParents(S)
    BY TxSyncAssumption DEF Positions, MissingParents
  <2> QED BY <2>1 DEF GapsOf
<1>3. lo = IF hole.endLt < s THEN s ELSE hole.endLt
  <2>1. /\ hole.endLt \in {x \in S : x < hi} \cup {0}
        /\ \A x \in S : x < hi => x <= hole.endLt
    BY <1>1, NewestBelowType, TxSyncAssumption DEF Positions
  <2>2. CASE s = lo
    BY <2>1, <2>2, TxSyncAssumption DEF Positions
  <2>3. CASE s < lo
    <3>1. lo \in S /\ lo < hi
      BY <2>3, TxSyncAssumption DEF Positions
    <3>2. lo <= hole.endLt
      BY <2>1, <3>1
    <3>3. hole.endLt <= lo
      BY <2>1, TxSyncAssumption DEF Positions
    <3> QED BY <2>3, <3>2, <3>3, <2>1, TxSyncAssumption DEF Positions
  <2> QED BY <2>2, <2>3, TxSyncAssumption DEF Positions
<1>4. ASSUME NEW h \in GapsOf(S), h # hole
      PROVE  h.startLt = s /\ h.endLt <= s
  <2>1. /\ h \in [startLt : Positions, endLt : Positions]
        /\ h.startLt \notin S /\ h.startLt + 1 \in S
        /\ h.endLt = NewestBelow(S, h.startLt)
    BY <1>1, GapsOfType
  <2>2. h.startLt \in {s, hi}
    BY <2>1, TxSyncAssumption DEF Positions
  <2>3. h.startLt # hi
    BY <1>4, <2>1
  <2>4. h.endLt \in {x \in S : x < s} \cup {0}
    BY <1>1, <2>1, <2>2, <2>3, NewestBelowType, TxSyncAssumption DEF Positions
  <2> QED BY <2>2, <2>3, <2>4, TxSyncAssumption DEF Positions
<1>5. hole.startLt = hi
  OBVIOUS
<1> HIDE DEF hole
<1> QED BY <1>2, <1>3, <1>4, <1>5 DEF OneHole

-----------------------------------------------------------------------------
(* The steps.                                                              *)

LEMMA InitInvariant == Init => IInv
<1> SUFFICES ASSUME Init PROVE IInv
  OBVIOUS
<1> USE TxSyncAssumption DEF Init
<1>1. TypeOK
  <2>1. job \in [first : 0..head, next : 0..head, end : 0..head, fetched : 0..Batch]
    BY DEF NoJob, Positions
  <2>2. lastProcessedLt \in startTxLt..head /\ head \in Positions
    BY DEF Positions
  <2>3. saves \in [1..MaxLt -> Nat] /\ faults \in 0..MaxFaults
    OBVIOUS
  <2> QED BY <2>1, <2>2, <2>3 DEF TypeOK, Positions, Phases
<1>2. Fresh /\ Idle /\ JobBounds
  BY DEF Fresh, Idle, JobBounds
<1>3. RestShape
  <2>1. transactions = Stored(0, 0, 0) /\ 0 \in Positions /\ startTxLt <= 0
    BY DEF Stored, Positions
  <2> QED BY <2>1 DEF RestShape
<1>4. Shape
  BY <1>3 DEF Shape
<1>5. CursorMatchesEffects
  BY DEF CursorMatchesEffects, Running
<1> QED BY <1>1, <1>2, <1>4, <1>5 DEF IInv

(* Type correctness.                                                       *)
LEMMA TypeStep ==
  ASSUME IInv, [Next]_vars
  PROVE  TypeOK'
<1> USE TxSyncAssumption DEF IInv, TypeOK, Positions, row
<1>1. CASE NewTransaction
  BY <1>1 DEF NewTransaction
<1>2. ASSUME NEW a \in ServedStates, CreateAccount(a)
      PROVE  TypeOK'
  BY <1>2 DEF CreateAccount, ServedStates, Fresh
<1>3. CASE TrackAccount
  BY <1>3 DEF TrackAccount, Phases, Running
<1>4. CASE TrackAccountFails
  BY <1>4 DEF TrackAccountFails, Phases
<1>5. CASE LoadGaps
  <2>1. transactions \in SUBSET Positions /\ 0 \notin transactions
    OBVIOUS
  <2>2. transactions \cup {0} \subseteq 0..head
    OBVIOUS
  <2>3. ASSUME NEW g \in GapsOf(transactions)
        PROVE  g \in [startLt : 0..head, endLt : 0..head]
    <3>1. /\ g \in [startLt : Positions, endLt : Positions]
          /\ g.startLt + 1 \in transactions
          /\ g.endLt = NewestBelow(transactions, g.startLt)
      BY <2>1, GapsOfType DEF Positions
    <3>2. g.endLt \in transactions \cup {0}
      BY <2>1, <3>1, NewestBelowType DEF Positions
    <3>3. g.startLt \in 0..head
      BY <2>2, <3>1
    <3>4. g.endLt \in 0..head
      BY <2>2, <3>2
    <3> QED BY <3>1, <3>3, <3>4
  <2>4. lastLt' \in 0..head
    <3>1. Max(transactions \cup {0}) \in transactions \cup {0}
      BY <2>1, NewestType
    <3> QED BY <1>5, <2>2, <3>1 DEF LoadGaps
  <2> QED BY <1>5, <2>3, <2>4 DEF LoadGaps, Phases, Running
<1>6. ASSUME NEW g \in gaps, FillGap(g)
      PROVE  TypeOK'
  <2>1. g.startLt \in 0..head /\ g.endLt \in 0..head
    OBVIOUS
  <2>2. gaps' \subseteq [startLt : 0..head, endLt : 0..head] /\ pc' \in Phases
    BY <1>6 DEF FillGap, SyncHistoryGap, Phases, Running
  <2>3. job' \in [first : 0..head, next : 0..head, end : 0..head, fetched : 0..Batch]
    <3> DEFINE end == IF g.endLt < startTxLt THEN startTxLt ELSE g.endLt
    <3>1. \/ job' = job
          \/ job' = [first |-> g.startLt, next |-> g.startLt, end |-> end, fetched |-> 0]
      BY <1>6 DEF FillGap, SyncHistoryGap
    <3>2. end \in 0..head /\ 0 \in 0..Batch
      BY <2>1
    <3> HIDE DEF end
    <3> QED BY <2>1, <3>1, <3>2
  <2> QED BY <1>6, <2>2, <2>3 DEF FillGap
<1>7. ASSUME NEW a \in ServedStates, RefreshAccount(a)
      PROVE  TypeOK'
  BY <1>7, SMTT(20) DEF RefreshAccount, SyncHistoryGap, ServedStates, Phases, Running
<1>8. ASSUME NEW k \in 1..Batch, GetTransactions(k)
      PROVE  TypeOK'
  <2>1. job' \in [first : 0..head, next : 0..head, end : 0..head, fetched : 0..Batch]
    <3>1. job' = [job EXCEPT !.fetched = k] /\ k \in 0..Batch
      BY <1>8 DEF GetTransactions
    <3> QED BY <3>1
  <2> QED BY <1>8, <2>1 DEF GetTransactions
<1>9. CASE SaveTransaction
  <2>1. job.next \in (startTxLt + 1)..head
    BY <1>9, SMTT(20) DEF SaveTransaction, JobBounds
  <2>2. transactions' \subseteq (startTxLt + 1)..head
    BY <1>9, <2>1 DEF SaveTransaction
  <2>3. job' \in [first : 0..head, next : 0..head, end : 0..head, fetched : 0..Batch]
    <3>1. job.next - 1 \in 0..head /\ job.fetched - 1 \in 0..Batch
      <4>1. job.next \in 0..head /\ 0 < job.next
        BY <2>1
      <4>2. job.fetched \in 0..Batch /\ 0 < job.fetched
        BY <1>9 DEF SaveTransaction
      <4> QED BY <4>1, <4>2, SMTT(20)
    <3>2. job' = NoJob \/ job' = [job EXCEPT !.next = @ - 1, !.fetched = @ - 1]
      BY <1>9 DEF SaveTransaction
    <3>3. NoJob \in [first : 0..head, next : 0..head, end : 0..head, fetched : 0..Batch]
      BY DEF NoJob
    <3> QED BY <3>1, <3>2, <3>3
  <2>4. pc' \in Phases /\ lastLt' \in 0..head
    BY <1>9 DEF SaveTransaction, Phases, Running
  <2> QED BY <1>9, <2>2, <2>3, <2>4 DEF SaveTransaction
<1>10. CASE GiveUp
  BY <1>10 DEF GiveUp, Fall, NoJob, Phases
<1>11. CASE SavePayments
  BY <1>11, SMTT(20) DEF SavePayments, TransactionFound, CommitPayments, CursorMatchesEffects
<1>12. CASE SavePaymentsFails
  BY <1>12, SMTT(20) DEF SavePaymentsFails, TransactionFound, CommitPayments, CursorMatchesEffects
<1>13. CASE Crash
  BY <1>13 DEF Crash, Fall, NoJob, Phases
<1>14. CASE UNCHANGED vars
  BY <1>14 DEF vars
<1> QED BY <1>1, <1>2, <1>3, <1>4, <1>5, <1>6, <1>7, <1>8, <1>9, <1>10, <1>11,
           <1>12, <1>13, <1>14 DEF Next

(* The bookkeeping of the phases and of the running sync.                  *)
LEMMA PhaseStep ==
  ASSUME IInv, [Next]_vars
  PROVE  (Fresh /\ Idle /\ JobBounds)'
<1> USE TxSyncAssumption DEF IInv, TypeOK, Positions, row, Fresh, Idle, JobBounds
<1>1. CASE NewTransaction
  BY <1>1 DEF NewTransaction
<1>2. ASSUME NEW a \in ServedStates, CreateAccount(a)
      PROVE  (Fresh /\ Idle /\ JobBounds)'
  BY <1>2 DEF CreateAccount, ServedStates
<1>3. CASE TrackAccount
  BY <1>3 DEF TrackAccount
<1>4. CASE TrackAccountFails
  BY <1>4 DEF TrackAccountFails
<1>5. CASE LoadGaps
  BY <1>5 DEF LoadGaps
<1>6. ASSUME NEW g \in gaps, FillGap(g)
      PROVE  (Fresh /\ Idle /\ JobBounds)'
  BY <1>6, SMTT(20) DEF FillGap, SyncHistoryGap
<1>7. ASSUME NEW a \in ServedStates, RefreshAccount(a)
      PROVE  (Fresh /\ Idle /\ JobBounds)'
  BY <1>7 DEF RefreshAccount, SyncHistoryGap, ServedStates
<1>8. ASSUME NEW k \in 1..Batch, GetTransactions(k)
      PROVE  (Fresh /\ Idle /\ JobBounds)'
  BY <1>8 DEF GetTransactions
<1>9. CASE SaveTransaction
  <2>1. CASE pc' = "ready"
    BY <1>9, <2>1 DEF SaveTransaction
  <2>2. CASE job' = [job EXCEPT !.next = @ - 1, !.fetched = @ - 1]
    <3>1. /\ job'.end = job.end
          /\ job'.next = job.next - 1
          /\ job'.fetched = job.fetched - 1
      BY <2>2
    <3>2. job.end + job.fetched <= job.next
      BY <1>9 DEF SaveTransaction
    <3>3. /\ job.end \in Nat /\ job.next \in Nat /\ job.fetched \in Nat
          /\ startTxLt <= job.end
      BY <1>9 DEF SaveTransaction
    <3>4. JobBounds'
      BY <1>9, <3>1, <3>2, <3>3, SMTT(20) DEF SaveTransaction
    <3>5. Fresh' /\ Idle'
      BY <1>9 DEF SaveTransaction
    <3> QED BY <3>4, <3>5
  <2> QED BY <1>9, <2>1, <2>2 DEF SaveTransaction
<1>10. CASE GiveUp
  BY <1>10 DEF GiveUp, Fall
<1>11. CASE SavePayments
  BY <1>11 DEF SavePayments, TransactionFound, CommitPayments, Running
<1>12. CASE SavePaymentsFails
  BY <1>12 DEF SavePaymentsFails, TransactionFound, CommitPayments, Running
<1>13. CASE Crash
  BY <1>13 DEF Crash, Fall
<1>14. CASE UNCHANGED vars
  BY <1>14 DEF vars
<1> QED BY <1>1, <1>2, <1>3, <1>4, <1>5, <1>6, <1>7, <1>8, <1>9, <1>10, <1>11,
           <1>12, <1>13, <1>14 DEF Next

(* The cursor and the effects of the indexer.                              *)
LEMMA CursorStep ==
  ASSUME IInv, [Next]_vars
  PROVE  CursorMatchesEffects'
<1> USE TxSyncAssumption DEF IInv, TypeOK, Positions, row, CursorMatchesEffects, Running
<1>1. CASE NewTransaction
  BY <1>1 DEF NewTransaction
<1>2. ASSUME NEW a \in ServedStates, CreateAccount(a)
      PROVE  CursorMatchesEffects'
  BY <1>2 DEF CreateAccount, ServedStates, Fresh
<1>3. CASE TrackAccount
  BY <1>3 DEF TrackAccount
<1>4. CASE TrackAccountFails
  BY <1>4 DEF TrackAccountFails
<1>5. CASE LoadGaps
  BY <1>5 DEF LoadGaps
<1>6. ASSUME NEW g \in gaps, FillGap(g)
      PROVE  CursorMatchesEffects'
  BY <1>6 DEF FillGap, SyncHistoryGap
<1>7. ASSUME NEW a \in ServedStates, RefreshAccount(a)
      PROVE  CursorMatchesEffects'
  BY <1>7 DEF RefreshAccount, SyncHistoryGap
<1>8. ASSUME NEW k \in 1..Batch, GetTransactions(k)
      PROVE  CursorMatchesEffects'
  BY <1>8 DEF GetTransactions
<1>9. CASE SaveTransaction
  BY <1>9 DEF SaveTransaction
<1>10. CASE GiveUp
  BY <1>10 DEF GiveUp, Fall
<1>11. CASE SavePayments
  <2>1. lastIndexed + 1 \in (startTxLt + 1)..head /\ pc \in Running
    BY <1>11 DEF SavePayments, TransactionFound
  <2>2. \A n \in 1..MaxLt : saves'[n] > 0 <=> saves[n] > 0 \/ n = lastIndexed + 1
    BY <1>11, <2>1 DEF SavePayments, CommitPayments
  <2>3. lastProcessedLt' = lastIndexed + 1 /\ lastIndexed' = lastIndexed + 1
    BY <1>11 DEF SavePayments, CommitPayments
  <2>4. (startTxLt + 1)..lastProcessedLt' \subseteq transactions
    BY <1>11, <2>1, <2>3, SMTT(20) DEF SavePayments, TransactionFound
  <2>5. \A n \in 1..MaxLt :
          saves'[n] > 0 <=> startTxLt < n /\ n <= lastProcessedLt'
    BY <2>1, <2>2, <2>3
  <2> QED BY <1>11, <2>1, <2>3, <2>4, <2>5 DEF SavePayments, CommitPayments
<1>12. CASE SavePaymentsFails
  <2>1. lastIndexed + 1 \in (startTxLt + 1)..head /\ pc \in Running
    BY <1>12 DEF SavePaymentsFails, TransactionFound
  <2>2. \A n \in 1..MaxLt : saves'[n] > 0 <=> saves[n] > 0 \/ n = lastIndexed + 1
    BY <1>12, <2>1 DEF SavePaymentsFails, CommitPayments
  <2>3. lastProcessedLt' = lastIndexed + 1 /\ lastIndexed' = lastIndexed
    BY <1>12 DEF SavePaymentsFails, CommitPayments
  <2>4. (startTxLt + 1)..lastProcessedLt' \subseteq transactions
    BY <1>12, <2>1, <2>3, SMTT(20) DEF SavePaymentsFails, TransactionFound
  <2>5. \A n \in 1..MaxLt :
          saves'[n] > 0 <=> startTxLt < n /\ n <= lastProcessedLt'
    BY <2>1, <2>2, <2>3
  <2> QED BY <1>12, <2>1, <2>3, <2>4, <2>5 DEF SavePaymentsFails, CommitPayments
<1>13. CASE Crash
  BY <1>13 DEF Crash, Fall
<1>14. CASE UNCHANGED vars
  BY <1>14 DEF vars
<1> QED BY <1>1, <1>2, <1>3, <1>4, <1>5, <1>6, <1>7, <1>8, <1>9, <1>10, <1>11,
           <1>12, <1>13, <1>14 DEF Next

(* Two stretches that touch are one.                                       *)
LEMMA JoinIntervals ==
  ASSUME NEW s \in Nat, NEW lo \in Nat, NEW hi \in Nat, NEW top \in Nat,
         s <= hi, hi <= lo
  PROVE  (s + 1)..lo \cup (hi + 1)..top = (s + 1)..(IF lo <= top THEN top ELSE lo)
<1>1. CASE lo <= top
  BY <1>1
<1>2. CASE top < lo
  BY <1>2
<1> QED BY <1>1, <1>2

(* Any shape is one with at most one hole: what a restart finds.           *)
LEMMA ShapeAtRest ==
  ASSUME TypeOK, Shape
  PROVE  RestShape
<1> USE TxSyncAssumption DEF TypeOK, Positions
<1>1. CASE pc \in {"starting", "untracked", "boot"}
  BY <1>1 DEF Shape
<1>2. CASE pc = "ready"
  <2>1. CASE \E top \in Positions : /\ startTxLt <= top
                                   /\ transactions = (startTxLt + 1)..top
    <3>1. PICK top \in Positions : /\ startTxLt <= top
                                   /\ transactions = (startTxLt + 1)..top
      BY <2>1
    <3>2. transactions = Stored(top, top, top)
      BY <3>1 DEF Stored
    <3> QED BY <3>1, <3>2 DEF RestShape
  <2> QED BY <1>2, <2>1 DEF Shape, ReadyShape, RestShape
<1>3. CASE pc = "sync"
  BY <1>3 DEF Shape, SyncShape, RestShape
<1> QED BY <1>1, <1>2, <1>3 DEF Phases, Running

(* Reading the gaps: the hole, if there is one, is among them.             *)
LEMMA LoadGapsShape ==
  ASSUME IInv, LoadGaps
  PROVE  ReadyShape'
<1> USE TxSyncAssumption DEF IInv, TypeOK, Positions
<1>1. PICK lo, hi, top \in Positions :
        startTxLt <= lo /\ transactions = Stored(lo, hi, top)
  BY ShapeAtRest DEF RestShape
<1>2. /\ UNCHANGED <<startTxLt, transactions>>
      /\ gaps' = GapsOf(transactions)
      /\ lastLt' = Max(transactions \cup {0})
  BY DEF LoadGaps, row
<1>3. ASSUME NEW t \in Positions, startTxLt <= t, transactions = (startTxLt + 1)..t
      PROVE  ReadyShape'
  <2>0. startTxLt \in Positions
    OBVIOUS
  <2>1. /\ \A g \in GapsOf(transactions) : g.startLt = startTxLt /\ g.endLt <= startTxLt
        /\ Max(transactions \cup {0}) <= t
    BY <2>0, <1>3, NoHoleGaps
  <2> QED BY <1>2, <1>3, <2>1 DEF ReadyShape, AtStart
<1>4. CASE lo < hi /\ hi < top
  <2>0. startTxLt \in Positions
    OBVIOUS
  <2>1. OneHole(GapsOf(transactions), startTxLt, lo, hi)
    <3>1. transactions = (startTxLt + 1)..lo \cup (hi + 1)..top
      BY <1>1 DEF Stored
    <3>2. startTxLt <= lo /\ lo < hi /\ hi < top
      BY <1>1, <1>4
    <3> HIDE DEF IInv, TypeOK, Positions
    <3> QED BY <2>0, <3>1, <3>2, OneHoleGaps
  <2>2. \E g \in gaps' : IsHole(g, lo, hi)' /\ \A h \in gaps' \ {g} : AtStart(h)'
    <3>1. PICK g \in GapsOf(transactions) :
            /\ g.startLt = hi
            /\ lo = IF g.endLt < startTxLt THEN startTxLt ELSE g.endLt
            /\ \A h \in GapsOf(transactions) \ {g} :
                 h.startLt = startTxLt /\ h.endLt <= startTxLt
      BY <2>1 DEF OneHole
    <3>2. IsHole(g, lo, hi)' /\ \A h \in GapsOf(transactions) \ {g} : AtStart(h)'
      BY <1>2, <3>1 DEF IsHole, AtStart
    <3> QED BY <1>2, <3>2
  <2> QED BY <1>1, <1>2, <1>4, <2>2 DEF ReadyShape, Stored
<1>5. CASE top <= hi
  <2>1. transactions = (startTxLt + 1)..lo
    BY <1>1, <1>5 DEF Stored
  <2> QED BY <1>1, <1>3, <2>1
<1>6. CASE hi < top /\ hi <= lo
  <2> DEFINE all == IF lo <= top THEN top ELSE lo
  <2>1. hi + 1 \in transactions
    BY <1>1, <1>6 DEF Stored
  <2>2. startTxLt <= hi
    BY <2>1
  <2>3. transactions = (startTxLt + 1)..all
    BY <1>1, <1>6, <2>2, JoinIntervals, SMTT(20) DEF Stored
  <2>4. all \in Positions /\ startTxLt <= all
    BY <1>1
  <2> HIDE DEF all
  <2> QED BY <1>3, <2>3, <2>4
<1> QED BY <1>4, <1>5, <1>6

(* Filling a gap: the hole is synced down to its lower edge, the gap under *)
(* the first transaction is nothing to sync.                               *)
LEMMA FillGapShape ==
  ASSUME IInv, NEW g \in gaps, FillGap(g)
  PROVE  Shape'
<1> USE TxSyncAssumption DEF IInv, TypeOK, Positions
<1>1. /\ pc = "ready" /\ gaps' = gaps \ {g}
      /\ UNCHANGED <<startTxLt, transactions, lastLt>>
      /\ SyncHistoryGap(g.startLt, g.endLt)
  BY DEF FillGap, row
<1>2. g.startLt \in Positions /\ g.endLt \in Positions
  OBVIOUS
<1>3. CASE AtStart(g)
  <2>1. pc' = "ready"
    BY <1>1, <1>2, <1>3 DEF SyncHistoryGap, AtStart
  <2>2. CASE \E top \in Positions :
               /\ startTxLt <= top
               /\ lastLt <= top
               /\ transactions = (startTxLt + 1)..top
               /\ \A h \in gaps : AtStart(h)
    BY <1>1, <2>1, <2>2 DEF Shape, ReadyShape, AtStart
  <2>3. ASSUME NEW lo \in Positions, NEW hi \in Positions, NEW top \in Positions,
               startTxLt <= lo, lo < hi, hi < top,
               transactions = Stored(lo, hi, top),
               NEW k \in gaps, IsHole(k, lo, hi),
               \A h \in gaps \ {k} : AtStart(h)
        PROVE  Shape'
    <3>1. g # k
      <4>1. g.startLt = startTxLt /\ k.startLt = hi
        BY <1>3, <2>3 DEF AtStart, IsHole
      <4>2. startTxLt # hi
        BY <2>3
      <4> QED BY <4>1, <4>2
    <3>2. k \in gaps' /\ IsHole(k, lo, hi)' /\ \A h \in gaps' \ {k} : AtStart(h)'
      BY <1>1, <2>3, <3>1 DEF AtStart, IsHole
    <3> QED BY <1>1, <2>1, <2>3, <3>2 DEF Shape, ReadyShape, Stored
  <2> QED BY <1>1, <2>2, <2>3 DEF Shape, ReadyShape
<1>4. CASE ~AtStart(g)
  <2>1. PICK lo, hi, top \in Positions :
          /\ startTxLt <= lo /\ lo < hi /\ hi < top
          /\ transactions = Stored(lo, hi, top)
          /\ IsHole(g, lo, hi)
          /\ \A h \in gaps \ {g} : AtStart(h)
    BY <1>1, <1>4 DEF Shape, ReadyShape
  <2>2. /\ pc' = "sync"
        /\ job' = [first |-> hi, next |-> hi, end |-> lo, fetched |-> 0]
    BY <1>1, <1>2, <2>1 DEF SyncHistoryGap, IsHole
  <2>3. \A h \in gaps' : AtStart(h)'
    BY <1>1, <2>1 DEF AtStart
  <2>4. job'.first = hi /\ job'.next = hi /\ job'.end = lo
    BY <2>2
  <2>5. transactions' = Stored(lo, job.next, top)' /\ startTxLt' <= lo
    BY <1>1, <2>1, <2>4 DEF Stored
  <2>6. hi <= top
    BY <2>1
  <2>7. SyncShape'
    <3> HIDE DEF IInv
    <3> QED BY <2>3, <2>4, <2>5, <2>6 DEF SyncShape
  <2> QED BY <2>2, <2>7 DEF Shape
<1> QED BY <1>3, <1>4

(* A refresh syncs from the served state down to lastLt, below which       *)
(* nothing is missing.                                                     *)
LEMMA RefreshShape ==
  ASSUME IInv, NEW a \in ServedStates, RefreshAccount(a)
  PROVE  Shape'
<1> USE TxSyncAssumption DEF IInv, TypeOK, Positions, ServedStates
<1>1. /\ pc = "ready" /\ gaps = {} /\ gaps' = {} /\ a >= lastLt
      /\ UNCHANGED <<startTxLt, transactions, lastLt>>
      /\ SyncHistoryGap(a, lastLt)
  BY DEF RefreshAccount
<1>2. PICK top \in Positions : /\ startTxLt <= top
                               /\ lastLt <= top
                               /\ transactions = (startTxLt + 1)..top
  BY <1>1 DEF Shape, ReadyShape
<1>3. CASE pc' = "ready"
  BY <1>1, <1>2, <1>3 DEF Shape, ReadyShape
<1>4. CASE pc' = "sync"
  <2> DEFINE end == IF lastLt < startTxLt THEN startTxLt ELSE lastLt
  <2>1. job' = [first |-> a, next |-> a, end |-> end, fetched |-> 0] /\ end <= top
    BY <1>1, <1>2, <1>4 DEF SyncHistoryGap
  <2>2. transactions' = (startTxLt + 1)..top \cup (a + 1)..a
    BY <1>1, <1>2
  <2>3. transactions' = Stored(top, job.next, a)'
    BY <1>1, <2>1, <2>2 DEF Stored
  <2>4. SyncShape'
    <3>1. /\ job'.first <= a /\ job'.next <= a /\ job'.end <= top
          /\ startTxLt' <= top
          /\ \A g \in gaps' : AtStart(g)'
      BY <1>1, <1>2, <2>1
    <3> QED BY <1>2, <2>3, <3>1 DEF SyncShape
  <2> QED BY <1>4, <2>4 DEF Shape
<1> QED BY <1>1, <1>3, <1>4 DEF SyncHistoryGap

(* Saving one more transaction narrows the hole from above; when the last  *)
(* one is saved the two pieces meet.                                       *)
LEMMA SaveTransactionShape ==
  ASSUME IInv, SaveTransaction
  PROVE  Shape'
<1> USE TxSyncAssumption DEF Positions
<1>1. /\ pc = "sync" /\ SyncShape
      /\ startTxLt \in Nat
      /\ job.first \in Nat /\ job.next \in Nat /\ job.end \in Nat /\ job.fetched \in Nat
  BY DEF SaveTransaction, IInv, TypeOK, Shape
<1>2. startTxLt < job.next
  <2>1. startTxLt <= job.end /\ job.end + job.fetched <= job.next /\ job.fetched > 0
    BY DEF SaveTransaction, IInv, JobBounds
  <2> QED BY <1>1, <2>1
<1>3. PICK lo, top \in Positions :
        /\ startTxLt <= lo
        /\ job.end <= lo
        /\ job.next <= top
        /\ job.first <= top
        /\ transactions = Stored(lo, job.next, top)
        /\ \A g \in gaps : AtStart(g)
  BY <1>1 DEF SyncShape
<1>4. lo \in Nat /\ top \in Nat
  BY <1>3
<1>5. transactions' = (startTxLt + 1)..lo \cup job.next..top
  <2>1. transactions' = transactions \cup {job.next}
    BY DEF SaveTransaction
  <2>2. {job.next} \cup (job.next + 1)..top = job.next..top
    BY <1>1, <1>3, <1>4
  <2>3. transactions' = (startTxLt + 1)..lo \cup ({job.next} \cup (job.next + 1)..top)
    BY <1>3, <2>1, Zenon DEF Stored
  <2> QED BY <2>2, <2>3
<1>6. /\ startTxLt' = startTxLt
      /\ \A g \in gaps' : AtStart(g)'
  BY <1>3 DEF SaveTransaction, AtStart, row
<1>7. CASE job.fetched = 1 /\ job.next - 1 <= job.end
  <2> DEFINE all == IF lo <= top THEN top ELSE lo
             n == job.next - 1
  <2>1. n \in Nat /\ startTxLt <= n /\ n <= lo /\ n + 1 = job.next
    BY <1>1, <1>2, <1>3, <1>4, <1>7
  <2>2. transactions' = (startTxLt + 1)..lo \cup (n + 1)..top
    BY <1>5, <2>1
  <2>3. transactions' = (startTxLt + 1)..all
    <3> HIDE DEF n
    <3> QED BY <1>1, <1>4, <2>1, <2>2, JoinIntervals
  <2>4. all \in Positions /\ startTxLt <= all /\ job.first <= all
    BY <1>1, <1>3, <1>4
  <2>5. pc' = "ready" /\ lastLt' = job.first
    BY <1>7 DEF SaveTransaction
  <2> HIDE DEF all
  <2> QED BY <1>6, <2>3, <2>4, <2>5 DEF Shape, ReadyShape
<1>8. CASE ~(job.fetched = 1 /\ job.next - 1 <= job.end)
  <2>1. pc' = "sync" /\ job' = [job EXCEPT !.next = @ - 1, !.fetched = @ - 1]
    BY <1>1, <1>8 DEF SaveTransaction
  <2>2. /\ job'.first = job.first
        /\ job'.end = job.end
        /\ job'.next = job.next - 1
    BY <2>1 DEF IInv, TypeOK
  <2>3. job'.next + 1 = job.next /\ job'.next <= top
    BY <1>1, <1>3, <1>4, <2>2
  <2>4. transactions' = Stored(lo, job.next, top)'
    BY <1>5, <1>6, <2>3 DEF Stored
  <2>5. /\ startTxLt' <= lo /\ job'.end <= lo /\ job'.first <= top
    BY <1>3, <1>6, <2>2
  <2>6. SyncShape'
    BY <1>6, <2>3, <2>4, <2>5 DEF SyncShape
  <2> QED BY <2>1, <2>6 DEF Shape
<1> QED BY <1>7, <1>8

(* The shape of what is stored.                                            *)
LEMMA ShapeStep ==
  ASSUME IInv, [Next]_vars
  PROVE  Shape'
<1> USE DEF IInv
<1>1. ASSUME UNCHANGED <<startTxLt, transactions, pc, gaps, lastLt, job>>
      PROVE  Shape'
  BY <1>1 DEF Shape, RestShape, ReadyShape, SyncShape, Stored, AtStart, IsHole
<1>2. ASSUME pc' \in {"starting", "untracked", "boot"},
             UNCHANGED <<startTxLt, transactions>>
      PROVE  Shape'
  <2>1. RestShape
    BY ShapeAtRest
  <2>2. RestShape'
    BY <1>2, <2>1 DEF RestShape, Stored
  <2> QED BY <1>2, <2>2 DEF Shape
<1>3. CASE NewTransaction
  BY <1>1, <1>3 DEF NewTransaction, row
<1>4. ASSUME NEW a \in ServedStates, CreateAccount(a)
      PROVE  Shape'
  <2>1. transactions' = {} /\ startTxLt' = a /\ pc' = "starting"
    BY <1>4 DEF CreateAccount, Fresh
  <2>2. a \in Positions
    BY TxSyncAssumption DEF ServedStates, TypeOK, Positions
  <2>3. Stored(a, a, a)' = {}
    BY <2>1, <2>2, TxSyncAssumption DEF Stored, Positions
  <2>4. RestShape'
    BY <2>1, <2>2, <2>3, TxSyncAssumption DEF RestShape, Positions
  <2> QED BY <2>1, <2>4 DEF Shape
<1>5. CASE TrackAccount
  BY <1>2, <1>5 DEF TrackAccount, row
<1>6. CASE TrackAccountFails
  BY <1>2, <1>6 DEF TrackAccountFails, row
<1>7. CASE LoadGaps
  <2>1. pc' = "ready" /\ ReadyShape'
    BY <1>7, LoadGapsShape DEF LoadGaps
  <2> QED BY <2>1 DEF Shape
<1>8. ASSUME NEW g \in gaps, FillGap(g)
      PROVE  Shape'
  BY <1>8, FillGapShape
<1>9. ASSUME NEW a \in ServedStates, RefreshAccount(a)
      PROVE  Shape'
  BY <1>9, RefreshShape
<1>10. ASSUME NEW k \in 1..Batch, GetTransactions(k)
       PROVE  Shape'
  <2>1. /\ pc = "sync" /\ pc' = "sync"
        /\ UNCHANGED <<startTxLt, transactions, gaps>>
        /\ job' = [job EXCEPT !.fetched = k]
    BY <1>10 DEF GetTransactions, row
  <2>2. /\ job'.first = job.first
        /\ job'.next = job.next
        /\ job'.end = job.end
    BY <2>1 DEF TypeOK
  <2>3. SyncShape'
    BY <2>1, <2>2 DEF Shape, SyncShape, Stored, AtStart
  <2> QED BY <2>1, <2>3 DEF Shape
<1>11. CASE SaveTransaction
  BY <1>11, SaveTransactionShape
<1>12. CASE GiveUp
  BY <1>2, <1>12 DEF GiveUp, Fall, row
<1>13. CASE SavePayments
  BY <1>1, <1>13 DEF SavePayments, CommitPayments
<1>14. CASE SavePaymentsFails
  BY <1>1, <1>14 DEF SavePaymentsFails, CommitPayments
<1>15. CASE Crash
  BY <1>2, <1>15 DEF Crash, Fall, row
<1>16. CASE UNCHANGED vars
  BY <1>1, <1>16 DEF vars, row
<1> QED BY <1>3, <1>4, <1>5, <1>6, <1>7, <1>8, <1>9, <1>10, <1>11, <1>12, <1>13,
           <1>14, <1>15, <1>16 DEF Next

(* The invariant holds in every reachable state.                           *)
THEOREM Invariance == Spec => []IInv
<1>1. Init => IInv
  BY InitInvariant
<1>2. IInv /\ [Next]_vars => IInv'
  BY TypeStep, PhaseStep, ShapeStep, CursorStep DEF IInv
<1> QED BY <1>1, <1>2, PTL DEF Spec

-----------------------------------------------------------------------------
(* The properties of the run, for every history length, batch size and     *)
(* number of faults.                                                       *)

(* Every variable of the loader, the indexer and the tables has its type:  *)
(* in particular nothing at or below start_tx_lt is ever stored.           *)
THEOREM TypeCorrect == Spec => []TypeOK
<1>1. IInv => TypeOK
  BY DEF IInv
<1> QED BY <1>1, Invariance, PTL

(* No refresh ever steps over a hole that a crash left in the history:     *)
(* with all gaps filled, everything from the start to lastLt is stored.    *)
THEOREM NoHole == Spec => []NoHoleBelowLastLt
<1>1. IInv => NoHoleBelowLastLt
  <2> SUFFICES ASSUME IInv, pc = "ready", gaps = {}
               PROVE  (startTxLt + 1)..lastLt \subseteq transactions
    BY DEF NoHoleBelowLastLt
  <2>1. PICK top \in Positions : /\ startTxLt <= top
                                 /\ lastLt <= top
                                 /\ transactions = (startTxLt + 1)..top
    BY DEF IInv, Shape, ReadyShape
  <2> QED BY <2>1, TxSyncAssumption DEF IInv, TypeOK, Positions
<1> QED BY <1>1, Invariance, PTL

(* last_processed_lt, the indexer's memory and the committed effects never *)
(* disagree by more than the one transaction being retried.                *)
THEOREM CursorCorrect == Spec => []CursorMatchesEffects
<1>1. IInv => CursorMatchesEffects
  BY DEF IInv
<1> QED BY <1>1, Invariance, PTL

-----------------------------------------------------------------------------
(* When the loader panics.                                                 *)

(* What lastLt and a running sync say about what is stored: lastLt is 0    *)
(* until something is, and a sync goes down to its end, unless it has      *)
(* begun below.                                                            *)
Downwards ==
  /\ pc = "ready" => startTxLt < lastLt \/ (lastLt = 0 /\ transactions = {})
  /\ pc = "sync" =>
       \/ job.end < job.next /\ job.next <= job.first
       \/ /\ transactions = {}
          /\ job.fetched = 0
          /\ job.first < startTxLt
          /\ job.end = startTxLt /\ job.next = job.first

(* GetGaps reports no hole that ends at the start: a gap is a hole to fill *)
(* or nothing.                                                             *)
LEMMA GapIsHoleOrNothing ==
  ASSUME IInv, NEW g \in gaps, pc = "ready"
  PROVE  AtStart(g) \/ (startTxLt < g.startLt /\ g.endLt < g.startLt)
<1> USE TxSyncAssumption DEF IInv, TypeOK, Positions
<1>1. CASE \E top \in Positions :
             /\ startTxLt <= top
             /\ lastLt <= top
             /\ transactions = (startTxLt + 1)..top
             /\ \A h \in gaps : AtStart(h)
  BY <1>1
<1>2. ASSUME NEW lo \in Positions, NEW hi \in Positions, NEW top \in Positions,
             startTxLt <= lo, lo < hi,
             NEW k \in gaps, IsHole(k, lo, hi), \A h \in gaps \ {k} : AtStart(h)
      PROVE  AtStart(g) \/ (startTxLt < g.startLt /\ g.endLt < g.startLt)
  <2>1. CASE g = k
    <3>1. g.endLt \in Nat /\ startTxLt \in Nat /\ lo \in Nat /\ hi \in Nat
      OBVIOUS
    <3>2. g.startLt = hi /\ lo = IF g.endLt < startTxLt THEN startTxLt ELSE g.endLt
      BY <1>2, <2>1 DEF IsHole
    <3>3. g.endLt <= lo /\ startTxLt < hi
      BY <1>2, <3>1, <3>2
    <3> QED
      BY <1>2, <3>1, <3>2, <3>3
  <2> QED
    BY <1>2, <2>1
<1> QED
  BY <1>1, <1>2 DEF Shape, ReadyShape

(* No step begins a sync below its end but a refresh with an old state.    *)
LEMMA DownwardsStep == IInv /\ Downwards /\ [Next]_vars => Downwards'
<1> SUFFICES ASSUME IInv, Downwards, [Next]_vars PROVE Downwards'
  OBVIOUS
<1> USE TxSyncAssumption DEF IInv, TypeOK, Positions, row, Downwards
<1>1. CASE NewTransaction
  BY <1>1 DEF NewTransaction
<1>2. ASSUME NEW a \in ServedStates, CreateAccount(a) PROVE Downwards'
  BY <1>2 DEF CreateAccount
<1>3. CASE TrackAccount
  BY <1>3 DEF TrackAccount
<1>4. CASE TrackAccountFails
  BY <1>4 DEF TrackAccountFails
<1>5. CASE LoadGaps
  <2>1. lastLt' \in transactions \cup {0} /\ pc' = "ready"
    BY <1>5, NewestType DEF LoadGaps
  <2>2. CASE transactions = {}
    BY <1>5, <2>1, <2>2 DEF LoadGaps
  <2>3. CASE transactions # {}
    <3>1. transactions \cup {0} \in SUBSET (0..MaxLt) /\ transactions \cup {0} # {}
      OBVIOUS
    <3>2. \A y \in transactions \cup {0} : y <= Max(transactions \cup {0})
      BY <3>1, MaxOfBounded
    <3>3. PICK y \in transactions : TRUE
      BY <2>3
    <3>4. y \in Nat /\ startTxLt < y
      BY <3>3
    <3>5. y <= lastLt'
      BY <1>5, <3>2 DEF LoadGaps
    <3>6. startTxLt < lastLt'
      BY <2>1, <3>4, <3>5
    <3> QED
      BY <1>5, <2>1, <3>6 DEF LoadGaps
  <2> QED
    BY <2>2, <2>3
<1>6. ASSUME NEW g \in gaps, FillGap(g) PROVE Downwards'
  <2>1. /\ pc = "ready" /\ UNCHANGED <<startTxLt, transactions, lastLt>>
        /\ SyncHistoryGap(g.startLt, g.endLt)
        /\ g.startLt \in Nat /\ g.endLt \in Nat
    BY <1>6 DEF FillGap
  <2>2. CASE AtStart(g)
    BY <2>1, <2>2 DEF SyncHistoryGap, AtStart
  <2>3. CASE startTxLt < g.startLt /\ g.endLt < g.startLt
    BY <2>1, <2>3 DEF SyncHistoryGap
  <2> QED
    BY <2>1, <2>2, <2>3, GapIsHoleOrNothing
<1>7. ASSUME NEW a \in ServedStates, RefreshAccount(a) PROVE Downwards'
  <2>1. /\ pc = "ready" /\ a >= lastLt /\ UNCHANGED <<startTxLt, transactions, lastLt>>
        /\ SyncHistoryGap(a, lastLt)
        /\ a \in Nat
    BY <1>7 DEF RefreshAccount, ServedStates
  <2>2. CASE startTxLt < lastLt
    BY <2>1, <2>2 DEF SyncHistoryGap
  <2>3. CASE lastLt = 0 /\ transactions = {}
    BY <2>1, <2>3 DEF SyncHistoryGap
  <2> QED
    BY <2>1, <2>2, <2>3
<1>8. ASSUME NEW k \in 1..Batch, GetTransactions(k) PROVE Downwards'
  <2>1. /\ pc = "sync" /\ job.end + k <= job.next /\ k \in Nat \ {0}
        /\ job' = [job EXCEPT !.fetched = k]
        /\ UNCHANGED <<pc, startTxLt, transactions, lastLt>>
    BY <1>8 DEF GetTransactions
  <2>2. job.end < job.next
    BY <2>1
  <2>3. job'.end = job.end /\ job'.next = job.next /\ job'.first = job.first
    BY <2>1
  <2> QED
    BY <2>1, <2>2, <2>3
<1>9. CASE SaveTransaction
  <2>1. /\ pc = "sync" /\ job.fetched > 0 /\ UNCHANGED startTxLt
        /\ job.end < job.next /\ job.next <= job.first
        /\ job.end + job.fetched <= job.next /\ startTxLt <= job.end
        /\ job.end \in Nat /\ job.next \in Nat /\ job.first \in Nat /\ job.fetched \in Nat
    BY <1>9 DEF SaveTransaction, JobBounds
  <2>2. CASE job.fetched = 1 /\ job.next - 1 <= job.end
    <3>1. pc' = "ready" /\ lastLt' = job.first
      BY <1>9, <2>2 DEF SaveTransaction
    <3> QED
      BY <2>1, <3>1
  <2>3. CASE ~(job.fetched = 1 /\ job.next - 1 <= job.end)
    <3>1. /\ job' = [job EXCEPT !.next = @ - 1, !.fetched = @ - 1]
          /\ UNCHANGED <<pc, lastLt>>
      BY <1>9, <2>3 DEF SaveTransaction
    <3>2. job'.end = job.end /\ job'.next = job.next - 1 /\ job'.first = job.first
      BY <3>1
    <3>3. job.end < job.next - 1
      BY <2>1, <2>3
    <3> QED
      BY <2>1, <3>1, <3>2, <3>3
  <2> QED
    BY <2>2, <2>3
<1>10. CASE GiveUp \/ Crash
  BY <1>10 DEF GiveUp, Crash, Fall
<1>11. CASE SavePayments \/ SavePaymentsFails
  BY <1>11 DEF SavePayments, SavePaymentsFails, CommitPayments
<1>12. CASE UNCHANGED vars
  BY <1>12 DEF vars
<1> QED
  BY <1>1, <1>2, <1>3, <1>4, <1>5, <1>6, <1>7, <1>8, <1>9, <1>10, <1>11, <1>12 DEF Next

(* The loader panics for want of transactions only after a refresh with an *)
(* account state older than start_tx_lt, and before it has stored anything *)
(* (loader.go:115-128).                                                    *)
THEOREM PanicsOnlyEarly == Spec => []PanicsOnlyBeforeFirst
<1>1. Init => Downwards
  BY DEF Init, Downwards
<1>2. Downwards /\ IInv => PanicsOnlyBeforeFirst
  <2> SUFFICES ASSUME Downwards, IInv, pc = "sync", job.next <= job.end
               PROVE  transactions = {} /\ job.first < startTxLt
    BY DEF PanicsOnlyBeforeFirst
  <2>1. job.end \in Nat /\ job.next \in Nat
    BY DEF IInv, TypeOK
  <2> QED
    BY <2>1 DEF Downwards
<1> QED
  BY <1>1, <1>2, DownwardsStep, Invariance, PTL DEF Spec

-----------------------------------------------------------------------------
(* The loader and the indexer implement Feed.                              *)

(* A commit hands over the next transaction, or the newest one again.      *)
LEMMA CommitIsHandOver ==
  ASSUME IInv, TransactionFound, CommitPayments
  PROVE  F!HandOver \/ F!HandOverAgain
<1> USE TxSyncAssumption DEF IInv, TypeOK, Positions
<1>1. /\ created
      /\ lastIndexed \in {lastProcessedLt, lastProcessedLt - 1}
      /\ startTxLt <= lastIndexed
      /\ lastIndexed + 1 \in transactions
  BY DEF TransactionFound, Fresh, CursorMatchesEffects, Running
<1>2. lastIndexed + 1 <= head /\ startTxLt < lastIndexed + 1
  BY <1>1
<1>3. CASE lastIndexed = lastProcessedLt
  <2>1. lastProcessedLt < head
    BY <1>2, <1>3
  <2> QED BY <1>1, <1>3, <2>1 DEF CommitPayments, F!HandOver
<1>4. CASE lastIndexed = lastProcessedLt - 1
  <2>1. lastIndexed + 1 = lastProcessedLt
    BY <1>4, <1>1
  <2> QED BY <1>1, <1>2, <2>1 DEF CommitPayments, F!HandOverAgain
<1> QED BY <1>1, <1>3, <1>4

(* Every step of the workers is a step of Feed or leaves it unchanged.     *)
LEMMA FeedStep ==
  ASSUME IInv, [Next]_vars
  PROVE  [F!Next]_F!vars
<1> USE DEF row, F!vars
<1>1. CASE NewTransaction
  BY <1>1 DEF NewTransaction, F!Next, F!Grow
<1>2. ASSUME NEW a \in ServedStates, CreateAccount(a)
      PROVE  [F!Next]_F!vars
  BY <1>2 DEF CreateAccount, ServedStates, F!Next, F!Begin
<1>3. CASE TrackAccount
  BY <1>3 DEF TrackAccount
<1>4. CASE TrackAccountFails
  BY <1>4 DEF TrackAccountFails
<1>5. CASE LoadGaps
  BY <1>5 DEF LoadGaps
<1>6. ASSUME NEW g \in gaps, FillGap(g)
      PROVE  [F!Next]_F!vars
  BY <1>6 DEF FillGap
<1>7. ASSUME NEW a \in ServedStates, RefreshAccount(a)
      PROVE  [F!Next]_F!vars
  BY <1>7 DEF RefreshAccount
<1>8. ASSUME NEW k \in 1..Batch, GetTransactions(k)
      PROVE  [F!Next]_F!vars
  BY <1>8 DEF GetTransactions
<1>9. CASE SaveTransaction
  BY <1>9 DEF SaveTransaction
<1>10. CASE GiveUp
  BY <1>10 DEF GiveUp
<1>11. CASE SavePayments
  BY <1>11, CommitIsHandOver DEF SavePayments, F!Next
<1>12. CASE SavePaymentsFails
  BY <1>12, CommitIsHandOver DEF SavePaymentsFails, F!Next
<1>13. CASE Crash
  BY <1>13 DEF Crash
<1>14. CASE UNCHANGED vars
  BY <1>14 DEF vars
<1> QED BY <1>1, <1>2, <1>3, <1>4, <1>5, <1>6, <1>7, <1>8, <1>9, <1>10, <1>11,
           <1>12, <1>13, <1>14 DEF Next

(* From the start on, SavePayments sees every transaction in chain order   *)
(* and sees again at most the newest one, whatever crashes, holes and old  *)
(* account states come in between.                                         *)
THEOREM ImplementsFeed == Spec => FeedSpec
<1>1. Init => F!Init
  BY DEF Init, Positions, F!Init
<1>2. IInv /\ [Next]_vars => [F!Next]_F!vars
  BY FeedStep
<1> QED BY <1>1, <1>2, Invariance, PTL DEF Spec, FeedSpec, F!Spec
=============================================================================
