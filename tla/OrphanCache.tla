---------------------------- MODULE OrphanCache ----------------------------
(***************************************************************************)
(* CTxOrphanCache (libs/server/txorphancache.cpp): the transactions whose  *)
(* inputs are not known yet, and the index from a missing parent to the    *)
(* orphans that spend it.  Every public method takes m_lock, so each is    *)
(* one atomic action.  The callers are the validation workers of           *)
(* TxValidationState::checkTransaction, which string several methods       *)
(* together with the lock released in between (AddOrphanTx then            *)
(* LimitOrphanTxSize; fetchTransactionsByPrev, then EraseOrphans, then     *)
(* EraseOrphansByTime), and the network thread, which erases the           *)
(* transactions of a block it received.                                    *)
(***************************************************************************)
EXTENDS Transactions, Naturals, FiniteSets

CONSTANTS
  Prevs,          \* the transaction ids that inputs refer to
  Large,          \* the transactions of more than 100000 bytes
  Workers,        \* threads that run checkTransaction
  m_limit,        \* the -maxorphantx setting
  CheckInterval,  \* the five minutes between two sweeps
  Expiry,         \* the -mempoolexpiry setting
  MaxTime         \* bound on the clock

ASSUME OrphanCacheAssumption ==
  /\ vin \in [Tx -> SUBSET Prevs]
  /\ IsFiniteSet(Workers)
  /\ m_limit \in Nat /\ CheckInterval \in Nat /\ Expiry \in Nat /\ MaxTime \in Nat

VARIABLES
  m_mapOrphanTransactions,       \* tx -> its nEntryTime
  m_mapOrphanTransactionsByPrev, \* missing parent -> set of orphans
  nLastOrphanCheck,              \* the static of EraseOrphansByTime
  now,                           \* GetTime()
  pc,                            \* what each worker has to call next
  scheduled                      \* the ids each worker fetched and posted

vars == <<m_mapOrphanTransactions, m_mapOrphanTransactionsByPrev,
          nLastOrphanCheck, now, pc, scheduled>>

Orphans == DOMAIN m_mapOrphanTransactions

Init ==
  /\ m_mapOrphanTransactions = [tx \in {} |-> 0]
  /\ m_mapOrphanTransactionsByPrev = [p \in {} |-> {}]
  /\ nLastOrphanCheck = 1
  /\ now = 1
  /\ pc = [w \in Workers |-> "idle"]
  /\ scheduled = [w \in Workers |-> {}]

\* The orphans of S that the index lists under p through one of their inputs.
Spending(S, p) == {tx \in S \cap Orphans : p \in vin[tx]}

\* EraseOrphanTx, for every member of S: only the index entries of the
\* orphan's own inputs are touched, and an entry that runs empty is dropped.
MutantErasedByPrev(S) ==
  [p \in DOMAIN m_mapOrphanTransactionsByPrev |->
     m_mapOrphanTransactionsByPrev[p] \ Spending(S, p)]

ErasedByPrev(S) ==
  [p \in {q \in DOMAIN m_mapOrphanTransactionsByPrev :
            \/ Spending(S, q) = {}
            \/ m_mapOrphanTransactionsByPrev[q] \ Spending(S, q) # {}} |->
     m_mapOrphanTransactionsByPrev[p] \ Spending(S, p)]

EraseOrphanTxs(S) ==
  /\ m_mapOrphanTransactions' =
       [tx \in Orphans \ S |-> m_mapOrphanTransactions[tx]]
  /\ m_mapOrphanTransactionsByPrev' = ErasedByPrev(S)

\* entryTime is 0 for a transaction that was never an orphan before.
Added(tx, entryTime) ==
  /\ m_mapOrphanTransactions' =
       [t \in Orphans \cup {tx} |->
          IF t \in Orphans THEN m_mapOrphanTransactions[t]
          ELSE IF entryTime = 0 THEN now ELSE entryTime]
  /\ m_mapOrphanTransactionsByPrev' =
       [p \in DOMAIN m_mapOrphanTransactionsByPrev \cup vin[tx] |->
          (IF p \in DOMAIN m_mapOrphanTransactionsByPrev
             THEN m_mapOrphanTransactionsByPrev[p] ELSE {})
          \cup (IF p \in vin[tx] THEN {tx} ELSE {})]

AddOrphanTx(w, tx, entryTime) ==
  /\ pc[w] = "idle"
  /\ IF tx \in Orphans \/ tx \in Large
       THEN UNCHANGED <<m_mapOrphanTransactions, m_mapOrphanTransactionsByPrev>>
       ELSE Added(tx, entryTime)
  /\ pc' = [pc EXCEPT ![w] = "limit"]
  /\ UNCHANGED <<nLastOrphanCheck, now, scheduled>>

\* Random orphans are evicted one by one while there are more than m_limit.
MutantLimitOrphanTxSize(w) ==
  /\ pc[w] = "limit"
  /\ \E S \in SUBSET Orphans :
       /\ IF Cardinality(Orphans) > m_limit
            THEN Cardinality(Orphans \ S) = m_limit + 1
            ELSE S = {}
       /\ EraseOrphanTxs(S)
  /\ pc' = [pc EXCEPT ![w] = "idle"]
  /\ UNCHANGED <<nLastOrphanCheck, now, scheduled>>

LimitOrphanTxSize(w) ==
  /\ pc[w] = "limit"
  /\ \E S \in SUBSET Orphans :
       /\ IF Cardinality(Orphans) > m_limit
            THEN Cardinality(Orphans \ S) = m_limit
            ELSE S = {}
       /\ EraseOrphanTxs(S)
  /\ pc' = [pc EXCEPT ![w] = "idle"]
  /\ UNCHANGED <<nLastOrphanCheck, now, scheduled>>

\* checkTransaction posts the answer to the io service for validation.
fetchTransactionsByPrev(w, txid) ==
  /\ pc[w] = "idle"
  /\ scheduled' = [scheduled EXCEPT ![w] =
       IF txid \in DOMAIN m_mapOrphanTransactionsByPrev
         THEN m_mapOrphanTransactionsByPrev[txid] ELSE {}]
  /\ pc' = [pc EXCEPT ![w] = "erase"]
  /\ UNCHANGED <<m_mapOrphanTransactions, m_mapOrphanTransactionsByPrev,
                 nLastOrphanCheck, now>>

EraseOrphans(w) ==
  /\ pc[w] = "erase"
  /\ EraseOrphanTxs(scheduled[w])
  /\ pc' = [pc EXCEPT ![w] = "expire"]
  /\ scheduled' = [scheduled EXCEPT ![w] = {}]
  /\ UNCHANGED <<nLastOrphanCheck, now>>

EraseOrphansByTime(w) ==
  /\ pc[w] = "expire"
  /\ IF now < nLastOrphanCheck + CheckInterval
       THEN UNCHANGED <<m_mapOrphanTransactions, m_mapOrphanTransactionsByPrev,
                        nLastOrphanCheck>>
       ELSE /\ EraseOrphanTxs({tx \in Orphans :
                                 m_mapOrphanTransactions[tx] + Expiry < now})
            /\ nLastOrphanCheck' = now
  /\ pc' = [pc EXCEPT ![w] = "idle"]
  /\ UNCHANGED <<now, scheduled>>

\* A block, or a reconstructed thin block, arrived with the transactions S.
EraseOrphansOfBlock(S) ==
  /\ EraseOrphanTxs(S)
  /\ UNCHANGED <<nLastOrphanCheck, now, pc, scheduled>>

clear ==
  /\ m_mapOrphanTransactions' = [tx \in {} |-> 0]
  /\ m_mapOrphanTransactionsByPrev' = [p \in {} |-> {}]
  /\ UNCHANGED <<nLastOrphanCheck, now, pc, scheduled>>

Tick ==
  /\ now < MaxTime
  /\ now' = now + 1
  /\ UNCHANGED <<m_mapOrphanTransactions, m_mapOrphanTransactionsByPrev,
                 nLastOrphanCheck, pc, scheduled>>

Next ==
  \/ \E w \in Workers, tx \in Tx : \E t \in 0 .. now : AddOrphanTx(w, tx, t)
  \/ \E w \in Workers : LimitOrphanTxSize(w)
  \/ \E w \in Workers, txid \in Prevs : fetchTransactionsByPrev(w, txid)
  \/ \E w \in Workers : EraseOrphans(w)
  \/ \E w \in Workers : EraseOrphansByTime(w)
  \/ \E S \in SUBSET Tx : EraseOrphansOfBlock(S)
  \/ clear
  \/ Tick

Spec == Init /\ [][Next]_vars

-----------------------------------------------------------------------------

\* The shape of the two maps, of the clocks and of the workers' progress.
TypeOK ==
  /\ m_mapOrphanTransactions \in [Orphans -> Nat]
  /\ Orphans \subseteq Tx /\ IsFiniteSet(Orphans)
  /\ m_mapOrphanTransactionsByPrev \in
       [DOMAIN m_mapOrphanTransactionsByPrev -> SUBSET Tx]
  /\ DOMAIN m_mapOrphanTransactionsByPrev \subseteq Prevs
  /\ nLastOrphanCheck \in Nat /\ now \in Nat
  /\ pc \in [Workers -> {"idle", "limit", "erase", "expire"}]
  /\ scheduled \in [Workers -> SUBSET Tx]

\* The index by parent lists exactly the orphans that spend from the parent
\* and has no empty entry.  fetchTransactionsByPrev relies on it: it looks up
\* every listed id with map::at, which throws for an id that is not cached.
IndexIsExact ==
  /\ DOMAIN m_mapOrphanTransactionsByPrev = UNION {vin[tx] : tx \in Orphans}
  /\ \A p \in DOMAIN m_mapOrphanTransactionsByPrev :
       m_mapOrphanTransactionsByPrev[p] = {tx \in Orphans : p \in vin[tx]}

\* "Do not allow CTxOrphanCache to grow unbounded": the cache exceeds its limit
\* by at most one orphan per worker that is between its AddOrphanTx and its
\* LimitOrphanTxSize, two calls that take the lock separately.
BoundedByLimit ==
  Cardinality(Orphans) <= m_limit + Cardinality({w \in Workers : pc[w] = "limit"})
=============================================================================
