------------------------- MODULE TransactionProofs -------------------------
(***************************************************************************)
(* The two stores of transactions.  The orphan cache keeps its maps        *)
(* consistent and its size bounded, for any transactions, any number of    *)
(* workers and any limit.  Every method of the memory pool keeps it        *)
(* consistent: what mapNextTx and mapLinks say is what the transactions'   *)
(* inputs say, and no total is too low, for any set of transactions.       *)
(***************************************************************************)
EXTENDS OrphanCache, Mempool, FiniteSetTheorems, TLAPS

-----------------------------------------------------------------------------
(* The orphan cache.                                                       *)

\* The three invariants together are inductive.
Inv == TypeOK /\ IndexIsExact /\ BoundedByLimit

\* The workers that have added an orphan and not yet enforced the limit.
Limiting == {w \in Workers : pc[w] = "limit"}

LEMMA LimitingFinite == IsFiniteSet(Limiting) /\ Cardinality(Limiting) \in Nat
  BY OrphanCacheAssumption, FS_Subset, FS_CardinalityType DEF Limiting

\* EraseOrphanTx keeps the maps typed and the index exact, whatever it erases.
LEMMA EraseKeepsIndex ==
  ASSUME TypeOK, IndexIsExact, NEW S, EraseOrphanTxs(S)
  PROVE  /\ m_mapOrphanTransactions' \in [Orphans' -> Nat]
         /\ Orphans' = Orphans \ S
         /\ Orphans' \subseteq Tx /\ IsFiniteSet(Orphans')
         /\ m_mapOrphanTransactionsByPrev' \in
              [DOMAIN m_mapOrphanTransactionsByPrev' -> SUBSET Tx]
         /\ DOMAIN m_mapOrphanTransactionsByPrev' \subseteq Prevs
         /\ IndexIsExact'
  <1>1. Orphans' = Orphans \ S
    BY DEF EraseOrphanTxs, Orphans
  <1>2. /\ m_mapOrphanTransactions' \in [Orphans' -> Nat]
        /\ Orphans' \subseteq Tx
    BY <1>1 DEF EraseOrphanTxs, TypeOK
  <1>3. IsFiniteSet(Orphans')
    BY <1>1, FS_Difference DEF TypeOK
  <1>4. ASSUME NEW q \in DOMAIN m_mapOrphanTransactionsByPrev
        PROVE  /\ m_mapOrphanTransactionsByPrev[q] = {tx \in Orphans : q \in vin[tx]}
               /\ Spending(S, q) = {tx \in S \cap Orphans : q \in vin[tx]}
               /\ m_mapOrphanTransactionsByPrev[q] \ Spending(S, q)
                    = {tx \in Orphans \ S : q \in vin[tx]}
               /\ m_mapOrphanTransactionsByPrev[q] # {}
    BY <1>4 DEF IndexIsExact, Spending
  <1>5. DOMAIN m_mapOrphanTransactionsByPrev' =
          {q \in DOMAIN m_mapOrphanTransactionsByPrev :
             {tx \in Orphans \ S : q \in vin[tx]} # {}}
    <2>1. DOMAIN m_mapOrphanTransactionsByPrev' =
            {q \in DOMAIN m_mapOrphanTransactionsByPrev :
               \/ Spending(S, q) = {}
               \/ m_mapOrphanTransactionsByPrev[q] \ Spending(S, q) # {}}
      BY DEF EraseOrphanTxs, ErasedByPrev
    <2>2. ASSUME NEW q \in DOMAIN m_mapOrphanTransactionsByPrev
          PROVE  (\/ Spending(S, q) = {}
                  \/ m_mapOrphanTransactionsByPrev[q] \ Spending(S, q) # {})
                 <=> {tx \in Orphans \ S : q \in vin[tx]} # {}
      BY <1>4
    <2>3. QED
      BY <2>1, <2>2
  <1>6. ASSUME NEW q \in DOMAIN m_mapOrphanTransactionsByPrev'
        PROVE  m_mapOrphanTransactionsByPrev'[q] = {tx \in Orphans \ S : q \in vin[tx]}
    <2>1. q \in DOMAIN m_mapOrphanTransactionsByPrev
      BY <1>5
    <2>2. m_mapOrphanTransactionsByPrev'[q]
            = m_mapOrphanTransactionsByPrev[q] \ Spending(S, q)
      BY <1>6 DEF EraseOrphanTxs, ErasedByPrev
    <2>3. QED
      BY <2>1, <2>2, <1>4
  <1>7. DOMAIN m_mapOrphanTransactionsByPrev' = UNION {vin[tx] : tx \in Orphans'}
    BY <1>1, <1>5 DEF IndexIsExact
  <1>8. IndexIsExact'
    BY <1>1, <1>6, <1>7 DEF IndexIsExact
  <1>9. /\ m_mapOrphanTransactionsByPrev' \in
             [DOMAIN m_mapOrphanTransactionsByPrev' -> SUBSET Tx]
        /\ DOMAIN m_mapOrphanTransactionsByPrev' \subseteq Prevs
    <2>1. m_mapOrphanTransactionsByPrev' =
            [p \in DOMAIN m_mapOrphanTransactionsByPrev' |->
               m_mapOrphanTransactionsByPrev'[p]]
      BY DEF EraseOrphanTxs, ErasedByPrev
    <2>2. \A p \in DOMAIN m_mapOrphanTransactionsByPrev' :
            m_mapOrphanTransactionsByPrev'[p] \in SUBSET Tx
      BY <1>6, <1>1, <1>2
    <2>3. DOMAIN m_mapOrphanTransactionsByPrev' \subseteq Prevs
      BY <1>5 DEF TypeOK
    <2>4. QED
      BY <2>1, <2>2, <2>3
  <1>10. QED
    BY <1>1, <1>2, <1>3, <1>8, <1>9

\* Erasing while nobody enters or leaves the window keeps the bound.
LEMMA EraseKeepsBound ==
  ASSUME TypeOK, BoundedByLimit, NEW S, Orphans' = Orphans \ S,
         Limiting' = Limiting
  PROVE  BoundedByLimit'
  <1>1. /\ Cardinality(Orphans \ S) \in Nat
        /\ Cardinality(Orphans) \in Nat
        /\ Cardinality(Orphans \ S) <= Cardinality(Orphans)
    BY FS_Subset, FS_Difference, FS_CardinalityType DEF TypeOK
  <1>2. Cardinality(Orphans) <= m_limit + Cardinality(Limiting)
    BY DEF BoundedByLimit, Limiting
  <1> DEFINE before == Cardinality(Orphans)
             after  == Cardinality(Orphans \ S)
             window == Cardinality(Limiting)
  <1>3. window \in Nat
    BY LimitingFinite, FS_CardinalityType
  <1> HIDE DEF before, after, window
  <1>4. after <= m_limit + window
    <2>1. before \in Nat /\ after \in Nat /\ after <= before /\ before <= m_limit + window
      BY <1>1, <1>2 DEF before, after, window
    <2>2. QED
      BY <1>3, <2>1, OrphanCacheAssumption
  <1>5. QED
    BY <1>4 DEF BoundedByLimit, Limiting, after, window

LEMMA InitInv == Init => Inv
  <1> SUFFICES ASSUME Init PROVE Inv
    OBVIOUS
  <1>1. Orphans = {} /\ IsFiniteSet(Orphans) /\ Cardinality(Orphans) = 0
    BY FS_EmptySet DEF Init, Orphans
  <1>2. TypeOK
    BY <1>1 DEF Init, TypeOK, Orphans
  <1>3. IndexIsExact
    BY <1>1 DEF Init, IndexIsExact
  <1>4. BoundedByLimit
    BY <1>1, LimitingFinite, OrphanCacheAssumption DEF BoundedByLimit, Limiting
  <1>5. QED
    BY <1>2, <1>3, <1>4 DEF Inv

\* An orphan that is added enters the index under each of its inputs, and the
\* worker that added it pays for it in the bound until it enforces the limit.
LEMMA AddOrphanTxInv ==
  ASSUME Inv, NEW w \in Workers, NEW tx \in Tx, NEW t \in Nat, AddOrphanTx(w, tx, t)
  PROVE  Inv'
  <1> USE DEF Inv
  <1>1. /\ Limiting' = Limiting \cup {w} /\ w \notin Limiting
        /\ Cardinality(Limiting') = Cardinality(Limiting) + 1
    <2>1. Limiting' = Limiting \cup {w} /\ w \notin Limiting
      BY DEF AddOrphanTx, Limiting, TypeOK
    <2>2. QED
      BY <2>1, LimitingFinite, FS_AddElement
  <1>2. CASE tx \in Orphans \/ tx \in Large
    <2>1. UNCHANGED <<m_mapOrphanTransactions, m_mapOrphanTransactionsByPrev, Orphans>>
      BY <1>2 DEF AddOrphanTx, Orphans
    <2>2. TypeOK'
      BY <2>1 DEF AddOrphanTx, TypeOK
    <2>3. IndexIsExact'
      BY <2>1 DEF IndexIsExact
    <2>4. BoundedByLimit'
      <3>1. Cardinality(Orphans) \in Nat
        BY FS_CardinalityType DEF TypeOK
      <3>2. QED
        BY <3>1, <2>1, <1>1, LimitingFinite, OrphanCacheAssumption
           DEF BoundedByLimit, Limiting
    <2>5. QED
      BY <2>2, <2>3, <2>4
  <1>3. CASE ~(tx \in Orphans \/ tx \in Large)
    <2>1. Added(tx, t)
      BY <1>3 DEF AddOrphanTx
    <2>2. /\ Orphans' = Orphans \cup {tx} /\ IsFiniteSet(Orphans')
          /\ Cardinality(Orphans') = Cardinality(Orphans) + 1
          /\ Cardinality(Orphans) \in Nat
      <3>1. Orphans' = Orphans \cup {tx}
        BY <2>1 DEF Added, Orphans
      <3>2. QED
        BY <3>1, <1>3, FS_AddElement, FS_CardinalityType DEF TypeOK
    <2>3. vin[tx] \subseteq Prevs
      BY OrphanCacheAssumption
    <2>4. TypeOK'
      <3>1. m_mapOrphanTransactions' \in [Orphans' -> Nat]
        BY <2>1, <2>2 DEF Added, TypeOK
      <3>2. /\ m_mapOrphanTransactionsByPrev' \in
                 [DOMAIN m_mapOrphanTransactionsByPrev' -> SUBSET Tx]
            /\ DOMAIN m_mapOrphanTransactionsByPrev' \subseteq Prevs
        BY <2>1, <2>3 DEF Added, TypeOK
      <3>3. QED
        BY <3>1, <3>2, <2>2 DEF TypeOK, AddOrphanTx
    <2>5. IndexIsExact'
      <3>1. DOMAIN m_mapOrphanTransactionsByPrev'
              = DOMAIN m_mapOrphanTransactionsByPrev \cup vin[tx]
        BY <2>1 DEF Added
      <3>2. DOMAIN m_mapOrphanTransactionsByPrev' = UNION {vin[u] : u \in Orphans'}
        BY <3>1, <2>2 DEF IndexIsExact
      <3>3. ASSUME NEW p \in DOMAIN m_mapOrphanTransactionsByPrev'
            PROVE  m_mapOrphanTransactionsByPrev'[p] = {u \in Orphans' : p \in vin[u]}
        <4>1. m_mapOrphanTransactionsByPrev'[p] =
                (IF p \in DOMAIN m_mapOrphanTransactionsByPrev
                   THEN m_mapOrphanTransactionsByPrev[p] ELSE {})
                \cup (IF p \in vin[tx] THEN {tx} ELSE {})
          BY <2>1, <3>1 DEF Added
        <4>2. CASE p \in DOMAIN m_mapOrphanTransactionsByPrev
          BY <4>1, <4>2, <2>2 DEF IndexIsExact
        <4>3. CASE p \notin DOMAIN m_mapOrphanTransactionsByPrev
          <5>1. {u \in Orphans : p \in vin[u]} = {}
            BY <4>3 DEF IndexIsExact
          <5>2. QED
            BY <4>1, <4>3, <5>1, <2>2
        <4>4. QED
          BY <4>2, <4>3
      <3>4. QED
        BY <3>2, <3>3 DEF IndexIsExact
    <2>6. BoundedByLimit'
      BY <2>2, <1>1, LimitingFinite, OrphanCacheAssumption DEF BoundedByLimit, Limiting
    <2>7. QED
      BY <2>4, <2>5, <2>6
  <1>4. QED
    BY <1>2, <1>3

\* After LimitOrphanTxSize at most m_limit orphans are left, so the bound no
\* longer needs the worker that just left the window.
LEMMA LimitOrphanTxSizeInv ==
  ASSUME Inv, NEW w \in Workers, LimitOrphanTxSize(w)
  PROVE  Inv'
  <1> USE DEF Inv
  <1>1. PICK S \in SUBSET Orphans :
          /\ IF Cardinality(Orphans) > m_limit
               THEN Cardinality(Orphans \ S) = m_limit ELSE S = {}
          /\ EraseOrphanTxs(S)
    BY DEF LimitOrphanTxSize
  <1>2. IndexIsExact' /\ TypeOK' /\ Orphans' = Orphans \ S
    BY <1>1, EraseKeepsIndex DEF TypeOK, LimitOrphanTxSize
  <1>3. IsFiniteSet(Limiting') /\ Cardinality(Limiting') \in Nat
    BY OrphanCacheAssumption, FS_Subset, FS_CardinalityType DEF Limiting
  <1>4. Cardinality(Orphans') <= m_limit
    <2>1. Cardinality(Orphans) \in Nat
      BY FS_CardinalityType DEF TypeOK
    <2>2. CASE Cardinality(Orphans) > m_limit
      BY <1>1, <1>2, <2>2, OrphanCacheAssumption
    <2>3. CASE ~(Cardinality(Orphans) > m_limit)
      <3>1. Orphans' = Orphans
        BY <1>1, <1>2, <2>3
      <3>2. QED
        BY <3>1, <2>3, <2>1, OrphanCacheAssumption
    <2>4. QED
      BY <2>2, <2>3
  <1>5. Cardinality(Orphans') \in Nat
    BY <1>2, FS_CardinalityType DEF TypeOK
  <1>6. BoundedByLimit'
    BY <1>3, <1>4, <1>5, OrphanCacheAssumption DEF BoundedByLimit, Limiting
  <1>7. QED
    BY <1>2, <1>6

\* Every other action only erases orphans, or touches neither map, and moves
\* no worker into or out of the window.
LEMMA NextInv == Inv /\ [Next]_vars => Inv'
  <1> SUFFICES ASSUME Inv, [Next]_vars PROVE Inv'
    OBVIOUS
  <1> USE DEF Inv
  <1>1. ASSUME NEW w \in Workers, NEW tx \in Tx, NEW t \in 0 .. now, AddOrphanTx(w, tx, t)
        PROVE  Inv'
    BY <1>1, AddOrphanTxInv DEF TypeOK
  <1>2. ASSUME NEW w \in Workers, LimitOrphanTxSize(w)
        PROVE  Inv'
    BY <1>2, LimitOrphanTxSizeInv
  <1>3. ASSUME NEW w \in Workers, NEW txid \in Prevs, fetchTransactionsByPrev(w, txid)
        PROVE  Inv'
    <2>1. Orphans' = Orphans /\ Limiting' = Limiting
      BY <1>3 DEF fetchTransactionsByPrev, Orphans, Limiting, TypeOK
    <2>2. TypeOK'
      BY <1>3, <2>1 DEF fetchTransactionsByPrev, TypeOK
    <2>3. IndexIsExact' /\ BoundedByLimit'
      BY <1>3, <2>1 DEF fetchTransactionsByPrev, IndexIsExact, BoundedByLimit, Limiting
    <2>4. QED
      BY <2>2, <2>3
  <1>4. ASSUME NEW w \in Workers, EraseOrphans(w)
        PROVE  Inv'
    <2>1. EraseOrphanTxs(scheduled[w]) /\ Limiting' = Limiting
      BY <1>4 DEF EraseOrphans, Limiting, TypeOK
    <2>2. IndexIsExact' /\ TypeOK' /\ Orphans' = Orphans \ scheduled[w]
      BY <1>4, <2>1, EraseKeepsIndex DEF TypeOK, EraseOrphans
    <2>3. QED
      BY <2>1, <2>2, EraseKeepsBound
  <1>5. ASSUME NEW w \in Workers, EraseOrphansByTime(w)
        PROVE  Inv'
    <2>1. Limiting' = Limiting
      BY <1>5 DEF EraseOrphansByTime, Limiting, TypeOK
    <2>2. CASE now < nLastOrphanCheck + CheckInterval
      <3>1. UNCHANGED <<m_mapOrphanTransactions, m_mapOrphanTransactionsByPrev, Orphans>>
        BY <1>5, <2>2 DEF EraseOrphansByTime, Orphans
      <3>2. TypeOK'
        BY <1>5, <2>2, <3>1 DEF EraseOrphansByTime, TypeOK
      <3>3. QED
        BY <3>1, <3>2, <2>1 DEF IndexIsExact, BoundedByLimit, Limiting
    <2>3. CASE ~(now < nLastOrphanCheck + CheckInterval)
      <3>1. PICK S : EraseOrphanTxs(S)
        BY <1>5, <2>3 DEF EraseOrphansByTime
      <3>2. IndexIsExact' /\ TypeOK' /\ Orphans' = Orphans \ S
        BY <1>5, <2>3, <3>1, EraseKeepsIndex DEF TypeOK, EraseOrphansByTime
      <3>3. QED
        BY <2>1, <3>2, EraseKeepsBound
    <2>4. QED
      BY <2>2, <2>3
  <1>6. ASSUME NEW S \in SUBSET Tx, EraseOrphansOfBlock(S)
        PROVE  Inv'
    <2>1. EraseOrphanTxs(S) /\ Limiting' = Limiting
      BY <1>6 DEF EraseOrphansOfBlock, Limiting
    <2>2. IndexIsExact' /\ TypeOK' /\ Orphans' = Orphans \ S
      BY <1>6, <2>1, EraseKeepsIndex DEF TypeOK, EraseOrphansOfBlock
    <2>3. QED
      BY <2>1, <2>2, EraseKeepsBound
  <1>7. CASE clear
    <2>1. Orphans' = {} /\ Orphans' = Orphans \ Orphans /\ Limiting' = Limiting
      BY <1>7 DEF clear, Orphans, Limiting
    <2>2. TypeOK'
      BY <1>7, <2>1, FS_EmptySet DEF clear, TypeOK
    <2>3. IndexIsExact'
      BY <1>7, <2>1 DEF clear, IndexIsExact
    <2>4. QED
      BY <2>1, <2>2, <2>3, EraseKeepsBound
  <1>8. CASE Tick
    <2>1. Orphans' = Orphans /\ Limiting' = Limiting
      BY <1>8 DEF Tick, Orphans, Limiting
    <2>2. QED
      BY <1>8, <2>1 DEF Tick, TypeOK, IndexIsExact, BoundedByLimit, Limiting
  <1>9. CASE UNCHANGED vars
    <2>1. Orphans' = Orphans /\ Limiting' = Limiting
      BY <1>9 DEF vars, Orphans, Limiting
    <2>2. QED
      BY <1>9, <2>1 DEF vars, TypeOK, IndexIsExact, BoundedByLimit, Limiting
  <1>10. QED
    BY <1>1, <1>2, <1>3, <1>4, <1>5, <1>6, <1>7, <1>8, <1>9 DEF Next

\* Type correctness of the orphan cache.
THEOREM TypeCorrect == Spec => []TypeOK
  BY InitInv, NextInv, PTL DEF Spec, Inv

\* The index by parent is exact in every reachable state, so the map::at of
\* fetchTransactionsByPrev never throws.
THEOREM IndexAlwaysExact == Spec => []IndexIsExact
  BY InitInv, NextInv, PTL DEF Spec, Inv

\* The cache never exceeds its limit by more than the workers that are about
\* to enforce it.
THEOREM AlwaysBounded == Spec => []BoundedByLimit
  BY InitInv, NextInv, PTL DEF Spec, Inv

-----------------------------------------------------------------------------
(* The memory pool: a consistent pool.                                     *)

SpendsFrom(c, tx) == \E o \in prevouts[c] : o[1] = tx

PoolShape(pool) ==
  /\ pool = [mapTx |-> pool.mapTx, mapNextTx |-> pool.mapNextTx,
             mapLinks |-> pool.mapLinks]
  /\ DOMAIN pool.mapTx \subseteq Tx /\ IsFiniteSet(DOMAIN pool.mapTx)
  /\ pool.mapTx \in [DOMAIN pool.mapTx -> Nat]
  /\ pool.mapLinks \in [DOMAIN pool.mapTx ->
                          [parents : SUBSET Tx, children : SUBSET Tx]]

PoolSpends(pool) ==
  /\ DOMAIN pool.mapNextTx = UNION {prevouts[tx] : tx \in DOMAIN pool.mapTx}
  /\ \A tx \in DOMAIN pool.mapTx : \A o \in prevouts[tx] : pool.mapNextTx[o] = tx

PoolLinks(pool) ==
  \A tx \in DOMAIN pool.mapTx :
    /\ pool.mapLinks[tx].parents = DOMAIN pool.mapTx \cap {o[1] : o \in prevouts[tx]}
    /\ pool.mapLinks[tx].children = {c \in DOMAIN pool.mapTx : SpendsFrom(c, tx)}

PoolCounts(pool) ==
  \A tx \in DOMAIN pool.mapTx :
    pool.mapTx[tx] >= Cardinality(CalculateDescendants(pool, {tx}))

PoolOK(pool) ==
  PoolShape(pool) /\ PoolSpends(pool) /\ PoolLinks(pool) /\ PoolCounts(pool)

\* What the intersection of the closed sets is: closed itself, and the least.
LEMMA ReachableLeast ==
  ASSUME NEW links, NEW S \in SUBSET DOMAIN links,
         \A d \in DOMAIN links : links[d] \subseteq DOMAIN links
  PROVE  /\ Reachable(links, S) \subseteq DOMAIN links
         /\ S \subseteq Reachable(links, S)
         /\ \A d \in Reachable(links, S) : links[d] \subseteq Reachable(links, S)
         /\ \A D \in SUBSET DOMAIN links :
              (S \subseteq D /\ \A d \in D : links[d] \subseteq D)
                => Reachable(links, S) \subseteq D
  <1>1. Reachable(links, S) \subseteq DOMAIN links /\ S \subseteq Reachable(links, S)
    BY DEF Reachable
  <1>2. ASSUME NEW D \in SUBSET DOMAIN links,
               S \subseteq D, \A d \in D : links[d] \subseteq D
        PROVE  Reachable(links, S) \subseteq D
    BY <1>2 DEF Reachable
  <1>3. ASSUME NEW d \in Reachable(links, S), NEW e \in links[d]
        PROVE  e \in Reachable(links, S)
    <2>1. e \in DOMAIN links
      BY <1>1
    <2>2. ASSUME NEW D \in SUBSET DOMAIN links,
                 S \subseteq D, \A x \in D : links[x] \subseteq D
          PROVE  e \in D
      BY <2>2, <1>2
    <2>3. QED
      BY <2>1, <2>2 DEF Reachable
  <1>4. QED
    BY <1>1, <1>2, <1>3

\* The two directions of the links, as the two closures use them.
LEMMA LinksWithin ==
  ASSUME NEW pool, PoolShape(pool), PoolLinks(pool)
  PROVE  /\ DOMAIN pool.mapLinks = DOMAIN pool.mapTx
         /\ \A tx \in DOMAIN pool.mapTx :
              /\ pool.mapLinks[tx].parents \subseteq DOMAIN pool.mapTx
              /\ pool.mapLinks[tx].children \subseteq DOMAIN pool.mapTx
         /\ \A p, c \in DOMAIN pool.mapTx :
              /\ p \in pool.mapLinks[c].parents <=> SpendsFrom(c, p)
              /\ c \in pool.mapLinks[p].children <=> SpendsFrom(c, p)
  <1>1. DOMAIN pool.mapLinks = DOMAIN pool.mapTx
    BY DEF PoolShape
  <1>2. ASSUME NEW p \in DOMAIN pool.mapTx, NEW c \in DOMAIN pool.mapTx
        PROVE  /\ p \in pool.mapLinks[c].parents <=> SpendsFrom(c, p)
               /\ c \in pool.mapLinks[p].children <=> SpendsFrom(c, p)
    BY DEF PoolLinks, SpendsFrom
  <1>3. QED
    BY <1>1, <1>2 DEF PoolLinks

LEMMA DescendantsLeast ==
  ASSUME NEW pool, PoolShape(pool), PoolLinks(pool),
         NEW S \in SUBSET DOMAIN pool.mapTx
  PROVE  LET R == CalculateDescendants(pool, S) IN
         /\ R \subseteq DOMAIN pool.mapTx /\ S \subseteq R
         /\ \A d \in R : pool.mapLinks[d].children \subseteq R
         /\ \A D \in SUBSET DOMAIN pool.mapTx :
              (S \subseteq D /\ \A d \in D : pool.mapLinks[d].children \subseteq D)
                => R \subseteq D
  <1> DEFINE links == [tx \in DOMAIN pool.mapLinks |-> pool.mapLinks[tx].children]
  <1>1. /\ DOMAIN links = DOMAIN pool.mapTx
        /\ \A d \in DOMAIN pool.mapTx : links[d] = pool.mapLinks[d].children
        /\ \A d \in DOMAIN links : links[d] \subseteq DOMAIN links
    BY LinksWithin
  <1>2. CalculateDescendants(pool, S) = Reachable(links, S)
    BY DEF CalculateDescendants
  <1> HIDE DEF links
  <1>3. /\ Reachable(links, S) \subseteq DOMAIN links
        /\ S \subseteq Reachable(links, S)
        /\ \A d \in Reachable(links, S) : links[d] \subseteq Reachable(links, S)
        /\ \A D \in SUBSET DOMAIN links :
             (S \subseteq D /\ \A d \in D : links[d] \subseteq D)
               => Reachable(links, S) \subseteq D
    BY <1>1, ReachableLeast
  <1>4. QED
    BY <1>1, <1>2, <1>3

LEMMA AncestorsLeast ==
  ASSUME NEW pool, PoolShape(pool), PoolLinks(pool),
         NEW S \in SUBSET DOMAIN pool.mapTx
  PROVE  LET R == CalculateMemPoolAncestors(pool, S) IN
         /\ R \subseteq DOMAIN pool.mapTx /\ S \subseteq R
         /\ \A d \in R : pool.mapLinks[d].parents \subseteq R
         /\ \A D \in SUBSET DOMAIN pool.mapTx :
              (S \subseteq D /\ \A d \in D : pool.mapLinks[d].parents \subseteq D)
                => R \subseteq D
  <1> DEFINE links == [tx \in DOMAIN pool.mapLinks |-> pool.mapLinks[tx].parents]
  <1>1. /\ DOMAIN links = DOMAIN pool.mapTx
        /\ \A d \in DOMAIN pool.mapTx : links[d] = pool.mapLinks[d].parents
        /\ \A d \in DOMAIN links : links[d] \subseteq DOMAIN links
    BY LinksWithin
  <1>2. CalculateMemPoolAncestors(pool, S) = Reachable(links, S)
    BY DEF CalculateMemPoolAncestors
  <1> HIDE DEF links
  <1>3. /\ Reachable(links, S) \subseteq DOMAIN links
        /\ S \subseteq Reachable(links, S)
        /\ \A d \in Reachable(links, S) : links[d] \subseteq Reachable(links, S)
        /\ \A D \in SUBSET DOMAIN links :
             (S \subseteq D /\ \A d \in D : links[d] \subseteq D)
               => Reachable(links, S) \subseteq D
    BY <1>1, ReachableLeast
  <1>4. QED
    BY <1>1, <1>2, <1>3

\* Ancestors and descendants are the same relation read in both directions.
LEMMA DescendantHasAncestor ==
  ASSUME NEW pool, PoolShape(pool), PoolLinks(pool),
         NEW t \in DOMAIN pool.mapTx, NEW S \in SUBSET DOMAIN pool.mapTx,
         NEW d \in S, d \in CalculateDescendants(pool, {t})
  PROVE  t \in CalculateMemPoolAncestors(pool, S)
  <1> DEFINE A == CalculateMemPoolAncestors(pool, S)
             D == {y \in DOMAIN pool.mapTx : y \in A => t \in A}
  <1>1. /\ S \subseteq A
        /\ \A y \in A : pool.mapLinks[y].parents \subseteq A
    BY AncestorsLeast
  <1>2. \A y \in D : pool.mapLinks[y].children \subseteq D
    <2> HIDE DEF A
    <2>1. ASSUME NEW y \in D, NEW z \in pool.mapLinks[y].children, z \in A
          PROVE  t \in A
      BY <2>1, <1>1, LinksWithin
    <2>2. QED
      BY <2>1, LinksWithin
  <1>3. CalculateDescendants(pool, {t}) \subseteq D
    <2>1. {t} \in SUBSET DOMAIN pool.mapTx /\ {t} \subseteq D /\ D \in SUBSET DOMAIN pool.mapTx
      OBVIOUS
    <2> HIDE DEF D
    <2>2. QED
      BY <2>1, <1>2, DescendantsLeast
  <1>4. QED
    BY <1>1, <1>3

LEMMA AncestorHasDescendant ==
  ASSUME NEW pool, PoolShape(pool), PoolLinks(pool),
         NEW t \in DOMAIN pool.mapTx, NEW x \in DOMAIN pool.mapTx,
         t \in CalculateMemPoolAncestors(pool, pool.mapLinks[x].parents)
  PROVE  x \in CalculateDescendants(pool, {t})
  <1> DEFINE Desc(y) == CalculateDescendants(pool, {y})
             D == {y \in DOMAIN pool.mapTx : x \in Desc(y)}
  <1>1. ASSUME NEW y \in DOMAIN pool.mapTx
        PROVE  /\ y \in Desc(y) /\ Desc(y) \subseteq DOMAIN pool.mapTx
               /\ \A d \in Desc(y) : pool.mapLinks[d].children \subseteq Desc(y)
               /\ \A E \in SUBSET DOMAIN pool.mapTx :
                    (y \in E /\ \A d \in E : pool.mapLinks[d].children \subseteq E)
                      => Desc(y) \subseteq E
    <2>1. {y} \in SUBSET DOMAIN pool.mapTx
      OBVIOUS
    <2>2. QED
      BY <2>1, DescendantsLeast
  <1> HIDE DEF Desc
  <1>2. pool.mapLinks[x].parents \subseteq D
    <2>1. ASSUME NEW p \in pool.mapLinks[x].parents
          PROVE  p \in D
      <3>1. p \in DOMAIN pool.mapTx /\ x \in pool.mapLinks[p].children
        BY LinksWithin
      <3>2. QED
        BY <3>1, <1>1
    <2>2. QED
      BY <2>1
  <1>3. \A y \in D : pool.mapLinks[y].parents \subseteq D
    <2>1. ASSUME NEW y \in D, NEW z \in pool.mapLinks[y].parents
          PROVE  z \in D
      <3>1. z \in DOMAIN pool.mapTx /\ y \in pool.mapLinks[z].children
        BY LinksWithin
      <3>2. y \in Desc(z) /\ Desc(z) \in SUBSET DOMAIN pool.mapTx
        BY <3>1, <1>1
      <3>3. Desc(y) \subseteq Desc(z)
        BY <3>1, <3>2, <1>1
      <3>4. QED
        BY <3>1, <3>3
    <2>2. QED
      BY <2>1
  <1>4. CalculateMemPoolAncestors(pool, pool.mapLinks[x].parents) \subseteq D
    <2>1. pool.mapLinks[x].parents \in SUBSET DOMAIN pool.mapTx
          /\ D \in SUBSET DOMAIN pool.mapTx
      BY LinksWithin
    <2> HIDE DEF D
    <2>2. QED
      BY <2>1, <1>2, <1>3, AncestorsLeast
  <1>5. QED
    BY <1>4 DEF Desc

LEMMA DescendantsFinite ==
  ASSUME NEW pool, PoolShape(pool), PoolLinks(pool),
         NEW S \in SUBSET DOMAIN pool.mapTx
  PROVE  /\ IsFiniteSet(CalculateDescendants(pool, S))
         /\ Cardinality(CalculateDescendants(pool, S)) \in Nat
  BY DescendantsLeast, FS_Subset, FS_CardinalityType DEF PoolShape

\* insertTx: the new entry has no child in the pool.
LEMMA AddKeepsPool ==
  ASSUME NEW pool, PoolOK(pool), NEW tx \in Tx, tx \notin DOMAIN pool.mapTx,
         prevouts[tx] \cap DOMAIN pool.mapNextTx = {},
         \A c \in DOMAIN pool.mapTx : ~SpendsFrom(c, tx)
  PROVE  /\ PoolOK(addUnchecked(pool, tx))
         /\ DOMAIN addUnchecked(pool, tx).mapTx = DOMAIN pool.mapTx \cup {tx}
  <1> USE DEF PoolOK
  <1> DEFINE X == DOMAIN pool.mapTx
             P == {o[1] : o \in prevouts[tx]} \cap X
             A == CalculateMemPoolAncestors(pool, P)
             new == addUnchecked(pool, tx)
  <1>0. X \subseteq Tx /\ IsFiniteSet(X) /\ DOMAIN pool.mapLinks = X
    BY LinksWithin DEF PoolShape
  <1>1. /\ new = [mapTx |-> new.mapTx, mapNextTx |-> new.mapNextTx,
                  mapLinks |-> new.mapLinks]
        /\ new.mapTx = [t \in X \cup {tx} |->
             IF t = tx THEN 1 ELSE pool.mapTx[t] + (IF t \in A THEN 1 ELSE 0)]
        /\ new.mapNextTx = [o \in DOMAIN pool.mapNextTx \cup prevouts[tx] |->
             IF o \in prevouts[tx] THEN tx ELSE pool.mapNextTx[o]]
        /\ new.mapLinks = [t \in X \cup {tx} |->
             IF t = tx THEN [parents |-> P, children |-> {}]
             ELSE [pool.mapLinks[t] EXCEPT !.children =
                     @ \cup (IF t \in P THEN {tx} ELSE {})]]
    BY <1>0 DEF addUnchecked
  <1> P \subseteq X
    OBVIOUS
  <1> HIDE DEF new, A, P
  <1>2. /\ DOMAIN new.mapTx = X \cup {tx}
        /\ new.mapLinks[tx] = [parents |-> P, children |-> {}]
        /\ \A t \in X :
             /\ new.mapLinks[t] \in [parents : SUBSET Tx, children : SUBSET Tx]
             /\ new.mapLinks[t].parents = pool.mapLinks[t].parents
             /\ new.mapLinks[t].children =
                  pool.mapLinks[t].children \cup (IF t \in P THEN {tx} ELSE {})
    <2>1. ASSUME NEW t \in X
          PROVE  /\ new.mapLinks[t] \in [parents : SUBSET Tx, children : SUBSET Tx]
                 /\ new.mapLinks[t].parents = pool.mapLinks[t].parents
                 /\ new.mapLinks[t].children =
                      pool.mapLinks[t].children \cup (IF t \in P THEN {tx} ELSE {})
      <3>1. pool.mapLinks[t] \in [parents : SUBSET Tx, children : SUBSET Tx]
        BY DEF PoolShape
      <3>2. t # tx /\ t \in X \cup {tx}
        OBVIOUS
      <3>3. new.mapLinks[t] = [pool.mapLinks[t] EXCEPT !.children =
                     @ \cup (IF t \in P THEN {tx} ELSE {})]
        BY <1>1, <3>2
      <3>4. QED
        BY <3>1, <3>3
    <2>2. QED
      BY <1>1, <2>1
  <1>3. PoolShape(new)
    <2>1. IsFiniteSet(X \cup {tx})
      BY <1>0, FS_AddElement
    <2>2. new.mapTx \in [X \cup {tx} -> Nat]
      BY <1>1 DEF PoolShape
    <2>3. new.mapLinks \in [X \cup {tx} -> [parents : SUBSET Tx, children : SUBSET Tx]]
      <3>1. \A t \in X \cup {tx} :
              new.mapLinks[t] \in [parents : SUBSET Tx, children : SUBSET Tx]
        BY <1>0, <1>2
      <3>2. QED
        BY <3>1, <1>1
    <2>4. QED
      BY <2>1, <2>2, <2>3, <1>0, <1>1, <1>2 DEF PoolShape
  <1>4. PoolSpends(new)
    <2>1. DOMAIN new.mapNextTx = UNION {prevouts[t] : t \in X \cup {tx}}
      BY <1>1 DEF PoolSpends
    <2>2. ASSUME NEW t \in X \cup {tx}, NEW o \in prevouts[t]
          PROVE  new.mapNextTx[o] = t
      BY <1>1 DEF PoolSpends
    <2>3. QED
      BY <2>1, <2>2, <1>2 DEF PoolSpends
  <1>5. PoolLinks(new)
    <2>1. ~SpendsFrom(tx, tx)
      BY TransactionAssumption DEF SpendsFrom
    <2>2. \A t \in X : t \in P <=> SpendsFrom(tx, t)
      BY DEF SpendsFrom, P
    <2>3. /\ new.mapLinks[tx].parents = (X \cup {tx}) \cap {o[1] : o \in prevouts[tx]}
          /\ new.mapLinks[tx].children = {c \in X \cup {tx} : SpendsFrom(c, tx)}
      BY <1>2, <2>1 DEF SpendsFrom, P
    <2>4. ASSUME NEW t \in X
          PROVE  /\ new.mapLinks[t].parents = (X \cup {tx}) \cap {o[1] : o \in prevouts[t]}
                 /\ new.mapLinks[t].children = {c \in X \cup {tx} : SpendsFrom(c, t)}
      <3>1. /\ pool.mapLinks[t].parents = X \cap {o[1] : o \in prevouts[t]}
            /\ pool.mapLinks[t].children = {c \in X : SpendsFrom(c, t)}
        BY DEF PoolLinks
      <3>2. /\ new.mapLinks[t].parents = pool.mapLinks[t].parents
            /\ new.mapLinks[t].children =
                 pool.mapLinks[t].children \cup (IF t \in P THEN {tx} ELSE {})
        BY <1>2
      <3>3. tx \notin {o[1] : o \in prevouts[t]}
        BY DEF SpendsFrom
      <3>4. QED
        BY <3>1, <3>2, <3>3, <2>2
    <2>5. QED
      BY <2>3, <2>4, <1>2 DEF PoolLinks
  <1>6. PoolCounts(new)
    <2>1. CalculateDescendants(new, {tx}) \subseteq {tx}
      <3>1. {tx} \in SUBSET DOMAIN new.mapTx
        BY <1>2
      <3>2. \A d \in {tx} : new.mapLinks[d].children \subseteq {tx}
        BY <1>2
      <3>3. QED
        BY <3>1, <3>2, <1>3, <1>5, DescendantsLeast
    <2>2. ASSUME NEW t \in X
          PROVE  CalculateDescendants(new, {t}) \subseteq
                   CalculateDescendants(pool, {t}) \cup (IF t \in A THEN {tx} ELSE {})
      <3> DEFINE D == CalculateDescendants(pool, {t}) \cup (IF t \in A THEN {tx} ELSE {})
      <3>1. /\ t \in CalculateDescendants(pool, {t})
            /\ CalculateDescendants(pool, {t}) \subseteq X
            /\ \A d \in CalculateDescendants(pool, {t}) :
                 pool.mapLinks[d].children \subseteq CalculateDescendants(pool, {t})
        <4>1. {t} \in SUBSET X
          OBVIOUS
        <4>2. QED
          BY <4>1, DescendantsLeast
      <3>2. ASSUME NEW d \in CalculateDescendants(pool, {t}), d \in P
            PROVE  t \in A
        <4>1. P \in SUBSET X
          OBVIOUS
        <4>2. QED
          BY <4>1, <3>2, DescendantHasAncestor DEF A
      <3>3. ASSUME NEW d \in D
            PROVE  new.mapLinks[d].children \subseteq D
        <4>1. CASE d = tx
          BY <4>1, <1>2
        <4>2. CASE d # tx
          <5>1. d \in CalculateDescendants(pool, {t}) /\ d \in X
            BY <4>2, <3>1
          <5>2. new.mapLinks[d].children =
                  pool.mapLinks[d].children \cup (IF d \in P THEN {tx} ELSE {})
            BY <5>1, <1>2
          <5>3. QED
            BY <5>1, <5>2, <3>1, <3>2
        <4>3. QED
          BY <4>1, <4>2
      <3>4. {t} \in SUBSET DOMAIN new.mapTx /\ D \in SUBSET DOMAIN new.mapTx /\ {t} \subseteq D
        BY <3>1, <1>2
      <3> HIDE DEF D
      <3>5. CalculateDescendants(new, {t}) \subseteq D
        BY <3>3, <3>4, <1>3, <1>5, DescendantsLeast
      <3>6. QED
        BY <3>5 DEF D
    <2>3. Cardinality(CalculateDescendants(new, {tx})) <= 1
      <3>1. IsFiniteSet({tx}) /\ Cardinality({tx}) = 1
        BY FS_Singleton
      <3>2. QED
        BY <2>1, <3>1, FS_Subset
    <2>4. ASSUME NEW t \in X
          PROVE  new.mapTx[t] >= Cardinality(CalculateDescendants(new, {t}))
      <3> DEFINE old == CalculateDescendants(pool, {t})
                 now2 == CalculateDescendants(new, {t})
      <3>1. {t} \in SUBSET X /\ t \in X \cup {tx} /\ t # tx
        OBVIOUS
      <3>2. IsFiniteSet(old) /\ Cardinality(old) \in Nat /\ tx \notin old
        BY <3>1, DescendantsFinite, DescendantsLeast
      <3>3. pool.mapTx[t] \in Nat /\ pool.mapTx[t] >= Cardinality(old)
        BY DEF PoolShape, PoolCounts
      <3>4. new.mapTx[t] = pool.mapTx[t] + (IF t \in A THEN 1 ELSE 0)
        BY <1>1, <3>1
      <3>5. now2 \subseteq old \cup (IF t \in A THEN {tx} ELSE {})
        BY <2>2
      <3> HIDE DEF old, now2
      <3>6. CASE t \in A
        <4>1. IsFiniteSet(old \cup {tx}) /\ Cardinality(old \cup {tx}) = Cardinality(old) + 1
          BY <3>2, FS_AddElement
        <4>2. Cardinality(now2) <= Cardinality(old) + 1 /\ Cardinality(now2) \in Nat
          BY <4>1, <3>5, <3>6, FS_Subset, FS_CardinalityType
        <4>3. QED
          BY <4>2, <3>2, <3>3, <3>4, <3>6 DEF now2
      <3>7. CASE t \notin A
        <4>1. Cardinality(now2) <= Cardinality(old) /\ Cardinality(now2) \in Nat
          BY <3>2, <3>5, <3>7, FS_Subset, FS_CardinalityType
        <4>2. QED
          BY <4>1, <3>2, <3>3, <3>4, <3>7 DEF now2
      <3>8. QED
        BY <3>6, <3>7
    <2>5. new.mapTx[tx] = 1
      BY <1>1
    <2>6. QED
      BY <2>3, <2>4, <2>5, <1>2 DEF PoolCounts
  <1>7. QED
    BY <1>2, <1>3, <1>4, <1>5, <1>6 DEF new

\* RemoveStaged, whatever the entries that leave.
LEMMA StagedKeepsPool ==
  ASSUME NEW pool, PoolOK(pool), NEW stage \in SUBSET DOMAIN pool.mapTx
  PROVE  /\ PoolOK(RemoveStaged(pool, stage))
         /\ DOMAIN RemoveStaged(pool, stage).mapTx = DOMAIN pool.mapTx \ stage
  <1> USE DEF PoolOK
  <1> DEFINE X == DOMAIN pool.mapTx
             keep == X \ stage
             G(t) == {tx \in stage :
                        t \in CalculateMemPoolAncestors(pool, pool.mapLinks[tx].parents)}
             new == RemoveStaged(pool, stage)
  <1>0. X \subseteq Tx /\ IsFiniteSet(X) /\ DOMAIN pool.mapLinks = X /\ keep \subseteq X
    BY LinksWithin DEF PoolShape
  <1>1. /\ new = [mapTx |-> new.mapTx, mapNextTx |-> new.mapNextTx,
                  mapLinks |-> new.mapLinks]
        /\ new.mapTx = [t \in keep |-> pool.mapTx[t] - Cardinality(G(t))]
        /\ new.mapNextTx = [o \in {q \in DOMAIN pool.mapNextTx :
                               \A tx \in stage : q \notin prevouts[tx]} |-> pool.mapNextTx[o]]
        /\ new.mapLinks = [t \in keep |->
             [parents |-> {p \in pool.mapLinks[t].parents :
                             ~(p \in stage /\ t \in pool.mapLinks[p].children)},
              children |-> {c \in pool.mapLinks[t].children :
                              ~(c \in stage /\ t \in pool.mapLinks[c].parents)}]]
    BY DEF RemoveStaged
  <1> HIDE DEF new, G
  <1>2. /\ DOMAIN new.mapTx = keep
        /\ \A t \in keep :
             /\ new.mapLinks[t] \in [parents : SUBSET Tx, children : SUBSET Tx]
             /\ new.mapLinks[t].parents = pool.mapLinks[t].parents \ stage
             /\ new.mapLinks[t].children = pool.mapLinks[t].children \ stage
    <2>1. ASSUME NEW t \in keep
          PROVE  /\ new.mapLinks[t] \in [parents : SUBSET Tx, children : SUBSET Tx]
                 /\ new.mapLinks[t].parents = pool.mapLinks[t].parents \ stage
                 /\ new.mapLinks[t].children = pool.mapLinks[t].children \ stage
      <3> DEFINE P == {p \in pool.mapLinks[t].parents :
                             ~(p \in stage /\ t \in pool.mapLinks[p].children)}
                 C == {c \in pool.mapLinks[t].children :
                              ~(c \in stage /\ t \in pool.mapLinks[c].parents)}
      <3>1. new.mapLinks[t] = [parents |-> P, children |-> C]
        BY <1>1
      <3>2. P = pool.mapLinks[t].parents \ stage /\ C = pool.mapLinks[t].children \ stage
        BY LinksWithin
      <3>3. P \subseteq Tx /\ C \subseteq Tx
        BY <1>0, LinksWithin
      <3> HIDE DEF P, C
      <3>4. QED
        BY <3>1, <3>2, <3>3
    <2>2. QED
      BY <1>1, <2>1
  <1>3. ASSUME NEW t \in keep
        PROVE  /\ G(t) \subseteq CalculateDescendants(pool, {t}) /\ G(t) \subseteq stage
               /\ IsFiniteSet(G(t)) /\ Cardinality(G(t)) \in Nat
               /\ pool.mapTx[t] - Cardinality(G(t)) \in Nat
               /\ pool.mapTx[t] - Cardinality(G(t))
                    >= Cardinality(CalculateDescendants(pool, {t}) \ G(t))
    <2> DEFINE R == CalculateDescendants(pool, {t})
    <2>1. G(t) \subseteq R /\ G(t) \subseteq stage
      BY AncestorHasDescendant DEF G
    <2>2. IsFiniteSet(R) /\ Cardinality(R) \in Nat
      <3>1. {t} \in SUBSET X
        OBVIOUS
      <3>2. QED
        BY <3>1, DescendantsFinite
    <2>3. pool.mapTx[t] \in Nat /\ pool.mapTx[t] >= Cardinality(R)
      BY DEF PoolShape, PoolCounts
    <2> HIDE DEF R
    <2>4. IsFiniteSet(G(t)) /\ Cardinality(G(t)) \in Nat /\ Cardinality(G(t)) <= Cardinality(R)
      BY <2>1, <2>2, FS_Subset, FS_CardinalityType
    <2>5. Cardinality(R \ G(t)) = Cardinality(R) - Cardinality(G(t))
      <3>1. R \cap G(t) = G(t)
        BY <2>1
      <3>2. QED
        BY <3>1, <2>2, FS_Difference
    <2>6. pool.mapTx[t] - Cardinality(G(t)) \in Nat
      BY <2>2, <2>3, <2>4
    <2>7. pool.mapTx[t] - Cardinality(G(t)) >= Cardinality(R \ G(t))
      BY <2>2, <2>3, <2>4, <2>5
    <2>8. QED
      BY <2>1, <2>4, <2>6, <2>7 DEF R
  <1>4. PoolShape(new)
    <2>1. IsFiniteSet(keep)
      BY <1>0, FS_Difference
    <2>2. new.mapTx \in [keep -> Nat]
      BY <1>1, <1>3
    <2>3. new.mapLinks \in [keep -> [parents : SUBSET Tx, children : SUBSET Tx]]
      BY <1>1, <1>2
    <2>4. QED
      BY <2>1, <2>2, <2>3, <1>0, <1>1, <1>2 DEF PoolShape
  <1>5. PoolSpends(new)
    <2>1. ASSUME NEW t \in keep, NEW o \in prevouts[t]
          PROVE  o \in DOMAIN new.mapNextTx /\ new.mapNextTx[o] = t
      BY <1>1 DEF PoolSpends
    <2>2. ASSUME NEW o \in DOMAIN new.mapNextTx
          PROVE  \E t \in keep : o \in prevouts[t]
      <3>1. o \in DOMAIN pool.mapNextTx /\ \A t \in stage : o \notin prevouts[t]
        BY <1>1
      <3>2. PICK t \in X : o \in prevouts[t]
        BY <3>1 DEF PoolSpends
      <3>3. QED
        BY <3>1, <3>2
    <2>3. QED
      BY <2>1, <2>2, <1>2 DEF PoolSpends
  <1>6. PoolLinks(new)
    <2>1. ASSUME NEW t \in keep
          PROVE  /\ new.mapLinks[t].parents = keep \cap {o[1] : o \in prevouts[t]}
                 /\ new.mapLinks[t].children = {c \in keep : SpendsFrom(c, t)}
      <3>1. /\ pool.mapLinks[t].parents = X \cap {o[1] : o \in prevouts[t]}
            /\ pool.mapLinks[t].children = {c \in X : SpendsFrom(c, t)}
        BY DEF PoolLinks
      <3>2. QED
        BY <3>1, <1>2
    <2>2. QED
      BY <2>1, <1>2 DEF PoolLinks
  <1>7. PoolCounts(new)
    <2>1. ASSUME NEW t \in keep
          PROVE  new.mapTx[t] >= Cardinality(CalculateDescendants(new, {t}))
      <3> DEFINE R == CalculateDescendants(pool, {t})
                 D == R \ stage
      <3>1. /\ t \in R /\ R \subseteq X /\ IsFiniteSet(R)
            /\ \A d \in R : pool.mapLinks[d].children \subseteq R
        <4>1. {t} \in SUBSET X
          OBVIOUS
        <4>2. QED
          BY <4>1, DescendantsLeast, DescendantsFinite
      <3> HIDE DEF R
      <3>2. \A d \in D : new.mapLinks[d].children \subseteq D
        BY <3>1, <1>2
      <3>3. {t} \in SUBSET DOMAIN new.mapTx /\ D \in SUBSET DOMAIN new.mapTx /\ {t} \subseteq D
        BY <3>1, <1>2
      <3> HIDE DEF D
      <3>4. CalculateDescendants(new, {t}) \subseteq D
        BY <3>2, <3>3, <1>4, <1>6, DescendantsLeast
      <3>5. CalculateDescendants(new, {t}) \subseteq R \ G(t)
        BY <3>4, <1>3 DEF D
      <3>6. /\ Cardinality(CalculateDescendants(new, {t})) <= Cardinality(R \ G(t))
            /\ Cardinality(CalculateDescendants(new, {t})) \in Nat
            /\ Cardinality(R \ G(t)) \in Nat
        <4>1. IsFiniteSet(R \ G(t))
          BY <3>1, FS_Difference
        <4>2. QED
          BY <4>1, <3>5, FS_Subset, FS_CardinalityType
      <3>7. /\ new.mapTx[t] = pool.mapTx[t] - Cardinality(G(t))
            /\ new.mapTx[t] \in Nat /\ new.mapTx[t] >= Cardinality(R \ G(t))
        BY <1>1, <1>3 DEF R
      <3>8. QED
        BY <3>6, <3>7
    <2>2. QED
      BY <2>1, <1>2 DEF PoolCounts
  <1>8. QED
    BY <1>2, <1>4, <1>5, <1>6, <1>7 DEF new

\* Entries that leave with all their descendants leave no child behind.
LEMMA DescendantsClosed ==
  ASSUME NEW pool, PoolOK(pool), NEW S \in SUBSET DOMAIN pool.mapTx,
         NEW stage, stage = CalculateDescendants(pool, S)
  PROVE  /\ stage \in SUBSET DOMAIN pool.mapTx /\ S \subseteq stage
         /\ \A c \in DOMAIN pool.mapTx \ stage : \A o \in prevouts[c] : o[1] \notin stage
  <1>1. /\ stage \subseteq DOMAIN pool.mapTx /\ S \subseteq stage
        /\ \A d \in stage : pool.mapLinks[d].children \subseteq stage
    BY DescendantsLeast DEF PoolOK
  <1>2. ASSUME NEW c \in DOMAIN pool.mapTx \ stage, NEW o \in prevouts[c], o[1] \in stage
        PROVE  FALSE
    <2>1. SpendsFrom(c, o[1])
      BY DEF SpendsFrom
    <2>2. c \in pool.mapLinks[o[1]].children
      BY <2>1, <1>1, <1>2, LinksWithin DEF PoolOK
    <2>3. QED
      BY <2>2, <1>1, <1>2
  <1>3. QED
    BY <1>1, <1>2

\* UpdateTransactionsFromBlock finds the links it would add in place.
LEMMA LinkKeepsPool ==
  ASSUME NEW pool, PoolOK(pool), NEW tx \in Tx
  PROVE  /\ PoolOK(UpdateTransactionsFromBlock(pool, tx))
         /\ DOMAIN UpdateTransactionsFromBlock(pool, tx).mapTx = DOMAIN pool.mapTx
  <1> USE DEF PoolOK
  <1> DEFINE X == DOMAIN pool.mapTx
             C == NextTxs(pool, tx) \ {tx}
             L == [t \in DOMAIN pool.mapLinks |->
                      IF t = tx
                        THEN [pool.mapLinks[t] EXCEPT !.children = @ \cup C]
                        ELSE [pool.mapLinks[t] EXCEPT !.parents =
                                @ \cup (IF t \in C THEN {tx} ELSE {})]]
             linked == [pool EXCEPT !.mapLinks = L]
             R == CalculateDescendants(linked, linked.mapLinks[tx].children) \ {tx}
             new == UpdateTransactionsFromBlock(pool, tx)
  <1>1. CASE tx \notin X
    BY <1>1 DEF UpdateTransactionsFromBlock, exists
  <1>2. CASE tx \in X
    <2>1. new = [linked EXCEPT !.mapTx[tx] = linked.mapTx[tx] + Cardinality(R)]
      BY <1>2 DEF UpdateTransactionsFromBlock, exists
    <2>2. C = {c \in X : SpendsFrom(c, tx)}
      <3>1. ~SpendsFrom(tx, tx)
        BY TransactionAssumption DEF SpendsFrom
      <3>2. ASSUME NEW c \in NextTxs(pool, tx) PROVE c \in X /\ SpendsFrom(c, tx)
        <4>1. PICK o \in DOMAIN pool.mapNextTx : o[1] = tx /\ c = pool.mapNextTx[o]
          BY DEF NextTxs
        <4>2. PICK d \in X : o \in prevouts[d]
          BY DEF PoolSpends
        <4>3. QED
          BY <4>1, <4>2 DEF PoolSpends, SpendsFrom
      <3>3. ASSUME NEW c \in X, SpendsFrom(c, tx) PROVE c \in NextTxs(pool, tx)
        <4>1. PICK o \in prevouts[c] : o[1] = tx
          BY <3>3 DEF SpendsFrom
        <4>2. o \in DOMAIN pool.mapNextTx /\ pool.mapNextTx[o] = c
          BY <4>1 DEF PoolSpends
        <4>3. QED
          BY <4>1, <4>2 DEF NextTxs
      <3>4. QED
        BY <3>1, <3>2, <3>3
    <2> HIDE DEF C
    <2>3. L = pool.mapLinks
      <3>1. DOMAIN pool.mapLinks = X
            /\ pool.mapLinks \in [X -> [parents : SUBSET Tx, children : SUBSET Tx]]
        BY DEF PoolShape
      <3>2. ASSUME NEW t \in X PROVE L[t] = pool.mapLinks[t]
        <4>1. pool.mapLinks[t] \in [parents : SUBSET Tx, children : SUBSET Tx]
          BY <3>1
        <4>2. CASE t = tx
          <5>1. pool.mapLinks[t].children \cup C = pool.mapLinks[t].children
            BY <4>2, <2>2 DEF PoolLinks
          <5>2. L[t] = [pool.mapLinks[t] EXCEPT !.children = pool.mapLinks[t].children]
            BY <4>2, <5>1, <3>1
          <5>3. QED
            BY <4>1, <5>2
        <4>3. CASE t # tx
          <5>1. pool.mapLinks[t].parents \cup (IF t \in C THEN {tx} ELSE {})
                  = pool.mapLinks[t].parents
            BY <1>2, <2>2, LinksWithin
          <5>2. L[t] = [pool.mapLinks[t] EXCEPT !.parents = pool.mapLinks[t].parents]
            BY <4>3, <5>1, <3>1
          <5>3. QED
            BY <4>1, <5>2
        <4>4. QED
          BY <4>2, <4>3
      <3>3. QED
        BY <3>1, <3>2
    <2> HIDE DEF L
    <2>4. linked = pool
      BY <2>3 DEF PoolShape
    <2>5. Cardinality(R) \in Nat
      <3>1. pool.mapLinks[tx].children \in SUBSET X
        BY <1>2, LinksWithin
      <3>2. IsFiniteSet(CalculateDescendants(pool, pool.mapLinks[tx].children))
        BY <3>1, DescendantsFinite
      <3>3. QED
        BY <3>2, <2>4, FS_Difference, FS_CardinalityType, FS_Singleton
    <2> HIDE DEF linked, R
    <2>6. /\ new = [mapTx |-> new.mapTx, mapNextTx |-> pool.mapNextTx,
                    mapLinks |-> pool.mapLinks]
          /\ new.mapTx = [pool.mapTx EXCEPT ![tx] = @ + Cardinality(R)]
          /\ new.mapNextTx = pool.mapNextTx /\ new.mapLinks = pool.mapLinks
      <3>1. new = [pool EXCEPT !.mapTx[tx] = pool.mapTx[tx] + Cardinality(R)]
        BY <2>1, <2>4
      <3>2. pool = [mapTx |-> pool.mapTx, mapNextTx |-> pool.mapNextTx,
                    mapLinks |-> pool.mapLinks]
        BY DEF PoolShape
      <3> DEFINE n == Cardinality(R)
      <3> HIDE DEF new, n
      <3>3. new = [pool EXCEPT !.mapTx = [pool.mapTx EXCEPT ![tx] = pool.mapTx[tx] + n]]
        BY <3>1 DEF n
      <3>4. new = [mapTx |-> [pool.mapTx EXCEPT ![tx] = pool.mapTx[tx] + n],
                   mapNextTx |-> pool.mapNextTx, mapLinks |-> pool.mapLinks]
        BY <3>2, <3>3
      <3>5. QED
        BY <3>4 DEF n
    <2> HIDE DEF new
    <2>7. /\ DOMAIN new.mapTx = X /\ new.mapTx \in [X -> Nat]
          /\ \A t \in X : new.mapTx[t] >= pool.mapTx[t] /\ pool.mapTx[t] \in Nat
      <3> DEFINE n == Cardinality(R)
      <3>1. n \in Nat /\ pool.mapTx \in [X -> Nat] /\ new.mapTx = [pool.mapTx EXCEPT ![tx] = @ + n]
        BY <2>5, <2>6 DEF PoolShape
      <3> HIDE DEF n
      <3>2. QED
        BY <3>1, <1>2
    <2>8. PoolShape(new) /\ PoolSpends(new) /\ PoolLinks(new)
      <3>1. PoolShape(new)
        BY <2>6, <2>7 DEF PoolShape
      <3>2. PoolSpends(new) /\ PoolLinks(new)
        BY <2>6, <2>7 DEF PoolSpends, PoolLinks
      <3>3. QED
        BY <3>1, <3>2
    <2>9. PoolCounts(new)
      <3>1. ASSUME NEW t \in X
            PROVE  new.mapTx[t] >= Cardinality(CalculateDescendants(new, {t}))
        <4>1. CalculateDescendants(new, {t}) = CalculateDescendants(pool, {t})
          BY <2>6 DEF CalculateDescendants
        <4>2. {t} \in SUBSET X
          OBVIOUS
        <4>3. Cardinality(CalculateDescendants(pool, {t})) \in Nat
          BY <4>2, DescendantsFinite
        <4>4. pool.mapTx[t] >= Cardinality(CalculateDescendants(pool, {t}))
          BY DEF PoolCounts
        <4>5. QED
          BY <4>1, <4>3, <4>4, <2>7
      <3>2. QED
        BY <3>1, <2>7 DEF PoolCounts
    <2>10. QED
      BY <2>7, <2>8, <2>9 DEF new
  <1>3. QED
    BY <1>1, <1>2

\* Entries leave and no child stays without a parent it had.
Shrinks(pool, new) ==
  /\ PoolOK(new)
  /\ DOMAIN new.mapTx \subseteq DOMAIN pool.mapTx
  /\ \A c \in DOMAIN new.mapTx : \A o \in prevouts[c] :
       o[1] \in DOMAIN pool.mapTx => o[1] \in DOMAIN new.mapTx

LEMMA PackageShrinks ==
  ASSUME NEW pool, PoolOK(pool), NEW S \in SUBSET DOMAIN pool.mapTx
  PROVE  LET stage == CalculateDescendants(pool, S) IN
         /\ Shrinks(pool, RemoveStaged(pool, stage))
         /\ stage \in SUBSET DOMAIN pool.mapTx /\ S \subseteq stage
         /\ DOMAIN RemoveStaged(pool, stage).mapTx = DOMAIN pool.mapTx \ stage
  <1> DEFINE stage == CalculateDescendants(pool, S)
  <1>1. /\ stage \in SUBSET DOMAIN pool.mapTx /\ S \subseteq stage
        /\ \A c \in DOMAIN pool.mapTx \ stage : \A o \in prevouts[c] : o[1] \notin stage
    BY DescendantsClosed
  <1> HIDE DEF stage
  <1>2. /\ PoolOK(RemoveStaged(pool, stage))
        /\ DOMAIN RemoveStaged(pool, stage).mapTx = DOMAIN pool.mapTx \ stage
    BY <1>1, StagedKeepsPool
  <1>3. QED
    BY <1>1, <1>2 DEF Shrinks, stage

\* LimitMempoolSize and removeForReorg.
LEMMA LimitedShrinks ==
  ASSUME NEW pool, PoolOK(pool), NEW new \in Limited(pool)
  PROVE  Shrinks(pool, new)
  <1>1. PICK S \in SUBSET DOMAIN pool.mapTx :
          new = RemoveStaged(pool, CalculateDescendants(pool, S))
    BY DEF Limited
  <1>2. QED
    BY <1>1, PackageShrinks

LEMMA NextTxInPool ==
  ASSUME NEW pool, PoolOK(pool), NEW o \in DOMAIN pool.mapNextTx
  PROVE  pool.mapNextTx[o] \in DOMAIN pool.mapTx
  <1>1. PICK tx \in DOMAIN pool.mapTx : o \in prevouts[tx]
    BY DEF PoolOK, PoolSpends
  <1>2. QED
    BY <1>1 DEF PoolOK, PoolSpends

\* remove, recursively, for a reverted transaction: nothing that spends one of
\* its outputs is left.
LEMMA RemovedShrinks ==
  ASSUME NEW pool, PoolOK(pool), NEW tx \in Tx
  PROVE  LET deps == Removed(pool, tx)
             new == RemoveStaged(pool, deps)
         IN /\ Shrinks(pool, new) /\ deps \in SUBSET DOMAIN pool.mapTx
            /\ \A c \in DOMAIN new.mapTx : prevouts[c] \cap Outputs(tx) = {}
            /\ tx \notin DOMAIN new.mapTx
  <1> DEFINE S == IF exists(pool, tx) THEN {tx}
                  ELSE {pool.mapNextTx[o] : o \in Outputs(tx) \cap DOMAIN pool.mapNextTx}
             deps == Removed(pool, tx)
             new == RemoveStaged(pool, deps)
  <1>1. S \in SUBSET DOMAIN pool.mapTx
    BY NextTxInPool DEF exists
  <1>2. deps = CalculateDescendants(pool, S)
    BY DEF Removed
  <1> HIDE DEF S, deps
  <1>3. /\ Shrinks(pool, new) /\ deps \in SUBSET DOMAIN pool.mapTx /\ S \subseteq deps
        /\ DOMAIN new.mapTx = DOMAIN pool.mapTx \ deps
    BY <1>1, <1>2, PackageShrinks
  <1> HIDE DEF new
  <1>4. tx \notin DOMAIN new.mapTx
    BY <1>3 DEF S, exists
  <1>5. ASSUME NEW c \in DOMAIN new.mapTx, NEW o \in prevouts[c] \cap Outputs(tx)
        PROVE  FALSE
    <2>1. o[1] = tx
      BY DEF Outputs
    <2>2. CASE exists(pool, tx)
      BY <2>1, <2>2, <1>3, <1>4 DEF Shrinks, exists
    <2>3. CASE ~exists(pool, tx)
      <3>1. o \in DOMAIN pool.mapNextTx /\ pool.mapNextTx[o] = c
        BY <1>3 DEF PoolOK, PoolSpends
      <3>2. c \in S
        BY <3>1, <2>3 DEF S
      <3>3. QED
        BY <3>2, <1>3
    <2>4. QED
      BY <2>2, <2>3
  <1>6. QED
    BY <1>3, <1>4, <1>5 DEF new, deps

\* removeForBlock: what is left neither is the transaction nor conflicts with
\* it, and has lost no parent but the transaction.
LEMMA BlockKeepsPool ==
  ASSUME NEW pool, PoolOK(pool), NEW tx \in Tx
  PROVE  LET new == removeForBlock(pool, tx) IN
         /\ PoolOK(new) /\ DOMAIN new.mapTx \subseteq DOMAIN pool.mapTx \ {tx}
         /\ \A c \in DOMAIN new.mapTx : \A o \in prevouts[c] :
              /\ o \notin prevouts[tx]
              /\ o[1] \in DOMAIN pool.mapTx => o[1] = tx \/ o[1] \in DOMAIN new.mapTx
  <1> DEFINE mid == RemoveStaged(pool, {tx} \cap DOMAIN pool.mapTx)
             S == {mid.mapNextTx[o] : o \in prevouts[tx] \cap DOMAIN mid.mapNextTx} \ {tx}
             new == removeForBlock(pool, tx)
  <1>1. new = RemoveStaged(mid, CalculateDescendants(mid, S))
    BY DEF removeForBlock, removeConflicts
  <1>2. PoolOK(mid) /\ DOMAIN mid.mapTx = DOMAIN pool.mapTx \ {tx}
    <2>1. {tx} \cap DOMAIN pool.mapTx \in SUBSET DOMAIN pool.mapTx
      OBVIOUS
    <2>2. PoolOK(mid) /\ DOMAIN mid.mapTx = DOMAIN pool.mapTx \ ({tx} \cap DOMAIN pool.mapTx)
      BY <2>1, StagedKeepsPool
    <2>3. QED
      BY <2>2
  <1> HIDE DEF mid, new
  <1>3. S \in SUBSET DOMAIN mid.mapTx
    BY <1>2, NextTxInPool
  <1>4. ASSUME NEW c \in DOMAIN mid.mapTx, NEW o \in prevouts[c] \cap prevouts[tx]
        PROVE  c \in S
    <2>1. o \in DOMAIN mid.mapNextTx /\ mid.mapNextTx[o] = c
      BY <1>2 DEF PoolOK, PoolSpends
    <2>2. QED
      BY <2>1, <1>2
  <1> HIDE DEF S
  <1>5. LET stage == CalculateDescendants(mid, S) IN
          /\ Shrinks(mid, new) /\ S \subseteq stage
          /\ DOMAIN new.mapTx = DOMAIN mid.mapTx \ stage
    BY <1>1, <1>2, <1>3, PackageShrinks
  <1>6. QED
    BY <1>2, <1>4, <1>5 DEF Shrinks, new
=============================================================================
