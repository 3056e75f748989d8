----------------------------- MODULE CoinsCache -----------------------------
(***************************************************************************)
(* The UTXO set (libs/server/coins.cpp, txdb.cpp): the CCoinsViewDB, the   *)
(* cache pcoinsTip on top of it, and the cache of a block that is being    *)
(* connected or disconnected (m_coinView, or the view of prepareChain) on  *)
(* top of that.  An entry of a cache is DIRTY when it may differ from the  *)
(* layer below, and FRESH when the layer below has no unspent outputs.     *)
(* Between the steps of a block other threads read through pcoinsTip,      *)
(* evict from it and flush it.                                             *)
(*                                                                         *)
(* Pruned is a CCoins without unspent outputs.  The database holds none of *)
(* them, so there Pruned is also the absent one.                           *)
(***************************************************************************)
EXTENDS Functions

CONSTANTS Tx, Coins, Pruned, BlockHash, NULL

ASSUME CoinsAssumption == Pruned \in Coins /\ NULL \notin BlockHash

VARIABLES
  db,                                \* CCoinsViewDB: DB_COINS
  tipCache, viewCache,               \* cacheCoins of pcoinsTip and of the view
  dbBlock, tipBlock, viewBlock       \* DB_BEST_BLOCK, hashBlock and hashBlock

coinsVars == <<db, tipCache, viewCache, dbBlock, tipBlock, viewBlock>>

CCoinsCacheEntry == [coins : Coins, DIRTY : BOOLEAN, FRESH : BOOLEAN]
Empty == [tx \in {} |-> {}]

CoinsInit ==
  /\ db \in [Tx -> Coins] /\ tipCache = Empty /\ viewCache = Empty
  /\ dbBlock \in BlockHash /\ tipBlock = NULL /\ viewBlock = NULL

\* What a cache over the given layer answers.
Layered(cache, base) ==
  [tx \in Tx |-> IF tx \in DOMAIN cache THEN cache[tx].coins ELSE base[tx]]
tip == Layered(tipCache, db)
view == Layered(viewCache, tip)

With(cache, tx, entry) ==
  [t \in DOMAIN cache \cup {tx} |-> IF t = tx THEN entry ELSE cache[t]]
Without(cache, tx) == Restrict(cache, DOMAIN cache \ {tx})

-----------------------------------------------------------------------------

\* FetchCoins: what the layer below has is copied to the cache.  found is the result
\* of GetCoins of the layer below.
FetchCoins(cache, tx, found, coins) ==
  IF tx \in DOMAIN cache \/ ~found THEN cache
  ELSE With(cache, tx, [coins |-> coins, DIRTY |-> FALSE, FRESH |-> coins = Pruned])

tipFetched(tx) == FetchCoins(tipCache, tx, db[tx] # Pruned, db[tx])
viewFetched(tx) == FetchCoins(viewCache, tx, tx \in DOMAIN tipFetched(tx), tip[tx])

\* GetCoins, AccessCoins, HaveCoins and coinsForTransaction on pcoinsTip.
ReadTip(tx) ==
  /\ tipCache' = tipFetched(tx)
  /\ UNCHANGED <<db, viewCache, dbBlock, tipBlock, viewBlock>>

\* The same on the view, which asks pcoinsTip when it has to.
ReadView(tx) ==
  /\ viewCache' = viewFetched(tx)
  /\ tipCache' = IF tx \in DOMAIN viewCache THEN tipCache ELSE tipFetched(tx)
  /\ UNCHANGED <<db, dbBlock, tipBlock, viewBlock>>

\* The entry that ModifyCoins hands out.
Modified(tx) ==
  IF tx \in DOMAIN viewCache THEN [viewCache[tx] EXCEPT !.DIRTY = TRUE]
  ELSE [coins |-> tip[tx], DIRTY |-> TRUE, FRESH |-> tip[tx] = Pruned]

\* ~CCoinsModifier, after the coins were changed.
Released(cache, tx, entry) ==
  IF entry.FRESH /\ entry.coins = Pruned THEN Without(cache, tx) ELSE With(cache, tx, entry)

\* ModifyCoins, the change (Spend, FromTx, Clear or applyTxInUndo) and the end of the
\* CCoinsModifier.
ModifyCoins(tx, coins) ==
  /\ viewCache' = Released(viewCache, tx, [Modified(tx) EXCEPT !.coins = coins])
  /\ tipCache' = IF tx \in DOMAIN viewCache THEN tipCache ELSE tipFetched(tx)
  /\ UNCHANGED <<db, dbBlock, tipBlock, viewBlock>>

-----------------------------------------------------------------------------

SetBestBlock(b) ==
  /\ viewBlock' = b
  /\ UNCHANGED <<db, tipCache, viewCache, dbBlock, tipBlock>>

\* GetBestBlock keeps the answer of the layer below.
Best(hashBlock, base) == IF hashBlock = NULL THEN base ELSE hashBlock
tipBest == Best(tipBlock, dbBlock)
viewBest == Best(viewBlock, tipBest)

GetTipBestBlock ==
  /\ tipBlock' = tipBest
  /\ UNCHANGED <<db, tipCache, viewCache, dbBlock, viewBlock>>

GetViewBestBlock ==
  /\ tipBlock' = IF viewBlock = NULL THEN tipBest ELSE tipBlock
  /\ viewBlock' = viewBest
  /\ UNCHANGED <<db, tipCache, viewCache, dbBlock>>

-----------------------------------------------------------------------------

\* BatchWrite for one dirty entry: the transactions it removes from the cache, and
\* what the others become.
MutantErased(tx) == viewCache[tx].coins = Pruned

Erased(tx) ==
  /\ viewCache[tx].coins = Pruned
  /\ IF tx \in DOMAIN tipCache THEN tipCache[tx].FRESH ELSE viewCache[tx].FRESH

MutantWritten(tx) ==
  [coins |-> viewCache[tx].coins, DIRTY |-> TRUE, FRESH |-> viewCache[tx].FRESH]

Written(tx) ==
  [coins |-> viewCache[tx].coins, DIRTY |-> TRUE,
   FRESH |-> IF tx \in DOMAIN tipCache THEN tipCache[tx].FRESH ELSE viewCache[tx].FRESH]

\* Flush of the view, and BatchWrite of pcoinsTip.  All callers have called
\* SetBestBlock before and drop the view after it.
FlushView ==
  LET dirty == {tx \in DOMAIN viewCache : viewCache[tx].DIRTY}
  IN  /\ viewBlock # NULL
      /\ tipCache' = [tx \in {t \in DOMAIN tipCache \cup dirty : t \in dirty => ~Erased(t)} |->
                        IF tx \in dirty THEN Written(tx) ELSE tipCache[tx]]
      /\ tipBlock' = viewBlock
      /\ viewCache' = Empty /\ viewBlock' = NULL
      /\ UNCHANGED <<db, dbBlock>>

\* The block is invalid, or the node is done with it: its view is dropped.
DropView ==
  /\ viewCache' = Empty /\ viewBlock' = NULL
  /\ UNCHANGED <<db, tipCache, dbBlock, tipBlock>>

\* FlushStateToDisk: Flush of pcoinsTip and BatchWrite of CCoinsViewDB, one batch.
MutantFlushTip ==
  /\ db' = [tx \in Tx |-> IF tx \in DOMAIN tipCache /\ tipCache[tx].DIRTY
                            THEN tipCache[tx].coins ELSE db[tx]]
  /\ dbBlock' = tipBlock
  /\ tipCache' = Empty
  /\ UNCHANGED <<viewCache, tipBlock, viewBlock>>

FlushTip ==
  /\ db' = [tx \in Tx |-> IF tx \in DOMAIN tipCache /\ tipCache[tx].DIRTY
                            THEN tipCache[tx].coins ELSE db[tx]]
  /\ dbBlock' = tipBest
  /\ tipCache' = Empty
  /\ UNCHANGED <<viewCache, tipBlock, viewBlock>>

\* LimitMempoolSize takes transactions that nothing in the mempool spends any more
\* out of the cache.
Uncache(tx) ==
  /\ tx \in DOMAIN tipCache /\ ~tipCache[tx].DIRTY /\ ~tipCache[tx].FRESH
  /\ tipCache' = Without(tipCache, tx)
  /\ UNCHANGED <<db, viewCache, dbBlock, tipBlock, viewBlock>>

\* The process is gone; the next one finds what is in the database.
Crash ==
  /\ tipCache' = Empty /\ viewCache' = Empty /\ tipBlock' = NULL /\ viewBlock' = NULL
  /\ UNCHANGED <<db, dbBlock>>

CoinsNext ==
  \/ \E tx \in Tx : ReadTip(tx) \/ ReadView(tx) \/ Uncache(tx)
  \/ \E tx \in Tx, coins \in Coins : ModifyCoins(tx, coins)
  \/ \E b \in BlockHash : SetBestBlock(b)
  \/ GetTipBestBlock \/ GetViewBestBlock
  \/ FlushView \/ DropView \/ FlushTip \/ Crash

CoinsSpec == CoinsInit /\ [][CoinsNext]_coinsVars

-----------------------------------------------------------------------------

IsCache(cache) ==
  DOMAIN cache \subseteq Tx /\ \A tx \in DOMAIN cache : cache[tx] \in CCoinsCacheEntry

\* The database, the entries of both caches and the best blocks have their types; the
\* database always has a best block, also when pcoinsTip never cached one.
CoinsTypeOK ==
  /\ db \in [Tx -> Coins] /\ IsCache(tipCache) /\ IsCache(viewCache)
  /\ dbBlock \in BlockHash /\ {tipBlock, viewBlock} \subseteq BlockHash \cup {NULL}

\* "This cache entry is potentially different from the version in the parent view"
\* (DIRTY) and "The parent view does not have this entry (or it is pruned)" (FRESH):
\* in both caches, whatever was read, evicted or flushed in between, an entry that
\* is not DIRTY equals the layer below and the layer below a FRESH one has nothing.
Exact(cache, base) ==
  \A tx \in DOMAIN cache : /\ ~cache[tx].DIRTY => cache[tx].coins = base[tx]
                           /\ cache[tx].FRESH => base[tx] = Pruned
FlagsExact == Exact(tipCache, db) /\ Exact(viewCache, tip)

\* The three layers behave like three complete copies: reading, evicting and the
\* caching of the best block change nothing, Flush of a view is atomic, a crash
\* loses exactly what FlushStateToDisk did not write, coins and best block alike.
Promise == INSTANCE CoinsView WITH dbBest <- dbBlock
ImplementsCoinsView == Promise!AbstractSpec
=============================================================================
