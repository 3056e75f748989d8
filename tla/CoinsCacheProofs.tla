-------------------------- MODULE CoinsCacheProofs --------------------------
(***************************************************************************)
(* The caches of the UTXO set implement CoinsView.  What makes it work is  *)
(* the meaning of the two flags (FlagsExact): it is inductive together     *)
(* with the types, and it is why Flush may skip entries that are not       *)
(* DIRTY and forget those that are FRESH and pruned.                       *)
(***************************************************************************)
EXTENDS CoinsCache, TLAPS

Layer(base) == base \in [Tx -> Coins]
CacheOver(cache, base) == IsCache(cache) /\ Layer(base) /\ Exact(cache, base)

\* A cache over a layer is a layer.
LEMMA LayeredType ==
  ASSUME NEW cache, NEW base, IsCache(cache), Layer(base)
  PROVE  Layer(Layered(cache, base))
BY DEF IsCache, Layer, Layered, CCoinsCacheEntry

\* An empty cache answers what the layer below answers.
LEMMA EmptyCache ==
  ASSUME NEW base, Layer(base)
  PROVE  CacheOver(Empty, base) /\ Layered(Empty, base) = base
BY DEF CacheOver, IsCache, Exact, Layer, Layered, Empty

\* FetchCoins changes no answer and keeps the flags exact.
LEMMA FetchKeeps ==
  ASSUME NEW cache, NEW base, NEW tx \in Tx, NEW found \in BOOLEAN, CacheOver(cache, base)
  PROVE  /\ CacheOver(FetchCoins(cache, tx, found, base[tx]), base)
         /\ Layered(FetchCoins(cache, tx, found, base[tx]), base) = Layered(cache, base)
BY DEF CacheOver, IsCache, Exact, Layer, Layered, FetchCoins, With, CCoinsCacheEntry

\* Removing an entry that carries no flag (Uncache) changes no answer.
LEMMA UncacheKeeps ==
  ASSUME NEW cache, NEW base, NEW tx \in DOMAIN cache, CacheOver(cache, base),
         ~cache[tx].DIRTY
  PROVE  /\ CacheOver(Without(cache, tx), base)
         /\ Layered(Without(cache, tx), base) = Layered(cache, base)
BY DEF CacheOver, IsCache, Exact, Layer, Layered, Without, Restrict

\* The end of a CCoinsModifier: the cache answers the new coins, and only for tx.
LEMMA ReleasedChanges ==
  ASSUME NEW cache, NEW base, NEW tx \in Tx, NEW e \in CCoinsCacheEntry,
         CacheOver(cache, base), e.DIRTY, e.FRESH => base[tx] = Pruned
  PROVE  /\ CacheOver(Released(cache, tx, e), base)
         /\ Layered(Released(cache, tx, e), base)
              = [Layered(cache, base) EXCEPT ![tx] = e.coins]
<1> DEFINE with == With(cache, tx, e)
           without == Without(cache, tx)
<1>1. CASE e.FRESH /\ e.coins = Pruned
  <2>1. Released(cache, tx, e) = without BY <1>1 DEF Released
  <2>2. CacheOver(without, base)
    BY DEF CacheOver, IsCache, Exact, Without, Restrict
  <2>3. Layered(without, base) = [Layered(cache, base) EXCEPT ![tx] = e.coins]
    BY <1>1 DEF CacheOver, IsCache, Layer, Layered, Without, Restrict
  <2> QED BY <2>1, <2>2, <2>3
<1>2. CASE ~(e.FRESH /\ e.coins = Pruned)
  <2>1. Released(cache, tx, e) = with BY <1>2 DEF Released
  <2>2. CacheOver(with, base)
    BY DEF CacheOver, IsCache, Exact, With
  <2>3. Layered(with, base) = [Layered(cache, base) EXCEPT ![tx] = e.coins]
    BY DEF CacheOver, IsCache, Layer, Layered, With
  <2> QED BY <2>1, <2>2, <2>3
<1> QED BY <1>1, <1>2

-----------------------------------------------------------------------------

CacheInv == CoinsTypeOK /\ FlagsExact

\* The invariant, as the lemmas above speak of it.
LEMMA InvLayers ==
  CacheInv <=> /\ CacheOver(tipCache, db) /\ CacheOver(viewCache, tip)
               /\ dbBlock \in BlockHash
               /\ {tipBlock, viewBlock} \subseteq BlockHash \cup {NULL}
BY LayeredType DEF CacheInv, CoinsTypeOK, FlagsExact, CacheOver, Layer, tip

\* What a step does to the layers, in the terms of CoinsView.
Copies == Promise!viewVars

\* A tip that GetCoins was called on answers as before.
LEMMA TipFetched ==
  ASSUME CacheInv, NEW tx \in Tx
  PROVE  CacheOver(tipFetched(tx), db) /\ Layered(tipFetched(tx), db) = tip
BY InvLayers, FetchKeeps DEF tipFetched, tip

\* Reading through pcoinsTip changes no copy.
LEMMA ReadTipStep ==
  ASSUME CacheInv, NEW tx \in Tx, ReadTip(tx)
  PROVE  CacheInv' /\ UNCHANGED Copies
<1>1. tip' = tip BY TipFetched DEF ReadTip, tip
<1>2. CacheInv' BY <1>1, TipFetched, InvLayers DEF ReadTip, CacheInv, CoinsTypeOK, FlagsExact, CacheOver
<1> QED BY <1>1, <1>2 DEF ReadTip, Copies, Promise!viewVars, view, tipBest, viewBest

\* Nor does reading through the view of a block.
LEMMA ReadViewStep ==
  ASSUME CacheInv, NEW tx \in Tx, ReadView(tx)
  PROVE  CacheInv' /\ UNCHANGED Copies
<1>1. tip' = tip /\ CacheOver(tipCache', db)
  BY TipFetched, InvLayers DEF ReadView, tip
<1>2. CacheOver(viewCache', tip) /\ Layered(viewCache', tip) = view
  <2> DEFINE found == tx \in DOMAIN tipFetched(tx)
  <2>1. found \in BOOLEAN OBVIOUS
  <2>2. viewCache' = FetchCoins(viewCache, tx, found, tip[tx]) BY DEF ReadView, viewFetched
  <2> HIDE DEF found
  <2> QED BY <2>1, <2>2, InvLayers, FetchKeeps DEF view
<1>3. CacheInv' BY <1>1, <1>2 DEF ReadView, CacheInv, CoinsTypeOK, FlagsExact, CacheOver
<1> QED BY <1>1, <1>2, <1>3 DEF ReadView, Copies, Promise!viewVars, view, tipBest, viewBest

\* Nor does eviction.
LEMMA UncacheStep ==
  ASSUME CacheInv, NEW tx \in Tx, Uncache(tx)
  PROVE  CacheInv' /\ UNCHANGED Copies
<1>1. tip' = tip /\ CacheOver(tipCache', db)
  BY UncacheKeeps, InvLayers DEF Uncache, tip
<1>2. CacheInv' BY <1>1 DEF Uncache, CacheInv, CoinsTypeOK, FlagsExact, CacheOver
<1> QED BY <1>1, <1>2 DEF Uncache, Copies, Promise!viewVars, view, tipBest, viewBest

\* ModifyCoins changes the view, and only there where it is asked to.
LEMMA ModifyCoinsStep ==
  ASSUME CacheInv, NEW tx \in Tx, NEW coins \in Coins, ModifyCoins(tx, coins)
  PROVE  CacheInv' /\ Promise!Change(tx, coins)
<1> DEFINE e == [Modified(tx) EXCEPT !.coins = coins]
<1>1. tip' = tip /\ CacheOver(tipCache', db)
  BY TipFetched, InvLayers DEF ModifyCoins, tip
<1>2. e \in CCoinsCacheEntry /\ e.DIRTY /\ e.coins = coins
  BY InvLayers DEF Modified, CCoinsCacheEntry, CacheOver, Layer, IsCache
<1>3. e.FRESH => tip[tx] = Pruned
  BY InvLayers DEF Modified, CacheOver, Exact, IsCache, CCoinsCacheEntry
<1>4. viewCache' = Released(viewCache, tx, e) BY DEF ModifyCoins
<1>5. /\ CacheOver(viewCache', tip)
      /\ Layered(viewCache', tip) = [view EXCEPT ![tx] = coins]
  <2> HIDE DEF e
  <2>1. CacheOver(viewCache, tip) BY InvLayers
  <2>2. /\ CacheOver(Released(viewCache, tx, e), tip)
        /\ Layered(Released(viewCache, tx, e), tip)
             = [Layered(viewCache, tip) EXCEPT ![tx] = e.coins]
    <3>1. e \in CCoinsCacheEntry BY <1>2
    <3>2. e.DIRTY BY <1>2
    <3> QED BY <1>3, <2>1, <3>1, <3>2, ReleasedChanges
  <2> QED BY <1>2, <1>4, <2>2 DEF view
<1>6. CacheInv' BY <1>1, <1>5 DEF ModifyCoins, CacheInv, CoinsTypeOK, FlagsExact, CacheOver
<1> QED BY <1>1, <1>5, <1>6 DEF ModifyCoins, Promise!Change, view, tipBest, viewBest

\* The best block of the view is changed and cached like its coins.
LEMMA BestBlockStep ==
  ASSUME CacheInv
  PROVE  /\ \A b \in BlockHash : SetBestBlock(b) => CacheInv' /\ Promise!ChangeBest(b)
         /\ GetTipBestBlock => CacheInv' /\ UNCHANGED Copies
         /\ GetViewBestBlock => CacheInv' /\ UNCHANGED Copies
<1> USE DEF CacheInv, CoinsTypeOK, FlagsExact
<1>1. ASSUME UNCHANGED <<db, tipCache, viewCache>>
      PROVE  UNCHANGED <<tip, view>>
  BY <1>1 DEF tip, view
<1>2. ASSUME NEW b \in BlockHash, SetBestBlock(b)
      PROVE  CacheInv' /\ Promise!ChangeBest(b)
  BY <1>1, <1>2, CoinsAssumption DEF SetBestBlock, Promise!ChangeBest, tipBest, viewBest, Best
<1>3. ASSUME GetTipBestBlock PROVE CacheInv' /\ UNCHANGED Copies
  BY <1>1, <1>3, CoinsAssumption DEF GetTipBestBlock, Copies, Promise!viewVars, tipBest, viewBest, Best
<1>4. ASSUME GetViewBestBlock PROVE CacheInv' /\ UNCHANGED Copies
  BY <1>1, <1>4, CoinsAssumption DEF GetViewBestBlock, Copies, Promise!viewVars, tipBest, viewBest, Best
<1> QED BY <1>2, <1>3, <1>4

\* Flush of the view: the tip becomes what the view was, best block included, and a
\* new view starts from there.
LEMMA FlushViewStep ==
  ASSUME CacheInv, FlushView
  PROVE  CacheInv' /\ Promise!Commit
<1>1. CacheOver(tipCache', db) /\ Layered(tipCache', db) = view
  <2> DEFINE dirty == {tx \in DOMAIN viewCache : viewCache[tx].DIRTY}
             kept == {t \in DOMAIN tipCache \cup dirty : t \in dirty => ~Erased(t)}
  <2>1. tipCache' = [tx \in kept |-> IF tx \in dirty THEN Written(tx) ELSE tipCache[tx]]
    BY DEF FlushView
  <2>2. \A tx \in dirty : tx \in DOMAIN viewCache /\ viewCache[tx].DIRTY
    OBVIOUS
  <2>3. \A tx \in DOMAIN viewCache \ dirty : ~viewCache[tx].DIRTY
    OBVIOUS
  <2>4. kept \subseteq DOMAIN tipCache \cup dirty
    OBVIOUS
  <2>5. \A tx \in (DOMAIN tipCache \cup dirty) \ kept : tx \in dirty /\ Erased(tx)
    OBVIOUS
  <2>6. DOMAIN tipCache' = kept /\ \A tx \in kept :
          tipCache'[tx] = IF tx \in dirty THEN Written(tx) ELSE tipCache[tx]
    BY <2>1
  <2> HIDE DEF dirty, kept
  <2>7. ASSUME NEW tx \in Tx
        PROVE  /\ tx \in kept => /\ tipCache'[tx] \in CCoinsCacheEntry
                                 /\ ~tipCache'[tx].DIRTY => tipCache'[tx].coins = db[tx]
                                 /\ tipCache'[tx].FRESH => db[tx] = Pruned
                                 /\ tipCache'[tx].coins = view[tx]
               /\ tx \notin kept => db[tx] = view[tx]
    <3>1. CASE tx \in dirty
      <4> DEFINE fresh == IF tx \in DOMAIN tipCache THEN tipCache[tx].FRESH
                                                    ELSE viewCache[tx].FRESH
      <4>1. tx \in DOMAIN viewCache /\ view[tx] = viewCache[tx].coins
        BY <3>1, <2>2 DEF view, Layered
      <4>2. viewCache[tx].coins \in Coins /\ fresh \in BOOLEAN
        BY <4>1, InvLayers DEF CacheOver, IsCache, CCoinsCacheEntry
      <4>3. fresh => db[tx] = Pruned
        BY <4>1, InvLayers DEF CacheOver, Exact, Layered, tip
      <4>4. Written(tx) = [coins |-> view[tx], DIRTY |-> TRUE, FRESH |-> fresh]
        BY <4>1 DEF Written
      <4>5. Erased(tx) => view[tx] = Pruned /\ fresh
        BY <4>1 DEF Erased
      <4>6. tx \in kept => tipCache'[tx] = Written(tx) BY <3>1, <2>6
      <4>7. tx \notin kept => Erased(tx) BY <3>1, <2>5
      <4>8. CASE fresh
        <5>1. db[tx] = Pruned BY <4>3, <4>8
        <5>2. tx \notin kept => view[tx] = Pruned BY <4>5, <4>7
        <5>3. tx \in kept =>
                tipCache'[tx] = [coins |-> view[tx], DIRTY |-> TRUE, FRESH |-> TRUE]
          BY <4>2, <4>4, <4>6, <4>8
        <5>4. view[tx] \in Coins BY <4>1, <4>2
        <5>5. CASE tx \in kept
          <6>1. tipCache'[tx] = [coins |-> view[tx], DIRTY |-> TRUE, FRESH |-> TRUE] BY <5>3, <5>5
          <6>2. tipCache'[tx] \in CCoinsCacheEntry BY <6>1, <5>4 DEF CCoinsCacheEntry
          <6>3. tipCache'[tx].DIRTY /\ tipCache'[tx].coins = view[tx] BY <6>1
          <6> QED BY <6>2, <6>3, <5>1, <5>5
        <5>6. CASE tx \notin kept BY <5>1, <5>2, <5>6
        <5> QED BY <5>5, <5>6
      <4>9. CASE ~fresh
        <5>1. tx \in kept BY <4>5, <4>7, <4>9
        <5>2. tipCache'[tx] = [coins |-> view[tx], DIRTY |-> TRUE, FRESH |-> FALSE]
          BY <5>1, <4>2, <4>4, <4>6, <4>9
        <5> QED BY <5>1, <5>2, <4>1, <4>2 DEF CCoinsCacheEntry
      <4> QED BY <4>8, <4>9
    <3>2. CASE tx \notin dirty
      <4>1. view[tx] = tip[tx]
        BY <3>2, <2>3, InvLayers DEF CacheOver, IsCache, Exact, Layered, view
      <4>2. tx \in kept <=> tx \in DOMAIN tipCache BY <3>2, <2>4, <2>5
      <4>3. CASE tx \in DOMAIN tipCache
        BY <3>2, <4>1, <4>2, <4>3, <2>6, InvLayers DEF CacheOver, IsCache, Exact, Layered, tip
      <4>4. CASE tx \notin DOMAIN tipCache
        BY <4>1, <4>2, <4>4 DEF Layered, tip
      <4> QED BY <4>3, <4>4
    <3> QED BY <3>1, <3>2
  <2>8. kept \subseteq Tx BY <2>2, <2>4, InvLayers DEF CacheOver, IsCache
  <2>9. view = [tx \in Tx |-> view[tx]] BY DEF view, Layered
  <2> QED BY <2>6, <2>7, <2>8, <2>9, InvLayers DEF CacheOver, IsCache, Exact, Layered
<1>2. tip' = view /\ view' = view /\ CacheOver(viewCache', tip')
  <2>1. Layer(view) BY InvLayers, LayeredType DEF CacheOver, view
  <2>2. tip' = view BY <1>1 DEF FlushView, tip
  <2> QED BY <2>1, <2>2, EmptyCache DEF FlushView, view
<1>3. CacheInv'
  BY <1>1, <1>2 DEF FlushView, CacheInv, CoinsTypeOK, FlagsExact, CacheOver
<1> QED BY <1>2, <1>3 DEF FlushView, Promise!Commit, tipBest, viewBest, Best

\* A view that is dropped leaves no trace.
LEMMA DropViewStep ==
  ASSUME CacheInv, DropView
  PROVE  CacheInv' /\ Promise!Discard
<1>1. tip' = tip /\ Layer(tip) BY InvLayers DEF DropView, tip, CacheOver
<1>2. view' = tip /\ CacheOver(viewCache', tip) BY <1>1, EmptyCache DEF DropView, view
<1>3. CacheInv' BY <1>1, <1>2 DEF DropView, CacheInv, CoinsTypeOK, FlagsExact, CacheOver
<1> QED BY <1>1, <1>2, <1>3 DEF DropView, Promise!Discard, tipBest, viewBest, Best

\* FlushStateToDisk: the database becomes what the tip is.
LEMMA FlushTipStep ==
  ASSUME CacheInv, FlushTip
  PROVE  CacheInv' /\ Promise!Persist
<1>1. db' = tip
  BY InvLayers DEF FlushTip, CacheOver, Exact, Layer, Layered, tip
<1>2. Layer(tip) BY InvLayers DEF CacheOver
<1>3. tip' = tip /\ CacheOver(tipCache', db') BY <1>1, <1>2, EmptyCache DEF FlushTip, tip
<1>4. CacheInv'
  BY <1>1, <1>2, <1>3, CoinsAssumption
  DEF FlushTip, CacheInv, CoinsTypeOK, FlagsExact, CacheOver, Layer, tipBest, Best
<1> QED
  BY <1>1, <1>3, <1>4, CoinsAssumption
  DEF FlushTip, Promise!Persist, CacheInv, CoinsTypeOK, view, tipBest, viewBest, Best

\* A restart finds the database.
LEMMA CrashStep ==
  ASSUME CacheInv, Crash
  PROVE  CacheInv' /\ Promise!Restart
<1>1. Layer(db) BY InvLayers DEF CacheOver
<1>2. tip' = db /\ CacheOver(tipCache', db) BY <1>1, EmptyCache DEF Crash, tip
<1>3. view' = db /\ CacheOver(viewCache', db) BY <1>1, <1>2, EmptyCache DEF Crash, view
<1>4. CacheInv' BY <1>2, <1>3 DEF Crash, CacheInv, CoinsTypeOK, FlagsExact, CacheOver
<1> QED BY <1>2, <1>3, <1>4 DEF Crash, Promise!Restart, tipBest, viewBest, Best

-----------------------------------------------------------------------------

LEMMA InvInitially ==
  ASSUME CoinsInit
  PROVE  CacheInv /\ Promise!AbstractInit
<1>1. Layer(db) BY DEF CoinsInit, Layer
<1>2. tip = db /\ CacheOver(tipCache, db) BY <1>1, EmptyCache DEF CoinsInit, tip
<1>3. view = db /\ CacheOver(viewCache, tip) BY <1>1, <1>2, EmptyCache DEF CoinsInit, view
<1> QED
  BY <1>2, <1>3 DEF CoinsInit, CacheInv, CoinsTypeOK, FlagsExact, CacheOver,
                    Promise!AbstractInit, tipBest, viewBest, Best

LEMMA StepImplements ==
  ASSUME CacheInv, [CoinsNext]_coinsVars
  PROVE  CacheInv' /\ [Promise!AbstractNext]_Copies
<1> USE DEF Promise!AbstractNext
<1>1. ASSUME NEW tx \in Tx, ReadTip(tx) \/ ReadView(tx) \/ Uncache(tx)
      PROVE  CacheInv' /\ UNCHANGED Copies
  BY <1>1, ReadTipStep, ReadViewStep, UncacheStep
<1>2. ASSUME NEW tx \in Tx, NEW coins \in Coins, ModifyCoins(tx, coins)
      PROVE  CacheInv' /\ Promise!AbstractNext
  BY <1>2, ModifyCoinsStep
<1>3. ASSUME NEW b \in BlockHash, SetBestBlock(b)
      PROVE  CacheInv' /\ Promise!AbstractNext
  BY <1>3, BestBlockStep
<1>4. CASE GetTipBestBlock \/ GetViewBestBlock BY <1>4, BestBlockStep
<1>5. CASE FlushView BY <1>5, FlushViewStep
<1>6. CASE DropView BY <1>6, DropViewStep
<1>7. CASE FlushTip BY <1>7, FlushTipStep
<1>8. CASE Crash BY <1>8, CrashStep
<1>9. CASE UNCHANGED coinsVars
  BY <1>9 DEF coinsVars, CacheInv, CoinsTypeOK, FlagsExact, Copies, Promise!viewVars,
              tip, view, tipBest, viewBest
<1> QED
  BY <1>1, <1>2, <1>3, <1>4, <1>5, <1>6, <1>7, <1>8, <1>9 DEF CoinsNext

\* The layers of the UTXO set keep their types through reads, changes, evictions,
\* flushes and crashes (CCoinsViewCache, CCoinsViewDB): the database is never left
\* without a best block.
THEOREM CoinsTypeCorrect == CoinsSpec => []CoinsTypeOK
<1>1. CoinsInit => CacheInv BY InvInitially
<1>2. CacheInv /\ [CoinsNext]_coinsVars => CacheInv' BY StepImplements
<1>3. CacheInv => CoinsTypeOK BY DEF CacheInv
<1> QED BY <1>1, <1>2, <1>3, PTL DEF CoinsSpec

\* In both caches an entry that is not DIRTY equals the layer below, and the layer
\* below a FRESH entry has no unspent outputs (CCoinsCacheEntry::Flags).
THEOREM FlagsAlwaysExact == CoinsSpec => []FlagsExact
<1>1. CoinsInit => CacheInv BY InvInitially
<1>2. CacheInv /\ [CoinsNext]_coinsVars => CacheInv' BY StepImplements
<1>3. CacheInv => FlagsExact BY DEF CacheInv
<1> QED BY <1>1, <1>2, <1>3, PTL DEF CoinsSpec

\* CCoinsViewCache over CCoinsViewCache over CCoinsViewDB behaves like three complete
\* copies of the UTXO set, whatever the order of reads, changes, evictions, flushes
\* and crashes.
THEOREM CacheImplementsView == CoinsSpec => ImplementsCoinsView
<1>1. CoinsInit => CacheInv /\ Promise!AbstractInit BY InvInitially
<1>2. CacheInv /\ [CoinsNext]_coinsVars => CacheInv' /\ [Promise!AbstractNext]_(Promise!viewVars)
  BY StepImplements DEF Copies
<1> QED BY <1>1, <1>2, PTL DEF CoinsSpec, ImplementsCoinsView, Promise!AbstractSpec
=============================================================================
