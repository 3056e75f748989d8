---------------------------- MODULE TxAdmission ----------------------------
(***************************************************************************)
(* How a transaction enters and leaves the mempool: the validation workers *)
(* that run TxValidationState::checkTransaction, the strand that connects  *)
(* and reverts blocks, and the orphan cache between them (OrphanCache,     *)
(* whose actions are conjoined here with what their callers do).           *)
(*                                                                         *)
(* checkTransaction is not one lock section.  It looks the inputs up under *)
(* mempool->cs, validates without it, inserts under it, brings the links   *)
(* up to date in a third section when the transaction comes from a         *)
(* reverted block, and then uses the orphan cache, which has a lock of its *)
(* own.  prepareChain holds the (recursive) mempool->cs over the whole     *)
(* reorganisation and runs checkTransaction inside it on the strand.       *)
(***************************************************************************)
EXTENDS OrphanCache, Mempool, Sequences, Functions

CONSTANTS
  Coins,      \* the outputs that are unspent at the start
  Relayed,    \* the transactions that peers and the RPC send
  Blocks,     \* the blocks that may be connected, as sequences of transactions
  MaxHeight,  \* bound on the number of connected blocks
  strand      \* the member of Workers that handles blocks

ASSUME TxAdmissionAssumption ==
  /\ Tx \subseteq Prevs /\ Relayed \subseteq Tx /\ strand \in Workers
  /\ Blocks \subseteq Seq(Tx) /\ MaxHeight \in Nat
  /\ \A o \in Coins : o[1] \notin Tx

VARIABLES
  mempool,         \* the CTxMemPool
  coins,           \* mempool->coins(): the unspent outputs of the chain
  chain,           \* the transactions of the connected blocks, with the height
  job,             \* the TxValidationState each worker runs, and how far it is
  posted,          \* the TxValidationStates posted to the io service
  fromMempool,     \* the orphans cached with the FromMempool flag
  csHolder,        \* the strand, while it holds mempool->cs between steps
  todo             \* what the strand still has to do before it releases it

poolVars == <<mempool, coins, chain>>
strandVars == <<csHolder, todo>>
admissionVars == <<vars, poolVars, job, posted, fromMempool, strandVars>>

NoJob == [at |-> "none"]

AdmissionInit ==
  /\ Init
  /\ mempool = EmptyPool
  /\ coins = Coins
  /\ chain = <<>>
  /\ job = [w \in Workers |-> NoJob]
  /\ posted = {}
  /\ fromMempool = {}
  /\ csHolder = {}
  /\ todo = <<>>

Idle(w) == job[w] = NoJob /\ pc[w] = "idle"

\* LOCK(mempool->cs) succeeds for w.
MayLock(w) == csHolder \subseteq {w}

Done(w) == job' = [job EXCEPT ![w] = NoJob]

-----------------------------------------------------------------------------
(* TxValidationState::checkTransaction *)

\* The first lock section: the transaction is already known, an input's
\* transaction is missing, an input is spent, or validation goes on.
CheckInputs(w, state) ==
  LET tx == state.tx
      missing == \E o \in prevouts[tx] : ~HaveCoins(mempool, coins, o[1])
      goesTo(step) ==
        job' = [job EXCEPT ![w] =
                  [at |-> step, tx |-> tx, fromMempool |-> state.fromMempool]]
  IN /\ MayLock(w)
     /\ IF HaveCoins(mempool, coins, tx) THEN UNCHANGED job
        ELSE IF missing THEN goesTo("orphan")
        ELSE IF ~HaveInputs(mempool, coins, tx) THEN UNCHANGED job
        ELSE goesTo("insert")
     /\ UNCHANGED <<vars, poolVars, fromMempool, csHolder>>

\* A transaction of a peer, or of the RPC, is handed to a worker.
Receive(w) ==
  /\ w # strand /\ Idle(w)
  /\ \E tx \in Relayed : CheckInputs(w, [tx |-> tx, fromMempool |-> FALSE])
  /\ UNCHANGED <<posted, todo>>

\* A worker runs a state that was posted to the io service.
RunPosted(w) ==
  /\ w # strand /\ Idle(w)
  /\ \E state \in posted :
       /\ CheckInputs(w, state)
       /\ posted' = posted \ {state}
  /\ UNCHANGED todo

\* The handler of the missing-inputs exception; the RPC's own transactions
\* are not cached.  A transaction that was an orphan before keeps its entry
\* time, which is abstracted to any time of the past.
CacheOrphan(w) ==
  /\ job[w].at = "orphan"
  /\ \/ \E entryTime \in 0 .. now : AddOrphanTx(w, job[w].tx, entryTime)
     \/ ~job[w].fromMempool /\ UNCHANGED vars
  /\ fromMempool' =
       IF job[w].fromMempool /\ job[w].tx \notin Orphans
         THEN (fromMempool \cup {job[w].tx}) \cap Orphans'
         ELSE fromMempool
  /\ Done(w)
  /\ UNCHANGED <<poolVars, posted, strandVars>>

\* One of the remaining checks, or insertTx, refuses the transaction.
Refuse(w) ==
  /\ job[w].at = "insert"
  /\ Done(w)
  /\ UNCHANGED <<vars, poolVars, posted, fromMempool, strandVars>>

\* insertTx, in a lock section of its own.
Insert(w) ==
  /\ job[w].at = "insert"
  /\ MayLock(w)
  /\ Insertable(mempool, coins, job[w].tx)
  /\ mempool' = addUnchecked(mempool, job[w].tx)
  /\ job' = [job EXCEPT ![w].at = IF job[w].fromMempool THEN "link" ELSE "adopt"]
  /\ UNCHANGED <<vars, coins, chain, posted, fromMempool, strandVars>>

\* UpdateTransactionsFromBlock, in a third one.
LinkChildren(w) ==
  /\ job[w].at = "link"
  /\ MayLock(w)
  /\ mempool' = UpdateTransactionsFromBlock(mempool, job[w].tx)
  /\ job' = [job EXCEPT ![w].at = "adopt"]
  /\ UNCHANGED <<vars, coins, chain, posted, fromMempool, strandVars>>

\* The orphans that waited for the transaction are posted for validation, with
\* the flags they were cached with.
Adopt(w) ==
  /\ job[w].at = "adopt"
  /\ fetchTransactionsByPrev(w, job[w].tx)
  /\ posted' = posted \cup
       {[tx |-> tx, fromMempool |-> tx \in fromMempool] : tx \in scheduled'[w]}
  /\ Done(w)
  /\ UNCHANGED <<poolVars, fromMempool, strandVars>>

\* The calls of the orphan cache that follow, and the network thread's.
CleanOrphans ==
  /\ \/ \E w \in Workers : LimitOrphanTxSize(w)
     \/ \E w \in Workers : EraseOrphans(w)
     \/ \E w \in Workers : EraseOrphansByTime(w)
     \/ \E vtx \in Blocks : EraseOrphansOfBlock(Range(vtx))
     \/ Tick
  /\ fromMempool' = fromMempool \cap Orphans'
  /\ UNCHANGED <<poolVars, job, posted, strandVars>>

-----------------------------------------------------------------------------
(* The strand.  It holds mempool->cs over several steps while csHolder is  *)
(* not empty; todo lists what is left to do in this lock section.          *)

\* The height of the tip; a block is known by the height of its transactions.
Height == IF chain = <<>> THEN 0 ELSE chain[Len(chain)].height

Entries(txs, step, height) ==
  [i \in DOMAIN txs |-> [tx |-> txs[i], step |-> step, height |-> height]]

TakesUp(step) ==
  Idle(strand) /\ csHolder = {strand} /\ todo # <<>> /\ Head(todo).step = step

\* TxValidationState::sync, posted to the strand by every accepted transaction.
sync ==
  /\ Idle(strand) /\ csHolder = {}
  /\ mempool' \in Limited(mempool)
  /\ UNCHANGED <<vars, coins, chain, job, posted, fromMempool, strandVars>>

\* Every transaction of a block spends what is unspent at its place.
Connects(vtx) ==
  \A i \in DOMAIN vtx : \A o \in prevouts[vtx[i]] :
    /\ o \in coins \/ \E k \in 1 .. i - 1 : o \in Outputs(vtx[k])
    /\ \A k \in 1 .. i - 1 : o \notin prevouts[vtx[k]]

\* A block was found valid, and removeForBlock takes mempool->cs.
ConnectBlock ==
  /\ Idle(strand) /\ csHolder = {} /\ Height < MaxHeight
  /\ \E vtx \in Blocks :
       /\ vtx # <<>> /\ Connects(vtx)
       /\ todo' = Entries(vtx, "connect", Height + 1)
  /\ csHolder' = {strand}
  /\ UNCHANGED <<vars, poolVars, job, posted, fromMempool>>

MutantConnectTx ==
  /\ TakesUp("connect")
  /\ LET tx == Head(todo).tx
     IN /\ mempool' = removeForBlock(mempool, tx)
        /\ coins' = (coins \ prevouts[tx]) \cup Outputs(tx)
        /\ chain' = Append(chain, [tx |-> tx, height |-> Head(todo).height])
  /\ todo' = Tail(todo)
  /\ csHolder' = {}
  /\ UNCHANGED <<vars, job, posted, fromMempool>>

\* removeForBlock for one transaction of the block.  The block's UTXO view is
\* flushed before the lock is released, so nobody sees that the coins change
\* here one transaction at a time.
ConnectTx ==
  /\ TakesUp("connect")
  /\ LET tx == Head(todo).tx
     IN /\ mempool' = removeForBlock(mempool, tx)
        /\ coins' = (coins \ prevouts[tx]) \cup Outputs(tx)
        /\ chain' = Append(chain, [tx |-> tx, height |-> Head(todo).height])
  /\ todo' = Tail(todo)
  /\ csHolder' = IF Len(todo) = 1 THEN {} ELSE {strand}
  /\ UNCHANGED <<vars, job, posted, fromMempool>>

\* prepareChain, up to its loop over the reverted transactions: the blocks
\* above the fork point are disconnected, the UTXO view is flushed, and
\* removeForReorg takes out what is no longer final.
PrepareChain ==
  /\ Idle(strand) /\ csHolder = {}
  /\ \E fork \in 0 .. Len(chain) - 1 :
       LET reverted == [i \in 1 .. Len(chain) - fork |-> chain[fork + i].tx]
           outputs == UNION {Outputs(reverted[i]) : i \in DOMAIN reverted}
           inputs == UNION {prevouts[reverted[i]] : i \in DOMAIN reverted}
       IN /\ fork # 0 => chain[fork].height # chain[fork + 1].height
          /\ coins' = (coins \cup inputs) \ outputs
          /\ chain' = SubSeq(chain, 1, fork)
          /\ todo' = Entries(reverted, "revert", 0)
  /\ mempool' \in Limited(mempool)
  /\ csHolder' = {strand}
  /\ UNCHANGED <<vars, job, posted, fromMempool>>

\* The next reverted transaction: what spends it leaves the pool, to be put
\* back after it in the order of the entries' hashes, which may be any order.
RevertTx ==
  /\ TakesUp("revert")
  /\ LET tx == Head(todo).tx
         deps == Removed(mempool, tx)
     IN /\ mempool' = RemoveStaged(mempool, deps)
        /\ \E order \in [1 .. Cardinality(deps) -> deps] :
             /\ Range(order) = deps
             /\ todo' = Entries(<<tx>> \o order, "check", 0) \o Tail(todo)
  /\ UNCHANGED <<vars, coins, chain, job, posted, fromMempool, csHolder>>

\* checkTransaction for a reverted transaction or one that depends on it.
PutBack ==
  /\ TakesUp("check")
  /\ CheckInputs(strand, [tx |-> Head(todo).tx, fromMempool |-> TRUE])
  /\ todo' = Tail(todo)
  /\ UNCHANGED posted

\* The end of prepareChain: LimitMempoolSize, and the lock is released.
ChainPrepared ==
  /\ Idle(strand) /\ csHolder = {strand} /\ todo = <<>>
  /\ mempool' \in Limited(mempool)
  /\ csHolder' = {}
  /\ UNCHANGED <<vars, coins, chain, job, posted, fromMempool, todo>>

AdmissionNext ==
  \/ \E w \in Workers :
       \/ Receive(w) \/ RunPosted(w) \/ CacheOrphan(w)
       \/ Refuse(w) \/ Insert(w) \/ LinkChildren(w) \/ Adopt(w)
  \/ CleanOrphans \/ sync
  \/ ConnectBlock \/ ConnectTx
  \/ PrepareChain \/ RevertTx \/ PutBack \/ ChainPrepared

AdmissionSpec == AdmissionInit /\ [][AdmissionNext]_admissionVars

-----------------------------------------------------------------------------

Pool == DOMAIN mempool.mapTx

\* The shape of the pool's maps, of the jobs and of the work lists.
AdmissionTypeOK ==
  /\ Pool \subseteq Tx /\ mempool.mapTx \in [Pool -> Nat]
  /\ DOMAIN mempool.mapLinks = Pool
  /\ Range(mempool.mapNextTx) \subseteq Pool
  /\ \A w \in Workers :
       /\ job[w].at \in {"none", "orphan", "insert", "link", "adopt"}
       /\ job[w] # NoJob => job[w].tx \in Tx
  /\ fromMempool \subseteq Orphans
  /\ csHolder \subseteq {strand}
  /\ csHolder = {} => todo = <<>> /\ job[strand] = NoJob

\* mapNextTx marks exactly the outputs the pool spends, each with the entry
\* that spends it: no two transactions of the pool spend the same output,
\* although insertTx runs in another lock section than the look-up of the
\* inputs (assertions of CTxMemPool::check).
SpentOnce ==
  /\ DOMAIN mempool.mapNextTx = UNION {prevouts[tx] : tx \in Pool}
  /\ \A tx \in Pool : \A o \in prevouts[tx] : mempool.mapNextTx[o] = tx

\* The links between entries, which every removal and every total follows,
\* are those of the transactions' inputs, in both directions: a transaction is
\* never inserted beside a child that is in the pool already, reorganisations
\* included (assertions of CTxMemPool::check).
LinksExact ==
  \A tx \in Pool :
    /\ mempool.mapLinks[tx].parents = Pool \cap {o[1] : o \in prevouts[tx]}
    /\ mempool.mapLinks[tx].children =
         {c \in Pool : \E o \in prevouts[c] : o[1] = tx}

\* "Check that every mempool transaction's inputs refer to available coins, or
\* other mempool tx's" (CTxMemPool::check): whoever obtains mempool->cs finds a
\* pool that fits the chain, whatever was connected or reverted between the
\* look-up of the inputs and the insertion.
InputsAvailable ==
  csHolder = {} =>
    \A tx \in Pool : \A o \in prevouts[tx] :
      \/ o[1] \in Pool /\ o[2] \in vout[o[1]]
      \/ o \in coins

\* The descendant limits and the eviction order rest on totals that are only
\* ever adjusted by differences.  They never fall below the true number, so
\* UpdateState's assertion that they stay positive holds too.
DescendantsCounted ==
  \A tx \in Pool :
    mempool.mapTx[tx] >= Cardinality(CalculateDescendants(mempool, {tx}))

=============================================================================
