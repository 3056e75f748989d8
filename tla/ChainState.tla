----------------------------- MODULE ChainState -----------------------------
(***************************************************************************)
(* Connecting and disconnecting blocks on the layers of CoinsCache:        *)
(* CCoinsViewCache::processBlock spends and creates coins one at a time    *)
(* in the view of a block and writes undo data; disconnectTip takes a      *)
(* block back with that data.  pcoinsTip is read, evicted from and flushed *)
(* to disk between any two steps, and the process may crash between them.  *)
(*                                                                         *)
(* The coins of a transaction are its unspent outputs and the height of    *)
(* its block.  The height is in the undo data only of the last output that *)
(* is spent.                                                               *)
(***************************************************************************)
EXTENDS CoinsCache, Naturals, SequencesExt

CONSTANTS
  Genesis,
  pprev,       \* pprev[b]: the parent of b
  nHeight,
  vtx,         \* vtx[b]: the transactions of b, the coinbase first
  vin,         \* vin[tx]: the outpoints <<transaction, n>> it spends
  vout         \* vout[tx]: the outputs of tx

ASSUME ChainAssumption ==
  /\ Genesis \in BlockHash /\ DOMAIN vin = Tx /\ DOMAIN vout = Tx
  /\ \A b \in BlockHash \ {Genesis} :
       pprev[b] \in BlockHash /\ nHeight[b] = nHeight[pprev[b]] + 1

VARIABLES
  job,         \* what the view is used for
  undo,        \* the undo data of a block on disk, or NULL
  storing,     \* storeUndoBlock calls that are running
  clean        \* disconnectTip found what it expected

stateVars == <<coinsVars, job, undo, storing, clean>>

Idle == [op |-> "idle", block |-> NULL, steps |-> <<>>, undo |-> <<>>]

ChainInit ==
  /\ CoinsInit /\ db = [tx \in Tx |-> Pruned] /\ dbBlock = Genesis
  /\ job = Idle /\ undo = [b \in BlockHash |-> NULL] /\ storing = {} /\ clean = TRUE

-----------------------------------------------------------------------------
(***************************************************************************)
(* processBlock.                                                           *)
(***************************************************************************)

Spend(out) == [op |-> "spend", out |-> out]
Create(tx) == [op |-> "create", tx |-> tx]

\* The spends of each transaction, then its own outputs.
ConnectSteps(b) ==
  FlattenSeq([i \in 1 .. Len(vtx[b]) |->
                Append([k \in 1 .. Len(vin[vtx[b][i]]) |-> Spend(vin[vtx[b][i]][k])],
                       Create(vtx[b][i]))])

StartConnect(b) ==
  /\ job = Idle /\ b # Genesis /\ pprev[b] = viewBest
  /\ job' = [op |-> "connect", block |-> b, steps |-> ConnectSteps(b), undo |-> <<>>]
  /\ UNCHANGED <<coinsVars, undo, storing, clean>>

Step(op) == job.steps # <<>> /\ Head(job.steps).op = op
StepDone == [job EXCEPT !.steps = Tail(@)]

IsAvailable(coins, n) == coins # Pruned /\ n \in coins.outs
Spent(coins, n) ==
  IF coins.outs = {n} THEN Pruned ELSE [coins EXCEPT !.outs = @ \ {n}]

\* The CTxInUndo: with a height if nothing of the transaction is left.
MutantTxInUndo(coins, n) == [n |-> n, nHeight |-> 0]

TxInUndo(coins, n) ==
  [n |-> n, nHeight |-> IF Spent(coins, n) = Pruned THEN coins.nHeight ELSE 0]

ConnectSpend ==
  LET out == Head(job.steps).out
      coins == view[out[1]]
  IN  /\ job.op = "connect" /\ Step("spend") /\ IsAvailable(coins, out[2])
      /\ ModifyCoins(out[1], Spent(coins, out[2]))
      /\ job' = [StepDone EXCEPT !.undo = Append(@, TxInUndo(coins, out[2]))]
      /\ UNCHANGED <<undo, storing, clean>>

FromTx(tx, b) == [outs |-> vout[tx], nHeight |-> nHeight[b]]

ConnectCreate ==
  LET tx == Head(job.steps).tx
  IN  /\ job.op = "connect" /\ Step("create") /\ view[tx] = Pruned
      /\ ModifyCoins(tx, FromTx(tx, job.block))
      /\ job' = StepDone
      /\ UNCHANGED <<undo, storing, clean>>

\* bad-txns-inputs-missingorspent, bad-txns-BIP30, or one of the later checks of the
\* block: its view is dropped.
ConnectFails ==
  /\ job.op = "connect"
  /\ DropView /\ job' = Idle
  /\ UNCHANGED <<undo, storing, clean>>

\* All checks are done; processNewBlock sets the best block.  The thread of the last
\* chunk goes on with storeUndoBlock.
ConnectBest ==
  /\ job.op = "connect" /\ job.steps = <<>>
  /\ SetBestBlock(job.block)
  /\ storing' = storing \cup {<<job.block, job.undo>>}
  /\ job' = [job EXCEPT !.op = "flush"]
  /\ UNCHANGED <<undo, clean>>

\* Undo data that is there is not replaced.
storeUndoBlock ==
  \E s \in storing :
    /\ storing' = storing \ {s}
    /\ undo' = IF undo[s[1]] = NULL THEN [undo EXCEPT ![s[1]] = s[2]] ELSE undo
    /\ UNCHANGED <<coinsVars, job, clean>>

\* removeForBlock, or the end of prepareChain
FlushJob ==
  /\ job.op = "flush"
  /\ FlushView /\ job' = Idle
  /\ UNCHANGED <<undo, storing, clean>>

-----------------------------------------------------------------------------
(***************************************************************************)
(* disconnectTip.                                                          *)
(***************************************************************************)

\* The transactions in reverse order: the outputs are removed, then the inputs
\* restored, the last one first.
Restore(out, txInUndo) == [op |-> "restore", out |-> out, undo |-> txInUndo]

DisconnectSteps(b, undoData) ==
  LET steps == ConnectSteps(b)
      nSpends(i) == Cardinality({k \in 1 .. i : steps[k].op = "spend"})
  IN  Reverse([i \in 1 .. Len(steps) |->
                 IF steps[i].op = "create" THEN steps[i]
                 ELSE Restore(steps[i].out, undoData[nSpends(i)])])

\* prepareChain: it takes one block after another off the same view, as long as their
\* undo data is there.
StartDisconnect ==
  /\ job.op = "idle" \/ (job.op = "flush" /\ job.block = NULL)
  /\ viewBest # Genesis /\ undo[viewBest] # NULL
  /\ job' = [op |-> "disconnect", block |-> viewBest,
             steps |-> DisconnectSteps(viewBest, undo[viewBest]), undo |-> <<>>]
  /\ UNCHANGED <<coinsVars, undo, storing, clean>>

\* "added transaction mismatch? database corruption suspected"
DisconnectClear ==
  LET tx == Head(job.steps).tx
  IN  /\ job.op = "disconnect" /\ Step("create")
      /\ clean' = (clean /\ view[tx] = FromTx(tx, job.block))
      /\ ModifyCoins(tx, Pruned)
      /\ job' = StepDone
      /\ UNCHANGED <<undo, storing>>

\* applyTxInUndo
MutantRestored(coins, txInUndo) ==
  IF coins = Pruned THEN [outs |-> {txInUndo.n}, nHeight |-> 0]
  ELSE [coins EXCEPT !.outs = @ \cup {txInUndo.n}]

Restored(coins, txInUndo) ==
  IF txInUndo.nHeight # 0 \/ coins = Pruned
    THEN [outs |-> {txInUndo.n}, nHeight |-> txInUndo.nHeight]
    ELSE [coins EXCEPT !.outs = @ \cup {txInUndo.n}]

DisconnectRestore ==
  LET tx == Head(job.steps).out[1]
      txInUndo == Head(job.steps).undo
  IN  /\ job.op = "disconnect" /\ Step("restore")
      /\ clean' = /\ clean /\ (txInUndo.nHeight # 0) = (view[tx] = Pruned)
                  /\ ~IsAvailable(view[tx], txInUndo.n)
      /\ ModifyCoins(tx, Restored(view[tx], txInUndo))
      /\ job' = StepDone
      /\ UNCHANGED <<undo, storing>>

DisconnectBest ==
  /\ job.op = "disconnect" /\ job.steps = <<>>
  /\ SetBestBlock(pprev[job.block])
  /\ job' = [Idle EXCEPT !.op = "flush"]
  /\ UNCHANGED <<undo, storing, clean>>

-----------------------------------------------------------------------------

\* What the other threads do to pcoinsTip meanwhile.
Other ==
  /\ (\E tx \in Tx : ReadTip(tx) \/ Uncache(tx)) \/ GetTipBestBlock \/ FlushTip
  /\ UNCHANGED <<job, undo, storing, clean>>

\* LoadBlockIndexDB goes on from the best block of the database.
Restarted ==
  /\ Crash /\ job' = Idle /\ storing' = {} /\ UNCHANGED <<undo, clean>>

ChainNext ==
  \/ \E b \in BlockHash : StartConnect(b)
  \/ ConnectSpend \/ ConnectCreate \/ ConnectFails \/ ConnectBest
  \/ storeUndoBlock \/ FlushJob
  \/ StartDisconnect \/ DisconnectClear \/ DisconnectRestore \/ DisconnectBest
  \/ Other \/ Restarted

ChainSpec == ChainInit /\ [][ChainNext]_stateVars

-----------------------------------------------------------------------------

\* The UTXO set of a block, from its definition: the outputs of all transactions up
\* to it that none of these transactions spends.
Chain[b \in BlockHash] == IF b = Genesis THEN {} ELSE Chain[pprev[b]] \cup {b}
UtxoOf(b) ==
  LET txs == UNION {ToSet(vtx[a]) : a \in Chain[b]}
      spent == UNION {ToSet(vin[tx]) : tx \in txs}
      unspent(tx) == {n \in vout[tx] : <<tx, n>> \notin spent}
  IN  [tx \in Tx |->
         IF tx \in txs /\ unspent(tx) # {}
           THEN [outs |-> unspent(tx),
                 nHeight |-> nHeight[CHOOSE a \in Chain[b] : tx \in ToSet(vtx[a])]]
           ELSE Pruned]

\* GetBestBlock is "the block hash whose state this CCoinsView currently represents"
\* (coins.h): whatever was connected, disconnected, flushed or lost on the way, the
\* tip and the database hold the UTXO set of their best block.
UtxoOfBestBlock == tip = UtxoOf(tipBest) /\ db = UtxoOf(dbBlock)

\* disconnectTip always finds the outputs that it removes and only restores outputs
\* that are not there: it never has to suspect "database corruption".
UndoIsClean == clean
=============================================================================
