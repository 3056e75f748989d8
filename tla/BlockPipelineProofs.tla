------------------------ MODULE BlockPipelineProofs ------------------------
(***************************************************************************)
(* The UTXO set is the one of the tip of the active chain, and the active  *)
(* chain is a path of the tree: for any tree of blocks, any number of      *)
(* jobs and any order in which tasks and handlers run.                     *)
(***************************************************************************)
EXTENDS BlockPipelineLemmas

(***************************************************************************)
(* The handlers that change the chains.                                    *)
(***************************************************************************)

\* appendHeader never leaves the header chain empty.
LEMMA AppendKeepsChain ==
  ASSUME HeadersInv, NEW b \in Block, NEW bad, Genesis \notin bad,
         appendHeader(b, bad, nChainWork)
  PROVE  IsPath(headersChain') /\ headersChain' # <<>> /\ headerChainTips' \in Seq(Block)
  <1>. SUFFICES headersChain' # <<>>
    BY AppendKeepsPath DEF HeadersInv, PathInv
  <1>1. validPrevOf(b, bad) \in Block
    BY ValidPrevExists
  <1>2. IsPath(headersChain) /\ headerChainTips \in Seq(Block)
    BY DEF HeadersInv, PathInv
  <1>3. ASSUME NEW chain, IsPath(chain), NEW v \in Block PROVE SetTip(chain, v) # <<>>
    BY <1>3, SetTipGivesPath, PathToProperties
  <1>4. ASSUME NEW chain, IsPath(chain), chain # <<>>, NEW v \in Block,
               SwitchToMoreWork(chain, v, b, nChainWork)
        PROVE  headersChain' # <<>>
    BY <1>3, <1>4 DEF SwitchToMoreWork
  <1>5. CASE UNCHANGED dbVars
    BY <1>5 DEF dbVars, HeadersInv
  <1>6. ASSUME NEW i, ReplaceTip(i, b, bad, nChainWork) PROVE headersChain' # <<>>
    BY <1>1, <1>2, <1>3, <1>4, <1>6 DEF ReplaceTip, HeadersInv
  <1>7. CASE AddTip(b, nChainWork)
    BY <1>2, <1>3, <1>4, <1>7 DEF AddTip, HeadersInv
  <1>8. CASE DropTips(b, bad, nChainWork)
    <2>1. PICK v \in Block, w \in Block :
            \/ SwitchToMoreWork(headersChain, v, b, nChainWork)
            \/ SwitchToMoreWork(SetTip(headersChain, w), v, b, nChainWork)
      BY <1>2, <1>8, DropTipsOf
    <2>2. IsPath(SetTip(headersChain, w)) /\ SetTip(headersChain, w) # <<>>
      BY <1>2, <1>3, SetTipGivesPath, IsPathOfBlock
    <2>3. QED
      BY <1>2, <1>4, <2>1, <2>2 DEF HeadersInv
  <1>9. QED
    BY <1>5, <1>6, <1>7, <1>8 DEF appendHeader

\* prepareChain cuts a path at one of its blocks.
LEMMA PrepareKeepsTip ==
  ASSUME TipInv, NEW hc, prepareChain(hc) PROVE TipInv'
  <1>1. utxo \in Block /\ blockchain = PathTo(utxo) /\ nHeight[utxo] \in Nat
    BY TreeAssumption DEF TipInv
  <1>2. blockchain \in Seq(Block) /\ Len(blockchain) = nHeight[utxo] + 1
    BY <1>1, PathToProperties
  <1>3. CASE UNCHANGED chainVars
    BY <1>3, TipKept
  <1>4. ASSUME NEW n \in 1 .. Len(blockchain), blockchain' = SubSeq(blockchain, 1, n),
               utxo' = blockchain[n]
        PROVE  TipInv'
    <2> DEFINE a == blockchain[n]
    <2>1. /\ n - 1 \in 0 .. nHeight[utxo] /\ a = ancestor[utxo][n - 1]
          /\ ancestor[utxo] \in [0 .. nHeight[utxo] -> Block]
      BY <1>1, <1>2, TreeAssumption DEF PathTo
    <2>2. /\ a \in Block /\ nHeight[a] = n - 1
          /\ \A k \in 0 .. n - 1 : ancestor[a][k] = ancestor[utxo][k]
      BY <1>1, <2>1, AncestorAssumption
    <2>3. SubSeq(blockchain, 1, n) = [i \in 1 .. n |-> blockchain[i]]
      BY <1>2, SubSeqOf
    <2>4. \A i \in 1 .. n : blockchain[i] = ancestor[a][i - 1]
      <3>1. SUFFICES ASSUME NEW i \in 1 .. n PROVE blockchain[i] = ancestor[a][i - 1]
        OBVIOUS
      <3>2. i \in 1 .. nHeight[utxo] + 1 /\ i - 1 \in 0 .. n - 1
        BY <1>1, <1>2
      <3>3. blockchain[i] = ancestor[utxo][i - 1]
        BY <1>1, <3>2 DEF PathTo
      <3>4. QED
        BY <2>2, <3>2, <3>3
    <2> HIDE DEF a
    <2>5. SubSeq(blockchain, 1, n) = PathTo(a)
      BY <2>2, <2>3, <2>4 DEF PathTo
    <2>6. QED
      BY <1>4, <2>2, <2>5 DEF TipInv, a, PathTo
  <1>5. QED
    BY <1>3, <1>4 DEF prepareChain

LEMMA AppendNextKeeps ==
  ASSUME PipelineInv, AppendNext PROVE PipelineInv'
  <1> DEFINE h == Head(strand)
             k == h.list[h.n + 1]
             b == state[k].blk
             h2 == [h EXCEPT !.n = @ + 1]
  <1>1. /\ strand # <<>> /\ h.op = "append" /\ h.n < Len(h.list)
        /\ indexMap' = indexMap \cup {b}
        /\ appendHeader(b, failed, nChainWork)
        /\ strand' = <<h2>> \o Tail(strand)
        /\ UNCHANGED <<failed, chainVars, orphanBlocks, lastFullBlockScheduled, state, posted>>
    BY DEF AppendNext, queueVars
  <1>2. h \in Handlers /\ HandlerOK(state, h)
    BY <1>1, StrandTail DEF PipelineInv
  <1>3. b \in Block \ {Genesis}
    <2>1. h.list \in Seq(Job) /\ h.n \in Int /\ h.n >= 0 /\ Len(h.list) \in Nat
      BY <1>2, SeqOf DEF Handlers, HandlerOK
    <2>2. h.n + 1 \in 1 .. Len(h.list)
      <3> DEFINE x == h.n
                 y == Len(h.list)
      <3>1. x \in Int /\ y \in Nat /\ x >= 0 /\ x < y
        BY <1>1, <2>1
      <3> HIDE DEF x, y
      <3>2. x + 1 \in 1 .. y
        BY <3>1
      <3>3. QED
        BY <3>2 DEF x, y
    <2>3. k \in Job /\ state[k].blk # NULL
      BY <1>2, <2>1, <2>2, SeqOf DEF HandlerOK
    <2>4. QED
      BY <2>3 DEF PipelineInv, Shape
  <1> HIDE DEF h, b
  <1>4. /\ h2 \in Handlers /\ h2.op = h.op /\ h2.job = h.job /\ h2.list = h.list
        /\ h2.n = h.n + 1 /\ h.n \in Int
    <2>1. h.n \in Int
      BY <1>2 DEF Handlers
    <2>2. \A n \in Int : [h EXCEPT !.n = n] \in Handlers
      BY <1>2 DEF Handlers
    <2>3. \A n \in Int : LET new == [h EXCEPT !.n = n] IN
            new.op = h.op /\ new.job = h.job /\ new.list = h.list /\ new.n = n
      BY <1>2 DEF Handlers
    <2>4. QED
      BY <2>1, <2>2, <2>3
  <1> HIDE DEF h2
  <1>5. HandlerOK(state, h2)
    BY <1>2, <1>4 DEF HandlerOK
  <1>6. StrandOK(state, strand')
    BY <1>1, <1>4, <1>5, StrandHead DEF PipelineInv
  <1>7. HeadersInv'
    <2>1. HeadersInv /\ Genesis \notin failed
      BY DEF PipelineInv, HeadersInv, PathInv
    <2>2. IsPath(headersChain') /\ headersChain' # <<>> /\ headerChainTips' \in Seq(Block)
      BY <1>1, <1>3, <2>1, AppendKeepsChain
    <2>3. QED
      BY <1>1, <1>3, <2>1, <2>2 DEF HeadersInv, PathInv
  <1>8. TipInv' /\ ScheduleInv'
    BY <1>1, TipKept DEF PipelineInv, ScheduleInv
  <1>9. \A j \in orphanBlocks' : j \in Job /\ state[j].blk # NULL
    BY <1>1 DEF PipelineInv, OrphanInv
  <1>10. /\ posted' \in [Job -> [Ops -> Int]]
         /\ \A j \in Job : posted'[j]["checks1"] <= posted[j]["checks1"]
    BY <1>1 DEF PipelineInv, TaskInv, Ops
  <1>11. SameBlk(state, state')
    BY <1>1, SameBlkReflexive DEF PipelineInv
  <1>12. QED
    BY <1>6, <1>7, <1>8, <1>9, <1>10, <1>11, Assemble

LEMMA HeaderReorgKeeps ==
  ASSUME PipelineInv, HeaderReorg PROVE PipelineInv'
  <1>1. /\ strand # <<>> /\ prepareChain(headersChain) /\ lastFullBlockScheduled' = -1
        /\ strand' = <<FindMoreJobs>> \o Tail(strand)
        /\ state' = Finish(state, Head(strand).job)
        /\ UNCHANGED <<headerVars, orphanBlocks, posted>>
    BY DEF HeaderReorg, Appended
  <1>2. SameBlk(state, state')
    BY <1>1, SameBlkReflexive, FinishSame DEF PipelineInv
  <1>3. StrandOK(state, strand')
    BY <1>1, NewFindMoreJobs, StrandHead DEF PipelineInv
  <1>4. TipInv' /\ HeadersInv'
    BY <1>1, PrepareKeepsTip, HeadersKept DEF PipelineInv
  <1>5. ScheduleInv'
    BY <1>1 DEF ScheduleInv
  <1>6. \A j \in orphanBlocks' : j \in Job /\ state[j].blk # NULL
    BY <1>1 DEF PipelineInv, OrphanInv
  <1>7. /\ posted' \in [Job -> [Ops -> Int]]
        /\ \A j \in Job : posted'[j]["checks1"] <= posted[j]["checks1"]
    BY <1>1 DEF PipelineInv, TaskInv, Ops
  <1>8. QED
    BY <1>2, <1>3, <1>4, <1>5, <1>6, <1>7, Assemble

LEMMA ForwardFullKeeps ==
  ASSUME PipelineInv, ForwardFull PROVE PipelineInv'
  <1> DEFINE h == Head(strand)
             All == {h.list[i] : i \in 1 .. Len(h.list)}
             St(f) == [k \in Job |-> IF k \in f THEN [state[k] EXCEPT !.bits = @ \cup {"Tree"}]
                                               ELSE state[k]]
  <1>1. PICK f \in SUBSET All :
          /\ posted' = [k \in Job |-> IF k \in f
                                        THEN [posted[k] EXCEPT !.checks2 = @ + 1] ELSE posted[k]]
          /\ lastFullBlockScheduled' \in
               {nHeight[state[k].blk] : k \in f} \cup {lastFullBlockScheduled}
          /\ state' = St(f) \/ state' = Finish(St(f), h.job)
    <2> DEFINE items == {i \in 1 .. Len(h.list) : InChain(headersChain, state[h.list[i]].blk)}
               first == state[h.list[CHOOSE i \in items : \A k \in items : i <= k]].blk
               parentReady == \/ nHeight[first] <= 1
                              \/ InChain(blockchain, pprev[first])
                              \/ /\ blocksBeingValidated[pprev[first]] # NULL
                                 /\ "Tree" \in state[blocksBeingValidated[pprev[first]]].bits
               recent == nHeight[state[h.job].blk] - Height < blocksInFlightLimit
               go == {i \in items : /\ recent /\ parentReady
                                    /\ \A k \in items : k <= i => state[h.list[k]].full}
               forwarded == {h.list[i] : i \in go}
    <2>1. /\ posted' = [k \in Job |-> IF k \in forwarded
                                        THEN [posted[k] EXCEPT !.checks2 = @ + 1] ELSE posted[k]]
          /\ lastFullBlockScheduled' \in
               {nHeight[state[k].blk] : k \in forwarded} \cup {lastFullBlockScheduled}
          /\ state' = St(forwarded) \/ state' = Finish(St(forwarded), h.job)
      <3> HIDE DEF Finish, InChain, Height
      <3>1. QED
        BY DEF ForwardFull
    <2>2. forwarded \subseteq All
      OBVIOUS
    <2> HIDE DEF forwarded, All, St
    <2>3. QED
      BY <2>1, <2>2
  <1>2. /\ UNCHANGED <<headerVars, chainVars, orphanBlocks>>
        /\ strand # <<>> /\ strand' = Tail(strand)
    BY DEF ForwardFull, Appended
  <1>3. h \in Handlers /\ HandlerOK(state, h) /\ StrandOK(state, strand')
    BY <1>2, StrandTail DEF PipelineInv
  <1>4. \A k \in f : k \in Job /\ nHeight[state[k].blk] \in Nat
    <2>1. h.list \in Seq(Job)
      BY <1>3 DEF Handlers
    <2>2. \A i \in 1 .. Len(h.list) : h.list[i] \in Job /\ state[h.list[i]].blk # NULL
      BY <1>3, <2>1, SeqOf DEF HandlerOK
    <2>3. \A k \in f : k \in Job /\ state[k].blk # NULL
      BY <2>2, <1>1
    <2>4. QED
      BY <2>3, TreeAssumption DEF PipelineInv, Shape
  <1> HIDE DEF h, All
  <1>5. SameBlk(state, state')
    <2>1. SameBlk(state, St(f))
      BY SameBlkReflexive DEF PipelineInv, SameBlk
    <2> HIDE DEF St
    <2>2. QED
      BY <1>1, <2>1, FinishSame
  <1>6. ScheduleInv'
    BY <1>1, <1>4 DEF PipelineInv, ScheduleInv
  <1>7. /\ posted' \in [Job -> [Ops -> Int]]
        /\ \A k \in Job : posted'[k]["checks1"] <= posted[k]["checks1"]
    <2>1. posted \in [Job -> [Ops -> Int]] /\ "checks2" \in Ops /\ "checks1" \in Ops
      BY DEF PipelineInv, TaskInv, Ops
    <2>2. \A k \in Job : /\ posted[k] \in [Ops -> Int]
                         /\ [posted[k] EXCEPT !.checks2 = @ + 1] \in [Ops -> Int]
                         /\ [posted[k] EXCEPT !.checks2 = @ + 1]["checks1"] = posted[k]["checks1"]
      BY <2>1
    <2>3. QED
      BY <1>1, <2>1, <2>2
  <1>8. HeadersInv' /\ TipInv'
    BY <1>2, HeadersKept, TipKept DEF PipelineInv
  <1>9. \A j \in orphanBlocks' : j \in Job /\ state[j].blk # NULL
    BY <1>2 DEF PipelineInv, OrphanInv
  <1>10. QED
    BY <1>3, <1>5, <1>6, <1>7, <1>8, <1>9, Assemble

\* handleFailedBlock, for a block.
LEMMA FailedKeeps ==
  ASSUME HeadersInv, TipInv, NEW j, state[j].blk \in Block \ {Genesis}, handleFailedBlockOf(j)
  PROVE  HeadersInv' /\ TipInv'
  <1> DEFINE b == state[j].blk
  <1>1. CASE UNCHANGED <<indexMap, failed, dbVars, chainVars>>
    BY <1>1, TipKept DEF HeadersInv, PathInv, dbVars, IsPath, PathTo
  <1>2. CASE /\ indexMap' = indexMap \cup {b} /\ failed' = MarkedWith(b)
             /\ appendHeader(b, MarkedWith(b), nChainWork)
             /\ prepareChain(headersChain') \/ UNCHANGED chainVars
    <2>1. MarkedWith(b) \subseteq Block \ {Genesis}
      BY TreeAssumption DEF MarkedWith, HeadersInv, PathInv
    <2>2. IsPath(headersChain') /\ headersChain' # <<>> /\ headerChainTips' \in Seq(Block)
      BY <1>2, <2>1, AppendKeepsChain
    <2>3. TipInv'
      BY <1>2, TipKept, PrepareKeepsTip
    <2>4. QED
      BY <1>2, <2>1, <2>2, <2>3 DEF HeadersInv, PathInv
  <1>3. QED
    BY <1>1, <1>2 DEF handleFailedBlockOf

LEMMA HeaderRejectedKeeps ==
  ASSUME PipelineInv, NEW j \in Job, HeaderRejected(j) PROVE PipelineInv'
  <1>1. /\ UNCHANGED <<posted, orphanBlocks, lastFullBlockScheduled>>
        /\ strand # <<>> /\ Head(strand).op = "blockHeaderValidated" /\ Head(strand).job = j
        /\ strand' = Tail(strand) /\ state' = Marked(blockFailed(Linked(j), j), j)
        /\ handleFailedBlockOf(j)
    BY DEF HeaderRejected, queueVars, Header, Running
  <1>2. StrandOK(state, strand') /\ HandlerOK(state, Head(strand))
    BY <1>1, StrandTail DEF PipelineInv
  <1>3. state[j].blk \in Block \ {Genesis}
    BY <1>1, <1>2 DEF HandlerOK, PipelineInv, Shape
  <1>4. HeadersInv' /\ TipInv'
    BY <1>1, <1>3, FailedKeeps DEF PipelineInv
  <1>5. SameBlk(state, state')
    BY <1>1, LinkedSame, FinishSame, MarkedSame DEF PipelineInv
  <1>6. ScheduleInv' /\ \A k \in orphanBlocks' : k \in Job /\ state[k].blk # NULL
    BY <1>1 DEF PipelineInv, ScheduleInv, OrphanInv
  <1>7. /\ posted' \in [Job -> [Ops -> Int]]
        /\ \A k \in Job : posted'[k]["checks1"] <= posted[k]["checks1"]
    BY <1>1 DEF PipelineInv, TaskInv, Ops
  <1>8. QED
    BY <1>2, <1>4, <1>5, <1>6, <1>7, Assemble

\* The paths of processNewBlock that handle the block.
LEMMA ProcessStep ==
  ASSUME PipelineInv, NEW j \in Job, NEW st, SameBlk(state, st), ProcessNewBlock(j),
         ProcessEnds(j, st)
  PROVE  /\ SameBlk(state, state') /\ StrandOK(state, strand')
         /\ state[j].blk \in Block \ {Genesis}
         /\ \A k \in orphanBlocks' : k \in Job /\ state[k].blk # NULL
  <1>1. /\ strand # <<>> /\ strand' = Tail(strand) /\ UNCHANGED orphanBlocks
        /\ state' = Finish([st EXCEPT ![j].handled = TRUE], j) /\ state[j].blk # NULL
    BY DEF ProcessEnds, ProcessNewBlock, Processing, Running, m_blockIndex
  <1>2. SameBlk(state, [st EXCEPT ![j].handled = TRUE])
    BY DEF SameBlk
  <1>3. QED
    BY <1>1, <1>2, FinishSame, StrandTail DEF PipelineInv, OrphanInv, Shape

LEMMA ProcessConnectKeeps ==
  ASSUME PipelineInv, NEW j \in Job, ProcessConnect(j) PROVE PipelineInv'
  <1> DEFINE children == Range(state[j].children)
             ready == {c \in children : "ChainHeaders" \in state[c].bits}
             st == [c \in Job |-> IF c \in children
                                    THEN [state[c] EXCEPT !.bits = @ \cup {"Parent"}]
                                    ELSE state[c]]
  <1>1. /\ ProcessNewBlock(j) /\ ProcessEnds(j, st)
        /\ utxo' = state[j].blk /\ blockchain' = SetTip(blockchain, state[j].blk)
        /\ posted' = [c \in Job |-> IF c \in ready
                                      THEN [posted[c] EXCEPT !.updateUtxo = @ + 1]
                                      ELSE posted[c]]
        /\ UNCHANGED <<headerVars, lastFullBlockScheduled>>
    BY DEF ProcessConnect
  <1>2. SameBlk(state, st)
    <2> HIDE DEF children
    <2>1. QED
      BY DEF PipelineInv, Shape, SameBlk
  <1> HIDE DEF st, ready
  <1>3. /\ SameBlk(state, state') /\ StrandOK(state, strand')
        /\ state[j].blk \in Block \ {Genesis}
        /\ \A k \in orphanBlocks' : k \in Job /\ state[k].blk # NULL
    BY <1>1, <1>2, ProcessStep
  <1>4. TipInv'
    <2>1. IsPath(blockchain)
      BY DEF PipelineInv, TipInv, IsPath
    <2>2. blockchain' = PathTo(state[j].blk)
      BY <1>1, <1>3, <2>1, SetTipGivesPath
    <2>3. QED
      BY <1>1, <1>3, <2>2 DEF TipInv, PathTo
  <1>5. HeadersInv' /\ ScheduleInv'
    BY <1>1, HeadersKept DEF PipelineInv, ScheduleInv
  <1>6. /\ posted' \in [Job -> [Ops -> Int]]
        /\ \A k \in Job : posted'[k]["checks1"] <= posted[k]["checks1"]
    <2>1. posted \in [Job -> [Ops -> Int]] /\ "updateUtxo" \in Ops /\ "checks1" \in Ops
      BY DEF PipelineInv, TaskInv, Ops
    <2>2. \A k \in Job : /\ posted[k] \in [Ops -> Int]
                         /\ [posted[k] EXCEPT !.updateUtxo = @ + 1] \in [Ops -> Int]
                         /\ [posted[k] EXCEPT !.updateUtxo = @ + 1]["checks1"] =
                              posted[k]["checks1"]
      BY <2>1
    <2>3. QED
      BY <1>1, <2>1, <2>2
  <1>7. QED
    BY <1>3, <1>4, <1>5, <1>6, Assemble

LEMMA ProcessInvalidKeeps ==
  ASSUME PipelineInv, NEW j \in Job, ProcessInvalid(j) PROVE PipelineInv'
  <1>1. /\ ProcessNewBlock(j) /\ ProcessEnds(j, Marked(state, j)) /\ handleFailedBlockOf(j)
        /\ lastFullBlockScheduled' = IF nHeight[state[j].blk] = lastFullBlockScheduled
                                       THEN lastFullBlockScheduled - 1
                                       ELSE lastFullBlockScheduled
        /\ UNCHANGED posted
    BY DEF ProcessInvalid
  <1>2. SameBlk(state, Marked(state, j))
    BY SameBlkReflexive, MarkedSame DEF PipelineInv
  <1>3. /\ SameBlk(state, state') /\ StrandOK(state, strand')
        /\ state[j].blk \in Block \ {Genesis}
        /\ \A k \in orphanBlocks' : k \in Job /\ state[k].blk # NULL
    BY <1>1, <1>2, ProcessStep
  <1>4. HeadersInv' /\ TipInv'
    BY <1>1, <1>3, FailedKeeps DEF PipelineInv
  <1>5. ScheduleInv'
    BY <1>1, <1>3, TreeAssumption DEF PipelineInv, ScheduleInv
  <1>6. /\ posted' \in [Job -> [Ops -> Int]]
        /\ \A k \in Job : posted'[k]["checks1"] <= posted[k]["checks1"]
    BY <1>1 DEF PipelineInv, TaskInv, Ops
  <1>7. QED
    BY <1>3, <1>4, <1>5, <1>6, Assemble

LEMMA ProcessLeaveKeeps ==
  ASSUME PipelineInv, NEW j \in Job, ProcessLeave(j) PROVE PipelineInv'
  <1>1. /\ ProcessNewBlock(j) /\ ProcessEnds(j, state)
        /\ failed' = failed \/ failed' = failed \cup {state[j].blk}
        /\ UNCHANGED <<indexMap, headerChainTips, headersChain, chainVars,
                       lastFullBlockScheduled, posted>>
    BY DEF ProcessLeave, dbVars
  <1>2. /\ SameBlk(state, state') /\ StrandOK(state, strand')
        /\ state[j].blk \in Block \ {Genesis}
        /\ \A k \in orphanBlocks' : k \in Job /\ state[k].blk # NULL
    BY <1>1, ProcessStep, SameBlkReflexive DEF PipelineInv
  <1>3. HeadersInv' /\ TipInv' /\ ScheduleInv'
    <2>1. HeadersInv'
      BY <1>1, <1>2 DEF PipelineInv, HeadersInv, PathInv, IsPath, PathTo
    <2>2. QED
      BY <1>1, <2>1, TipKept DEF PipelineInv, ScheduleInv
  <1>4. /\ posted' \in [Job -> [Ops -> Int]]
        /\ \A k \in Job : posted'[k]["checks1"] <= posted[k]["checks1"]
    BY <1>1 DEF PipelineInv, TaskInv, Ops
  <1>5. QED
    BY <1>2, <1>3, <1>4, Assemble

LEMMA ProcessNothingKeeps ==
  ASSUME PipelineInv, NEW j \in Job, ProcessNothing(j) \/ ProcessLessWork(j)
  PROVE  PipelineInv'
  <1>1. /\ UNCHANGED <<headerVars, chainVars, posted, state, orphanBlocks,
                       lastFullBlockScheduled>>
        /\ strand # <<>> /\ strand' \in {strand, Tail(strand)}
    BY DEF ProcessNothing, ProcessLessWork, queueVars, Processing, Running
  <1>2. QED
    BY <1>1, StrandTail, SameBlkReflexive, HandlerStep
    DEF PipelineInv, ScheduleInv, OrphanInv

LEMMA LastScheduled ==
  ASSUME TipInv, ScheduleInv
  PROVE  lastScheduled \in Nat
  <1>1. Len(blockchain) \in Nat
    BY PathToProperties, TreeAssumption DEF TipInv
  <1>2. QED
    BY <1>1 DEF ScheduleInv, lastScheduled, Height

LEMMA FindMoreJobsEndsKeeps ==
  ASSUME PipelineInv, findMoreJobsDone \/ findMoreJobsUnreadable
  PROVE  PipelineInv'
  <1>1. /\ UNCHANGED <<headerVars, chainVars, posted, state, orphanBlocks>>
        /\ lastFullBlockScheduled' \in {lastFullBlockScheduled, lastScheduled}
        /\ strand # <<>>
        /\ strand' = Tail(strand) \/ strand' = Tail(strand) \o Landed(headersInFlight)
    BY DEF findMoreJobsDone, findMoreJobsUnreadable, Finding
  <1>2. StrandOK(state, strand')
    BY <1>1, StrandTail, LandedOK, StrandConcat DEF PipelineInv
  <1>3. ScheduleInv'
    BY <1>1, LastScheduled DEF PipelineInv, ScheduleInv
  <1>4. QED
    BY <1>1, <1>2, <1>3, SameBlkReflexive, HandlerStep DEF PipelineInv, OrphanInv

LEMMA CleanupKeeps ==
  ASSUME PipelineInv, cleanup \/ shutdown
  PROVE  PipelineInv'
  <1>1. UNCHANGED <<headerVars, chainVars, posted, lastFullBlockScheduled>>
        /\ orphanBlocks' \in {orphanBlocks, {}}
    BY DEF cleanup, shutdown, queueVars
  <1>2. StrandOK(state, strand')
    <2>1. \/ strand # <<>> /\ strand' = Tail(strand)
          \/ strand' = Append(strand, Handler("cleanup", NULL))
      BY DEF cleanup, shutdown
    <2>2. QED
      BY <2>1, StrandTail, StrandAppend, NewCleanup DEF PipelineInv
  <1>3. SameBlk(state, state')
    <2>1. \/ UNCHANGED state
          \/ \E w : state' = [j \in Job |->
                                IF j \in w
                                  THEN [state[j] EXCEPT !.waiting = FALSE, !.held = FALSE]
                                  ELSE state[j]]
      BY DEF cleanup, shutdown
    <2>2. ASSUME NEW w PROVE SameBlk(state, [j \in Job |->
                               IF j \in w
                                 THEN [state[j] EXCEPT !.waiting = FALSE, !.held = FALSE]
                                 ELSE state[j]])
      BY DEF PipelineInv, Shape, SameBlk
    <2>3. QED
      BY <2>1, <2>2, SameBlkReflexive DEF PipelineInv
  <1>4. QED
    BY <1>1, <1>2, <1>3, HandlerStep DEF PipelineInv, ScheduleInv, OrphanInv

-----------------------------------------------------------------------------
(***************************************************************************)
(* The start and the end of a job.                                         *)
(***************************************************************************)

\* A job starts: no job that was live changes its block.
LEMMA StartStep ==
  ASSUME PipelineInv, UNCHANGED <<headerVars, chainVars, orphanBlocks, strand>>,
         Shape(state'), ScheduleInv',
         \A k \in Job : state[k].blk # NULL => state'[k].blk # NULL,
         posted' \in [Job -> [Ops -> Int]],
         \A k \in Job : posted'[k]["checks1"] > 0 => state'[k].blk # NULL
  PROVE  PipelineInv'
  <1>1. HeadersInv' /\ TipInv'
    BY HeadersKept, TipKept DEF PipelineInv
  <1>2. StrandOK(state', strand')
    BY StrandState DEF PipelineInv
  <1>3. TaskInv' /\ OrphanInv'
    BY DEF PipelineInv, TaskInv, OrphanInv
  <1>4. QED
    BY <1>1, <1>2, <1>3 DEF PipelineInv

LEMMA NewJobFree ==
  ASSUME Unused # {}
  PROVE  NewJob \in Job /\ state[NewJob].blk = NULL
  <1>1. NewJob \in Unused
    BY DEF NewJob
  <1>2. QED
    BY <1>1 DEF Unused, Free

LEMMA AddBlockKeeps ==
  ASSUME PipelineInv, NEW b \in Block, NEW kind, addBlock(b, kind) PROVE PipelineInv'
  <1> DEFINE j == NewJob
             new == [Free EXCEPT !.blk = b, !.full = kind.full, !.corrupt = kind.corrupt,
                                 !.waiting = kind.waiting, !.held = kind.waiting]
  <1>1. /\ Unused # {} /\ b # Genesis
        /\ state' = [state EXCEPT ![j] = new] /\ posted' = Post(posted, j, "checks1")
        /\ UNCHANGED <<headerVars, chainVars, orphanBlocks, strand, lastFullBlockScheduled>>
    BY DEF addBlock, CanOffer, queueVars
  <1>2. j \in Job /\ state[j].blk = NULL
    BY <1>1, NewJobFree
  <1>3. new.blk = b /\ "blk" \in DOMAIN new
    BY DEF Free
  <1> HIDE DEF j, new
  <1>4. /\ DOMAIN state' = Job
        /\ \A k \in Job : state'[k] = IF k = j THEN new ELSE state[k]
    BY <1>1, <1>2 DEF PipelineInv, Shape
  <1>5. Shape(state')
    BY <1>1, <1>2, <1>3, <1>4 DEF PipelineInv, Shape
  <1>6. \A k \in Job : state[k].blk # NULL => state'[k].blk # NULL
    BY <1>2, <1>4
  <1>7. /\ posted' \in [Job -> [Ops -> Int]]
        /\ \A k \in Job : posted'[k]["checks1"] > 0 => state'[k].blk # NULL
    <2>1. posted \in [Job -> [Ops -> Int]] /\ "checks1" \in Ops /\ NULL \notin Block
      BY TreeAssumption DEF PipelineInv, TaskInv, Ops
    <2>2. posted' \in [Job -> [Ops -> Int]] /\ \A k \in Job \ {j} : posted'[k] = posted[k]
      BY <1>1, <1>2, <2>1 DEF Post
    <2>3. QED
      BY <1>3, <1>4, <2>1, <2>2 DEF PipelineInv, TaskInv
  <1>8. ScheduleInv'
    BY <1>1 DEF PipelineInv, ScheduleInv
  <1>9. QED
    BY <1>1, <1>5, <1>6, <1>7, <1>8, StartStep

LEMMA FindMoreJobsKeeps ==
  ASSUME PipelineInv, findMoreJobs PROVE PipelineInv'
  <1> DEFINE b == NextToSchedule
             p == blocksBeingValidated[pprev[b]]
             j == NewJob
             bits == {"Header", "Tree"} \cup
                       (IF p = NULL /\ pprev[b] \in chained THEN {"Parent"} ELSE {})
             new == [Free EXCEPT !.blk = b, !.full = TRUE, !.bits = bits,
                                 !.checkingHeader = FALSE]
  <1>1. /\ Unused # {} /\ b # NULL
        /\ state' = [k \in Job |->
                       IF k = j THEN new
                       ELSE IF k = p THEN [state[k] EXCEPT !.children = Append(@, j)]
                       ELSE state[k]]
        /\ posted' = Post(posted, j, "checks2")
        /\ lastFullBlockScheduled' = lastScheduled + 1
        /\ UNCHANGED <<headerVars, chainVars, orphanBlocks, strand>>
    BY DEF findMoreJobs, CanSchedule
  <1>2. j \in Job /\ state[j].blk = NULL
    BY <1>1, NewJobFree
  <1>3. lastScheduled \in Nat
    BY LastScheduled DEF PipelineInv
  <1>4. b \in Block \ {Genesis}
    <2>1. /\ lastScheduled + 2 <= Len(headersChain) /\ b = headersChain[lastScheduled + 2]
      BY <1>1 DEF NextToSchedule
    <2>2. PICK t \in Block : headersChain = PathTo(t)
      BY DEF PipelineInv, HeadersInv, PathInv, IsPath
    <2>3. nHeight[t] \in Nat /\ Len(headersChain) = nHeight[t] + 1
      BY <2>2, PathToProperties, TreeAssumption
    <2>4. lastScheduled + 1 \in 0 .. nHeight[t] /\ lastScheduled + 2 \in 1 .. nHeight[t] + 1
      BY <1>3, <2>1, <2>3
    <2>5. b = ancestor[t][lastScheduled + 1]
      BY <1>3, <2>1, <2>2, <2>4 DEF PathTo
    <2>6. b \in Block /\ nHeight[b] = lastScheduled + 1
      <3>1. ancestor[t] \in [0 .. nHeight[t] -> Block]
        BY <2>2, TreeAssumption
      <3>2. b \in Block
        BY <2>4, <2>5, <3>1
      <3>3. nHeight[ancestor[t][lastScheduled + 1]] = lastScheduled + 1
        BY <2>2, <2>4, AncestorAssumption
      <3>4. QED
        BY <2>5, <3>2, <3>3
    <2>7. QED
      BY <1>3, <2>6, TreeAssumption
  <1>5. new.blk = b /\ "blk" \in DOMAIN new
    BY DEF Free
  <1> HIDE DEF j, new, b, p, bits
  <1>6. /\ DOMAIN state' = Job
        /\ \A k \in Job : /\ "blk" \in DOMAIN state'[k]
                          /\ state'[k].blk = IF k = j THEN b ELSE state[k].blk
    BY <1>1, <1>5 DEF PipelineInv, Shape
  <1>7. Shape(state')
    BY <1>4, <1>6 DEF PipelineInv, Shape
  <1>8. \A k \in Job : state[k].blk # NULL => state'[k].blk # NULL
    BY <1>2, <1>6
  <1>9. /\ posted' \in [Job -> [Ops -> Int]]
        /\ \A k \in Job : posted'[k]["checks1"] > 0 => state'[k].blk # NULL
    <2>1. posted \in [Job -> [Ops -> Int]] /\ "checks2" \in Ops
      BY DEF PipelineInv, TaskInv, Ops
    <2>2. /\ posted' \in [Job -> [Ops -> Int]]
          /\ \A k \in Job : posted'[k]["checks1"] = posted[k]["checks1"]
      BY <1>1, <1>2, <2>1, PostDone
    <2>3. QED
      BY <1>8, <2>2 DEF PipelineInv, TaskInv
  <1>10. ScheduleInv'
    BY <1>1, <1>3 DEF ScheduleInv
  <1>11. QED
    BY <1>1, <1>7, <1>8, <1>9, <1>10, StartStep

\* A job that nothing refers to ends.
LEMMA DestroyKeeps ==
  ASSUME PipelineInv, NEW j \in Job, Destroy(j) PROVE PipelineInv'
  <1> DEFINE Kept(k) == SelectSeq(state[k].children, LAMBDA c : c # j)
             none == [Free EXCEPT !.waiting = state[j].waiting]
  <1>1. /\ ~Referenced(j)
        /\ state' = [k \in Job |-> IF k = j THEN none
                                   ELSE [state[k] EXCEPT !.children = Kept(k)]]
        /\ UNCHANGED <<headerVars, chainVars, orphanBlocks, lastFullBlockScheduled, posted>>
    BY DEF Destroy, queueVars
  <1>2. \E n : strand' = strand \o Landed(n)
    BY DEF Destroy
  <1>3. none.blk = NULL /\ "blk" \in DOMAIN none
    BY DEF Free
  <1> HIDE DEF Kept, none
  <1>4. /\ DOMAIN state' = Job
        /\ \A k \in Job : /\ "blk" \in DOMAIN state'[k]
                          /\ state'[k].blk = IF k = j THEN NULL ELSE state[k].blk
    BY <1>1, <1>3 DEF PipelineInv, Shape
  <1>5. Shape(state')
    BY <1>4 DEF PipelineInv, Shape
  <1>6. StrandOK(state', strand)
    <2>1. strand \in Seq(Handlers) /\ \A i \in 1 .. Len(strand) : HandlerOK(state, strand[i])
      BY DEF PipelineInv, StrandOK
    <2>2. ASSUME NEW i \in 1 .. Len(strand) PROVE HandlerOK(state', strand[i])
      <3> DEFINE h == strand[i]
      <3>1. h \in Handlers /\ HandlerOK(state, h)
        BY <2>1, SeqOf
      <3>2. h.job # j /\ j \notin Range(h.list)
        BY <1>1 DEF Referenced
      <3> HIDE DEF h
      <3>3. h.list \in Seq(Job) /\ \A n \in 1 .. Len(h.list) : h.list[n] \in Job
        BY <3>1, SeqOf DEF Handlers
      <3>4. \A n \in 1 .. Len(h.list) : h.list[n] # j
        BY <3>2, <3>3, SeqOf DEF Range
      <3>5. HandlerOK(state', h)
        BY <1>4, <3>1, <3>2, <3>3, <3>4 DEF HandlerOK
      <3>6. QED
        BY <3>5 DEF h
    <2>3. QED
      BY <2>1, <2>2 DEF StrandOK
  <1>7. StrandOK(state', strand')
    BY <1>2, <1>6, LandedOK, StrandConcat
  <1>8. TaskInv'
    <2>1. "checks1" \in Ops /\ posted \in [Job -> [Ops -> Int]]
      BY DEF PipelineInv, TaskInv, Ops
    <2>2. ~(posted[j]["checks1"] > 0)
      BY <1>1, <2>1 DEF Referenced
    <2>3. QED
      BY <1>1, <1>4, <2>1, <2>2 DEF PipelineInv, TaskInv
  <1>9. OrphanInv'
    <2>1. j \notin orphanBlocks
      BY <1>1 DEF Referenced
    <2>2. QED
      BY <1>1, <1>4, <2>1 DEF PipelineInv, OrphanInv
  <1>10. HeadersInv' /\ TipInv' /\ ScheduleInv'
    BY <1>1, HeadersKept, TipKept DEF PipelineInv, ScheduleInv
  <1>11. QED
    BY <1>5, <1>7, <1>8, <1>9, <1>10 DEF PipelineInv

-----------------------------------------------------------------------------

LEMMA PipelineInvInitially == PipelineInit => PipelineInv
  <1>1. SUFFICES ASSUME PipelineInit PROVE PipelineInv
    OBVIOUS
  <1>2. Shape(state) /\ OrphanInv /\ ScheduleInv
    <2>1. state = [j \in Job |-> Free] /\ orphanBlocks = {} /\ lastFullBlockScheduled = -1
      BY <1>1 DEF PipelineInit
    <2>2. Free.blk = NULL /\ "blk" \in DOMAIN Free
      BY DEF Free
    <2>3. Shape(state)
      BY <2>1, <2>2 DEF Shape
    <2>4. OrphanInv /\ ScheduleInv
      BY <2>1 DEF OrphanInv, ScheduleInv
    <2>5. QED
      BY <2>3, <2>4
  <1>3. TaskInv
    BY <1>1 DEF PipelineInit, TaskInv, NoTasks, Ops
  <1>4. StrandOK(state, strand)
    BY <1>1, NewFindMoreJobs, StrandOne DEF PipelineInit
  <1>5. InitialTip \in Block /\ PathOf(InitialTip) = PathTo(InitialTip)
    BY PipelineAssumption DEF PathOf, PathTo
  <1>6. TipInv
    BY <1>1, <1>5 DEF PipelineInit, TipInv
  <1>7. HeadersInv
    <2>1. Below(InitialTip) \subseteq Block
      <3>1. ancestor[InitialTip] \in [0 .. nHeight[InitialTip] -> Block]
        BY <1>5, TreeAssumption
      <3>2. QED
        BY <3>1 DEF Below
    <2>2. headersChain = PathTo(InitialTip) /\ headersChain # <<>>
      BY <1>1, <1>5, PathToProperties DEF PipelineInit
    <2>3. headerChainTips \in Seq(Block)
      BY <1>1, <1>5 DEF PipelineInit
    <2>4. QED
      BY <1>1, <1>5, <2>1, <2>2, <2>3 DEF PipelineInit, HeadersInv, PathInv, IsPath
  <1>8. QED
    BY <1>2, <1>3, <1>4, <1>6, <1>7 DEF PipelineInv

LEMMA PipelineInvInductive ==
  ASSUME PipelineInv, [PipelineNext]_allVars PROVE PipelineInv'
  <1>1. CASE UNCHANGED allVars
    <2>1. /\ UNCHANGED <<headerVars, chainVars, posted, state, strand, orphanBlocks,
                         lastFullBlockScheduled>>
      BY <1>1 DEF allVars, pipelineVars, queueVars
    <2>2. QED
      BY <2>1, SameBlkReflexive, HandlerStep DEF PipelineInv, ScheduleInv, OrphanInv
  <1>2. CASE \E b \in Block, kind \in Offers : addBlock(b, kind)
    BY <1>2, AddBlockKeeps
  <1>3. CASE \E j \in Job : Task(j) \/ Destroy(j)
    BY <1>3, TaskKeeps, DestroyKeeps
  <1>4. CASE StrandStep
    BY <1>4, HeaderAfterShutdownKeeps, HeaderNothingToDoKeeps, HeaderRejectedKeeps,
       HeaderOrphanKeeps, HeaderAcceptedKeeps, ProcessNothingKeeps, ProcessConnectKeeps,
       ProcessInvalidKeeps, ProcessLeaveKeeps, StartOrphanKeeps, AdoptionEndsKeeps,
       AppendNextKeeps, HeaderReorgKeeps, ForwardFullKeeps, FindMoreJobsKeeps,
       FindMoreJobsEndsKeeps, CleanupKeeps
    DEF StrandStep
  <1>5. CASE shutdown
    BY <1>5, CleanupKeeps
  <1>6. QED
    BY <1>1, <1>2, <1>3, <1>4, <1>5 DEF PipelineNext

\* Whatever blocks are offered, in whatever order their checks end, and whatever
\* fails: the UTXO set is that of the tip of the active chain, and the active chain
\* is the path to it, also after prepareChain has disconnected blocks.
THEOREM UtxoAlwaysTip == PipelineSpec => []UtxoIsTip
  <1>1. PipelineInv => UtxoIsTip
    BY PathToProperties DEF PipelineInv, TipInv, UtxoIsTip, PathOf, PathTo
  <1>2. PipelineInv /\ [PipelineNext]_allVars => PipelineInv'
    BY PipelineInvInductive
  <1>3. QED
    BY <1>1, <1>2, PipelineInvInitially, PTL DEF PipelineSpec
=============================================================================
