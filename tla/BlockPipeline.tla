--------------------------- MODULE BlockPipeline ---------------------------
(***************************************************************************)
(* The block validation engine (libs/server/validation).  A block that is  *)
(* offered becomes a BlockValidationState.  Its context-free checks        *)
(* (checks1NoContext), contextual checks (checks2HaveParentHeaders), UTXO  *)
(* update and signature chunks run as tasks on the threads of the          *)
(* io_service, in any order; blockHeaderValidated, processNewBlock and     *)
(* findMoreJobs run one at a time, in the order they were posted, on the   *)
(* strand.  The header chain they steer by is HeaderChain's.               *)
(*                                                                         *)
(* A job is one BlockValidationState.  A failed assert, and fatal(), stop  *)
(* the program: its name is put in "aborted".  Long strand handlers are    *)
(* cut into steps that leave the handler at the head of the strand.        *)
(***************************************************************************)
EXTENDS HeaderChain, Integers, FiniteSets

CONSTANTS
  Job,                 \* the BlockValidationState objects
  InitialTip,          \* the tip of the chain when the engine starts
  FailsAt,             \* FailsAt[b]: the check that rejects b, or "none"
  Unreadable,          \* the blocks whose data may fail to be read back from disk
  Offers,              \* the ways in which a block is offered
  nChunks,             \* calculateTxCheckChunks
  blocksInFlightLimit,
  MaxOffers,           \* bound on the number of blocks that are offered
  MayShutdown

Stages == {"none", "checks1", "checks2", "utxo", "signatures", "reward"}
Kinds == [full : BOOLEAN, corrupt : BOOLEAN, waiting : BOOLEAN]
Bits == {"Header", "Tree", "ChainHeaders", "Parent", "Invalid"}
Ops == {"checks1", "checks2", "updateUtxo", "chunk", "undo"}

ASSUME PipelineAssumption ==
  /\ IsFiniteSet(Job) /\ NULL \notin Job /\ InitialTip \in Block
  /\ FailsAt \in [Block -> Stages]
  /\ Unreadable \subseteq Block /\ Offers \subseteq Kinds
  /\ nChunks \in Nat \ {0} /\ blocksInFlightLimit \in Nat \ {0}
  /\ MaxOffers \in Nat /\ MayShutdown \in BOOLEAN
  /\ pprev[Genesis] = NULL

VARIABLES
  state,                   \* state[j]: the members of the BlockValidationState j
  posted,                  \* posted[j][op]: its tasks on the io_service
  strand,                  \* the queue of the strand; its head is running
  orphanBlocks,
  blocksBeingValidated,    \* NULL for a block that has no entry
  lastFullBlockScheduled,
  headersInFlight, blocksInFlight,
  blockchain,              \* vChain of the active chain
  utxo,                    \* the best block of the UTXO set
  haveData, haveUndo,      \* blocks with BLOCK_HAVE_DATA, BLOCK_HAVE_UNDO
  chained,                 \* blocks with BLOCK_VALID_CHAIN and an nChainTx
  shuttingDown, aborted, nOffers

headerVars == <<indexMap, failed, headerChainTips, headersChain, pindexBestHeader, nFailures>>
chainVars == <<blockchain, utxo>>
indexVars == <<haveData, haveUndo, chained>>
queueVars == <<orphanBlocks, blocksBeingValidated, lastFullBlockScheduled>>
flightVars == <<headersInFlight, blocksInFlight>>
pipelineVars == <<state, posted, strand, queueVars, flightVars, chainVars, indexVars,
                  shuttingDown, aborted, nOffers>>
allVars == <<headerVars, pipelineVars>>

\* No BlockValidationState.  left is m_txChunkLeftToFinish, readFrom the best
\* block of the UTXO set that processBlock took its coins from, waiting a caller
\* inside waitUntilFinished, held its Settings' reference to the state.
Free == [blk |-> NULL, full |-> FALSE, corrupt |-> FALSE, bits |-> {}, children |-> <<>>,
         checkingHeader |-> TRUE, handled |-> FALSE, left |-> 0, readFrom |-> NULL,
         waiting |-> FALSE, held |-> FALSE]
NoTasks == [op \in Ops |-> 0]

\* A handler on the strand; list, todo, n and tip are blockHeaderValidated's
\* adoptees, the ones whose own orphans it has not looked for yet, how many of them
\* are in the index, and currentHeaderTip.
Handler(op, j) == [op |-> op, job |-> j, list |-> <<>>, todo |-> <<>>, n |-> 0, tip |-> NULL]
FindMoreJobs == Handler("findMoreJobs", NULL)

PathOf(t) == [i \in 1 .. nHeight[t] + 1 |-> ancestor[t][i - 1]]
Below(t) == {ancestor[t][h] : h \in 0 .. nHeight[t]}

\* The engine of a node whose chain ends in InitialTip, after setBlockchain.
PipelineInit ==
  /\ indexMap = Below(InitialTip) /\ failed = {}
  /\ headerChainTips = <<InitialTip>> /\ headersChain = PathOf(InitialTip)
  /\ pindexBestHeader = InitialTip /\ nFailures = 0
  /\ state = [j \in Job |-> Free] /\ posted = [j \in Job |-> NoTasks]
  /\ strand = <<FindMoreJobs>>
  /\ orphanBlocks = {} /\ blocksBeingValidated = [b \in Block |-> NULL]
  /\ lastFullBlockScheduled = -1 /\ headersInFlight = 0 /\ blocksInFlight = 0
  /\ blockchain = PathOf(InitialTip) /\ utxo = InitialTip
  /\ haveData = Below(InitialTip) /\ haveUndo = Below(InitialTip)
  /\ chained = Below(InitialTip)
  /\ shuttingDown = FALSE /\ aborted = {} /\ nOffers = 0

Height == Len(blockchain) - 1

\* A new BlockValidationState takes a job that is not in use.  Those that
\* findMoreJobs may need are not taken by addBlock: a bound on what is offered at
\* the same time.
Unused == {j \in Job : state[j] = Free}
CanOffer == Unused # {} /\ Cardinality(Unused) > blocksInFlightLimit - blocksInFlight
NewJob == CHOOSE j \in Unused : TRUE

Live(j) == state[j].blk # NULL
Running(op, j) == strand # <<>> /\ Head(strand).op = op /\ Head(strand).job = j
Post(p, j, op) == [p EXCEPT ![j][op] = @ + 1]
Take(j, op) == posted[j][op] > 0 /\ aborted = {}
Done(j, op) == [posted EXCEPT ![j][op] = @ - 1]

\* markFinished: the caller in waitUntilFinished returns and drops its Settings.
MutantFinish(st, j) == [st EXCEPT ![j].held = FALSE]

Finish(st, j) == [st EXCEPT ![j].waiting = FALSE, ![j].held = FALSE]
blockFailed(st, j) == Finish([st EXCEPT ![j].bits = @ \cup {"Invalid"}], j)

-----------------------------------------------------------------------------
(***************************************************************************)
(* Offering a block, and the end of a BlockValidationState.                *)
(***************************************************************************)

\* addBlock and the start of its Settings.  Two inputs are left out: a second
\* copy of a block that is still an orphan, and an orphan that fails checks1.
addBlock(b, kind) == LET j == NewJob IN
  /\ aborted = {} /\ ~shuttingDown /\ nOffers < MaxOffers
  /\ CanOffer /\ b # Genesis
  /\ pprev[b] \in indexMap \/ (FailsAt[b] # "checks1" /\ \A k \in Job : state[k].blk # b)
  /\ state' = [state EXCEPT ![j] = [Free EXCEPT !.blk = b, !.full = kind.full,
                                      !.corrupt = kind.corrupt,
                                      !.waiting = kind.waiting, !.held = kind.waiting]]
  /\ posted' = Post(posted, j, "checks1")
  /\ headersInFlight' = headersInFlight + 1
  /\ nOffers' = nOffers + 1
  /\ UNCHANGED <<headerVars, chainVars, indexVars, queueVars, strand, blocksInFlight,
                 shuttingDown, aborted>>

\* What blockLanded posts on the strand.
MutantLanded(before) == <<>>

Landed(before) ==
  IF before <= blocksInFlightLimit /\ ~shuttingDown THEN <<FindMoreJobs>> ELSE <<>>

Referenced(j) ==
  \/ \E op \in Ops : posted[j][op] > 0
  \/ \E i \in 1 .. Len(strand) : strand[i].job = j \/ j \in Range(strand[i].list)
  \/ j \in orphanBlocks
  \/ \E b \in Block : blocksBeingValidated[b] = j
  \/ state[j].held

\* ~BlockValidationState, in the thread that drops the last reference.
Destroy(j) ==
  /\ aborted = {} /\ Live(j) /\ ~Referenced(j)
  /\ IF state[j].checkingHeader
       THEN /\ headersInFlight' = headersInFlight - 1
            /\ strand' = strand \o Landed(headersInFlight)
            /\ UNCHANGED blocksInFlight
       ELSE /\ blocksInFlight' = blocksInFlight - 1
            /\ strand' = strand \o Landed(blocksInFlight)
            /\ UNCHANGED headersInFlight
  /\ state' = [k \in Job |->
                 IF k = j THEN [Free EXCEPT !.waiting = state[j].waiting]
                 ELSE [state[k] EXCEPT !.children = SelectSeq(@, LAMBDA c : c # j)]]
  /\ UNCHANGED <<headerVars, chainVars, indexVars, queueVars, posted, shuttingDown,
                 aborted, nOffers>>

-----------------------------------------------------------------------------
(***************************************************************************)
(* The tasks of the io_service.                                            *)
(***************************************************************************)

checks1NoContext(j) ==
  /\ Take(j, "checks1")
  /\ posted' = Done(j, "checks1")
  /\ state' = IF state[j].corrupt \/ FailsAt[state[j].blk] = "checks1"
                THEN blockFailed(state, j)
                ELSE [state EXCEPT ![j].bits = @ \cup {"Header"}]
  /\ strand' = Append(strand, Handler("blockHeaderValidated", j))
  /\ UNCHANGED <<headerVars, chainVars, indexVars, queueVars, flightVars, shuttingDown,
                 aborted, nOffers>>

\* finishUp
finishUp(j) == strand' = Append(strand, Handler("processNewBlock", j))

checks2HaveParentHeaders(j) ==
  /\ Take(j, "checks2")
  /\ IF FailsAt[state[j].blk] = "checks2"
       THEN /\ state' = blockFailed(state, j)
            /\ posted' = Done(j, "checks2")
            /\ finishUp(j)
       ELSE /\ state' = [state EXCEPT ![j].bits = @ \cup {"ChainHeaders"}]
            /\ posted' = IF state[j].bits \cap {"Parent", "Invalid"} # {}
                           THEN Post(Done(j, "checks2"), j, "updateUtxo")
                           ELSE Done(j, "checks2")
            /\ UNCHANGED strand
  /\ UNCHANGED <<headerVars, chainVars, indexVars, queueVars, flightVars, shuttingDown,
                 aborted, nOffers>>

\* processBlock looks the inputs up in the UTXO set as it is now.  On the parent's
\* UTXO set the outcome is what the block deserves; on any other the inputs may
\* be there or not.
ProcessBlockFails(b) ==
  IF utxo = pprev[b] THEN {FailsAt[b] = "utxo"} ELSE BOOLEAN

MutantChunksStarted(j) == [state EXCEPT ![j].readFrom = utxo, ![j].left = nChunks - 1]

ChunksStarted(j) == [state EXCEPT ![j].readFrom = utxo, ![j].left = nChunks]

updateUtxoAndStartValidation(j) ==
  /\ Take(j, "updateUtxo")
  /\ \E fails \in ProcessBlockFails(state[j].blk) :
       IF state[j].readFrom # NULL
         THEN /\ aborted' = aborted \cup {"onlyOnce"}
              /\ UNCHANGED <<state, posted, strand>>
         ELSE /\ IF fails
                   THEN /\ state' = [blockFailed(state, j) EXCEPT ![j].readFrom = utxo]
                        /\ posted' = Done(j, "updateUtxo")
                        /\ finishUp(j)
                   ELSE /\ state' = ChunksStarted(j)
                        /\ posted' = [Done(j, "updateUtxo") EXCEPT ![j].chunk = nChunks]
                        /\ UNCHANGED strand
              /\ UNCHANGED aborted
  /\ UNCHANGED <<headerVars, chainVars, indexVars, queueVars, flightVars, shuttingDown,
                 nOffers>>

\* A chunk that starts when the block is already invalid checks nothing.  Only
\* one of the chunks holds the bad signature; which one is not told apart.
checkSignaturesChunk(j) ==
  /\ Take(j, "chunk")
  /\ \E bad \in (IF FailsAt[state[j].blk] = "signatures" THEN BOOLEAN ELSE {FALSE}) :
       LET last == state[j].left = 1
           \* the bad signature is found at the latest by the last chunk
           fails == /\ FailsAt[state[j].blk] = "signatures" /\ (bad \/ last)
                    /\ "Invalid" \notin state[j].bits
           st == IF fails THEN blockFailed(state, j) ELSE state
       IN  /\ state' = [st EXCEPT ![j].left = @ - 1]
           /\ posted' = IF last THEN Post(Done(j, "chunk"), j, "undo")
                                ELSE Done(j, "chunk")
           /\ IF last THEN finishUp(j) ELSE UNCHANGED strand
  /\ UNCHANGED <<headerVars, chainVars, indexVars, queueVars, flightVars, shuttingDown,
                 aborted, nOffers>>

\* storeUndoBlock runs in the thread of the last chunk, beside processNewBlock.
storeUndoBlock(j) ==
  /\ Take(j, "undo")
  /\ posted' = Done(j, "undo")
  /\ haveUndo' = haveUndo \cup {state[j].blk}
  /\ UNCHANGED <<headerVars, chainVars, queueVars, flightVars, state, strand, haveData,
                 chained, shuttingDown, aborted, nOffers>>

-----------------------------------------------------------------------------
(***************************************************************************)
(* The handlers of the strand.                                             *)
(***************************************************************************)

\* The blocks in flight are a map: insert does not replace an entry.
Inserted(map, b, j) == IF map[b] = NULL THEN [map EXCEPT ![b] = j] ELSE map

\* prepareChain: the active chain loses the blocks that are not on chain hc; each
\* needs its undo data.
MutantprepareChain(hc) ==
  \E n \in 1 .. Len(blockchain) :
    /\ InChain(hc, blockchain[n]) \/ n = 1
    /\ \A k \in n + 1 .. Len(blockchain) : ~InChain(hc, blockchain[k])
    /\ blockchain' = SubSeq(blockchain, 1, n) /\ UNCHANGED <<utxo, aborted>>

MutantNoprepareChain(hc) == UNCHANGED <<chainVars, aborted>>

prepareChain(hc) ==
  \E n \in 1 .. Len(blockchain) :
    /\ InChain(hc, blockchain[n]) \/ n = 1
    /\ \A k \in n + 1 .. Len(blockchain) : ~InChain(hc, blockchain[k])
    /\ IF {blockchain[k] : k \in n + 1 .. Len(blockchain)} \subseteq haveUndo
         THEN /\ blockchain' = SubSeq(blockchain, 1, n)
              /\ utxo' = blockchain[n]
              /\ UNCHANGED aborted
         ELSE /\ aborted' = aborted \cup {"noUndoData"}
              /\ UNCHANGED chainVars

\* recursivelyMark(BlockInvalid)
Marked(st, j) ==
  LET reach[n \in 0 .. Cardinality(Job)] ==
        IF n = 0 THEN {j}
        ELSE reach[n - 1] \cup UNION {Range(st[k].children) : k \in reach[n - 1]}
  IN  [k \in Job |-> IF k \in reach[Cardinality(Job)]
                       THEN [st[k] EXCEPT !.bits = @ \cup {"Invalid"}] ELSE st[k]]

\* What handleFailedBlock does to the index and the chains.  A block that may
\* have been corrupted in transit is not held against its header.
MutanthandleFailedBlockOf(j) ==
  LET b == state[j].blk
  IN  /\ indexMap' = indexMap \cup {b}
      /\ failed' = MarkedWith(b)
      /\ appendHeader(b, MarkedWith(b), nChainWork)
      /\ prepareChain(headersChain')
      /\ UNCHANGED nFailures

handleFailedBlockOf(j) ==
  LET b == state[j].blk
  IN  IF state[j].corrupt
        THEN UNCHANGED <<indexMap, failed, dbVars, nFailures, chainVars, aborted>>
        ELSE /\ indexMap' = indexMap \cup {b}
             /\ failed' = MarkedWith(b)
             /\ appendHeader(b, MarkedWith(b), nChainWork)
             /\ IF headersChain' # headersChain
                  THEN prepareChain(headersChain')
                  ELSE UNCHANGED <<chainVars, aborted>>
             /\ UNCHANGED nFailures

\* The start of blockHeaderValidated, for a header that is not dropped: the parent
\* in flight learns of its child, or the block of its parent on the chain.
MutantLinked(j) ==
  IF pprev[state[j].blk] \in indexMap \ failed
    THEN [state EXCEPT ![j].bits = @ \cup {"Parent"}]
    ELSE state

MutantLinkedBoth(j) ==
  LET parent == pprev[state[j].blk]
      p == blocksBeingValidated[parent]
      parentKnown == [state EXCEPT ![j].bits = @ \cup {"Parent"}]
  IN  IF p # NULL THEN [parentKnown EXCEPT ![p].children = Append(@, j)]
      ELSE IF parent \in chained \ failed THEN parentKnown
      ELSE state

MutantLinkedLost(j) ==
  LET parent == pprev[state[j].blk]
  IN  IF blocksBeingValidated[parent] = NULL /\ parent \in chained \ failed
        THEN [state EXCEPT ![j].bits = @ \cup {"Parent"}]
        ELSE state

Linked(j) ==
  LET parent == pprev[state[j].blk]
      p == blocksBeingValidated[parent]
  IN  IF p # NULL THEN [state EXCEPT ![p].children = Append(@, j)]
      ELSE IF parent \in chained \ failed
        THEN [state EXCEPT ![j].bits = @ \cup {"Parent"}]
      ELSE state

Header(j) == Running("blockHeaderValidated", j) /\ aborted = {}
HeaderIgnored(j) ==
  LET b == state[j].blk
  IN  \/ "Invalid" \notin state[j].bits /\ blocksBeingValidated[b] # NULL
      \/ b \in indexMap /\ (b \in failed \/ InChain(blockchain, b))
HeaderInvalid(j) ==
  "Invalid" \in state[j].bits \/ (state[j].blk \notin indexMap /\ pprev[state[j].blk] \in failed)

\* The Settings that are still there get a null index: assert(index).
HeaderAfterShutdown(j) ==
  /\ Header(j) /\ shuttingDown
  /\ aborted' = IF state[j].waiting THEN aborted \cup {"index"} ELSE aborted
  /\ strand' = Tail(strand)
  /\ UNCHANGED <<headerVars, chainVars, indexVars, queueVars, flightVars, state, posted,
                 shuttingDown, nOffers>>

\* In flight already, failed before, or on the active chain.
HeaderNothingToDo(j) ==
  /\ Header(j) /\ ~shuttingDown /\ HeaderIgnored(j)
  /\ state' = Finish(state, j)
  /\ strand' = Tail(strand)
  /\ UNCHANGED <<headerVars, chainVars, indexVars, queueVars, flightVars, posted,
                 shuttingDown, aborted, nOffers>>

HeaderRejected(j) ==
  /\ Header(j) /\ ~shuttingDown /\ ~HeaderIgnored(j) /\ HeaderInvalid(j)
  /\ state' = Marked(blockFailed(Linked(j), j), j)
  /\ handleFailedBlockOf(j)
  /\ strand' = Tail(strand)
  /\ UNCHANGED <<indexVars, queueVars, flightVars, posted, shuttingDown, nOffers>>

\* The parent is unknown.  blockLanded is called for it, and again at its end.
MutantHeaderOrphan(j) ==
  /\ Header(j) /\ ~shuttingDown /\ ~HeaderIgnored(j) /\ ~HeaderInvalid(j)
  /\ pprev[state[j].blk] \notin indexMap
  /\ orphanBlocks' = orphanBlocks \cup {j}
  /\ strand' = Tail(strand)
  /\ UNCHANGED <<headerVars, chainVars, indexVars, blocksBeingValidated,
                 lastFullBlockScheduled, flightVars, state, posted, shuttingDown,
                 aborted, nOffers>>

HeaderOrphan(j) ==
  /\ Header(j) /\ ~shuttingDown /\ ~HeaderIgnored(j) /\ ~HeaderInvalid(j)
  /\ pprev[state[j].blk] \notin indexMap
  /\ orphanBlocks' = orphanBlocks \cup {j}
  /\ headersInFlight' = headersInFlight - 1
  /\ strand' = Tail(strand) \o Landed(headersInFlight)
  /\ UNCHANGED <<headerVars, chainVars, indexVars, blocksBeingValidated,
                 lastFullBlockScheduled, blocksInFlight, state, posted, shuttingDown,
                 aborted, nOffers>>

\* The parent is known: the block goes on, with the orphans that descend from it.
HeaderAccepted(j) ==
  /\ Header(j) /\ ~shuttingDown /\ ~HeaderIgnored(j) /\ ~HeaderInvalid(j)
  /\ pprev[state[j].blk] \in indexMap
  /\ state' = [Linked(j) EXCEPT ![j].held = FALSE]
  /\ strand' = <<[Handler("adopt", j) EXCEPT !.list = <<j>>, !.todo = <<j>>]>> \o Tail(strand)
  /\ UNCHANGED <<headerVars, chainVars, indexVars, queueVars, flightVars, posted,
                 shuttingDown, aborted, nOffers>>

\* One call of startOrphanWithParent.  Orphans of the same parent are taken in any
\* order.
startOrphanWithParent ==
  LET h == Head(strand)
      k == Head(h.todo)
      orphans == {o \in orphanBlocks : pprev[state[o].blk] = state[k].blk}
  IN  /\ strand # <<>> /\ h.op = "adopt" /\ aborted = {} /\ h.todo # <<>>
      /\ orphanBlocks' = orphanBlocks \ orphans
      /\ \E adoptees \in [1 .. Cardinality(orphans) -> orphans] :
           /\ Range(adoptees) = orphans
           /\ strand' = <<[h EXCEPT !.list = @ \o adoptees,
                                    !.todo = adoptees \o Tail(@)]>> \o Tail(strand)
           /\ state' = [state EXCEPT ![k].children =
                          @ \o SelectSeq(adoptees, LAMBDA c : c \notin Range(state[k].children))]
      /\ UNCHANGED <<headerVars, chainVars, indexVars, blocksBeingValidated,
                     lastFullBlockScheduled, flightVars, posted, shuttingDown, aborted,
                     nOffers>>

AdoptionEnds ==
  LET h == Head(strand)
  IN  /\ strand # <<>> /\ h.op = "adopt" /\ aborted = {} /\ h.todo = <<>>
      /\ headersInFlight' = headersInFlight + Len(h.list) - 1
      /\ strand' = <<[h EXCEPT !.op = "append", !.tip = Tip(headersChain)]>> \o Tail(strand)
      /\ UNCHANGED <<headerVars, chainVars, indexVars, queueVars, blocksInFlight, state,
                     posted, shuttingDown, aborted, nOffers>>

\* The loop that puts the block and its adoptees in the index: one of them.
AppendNext ==
  LET h == Head(strand)
      k == h.list[h.n + 1]
      b == state[k].blk
  IN  /\ strand # <<>> /\ h.op = "append" /\ aborted = {} /\ h.n < Len(h.list)
      /\ indexMap' = indexMap \cup {b}
      /\ appendHeader(b, failed, nChainWork)
      /\ haveData' = IF state[k].full THEN haveData \cup {b} ELSE haveData
      /\ strand' = <<[h EXCEPT !.n = @ + 1]>> \o Tail(strand)
      /\ UNCHANGED <<failed, nFailures, chainVars, queueVars, flightVars, state, posted,
                     haveUndo, chained, shuttingDown, aborted, nOffers>>

Appended == /\ strand # <<>> /\ Head(strand).op = "append" /\ aborted = {}
            /\ Head(strand).n = Len(Head(strand).list)

\* The header chain left the branch it was on: start over from the active chain.
HeaderReorg ==
  /\ Appended /\ ~InChain(headersChain, Head(strand).tip)
  /\ prepareChain(headersChain)
  /\ lastFullBlockScheduled' = -1
  /\ strand' = <<FindMoreJobs>> \o Tail(strand)
  /\ state' = Finish(state, Head(strand).job)
  /\ UNCHANGED <<headerVars, indexVars, orphanBlocks, blocksBeingValidated, flightVars,
                 posted, shuttingDown, nOffers>>

\* The end of blockHeaderValidated: the first of the blocks that is on the header
\* chain goes on to checks2 if its parent is on the active chain or in flight,
\* and the others follow it as long as they are full blocks.
ForwardFull ==
  LET h == Head(strand)
      items == {i \in 1 .. Len(h.list) : InChain(headersChain, state[h.list[i]].blk)}
      first == state[h.list[CHOOSE i \in items : \A k \in items : i <= k]].blk
      parentReady == \/ nHeight[first] <= 1
                     \/ InChain(blockchain, pprev[first])
                     \/ /\ blocksBeingValidated[pprev[first]] # NULL
                        /\ "Tree" \in state[blocksBeingValidated[pprev[first]]].bits
      recent == nHeight[state[h.job].blk] - Height < blocksInFlightLimit
      go == {i \in items : /\ recent /\ parentReady
                           /\ \A k \in items : k <= i => state[h.list[k]].full}
      forwarded == {h.list[i] : i \in go}
      heights == {nHeight[state[k].blk] : k \in forwarded} \cup {lastFullBlockScheduled}
      st == [k \in Job |-> IF k \in forwarded
                             THEN [state[k] EXCEPT !.bits = @ \cup {"Tree"}] ELSE state[k]]
  IN  /\ Appended /\ InChain(headersChain, h.tip)
      /\ blocksBeingValidated' =
           [b \in Block |->
              IF blocksBeingValidated[b] = NULL /\ \E k \in forwarded : state[k].blk = b
                THEN CHOOSE k \in forwarded : state[k].blk = b
                ELSE blocksBeingValidated[b]]
      /\ posted' = [k \in Job |-> IF k \in forwarded
                                    THEN [posted[k] EXCEPT !.checks2 = @ + 1] ELSE posted[k]]
      /\ \E x \in heights : (\A y \in heights : x >= y) /\ lastFullBlockScheduled' = x
      /\ state' = IF go # {} /\ go = items THEN st ELSE Finish(st, h.job)
      /\ strand' = Tail(strand)
      /\ UNCHANGED <<headerVars, chainVars, indexVars, orphanBlocks, flightVars,
                     shuttingDown, aborted, nOffers>>

-----------------------------------------------------------------------------

\* The height findMoreJobs starts from.
lastScheduled ==
  IF lastFullBlockScheduled = -1
    THEN (IF Height < 1 THEN 1 ELSE Height) ELSE lastFullBlockScheduled

NextToSchedule ==
  IF lastScheduled + 2 <= Len(headersChain) THEN headersChain[lastScheduled + 2] ELSE NULL

Finding == strand # <<>> /\ Head(strand).op = "findMoreJobs" /\ aborted = {}
CanSchedule == /\ NextToSchedule # NULL /\ NextToSchedule \in haveData
               /\ blocksInFlight < blocksInFlightLimit

\* findMoreJobs has nothing (more) to do.
findMoreJobsDone ==
  /\ Finding /\ (shuttingDown \/ ~CanSchedule)
  /\ strand' = Tail(strand)
  /\ lastFullBlockScheduled' = IF shuttingDown THEN lastFullBlockScheduled ELSE lastScheduled
  /\ UNCHANGED <<headerVars, chainVars, indexVars, orphanBlocks, blocksBeingValidated,
                 flightVars, state, posted, shuttingDown, aborted, nOffers>>

\* The block cannot be read: its state object goes out of scope at once, and still
\* has m_checkingHeader set.
findMoreJobsUnreadable ==
  /\ Finding /\ ~shuttingDown /\ CanSchedule /\ NextToSchedule \in Unreadable
  /\ haveData' = haveData \ {NextToSchedule}
  /\ blocksInFlight' = blocksInFlight + 1
  /\ headersInFlight' = headersInFlight - 1
  /\ lastFullBlockScheduled' = lastScheduled
  /\ strand' = Tail(strand) \o Landed(headersInFlight)
  /\ UNCHANGED <<headerVars, chainVars, haveUndo, chained, orphanBlocks,
                 blocksBeingValidated, state, posted, shuttingDown, aborted, nOffers>>

\* One round of the loop: a block is scheduled and the handler goes on.
findMoreJobs ==
  LET b == NextToSchedule
      p == blocksBeingValidated[pprev[b]]
      j == NewJob
      bits == {"Header", "Tree"} \cup
                (IF p = NULL /\ pprev[b] \in chained THEN {"Parent"} ELSE {})
      new == [Free EXCEPT !.blk = b, !.full = TRUE, !.bits = bits,
                          !.checkingHeader = FALSE]
  IN  /\ Finding /\ ~shuttingDown /\ CanSchedule /\ Unused # {}
      /\ state' = [k \in Job |->
                     IF k = j THEN new
                     ELSE IF k = p THEN [state[k] EXCEPT !.children = Append(@, j)]
                     ELSE state[k]]
      /\ blocksBeingValidated' = Inserted(blocksBeingValidated, b, j)
      /\ posted' = Post(posted, j, "checks2")
      /\ blocksInFlight' = blocksInFlight + 1
      /\ lastFullBlockScheduled' = lastScheduled + 1
      /\ UNCHANGED <<headerVars, chainVars, indexVars, orphanBlocks, headersInFlight,
                     strand, shuttingDown, aborted, nOffers>>

-----------------------------------------------------------------------------
(***************************************************************************)
(* processNewBlock.                                                        *)
(***************************************************************************)

Processing(j) == Running("processNewBlock", j) /\ aborted = {}

\* null once the block is handled
m_blockIndex(j) == IF state[j].handled THEN NULL ELSE state[j].blk

\* Already handled, or the engine is stopping.
ProcessNothing(j) ==
  /\ Processing(j) /\ (shuttingDown \/ m_blockIndex(j) = NULL)
  /\ strand' = Tail(strand)
  /\ UNCHANGED <<headerVars, chainVars, indexVars, queueVars, flightVars, state, posted,
                 shuttingDown, aborted, nOffers>>

HasWork(j) == nChainWork[state[j].blk] >= nChainWork[Tip(blockchain)]
isNextChainTip(j) == nHeight[state[j].blk] <= Height + 1
MutantaddToChain(j) == isNextChainTip(j) /\ InChain(headersChain, state[j].blk)

addToChain(j) == /\ isNextChainTip(j) /\ "Invalid" \notin state[j].bits
                 /\ InChain(headersChain, state[j].blk)
\* "View DB inconsistent!", and bad-cb-amount
Inconsistent(j) == addToChain(j) /\ utxo # pprev[state[j].blk]
BadReward(j) == /\ addToChain(j) /\ ~Inconsistent(j)
                /\ FailsAt[state[j].blk] = "reward"

\* assert(index->nChainWork >= blockchain->Tip()->nChainWork)
ProcessLessWork(j) ==
  /\ Processing(j) /\ ~shuttingDown /\ m_blockIndex(j) # NULL /\ ~HasWork(j)
  /\ aborted' = aborted \cup {"morePOW"}
  /\ UNCHANGED <<headerVars, chainVars, indexVars, queueVars, flightVars, state, posted,
                 strand, shuttingDown, nOffers>>

ProcessNewBlock(j) ==
  Processing(j) /\ ~shuttingDown /\ m_blockIndex(j) # NULL /\ HasWork(j)

\* What every other path of processNewBlock ends with.
ProcessEnds(j, st) ==
  /\ state' = Finish([st EXCEPT ![j].handled = TRUE], j)
  /\ blocksBeingValidated' = [blocksBeingValidated EXCEPT ![state[j].blk] = NULL]
  /\ strand' = Tail(strand)
  /\ UNCHANGED <<orphanBlocks, flightVars, haveData, haveUndo, shuttingDown, nOffers>>

\* The block is appended to the active chain and its UTXO changes are flushed;
\* signalChildren starts the children whose contextual checks are done.
ProcessConnect(j) ==
  LET b == state[j].blk
      children == Range(state[j].children)
      ready == {c \in children : "ChainHeaders" \in state[c].bits}
  IN  /\ ProcessNewBlock(j) /\ addToChain(j) /\ ~Inconsistent(j) /\ ~BadReward(j)
      /\ ProcessEnds(j, [c \in Job |-> IF c \in children
                                         THEN [state[c] EXCEPT !.bits = @ \cup {"Parent"}]
                                         ELSE state[c]])
      /\ utxo' = b
      /\ blockchain' = SetTip(blockchain, b)
      /\ chained' = chained \cup {b}
      /\ posted' = [c \in Job |-> IF c \in ready
                                    THEN [posted[c] EXCEPT !.updateUtxo = @ + 1]
                                    ELSE posted[c]]
      /\ aborted' = IF \E c \in children : "Parent" \in state[c].bits
                      THEN aborted \cup {"newStatus"} ELSE aborted
      /\ UNCHANGED <<headerVars, lastFullBlockScheduled>>

ProcessInvalid(j) ==
  LET b == state[j].blk
  IN  /\ ProcessNewBlock(j)
      /\ "Invalid" \in state[j].bits \/ Inconsistent(j) \/ BadReward(j)
      /\ ProcessEnds(j, Marked(state, j))
      /\ handleFailedBlockOf(j)
      /\ chained' = IF BadReward(j) THEN chained \cup {b} ELSE chained
      /\ lastFullBlockScheduled' = IF nHeight[b] = lastFullBlockScheduled
                                     THEN lastFullBlockScheduled - 1
                                     ELSE lastFullBlockScheduled
      /\ UNCHANGED posted

\* A valid block that is not appended now: it is off the header chain, or its
\* parent is not the tip.
ProcessLeave(j) ==
  /\ ProcessNewBlock(j) /\ "Invalid" \notin state[j].bits /\ ~addToChain(j)
  /\ ProcessEnds(j, state)
  /\ failed' = IF isNextChainTip(j) THEN failed ELSE failed \cup {state[j].blk}
  /\ UNCHANGED <<indexMap, dbVars, nFailures, chainVars, chained, lastFullBlockScheduled,
                 posted, aborted>>

-----------------------------------------------------------------------------

\* Engine::shutdown, and cleanup, which it posts on the strand and waits for.
shutdown ==
  /\ MayShutdown /\ ~shuttingDown /\ aborted = {}
  /\ shuttingDown' = TRUE
  /\ strand' = Append(strand, Handler("cleanup", NULL))
  /\ UNCHANGED <<headerVars, chainVars, indexVars, queueVars, flightVars, state, posted,
                 aborted, nOffers>>

Mutantcleanup ==
  /\ strand # <<>> /\ Head(strand).op = "cleanup" /\ aborted = {}
  /\ state' = [j \in Job |-> IF j \in orphanBlocks
                               THEN [state[j] EXCEPT !.waiting = FALSE, !.held = FALSE]
                               ELSE state[j]]
  /\ orphanBlocks' = {}
  /\ blocksBeingValidated' = [b \in Block |-> NULL]
  /\ strand' = Tail(strand)
  /\ UNCHANGED <<headerVars, chainVars, indexVars, lastFullBlockScheduled, flightVars,
                 posted, shuttingDown, aborted, nOffers>>

cleanup ==
  LET waiters == orphanBlocks \cup {blocksBeingValidated[b] : b \in Block}
  IN  /\ strand # <<>> /\ Head(strand).op = "cleanup" /\ aborted = {}
      /\ state' = [j \in Job |-> IF j \in waiters
                                   THEN [state[j] EXCEPT !.waiting = FALSE, !.held = FALSE]
                                   ELSE state[j]]
      /\ orphanBlocks' = {}
      /\ blocksBeingValidated' = [b \in Block |-> NULL]
      /\ strand' = Tail(strand)
      /\ UNCHANGED <<headerVars, chainVars, indexVars, lastFullBlockScheduled, flightVars,
                     posted, shuttingDown, aborted, nOffers>>

-----------------------------------------------------------------------------

Task(j) == \/ checks1NoContext(j) \/ checks2HaveParentHeaders(j)
           \/ updateUtxoAndStartValidation(j) \/ checkSignaturesChunk(j)
           \/ storeUndoBlock(j)

StrandStep ==
  \/ \E j \in Job : \/ HeaderAfterShutdown(j) \/ HeaderNothingToDo(j) \/ HeaderRejected(j)
                    \/ HeaderOrphan(j) \/ HeaderAccepted(j)
                    \/ ProcessNothing(j) \/ ProcessLessWork(j) \/ ProcessConnect(j)
                    \/ ProcessInvalid(j) \/ ProcessLeave(j)
  \/ startOrphanWithParent \/ AdoptionEnds \/ AppendNext \/ HeaderReorg \/ ForwardFull
  \/ findMoreJobs \/ findMoreJobsUnreadable \/ findMoreJobsDone
  \/ cleanup

PipelineNext ==
  \/ \E b \in Block, kind \in Offers : addBlock(b, kind)
  \/ \E j \in Job : Task(j) \/ Destroy(j)
  \/ StrandStep
  \/ shutdown

\* The threads of the io_service run every task they are given.
Fairness == /\ \A j \in Job : WF_allVars(Task(j)) /\ WF_allVars(Destroy(j))
            /\ WF_allVars(StrandStep)

PipelineSpec == PipelineInit /\ [][PipelineNext]_allVars
FairPipelineSpec == PipelineSpec /\ Fairness

-----------------------------------------------------------------------------

\* The states, the tasks, the queues and the counters of the engine have their types: a
\* block never has more chunks left than were started.
PipelineTypeOK ==
  /\ DOMAIN state = Job
  /\ \A j \in Job :
       /\ state[j].blk \in Block \cup {NULL} /\ state[j].bits \subseteq Bits
       /\ Range(state[j].children) \subseteq Job
       /\ state[j].left \in 0 .. nChunks /\ state[j].readFrom \in Block \cup {NULL}
  /\ posted \in [Job -> [Ops -> 0 .. nChunks]]
  /\ orphanBlocks \subseteq Job
  /\ blocksBeingValidated \in [Block -> Job \cup {NULL}]
  /\ lastFullBlockScheduled \in Int
  /\ headersInFlight \in Int /\ blocksInFlight \in Int
  /\ blockchain \in Seq(Block) /\ utxo \in Block
  /\ haveData \subseteq indexMap /\ haveUndo \subseteq indexMap /\ chained \subseteq indexMap

\* At the end of every handler of the strand the UTXO set is that of the tip of
\* the active chain, and the active chain is a path of the tree.
UtxoIsTip ==
  /\ utxo = Tip(blockchain)
  /\ blockchain = PathOf(utxo)

\* A block that one of the checks rejects never gets on the active chain, however
\* its checks, chunks and those of its parents interleave.
OnlyValidConnected ==
  \A i \in 1 .. Len(blockchain) : FailsAt[blockchain[i]] = "none"

\* prepareChain has always removed what left the header chain: between two
\* handlers the active chain is part of the header chain.
FollowsHeaders ==
  (aborted = {} /\ (strand = <<>> \/ Head(strand).op # "append")) =>
    InChain(headersChain, Tip(blockchain))

\* headersInFlight and blocksInFlight count the live states (the ones among the
\* orphans excepted): "indicates headers being checked", "indicates blocks being
\* checked" (BlockValidation_p.h).  waitForSpace and waitValidationFinished
\* block on them, until the engine is shut down.
CountersExact == (~shuttingDown /\ (strand = <<>> \/ Head(strand).op # "adopt")) =>
  /\ headersInFlight = Cardinality({j \in Job : Live(j) /\ state[j].checkingHeader
                                                /\ j \notin orphanBlocks})
  /\ blocksInFlight = Cardinality({j \in Job : Live(j) /\ ~state[j].checkingHeader})

\* No block is marked as failed (or as the child of a failed one) unless it or
\* an ancestor of it breaks a rule: not because of a copy that was corrupted in
\* transit, nor because of what else the engine was doing.
OnlyInvalidFailed ==
  \A b \in failed : \E a \in Below(b) : FailsAt[a] # "none"

\* "When the previous block's transactions are added to the UTXO, we start our
\* validation" (BlockValidation_p.h): the inputs of a block are looked up in the
\* UTXO set of its parent, unless it is known to be invalid by then.
ReadFromParent ==
  \A j \in Job : (state[j].readFrom # NULL /\ "Invalid" \notin state[j].bits) =>
                    state[j].readFrom = pprev[state[j].blk]

\* Until it is shut down, no assert of the engine fails and it never gives up with
\* fatal().
NeverAborts == shuttingDown \/ aborted = {}

\* "saving this is rather slow, but ultimately irrelevant to the processNewBlock,
\* so we do those at the same time" (checkSignaturesChunk): a block on the active
\* chain can always be disconnected.
UndoPresent == "noUndoData" \notin aborted

\* "waitUntilFinished returns when the block has finished validation"
\* (ValidationSettings.h): every caller that waits gets its answer, unless its
\* block is an orphan or an assert ends the process while it shuts down.
Waits(j) == state[j].waiting /\ j \notin orphanBlocks
WaitersReturn == \A j \in Job : Waits(j) ~> (~Waits(j) \/ aborted # {})

\* Shutting down lets go of every caller that waits for a block, whatever its block
\* was doing (cleanup calls markFinished for the blocks that will not be finished),
\* or ends in assert(index) of setBlockIndex.
ShutdownReleases ==
  shuttingDown ~> (aborted # {} \/ \A j \in Job : ~state[j].waiting)

\* A full block that is offered and valid is on the active chain in the end, if
\* its ancestors are offered and valid too and can be read back: findMoreJobs is
\* there to "find out if there are unscheduled blocks left to validate and schedule
\* them".
TipIsReached ==
  (haveData = Block /\ failed = {} /\ aborted = {} /\ ~shuttingDown) ~>
    (Tip(blockchain) = Tip(headersChain) \/ haveData # Block \/ shuttingDown)
=============================================================================
