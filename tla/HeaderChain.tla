---------------------------- MODULE HeaderChain ----------------------------
(***************************************************************************)
(* The tree of block headers and the header chain that Blocks::DB keeps    *)
(* (libs/server/BlocksDB.cpp): headerChainTips, the list of the tips of    *)
(* all branches, and headersChain, the CChain of the branch taken as the   *)
(* main chain.  appendHeader updates both, for a header that arrived and   *)
(* for one that turned out invalid.  It is called by the validation        *)
(* engine, on its strand, and by the invalidateblock RPC.                  *)
(*                                                                         *)
(* A CBlockIndex is a member of Block; its pprev, nHeight and nChainWork   *)
(* never change once it is in the index.  Of nStatus only the two FAILED   *)
(* bits matter here, and only whether one of them is set.                  *)
(***************************************************************************)
EXTENDS Naturals, Sequences, Functions

CONSTANTS
  Block, Genesis,
  NULL,          \* the null pointer
  pprev,         \* pprev[b]: the parent; NULL for Genesis
  nHeight,       \* nHeight[b]
  nChainWork,    \* nChainWork[b]: the work of the chain that ends in b
  ancestor,      \* ancestor[b][h]: what following pprev from b finds at height h
  MaxFailures    \* bound on the number of blocks that fail validation

ASSUME TreeAssumption ==
  /\ Genesis \in Block /\ NULL \notin Block
  /\ nHeight \in [Block -> Nat] /\ nChainWork \in [Block -> Nat]
  /\ nHeight[Genesis] = 0
  /\ \A b \in Block \ {Genesis} : /\ pprev[b] \in Block
                                  /\ nHeight[b] = nHeight[pprev[b]] + 1
                                  /\ nChainWork[b] > nChainWork[pprev[b]]
                                  /\ \A h \in 0 .. nHeight[pprev[b]] :
                                       ancestor[b][h] = ancestor[pprev[b]][h]
  /\ \A b \in Block :
       /\ ancestor[b] \in [0 .. nHeight[b] -> Block]
       /\ ancestor[b][nHeight[b]] = b
       /\ ancestor[b][0] = Genesis

\* What follows from the above by induction on the height.
ASSUME AncestorAssumption ==
  \A b \in Block : \A h \in 0 .. nHeight[b] :
    /\ nHeight[ancestor[b][h]] = h
    /\ nChainWork[ancestor[b][h]] <= nChainWork[b]
    /\ \A k \in 0 .. h : ancestor[ancestor[b][h]][k] = ancestor[b][k]

ASSUME MaxFailuresAssumption == MaxFailures \in Nat

VARIABLES
  indexMap,          \* the headers that are in the index
  failed,            \* the ones with a bit of BLOCK_FAILED_MASK in nStatus
  headerChainTips,   \* list of headers
  headersChain,      \* vChain of the CChain: the header at height h is at h + 1
  pindexBestHeader,
  nFailures

vars == <<indexMap, failed, headerChainTips, headersChain, pindexBestHeader,
          nFailures>>
dbVars == <<headerChainTips, headersChain, pindexBestHeader>>

Init ==
  /\ indexMap = {}
  /\ failed = {}
  /\ headerChainTips = <<>>
  /\ headersChain = <<>>
  /\ pindexBestHeader = NULL
  /\ nFailures = 0

GetAncestor(b, h) == IF h > nHeight[b] THEN NULL ELSE ancestor[b][h]

\* b is t or an ancestor of t
OnBranch(b, t) == GetAncestor(t, nHeight[b]) = b

InChain(chain, b) == nHeight[b] < Len(chain) /\ chain[nHeight[b] + 1] = b

\* CChain::SetTip walks down from b and stops at the first header that the
\* chain already has at that height; the entries below it stay as they are.
MutantSetTip(chain, b) ==
  [i \in 1 .. nHeight[b] + 1 |->
     IF i <= Len(chain) THEN chain[i] ELSE ancestor[b][i - 1]]

SetTip(chain, b) ==
  [i \in 1 .. nHeight[b] + 1 |->
     IF \E h \in i - 1 .. nHeight[b] :
          h < Len(chain) /\ chain[h + 1] = ancestor[b][h]
       THEN chain[i] ELSE ancestor[b][i - 1]]

-----------------------------------------------------------------------------

(***************************************************************************)
(* appendHeader(b), where bad is the set of headers with a FAILED bit.     *)
(***************************************************************************)

\* b, or its closest ancestor that has not failed
validPrevOf(b, bad) ==
  CHOOSE a \in {ancestor[b][h] : h \in 0 .. nHeight[b]} \ bad :
    \A h \in nHeight[a] + 1 .. nHeight[b] : ancestor[b][h] \in bad

\* The header of a chain that is not empty that Tip() returns.
Tip(chain) == chain[Len(chain)]

\* list::erase
erase(s, i) == SubSeq(s, 1, i - 1) \o SubSeq(s, i + 1, Len(s))

\* The last part: the main chain becomes the one that ends in validPrev if that
\* has more work than the tip of chain.
MutantSwitchToMoreWork(chain, validPrev, b, work) ==
  /\ headersChain' = chain
  /\ UNCHANGED pindexBestHeader

MutantAlwaysSwitch(chain, validPrev, b, work) ==
  /\ headersChain' = SetTip(chain, validPrev)
  /\ pindexBestHeader' = b

SwitchToMoreWork(chain, validPrev, b, work) ==
  IF work[Tip(chain)] < work[validPrev]
    THEN /\ headersChain' = SetTip(chain, validPrev)
         /\ pindexBestHeader' = b
    ELSE /\ headersChain' = chain
         /\ UNCHANGED pindexBestHeader

\* The i-th tip is on the branch of b: validPrev takes its place.
MutantReplaceTip(i, b, bad, work) ==
  LET validPrev == validPrevOf(b, bad)
  IN  /\ headerChainTips' = Append(headerChainTips, validPrev)
      /\ SwitchToMoreWork(headersChain, validPrev, b, work)

ReplaceTip(i, b, bad, work) ==
  LET tip == headerChainTips[i]
      validPrev == validPrevOf(b, bad)
  IN  /\ headerChainTips' = Append(erase(headerChainTips, i), validPrev)
      /\ IF tip = Tip(headersChain)
           THEN /\ headersChain' = SetTip(headersChain, validPrev)
                /\ pindexBestHeader' = validPrev
           ELSE SwitchToMoreWork(headersChain, validPrev, b, work)

\* No tip is on the branch of a valid b and none descends from it.
AddTip(b, work) ==
  /\ headerChainTips' = Append(headerChainTips, b)
  /\ IF headersChain = <<>>
       THEN /\ headersChain' = SetTip(headersChain, b)
            /\ pindexBestHeader' = b
       ELSE SwitchToMoreWork(headersChain, b, b, work)

\* b is invalid and its parents' tip is not in the list: the tips that descend
\* from b go, the others stay in their order.  validPrev[i] is the value of
\* validPrev after i tips were seen; a tip that is kept and holds validPrev takes
\* its place if it has more work.  The main chain moves to validPrev when the first
\* tip of it goes, and again at the end.
DropTips(b, bad, work) ==
  LET n == Len(headerChainTips)
      kept == {i \in 1 .. n : ~OnBranch(b, headerChainTips[i])}
      Holds(i, v) == i \in kept /\ OnBranch(v, headerChainTips[i])
      main == {i \in (1 .. n) \ kept : InChain(headersChain, headerChainTips[i])}
  IN  \E validPrev \in [0 .. n -> Range(headerChainTips) \cup {validPrevOf(b, bad)}] :
        /\ validPrev[0] = validPrevOf(b, bad)
        /\ \A i \in 1 .. n :
             validPrev[i] = IF /\ Holds(i, validPrev[i - 1])
                               /\ work[validPrev[i - 1]] < work[headerChainTips[i]]
                              THEN headerChainTips[i] ELSE validPrev[i - 1]
        /\ \E m \in 0 .. n : \E at \in [1 .. m -> kept] :
             /\ Range(at) = kept /\ \A j, k \in 1 .. m : j < k => at[j] < at[k]
             /\ LET remaining == [k \in 1 .. m |-> headerChainTips[at[k]]]
                    alreadyContains == \E i \in 1 .. n : Holds(i, validPrev[i - 1])
                IN headerChainTips' = IF kept # 1 .. n /\ ~alreadyContains
                                        THEN Append(remaining, validPrev[n]) ELSE remaining
        /\ \/ main = {} /\ SwitchToMoreWork(headersChain, validPrev[n], b, work)
           \/ \E i \in main :
                /\ \A j \in main : i <= j
                /\ SwitchToMoreWork(SetTip(headersChain, validPrev[i - 1]), validPrev[n],
                                    b, work)

MutantappendHeader(b, bad, work) ==
  LET onBranch == {i \in 1 .. Len(headerChainTips) : OnBranch(headerChainTips[i], b)}
      descends == \E i \in 1 .. Len(headerChainTips) : OnBranch(b, headerChainTips[i])
      nothingToDo == b \notin bad /\ InChain(headersChain, b)
  IN  \/ nothingToDo /\ UNCHANGED dbVars
      \/ ~nothingToDo /\ \E i \in onBranch : /\ \A j \in onBranch : i <= j
                                           /\ ReplaceTip(i, b, {}, work)
      \/ ~nothingToDo /\ onBranch = {} /\ b \notin bad /\ descends /\ UNCHANGED dbVars
      \/ ~nothingToDo /\ onBranch = {} /\ b \notin bad /\ ~descends /\ AddTip(b, work)
      \/ onBranch = {} /\ b \in bad /\ DropTips(b, bad, work)

appendHeader(b, bad, work) ==
  LET onBranch == {i \in 1 .. Len(headerChainTips) : OnBranch(headerChainTips[i], b)}
      descends == \E i \in 1 .. Len(headerChainTips) : OnBranch(b, headerChainTips[i])
      nothingToDo == b \notin bad /\ InChain(headersChain, b)
  IN  \/ nothingToDo /\ UNCHANGED dbVars
      \/ ~nothingToDo /\ \E i \in onBranch : /\ \A j \in onBranch : i <= j
                                           /\ ReplaceTip(i, b, bad, work)
      \/ ~nothingToDo /\ onBranch = {} /\ b \notin bad /\ descends /\ UNCHANGED dbVars
      \/ ~nothingToDo /\ onBranch = {} /\ b \notin bad /\ ~descends /\ AddTip(b, work)
      \/ onBranch = {} /\ b \in bad /\ DropTips(b, bad, work)

-----------------------------------------------------------------------------

Known(b) == b = Genesis \/ pprev[b] \in indexMap

\* blockHeaderValidated, for a block that passed the checks so far: it is new
\* and its parent is known and did not fail, or it is in the index already.
AcceptHeader(b) ==
  /\ Known(b) /\ b \notin failed
  /\ b \in indexMap \/ b = Genesis \/ pprev[b] \notin failed
  /\ indexMap' = indexMap \cup {b}
  /\ appendHeader(b, failed, nChainWork)
  /\ UNCHANGED <<failed, nFailures>>

\* The headers that are marked when b failed: every one between it and a tip that
\* descends from it is the child of a failed block.
MarkedWith(b) ==
  failed \cup {b} \cup
    {x \in Block : nHeight[x] > nHeight[b] /\
       \E t \in Range(headerChainTips) : OnBranch(b, t) /\ OnBranch(x, t)}

\* handleFailedBlock: a block that failed a check, or whose parent did.  It is
\* remembered in the index.
MutanthandleFailedBlock(b) ==
  /\ b # Genesis /\ Known(b) /\ nFailures < MaxFailures
  /\ nFailures' = nFailures + 1
  /\ failed' = failed \cup {b}
  /\ appendHeader(b, failed', nChainWork)
  /\ UNCHANGED indexMap

handleFailedBlock(b) ==
  LET root == b \notin failed /\ pprev[b] \notin failed
  IN  /\ b # Genesis /\ Known(b)
      /\ root => nFailures < MaxFailures
      /\ nFailures' = IF root THEN nFailures + 1 ELSE nFailures
      /\ indexMap' = indexMap \cup {b}
      /\ failed' = MarkedWith(b)
      /\ appendHeader(b, MarkedWith(b), nChainWork)

\* Engine::invalidateBlock, from the invalidateblock RPC
invalidateBlock(b) ==
  /\ b \in indexMap \ {Genesis}
  /\ nFailures < MaxFailures
  /\ nFailures' = nFailures + 1
  /\ failed' = failed \cup {b}
  /\ appendHeader(b, failed', nChainWork)
  /\ UNCHANGED indexMap

\* Blocks::Index::reconsiderBlock, from the reconsiderblock RPC, which offers
\* the block to the engine afterwards (AcceptHeader).
reconsiderBlock(b) ==
  /\ b \in indexMap
  /\ failed' = {x \in failed : ~OnBranch(b, x) /\ ~OnBranch(x, b)}
  /\ UNCHANGED <<indexMap, headerChainTips, headersChain, pindexBestHeader, nFailures>>

Next == \E b \in Block : AcceptHeader(b) \/ handleFailedBlock(b)

RpcNext == Next \/ \E b \in Block : invalidateBlock(b) \/ reconsiderBlock(b)

Spec == Init /\ [][Next]_vars
RpcSpec == Init /\ [][RpcNext]_vars

-----------------------------------------------------------------------------

\* The index, the tips, the chain and the pointer hold blocks.
TypeOK ==
  /\ indexMap \subseteq Block /\ failed \subseteq indexMap
  /\ headerChainTips \in Seq(Block) /\ headersChain \in Seq(Block)
  /\ pindexBestHeader \in Block \cup {NULL}
  /\ nFailures \in 0 .. MaxFailures

\* CChain::SetTip stops at the first entry it recognises, yet the chain always
\* holds, at every height, the ancestor of its tip: no entry of an abandoned
\* branch survives a switch.
ChainIsPath ==
  \A i \in 1 .. Len(headersChain) : headersChain[i] = ancestor[Tip(headersChain)][i - 1]

\* A header that failed validation, or that descends from one, is not on the
\* header chain: "The 'main chain' is determined by the
\* Blocks::DB::headersChain()" (BlockValidation.cpp), so the node would follow it.
NoFailedInChain == \A i \in 1 .. Len(headersChain) : headersChain[i] \notin failed

\* While nothing failed, the header chain is the one with the most work of all
\* known headers, whatever order they arrived in.
MostWork ==
  failed = {} =>
    \A b \in indexMap : nChainWork[b] <= nChainWork[Tip(headersChain)]

\* While nothing failed, headerChainTips lists every leaf of the tree of known
\* headers once and nothing else; a new header is attached by looking for its
\* ancestor in this list.
TipsAreLeaves ==
  failed = {} =>
    /\ Range(headerChainTips) =
         {b \in indexMap : \A c \in indexMap : c # b => ~OnBranch(b, c)}
    /\ \A i, j \in 1 .. Len(headerChainTips) :
         headerChainTips[i] = headerChainTips[j] => i = j

\* A header that arrives never makes the header chain lose work: appendHeader
\* switches branches only for more work.
WorkNeverDrops ==
  [][(headersChain # <<>> /\ \E b \in Block : AcceptHeader(b)) =>
        nChainWork[Tip(headersChain')] >= nChainWork[Tip(headersChain)]]_vars
=============================================================================
