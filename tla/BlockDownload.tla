--------------------------- MODULE BlockDownload ---------------------------
(***************************************************************************)
(* Which blocks the node asks which peer for (libs/server/main.cpp): the   *)
(* CNodeState of every peer, mapBlocksInFlight and the counters kept with  *)
(* them, FindNextBlocksToDownload with its moving window, the handlers of  *)
(* inv, headers and block, and SendMessages, which starts downloads and    *)
(* disconnects the peers that hold them up.  The headers are HeaderChain's.*)
(*                                                                         *)
(* One thread (ThreadMessageHandler) runs the message handlers and         *)
(* SendMessages; the validation engine and ThreadSocketHandler, which      *)
(* deletes peers, run next to it.  Any time may pass between two steps: a  *)
(* timer that runs may be found due.  A prompt peer has every block and    *)
(* answers before a timer of its own is due; the others answer when they   *)
(* like or never.  Every peer is a full node (no fClient, no fOneShot).    *)
(***************************************************************************)
EXTENDS HeaderChain, Integers, FiniteSets

CONSTANTS
  Peer,
  Prompt,                            \* the peers that answer in time
  Preferred,                         \* outbound or whitelisted
  Unruly,                            \* those that go at any time and push blocks
  Offers,                            \* Offers[n]: the blocks that n may announce
  ThinCapable,                       \* the peers that offer NODE_XTHIN
  InitialTip,                        \* the best header at the start
  Invalid,                           \* blocks that fail a check of the engine
  Recent,                            \* headers that are at most a day old
  Fresh,                             \* those of the last 20 block intervals
  IsThinBlocksEnabled,
  MAX_BLOCKS_IN_TRANSIT_PER_PEER,
  BLOCK_DOWNLOAD_WINDOW,
  MIN_BLOCKS_TO_KEEP,
  IbdLag,                            \* the 24 * 6 of IsInitialBlockDownload
  ThinLag                            \* the 2 of IsChainNearlySyncd

ASSUME DownloadAssumption ==
  /\ IsFiniteSet(Peer) /\ IsFiniteSet(Block) /\ NULL \notin Peer
  /\ Prompt \subseteq Peer /\ Preferred \subseteq Peer /\ ThinCapable \subseteq Peer
  /\ Offers \in [Peer -> SUBSET Block] /\ \A n \in Prompt : Offers[n] = Block
  /\ Unruly \subseteq Peer \ Prompt /\ InitialTip \in Block
  /\ Invalid \subseteq Block \ {Genesis} /\ Recent \subseteq Block /\ Fresh \subseteq Recent
  /\ IsThinBlocksEnabled \in BOOLEAN
  /\ MAX_BLOCKS_IN_TRANSIT_PER_PEER \in Nat \ {0} /\ BLOCK_DOWNLOAD_WINDOW \in Nat \ {0}
  /\ MIN_BLOCKS_TO_KEEP \in Nat /\ IbdLag \in Nat /\ ThinLag \in Nat

VARIABLES
  mapNodeState,                \* the peers that have a CNodeState
  status,                      \* status[n]: of the CNode of n
  fPreferredDownload, nPreferredDownload,
  fSyncStarted, nSyncStarted,
  mapBlocksInFlight,           \* mapBlocksInFlight[b]: the peer, or NULL
  vBlocksInFlight,             \* vBlocksInFlight[n]: the queue of n
  fValidatedHeaders,           \* the blocks in a queue that were asked for by their index
  nBlocksInFlight, nBlocksInFlightValidHeaders,
  nPeersWithValidatedDownloads,
  nStallingSince,              \* the peers whose stall timer runs
  pindexBestKnownBlock, hashLastUnknownBlock, pindexLastCommonBlock,
  mapThinBlocksInFlight,       \* mapThinBlocksInFlight[n]
  pindexLast,                  \* <<n, b>> inside the headers handler, or <<>>
  lockIBDState,
  owed,                        \* owed[n]: what n was asked for and did not send
  validating, landing,         \* blocks with a BlockValidationState at work, at its end
  haveData,                    \* blocks with BLOCK_HAVE_DATA
  linked,                      \* blocks with an nChainTx
  tip                          \* of the active chain

headerVars == <<indexMap, failed, headerChainTips, headersChain, pindexBestHeader, nFailures>>
flightVars == <<mapBlocksInFlight, vBlocksInFlight, fValidatedHeaders, nBlocksInFlight,
                nBlocksInFlightValidHeaders, nPeersWithValidatedDownloads>>
peerVars == <<mapNodeState, status, fPreferredDownload, nPreferredDownload>>
syncVars == <<fSyncStarted, nSyncStarted, lockIBDState>>
availabilityVars == <<pindexBestKnownBlock, hashLastUnknownBlock>>
wireVars == <<owed, mapThinBlocksInFlight>>
engineVars == <<validating, landing, haveData, linked, tip>>
downloadVars == <<headerVars, nStallingSince, flightVars, peerVars, syncVars, availabilityVars,
                  pindexLastCommonBlock, wireVars, pindexLast, engineVars>>

\* A node that has the headers up to InitialTip and no block but the first.  Its
\* peers have announced InitialTip when they were asked for headers.
DownloadInit ==
  /\ indexMap = {ancestor[InitialTip][h] : h \in 0 .. nHeight[InitialTip]} /\ failed = {}
  /\ headerChainTips = <<InitialTip>> /\ headersChain = SetTip(<<Genesis>>, InitialTip)
  /\ pindexBestHeader = InitialTip /\ nFailures = 0
  /\ mapNodeState = Peer /\ status = [n \in Peer |-> "up"]
  /\ fPreferredDownload = Preferred /\ nPreferredDownload = Cardinality(Preferred)
  /\ fSyncStarted = Peer /\ nSyncStarted = Cardinality(Peer) /\ lockIBDState = FALSE
  /\ mapBlocksInFlight = [b \in Block |-> NULL]
  /\ vBlocksInFlight = [n \in Peer |-> <<>>] /\ fValidatedHeaders = {}
  /\ nBlocksInFlight = [n \in Peer |-> 0]
  /\ nBlocksInFlightValidHeaders = [n \in Peer |-> 0]
  /\ nPeersWithValidatedDownloads = 0
  /\ nStallingSince = {}
  /\ pindexBestKnownBlock = [n \in Peer |-> InitialTip]
  /\ hashLastUnknownBlock = [n \in Peer |-> NULL]
  /\ pindexLastCommonBlock = [n \in Peer |-> NULL]
  /\ mapThinBlocksInFlight = [n \in Peer |-> {}]
  /\ pindexLast = <<>> /\ owed = [n \in Peer |-> {}]
  /\ validating = {} /\ landing = {} /\ haveData = {Genesis} /\ linked = {Genesis}
  /\ tip = Genesis

-----------------------------------------------------------------------------
(***************************************************************************)
(* The accounting of blocks in flight.                                     *)
(***************************************************************************)

Elements(s) == {s[i] : i \in 1 .. Len(s)}
Erase(s, i) == [k \in 1 .. Len(s) - 1 |-> IF k < i THEN s[k] ELSE s[k + 1]]

MutantStallOver(n) == nStallingSince

StallOver(n) == nStallingSince \ {n}

\* How many more blocks n may be asked for.
MutantRoom(n) == MAX_BLOCKS_IN_TRANSIT_PER_PEER

Room(n) == MAX_BLOCKS_IN_TRANSIT_PER_PEER - nBlocksInFlight[n]

\* The loops that call MarkBlockAsInFlight for the blocks of q.  Every caller has
\* looked them up in mapBlocksInFlight before, so that the MarkBlockAsReceived it
\* begins with finds nothing.
MarkBlocksAsInFlight(n, q, fValidated) ==
  LET added == IF fValidated THEN Len(q) ELSE 0
      before == nBlocksInFlightValidHeaders[n]
  IN  /\ vBlocksInFlight' = [vBlocksInFlight EXCEPT ![n] = @ \o q]
      /\ fValidatedHeaders' =
           IF fValidated THEN fValidatedHeaders \cup Elements(q) ELSE fValidatedHeaders
      /\ nBlocksInFlight' = [nBlocksInFlight EXCEPT ![n] = @ + Len(q)]
      /\ nBlocksInFlightValidHeaders' = [nBlocksInFlightValidHeaders EXCEPT ![n] = @ + added]
      /\ nPeersWithValidatedDownloads' =
           IF before = 0 /\ added > 0 THEN nPeersWithValidatedDownloads + 1
           ELSE nPeersWithValidatedDownloads
      /\ mapBlocksInFlight' = [b \in Block |-> IF b \in Elements(q) THEN n
                                               ELSE mapBlocksInFlight[b]]

\* The peers with validated downloads when a block was received from one that has
\* "left" others in flight.
MutantStillDownloading(left, validated) ==
  IF left = 0 THEN nPeersWithValidatedDownloads - 1 ELSE nPeersWithValidatedDownloads

StillDownloading(left, validated) ==
  IF left = 0 /\ validated THEN nPeersWithValidatedDownloads - 1
  ELSE nPeersWithValidatedDownloads

MarkBlockAsReceived(b) ==
  LET n == mapBlocksInFlight[b]
      validated == b \in fValidatedHeaders
  IN  \/ n = NULL /\ UNCHANGED <<nStallingSince, flightVars>>
      \/ /\ n # NULL
         /\ nBlocksInFlightValidHeaders' =
              [nBlocksInFlightValidHeaders EXCEPT ![n] = IF validated THEN @ - 1 ELSE @]
         /\ nPeersWithValidatedDownloads' =
              StillDownloading(nBlocksInFlightValidHeaders'[n], validated)
         /\ \E i \in 1 .. Len(vBlocksInFlight[n]) :
              /\ vBlocksInFlight[n][i] = b
              /\ vBlocksInFlight' = [vBlocksInFlight EXCEPT ![n] = Erase(@, i)]
         /\ fValidatedHeaders' = fValidatedHeaders \ {b}
         /\ nBlocksInFlight' = [nBlocksInFlight EXCEPT ![n] = @ - 1]
         /\ nStallingSince' = StallOver(n)
         /\ mapBlocksInFlight' = [mapBlocksInFlight EXCEPT ![b] = NULL]

-----------------------------------------------------------------------------
(***************************************************************************)
(* The life of a peer.  A peer that is not prompt connects once; a prompt  *)
(* one comes back, and its next NodeId has the same name: FinalizeNode     *)
(* leaves no trace of the previous one.                                    *)
(***************************************************************************)

InitializeNode(n) ==
  /\ status[n] = "new"
  /\ mapNodeState' = mapNodeState \cup {n}
  /\ status' = [status EXCEPT ![n] = "connected"]
  /\ UNCHANGED <<headerVars, nStallingSince, flightVars, fPreferredDownload,
                 nPreferredDownload, syncVars, availabilityVars, pindexLastCommonBlock,
                 wireVars, pindexLast, engineVars>>

\* The version message, and UpdatePreferredDownload.
Version(n) ==
  /\ pindexLast = <<>> /\ status[n] = "connected"
  /\ status' = [status EXCEPT ![n] = "up"]
  /\ fPreferredDownload' = fPreferredDownload \cup ({n} \cap Preferred)
  /\ nPreferredDownload' = IF n \in Preferred THEN nPreferredDownload + 1
                           ELSE nPreferredDownload
  /\ UNCHANGED <<headerVars, nStallingSince, flightVars, mapNodeState, syncVars,
                 availabilityVars, pindexLastCommonBlock, wireVars, pindexLast, engineVars>>

\* fDisconnect is set for a reason that has nothing to do with the download, or
\* because the peer is to be banned for something that failed.
Disconnect(n) ==
  /\ n \in Unruly \/ (n \notin Prompt /\ failed # {})
  /\ status[n] \in {"connected", "up"}
  /\ status' = [status EXCEPT ![n] = "disconnect"]
  /\ UNCHANGED <<headerVars, nStallingSince, flightVars, mapNodeState, fPreferredDownload,
                 nPreferredDownload, syncVars, availabilityVars, pindexLastCommonBlock,
                 wireVars, pindexLast, engineVars>>

\* ThreadSocketHandler deletes the CNode once no thread uses it.
FinalizeNode(n) ==
  /\ status[n] = "disconnect" /\ \A b \in Block : pindexLast # <<n, b>>
  /\ fSyncStarted' = fSyncStarted \ {n}
  /\ nSyncStarted' = IF n \in fSyncStarted THEN nSyncStarted - 1 ELSE nSyncStarted
  /\ mapBlocksInFlight' = [b \in Block |-> IF b \in Elements(vBlocksInFlight[n]) THEN NULL
                                           ELSE mapBlocksInFlight[b]]
  /\ fPreferredDownload' = fPreferredDownload \ {n}
  /\ nPreferredDownload' = IF n \in fPreferredDownload THEN nPreferredDownload - 1
                           ELSE nPreferredDownload
  /\ nPeersWithValidatedDownloads' =
       IF nBlocksInFlightValidHeaders[n] # 0 THEN nPeersWithValidatedDownloads - 1
       ELSE nPeersWithValidatedDownloads
  /\ mapNodeState' = mapNodeState \ {n}
  /\ vBlocksInFlight' = [vBlocksInFlight EXCEPT ![n] = <<>>]
  /\ fValidatedHeaders' = fValidatedHeaders \ Elements(vBlocksInFlight[n])
  /\ nBlocksInFlight' = [nBlocksInFlight EXCEPT ![n] = 0]
  /\ nBlocksInFlightValidHeaders' = [nBlocksInFlightValidHeaders EXCEPT ![n] = 0]
  /\ nStallingSince' = nStallingSince \ {n}
  /\ pindexBestKnownBlock' = [pindexBestKnownBlock EXCEPT ![n] = NULL]
  /\ hashLastUnknownBlock' = [hashLastUnknownBlock EXCEPT ![n] = NULL]
  /\ pindexLastCommonBlock' = [pindexLastCommonBlock EXCEPT ![n] = NULL]
  /\ mapThinBlocksInFlight' = [mapThinBlocksInFlight EXCEPT ![n] = {}]
  /\ owed' = [owed EXCEPT ![n] = {}]
  /\ status' = [status EXCEPT ![n] = IF n \in Prompt THEN "new" ELSE "gone"]
  /\ UNCHANGED <<headerVars, engineVars, pindexLast, lockIBDState>>

-----------------------------------------------------------------------------
(***************************************************************************)
(* What a peer is known to have, and asking it for blocks.                 *)
(***************************************************************************)

Better(known, b) ==
  IF known = NULL \/ nChainWork[b] >= nChainWork[known] THEN b ELSE known

\* The best known block of n after ProcessBlockAvailability; it forgets the
\* unknown hash when the hash is in the index.
Resolved(n, index) == hashLastUnknownBlock[n] \in index
BestKnown(n, index) ==
  IF Resolved(n, index) THEN Better(pindexBestKnownBlock[n], hashLastUnknownBlock[n])
  ELSE pindexBestKnownBlock[n]
LastUnknown(n, index) == IF Resolved(n, index) THEN NULL ELSE hashLastUnknownBlock[n]

ProcessBlockAvailability(n) ==
  /\ pindexBestKnownBlock' = [pindexBestKnownBlock EXCEPT ![n] = BestKnown(n, indexMap)]
  /\ hashLastUnknownBlock' = [hashLastUnknownBlock EXCEPT ![n] = LastUnknown(n, indexMap)]

MutantUpdateBlockAvailability(n, b, index) ==
  /\ pindexBestKnownBlock' =
       [pindexBestKnownBlock EXCEPT ![n] = Better(BestKnown(n, index), b)]
  /\ UNCHANGED hashLastUnknownBlock

UpdateBlockAvailability(n, b, index) ==
  /\ pindexBestKnownBlock' =
       [pindexBestKnownBlock EXCEPT ![n] = IF b \in index THEN Better(BestKnown(n, index), b)
                                           ELSE BestKnown(n, index)]
  /\ hashLastUnknownBlock' =
       [hashLastUnknownBlock EXCEPT ![n] = IF b \in index THEN LastUnknown(n, index) ELSE b]

CanDirectFetch == tip \in Fresh

\* S in the order of the heights
Ascending(S) ==
  {q \in [1 .. Cardinality(S) -> S] :
     \A i, k \in 1 .. Cardinality(S) : i < k => nHeight[q[i]] < nHeight[q[k]]}

HaveThinblockNodes == \E m \in ThinCapable : status[m] \in {"up", "disconnect"}
UseThinBlocks ==
  IsThinBlocksEnabled /\ nHeight[tip] >= nHeight[pindexBestHeader] - ThinLag

\* The first of S is asked for as a thin block if the peer can send one and owes
\* none.  The others wait for a peer that can, for ten seconds from the first time
\* they were looked at: CheckThinblockTimer is TRUE for the blocks of "early".
AsThin(n, S) ==
  IF UseThinBlocks /\ n \in ThinCapable /\ mapThinBlocksInFlight[n] = {}
    THEN {b \in S : \A c \in S : nHeight[b] <= nHeight[c]} ELSE {}
Early(S) == IF UseThinBlocks /\ HaveThinblockNodes THEN SUBSET S ELSE {{}}

RequestBlocks(n, S, fValidated) ==
  \E early \in Early(S) :
    LET asked == (S \ early) \cup AsThin(n, S)
    IN  /\ \E q \in Ascending(asked) : MarkBlocksAsInFlight(n, q, fValidated)
        /\ owed' = [owed EXCEPT ![n] = @ \cup asked]
        /\ mapThinBlocksInFlight' = [mapThinBlocksInFlight EXCEPT ![n] = @ \cup AsThin(n, S)]

LastCommonAncestor(a, b) ==
  ancestor[a][CHOOSE h \in 0 .. nHeight[a] :
                /\ GetAncestor(b, h) = ancestor[a][h]
                /\ h < nHeight[a] => GetAncestor(b, h + 1) # ancestor[a][h + 1]]

\* The end of every handler of the engine that changes the header chain: the active
\* chain goes back to the last block that is in it.
prepareChain == tip' = LastCommonAncestor(tip, Tip(headersChain'))

\* A peer announces a block when it has more work than what it announced before and
\* the header of its parent is known; a prompt peer announces its best block and the
\* headers that lead to it.
Announces(n, b) ==
  /\ b \in Offers[n] /\ Known(b)
  /\ pindexBestKnownBlock[n] # NULL => nChainWork[b] > nChainWork[pindexBestKnownBlock[n]]
  /\ n \in Prompt /\ b \in indexMap => \A c \in Block : nChainWork[c] <= nChainWork[b]

Handles(n) == pindexLast = <<>> /\ status[n] = "up"

\* The inv message: a block whose header is not known is asked for at once when
\* the node is nearly synced.
Inv(n, b) ==
  LET fetch == /\ b \notin indexMap /\ mapBlocksInFlight[b] = NULL /\ CanDirectFetch
               /\ nBlocksInFlight[n] < MAX_BLOCKS_IN_TRANSIT_PER_PEER
  IN  /\ Handles(n) /\ Announces(n, b)
      /\ UpdateBlockAvailability(n, b, indexMap)
      /\ \/ fetch /\ RequestBlocks(n, {b}, FALSE)
         \/ ~fetch /\ UNCHANGED <<flightVars, owed, mapThinBlocksInFlight>>
      /\ UNCHANGED <<headerVars, nStallingSince, peerVars, syncVars, pindexLastCommonBlock,
                     pindexLast, engineVars>>

\* The headers message, with one header, up to the point where it takes cs_main:
\* the engine has dealt with the header.
Headers(n, b) ==
  /\ Handles(n) /\ Announces(n, b)
  /\ AcceptHeader(b) /\ prepareChain
  /\ UpdateBlockAvailability(n, b, indexMap')
  /\ pindexLast' = <<n, b>>
  /\ UNCHANGED <<nStallingSince, flightVars, peerVars, syncVars, pindexLastCommonBlock, wireVars,
                 validating, landing, haveData, linked>>

\* A header of which a parent failed: the peer gets a penalty.
HeadersRejected(n, b) ==
  /\ Handles(n) /\ Announces(n, b)
  /\ b \in failed \/ (Known(b) /\ pprev[b] \in failed)
  /\ handleFailedBlock(b) /\ prepareChain
  /\ UNCHANGED <<nStallingSince, flightVars, peerVars, syncVars, availabilityVars,
                 pindexLastCommonBlock, wireVars, pindexLast, validating, landing, haveData,
                 linked>>

InActiveChain(b) == OnBranch(b, tip)
MutantMissing(b) == mapBlocksInFlight[b] = NULL

Missing(b) == b \notin haveData /\ mapBlocksInFlight[b] = NULL

\* The rest of the headers handler: the blocks needed to switch to pindexLast are
\* asked for, from the lowest on, unless there are too many.
HeadersFetch ==
  \E n \in Peer, last \in Block :
    LET off == {ancestor[last][h] : h \in 0 .. nHeight[last]} \ {b \in Block : InActiveChain(b)}
        missing == {b \in off : Missing(b)}
        above(b) == {c \in missing : nHeight[c] > nHeight[b]}
        reached == \A b \in off : Cardinality(above(b)) <= MAX_BLOCKS_IN_TRANSIT_PER_PEER
        first == {b \in missing : Cardinality(missing \ above(b)) <= Room(n)}
        fetch == /\ CanDirectFetch /\ last \notin failed
                 /\ nChainWork[tip] <= nChainWork[last] /\ reached
                 /\ ~(IsThinBlocksEnabled /\ n \in ThinCapable)
    IN  /\ pindexLast = <<n, last>>
        /\ pindexLast' = <<>>
        /\ \/ /\ fetch
              /\ \E q \in Ascending(first) : MarkBlocksAsInFlight(n, q, TRUE)
              /\ owed' = [owed EXCEPT ![n] = @ \cup first]
           \/ ~fetch /\ UNCHANGED <<flightVars, owed>>
        /\ UNCHANGED <<headerVars, nStallingSince, peerVars, syncVars, availabilityVars,
                       pindexLastCommonBlock, mapThinBlocksInFlight, engineVars>>

-----------------------------------------------------------------------------
(***************************************************************************)
(* SendMessages: start the headers sync, disconnect a peer that holds up   *)
(* the download, ask for the next blocks.                                  *)
(***************************************************************************)

\* The last common block with a peer whose best block is known: the walk begins there.
MutantWalkFrom(n, best) ==
  IF pindexLastCommonBlock[n] # NULL THEN pindexLastCommonBlock[n]
  ELSE ancestor[best][IF nHeight[best] < nHeight[tip] THEN nHeight[best] ELSE nHeight[tip]]

WalkFrom(n, best) ==
  LET guess == ancestor[tip][IF nHeight[best] < nHeight[tip] THEN nHeight[best]
                             ELSE nHeight[tip]]
  IN  LastCommonAncestor(IF pindexLastCommonBlock[n] = NULL THEN guess
                         ELSE pindexLastCommonBlock[n], best)

\* The walk of FindNextBlocksToDownload goes up from the last common block, at most
\* one block out of the window (vToFetch).  It ends at a block that is invalid or out
\* of the window, or where it has found "count" blocks.
vToFetch(best, from) ==
  {b \in Block : OnBranch(b, best) /\
     nHeight[b] \in nHeight[from] + 1 .. nHeight[from] + BLOCK_DOWNLOAD_WINDOW + 1}

Have(b) == b \in haveData \/ InActiveChain(b)
Wanted(b) == ~Have(b) /\ mapBlocksInFlight[b] = NULL /\ b \notin failed
Beyond(b, from) == Wanted(b) /\ nHeight[b] > nHeight[from] + BLOCK_DOWNLOAD_WINDOW

\* A block that the last common block may move to.
Advances(b) == Have(b) /\ b \in linked

WalkEnds(toFetch, from, count) ==
  {b \in toFetch :
     \/ b \in failed \/ Beyond(b, from)
     \/ Cardinality({c \in toFetch : Wanted(c) /\ nHeight[c] <= nHeight[b]}) = count}

\* What the walk over these blocks finds: the blocks to ask for, the peer that keeps
\* the window from moving, and the new last common block.
Walk(n, from, toFetch, ends) ==
  LET walked == {b \in toFetch : \A c \in ends : nHeight[b] <= nHeight[c]}
      vBlocks == {b \in walked : Wanted(b) /\ ~Beyond(b, from)}
      waitingfor == {b \in walked \ ends : ~Have(b) /\ mapBlocksInFlight[b] # NULL}
      stalled == vBlocks = {} /\ \E b \in walked : Beyond(b, from)
      have == {b \in walked \ ends : Advances(b)}
  IN  [vBlocks |-> vBlocks,
       stallers |-> {mapBlocksInFlight[b] : b \in {c \in waitingfor : stalled /\
                       \A d \in waitingfor : nHeight[c] <= nHeight[d]}} \ {n},
       last |-> CHOOSE b \in have \cup {from} : \A c \in have : nHeight[c] <= nHeight[b]]

IsInitialBlockDownload ==
  ~lockIBDState /\ (\/ nHeight[tip] < nHeight[pindexBestHeader] - IbdLag
                    \/ pindexBestHeader \notin Recent)

fFetch(n) == n \in fPreferredDownload \/ nPreferredDownload = 0

Interesting(best) == best # NULL /\ nChainWork[best] >= nChainWork[tip]

\* FindNextBlocksToDownload and the requests it leads to.  A peer without
\* an interesting block is left alone; one that has nothing to do because another one
\* keeps the window from moving starts the other's stall timer.
SendGetData(n, count) ==
  \E best \in {BestKnown(n, indexMap)} :
    /\ ProcessBlockAvailability(n)
    /\ \/ /\ ~Interesting(best)
          /\ UNCHANGED <<nStallingSince, flightVars, pindexLastCommonBlock, owed,
                         mapThinBlocksInFlight>>
       \/ /\ Interesting(best)
          /\ \E from \in {WalkFrom(n, best)} : \E toFetch \in {vToFetch(best, from)} :
             \E ends \in {WalkEnds(toFetch, from, count)} :
             \E found \in {Walk(n, from, toFetch, ends)} :
               /\ pindexLastCommonBlock' = [pindexLastCommonBlock EXCEPT ![n] = found.last]
               /\ RequestBlocks(n, found.vBlocks, TRUE)
               /\ nStallingSince' =
                    IF nBlocksInFlight'[n] = 0 THEN nStallingSince \cup found.stallers
                    ELSE nStallingSince

\* n may be found to hold up the window, or to have its first block in flight for too
\* long.  A prompt peer is late only with blocks that it has sent.
MutantTimedOut(n) == n \in nStallingSince

TimedOut(n) ==
  \/ n \in nStallingSince /\ (n \in Prompt => owed[n] = {})
  \/ vBlocksInFlight[n] # <<>> /\ (n \in Prompt => Head(vBlocksInFlight[n]) \notin owed[n])

SendMessages(n, late) ==
  LET start == /\ n \notin fSyncStarted
               /\ (nSyncStarted = 0 /\ fFetch(n)) \/ pindexBestHeader \in Recent
      fetch == /\ ~late /\ (fFetch(n) \/ ~IsInitialBlockDownload)
               /\ nBlocksInFlight[n] < MAX_BLOCKS_IN_TRANSIT_PER_PEER
  IN  /\ Handles(n) /\ (late => TimedOut(n))
      /\ lockIBDState' = (lockIBDState \/ ~IsInitialBlockDownload)
      /\ fSyncStarted' = IF start THEN fSyncStarted \cup {n} ELSE fSyncStarted
      /\ nSyncStarted' = IF start THEN nSyncStarted + 1 ELSE nSyncStarted
      /\ status' = IF late THEN [status EXCEPT ![n] = "disconnect"] ELSE status
      /\ \/ fetch /\ SendGetData(n, Room(n))
         \/ /\ ~fetch
            /\ UNCHANGED <<nStallingSince, flightVars, availabilityVars, pindexLastCommonBlock,
                           owed, mapThinBlocksInFlight>>
      /\ UNCHANGED <<headerVars, mapNodeState, fPreferredDownload, nPreferredDownload,
                     pindexLast, engineVars>>

-----------------------------------------------------------------------------
(***************************************************************************)
(* A block arrives, and what the validation engine does with it.           *)
(***************************************************************************)

\* HandleBlockMessage, for a full block and for a thin block that was completed.
BlockMessage(n, b) ==
  /\ Handles(n) /\ b \notin validating
  /\ \/ b \in owed[n]
     \/ n \in Unruly /\ Announces(n, b) /\ b \notin haveData \cup landing \cup failed
  /\ owed' = [owed EXCEPT ![n] = @ \ {b}]
  /\ validating' = validating \cup {b}
  /\ mapThinBlocksInFlight' = [m \in Peer |-> mapThinBlocksInFlight[m] \ {b}]
  /\ UNCHANGED <<headerVars, nStallingSince, flightVars, peerVars, syncVars, availabilityVars,
                 pindexLastCommonBlock, pindexLast, landing, haveData, linked, tip>>

\* A thin block whose merkle root comes out wrong is dropped and nothing is undone.
ThinBlockFails(n, b) ==
  /\ Handles(n) /\ n \notin Prompt /\ b \in owed[n] \cap mapThinBlocksInFlight[n]
  /\ owed' = [owed EXCEPT ![n] = @ \ {b}]
  /\ UNCHANGED <<headerVars, nStallingSince, flightVars, peerVars, syncVars, availabilityVars,
                 pindexLastCommonBlock, mapThinBlocksInFlight, pindexLast,
                 engineVars>>

Finished(b) ==
  /\ validating' = validating \ {b}
  /\ landing' = landing \cup {b}

\* blockHeaderValidated.
BlockAccepted(b) ==
  /\ b \in validating
  /\ mapBlocksInFlight[b] # NULL \/ nHeight[b] <= nHeight[tip] + MIN_BLOCKS_TO_KEEP
  /\ AcceptHeader(b) /\ prepareChain
  /\ haveData' = haveData \cup {b}
  /\ Finished(b)
  /\ UNCHANGED <<nStallingSince, flightVars, peerVars, syncVars, availabilityVars,
                 pindexLastCommonBlock, wireVars, pindexLast, linked>>

BlockTooFarAhead(b) ==
  /\ b \in validating /\ Known(b)
  /\ mapBlocksInFlight[b] = NULL /\ nHeight[b] > nHeight[tip] + MIN_BLOCKS_TO_KEEP
  /\ b \notin failed /\ pprev[b] \notin failed
  /\ Finished(b)
  /\ UNCHANGED <<headerVars, nStallingSince, flightVars, peerVars, syncVars, availabilityVars,
                 pindexLastCommonBlock, wireVars, pindexLast, haveData, linked, tip>>

BlockRejected(b) ==
  /\ b \in validating
  /\ b \in Invalid \cup failed \/ (Known(b) /\ pprev[b] \in failed)
  /\ handleFailedBlock(b) /\ prepareChain
  /\ Finished(b)
  /\ UNCHANGED <<nStallingSince, flightVars, peerVars, syncVars, availabilityVars,
                 pindexLastCommonBlock, wireVars, pindexLast, haveData, linked>>

\* ~BlockValidationState
MutantBlockLanded(b) ==
  /\ b \in landing
  /\ landing' = landing \ {b}
  /\ UNCHANGED <<headerVars, nStallingSince, flightVars, peerVars, syncVars, availabilityVars,
                 pindexLastCommonBlock, wireVars, pindexLast, validating, haveData, linked, tip>>

BlockLanded(b) ==
  /\ b \in landing
  /\ landing' = landing \ {b}
  /\ MarkBlockAsReceived(b)
  /\ UNCHANGED <<headerVars, peerVars, syncVars, availabilityVars, pindexLastCommonBlock, wireVars,
                 pindexLast, validating, haveData, linked, tip>>

\* The engine appends the next block of the header chain that has been downloaded,
\* or finds that it fails.
processNewBlock ==
  \E b \in haveData :
    /\ InChain(headersChain, b) /\ nHeight[b] = nHeight[tip] + 1
    /\ \/ /\ b \notin Invalid
          /\ tip' = b /\ linked' = linked \cup {b}
          /\ UNCHANGED headerVars
       \/ /\ b \in Invalid
          /\ handleFailedBlock(b) /\ prepareChain /\ UNCHANGED linked
    /\ UNCHANGED <<nStallingSince, flightVars, peerVars, syncVars, availabilityVars,
                   pindexLastCommonBlock, wireVars, pindexLast, validating, landing, haveData>>

-----------------------------------------------------------------------------

PeerNext(n) ==
  \/ InitializeNode(n) \/ Version(n) \/ Disconnect(n) \/ FinalizeNode(n)
  \/ \E late \in BOOLEAN : SendMessages(n, late)
  \/ \E b \in Block \ {Genesis} :
       \/ Inv(n, b) \/ Headers(n, b) \/ HeadersRejected(n, b)
       \/ BlockMessage(n, b) \/ ThinBlockFails(n, b)

DownloadNext ==
  \/ \E n \in Peer : PeerNext(n)
  \/ \E b \in Block :
       \/ BlockAccepted(b) \/ BlockTooFarAhead(b) \/ BlockRejected(b)
       \/ BlockLanded(b)
  \/ HeadersFetch \/ processNewBlock

DownloadSpec == DownloadInit /\ [][DownloadNext]_downloadVars

\* ThreadMessageHandler comes round to every peer, ThreadSocketHandler to every
\* CNode and the engine to every block; what times out is found to.  A prompt peer
\* connects, announces its headers and answers what it is asked.
DownloadFairness ==
  /\ \A n \in Peer :
       /\ WF_downloadVars(FinalizeNode(n))
       /\ WF_downloadVars(SendMessages(n, FALSE)) /\ WF_downloadVars(SendMessages(n, TRUE))
  /\ \A n \in Prompt :
       /\ WF_downloadVars(InitializeNode(n) \/ Version(n))
       /\ WF_downloadVars(\E b \in Block : Headers(n, b) \/ HeadersRejected(n, b))
       /\ WF_downloadVars(\E b \in Block : b \in owed[n] /\ BlockMessage(n, b))
  /\ \A b \in Block \ {Genesis} :
       /\ WF_downloadVars(BlockAccepted(b) \/ BlockTooFarAhead(b) \/ BlockRejected(b))
       /\ WF_downloadVars(BlockLanded(b))
  /\ WF_downloadVars(HeadersFetch) /\ WF_downloadVars(processNewBlock)

FairDownloadSpec == DownloadSpec /\ DownloadFairness

-----------------------------------------------------------------------------

\* The members of CNodeState and the maps hold what their types say.
DownloadTypeOK ==
  /\ TypeOK /\ mapNodeState \subseteq Peer /\ fPreferredDownload \subseteq Preferred
  /\ nStallingSince \subseteq Peer
  /\ fSyncStarted \subseteq Peer /\ lockIBDState \in BOOLEAN
  /\ status \in [Peer -> {"new", "connected", "up", "disconnect", "gone"}]
  /\ nPreferredDownload \in Nat /\ nSyncStarted \in Nat
  /\ mapBlocksInFlight \in [Block -> Peer \cup {NULL}]
  /\ vBlocksInFlight \in [Peer -> Seq(Block)] /\ fValidatedHeaders \subseteq Block
  /\ nBlocksInFlight \in [Peer -> Nat] /\ nBlocksInFlightValidHeaders \in [Peer -> Nat]
  /\ nPeersWithValidatedDownloads \in Nat
  /\ pindexBestKnownBlock \in [Peer -> indexMap \cup {NULL}]
  /\ hashLastUnknownBlock \in [Peer -> Block \cup {NULL}]
  /\ pindexLastCommonBlock \in [Peer -> indexMap \cup {NULL}]
  /\ mapThinBlocksInFlight \in [Peer -> SUBSET Block]
  /\ pindexLast \in {<<>>} \cup (Peer \X Block) /\ owed \in [Peer -> SUBSET Block]
  /\ validating \subseteq Block /\ landing \subseteq Block
  /\ haveData \subseteq indexMap /\ linked \subseteq haveData /\ tip \in linked

\* mapBlocksInFlight and the queues of the peers always list the same blocks, each
\* in one queue and once, and the five counters count what they stand for.  The
\* iterators in the map, the State() of the peer it names and the assertions of
\* FinalizeNode depend on it.
InFlightExact ==
  /\ \A b \in Block, n \in Peer :
       mapBlocksInFlight[b] = n <=> b \in Elements(vBlocksInFlight[n])
  /\ \A n \in Peer :
       /\ \A i, k \in 1 .. Len(vBlocksInFlight[n]) :
            vBlocksInFlight[n][i] = vBlocksInFlight[n][k] => i = k
       /\ n \notin mapNodeState => vBlocksInFlight[n] = <<>>
       /\ nBlocksInFlight[n] = Len(vBlocksInFlight[n])
       /\ nBlocksInFlightValidHeaders[n] =
            Cardinality(Elements(vBlocksInFlight[n]) \cap fValidatedHeaders)
  /\ nPeersWithValidatedDownloads =
       Cardinality({n \in Peer : nBlocksInFlightValidHeaders[n] # 0})
  /\ nPreferredDownload = Cardinality(fPreferredDownload)
  /\ nSyncStarted = Cardinality(fSyncStarted)
  /\ fPreferredDownload \cup fSyncStarted \subseteq mapNodeState

\* The stall timer of a peer runs only while a block is in flight from it: a peer
\* that has delivered what it was asked for is not disconnected for stalling.
StallersOwe == \A n \in nStallingSince : vBlocksInFlight[n] # <<>>

\* No peer is asked for more than MAX_BLOCKS_IN_TRANSIT_PER_PEER blocks at a time,
\* over the three ways in which blocks are asked for.
InTransitBounded ==
  \A n \in Peer : Len(vBlocksInFlight[n]) <= MAX_BLOCKS_IN_TRANSIT_PER_PEER

\* pindexLastCommonBlock is "the last full block we both have" (main.cpp): no block
\* is missing at or below it.  The walk starts above it and would not find one.
NoGapBelowLastCommon ==
  \A n \in Peer : pindexLastCommonBlock[n] # NULL =>
    \A h \in 0 .. nHeight[pindexLastCommonBlock[n]] :
      ancestor[pindexLastCommonBlock[n]][h] \in haveData

\* A block that is marked in flight is on its way: its peer still owes it, as a full
\* or a thin block, or a copy of it is in the engine.  A mark that nothing will take
\* away would keep the block from being asked for again.
FlightHasOwner ==
  \A b \in Block : mapBlocksInFlight[b] # NULL =>
    \/ b \in owed[mapBlocksInFlight[b]] \cup mapThinBlocksInFlight[mapBlocksInFlight[b]]
    \/ b \in validating \cup landing

\* A block is asked for only while it is missing and not known to be invalid, also
\* when the engine finished with it while the headers handler waited for cs_main.
RequestsAreUseful ==
  [][\A b \in Block : mapBlocksInFlight[b] = NULL /\ mapBlocksInFlight'[b] # NULL =>
       b \notin haveData \cup failed]_downloadVars

\* Every block of the header chain is downloaded in the end, or the header chain
\* leaves it: a peer that holds a block back is disconnected, by the stall timer or
\* the download timer, and another one is asked.
BlocksArrive ==
  \A b \in Block : InChain(headersChain, b) ~> (b \in haveData \/ ~InChain(headersChain, b))
=============================================================================
