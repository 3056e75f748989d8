------------------------ MODULE BlockDownloadProofs ------------------------
(***************************************************************************)
(* The books that main.cpp keeps of the blocks in flight are exact, the    *)
(* stall timer runs only for a peer that owes a block and no peer is asked *)
(* for more than the limit: for every set of peers, every tree of blocks   *)
(* and every value of the limits.                                          *)
(***************************************************************************)
EXTENDS BlockDownloadLemmas

-----------------------------------------------------------------------------
(* The inductive invariant, step by step. *)

\* A peer with a CNode has a CNodeState, the counters of the preferred and the
\* syncing peers are right, and no queue is left behind.
PeerInv ==
  /\ mapNodeState \subseteq Peer
  /\ status \in [Peer -> {"new", "connected", "up", "disconnect", "gone"}]
  /\ \A n \in Peer : status[n] \in {"connected", "up", "disconnect"} => n \in mapNodeState
  /\ \A n \in Peer : status[n] \in {"new", "connected", "gone"} => n \notin fPreferredDownload
  /\ fPreferredDownload \subseteq mapNodeState /\ fSyncStarted \subseteq mapNodeState
  /\ nPreferredDownload = Cardinality(fPreferredDownload)
  /\ nSyncStarted = Cardinality(fSyncStarted)

NoQueueLeft == \A n \in Peer \ mapNodeState : vBlocksInFlight[n] = <<>>

\* The peer whose headers are being handled is not deleted.
HandlerInv ==
  /\ pindexLast \in {<<>>} \cup (Peer \X Block)
  /\ \A n \in Peer, b \in Block : pindexLast = <<n, b>> => status[n] \in {"up", "disconnect"}

StallInv == nStallingSince \subseteq Peer /\ StallersOwe

DownloadInv == FlightInv /\ PeerInv /\ NoQueueLeft /\ HandlerInv /\ StallInv

LEMMA FiniteCounts ==
  ASSUME PeerInv
  PROVE  /\ IsFiniteSet(fPreferredDownload) /\ Cardinality(fPreferredDownload) \in Nat
         /\ IsFiniteSet(fSyncStarted) /\ Cardinality(fSyncStarted) \in Nat
  <1>1. fPreferredDownload \in SUBSET Peer /\ fSyncStarted \in SUBSET Peer
    BY DEF PeerInv
  <1>2. QED
    BY <1>1, FS_Subset, FS_CardinalityType, DownloadAssumption

LEMMA FlightUnchanged ==
  ASSUME FlightInv, UNCHANGED flightVars
  PROVE  FlightInv'
  <1>1. FlightTypes'
    BY DEF FlightInv, FlightTypes, flightVars
  <1>2. MapExact'
    BY DEF FlightInv, MapExact, flightVars
  <1>3. \A n \in Peer : QueueExact(n)'
    BY DEF FlightInv, QueueExact, flightVars
  <1>4. Downloading' = Downloading /\ UNCHANGED nPeersWithValidatedDownloads
    BY DEF Downloading, flightVars
  <1>5. QED
    BY <1>1, <1>2, <1>3, <1>4 DEF FlightInv

\* The handlers that leave the books alone.
LEMMA QuietStep ==
  ASSUME DownloadInv,
         UNCHANGED <<nStallingSince, flightVars, peerVars, fSyncStarted, nSyncStarted, pindexLast>>
  PROVE  DownloadInv'
  <1>1. FlightInv'
    BY FlightUnchanged DEF DownloadInv
  <1>2. PeerInv'
    BY DEF DownloadInv, PeerInv, peerVars
  <1>3. NoQueueLeft' /\ HandlerInv' /\ StallInv'
    BY DEF DownloadInv, NoQueueLeft, HandlerInv, StallInv, StallersOwe, flightVars, peerVars
  <1>4. QED
    BY <1>1, <1>2, <1>3 DEF DownloadInv

\* A step that changes only the queue of n, and may start stall timers.
LEMMA QueueStep ==
  ASSUME DownloadInv, FlightInv', NEW n \in Peer, n \in mapNodeState,
         \A m \in Peer \ {n} : vBlocksInFlight'[m] = vBlocksInFlight[m],
         vBlocksInFlight[n] # <<>> => vBlocksInFlight'[n] # <<>>,
         nStallingSince' \subseteq
           nStallingSince \cup {m \in Peer : vBlocksInFlight[m] # <<>>},
         UNCHANGED mapNodeState
  PROVE  NoQueueLeft' /\ StallInv'
  <1>1. NoQueueLeft'
    BY DEF DownloadInv, NoQueueLeft
  <1>2. \A m \in Peer : vBlocksInFlight[m] # <<>> => vBlocksInFlight'[m] # <<>>
    OBVIOUS
  <1>3. StallInv'
    BY <1>2 DEF DownloadInv, StallInv, StallersOwe
  <1>4. QED
    BY <1>1, <1>3

\* Blocks are requested only if nobody was asked for them.
LEMMA RequestExact ==
  ASSUME FlightInv, NEW n \in Peer, NEW S \in SUBSET Block,
         \A b \in S : mapBlocksInFlight[b] = NULL,
         NEW fValidated \in BOOLEAN, RequestBlocks(n, S, fValidated)
  PROVE  /\ FlightInv'
         /\ \A m \in Peer \ {n} : vBlocksInFlight'[m] = vBlocksInFlight[m]
         /\ vBlocksInFlight[n] # <<>> => vBlocksInFlight'[n] # <<>>
  <1>1. PICK early \in Early(S) :
          \E q \in Ascending((S \ early) \cup AsThin(n, S)) :
            MarkBlocksAsInFlight(n, q, fValidated)
    BY Zenon DEF RequestBlocks
  <1>2. AsThin(n, S) \subseteq S
    BY DEF AsThin
  <1> DEFINE asked == (S \ early) \cup AsThin(n, S)
  <1>3. asked \in SUBSET Block /\ \A b \in asked : mapBlocksInFlight[b] = NULL
    BY <1>2
  <1>4. PICK q \in Ascending(asked) : MarkBlocksAsInFlight(n, q, fValidated)
    BY <1>1
  <1> HIDE DEF asked
  <1>5. QED
    BY <1>3, <1>4, MarkedExact

LEMMA UpPeer ==
  ASSUME DownloadInv, NEW n \in Peer, Handles(n)
  PROVE  n \in mapNodeState /\ pindexLast = <<>> /\ status[n] = "up"
  BY DEF DownloadInv, PeerInv, Handles

LEMMA InvKeeps ==
  ASSUME DownloadInv, NEW n \in Peer, NEW b \in Block, Inv(n, b)
  PROVE  DownloadInv'
  <1>1. n \in mapNodeState
    BY UpPeer DEF Inv
  <1>2. UNCHANGED <<nStallingSince, peerVars, fSyncStarted, nSyncStarted, pindexLast>>
    BY DEF Inv, syncVars
  <1>3. CASE UNCHANGED flightVars
    BY <1>2, <1>3, QuietStep
  <1>4. CASE mapBlocksInFlight[b] = NULL /\ RequestBlocks(n, {b}, FALSE)
    <2>1. /\ FlightInv'
          /\ \A m \in Peer \ {n} : vBlocksInFlight'[m] = vBlocksInFlight[m]
          /\ vBlocksInFlight[n] # <<>> => vBlocksInFlight'[n] # <<>>
      BY <1>4, RequestExact, Zenon DEF DownloadInv
    <2>2. NoQueueLeft' /\ StallInv'
      BY <1>1, <1>2, <2>1, QueueStep DEF peerVars
    <2>3. PeerInv'
      BY <1>2 DEF DownloadInv, PeerInv, peerVars
    <2>4. HandlerInv'
      BY <1>2 DEF DownloadInv, HandlerInv, peerVars
    <2>5. QED
      BY <2>1, <2>2, <2>3, <2>4 DEF DownloadInv
  <1>5. QED
    BY <1>3, <1>4, Zenon DEF Inv

LEMMA HeadersFetchKeeps ==
  ASSUME DownloadInv, HeadersFetch
  PROVE  DownloadInv'
  <1> DEFINE off(last) == {ancestor[last][h] : h \in 0 .. nHeight[last]}
                            \ {b \in Block : InActiveChain(b)}
             missing(last) == {b \in off(last) : Missing(b)}
             above(last, b) == {c \in missing(last) : nHeight[c] > nHeight[b]}
             first(n, last) == {b \in missing(last) :
                                  Cardinality(missing(last) \ above(last, b)) <= Room(n)}
  <1>1. PICK n \in Peer, last \in Block :
          /\ pindexLast = <<n, last>> /\ pindexLast' = <<>>
          /\ UNCHANGED <<nStallingSince, peerVars, syncVars>>
          /\ \/ \E q \in Ascending(first(n, last)) : MarkBlocksAsInFlight(n, q, TRUE)
             \/ UNCHANGED flightVars
    BY Zenon DEF HeadersFetch
  <1>2. n \in mapNodeState
    BY <1>1 DEF DownloadInv, HandlerInv, PeerInv
  <1>3. PeerInv' /\ HandlerInv'
    BY <1>1 DEF DownloadInv, PeerInv, HandlerInv, peerVars, syncVars
  <1>4. CASE UNCHANGED flightVars
    <2>1. FlightInv'
      BY <1>4, FlightUnchanged DEF DownloadInv
    <2>2. NoQueueLeft' /\ StallInv'
      BY <1>1, <1>4 DEF DownloadInv, NoQueueLeft, StallInv, StallersOwe, flightVars, peerVars
    <2>3. QED
      BY <1>3, <2>1, <2>2 DEF DownloadInv
  <1>5. CASE \E q \in Ascending(first(n, last)) : MarkBlocksAsInFlight(n, q, TRUE)
    <2>1. off(last) \subseteq Block
      <3>1. \A h \in 0 .. nHeight[last] : ancestor[last][h] \in Block
        BY TreeAssumption
      <3>2. QED
        BY <3>1
    <2>2. first(n, last) \in SUBSET Block /\ \A b \in first(n, last) : mapBlocksInFlight[b] = NULL
      BY <2>1 DEF Missing
    <2> HIDE DEF first
    <2>3. PICK q \in Ascending(first(n, last)) : MarkBlocksAsInFlight(n, q, TRUE)
      BY <1>5, Zenon
    <2>4. /\ FlightInv'
          /\ \A m \in Peer \ {n} : vBlocksInFlight'[m] = vBlocksInFlight[m]
          /\ vBlocksInFlight[n] # <<>> => vBlocksInFlight'[n] # <<>>
      BY <2>2, <2>3, MarkedExact, Zenon DEF DownloadInv
    <2>5. NoQueueLeft' /\ StallInv'
      BY <1>1, <1>2, <2>4, QueueStep DEF peerVars
    <2>6. QED
      BY <1>3, <2>4, <2>5 DEF DownloadInv
  <1>6. QED
    BY <1>1, <1>4, <1>5, Zenon

\* The peers whose stall timer FindNextBlocksToDownload may start have a block in
\* flight, and the blocks it asks for have not been asked for.
LEMMA WalkFacts ==
  ASSUME FlightInv, NEW n, NEW from, NEW toFetch \in SUBSET Block, NEW ends
  PROVE  LET found == Walk(n, from, toFetch, ends)
         IN  /\ found.vBlocks \in SUBSET Block
             /\ \A b \in found.vBlocks : mapBlocksInFlight[b] = NULL
             /\ found.stallers \subseteq {m \in Peer : vBlocksInFlight[m] # <<>>}
  <1> DEFINE found == Walk(n, from, toFetch, ends)
  <1>1. \A b \in found.vBlocks : b \in Block /\ mapBlocksInFlight[b] = NULL
    BY DEF Walk, Wanted
  <1>2. \A m \in found.stallers : \E b \in Block : m = mapBlocksInFlight[b] /\ m # NULL
    BY DEF Walk
  <1> HIDE DEF found
  <1>3. ASSUME NEW m \in found.stallers PROVE m \in Peer /\ vBlocksInFlight[m] # <<>>
    <2>1. PICK b \in Block : m = mapBlocksInFlight[b] /\ m # NULL
      BY <1>2
    <2>2. m \in Peer
      BY <2>1 DEF FlightInv, FlightTypes
    <2>3. b \in Elements(vBlocksInFlight[m])
      BY <2>1, <2>2 DEF FlightInv, MapExact
    <2>4. QED
      BY <2>2, <2>3, EmptyIsSeq
  <1>4. QED
    BY <1>1, <1>3 DEF found

LEMMA SendGetDataExact ==
  ASSUME FlightInv, NEW n \in Peer, NEW count, SendGetData(n, count)
  PROVE  /\ FlightInv'
         /\ \A m \in Peer \ {n} : vBlocksInFlight'[m] = vBlocksInFlight[m]
         /\ vBlocksInFlight[n] # <<>> => vBlocksInFlight'[n] # <<>>
         /\ nStallingSince' \subseteq
              nStallingSince \cup {m \in Peer : vBlocksInFlight[m] # <<>>}
  <1>1. CASE UNCHANGED <<nStallingSince, flightVars>>
    BY <1>1, FlightUnchanged DEF flightVars
  <1>2. CASE ~UNCHANGED <<nStallingSince, flightVars>>
    <2> DEFINE Asks(found) ==
                 /\ RequestBlocks(n, found.vBlocks, TRUE)
                 /\ nStallingSince' =
                      IF nBlocksInFlight'[n] = 0 THEN nStallingSince \cup found.stallers
                      ELSE nStallingSince
    <2>1. \E best : \E from \in {WalkFrom(n, best)} : \E toFetch \in {vToFetch(best, from)} :
          \E ends \in {WalkEnds(toFetch, from, count)} :
          \E found \in {Walk(n, from, toFetch, ends)} : Asks(found)
      BY <1>2, Zenon DEF SendGetData
    <2> HIDE DEF Asks
    <2>2. PICK best, from, toFetch, ends :
            toFetch = vToFetch(best, from) /\ Asks(Walk(n, from, toFetch, ends))
      BY <2>1
    <2>3. toFetch \in SUBSET Block
      BY <2>2 DEF vToFetch
    <2> DEFINE found == Walk(n, from, toFetch, ends)
    <2>4. /\ RequestBlocks(n, found.vBlocks, TRUE)
          /\ nStallingSince' =
               IF nBlocksInFlight'[n] = 0 THEN nStallingSince \cup found.stallers
               ELSE nStallingSince
      BY <2>2, Zenon DEF Asks
    <2>5. /\ found.vBlocks \in SUBSET Block
          /\ \A b \in found.vBlocks : mapBlocksInFlight[b] = NULL
          /\ found.stallers \subseteq {m \in Peer : vBlocksInFlight[m] # <<>>}
      BY <2>3, WalkFacts, Zenon
    <2> HIDE DEF found
    <2>6. nStallingSince' \subseteq nStallingSince \cup {m \in Peer : vBlocksInFlight[m] # <<>>}
      BY <2>4, <2>5
    <2>7. QED
      BY <2>4, <2>5, <2>6, RequestExact, Zenon
  <1>3. QED
    BY <1>1, <1>2

LEMMA SendMessagesKeeps ==
  ASSUME DownloadInv, NEW n \in Peer, NEW late \in BOOLEAN, SendMessages(n, late)
  PROVE  DownloadInv'
  <1>1. n \in mapNodeState /\ pindexLast = <<>> /\ status[n] = "up"
    BY UpPeer DEF SendMessages
  <1>2. /\ UNCHANGED <<mapNodeState, fPreferredDownload, nPreferredDownload, pindexLast>>
        /\ status' = IF late THEN [status EXCEPT ![n] = "disconnect"] ELSE status
        /\ \/ UNCHANGED <<fSyncStarted, nSyncStarted>>
           \/ /\ n \notin fSyncStarted /\ fSyncStarted' = fSyncStarted \cup {n}
              /\ nSyncStarted' = nSyncStarted + 1
    BY Zenon DEF SendMessages
  <1>3. nSyncStarted' = Cardinality(fSyncStarted')
    <2>1. IsFiniteSet(fSyncStarted) /\ nSyncStarted = Cardinality(fSyncStarted)
      BY FiniteCounts DEF DownloadInv, PeerInv
    <2>2. n \notin fSyncStarted =>
            Cardinality(fSyncStarted \cup {n}) = Cardinality(fSyncStarted) + 1
      BY <2>1, FS_AddElement
    <2>3. QED
      BY <1>2, <2>1, <2>2
  <1>4. PeerInv'
    BY <1>1, <1>2, <1>3 DEF DownloadInv, PeerInv
  <1>5. HandlerInv'
    BY <1>1, <1>2 DEF DownloadInv, HandlerInv
  <1>6. CASE UNCHANGED <<nStallingSince, flightVars>>
    <2>1. FlightInv'
      BY <1>6, FlightUnchanged DEF DownloadInv
    <2>2. NoQueueLeft' /\ StallInv'
      BY <1>2, <1>6 DEF DownloadInv, NoQueueLeft, StallInv, StallersOwe, flightVars
    <2>3. QED
      BY <1>4, <1>5, <2>1, <2>2 DEF DownloadInv
  <1>7. CASE SendGetData(n, Room(n))
    <2>1. /\ FlightInv'
          /\ \A m \in Peer \ {n} : vBlocksInFlight'[m] = vBlocksInFlight[m]
          /\ vBlocksInFlight[n] # <<>> => vBlocksInFlight'[n] # <<>>
          /\ nStallingSince' \subseteq
               nStallingSince \cup {m \in Peer : vBlocksInFlight[m] # <<>>}
      BY <1>7, SendGetDataExact DEF DownloadInv
    <2>2. NoQueueLeft' /\ StallInv'
      BY <1>1, <1>2, <2>1, QueueStep
    <2>3. QED
      BY <1>4, <1>5, <2>1, <2>2 DEF DownloadInv
  <1>8. UNCHANGED <<nStallingSince, flightVars>> \/ SendGetData(n, Room(n))
    BY Zenon DEF SendMessages
  <1>9. QED
    BY <1>6, <1>7, <1>8

LEMMA FinalizeKeeps ==
  ASSUME DownloadInv, NEW n \in Peer, FinalizeNode(n)
  PROVE  DownloadInv'
  <1>1. FlightInv'
    BY ForgottenExact DEF DownloadInv
  <1>2. /\ status[n] = "disconnect" /\ \A b \in Block : pindexLast # <<n, b>>
        /\ fSyncStarted' = fSyncStarted \ {n}
        /\ nSyncStarted' = IF n \in fSyncStarted THEN nSyncStarted - 1 ELSE nSyncStarted
        /\ fPreferredDownload' = fPreferredDownload \ {n}
        /\ nPreferredDownload' = IF n \in fPreferredDownload THEN nPreferredDownload - 1
                                 ELSE nPreferredDownload
        /\ mapNodeState' = mapNodeState \ {n}
        /\ vBlocksInFlight' = [vBlocksInFlight EXCEPT ![n] = <<>>]
        /\ nStallingSince' = nStallingSince \ {n}
        /\ status' = [status EXCEPT ![n] = IF n \in Prompt THEN "new" ELSE "gone"]
        /\ UNCHANGED pindexLast
    BY DEF FinalizeNode
  <1>3. /\ nSyncStarted' = Cardinality(fSyncStarted')
        /\ nPreferredDownload' = Cardinality(fPreferredDownload')
    <2>1. /\ IsFiniteSet(fSyncStarted) /\ nSyncStarted = Cardinality(fSyncStarted)
          /\ IsFiniteSet(fPreferredDownload)
          /\ nPreferredDownload = Cardinality(fPreferredDownload)
      BY FiniteCounts DEF DownloadInv, PeerInv
    <2>2. /\ Cardinality(fSyncStarted \ {n}) =
               IF n \in fSyncStarted THEN Cardinality(fSyncStarted) - 1
               ELSE Cardinality(fSyncStarted)
          /\ Cardinality(fPreferredDownload \ {n}) =
               IF n \in fPreferredDownload THEN Cardinality(fPreferredDownload) - 1
               ELSE Cardinality(fPreferredDownload)
      BY <2>1, FS_RemoveElement, Zenon
    <2>3. QED
      BY <1>2, <2>1, <2>2
  <1>4. PeerInv'
    BY <1>2, <1>3 DEF DownloadInv, PeerInv
  <1>5. /\ vBlocksInFlight'[n] = <<>>
        /\ \A m \in Peer \ {n} : vBlocksInFlight'[m] = vBlocksInFlight[m]
    BY <1>2 DEF DownloadInv, FlightInv, FlightTypes
  <1>6. NoQueueLeft' /\ StallInv'
    BY <1>2, <1>5 DEF DownloadInv, NoQueueLeft, StallInv, StallersOwe
  <1>7. HandlerInv'
    BY <1>2 DEF DownloadInv, HandlerInv, PeerInv
  <1>8. QED
    BY <1>1, <1>4, <1>6, <1>7 DEF DownloadInv

\* InitializeNode, the version message and fDisconnect.
LEMMA LifeKeeps ==
  ASSUME DownloadInv, NEW n \in Peer, InitializeNode(n) \/ Version(n) \/ Disconnect(n)
  PROVE  DownloadInv'
  <1>1. UNCHANGED <<nStallingSince, flightVars, fSyncStarted, nSyncStarted, pindexLast>>
    BY DEF InitializeNode, Version, Disconnect, syncVars
  <1>2. /\ mapNodeState \subseteq mapNodeState'
        /\ \/ /\ status[n] = "new" /\ status' = [status EXCEPT ![n] = "connected"]
              /\ mapNodeState' = mapNodeState \cup {n}
              /\ UNCHANGED <<fPreferredDownload, nPreferredDownload>>
           \/ /\ status[n] = "connected" /\ status' = [status EXCEPT ![n] = "up"]
              /\ UNCHANGED mapNodeState
              /\ fPreferredDownload' = fPreferredDownload \cup ({n} \cap Preferred)
              /\ nPreferredDownload' = IF n \in Preferred THEN nPreferredDownload + 1
                                       ELSE nPreferredDownload
           \/ /\ status[n] \in {"connected", "up"}
              /\ status' = [status EXCEPT ![n] = "disconnect"]
              /\ UNCHANGED <<mapNodeState, fPreferredDownload, nPreferredDownload>>
    BY DEF InitializeNode, Version, Disconnect
  <1>3. nPreferredDownload' = Cardinality(fPreferredDownload')
    <2>1. /\ IsFiniteSet(fPreferredDownload)
          /\ nPreferredDownload = Cardinality(fPreferredDownload)
      BY FiniteCounts DEF DownloadInv, PeerInv
    <2>2. status[n] = "connected" => n \notin fPreferredDownload
      BY DEF DownloadInv, PeerInv
    <2>3. n \notin fPreferredDownload =>
            Cardinality(fPreferredDownload \cup {n}) = Cardinality(fPreferredDownload) + 1
      BY <2>1, FS_AddElement
    <2>4. /\ n \in Preferred => {n} \cap Preferred = {n}
          /\ n \notin Preferred => fPreferredDownload \cup ({n} \cap Preferred) = fPreferredDownload
      OBVIOUS
    <2>5. QED
      BY <1>2, <2>1, <2>2, <2>3, <2>4
  <1>4. PeerInv'
    BY <1>1, <1>2, <1>3 DEF DownloadInv, PeerInv
  <1>5. NoQueueLeft' /\ StallInv'
    BY <1>1, <1>2, Zenon DEF DownloadInv, NoQueueLeft, StallInv, StallersOwe, flightVars
  <1>6. HandlerInv'
    BY <1>1, <1>2 DEF DownloadInv, HandlerInv, PeerInv
  <1>7. QED
    BY <1>1, <1>4, <1>5, <1>6, FlightUnchanged DEF DownloadInv

LEMMA HeadersKeeps ==
  ASSUME DownloadInv, NEW n \in Peer, NEW b \in Block, Headers(n, b)
  PROVE  DownloadInv'
  <1>1. status[n] = "up"
    BY UpPeer DEF Headers
  <1>2. /\ UNCHANGED <<nStallingSince, flightVars, peerVars, fSyncStarted, nSyncStarted>>
        /\ pindexLast' = <<n, b>>
    BY DEF Headers, syncVars
  <1>3. PeerInv' /\ NoQueueLeft' /\ StallInv'
    BY <1>2 DEF DownloadInv, PeerInv, NoQueueLeft, StallInv, StallersOwe, flightVars, peerVars
  <1>4. HandlerInv'
    BY <1>1, <1>2 DEF HandlerInv, peerVars
  <1>5. QED
    BY <1>2, <1>3, <1>4, FlightUnchanged DEF DownloadInv

LEMMA LandedKeeps ==
  ASSUME DownloadInv, NEW b \in Block, BlockLanded(b)
  PROVE  DownloadInv'
  <1>1. MarkBlockAsReceived(b) /\ UNCHANGED <<peerVars, fSyncStarted, nSyncStarted, pindexLast>>
    BY DEF BlockLanded, syncVars
  <1>2. CASE mapBlocksInFlight[b] = NULL
    BY <1>1, <1>2, QuietStep DEF MarkBlockAsReceived
  <1>3. CASE mapBlocksInFlight[b] # NULL
    <2>1. PICK n \in Peer : n = mapBlocksInFlight[b]
      BY <1>3 DEF DownloadInv, FlightInv, FlightTypes
    <2>2. /\ FlightInv' /\ nStallingSince' = nStallingSince \ {n}
          /\ \A m \in Peer \ {n} : vBlocksInFlight'[m] = vBlocksInFlight[m]
      BY <1>1, <1>3, <2>1, ReceivedExact DEF DownloadInv
    <2>3. n \in mapNodeState
      <3>1. b \in Elements(vBlocksInFlight[n])
        BY <2>1 DEF DownloadInv, FlightInv, MapExact
      <3>2. vBlocksInFlight[n] # <<>>
        BY <3>1, EmptyIsSeq
      <3>3. QED
        BY <3>2 DEF DownloadInv, NoQueueLeft
    <2>4. PeerInv' /\ HandlerInv'
      BY <1>1 DEF DownloadInv, PeerInv, HandlerInv, peerVars
    <2>5. NoQueueLeft' /\ StallInv'
      BY <1>1, <2>2, <2>3 DEF DownloadInv, NoQueueLeft, StallInv, StallersOwe, peerVars
    <2>6. QED
      BY <2>2, <2>4, <2>5 DEF DownloadInv
  <1>4. QED
    BY <1>2, <1>3

LEMMA OtherMessagesKeep ==
  ASSUME DownloadInv, NEW n \in Peer, NEW b \in Block,
         HeadersRejected(n, b) \/ BlockMessage(n, b) \/ ThinBlockFails(n, b)
  PROVE  DownloadInv'
  <1>1. UNCHANGED <<nStallingSince, flightVars, peerVars, fSyncStarted, nSyncStarted, pindexLast>>
    BY DEF HeadersRejected, BlockMessage, ThinBlockFails, syncVars
  <1>2. QED
    BY <1>1, QuietStep

LEMMA DownloadInvInitially ==
  ASSUME DownloadInit
  PROVE  DownloadInv
  <1>1. /\ mapBlocksInFlight = [b \in Block |-> NULL]
        /\ vBlocksInFlight = [n \in Peer |-> <<>>] /\ fValidatedHeaders = {}
        /\ nBlocksInFlight = [n \in Peer |-> 0]
        /\ nBlocksInFlightValidHeaders = [n \in Peer |-> 0]
        /\ nPeersWithValidatedDownloads = 0 /\ nStallingSince = {}
    BY Zenon DEF DownloadInit
  <1>2. Elements(<<>>) = {} /\ Distinct(<<>>) /\ Len(<<>>) = 0 /\ <<>> \in Seq(Block)
    BY EmptyIsSeq DEF Distinct
  <1>3. FlightTypes
    BY <1>1, <1>2 DEF FlightTypes
  <1>4. MapExact
    BY <1>1, <1>2, DownloadAssumption DEF MapExact
  <1>5. \A n \in Peer : QueueExact(n)
    <2>1. Elements(<<>>) \cap fValidatedHeaders = {}
      BY <1>2
    <2>2. Cardinality(Elements(<<>>) \cap fValidatedHeaders) = 0
      BY <2>1, FS_EmptySet
    <2>3. QED
      BY <1>1, <1>2, <2>2 DEF QueueExact
  <1>6. nPeersWithValidatedDownloads = Cardinality(Downloading)
    <2>1. Downloading = {}
      BY <1>1 DEF Downloading
    <2>2. QED
      BY <1>1, <2>1, FS_EmptySet
  <1>7. PeerInv
    BY DownloadAssumption DEF DownloadInit, PeerInv
  <1>8. NoQueueLeft /\ HandlerInv /\ StallInv
    BY DEF DownloadInit, NoQueueLeft, HandlerInv, StallInv, StallersOwe
  <1>9. QED
    BY <1>3, <1>4, <1>5, <1>6, <1>7, <1>8 DEF DownloadInv, FlightInv

LEMMA DownloadInvInductive ==
  ASSUME DownloadInv, [DownloadNext]_downloadVars
  PROVE  DownloadInv'
  <1>1. ASSUME NEW n \in Peer, PeerNext(n) PROVE DownloadInv'
    <2>1. CASE InitializeNode(n) \/ Version(n) \/ Disconnect(n)
      BY <2>1, LifeKeeps
    <2>2. CASE FinalizeNode(n)
      BY <2>2, FinalizeKeeps
    <2>3. CASE \E late \in BOOLEAN : SendMessages(n, late)
      BY <2>3, SendMessagesKeeps
    <2>4. ASSUME NEW b \in Block,
                 \/ Inv(n, b) \/ Headers(n, b) \/ HeadersRejected(n, b)
                 \/ BlockMessage(n, b) \/ ThinBlockFails(n, b)
          PROVE  DownloadInv'
      BY <2>4, InvKeeps, HeadersKeeps, OtherMessagesKeep
    <2>5. QED
      BY <1>1, <2>1, <2>2, <2>3, <2>4 DEF PeerNext
  <1>2. ASSUME NEW b \in Block, BlockAccepted(b) \/ BlockTooFarAhead(b) \/ BlockRejected(b)
        PROVE  DownloadInv'
    <2>1. UNCHANGED <<nStallingSince, flightVars, peerVars, fSyncStarted, nSyncStarted, pindexLast>>
      BY <1>2, Zenon DEF BlockAccepted, BlockTooFarAhead, BlockRejected, syncVars
    <2>2. QED
      BY <2>1, QuietStep
  <1>3. ASSUME NEW b \in Block, BlockLanded(b) PROVE DownloadInv'
    BY <1>3, LandedKeeps
  <1>4. CASE processNewBlock
    <2>1. UNCHANGED <<nStallingSince, flightVars, peerVars, fSyncStarted, nSyncStarted, pindexLast>>
      BY <1>4 DEF processNewBlock, syncVars
    <2>2. QED
      BY <2>1, QuietStep
  <1>5. CASE UNCHANGED downloadVars
    <2>1. UNCHANGED <<nStallingSince, flightVars, peerVars, fSyncStarted, nSyncStarted, pindexLast>>
      BY <1>5 DEF downloadVars, syncVars
    <2>2. QED
      BY <2>1, QuietStep
  <1>6. QED
    BY <1>1, <1>2, <1>3, <1>4, <1>5, HeadersFetchKeeps DEF DownloadNext

\* mapBlocksInFlight, the queues of the peers and the five counters always agree, for
\* any peers, tree of blocks and limits: MarkBlockAsInFlight, MarkBlockAsReceived and
\* FinalizeNode leave nothing behind in whatever order the threads call them.
THEOREM BooksAreExact == DownloadSpec => []InFlightExact
  <1>1. DownloadInit => DownloadInv
    BY DownloadInvInitially
  <1>2. DownloadInv /\ [DownloadNext]_downloadVars => DownloadInv'
    BY DownloadInvInductive
  <1>3. DownloadInv => InFlightExact
    BY DEF DownloadInv, FlightInv, PeerInv, NoQueueLeft, MapExact, QueueExact, Distinct,
           Downloading, InFlightExact
  <1>4. QED
    BY <1>1, <1>2, <1>3, PTL DEF DownloadSpec

\* The stall timer runs only for a peer that has a block in flight: SendMessages never
\* disconnects a peer for stalling that has delivered all it was asked for.
THEOREM OnlyOwersStall == DownloadSpec => []StallersOwe
  <1>1. DownloadInit => DownloadInv
    BY DownloadInvInitially
  <1>2. DownloadInv /\ [DownloadNext]_downloadVars => DownloadInv'
    BY DownloadInvInductive
  <1>3. DownloadInv => StallersOwe
    BY DEF DownloadInv, StallInv
  <1>4. QED
    BY <1>1, <1>2, <1>3, PTL DEF DownloadSpec

-----------------------------------------------------------------------------
(* The limit on the blocks in flight from a peer.                          *)

RoomInv == \A n \in Peer : nBlocksInFlight[n] <= MAX_BLOCKS_IN_TRANSIT_PER_PEER

LEMMA MarkedRoom ==
  ASSUME FlightTypes, RoomInv, NEW n \in Peer, NEW S \in SUBSET Block,
         Cardinality(S) <= Room(n), NEW q \in Ascending(S), NEW fValidated,
         MarkBlocksAsInFlight(n, q, fValidated)
  PROVE  RoomInv'
  <1>1. Len(q) = Cardinality(S) /\ Cardinality(S) \in Nat
    BY AscendingFacts, BelowFinite
  <1>2. nBlocksInFlight' = [nBlocksInFlight EXCEPT ![n] = @ + Len(q)]
    BY DEF MarkBlocksAsInFlight
  <1>3. nBlocksInFlight \in [Peer -> Nat] /\ MAX_BLOCKS_IN_TRANSIT_PER_PEER \in Nat
    BY DownloadAssumption DEF FlightTypes
  <1>4. nBlocksInFlight[n] + Len(q) <= MAX_BLOCKS_IN_TRANSIT_PER_PEER
    BY <1>1, <1>3 DEF Room
  <1>5. QED
    BY <1>2, <1>3, <1>4 DEF RoomInv

LEMMA RequestRoom ==
  ASSUME FlightTypes, RoomInv, NEW n \in Peer, NEW S \in SUBSET Block,
         Cardinality(S) <= Room(n), NEW fValidated, RequestBlocks(n, S, fValidated)
  PROVE  RoomInv'
  <1>1. PICK early \in Early(S) :
          \E q \in Ascending((S \ early) \cup AsThin(n, S)) :
            MarkBlocksAsInFlight(n, q, fValidated)
    BY Zenon DEF RequestBlocks
  <1> DEFINE asked == (S \ early) \cup AsThin(n, S)
  <1>2. asked \subseteq S
    BY DEF AsThin
  <1>3. PICK q \in Ascending(asked) : MarkBlocksAsInFlight(n, q, fValidated)
    BY <1>1
  <1> HIDE DEF asked
  <1>4. Cardinality(asked) <= Room(n)
    <2>1. IsFiniteSet(S) /\ Cardinality(S) \in Nat
      BY BelowFinite
    <2>2. Cardinality(asked) <= Cardinality(S) /\ Cardinality(asked) \in Nat
      BY <1>2, <2>1, FS_Subset, FS_CardinalityType
    <2>3. Room(n) \in Int
      BY DownloadAssumption DEF Room, FlightTypes
    <2>4. QED
      BY <2>1, <2>2, <2>3
  <1>5. QED
    BY <1>2, <1>3, <1>4, MarkedRoom

\* The headers handler asks for no more than there is room for.
LEMMA HeadersFetchRoom ==
  ASSUME FlightTypes, RoomInv, HeadersFetch
  PROVE  RoomInv'
  <1> DEFINE missing(last) == {b \in {ancestor[last][h] : h \in 0 .. nHeight[last]}
                                       \ {b \in Block : InActiveChain(b)} : Missing(b)}
             above(last, b) == {c \in missing(last) : nHeight[c] > nHeight[b]}
             first(n, last) == {b \in missing(last) :
                                  Cardinality(missing(last) \ above(last, b)) <= Room(n)}
  <1>1. PICK n \in Peer, last \in Block :
          \/ \E q \in Ascending(first(n, last)) : MarkBlocksAsInFlight(n, q, TRUE)
          \/ UNCHANGED flightVars
    BY Zenon DEF HeadersFetch
  <1>2. CASE UNCHANGED flightVars
    BY <1>2 DEF RoomInv, flightVars
  <1>3. CASE \E q \in Ascending(first(n, last)) : MarkBlocksAsInFlight(n, q, TRUE)
    <2>1. missing(last) \in SUBSET Block
      <3>1. \A h \in 0 .. nHeight[last] : ancestor[last][h] \in Block
        BY TreeAssumption
      <3>2. QED
        BY <3>1
    <2>2. first(n, last) \in SUBSET Block
      BY <2>1
    <2>3. Cardinality(first(n, last)) <= Room(n)
      <3>1. CASE first(n, last) = {}
        <4>1. Cardinality(first(n, last)) = 0
          BY <3>1, FS_EmptySet, Zenon
        <4>2. 0 <= Room(n)
          BY DownloadAssumption DEF Room, RoomInv, FlightTypes
        <4>3. QED
          BY <4>1, <4>2
      <3>2. CASE first(n, last) # {}
        <4>1. \A b \in first(n, last) :
                b \in missing(last) /\ Cardinality(missing(last) \ above(last, b)) <= Room(n)
          OBVIOUS
        <4>2. \A b \in Block, c \in missing(last) :
                nHeight[c] <= nHeight[b] => c \notin above(last, b)
          <5>1. \A b \in Block, c \in missing(last) : nHeight[b] \in Nat /\ nHeight[c] \in Nat
            BY <2>1, TreeAssumption
          <5> HIDE DEF missing
          <5>2. QED
            BY <5>1
        <4>3. \A b \in Block : missing(last) \ above(last, b) \in SUBSET Block
          BY <2>1
        <4> HIDE DEF missing, above, first
        <4>4. PICK b \in first(n, last) : \A c \in first(n, last) : nHeight[c] <= nHeight[b]
          BY <2>2, <3>2, HighestOf
        <4>5. b \in Block /\ Cardinality(missing(last) \ above(last, b)) <= Room(n)
          BY <2>2, <4>1
        <4>6. first(n, last) \subseteq missing(last) \ above(last, b)
          BY <4>1, <4>2, <4>4, <4>5, Zenon
        <4>7. /\ IsFiniteSet(missing(last) \ above(last, b))
              /\ Cardinality(missing(last) \ above(last, b)) \in Nat
          BY <4>3, <4>5, BelowFinite
        <4>8. /\ Cardinality(first(n, last)) <= Cardinality(missing(last) \ above(last, b))
              /\ Cardinality(first(n, last)) \in Nat
          BY <4>6, <4>7, FS_Subset, FS_CardinalityType
        <4>9. Room(n) \in Int
          BY DownloadAssumption DEF Room, FlightTypes
        <4>10. QED
          BY <4>5, <4>7, <4>8, <4>9
      <3>3. QED
        BY <3>1, <3>2
    <2> HIDE DEF first
    <2>4. PICK q \in Ascending(first(n, last)) : MarkBlocksAsInFlight(n, q, TRUE)
      BY <1>3, Zenon
    <2>5. QED
      BY <2>2, <2>3, <2>4, MarkedRoom, Zenon
  <1>4. QED
    BY <1>1, <1>2, <1>3, Zenon

LEMMA SendMessagesRoom ==
  ASSUME FlightTypes, RoomInv, NEW n \in Peer, NEW late, SendMessages(n, late)
  PROVE  RoomInv'
  <1>1. CASE UNCHANGED flightVars
    BY <1>1 DEF RoomInv, flightVars
  <1>2. CASE ~UNCHANGED flightVars
    <2>1. nBlocksInFlight[n] < MAX_BLOCKS_IN_TRANSIT_PER_PEER /\ SendGetData(n, Room(n))
      BY <1>2, Zenon DEF SendMessages
    <2>2. Room(n) \in Nat \ {0}
      BY <2>1, DownloadAssumption DEF Room, FlightTypes
    <2>3. \E best : \E from \in {WalkFrom(n, best)} : \E toFetch \in {vToFetch(best, from)} :
          \E ends \in {WalkEnds(toFetch, from, Room(n))} :
          \E found \in {Walk(n, from, toFetch, ends)} : RequestBlocks(n, found.vBlocks, TRUE)
      BY <1>2, <2>1, Zenon DEF SendGetData
    <2>4. PICK best, from, toFetch :
            /\ toFetch = vToFetch(best, from)
            /\ RequestBlocks(n, Walk(n, from, toFetch, WalkEnds(toFetch, from, Room(n))).vBlocks, TRUE)
      BY <2>3, Zenon
    <2> DEFINE vBlocks == Walk(n, from, toFetch, WalkEnds(toFetch, from, Room(n))).vBlocks
    <2>5. Cardinality(vBlocks) <= Room(n)
      BY <2>2, <2>4, WalkBounded
    <2>6. vBlocks \in SUBSET Block
      BY <2>4, Zenon DEF Walk, vToFetch
    <2>7. RequestBlocks(n, vBlocks, TRUE)
      BY <2>4, Zenon
    <2> HIDE DEF vBlocks
    <2>8. QED
      BY <2>5, <2>6, <2>7, RequestRoom, Zenon
  <1>3. QED
    BY <1>1, <1>2

LEMMA InvRoom ==
  ASSUME FlightTypes, RoomInv, NEW n \in Peer, NEW b \in Block, Inv(n, b)
  PROVE  RoomInv'
  <1>1. CASE UNCHANGED flightVars
    BY <1>1 DEF RoomInv, flightVars
  <1>2. CASE ~UNCHANGED flightVars
    <2>1. /\ nBlocksInFlight[n] < MAX_BLOCKS_IN_TRANSIT_PER_PEER
          /\ RequestBlocks(n, {b}, FALSE)
      BY <1>2, Zenon DEF Inv
    <2>2. Cardinality({b}) <= Room(n)
      <3>1. Cardinality({b}) = 1
        BY FS_Singleton
      <3>2. QED
        BY <2>1, <3>1, DownloadAssumption DEF Room, FlightTypes
    <2>3. QED
      BY <2>1, <2>2, RequestRoom, Zenon
  <1>3. QED
    BY <1>1, <1>2

LEMMA RoomInductive ==
  ASSUME FlightTypes, RoomInv, [DownloadNext]_downloadVars
  PROVE  RoomInv'
  <1>1. ASSUME UNCHANGED flightVars PROVE RoomInv'
    BY <1>1 DEF RoomInv, flightVars
  <1>2. ASSUME NEW n \in Peer, PeerNext(n) PROVE RoomInv'
    <2>1. CASE InitializeNode(n) \/ Version(n) \/ Disconnect(n)
      BY <1>1, <2>1 DEF InitializeNode, Version, Disconnect
    <2>2. CASE FinalizeNode(n)
      <3>1. nBlocksInFlight' = [nBlocksInFlight EXCEPT ![n] = 0]
        BY <2>2 DEF FinalizeNode
      <3>2. QED
        BY <3>1, DownloadAssumption DEF RoomInv, FlightTypes
    <2>3. CASE \E late \in BOOLEAN : SendMessages(n, late)
      BY <2>3, SendMessagesRoom
    <2>4. ASSUME NEW b \in Block, Inv(n, b) PROVE RoomInv'
      BY <2>4, InvRoom
    <2>5. ASSUME NEW b \in Block, \/ Headers(n, b) \/ HeadersRejected(n, b)
                                  \/ BlockMessage(n, b) \/ ThinBlockFails(n, b)
          PROVE  RoomInv'
      BY <1>1, <2>5, Zenon DEF Headers, HeadersRejected, BlockMessage, ThinBlockFails
    <2>6. QED
      BY <1>2, <2>1, <2>2, <2>3, <2>4, <2>5 DEF PeerNext
  <1>3. ASSUME NEW b \in Block, BlockAccepted(b) \/ BlockTooFarAhead(b) \/ BlockRejected(b)
        PROVE  RoomInv'
    BY <1>1, <1>3, Zenon DEF BlockAccepted, BlockTooFarAhead, BlockRejected
  <1>4. ASSUME NEW b \in Block, BlockLanded(b) PROVE RoomInv'
    <2>1. MarkBlockAsReceived(b)
      BY <1>4 DEF BlockLanded
    <2>2. CASE mapBlocksInFlight[b] = NULL
      BY <1>1, <2>1, <2>2 DEF MarkBlockAsReceived
    <2>3. CASE mapBlocksInFlight[b] # NULL
      <3>1. PICK n \in Peer : nBlocksInFlight' = [nBlocksInFlight EXCEPT ![n] = @ - 1]
        BY <2>1, <2>3 DEF MarkBlockAsReceived, FlightTypes
      <3>2. QED
        BY <3>1, DownloadAssumption DEF RoomInv, FlightTypes
    <2>4. QED
      BY <2>2, <2>3
  <1>5. CASE processNewBlock \/ UNCHANGED downloadVars
    BY <1>1, <1>5 DEF processNewBlock, downloadVars
  <1>6. QED
    BY <1>2, <1>3, <1>4, <1>5, HeadersFetchRoom DEF DownloadNext

\* No peer is ever asked for more than MAX_BLOCKS_IN_TRANSIT_PER_PEER blocks at a time,
\* whatever the limit, the window and the tree: an inv, the direct fetch of the headers
\* handler and FindNextBlocksToDownload each count what the others have asked for.
THEOREM TransitAlwaysBounded == DownloadSpec => []InTransitBounded
  <1>1. DownloadInit => DownloadInv /\ RoomInv
    <2>1. ASSUME DownloadInit PROVE RoomInv
      <3>1. nBlocksInFlight = [n \in Peer |-> 0]
        BY <2>1, Zenon DEF DownloadInit
      <3>2. QED
        BY <3>1, DownloadAssumption DEF RoomInv
    <2>2. QED
      BY <2>1, DownloadInvInitially
  <1>2. DownloadInv /\ RoomInv /\ [DownloadNext]_downloadVars => (DownloadInv /\ RoomInv)'
    <2>1. DownloadInv => FlightTypes
      BY DEF DownloadInv, FlightInv
    <2>2. QED
      BY <2>1, DownloadInvInductive, RoomInductive
  <1>3. DownloadInv /\ RoomInv => InTransitBounded
    BY Zenon DEF DownloadInv, FlightInv, QueueExact, RoomInv, InTransitBounded
  <1>4. QED
    BY <1>1, <1>2, <1>3, PTL DEF DownloadSpec
=============================================================================
