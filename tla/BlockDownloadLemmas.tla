------------------------ MODULE BlockDownloadLemmas ------------------------
(***************************************************************************)
(* What the functions of main.cpp that keep the books of the blocks in     *)
(* flight do to them, and how many blocks they ask for: for every set of   *)
(* peers, every tree of blocks and every value of the limits.              *)
(***************************************************************************)
EXTENDS BlockDownload, FiniteSetTheorems, TLAPS

(* Elementary facts about sequences. *)

LEMMA SeqOf ==
  ASSUME NEW S, NEW s \in Seq(S)
  PROVE  /\ Len(s) \in Nat /\ s \in [1 .. Len(s) -> S] /\ DOMAIN s = 1 .. Len(s)
         /\ \A i \in 1 .. Len(s) : s[i] \in S
         /\ s # <<>> => Len(s) \in Nat \ {0}
  OBVIOUS

LEMMA EmptyIsSeq == Len(<<>>) = 0 /\ Elements(<<>>) = {} /\ \A S : <<>> \in Seq(S)
  BY DEF Elements

LEMMA FunctionIsSeq ==
  ASSUME NEW S, NEW n \in Nat, NEW f \in [1 .. n -> S]
  PROVE  f \in Seq(S) /\ Len(f) = n
  OBVIOUS

LEMMA ConcatOf ==
  ASSUME NEW S, NEW s \in Seq(S), NEW t \in Seq(S)
  PROVE  /\ s \o t \in Seq(S) /\ Len(s \o t) = Len(s) + Len(t)
         /\ \A i \in 1 .. Len(s) + Len(t) :
              (s \o t)[i] = IF i <= Len(s) THEN s[i] ELSE t[i - Len(s)]
  OBVIOUS

-----------------------------------------------------------------------------
(* What MarkBlockAsInFlight, MarkBlockAsReceived and FinalizeNode do to    *)
(* the books of the blocks in flight: each keeps them exact.               *)

Distinct(s) == \A i, k \in 1 .. Len(s) : s[i] = s[k] => i = k

\* A queue without duplicates has as many blocks as it is long.
LEMMA DistinctCardinality ==
  ASSUME NEW s \in Seq(Block), Distinct(s)
  PROVE  IsFiniteSet(Elements(s)) /\ Cardinality(Elements(s)) = Len(s)
  <1>1. Len(s) \in Nat /\ s \in [1 .. Len(s) -> Block]
    BY SeqOf
  <1>2. s \in [1 .. Len(s) -> Elements(s)]
    BY <1>1 DEF Elements
  <1>3. \A t \in Elements(s) : \E i \in 1 .. Len(s) : s[i] = t
    BY DEF Elements
  <1>4. \A i, k \in 1 .. Len(s) : s[i] = s[k] => i = k
    BY DEF Distinct
  <1>5. s \in Bijection(1 .. Len(s), Elements(s))
    BY <1>2, <1>3, <1>4 DEF Bijection, Injection, Surjection, IsInjective
  <1>6. ExistsBijection(1 .. Len(s), Elements(s))
    BY <1>5 DEF ExistsBijection
  <1>7. IsFiniteSet(1 .. Len(s)) /\ Cardinality(1 .. Len(s)) = Len(s)
    <2>1. 1 \in Int /\ Len(s) \in Int
      BY <1>1
    <2>2. IsFiniteSet(1 .. Len(s)) /\ Cardinality(1 .. Len(s)) = IF 1 > Len(s) THEN 0 ELSE Len(s) - 1 + 1
      BY <2>1, FS_Interval
    <2>3. QED
      BY <1>1, <2>2
  <1>8. QED
    BY <1>6, <1>7, FS_Bijection

\* What a loop of MarkBlockAsInFlight appends to a queue.
LEMMA ConcatFacts ==
  ASSUME NEW s \in Seq(Block), NEW q \in Seq(Block), Distinct(s), Distinct(q),
         Elements(s) \cap Elements(q) = {}
  PROVE  /\ s \o q \in Seq(Block) /\ Len(s \o q) = Len(s) + Len(q)
         /\ Elements(s \o q) = Elements(s) \cup Elements(q)
         /\ Distinct(s \o q)
  <1>1. /\ s \o q \in Seq(Block) /\ Len(s \o q) = Len(s) + Len(q)
        /\ \A i \in 1 .. Len(s) + Len(q) :
             (s \o q)[i] = IF i <= Len(s) THEN s[i] ELSE q[i - Len(s)]
        /\ Len(s) \in Nat /\ Len(q) \in Nat
    BY ConcatOf, SeqOf
  <1>2. ASSUME NEW i \in 1 .. Len(s)
        PROVE  i \in 1 .. Len(s \o q) /\ (s \o q)[i] = s[i] /\ s[i] \in Elements(s)
    BY <1>1 DEF Elements
  <1>3. ASSUME NEW i \in 1 .. Len(q)
        PROVE  /\ i + Len(s) \in 1 .. Len(s \o q) /\ (s \o q)[i + Len(s)] = q[i]
               /\ q[i] \in Elements(q)
    <2>1. i + Len(s) \in 1 .. Len(s) + Len(q) /\ ~(i + Len(s) <= Len(s)) /\ i + Len(s) - Len(s) = i
      BY <1>1
    <2>2. QED
      BY <1>1, <2>1 DEF Elements
  <1>4. ASSUME NEW i \in 1 .. Len(s \o q)
        PROVE  \/ i \in 1 .. Len(s) /\ (s \o q)[i] = s[i] /\ s[i] \in Elements(s)
               \/ /\ i - Len(s) \in 1 .. Len(q) /\ (s \o q)[i] = q[i - Len(s)]
                  /\ q[i - Len(s)] \in Elements(q)
    BY <1>1 DEF Elements
  <1>5. Elements(s \o q) = Elements(s) \cup Elements(q)
    <2>1. ASSUME NEW x \in Elements(s \o q) PROVE x \in Elements(s) \cup Elements(q)
      BY <1>4, <2>1 DEF Elements
    <2>2. ASSUME NEW x \in Elements(s) PROVE x \in Elements(s \o q)
      <3>1. PICK i \in 1 .. Len(s) : x = s[i]
        BY <2>2 DEF Elements
      <3>2. QED
        BY <3>1, <1>2 DEF Elements
    <2>3. ASSUME NEW x \in Elements(q) PROVE x \in Elements(s \o q)
      <3>1. PICK i \in 1 .. Len(q) : x = q[i]
        BY <2>3 DEF Elements
      <3>2. QED
        BY <3>1, <1>3, Zenon DEF Elements
    <2>4. QED
      BY <2>1, <2>2, <2>3
  <1>6. Distinct(s \o q)
    <2>1. SUFFICES ASSUME NEW i \in 1 .. Len(s \o q), NEW k \in 1 .. Len(s \o q),
                          (s \o q)[i] = (s \o q)[k]
                   PROVE  i = k
      BY DEF Distinct
    <2>2. CASE i \in 1 .. Len(s) /\ k \in 1 .. Len(s)
      BY <2>1, <2>2, <1>2 DEF Distinct
    <2>3. CASE i - Len(s) \in 1 .. Len(q) /\ k - Len(s) \in 1 .. Len(q)
      <3>1. q[i - Len(s)] = q[k - Len(s)]
        BY <2>1, <2>3, <1>1
      <3>2. i - Len(s) = k - Len(s)
        BY <3>1, <2>3 DEF Distinct
      <3>3. QED
        BY <3>2, <1>1
    <2>4. QED
      BY <1>4, <2>1, <2>2, <2>3
  <1>7. QED
    BY <1>1, <1>5, <1>6

\* What MarkBlockAsReceived leaves of a queue.
LEMMA EraseFacts ==
  ASSUME NEW s \in Seq(Block), Distinct(s), NEW i \in 1 .. Len(s)
  PROVE  /\ Erase(s, i) \in Seq(Block) /\ Len(Erase(s, i)) = Len(s) - 1
         /\ Elements(Erase(s, i)) = Elements(s) \ {s[i]}
         /\ Distinct(Erase(s, i))
  <1> DEFINE e == Erase(s, i)
  <1>1. Len(s) \in Nat /\ s \in [1 .. Len(s) -> Block] /\ Len(s) - 1 \in Nat
    BY SeqOf
  <1>2. e \in [1 .. Len(s) - 1 -> Block]
    BY <1>1 DEF Erase
  <1>4. \A k \in 1 .. Len(s) - 1 : e[k] = IF k < i THEN s[k] ELSE s[k + 1]
    BY DEF Erase
  <1> HIDE DEF e
  <1>3. e \in Seq(Block) /\ Len(e) = Len(s) - 1
    <2>1. \A m \in Nat : e \in [1 .. m -> Block] => e \in Seq(Block) /\ Len(e) = m
      BY FunctionIsSeq, SeqOf
    <2>2. QED
      BY <1>1, <1>2, <2>1, Zenon
  <1>5. ASSUME NEW x \in Elements(e) PROVE x \in Elements(s) \ {s[i]}
    <2>1. PICK k \in 1 .. Len(s) - 1 : x = e[k]
      BY <1>3, <1>5 DEF Elements
    <2>2. CASE k < i
      BY <1>1, <1>4, <2>1, <2>2 DEF Elements, Distinct
    <2>3. CASE ~(k < i)
      <3>1. k + 1 \in 1 .. Len(s) /\ k + 1 # i
        BY <1>1, <2>3
      <3>2. QED
        BY <1>4, <2>1, <2>3, <3>1 DEF Elements, Distinct
    <2>4. QED
      BY <2>2, <2>3
  <1>6. ASSUME NEW x \in Elements(s), x # s[i] PROVE x \in Elements(e)
    <2>1. PICK k \in 1 .. Len(s) : x = s[k]
      BY <1>6 DEF Elements
    <2>2. CASE k < i
      <3>1. k \in 1 .. Len(e) /\ e[k] = x
        BY <1>1, <1>3, <1>4, <2>1, <2>2
      <3>2. QED
        BY <3>1 DEF Elements
    <2>3. CASE k > i
      <3>1. k - 1 \in 1 .. Len(e) /\ ~(k - 1 < i) /\ k - 1 + 1 = k
        BY <1>1, <1>3, <2>3
      <3>2. e[k - 1] = x
        BY <1>3, <1>4, <2>1, <3>1
      <3>3. QED
        BY <3>1, <3>2 DEF Elements
    <2>4. QED
      BY <1>6, <2>1, <2>2, <2>3
  <1>7. Distinct(e)
    <2>1. SUFFICES ASSUME NEW j \in 1 .. Len(s) - 1, NEW k \in 1 .. Len(s) - 1, e[j] = e[k]
                   PROVE  j = k
      BY <1>3 DEF Distinct
    <2>2. /\ j \in 1 .. Len(s) /\ j + 1 \in 1 .. Len(s)
          /\ k \in 1 .. Len(s) /\ k + 1 \in 1 .. Len(s)
      BY <1>1
    <2>3. \A a, b \in 1 .. Len(s) : s[a] = s[b] => a = b
      BY DEF Distinct
    <2>4. CASE j < i /\ k < i
      BY <1>4, <2>1, <2>2, <2>3, <2>4
    <2>5. CASE j < i /\ ~(k < i)
      <3>1. s[j] = s[k + 1]
        BY <1>4, <2>1, <2>5, Zenon
      <3>2. QED
        BY <2>2, <2>3, <2>5, <3>1
    <2>6. CASE ~(j < i) /\ k < i
      <3>1. s[j + 1] = s[k]
        BY <1>4, <2>1, <2>6
      <3>2. QED
        BY <2>2, <2>3, <2>6, <3>1
    <2>7. CASE ~(j < i) /\ ~(k < i)
      <3>1. s[j + 1] = s[k + 1]
        BY <1>4, <2>1, <2>7
      <3>2. j + 1 = k + 1
        BY <2>2, <2>3, <3>1
      <3>3. QED
        BY <3>2
    <2>8. QED
      BY <2>4, <2>5, <2>6, <2>7
  <1>8. QED
    BY <1>3, <1>5, <1>6, <1>7 DEF e

-----------------------------------------------------------------------------

FlightTypes ==
  /\ mapBlocksInFlight \in [Block -> Peer \cup {NULL}]
  /\ vBlocksInFlight \in [Peer -> Seq(Block)]
  /\ fValidatedHeaders \subseteq Block
  /\ nBlocksInFlight \in [Peer -> Nat]
  /\ nBlocksInFlightValidHeaders \in [Peer -> Nat]

\* The map and the queues agree; a validated block is in a queue.
MapExact ==
  /\ \A b \in Block, n \in Peer :
       mapBlocksInFlight[b] = n <=> b \in Elements(vBlocksInFlight[n])
  /\ \A b \in fValidatedHeaders : mapBlocksInFlight[b] # NULL

QueueExact(n) ==
  /\ Distinct(vBlocksInFlight[n])
  /\ nBlocksInFlight[n] = Len(vBlocksInFlight[n])
  /\ nBlocksInFlightValidHeaders[n] =
       Cardinality(Elements(vBlocksInFlight[n]) \cap fValidatedHeaders)

Downloading == {n \in Peer : nBlocksInFlightValidHeaders[n] # 0}

FlightInv ==
  /\ FlightTypes /\ MapExact
  /\ \A n \in Peer : QueueExact(n)
  /\ nPeersWithValidatedDownloads = Cardinality(Downloading)

\* The number of peers with validated downloads follows when the count of one peer
\* changes.
LEMMA DownloadingCount ==
  ASSUME FlightTypes, FlightTypes', NEW n \in Peer,
         \A m \in Peer \ {n} :
           nBlocksInFlightValidHeaders'[m] = nBlocksInFlightValidHeaders[m]
  PROVE  Cardinality(Downloading') =
           Cardinality(Downloading)
             + (IF nBlocksInFlightValidHeaders'[n] # 0 THEN 1 ELSE 0)
             - (IF nBlocksInFlightValidHeaders[n] # 0 THEN 1 ELSE 0)
  <1>1. IsFiniteSet(Downloading) /\ Cardinality(Downloading) \in Nat
    BY FS_Subset, FS_CardinalityType, DownloadAssumption DEF Downloading
  <1>2. CASE nBlocksInFlightValidHeaders'[n] # 0
    <2>1. Downloading' = Downloading \cup {n}
      BY <1>2 DEF Downloading
    <2>2. Cardinality(Downloading') = IF n \in Downloading THEN Cardinality(Downloading)
                                      ELSE Cardinality(Downloading) + 1
      BY <1>1, <2>1, FS_AddElement, Zenon
    <2>3. n \in Downloading <=> nBlocksInFlightValidHeaders[n] # 0
      BY DEF Downloading
    <2>4. QED
      BY <1>1, <1>2, <2>2, <2>3
  <1>3. CASE nBlocksInFlightValidHeaders'[n] = 0
    <2>1. Downloading' = Downloading \ {n}
      BY <1>3 DEF Downloading
    <2>2. Cardinality(Downloading') = IF n \in Downloading THEN Cardinality(Downloading) - 1
                                      ELSE Cardinality(Downloading)
      BY <1>1, <2>1, FS_RemoveElement, Zenon
    <2>3. n \in Downloading <=> nBlocksInFlightValidHeaders[n] # 0
      BY DEF Downloading
    <2>4. QED
      BY <1>1, <1>3, <2>2, <2>3
  <1>4. QED
    BY <1>2, <1>3

\* The queue of one peer does not touch the books of another.
LEMMA OtherQueues ==
  ASSUME FlightTypes, MapExact, NEW n \in Peer, NEW m \in Peer \ {n}, QueueExact(m),
         vBlocksInFlight'[m] = vBlocksInFlight[m],
         nBlocksInFlight'[m] = nBlocksInFlight[m],
         nBlocksInFlightValidHeaders'[m] = nBlocksInFlightValidHeaders[m],
         NEW S, S \cap Elements(vBlocksInFlight[m]) = {},
         fValidatedHeaders' = fValidatedHeaders \cup S \/ fValidatedHeaders' = fValidatedHeaders \ S
  PROVE  QueueExact(m)'
  <1>1. Elements(vBlocksInFlight[m]) \cap fValidatedHeaders' =
          Elements(vBlocksInFlight[m]) \cap fValidatedHeaders
    OBVIOUS
  <1>2. QED
    BY <1>1, Zenon DEF QueueExact

LEMMA AscendingFacts ==
  ASSUME NEW S \in SUBSET Block, NEW q \in Ascending(S)
  PROVE  /\ q \in Seq(Block) /\ Distinct(q)
         /\ Elements(q) \subseteq S /\ Len(q) = Cardinality(S)
  <1>1. IsFiniteSet(S) /\ Cardinality(S) \in Nat
    BY FS_Subset, FS_CardinalityType, DownloadAssumption
  <1>2. /\ q \in [1 .. Cardinality(S) -> S]
        /\ \A i, k \in 1 .. Cardinality(S) : i < k => nHeight[q[i]] < nHeight[q[k]]
    BY DEF Ascending
  <1>3. q \in Seq(S) /\ Len(q) = Cardinality(S)
    <2>1. \A m \in Nat : q \in [1 .. m -> S] => q \in Seq(S) /\ Len(q) = m
      BY FunctionIsSeq, SeqOf
    <2>2. QED
      BY <1>1, <1>2, <2>1
  <1>4. q \in Seq(Block)
    <2>1. q \in [1 .. Cardinality(S) -> Block]
      BY <1>2
    <2>2. QED
      BY <1>1, <2>1, FunctionIsSeq
  <1>5. Elements(q) \subseteq S
    BY <1>2, <1>3 DEF Elements
  <1>6. \A i \in 1 .. Len(q) : nHeight[q[i]] \in Nat
    BY <1>2, <1>3, TreeAssumption
  <1>7. Distinct(q)
    <2>1. SUFFICES ASSUME NEW i \in 1 .. Len(q), NEW k \in 1 .. Len(q), q[i] = q[k], i # k
                   PROVE  FALSE
      BY DEF Distinct
    <2>2. i < k \/ k < i
      BY <1>1, <1>3, <2>1
    <2>3. nHeight[q[i]] < nHeight[q[k]] \/ nHeight[q[k]] < nHeight[q[i]]
      BY <1>2, <1>3, <2>2
    <2>4. QED
      BY <1>6, <2>1, <2>3
  <1>8. QED
    BY <1>3, <1>4, <1>5, <1>7

\* MarkBlockAsInFlight, for blocks that are not in flight.
LEMMA MarkedExact ==
  ASSUME FlightInv, NEW n \in Peer, NEW S \in SUBSET Block,
         \A b \in S : mapBlocksInFlight[b] = NULL,
         NEW q \in Ascending(S), NEW fValidated \in BOOLEAN,
         MarkBlocksAsInFlight(n, q, fValidated)
  PROVE  /\ FlightInv'
         /\ \A m \in Peer \ {n} : vBlocksInFlight'[m] = vBlocksInFlight[m]
         /\ vBlocksInFlight[n] # <<>> => vBlocksInFlight'[n] # <<>>
  <1> DEFINE s == vBlocksInFlight[n]
             new == Elements(q)
  <1>1. q \in Seq(Block) /\ Distinct(q) /\ new \subseteq S
    BY AscendingFacts
  <1>2. FlightTypes /\ MapExact /\ \A m \in Peer : QueueExact(m)
    BY DEF FlightInv
  <1>3. s \in Seq(Block) /\ Distinct(s) /\ Len(s) \in Nat /\ Len(q) \in Nat
    BY <1>1, <1>2, SeqOf, Zenon DEF FlightTypes, QueueExact
  <1>4. \A b \in new : b \in Block /\ mapBlocksInFlight[b] = NULL
    BY <1>1
  <1>5. \A m \in Peer : new \cap Elements(vBlocksInFlight[m]) = {}
    BY <1>2, <1>4, DownloadAssumption DEF MapExact
  <1>6. new \cap fValidatedHeaders = {}
    BY <1>2, <1>4 DEF MapExact
  <1>7. /\ s \o q \in Seq(Block) /\ Len(s \o q) = Len(s) + Len(q)
        /\ Elements(s \o q) = Elements(s) \cup new /\ Distinct(s \o q)
    BY <1>1, <1>3, <1>5, ConcatFacts
  <1>8. /\ vBlocksInFlight'[n] = s \o q
        /\ \A m \in Peer \ {n} : vBlocksInFlight'[m] = vBlocksInFlight[m]
        /\ vBlocksInFlight' \in [Peer -> Seq(Block)]
    BY <1>2, <1>7 DEF MarkBlocksAsInFlight, FlightTypes
  <1>9. /\ nBlocksInFlight'[n] = nBlocksInFlight[n] + Len(q)
        /\ \A m \in Peer \ {n} : nBlocksInFlight'[m] = nBlocksInFlight[m]
        /\ nBlocksInFlight' \in [Peer -> Nat]
    BY <1>2, <1>3 DEF MarkBlocksAsInFlight, FlightTypes
  <1>10. /\ nBlocksInFlightValidHeaders'[n] =
              nBlocksInFlightValidHeaders[n] + (IF fValidated THEN Len(q) ELSE 0)
         /\ \A m \in Peer \ {n} :
              nBlocksInFlightValidHeaders'[m] = nBlocksInFlightValidHeaders[m]
         /\ nBlocksInFlightValidHeaders' \in [Peer -> Nat]
    BY <1>2, <1>3 DEF MarkBlocksAsInFlight, FlightTypes
  <1>11. /\ \A b \in Block : mapBlocksInFlight'[b] = IF b \in new THEN n
                                                    ELSE mapBlocksInFlight[b]
         /\ mapBlocksInFlight' \in [Block -> Peer \cup {NULL}]
    BY <1>2 DEF MarkBlocksAsInFlight, FlightTypes
  <1>12. fValidatedHeaders' = IF fValidated THEN fValidatedHeaders \cup new
                              ELSE fValidatedHeaders
    BY DEF MarkBlocksAsInFlight
  <1>13. nPeersWithValidatedDownloads' =
           IF nBlocksInFlightValidHeaders[n] = 0 /\ (IF fValidated THEN Len(q) ELSE 0) > 0
             THEN nPeersWithValidatedDownloads + 1 ELSE nPeersWithValidatedDownloads
    BY DEF MarkBlocksAsInFlight
  <1>14. FlightTypes'
    BY <1>2, <1>4, <1>8, <1>9, <1>10, <1>11, <1>12 DEF FlightTypes
  <1>15. MapExact'
    <2>1. ASSUME NEW b \in Block, NEW m \in Peer
          PROVE  mapBlocksInFlight'[b] = m <=> b \in Elements(vBlocksInFlight'[m])
      <3>1. mapBlocksInFlight[b] = m <=> b \in Elements(vBlocksInFlight[m])
        BY <1>2 DEF MapExact
      <3>2. CASE m = n
        BY <1>4, <1>7, <1>8, <1>11, <3>1, <3>2, Zenon
      <3>3. CASE m # n
        <4>1. vBlocksInFlight'[m] = vBlocksInFlight[m]
          BY <1>8, <3>3
        <4>2. QED
          BY <1>5, <1>11, <3>1, <3>3, <4>1
      <3>4. QED
        BY <3>2, <3>3
    <2>2. ASSUME NEW b \in fValidatedHeaders' PROVE mapBlocksInFlight'[b] # NULL
      <3>1. b \in Block /\ (b \in fValidatedHeaders \/ b \in new)
        BY <1>2, <1>4, <1>12, <2>2 DEF FlightTypes
      <3>2. QED
        BY <1>2, <1>11, <3>1, DownloadAssumption DEF MapExact
    <2>3. QED
      BY <2>1, <2>2 DEF MapExact
  <1>16. QueueExact(n)'
    <2>1. QueueExact(n)
      BY <1>2
    <2>2. (Elements(s) \cup new) \cap fValidatedHeaders' =
            (Elements(s) \cap fValidatedHeaders) \cup (IF fValidated THEN new ELSE {})
      BY <1>5, <1>6, <1>12
    <2>3. /\ IsFiniteSet(new) /\ Cardinality(new) = Len(q)
          /\ IsFiniteSet(Elements(s) \cap fValidatedHeaders)
      BY <1>1, <1>3, DistinctCardinality, FS_Subset
    <2>4. Cardinality((Elements(s) \cap fValidatedHeaders) \cup new) =
            Cardinality(Elements(s) \cap fValidatedHeaders) + Len(q)
      <3>1. (Elements(s) \cap fValidatedHeaders) \cap new = {}
        BY <1>6
      <3>2. Cardinality((Elements(s) \cap fValidatedHeaders) \cup new) =
              Cardinality(Elements(s) \cap fValidatedHeaders) + Cardinality(new)
                - Cardinality((Elements(s) \cap fValidatedHeaders) \cap new)
        BY <2>3, FS_Union
      <3>3. Cardinality((Elements(s) \cap fValidatedHeaders) \cap new) = 0
        BY <3>1, FS_EmptySet
      <3>4. Cardinality(Elements(s) \cap fValidatedHeaders) \in Nat
        BY <2>3, FS_CardinalityType
      <3>5. QED
        BY <1>3, <2>3, <3>2, <3>3, <3>4
    <2>5. nBlocksInFlightValidHeaders[n] = Cardinality(Elements(s) \cap fValidatedHeaders)
      BY <2>1 DEF QueueExact
    <2>6. nBlocksInFlightValidHeaders'[n] =
            Cardinality((Elements(s) \cup new) \cap fValidatedHeaders')
      <3>1. CASE fValidated = TRUE
        BY <1>10, <2>2, <2>4, <2>5, <3>1, Zenon
      <3>2. CASE fValidated = FALSE
        <4>1. (Elements(s) \cup new) \cap fValidatedHeaders' = Elements(s) \cap fValidatedHeaders
          BY <2>2, <3>2
        <4>2. nBlocksInFlightValidHeaders'[n] = nBlocksInFlightValidHeaders[n]
          BY <1>2, <1>10, <3>2 DEF FlightTypes
        <4>3. QED
          BY <2>5, <4>1, <4>2
      <3>3. QED
        BY <3>1, <3>2, Zenon
    <2>7. nBlocksInFlight'[n] = Len(s \o q)
      BY <1>7, <1>9, <2>1 DEF QueueExact
    <2>8. QED
      BY <1>7, <1>8, <2>6, <2>7, Zenon DEF QueueExact
  <1>17. \A m \in Peer \ {n} : QueueExact(m)'
    <2>1. SUFFICES ASSUME NEW m \in Peer \ {n} PROVE QueueExact(m)'
      OBVIOUS
    <2>2. /\ QueueExact(m) /\ vBlocksInFlight'[m] = vBlocksInFlight[m]
          /\ nBlocksInFlight'[m] = nBlocksInFlight[m]
          /\ nBlocksInFlightValidHeaders'[m] = nBlocksInFlightValidHeaders[m]
          /\ new \cap Elements(vBlocksInFlight[m]) = {}
      BY <1>2, <1>5, <1>8, <1>9, <1>10
    <2>3. fValidatedHeaders' = fValidatedHeaders \cup new
          \/ fValidatedHeaders' = fValidatedHeaders \ new
      BY <1>6, <1>12
    <2>4. QED
      BY <1>2, <2>2, <2>3, OtherQueues
  <1>18. nPeersWithValidatedDownloads' = Cardinality(Downloading')
    <2>1. Cardinality(Downloading') =
            Cardinality(Downloading)
              + (IF nBlocksInFlightValidHeaders'[n] # 0 THEN 1 ELSE 0)
              - (IF nBlocksInFlightValidHeaders[n] # 0 THEN 1 ELSE 0)
      BY <1>2, <1>10, <1>14, DownloadingCount
    <2>2. nPeersWithValidatedDownloads = Cardinality(Downloading)
          /\ Cardinality(Downloading) \in Nat /\ nBlocksInFlightValidHeaders[n] \in Nat
      BY <1>2, FS_Subset, FS_CardinalityType, DownloadAssumption
      DEF FlightInv, Downloading, FlightTypes
    <2>3. QED
      BY <1>3, <1>10, <1>13, <2>1, <2>2
  <1>19. s # <<>> => s \o q # <<>>
    <2>1. s # <<>> => Len(s) # 0
      BY <1>3, EmptyIsSeq
    <2>2. QED
      BY <1>3, <1>7, <2>1
  <1>20. QED
    BY <1>8, <1>14, <1>15, <1>16, <1>17, <1>18, <1>19 DEF FlightInv

\* MarkBlockAsReceived.
LEMMA ReceivedExact ==
  ASSUME FlightInv, NEW b \in Block, mapBlocksInFlight[b] # NULL, MarkBlockAsReceived(b)
  PROVE  /\ FlightInv'
         /\ mapBlocksInFlight[b] \in Peer
         /\ nStallingSince' = nStallingSince \ {mapBlocksInFlight[b]}
         /\ \A m \in Peer \ {mapBlocksInFlight[b]} : vBlocksInFlight'[m] = vBlocksInFlight[m]
  <1>1. FlightTypes /\ MapExact /\ \A m \in Peer : QueueExact(m)
    BY DEF FlightInv
  <1>2. PICK n \in Peer : n = mapBlocksInFlight[b]
    BY <1>1 DEF FlightTypes
  <1> DEFINE s == vBlocksInFlight[n]
             validated == b \in fValidatedHeaders
  <1>3. /\ nBlocksInFlightValidHeaders' =
             [nBlocksInFlightValidHeaders EXCEPT ![n] = IF validated THEN @ - 1 ELSE @]
        /\ nPeersWithValidatedDownloads' =
             StillDownloading(nBlocksInFlightValidHeaders'[n], validated)
        /\ \E i \in 1 .. Len(s) :
             /\ s[i] = b
             /\ vBlocksInFlight' = [vBlocksInFlight EXCEPT ![n] = Erase(@, i)]
        /\ fValidatedHeaders' = fValidatedHeaders \ {b}
        /\ nBlocksInFlight' = [nBlocksInFlight EXCEPT ![n] = @ - 1]
        /\ nStallingSince' = nStallingSince \ {n}
        /\ mapBlocksInFlight' = [mapBlocksInFlight EXCEPT ![b] = NULL]
    BY <1>2 DEF MarkBlockAsReceived, StallOver
  <1>4. PICK i \in 1 .. Len(s) :
          s[i] = b /\ vBlocksInFlight' = [vBlocksInFlight EXCEPT ![n] = Erase(@, i)]
    BY <1>3, Zenon
  <1> HIDE DEF validated
  <1>5. s \in Seq(Block) /\ Distinct(s) /\ Len(s) \in Nat
    BY <1>1, <1>2, SeqOf, Zenon DEF FlightTypes, QueueExact
  <1>6. /\ Erase(s, i) \in Seq(Block) /\ Len(Erase(s, i)) = Len(s) - 1
        /\ Elements(Erase(s, i)) = Elements(s) \ {b} /\ Distinct(Erase(s, i))
    BY <1>4, <1>5, EraseFacts
  <1>7. /\ vBlocksInFlight'[n] = Erase(s, i)
        /\ \A m \in Peer \ {n} : vBlocksInFlight'[m] = vBlocksInFlight[m]
        /\ vBlocksInFlight' \in [Peer -> Seq(Block)]
    BY <1>1, <1>2, <1>4, <1>6 DEF FlightTypes
  <1>8. \A m \in Peer : b \in Elements(vBlocksInFlight[m]) <=> m = n
    BY <1>1, <1>2 DEF MapExact
  <1>9. QueueExact(n)
    BY <1>1, <1>2
  <1> DEFINE C == Elements(s) \cap fValidatedHeaders
  <1>10. IsFiniteSet(C) /\ Cardinality(C) \in Nat
    BY <1>5, DistinctCardinality, FS_Subset, FS_CardinalityType
  <1>11. (Elements(s) \ {b}) \cap fValidatedHeaders' = C \ {b}
    BY <1>3
  <1>12. b \in C <=> validated
    BY <1>2, <1>8 DEF validated
  <1>13. Cardinality(C \ {b}) = IF b \in C THEN Cardinality(C) - 1 ELSE Cardinality(C)
    BY <1>10, FS_RemoveElement, Zenon
  <1>14. Cardinality(C \ {b}) \in Nat
    BY <1>10, FS_RemoveElement, FS_CardinalityType, Zenon
  <1>15. nBlocksInFlightValidHeaders[n] = Cardinality(C)
    BY <1>9 DEF QueueExact
  <1>16. /\ nBlocksInFlightValidHeaders'[n] = Cardinality(C \ {b})
         /\ \A m \in Peer \ {n} :
              nBlocksInFlightValidHeaders'[m] = nBlocksInFlightValidHeaders[m]
         /\ nBlocksInFlightValidHeaders' \in [Peer -> Nat]
    <2> HIDE DEF C
    <2>1. nBlocksInFlightValidHeaders'[n] = IF validated THEN nBlocksInFlightValidHeaders[n] - 1
                                            ELSE nBlocksInFlightValidHeaders[n]
      BY <1>1, <1>2, <1>3 DEF FlightTypes
    <2>2. nBlocksInFlightValidHeaders'[n] = Cardinality(C \ {b})
      BY <1>12, <1>13, <1>15, <2>1
    <2>3. QED
      BY <1>1, <1>2, <1>3, <1>14, <2>2 DEF FlightTypes
  <1>17. /\ nBlocksInFlight'[n] = Len(s) - 1 /\ Len(s) - 1 \in Nat
         /\ \A m \in Peer \ {n} : nBlocksInFlight'[m] = nBlocksInFlight[m]
         /\ nBlocksInFlight' \in [Peer -> Nat]
    <2>1. nBlocksInFlight[n] = Len(s) /\ Len(s) - 1 \in Nat
      BY <1>4, <1>5, <1>9 DEF QueueExact
    <2>2. QED
      BY <1>1, <1>2, <1>3, <2>1 DEF FlightTypes
  <1>18. /\ \A c \in Block : mapBlocksInFlight'[c] = IF c = b THEN NULL
                                                    ELSE mapBlocksInFlight[c]
         /\ mapBlocksInFlight' \in [Block -> Peer \cup {NULL}]
    BY <1>1, <1>3 DEF FlightTypes
  <1>19. FlightTypes'
    BY <1>1, <1>3, <1>7, <1>16, <1>17, <1>18 DEF FlightTypes
  <1>20. MapExact'
    <2>1. ASSUME NEW c \in Block, NEW m \in Peer
          PROVE  mapBlocksInFlight'[c] = m <=> c \in Elements(vBlocksInFlight'[m])
      <3>1. mapBlocksInFlight[c] = m <=> c \in Elements(vBlocksInFlight[m])
        BY <1>1 DEF MapExact
      <3>2. CASE m = n
        BY <1>6, <1>7, <1>18, <3>1, <3>2, DownloadAssumption
      <3>3. CASE m # n
        <4>1. vBlocksInFlight'[m] = vBlocksInFlight[m] /\ b \notin Elements(vBlocksInFlight[m])
          BY <1>7, <1>8, <3>3
        <4>2. QED
          BY <1>18, <3>1, <4>1, DownloadAssumption
      <3>4. QED
        BY <3>2, <3>3
    <2>2. ASSUME NEW c \in fValidatedHeaders' PROVE mapBlocksInFlight'[c] # NULL
      BY <1>1, <1>3, <1>18, <2>2 DEF FlightTypes, MapExact
    <2>3. QED
      BY <2>1, <2>2 DEF MapExact
  <1>21. QueueExact(n)'
    <2>1. /\ Distinct(vBlocksInFlight'[n]) /\ nBlocksInFlight'[n] = Len(vBlocksInFlight'[n])
          /\ nBlocksInFlightValidHeaders'[n] =
               Cardinality(Elements(vBlocksInFlight'[n]) \cap fValidatedHeaders')
      BY <1>6, <1>7, <1>11, <1>16, <1>17, Zenon
    <2>2. QED
      BY <2>1 DEF QueueExact
  <1>22. \A m \in Peer \ {n} : QueueExact(m)'
    <2>1. SUFFICES ASSUME NEW m \in Peer \ {n} PROVE QueueExact(m)'
      OBVIOUS
    <2>2. /\ QueueExact(m) /\ vBlocksInFlight'[m] = vBlocksInFlight[m]
          /\ nBlocksInFlight'[m] = nBlocksInFlight[m]
          /\ nBlocksInFlightValidHeaders'[m] = nBlocksInFlightValidHeaders[m]
          /\ {b} \cap Elements(vBlocksInFlight[m]) = {}
      BY <1>1, <1>7, <1>8, <1>16, <1>17
    <2>3. QED
      BY <1>1, <1>2, <1>3, <2>2, OtherQueues, Zenon
  <1>23. nPeersWithValidatedDownloads' = Cardinality(Downloading')
    <2>1. Cardinality(Downloading') =
            Cardinality(Downloading)
              + (IF nBlocksInFlightValidHeaders'[n] # 0 THEN 1 ELSE 0)
              - (IF nBlocksInFlightValidHeaders[n] # 0 THEN 1 ELSE 0)
      BY <1>1, <1>2, <1>16, <1>19, DownloadingCount
    <2>2. nPeersWithValidatedDownloads = Cardinality(Downloading)
          /\ Cardinality(Downloading) \in Nat
      BY FS_Subset, FS_CardinalityType, DownloadAssumption DEF FlightInv, Downloading
    <2>3. nPeersWithValidatedDownloads' =
            IF nBlocksInFlightValidHeaders'[n] = 0 /\ validated
              THEN nPeersWithValidatedDownloads - 1 ELSE nPeersWithValidatedDownloads
      BY <1>3 DEF StillDownloading
    <2> HIDE DEF C
    <2>4. /\ ~validated => nBlocksInFlightValidHeaders'[n] = nBlocksInFlightValidHeaders[n]
          /\ validated => nBlocksInFlightValidHeaders[n] # 0
      BY <1>10, <1>12, <1>13, <1>14, <1>15, <1>16
    <2>5. CASE ~validated
      BY <2>1, <2>2, <2>3, <2>4, <2>5
    <2>6. CASE validated /\ nBlocksInFlightValidHeaders'[n] = 0
      BY <2>1, <2>2, <2>3, <2>4, <2>6
    <2>7. CASE validated /\ nBlocksInFlightValidHeaders'[n] # 0
      BY <2>1, <2>2, <2>3, <2>4, <2>7
    <2>8. QED
      BY <2>5, <2>6, <2>7
  <1>24. QED
    BY <1>2, <1>3, <1>7, <1>19, <1>20, <1>21, <1>22, <1>23 DEF FlightInv

\* FinalizeNode takes the whole queue of a peer out of the books.
LEMMA ForgottenExact ==
  ASSUME FlightInv, NEW n \in Peer, FinalizeNode(n)
  PROVE  FlightInv'
  <1> DEFINE gone == Elements(vBlocksInFlight[n])
  <1>1. FlightTypes /\ MapExact /\ \A m \in Peer : QueueExact(m)
    BY DEF FlightInv
  <1>2. /\ vBlocksInFlight'[n] = <<>>
        /\ \A m \in Peer \ {n} : vBlocksInFlight'[m] = vBlocksInFlight[m]
        /\ vBlocksInFlight' \in [Peer -> Seq(Block)]
    BY <1>1 DEF FinalizeNode, FlightTypes
  <1>3. /\ nBlocksInFlight'[n] = 0 /\ nBlocksInFlightValidHeaders'[n] = 0
        /\ \A m \in Peer \ {n} :
             /\ nBlocksInFlight'[m] = nBlocksInFlight[m]
             /\ nBlocksInFlightValidHeaders'[m] = nBlocksInFlightValidHeaders[m]
        /\ nBlocksInFlight' \in [Peer -> Nat]
        /\ nBlocksInFlightValidHeaders' \in [Peer -> Nat]
    BY <1>1 DEF FinalizeNode, FlightTypes
  <1>4. /\ \A b \in Block : mapBlocksInFlight'[b] = IF b \in gone THEN NULL
                                                   ELSE mapBlocksInFlight[b]
        /\ mapBlocksInFlight' \in [Block -> Peer \cup {NULL}]
    BY <1>1 DEF FinalizeNode, FlightTypes
  <1>5. /\ fValidatedHeaders' = fValidatedHeaders \ gone
        /\ nPeersWithValidatedDownloads' =
             IF nBlocksInFlightValidHeaders[n] # 0 THEN nPeersWithValidatedDownloads - 1
             ELSE nPeersWithValidatedDownloads
    BY DEF FinalizeNode
  <1>6. Elements(<<>>) = {} /\ Distinct(<<>>) /\ Len(<<>>) = 0
    BY EmptyIsSeq DEF Distinct
  <1> HIDE DEF gone
  <1>7. FlightTypes'
    BY <1>1, <1>2, <1>3, <1>4, <1>5 DEF FlightTypes
  <1>8. \A b \in Block : b \in gone <=> mapBlocksInFlight[b] = n
    BY <1>1 DEF MapExact, gone
  <1>9. MapExact'
    <2>1. ASSUME NEW b \in Block, NEW m \in Peer
          PROVE  mapBlocksInFlight'[b] = m <=> b \in Elements(vBlocksInFlight'[m])
      <3>1. mapBlocksInFlight[b] = m <=> b \in Elements(vBlocksInFlight[m])
        BY <1>1 DEF MapExact
      <3>2. m # NULL
        BY DownloadAssumption
      <3>3. CASE m = n
        BY <1>2, <1>4, <1>6, <1>8, <3>2, <3>3
      <3>4. CASE m # n
        <4>1. vBlocksInFlight'[m] = vBlocksInFlight[m]
          BY <1>2, <3>4
        <4>2. QED
          BY <1>4, <1>8, <3>1, <3>2, <3>4, <4>1
      <3>5. QED
        BY <3>3, <3>4
    <2>2. ASSUME NEW b \in fValidatedHeaders' PROVE mapBlocksInFlight'[b] # NULL
      BY <1>1, <1>4, <1>5, <2>2 DEF FlightTypes, MapExact
    <2>3. QED
      BY <2>1, <2>2 DEF MapExact
  <1>10. QueueExact(n)'
    <2>1. Elements(vBlocksInFlight'[n]) \cap fValidatedHeaders' = {}
      BY <1>2, <1>6
    <2>2. Cardinality(Elements(vBlocksInFlight'[n]) \cap fValidatedHeaders') = 0
      BY <2>1, FS_EmptySet
    <2>3. QED
      BY <1>2, <1>3, <1>6, <2>2 DEF QueueExact
  <1>11. \A m \in Peer \ {n} : QueueExact(m)'
    <2>1. SUFFICES ASSUME NEW m \in Peer \ {n} PROVE QueueExact(m)'
      OBVIOUS
    <2>2. gone \cap Elements(vBlocksInFlight[m]) = {}
      <3>1. Elements(vBlocksInFlight[m]) \subseteq Block
        BY <1>1, SeqOf DEF FlightTypes, Elements
      <3>2. QED
        BY <1>1, <1>8, <3>1 DEF MapExact
    <2>3. /\ QueueExact(m) /\ vBlocksInFlight'[m] = vBlocksInFlight[m]
          /\ nBlocksInFlight'[m] = nBlocksInFlight[m]
          /\ nBlocksInFlightValidHeaders'[m] = nBlocksInFlightValidHeaders[m]
      BY <1>1, <1>2, <1>3
    <2>4. QED
      BY <1>1, <1>5, <2>2, <2>3, OtherQueues
  <1>12. nPeersWithValidatedDownloads' = Cardinality(Downloading')
    <2>1. Cardinality(Downloading') =
            Cardinality(Downloading)
              + (IF nBlocksInFlightValidHeaders'[n] # 0 THEN 1 ELSE 0)
              - (IF nBlocksInFlightValidHeaders[n] # 0 THEN 1 ELSE 0)
      BY <1>1, <1>3, <1>7, DownloadingCount
    <2>2. nPeersWithValidatedDownloads = Cardinality(Downloading)
          /\ Cardinality(Downloading) \in Nat
      BY FS_Subset, FS_CardinalityType, DownloadAssumption DEF FlightInv, Downloading
    <2>3. QED
      BY <1>3, <1>5, <2>1, <2>2
  <1>13. QED
    BY <1>7, <1>9, <1>10, <1>11, <1>12 DEF FlightInv

-----------------------------------------------------------------------------
(* How many blocks are asked for.                                          *)

Below(W, h) == {c \in W : nHeight[c] <= h}

LEMMA BelowFinite ==
  ASSUME NEW W \in SUBSET Block, NEW h
  PROVE  /\ IsFiniteSet(W) /\ Cardinality(W) \in Nat
         /\ IsFiniteSet(Below(W, h)) /\ Cardinality(Below(W, h)) \in Nat
         /\ Below(W, h) \subseteq W /\ Cardinality(Below(W, h)) <= Cardinality(W)
  <1>1. IsFiniteSet(W) /\ Cardinality(W) \in Nat
    BY FS_Subset, FS_CardinalityType, DownloadAssumption
  <1>2. Below(W, h) \subseteq W
    BY DEF Below
  <1>3. QED
    BY <1>1, <1>2, FS_Subset, FS_CardinalityType

LEMMA LeastOf ==
  ASSUME NEW K \in SUBSET Nat, K # {}
  PROVE  \E k \in K : \A j \in K : k <= j
  <1>1. PICK k \in K : \A j \in K : ~(<<j, k>> \in OpToRel(<, Nat))
    BY NatLessThanWellFounded, WFMin, Zenon
  <1>2. \A j \in K : ~(j < k)
    BY <1>1, Zenon DEF OpToRel
  <1>3. QED
    BY <1>2

\* A set of blocks that is not empty has a highest one.
LEMMA HighestOf ==
  ASSUME NEW W \in SUBSET Block, W # {}
  PROVE  \E b \in W : \A c \in W : nHeight[c] <= nHeight[b]
  <1> DEFINE over(b) == Cardinality(W) - Cardinality(Below(W, nHeight[b]))
             K == {over(b) : b \in W}
  <1>1. \A b \in W : over(b) \in Nat
    BY BelowFinite
  <1>2. K \in SUBSET Nat /\ K # {}
    BY <1>1
  <1>3. PICK k \in K : \A j \in K : k <= j
    BY <1>2, LeastOf, Zenon
  <1>4. PICK b \in W : \A c \in W : over(b) <= over(c)
    BY <1>3
  <1>5. ASSUME NEW c \in W, ~(nHeight[c] <= nHeight[b]) PROVE FALSE
    <2>1. nHeight[b] \in Nat /\ nHeight[c] \in Nat /\ nHeight[b] < nHeight[c]
      BY <1>5, TreeAssumption
    <2>2. \A d \in W : nHeight[d] \in Nat
      BY TreeAssumption
    <2>3. Below(W, nHeight[b]) \subseteq Below(W, nHeight[c])
      BY <2>1, <2>2 DEF Below
    <2>4. c \in Below(W, nHeight[c]) /\ c \notin Below(W, nHeight[b])
      BY <2>1 DEF Below
    <2>5. /\ IsFiniteSet(Below(W, nHeight[c])) /\ Cardinality(W) \in Nat
          /\ Cardinality(Below(W, nHeight[b])) \in Nat
          /\ Cardinality(Below(W, nHeight[c])) \in Nat
      BY BelowFinite
    <2>6. Cardinality(Below(W, nHeight[b])) < Cardinality(Below(W, nHeight[c]))
      <3>1. Below(W, nHeight[b]) # Below(W, nHeight[c])
        BY <2>4
      <3>2. QED
        BY <2>3, <2>5, <3>1, FS_Subset
    <2>7. over(b) <= over(c)
      BY <1>4
    <2>8. QED
      BY <2>5, <2>6, <2>7
  <1>6. QED
    BY <1>5

\* Where the heights differ, a walk upwards meets a block at which it has found
\* exactly "count" blocks, if there are that many.
LEMMA CountIsMet ==
  ASSUME NEW W \in SUBSET Block, \A b, c \in W : nHeight[b] = nHeight[c] => b = c,
         NEW count \in Nat \ {0}, count <= Cardinality(W)
  PROVE  \E b \in W : Cardinality(Below(W, nHeight[b])) = count
  <1> DEFINE N(b) == Cardinality(Below(W, nHeight[b]))
             K == {N(b) : b \in {c \in W : count <= N(c)}}
  <1>1. \A b \in W : N(b) \in Nat
    BY BelowFinite
  <1>2. \A b \in W : nHeight[b] \in Nat
    BY TreeAssumption
  <1>3. K # {}
    <2>1. W # {}
      BY FS_EmptySet
    <2>2. PICK b \in W : \A c \in W : nHeight[c] <= nHeight[b]
      BY <2>1, HighestOf
    <2>3. Below(W, nHeight[b]) = W
      BY <2>2 DEF Below
    <2>4. count <= N(b)
      BY <2>3
    <2>5. QED
      BY <2>4
  <1>4. K \in SUBSET Nat
    BY <1>1
  <1>5. PICK k \in K : \A j \in K : k <= j
    BY <1>3, <1>4, LeastOf, Zenon
  <1>6. PICK b \in W : k = N(b) /\ count <= N(b)
    BY <1>5
  <1>7. ASSUME N(b) # count PROVE FALSE
    <2> DEFINE R == Below(W, nHeight[b]) \ {b}
    <2>1. b \in Below(W, nHeight[b]) /\ IsFiniteSet(Below(W, nHeight[b]))
      <3>1. b \in Below(W, nHeight[b])
        BY <1>2 DEF Below
      <3>2. QED
        BY <3>1, BelowFinite
    <2>2. IsFiniteSet(R) /\ Cardinality(R) = N(b) - 1
      BY <2>1, FS_RemoveElement, Zenon
    <2>3. count <= Cardinality(R) /\ Cardinality(R) < N(b)
      BY <1>1, <1>6, <1>7, <2>2
    <2>4. R # {} /\ R \in SUBSET Block /\ R \subseteq W
      BY <2>3, FS_EmptySet, BelowFinite
    <2>5. PICK c \in R : \A d \in R : nHeight[d] <= nHeight[c]
      BY <2>4, HighestOf, Zenon
    <2>6. nHeight[c] < nHeight[b] /\ c \in W
      <3>1. c \in W /\ nHeight[c] <= nHeight[b] /\ c # b
        BY DEF Below
      <3>2. nHeight[c] # nHeight[b]
        BY <3>1
      <3>3. QED
        BY <1>2, <3>1, <3>2
    <2>7. Below(W, nHeight[c]) = R
      <3>1. ASSUME NEW d \in W, nHeight[d] <= nHeight[c] PROVE d \in R
        <4>1. nHeight[d] < nHeight[b]
          BY <1>2, <2>6, <3>1
        <4>2. QED
          BY <1>2, <4>1 DEF Below
      <3>2. QED
        BY <2>4, <2>5, <3>1 DEF Below
    <2>8. N(c) \in K /\ N(c) < N(b)
      BY <2>3, <2>6, <2>7
    <2>9. QED
      BY <1>1, <1>5, <1>6, <2>6, <2>8
  <1>8. QED
    BY <1>6, <1>7

\* FindNextBlocksToDownload returns at most "count" blocks.
LEMMA WalkBounded ==
  ASSUME NEW n, NEW best, NEW from, NEW count \in Nat \ {0},
         NEW toFetch, toFetch = vToFetch(best, from)
  PROVE  Cardinality(Walk(n, from, toFetch, WalkEnds(toFetch, from, count)).vBlocks) <= count
  <1> DEFINE W == {c \in toFetch : Wanted(c)}
             ends == WalkEnds(toFetch, from, count)
             vBlocks == Walk(n, from, toFetch, ends).vBlocks
  <1>1. toFetch \in SUBSET Block /\ \A b \in toFetch : OnBranch(b, best)
    BY DEF vToFetch
  <1>2. W \in SUBSET Block /\ \A b, c \in W : nHeight[b] = nHeight[c] => b = c
    BY <1>1 DEF OnBranch
  <1>3. vBlocks \subseteq W /\ \A b \in vBlocks : \A c \in ends : nHeight[b] <= nHeight[c]
    BY Zenon DEF Walk
  <1>4. \A b \in W : Below(W, nHeight[b]) = {c \in toFetch : Wanted(c) /\ nHeight[c] <= nHeight[b]}
    BY DEF Below
  <1>5. \A b \in W : Cardinality(Below(W, nHeight[b])) = count => b \in ends
    BY <1>4 DEF WalkEnds
  <1> HIDE DEF W, ends, vBlocks
  <1>6. IsFiniteSet(W) /\ Cardinality(W) \in Nat
    BY <1>2, BelowFinite
  <1>7. CASE count <= Cardinality(W)
    <2>1. PICK b \in W : Cardinality(Below(W, nHeight[b])) = count
      BY <1>2, <1>7, CountIsMet
    <2>2. vBlocks \subseteq Below(W, nHeight[b])
      BY <1>3, <1>5, <2>1 DEF Below
    <2>3. IsFiniteSet(Below(W, nHeight[b]))
      BY <1>2, BelowFinite, Zenon
    <2>4. QED
      BY <2>1, <2>2, <2>3, FS_Subset DEF vBlocks, ends
  <1>8. CASE ~(count <= Cardinality(W))
    <2>1. Cardinality(vBlocks) <= Cardinality(W) /\ Cardinality(vBlocks) \in Nat
      BY <1>3, <1>6, FS_Subset, FS_CardinalityType
    <2>2. QED
      BY <1>6, <1>8, <2>1 DEF vBlocks, ends
  <1>9. QED
    BY <1>7, <1>8

=============================================================================
