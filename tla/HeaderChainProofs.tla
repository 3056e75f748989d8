------------------------- MODULE HeaderChainProofs -------------------------
(***************************************************************************)
(* The header chain is a path of the tree, a header that arrives never     *)
(* makes it lose work; while no header failed it is the chain with the     *)
(* most work and the tips are the leaves of the tree; and when one block   *)
(* fails, it and its descendants leave the chain.  For any tree of headers *)
(* and any order in which they arrive and fail.                            *)
(***************************************************************************)
EXTENDS HeaderChain, WellFoundedInduction, TLAPS

(* Elementary facts about sequences. *)

LEMMA SeqOf ==
  ASSUME NEW S, NEW s \in Seq(S)
  PROVE  /\ Len(s) \in Nat /\ s \in [1 .. Len(s) -> S] /\ DOMAIN s = 1 .. Len(s)
         /\ \A i \in 1 .. Len(s) : s[i] \in S
         /\ s # <<>> => Len(s) \in Nat \ {0}
  OBVIOUS

LEMMA EmptyIsSeq == ASSUME NEW S PROVE <<>> \in Seq(S) /\ Len(<<>>) = 0
  OBVIOUS

LEMMA FunctionIsSeq ==
  ASSUME NEW S, NEW n \in Nat, NEW f \in [1 .. n -> S]
  PROVE  f \in Seq(S) /\ Len(f) = n
  OBVIOUS

LEMMA ConcatOf ==
  ASSUME NEW S, NEW s \in Seq(S), NEW t \in Seq(S)
  PROVE  /\ s \o t \in Seq(S) /\ Len(s \o t) = Len(s) + Len(t)
         /\ \A i \in 1 .. Len(s) + Len(t) :
              (s \o t)[i] = IF i <= Len(s) THEN s[i] ELSE t[i - Len(s)]
  OBVIOUS

LEMMA SubSeqOf ==
  ASSUME NEW S, NEW s \in Seq(S), NEW m \in 1 .. Len(s)+1, NEW n \in m-1 .. Len(s)
  PROVE  /\ SubSeq(s, m, n) \in Seq(S)
         /\ Len(SubSeq(s, m, n)) = n - m + 1
         /\ \A i \in 1 .. n - m + 1 : SubSeq(s, m, n)[i] = s[m + i - 1]
  OBVIOUS

LEMMA AppendOf ==
  ASSUME NEW S, NEW s \in Seq(S), NEW e \in S
  PROVE  /\ Append(s, e) \in Seq(S) /\ Append(s, e) # <<>>
         /\ Len(Append(s, e)) = Len(s) + 1
         /\ \A i \in 1 .. Len(s) : Append(s, e)[i] = s[i]
         /\ Append(s, e)[Len(s) + 1] = e
  OBVIOUS

LEMMA HeadTailOf ==
  ASSUME NEW S, NEW s \in Seq(S), s # <<>>
  PROVE  /\ Head(s) \in S /\ Tail(s) \in Seq(S) /\ Len(Tail(s)) = Len(s) - 1
         /\ Head(s) = s[1] /\ \A i \in 1 .. Len(Tail(s)) : Tail(s)[i] = s[i + 1]
  OBVIOUS

\* What is in the list when an entry was erased and another one appended.
LEMMA EraseOf ==
  ASSUME NEW S, NEW s \in Seq(S), NEW i \in 1 .. Len(s)
  PROVE  /\ erase(s, i) \in Seq(S) /\ Len(erase(s, i)) = Len(s) - 1
         /\ \A k \in 1 .. Len(s) - 1 : erase(s, i)[k] = IF k < i THEN s[k] ELSE s[k + 1]
  <1> DEFINE front == SubSeq(s, 1, i - 1)
             back == SubSeq(s, i + 1, Len(s))
  <1>1. Len(s) \in Nat /\ i \in 1 .. Len(s) + 1 /\ i - 1 \in 0 .. Len(s)
        /\ i + 1 \in 1 .. Len(s) + 1 /\ Len(s) \in (i + 1) - 1 .. Len(s)
        /\ 1 \in 1 .. Len(s) + 1 /\ i - 1 \in 1 - 1 .. Len(s)
    BY SeqOf
  <1>2. /\ front \in Seq(S) /\ Len(front) = i - 1
        /\ \A k \in 1 .. i - 1 : front[k] = s[k]
    BY <1>1, SubSeqOf
  <1>3. /\ back \in Seq(S) /\ Len(back) = Len(s) - i
        /\ \A k \in 1 .. Len(s) - i : back[k] = s[i + k]
    BY <1>1, SubSeqOf
  <1> HIDE DEF front, back
  <1>4. /\ front \o back \in Seq(S) /\ Len(front \o back) = Len(front) + Len(back)
        /\ \A k \in 1 .. Len(front) + Len(back) :
             (front \o back)[k] = IF k <= Len(front) THEN front[k] ELSE back[k - Len(front)]
    BY <1>2, <1>3, ConcatOf, Zenon
  <1>5. erase(s, i) = front \o back
    BY DEF erase, front, back
  <1>6. ASSUME NEW k \in 1 .. Len(s) - 1
        PROVE  erase(s, i)[k] = IF k < i THEN s[k] ELSE s[k + 1]
    <2>1. CASE k < i
      BY <1>1, <1>2, <1>3, <1>4, <1>5, <2>1
    <2>2. CASE ~(k < i)
      <3>1. k - (i - 1) \in 1 .. Len(s) - i /\ i + (k - (i - 1)) = k + 1
        BY <1>1, <2>2
      <3>2. k \in 1 .. Len(front) + Len(back) /\ ~(k <= Len(front)) /\ Len(front) = i - 1
        BY <1>1, <1>2, <1>3, <2>2
      <3>3. (front \o back)[k] = back[k - (i - 1)]
        BY <1>4, <3>2
      <3>4. back[k - (i - 1)] = s[k + 1]
        BY <1>3, <3>1
      <3>5. QED
        BY <1>5, <2>2, <3>3, <3>4
    <2>3. QED
      BY <2>1, <2>2
  <1>7. Len(front) + Len(back) = Len(s) - 1
    BY <1>1, <1>2, <1>3
  <1>8. QED
    BY <1>4, <1>5, <1>6, <1>7, Zenon

-----------------------------------------------------------------------------

\* The chain that ends in t.
PathTo(t) == [i \in 1 .. nHeight[t] + 1 |-> ancestor[t][i - 1]]

IsPath(chain) == chain = <<>> \/ \E t \in Block : chain = PathTo(t)

\* The inductive invariant of the first theorem; the genesis never fails.
PathInv ==
  /\ indexMap \subseteq Block
  /\ failed \subseteq Block \ {Genesis}
  /\ headerChainTips \in Seq(Block)
  /\ IsPath(headersChain)

LEMMA PathToProperties ==
  ASSUME NEW t \in Block
  PROVE  /\ PathTo(t) \in Seq(Block)
         /\ PathTo(t) # <<>>
         /\ Len(PathTo(t)) = nHeight[t] + 1
         /\ Tip(PathTo(t)) = t
         /\ \A i \in 1 .. nHeight[t] + 1 : PathTo(t)[i] = ancestor[t][i - 1]
  <1>1. nHeight[t] \in Nat /\ ancestor[t] \in [0 .. nHeight[t] -> Block]
        /\ ancestor[t][nHeight[t]] = t
    BY TreeAssumption
  <1>2. PathTo(t) \in Seq(Block) /\ Len(PathTo(t)) = nHeight[t] + 1
    <2>1. PathTo(t) \in [1 .. nHeight[t] + 1 -> Block]
      BY <1>1 DEF PathTo
    <2>2. nHeight[t] + 1 \in Nat
      BY <1>1
    <2>3. QED
      BY <2>1, <2>2, FunctionIsSeq
  <1>3. Tip(PathTo(t)) = t
    BY <1>1, <1>2 DEF PathTo, Tip
  <1>4. QED
    BY <1>1, <1>2, <1>3 DEF PathTo

\* CChain::SetTip, though it stops early, turns a path into the path to b.
LEMMA SetTipGivesPath ==
  ASSUME NEW chain, IsPath(chain), NEW b \in Block
  PROVE  SetTip(chain, b) = PathTo(b)
  <1>1. nHeight[b] \in Nat
    BY TreeAssumption
  <1>2. SUFFICES ASSUME NEW i \in 1 .. nHeight[b] + 1,
                        NEW h \in i - 1 .. nHeight[b],
                        h < Len(chain), chain[h + 1] = ancestor[b][h]
                 PROVE  chain[i] = ancestor[b][i - 1]
    BY <1>1 DEF SetTip, PathTo
  <1>3. CASE chain = <<>>
    <2>1. Len(chain) = 0 /\ h \in Nat
      BY <1>3, <1>1
    <2>2. QED
      BY <2>1, <1>2
  <1>4. CASE \E t \in Block : chain = PathTo(t)
    <2>1. PICK t \in Block : chain = PathTo(t)
      BY <1>4
    <2>6. Len(chain) = nHeight[t] + 1 /\ nHeight[t] \in Nat
      BY <2>1, PathToProperties, TreeAssumption
    <2>2. nHeight[t] \in Nat /\ h \in 0 .. nHeight[t] /\ h \in 0 .. nHeight[b]
          /\ i - 1 \in 0 .. h /\ h + 1 \in 1 .. nHeight[t] + 1
          /\ i \in 1 .. nHeight[t] + 1
      BY <2>6, <1>1, <1>2
    <2>3. chain[h + 1] = ancestor[t][h] /\ chain[i] = ancestor[t][i - 1]
      BY <2>1, <2>2 DEF PathTo
    <2>4. /\ ancestor[ancestor[t][h]][i - 1] = ancestor[t][i - 1]
          /\ ancestor[ancestor[b][h]][i - 1] = ancestor[b][i - 1]
      BY <2>2, AncestorAssumption
    <2>5. QED
      BY <2>3, <2>4, <1>2
  <1>5. QED
    BY <1>3, <1>4 DEF IsPath

\* b has an ancestor that did not fail: at the latest the genesis.
LEMMA ValidPrevExists ==
  ASSUME NEW b \in Block, NEW bad, Genesis \notin bad
  PROVE  /\ validPrevOf(b, bad) \in Block \ bad
         /\ b \notin bad => validPrevOf(b, bad) = b
         /\ OnBranch(validPrevOf(b, bad), b)
  <1> DEFINE H == nHeight[b]
             Good == {k \in Nat : k <= H /\ ancestor[b][H - k] \notin bad}
  <1>1. H \in Nat /\ ancestor[b] \in [0 .. H -> Block] /\ ancestor[b][0] = Genesis
        /\ ancestor[b][H] = b
    BY TreeAssumption
  <1>2. Good \subseteq Nat /\ Good # {}
    <2>1. H \in Good
      BY <1>1
    <2>2. QED
      BY <2>1
  <1>3. PICK k \in Good : \A j \in Good : ~(<<j, k>> \in OpToRel(<, Nat))
    BY <1>2, NatLessThanWellFounded, WFMin, Zenon
  <1>4. \A j \in Good : ~(j < k)
    BY <1>3, Zenon DEF OpToRel
  <1> DEFINE a == ancestor[b][H - k]
  <1>5. a \in {ancestor[b][h] : h \in 0 .. H} \ bad /\ nHeight[a] = H - k
    BY <1>1, AncestorAssumption
  <1>6. \A h \in nHeight[a] + 1 .. H : ancestor[b][h] \in bad
    <2>1. SUFFICES ASSUME NEW h \in H - k + 1 .. H, ancestor[b][h] \notin bad
                   PROVE  FALSE
      BY <1>5
    <2>2. H - h \in Nat /\ H - h <= H /\ H - (H - h) = h /\ H - h < k
      BY <1>1
    <2>3. H - h \in Good
      BY <2>1, <2>2
    <2>4. QED
      BY <2>2, <2>3, <1>4
  <1>7. validPrevOf(b, bad) \in {ancestor[b][h] : h \in 0 .. H} \ bad
        /\ \A h \in nHeight[validPrevOf(b, bad)] + 1 .. H : ancestor[b][h] \in bad
    BY <1>5, <1>6 DEF validPrevOf
  <1>8. ASSUME b \notin bad PROVE validPrevOf(b, bad) = b
    <2>1. PICK h \in 0 .. H : validPrevOf(b, bad) = ancestor[b][h]
      BY <1>7
    <2>2. nHeight[validPrevOf(b, bad)] = h
      BY <2>1, AncestorAssumption
    <2>3. h = H
      BY <2>1, <2>2, <1>1, <1>7, <1>8
    <2>4. QED
      BY <2>1, <2>3, <1>1
  <1>9. OnBranch(validPrevOf(b, bad), b)
    <2>1. PICK h \in 0 .. H : validPrevOf(b, bad) = ancestor[b][h]
      BY <1>7
    <2>2. nHeight[validPrevOf(b, bad)] = h /\ ~(h > H)
      BY <1>1, <2>1, AncestorAssumption
    <2>3. QED
      BY <2>1, <2>2 DEF OnBranch, GetAncestor
  <1>10. QED
    BY <1>1, <1>7, <1>8, <1>9

LEMMA IsPathOfBlock ==
  ASSUME NEW chain, NEW b \in Block, chain = PathTo(b)
  PROVE  IsPath(chain)
  BY DEF IsPath

LEMMA SwitchKeepsPath ==
  ASSUME NEW chain, IsPath(chain), NEW v \in Block, NEW b, NEW work,
         SwitchToMoreWork(chain, v, b, work)
  PROVE  IsPath(headersChain')
  BY SetTipGivesPath, IsPathOfBlock DEF SwitchToMoreWork

\* The headers that the list may hold after DropTips, and the chain may end in.
Left(b, bad) ==
  {validPrevOf(b, bad)} \cup {t \in Range(headerChainTips) : ~OnBranch(b, t)}

\* Whatever tips DropTips goes through, its validPrev is one of these.
LEMMA DropTipsOf ==
  ASSUME headerChainTips \in Seq(Block), NEW b \in Block, NEW bad, Genesis \notin bad,
         DropTips(b, bad, nChainWork)
  PROVE  /\ Left(b, bad) \subseteq Block
         /\ headerChainTips' \in Seq(Left(b, bad))
         /\ \E v, w \in Left(b, bad) :
              \/ /\ \A t \in Range(headerChainTips) : OnBranch(b, t) => ~InChain(headersChain, t)
                 /\ SwitchToMoreWork(headersChain, v, b, nChainWork)
              \/ SwitchToMoreWork(SetTip(headersChain, w), v, b, nChainWork)
  <1> DEFINE n == Len(headerChainTips)
             L == Left(b, bad)
             kept == {i \in 1 .. n : ~OnBranch(b, headerChainTips[i])}
             Holds(i, v) == i \in kept /\ OnBranch(v, headerChainTips[i])
             main == {i \in (1 .. n) \ kept : InChain(headersChain, headerChainTips[i])}
             More(v, i) == Holds(i, v) /\ nChainWork[v] < nChainWork[headerChainTips[i]]
  <1>1. PICK validPrev \in [0 .. n -> Range(headerChainTips) \cup {validPrevOf(b, bad)}] :
          /\ validPrev[0] = validPrevOf(b, bad)
          /\ \A i \in 1 .. n :
               validPrev[i] = IF More(validPrev[i - 1], i)
                                THEN headerChainTips[i] ELSE validPrev[i - 1]
          /\ \E m \in 0 .. n : \E at \in [1 .. m -> kept] :
               \/ headerChainTips' = [k \in 1 .. m |-> headerChainTips[at[k]]]
               \/ headerChainTips' = Append([k \in 1 .. m |-> headerChainTips[at[k]]],
                                            validPrev[n])
          /\ \/ main = {} /\ SwitchToMoreWork(headersChain, validPrev[n], b, nChainWork)
             \/ \E i \in main :
                  SwitchToMoreWork(SetTip(headersChain, validPrev[i - 1]), validPrev[n], b,
                                   nChainWork)
    BY Zenon DEF DropTips
  <1>2. /\ n \in Nat /\ DOMAIN headerChainTips = 1 .. n
        /\ \A i \in 1 .. n : headerChainTips[i] \in Block
        /\ \A i \in 1 .. n : headerChainTips[i] \in Range(headerChainTips)
        /\ \A t \in Range(headerChainTips) : \E i \in 1 .. n : t = headerChainTips[i]
    BY DEF Range
  <1>3. \A i \in kept : headerChainTips[i] \in L
    BY <1>2 DEF Left
  <1>4. L \subseteq Block
    BY <1>2, ValidPrevExists DEF Left
  <1> HIDE DEF L, n
  <1>5. ASSUME NEW m \in 0 .. n, validPrev[m] \notin L PROVE FALSE
    <2> DEFINE Bad == {i \in 0 .. n : validPrev[i] \notin L}
    <2>1. Bad \subseteq Nat /\ Bad # {}
      BY <1>2, <1>5
    <2> HIDE DEF Bad
    <2>2. PICK k \in Bad : \A j \in Bad : ~(<<j, k>> \in OpToRel(<, Nat))
      BY <2>1, NatLessThanWellFounded, WFMin, Zenon
    <2>3. \A j \in Bad : ~(j < k)
      BY <2>1, <2>2, Zenon DEF OpToRel
    <2>4. k # 0
      BY <1>1, <2>2, Zenon DEF Left, L, Bad
    <2>5. k \in 1 .. n /\ k - 1 \in 0 .. n /\ k - 1 < k
      <3>1. k \in 0 .. n
        BY <2>2, Zenon DEF Bad
      <3>2. QED
        BY <1>2, <2>4, <3>1
    <2>6. validPrev[k - 1] \in L
      BY <2>3, <2>5, Zenon DEF Bad
    <2>7. (validPrev[k] = headerChainTips[k] /\ k \in kept) \/ validPrev[k] = validPrev[k - 1]
      BY <1>1, <2>5
    <2>8. QED
      BY <1>3, <2>2, <2>6, <2>7, Zenon DEF Bad
  <1>6. headerChainTips' \in Seq(L)
    <2>0. PICK m \in 0 .. n : \E at \in [1 .. m -> kept] :
               \/ headerChainTips' = [k \in 1 .. m |-> headerChainTips[at[k]]]
               \/ headerChainTips' = Append([k \in 1 .. m |-> headerChainTips[at[k]]],
                                            validPrev[n])
      BY <1>1, Zenon
    <2>1. PICK at \in [1 .. m -> kept] :
               \/ headerChainTips' = [k \in 1 .. m |-> headerChainTips[at[k]]]
               \/ headerChainTips' = Append([k \in 1 .. m |-> headerChainTips[at[k]]],
                                            validPrev[n])
      BY <2>0, Zenon
    <2> DEFINE s == [k \in 1 .. m |-> headerChainTips[at[k]]]
    <2>2. s \in [1 .. m -> L] /\ m \in Nat
      BY <1>2, <1>3
    <2> HIDE DEF s
    <2>3. s \in Seq(L)
      BY <2>2, FunctionIsSeq
    <2>4. validPrev[n] \in L
      BY <1>2, <1>5
    <2>5. Append(s, validPrev[n]) \in Seq(L)
      BY <2>3, <2>4, AppendOf
    <2>6. QED
      BY <2>1, <2>3, <2>5, Zenon DEF s
  <1>7. \E v, w \in L :
           \/ /\ \A t \in Range(headerChainTips) : OnBranch(b, t) => ~InChain(headersChain, t)
              /\ SwitchToMoreWork(headersChain, v, b, nChainWork)
           \/ SwitchToMoreWork(SetTip(headersChain, w), v, b, nChainWork)
    <2>1. validPrev[n] \in L
      BY <1>2, <1>5
    <2>2. CASE main = {} /\ SwitchToMoreWork(headersChain, validPrev[n], b, nChainWork)
      <3>1. ASSUME NEW t \in Range(headerChainTips), OnBranch(b, t)
            PROVE  ~InChain(headersChain, t)
        <4>1. PICK i \in 1 .. n : t = headerChainTips[i]
          BY <1>2
        <4>2. i \notin kept
          BY <3>1, <4>1
        <4>3. QED
          BY <2>2, <4>1, <4>2
      <3>2. QED
        BY <2>1, <2>2, <3>1
    <2>3. ASSUME NEW i \in main,
                 SwitchToMoreWork(SetTip(headersChain, validPrev[i - 1]), validPrev[n], b,
                                  nChainWork)
          PROVE  \E v, w \in L : SwitchToMoreWork(SetTip(headersChain, w), v, b, nChainWork)
      <3>1. i - 1 \in 0 .. n
        BY <1>2
      <3>2. validPrev[i - 1] \in L
        BY <1>5, <3>1
      <3>3. QED
        BY <2>1, <2>3, <3>2
    <2>4. QED
      BY <1>1, <2>2, <2>3, Zenon
  <1>8. QED
    BY <1>4, <1>6, <1>7 DEF L

LEMMA AppendKeepsPath ==
  ASSUME IsPath(headersChain), headerChainTips \in Seq(Block), NEW b \in Block,
         NEW bad, Genesis \notin bad, appendHeader(b, bad, nChainWork)
  PROVE  IsPath(headersChain') /\ headerChainTips' \in Seq(Block)
  <1>1. validPrevOf(b, bad) \in Block
    BY ValidPrevExists
  <1>2. CASE UNCHANGED dbVars
    BY <1>2 DEF dbVars
  <1>3. ASSUME NEW i \in 1 .. Len(headerChainTips), ReplaceTip(i, b, bad, nChainWork)
        PROVE  IsPath(headersChain') /\ headerChainTips' \in Seq(Block)
    <2>1. ASSUME headersChain' = SetTip(headersChain, validPrevOf(b, bad))
          PROVE  IsPath(headersChain')
      BY <2>1, <1>1, SetTipGivesPath, IsPathOfBlock
    <2>2. ASSUME SwitchToMoreWork(headersChain, validPrevOf(b, bad), b, nChainWork)
          PROVE  IsPath(headersChain')
      BY <2>2, <1>1, SwitchKeepsPath
    <2>3. headerChainTips' = Append(erase(headerChainTips, i), validPrevOf(b, bad))
      BY <1>3 DEF ReplaceTip
    <2>4. erase(headerChainTips, i) \in Seq(Block)
      BY EraseOf
    <2>5. headerChainTips' \in Seq(Block)
      BY <1>1, <2>3, <2>4, AppendOf
    <2>6. QED
      BY <1>3, <2>1, <2>2, <2>5 DEF ReplaceTip
  <1>4. CASE AddTip(b, nChainWork)
    <2>1. ASSUME headersChain' = SetTip(headersChain, b)
          PROVE  IsPath(headersChain')
      BY <2>1, SetTipGivesPath, IsPathOfBlock
    <2>2. ASSUME SwitchToMoreWork(headersChain, b, b, nChainWork)
          PROVE  IsPath(headersChain')
      BY <2>2, SwitchKeepsPath
    <2>3. headerChainTips' \in Seq(Block)
      BY <1>4, AppendOf DEF AddTip
    <2>4. QED
      BY <1>4, <2>1, <2>2, <2>3 DEF AddTip
  <1>5. CASE DropTips(b, bad, nChainWork)
    <2>1. Left(b, bad) \subseteq Block /\ headerChainTips' \in Seq(Left(b, bad))
      BY <1>5, DropTipsOf
    <2>2. PICK v \in Left(b, bad), w \in Left(b, bad) :
            \/ SwitchToMoreWork(headersChain, v, b, nChainWork)
            \/ SwitchToMoreWork(SetTip(headersChain, w), v, b, nChainWork)
      BY <1>5, DropTipsOf
    <2>3. v \in Block /\ w \in Block
      BY <2>1
    <2>4. IsPath(SetTip(headersChain, w))
      BY <2>3, SetTipGivesPath, IsPathOfBlock
    <2>5. IsPath(headersChain')
      BY <2>2, <2>3, <2>4, SwitchKeepsPath
    <2>6. QED
      BY <2>1, <2>5
  <1>6. \/ UNCHANGED dbVars \/ AddTip(b, nChainWork) \/ DropTips(b, bad, nChainWork)
        \/ \E i \in 1 .. Len(headerChainTips) : ReplaceTip(i, b, bad, nChainWork)
    BY Zenon DEF appendHeader
  <1>7. QED
    BY <1>2, <1>3, <1>4, <1>5, <1>6

LEMMA PathInvInductive ==
  ASSUME PathInv, [RpcNext]_vars
  PROVE  PathInv'
  <1>1. CASE UNCHANGED vars
    BY <1>1 DEF vars, PathInv, IsPath
  <1>2. ASSUME NEW b \in Block, AcceptHeader(b) PROVE PathInv'
    BY <1>2, AppendKeepsPath DEF AcceptHeader, PathInv
  <1>3. ASSUME NEW b \in Block, handleFailedBlock(b) PROVE PathInv'
    <2>1. /\ b # Genesis
          /\ indexMap' = indexMap \cup {b}
          /\ failed' = MarkedWith(b)
          /\ appendHeader(b, MarkedWith(b), nChainWork)
      BY <1>3 DEF handleFailedBlock
    <2>2. MarkedWith(b) \subseteq Block \ {Genesis}
      BY <2>1, TreeAssumption DEF MarkedWith, PathInv
    <2>3. QED
      BY <2>1, <2>2, AppendKeepsPath DEF PathInv
  <1>4. ASSUME NEW b \in Block, invalidateBlock(b) PROVE PathInv'
    <2>1. failed' = failed \cup {b} /\ b # Genesis /\ UNCHANGED indexMap
          /\ appendHeader(b, failed', nChainWork)
      BY <1>4 DEF invalidateBlock
    <2>2. QED
      BY <2>1, AppendKeepsPath DEF PathInv
  <1>5. ASSUME NEW b \in Block, reconsiderBlock(b) PROVE PathInv'
    BY <1>5 DEF reconsiderBlock, PathInv
  <1>6. QED
    BY <1>1, <1>2, <1>3, <1>4, <1>5 DEF RpcNext, Next

LEMMA PathInvInitially == Init => PathInv
  BY DEF Init, PathInv, IsPath

LEMMA PathInvImpliesPath == PathInv => ChainIsPath
  <1>1. ASSUME PathInv, NEW i \in 1 .. Len(headersChain)
        PROVE  headersChain[i] = ancestor[Tip(headersChain)][i - 1]
    <2>1. headersChain # <<>>
      BY <1>1
    <2>2. PICK t \in Block : headersChain = PathTo(t)
      BY <1>1, <2>1 DEF PathInv, IsPath
    <2>3. QED
      BY <1>1, <2>2, PathToProperties, Zenon
  <1>2. QED
    BY <1>1 DEF ChainIsPath

\* Whatever headers arrive, fail, are invalidated or reconsidered, vChain holds
\* at every height the ancestor of its tip: CChain::SetTip never leaves an entry
\* of an abandoned branch behind.
THEOREM ChainAlwaysPath == RpcSpec => []ChainIsPath
  <1>1. PathInv /\ [RpcNext]_vars => PathInv'
    BY PathInvInductive
  <1>2. QED
    BY <1>1, PathInvInitially, PathInvImpliesPath, PTL DEF RpcSpec

-----------------------------------------------------------------------------

Work(chain) == nChainWork[Tip(chain)]

LEMMA LastOfPath ==
  ASSUME NEW chain, IsPath(chain), chain # <<>>
  PROVE  /\ Tip(chain) \in Block
         /\ Work(chain) \in Nat
         /\ chain = PathTo(Tip(chain))
  BY PathToProperties, TreeAssumption DEF IsPath, Work

LEMMA WorkOfSetTip ==
  ASSUME NEW chain, IsPath(chain), NEW b \in Block
  PROVE  /\ SetTip(chain, b) # <<>>
         /\ Work(SetTip(chain, b)) = nChainWork[b]
         /\ nChainWork[b] \in Nat
  BY SetTipGivesPath, PathToProperties, TreeAssumption DEF Work

\* An ancestor has no more work.
LEMMA BranchWork ==
  ASSUME NEW a \in Block, NEW t \in Block, OnBranch(a, t)
  PROVE  nChainWork[a] <= nChainWork[t]
  <1>1. nHeight[a] \in Nat /\ nHeight[t] \in Nat /\ NULL \notin Block
    BY TreeAssumption
  <1>2. nHeight[a] \in 0 .. nHeight[t] /\ ancestor[t][nHeight[a]] = a
    BY <1>1 DEF OnBranch, GetAncestor
  <1>3. QED
    BY <1>2, AncestorAssumption

\* What appendHeader does with a header that did not fail.
LEMMA AppendValid ==
  ASSUME IsPath(headersChain), headersChain # <<>>,
         NEW b \in Block, NEW bad, Genesis \notin bad, b \notin bad,
         appendHeader(b, bad, nChainWork)
  PROVE  /\ headersChain' # <<>>
         /\ Work(headersChain') \in Nat
         /\ Work(headersChain') >= Work(headersChain)
         /\ \/ Work(headersChain') >= nChainWork[b]
            \/ \E i \in 1 .. Len(headerChainTips) : OnBranch(b, headerChainTips[i])
         /\ \/ UNCHANGED headerChainTips
            \/ headerChainTips' = Append(headerChainTips, b)
            \/ \E i \in 1 .. Len(headerChainTips) :
                 headerChainTips' = Append(erase(headerChainTips, i), b)
  <1>1. validPrevOf(b, bad) = b
    BY ValidPrevExists
  <1>2. Tip(headersChain) \in Block /\ Work(headersChain) \in Nat
        /\ nChainWork[b] \in Nat /\ headersChain = PathTo(Tip(headersChain))
    BY LastOfPath, TreeAssumption
  <1>3. ASSUME SwitchToMoreWork(headersChain, b, b, nChainWork)
        PROVE  /\ headersChain' # <<>>
               /\ Work(headersChain') \in Nat
               /\ Work(headersChain') >= Work(headersChain)
               /\ Work(headersChain') >= nChainWork[b]
    BY <1>2, <1>3, WorkOfSetTip DEF SwitchToMoreWork, Work
  <1>4. CASE InChain(headersChain, b) /\ UNCHANGED dbVars
    <2> DEFINE t == Tip(headersChain)
    <2>1. nHeight[b] \in Nat /\ nHeight[t] \in Nat
      BY <1>2, TreeAssumption
    <2>2. nHeight[b] \in 0 .. nHeight[t] /\ ancestor[t][nHeight[b]] = b
      BY <1>2, <1>4, <2>1, PathToProperties DEF InChain, PathTo
    <2>3. nChainWork[b] <= nChainWork[t]
      BY <1>2, <2>2, AncestorAssumption
    <2>4. QED
      BY <1>2, <1>4, <2>3 DEF dbVars, Work
  <1>5. ASSUME NEW i \in 1 .. Len(headerChainTips), OnBranch(headerChainTips[i], b),
               ReplaceTip(i, b, bad, nChainWork)
        PROVE  /\ headersChain' # <<>>
               /\ Work(headersChain') \in Nat
               /\ Work(headersChain') >= Work(headersChain)
               /\ Work(headersChain') >= nChainWork[b]
               /\ headerChainTips' = Append(erase(headerChainTips, i), b)
    <2>1. headerChainTips' = Append(erase(headerChainTips, i), b)
      BY <1>1, <1>5 DEF ReplaceTip
    <2>2. CASE headerChainTips[i] = Tip(headersChain)
      <3>1. headersChain' = SetTip(headersChain, b)
        BY <1>1, <1>5, <2>2 DEF ReplaceTip
      <3>2. nChainWork[Tip(headersChain)] <= nChainWork[b]
        BY <1>2, <1>5, <2>2, BranchWork
      <3>3. QED
        BY <1>2, <2>1, <3>1, <3>2, WorkOfSetTip DEF Work
    <2>3. CASE headerChainTips[i] # Tip(headersChain)
      <3>1. SwitchToMoreWork(headersChain, b, b, nChainWork)
        BY <1>1, <1>5, <2>3 DEF ReplaceTip
      <3>2. QED
        BY <1>3, <2>1, <3>1
    <2>4. QED
      BY <2>2, <2>3
  <1>6. CASE AddTip(b, nChainWork)
    <2>1. SwitchToMoreWork(headersChain, b, b, nChainWork)
          /\ headerChainTips' = Append(headerChainTips, b)
      BY <1>6 DEF AddTip
    <2>2. QED
      BY <1>3, <2>1
  <1>7. CASE /\ \E i \in 1 .. Len(headerChainTips) : OnBranch(b, headerChainTips[i])
             /\ UNCHANGED dbVars
    BY <1>2, <1>7 DEF dbVars
  <1>8. \/ InChain(headersChain, b) /\ UNCHANGED dbVars
        \/ \E i \in 1 .. Len(headerChainTips) :
             OnBranch(headerChainTips[i], b) /\ ReplaceTip(i, b, bad, nChainWork)
        \/ AddTip(b, nChainWork)
        \/ (\E i \in 1 .. Len(headerChainTips) : OnBranch(b, headerChainTips[i]))
           /\ UNCHANGED dbVars
    BY DEF appendHeader
  <1>9. CASE \E i \in 1 .. Len(headerChainTips) :
               OnBranch(headerChainTips[i], b) /\ ReplaceTip(i, b, bad, nChainWork)
    BY <1>5, <1>9
  <1>10. QED
    BY <1>4, <1>6, <1>7, <1>8, <1>9

\* A header that arrives never makes the header chain lose work, also after
\* failures and the RPCs: appendHeader leaves a branch only for more work.
THEOREM WorkNeverDropsHolds == RpcSpec => WorkNeverDrops
  <1>1. ASSUME PathInv, headersChain # <<>>, NEW b \in Block, AcceptHeader(b)
        PROVE  Work(headersChain') >= Work(headersChain)
    <2>1. Genesis \notin failed /\ b \notin failed /\ IsPath(headersChain)
          /\ appendHeader(b, failed, nChainWork)
      BY <1>1 DEF PathInv, AcceptHeader
    <2>2. QED
      BY <1>1, <2>1, AppendValid
  <1>2. PathInv /\ [RpcNext]_vars => PathInv'
    BY PathInvInductive
  <1>3. PathInv => [(headersChain # <<>> /\ \E b \in Block : AcceptHeader(b)) =>
                       nChainWork[Tip(headersChain')] >= nChainWork[Tip(headersChain)]]_vars
    BY <1>1 DEF Work
  <1>4. QED
    BY <1>2, <1>3, PathInvInitially, PTL DEF RpcSpec, WorkNeverDrops

-----------------------------------------------------------------------------

\* MostWork is inductive together with: the list of tips holds only known
\* headers, and the header chain is empty only as long as no header is known.
WorkInv ==
  failed = {} =>
    /\ headerChainTips \in Seq(indexMap)
    /\ indexMap # {} => headersChain # <<>>
    /\ headersChain = <<>> => headerChainTips = <<>>
    /\ \A b \in indexMap : nChainWork[b] <= nChainWork[Tip(headersChain)]

\* The first header: the genesis.
LEMMA AppendFirst ==
  ASSUME headersChain = <<>>, headerChainTips = <<>>,
         NEW b \in Block, appendHeader(b, {}, nChainWork)
  PROVE  headerChainTips' = <<b>> /\ headersChain' = PathTo(b)
  <1>1. ~InChain(headersChain, b)
    BY TreeAssumption DEF InChain
  <1>2. AddTip(b, nChainWork)
    BY <1>1 DEF appendHeader
  <1>3. QED
    BY <1>2, SetTipGivesPath DEF AddTip, IsPath

LEMMA WorkInvInductive ==
  ASSUME PathInv, WorkInv, [Next]_vars
  PROVE  WorkInv'
  <1>1. CASE UNCHANGED vars
    BY <1>1 DEF vars, WorkInv, Tip
  <1>2. ASSUME NEW b \in Block, handleFailedBlock(b) PROVE WorkInv'
    <2>1. failed' # {}
      BY <1>2 DEF handleFailedBlock, MarkedWith
    <2>2. QED
      BY <2>1 DEF WorkInv
  <1>3. ASSUME NEW b \in Block, AcceptHeader(b), failed' = {} PROVE WorkInv'
    <2>1. /\ failed = {} /\ indexMap' = indexMap \cup {b}
          /\ appendHeader(b, {}, nChainWork)
          /\ IsPath(headersChain) /\ indexMap \subseteq Block
      BY <1>3 DEF AcceptHeader, PathInv
    <2>2. /\ headerChainTips \in Seq(indexMap)
          /\ indexMap # {} => headersChain # <<>>
          /\ headersChain = <<>> => headerChainTips = <<>>
          /\ \A c \in indexMap : nChainWork[c] <= Work(headersChain)
      BY <2>1 DEF WorkInv, Work
    <2>3. \A c \in Block : nChainWork[c] \in Nat
      BY TreeAssumption
    <2>4. CASE headersChain = <<>>
      <3>1. headerChainTips' = <<b>> /\ headersChain' = PathTo(b) /\ indexMap = {}
        BY <2>1, <2>2, <2>4, AppendFirst
      <3>2. headersChain' # <<>> /\ Tip(headersChain') = b
        BY <3>1, PathToProperties
      <3>3. QED
        BY <2>1, <2>3, <3>1, <3>2 DEF WorkInv
    <2>5. CASE headersChain # <<>>
      <3>1. /\ headersChain' # <<>>
            /\ Work(headersChain') \in Nat
            /\ Work(headersChain') >= Work(headersChain)
            /\ \/ Work(headersChain') >= nChainWork[b]
               \/ \E i \in 1 .. Len(headerChainTips) : OnBranch(b, headerChainTips[i])
            /\ \/ UNCHANGED headerChainTips
               \/ headerChainTips' = Append(headerChainTips, b)
               \/ \E i \in 1 .. Len(headerChainTips) :
                    headerChainTips' = Append(erase(headerChainTips, i), b)
        BY <2>1, <2>5, AppendValid
      <3>2. headerChainTips' \in Seq(indexMap')
        <4>1. headerChainTips \in Seq(indexMap \cup {b}) /\ b \in indexMap \cup {b}
          BY <2>2
        <4>2. \A i \in 1 .. Len(headerChainTips) :
                erase(headerChainTips, i) \in Seq(indexMap \cup {b})
          BY <4>1, EraseOf
        <4>3. \A q \in Seq(indexMap \cup {b}) : Append(q, b) \in Seq(indexMap \cup {b})
          BY <4>1, AppendOf
        <4>4. QED
          BY <2>1, <3>1, <4>1, <4>2, <4>3, Zenon
      <3>3. Work(headersChain) \in Nat
        BY <2>1, <2>5, LastOfPath
      <3>4. Work(headersChain') >= nChainWork[b]
        <4>1. ASSUME NEW i \in 1 .. Len(headerChainTips), OnBranch(b, headerChainTips[i])
              PROVE  Work(headersChain') >= nChainWork[b]
          <5>1. headerChainTips[i] \in indexMap
            BY <2>2, SeqOf
          <5>2. nChainWork[b] <= nChainWork[headerChainTips[i]]
            BY <2>1, <4>1, <5>1, BranchWork
          <5>3. nChainWork[headerChainTips[i]] <= Work(headersChain)
            BY <2>2, <5>1
          <5>4. QED
            BY <2>1, <2>3, <3>1, <3>3, <5>1, <5>2, <5>3
        <4>2. QED
          BY <3>1, <4>1
      <3>5. \A c \in indexMap' : nChainWork[c] <= Work(headersChain')
        BY <2>1, <2>2, <2>3, <3>1, <3>3, <3>4
      <3>6. QED
        BY <3>1, <3>2, <3>5 DEF WorkInv, Work
    <2>6. QED
      BY <2>4, <2>5
  <1>4. QED
    BY <1>1, <1>2, <1>3 DEF Next, WorkInv

\* As long as no header failed, the header chain has the most work of all known
\* headers, for every tree of headers and every order in which appendHeader is
\* called for them.
THEOREM MostWorkHolds == Spec => []MostWork
  <1>1. Init => PathInv /\ WorkInv
    BY PathInvInitially DEF Init, WorkInv
  <1>2. PathInv /\ [Next]_vars => PathInv'
    BY PathInvInductive DEF RpcNext
  <1>3. PathInv /\ WorkInv /\ [Next]_vars => WorkInv'
    BY WorkInvInductive
  <1>4. WorkInv => MostWork
    BY DEF WorkInv, MostWork
  <1>5. QED
    BY <1>1, <1>2, <1>3, <1>4, PTL DEF Spec

-----------------------------------------------------------------------------
(* Branches of the tree of headers. *)

LEMMA BranchOf ==
  ASSUME NEW a \in Block, NEW t \in Block
  PROVE  /\ OnBranch(a, t) <=> nHeight[a] <= nHeight[t] /\ ancestor[t][nHeight[a]] = a
         /\ nHeight[a] \in Nat /\ nHeight[t] \in Nat
         /\ OnBranch(a, t) => nHeight[a] \in 0 .. nHeight[t]
  BY TreeAssumption DEF OnBranch, GetAncestor

LEMMA BranchRefl == ASSUME NEW a \in Block PROVE OnBranch(a, a)
  BY BranchOf, TreeAssumption

LEMMA BranchTrans ==
  ASSUME NEW a \in Block, NEW b \in Block, NEW c \in Block, OnBranch(a, b), OnBranch(b, c)
  PROVE  OnBranch(a, c)
  <1>1. /\ nHeight[a] <= nHeight[b] /\ ancestor[b][nHeight[a]] = a /\ nHeight[a] \in Nat
        /\ nHeight[b] <= nHeight[c] /\ ancestor[c][nHeight[b]] = b /\ nHeight[b] \in Nat
        /\ nHeight[c] \in Nat
    BY BranchOf
  <1>2. nHeight[b] \in 0 .. nHeight[c] /\ nHeight[a] \in 0 .. nHeight[b]
    BY <1>1
  <1>3. ancestor[ancestor[c][nHeight[b]]][nHeight[a]] = ancestor[c][nHeight[a]]
    BY <1>2, AncestorAssumption
  <1>4. QED
    BY <1>1, <1>3, BranchOf

\* Two ancestors of the same header are on one branch.
LEMMA BranchLinear ==
  ASSUME NEW a \in Block, NEW b \in Block, NEW t \in Block, OnBranch(a, t), OnBranch(b, t)
  PROVE  OnBranch(a, b) \/ OnBranch(b, a)
  <1>1. /\ nHeight[a] \in 0 .. nHeight[t] /\ ancestor[t][nHeight[a]] = a
        /\ nHeight[b] \in 0 .. nHeight[t] /\ ancestor[t][nHeight[b]] = b
        /\ nHeight[a] \in Nat /\ nHeight[b] \in Nat
    BY BranchOf
  <1>2. CASE nHeight[a] <= nHeight[b]
    <2>1. nHeight[a] \in 0 .. nHeight[b]
      BY <1>1, <1>2
    <2>2. ancestor[ancestor[t][nHeight[b]]][nHeight[a]] = ancestor[t][nHeight[a]]
      BY <1>1, <2>1, AncestorAssumption
    <2>3. QED
      BY <1>1, <1>2, <2>2, BranchOf
  <1>3. CASE nHeight[b] <= nHeight[a]
    <2>1. nHeight[b] \in 0 .. nHeight[a]
      BY <1>1, <1>3
    <2>2. ancestor[ancestor[t][nHeight[a]]][nHeight[b]] = ancestor[t][nHeight[b]]
      BY <1>1, <2>1, AncestorAssumption
    <2>3. QED
      BY <1>1, <1>3, <2>2, BranchOf
  <1>4. QED
    BY <1>1, <1>2, <1>3

LEMMA BranchAntisym ==
  ASSUME NEW a \in Block, NEW b \in Block, OnBranch(a, b), OnBranch(b, a)
  PROVE  a = b
  <1>1. /\ nHeight[a] <= nHeight[b] /\ ancestor[b][nHeight[a]] = a /\ nHeight[a] \in Nat
        /\ nHeight[b] <= nHeight[a] /\ nHeight[b] \in Nat
    BY BranchOf
  <1>2. nHeight[a] = nHeight[b] /\ ancestor[b][nHeight[b]] = b
    BY <1>1, TreeAssumption
  <1>3. QED
    BY <1>1, <1>2

LEMMA ParentBranch ==
  ASSUME NEW b \in Block \ {Genesis}
  PROVE  /\ pprev[b] \in Block /\ OnBranch(pprev[b], b)
         /\ \A a \in Block : OnBranch(a, b) => a = b \/ OnBranch(a, pprev[b])
  <1>1. /\ pprev[b] \in Block /\ nHeight[b] = nHeight[pprev[b]] + 1
        /\ \A h \in 0 .. nHeight[pprev[b]] : ancestor[b][h] = ancestor[pprev[b]][h]
        /\ nHeight[b] \in Nat /\ nHeight[pprev[b]] \in Nat
        /\ ancestor[pprev[b]][nHeight[pprev[b]]] = pprev[b]
        /\ ancestor[b][nHeight[b]] = b
    BY TreeAssumption
  <1>2. OnBranch(pprev[b], b)
    BY <1>1, BranchOf
  <1>3. ASSUME NEW a \in Block, OnBranch(a, b), a # b PROVE OnBranch(a, pprev[b])
    <2>1. nHeight[a] \in 0 .. nHeight[b] /\ ancestor[b][nHeight[a]] = a
      BY <1>3, BranchOf
    <2>2. nHeight[a] # nHeight[b]
      BY <1>1, <1>3, <2>1
    <2>3. nHeight[a] \in 0 .. nHeight[pprev[b]] /\ nHeight[a] <= nHeight[pprev[b]]
      BY <1>1, <2>1, <2>2
    <2>4. QED
      BY <1>1, <2>1, <2>3, BranchOf
  <1>4. QED
    BY <1>1, <1>2, <1>3

\* A header of a path is on the branch of its tip.
LEMMA InChainBranch ==
  ASSUME NEW chain, IsPath(chain), NEW b \in Block, InChain(chain, b)
  PROVE  chain # <<>> /\ Tip(chain) \in Block /\ OnBranch(b, Tip(chain))
  <1>1. nHeight[b] \in Nat /\ nHeight[b] < Len(chain) /\ chain[nHeight[b] + 1] = b
    BY TreeAssumption DEF InChain
  <1>2. chain # <<>>
    BY <1>1
  <1>3. PICK t \in Block : chain = PathTo(t)
    BY <1>2 DEF IsPath
  <1>4. Len(chain) = nHeight[t] + 1 /\ Tip(chain) = t /\ nHeight[t] \in Nat
    BY <1>3, PathToProperties, TreeAssumption
  <1>5. nHeight[b] + 1 \in 1 .. nHeight[t] + 1 /\ (nHeight[b] + 1) - 1 = nHeight[b]
        /\ nHeight[b] <= nHeight[t]
    BY <1>1, <1>4
  <1>6. ancestor[t][nHeight[b]] = b
    BY <1>1, <1>3, <1>5, PathToProperties, Zenon
  <1>7. QED
    BY <1>2, <1>4, <1>5, <1>6, BranchOf

\* And the tip is a header of it.
LEMMA TipInChain ==
  ASSUME NEW chain, IsPath(chain), chain # <<>>
  PROVE  InChain(chain, Tip(chain))
  <1>1. PICK t \in Block : chain = PathTo(t)
    BY DEF IsPath
  <1>2. Len(chain) = nHeight[t] + 1 /\ Tip(chain) = t /\ nHeight[t] \in Nat
    BY <1>1, PathToProperties, TreeAssumption
  <1>3. QED
    BY <1>2 DEF InChain, Tip

-----------------------------------------------------------------------------
(* What appendHeader does to the list of tips and to the tip of the chain. *)

LEMMA SwitchOf ==
  ASSUME NEW chain, IsPath(chain), chain # <<>>, NEW v \in Block, NEW b, NEW work,
         SwitchToMoreWork(chain, v, b, work)
  PROVE  /\ headersChain' # <<>>
         /\ Tip(headersChain') = v \/ headersChain' = chain
         /\ pindexBestHeader' \in {b, pindexBestHeader}
  BY SetTipGivesPath, PathToProperties DEF SwitchToMoreWork

\* What it does with a header that did not fail: nothing, or the header takes the
\* place of a tip, or it becomes one more tip.
Moved(b) ==
  /\ headersChain' # <<>>
  /\ Tip(headersChain') = b \/ (headersChain # <<>> /\ headersChain' = headersChain)
  /\ pindexBestHeader' \in {b, pindexBestHeader}

Stays(b) ==
  /\ \/ InChain(headersChain, b)
     \/ \E i \in 1 .. Len(headerChainTips) : OnBranch(b, headerChainTips[i])
  /\ UNCHANGED dbVars

Extends(i, b) ==
  /\ OnBranch(headerChainTips[i], b)
  /\ headerChainTips' = Append(erase(headerChainTips, i), b) /\ Moved(b)
  /\ headerChainTips[i] = Tip(headersChain) => Tip(headersChain') = b

Forks(b) ==
  /\ \A i \in 1 .. Len(headerChainTips) :
       ~OnBranch(headerChainTips[i], b) /\ ~OnBranch(b, headerChainTips[i])
  /\ headerChainTips' = Append(headerChainTips, b) /\ Moved(b)

LEMMA AppendGood ==
  ASSUME IsPath(headersChain), headersChain = <<>> => headerChainTips = <<>>,
         NEW b \in Block, NEW bad, Genesis \notin bad, b \notin bad,
         appendHeader(b, bad, nChainWork)
  PROVE  Stays(b) \/ Forks(b) \/ \E i \in 1 .. Len(headerChainTips) : Extends(i, b)
  <1> DEFINE n == Len(headerChainTips)
  <1>1. validPrevOf(b, bad) = b
    BY ValidPrevExists
  <1>2. Tip(SetTip(headersChain, b)) = b /\ SetTip(headersChain, b) # <<>>
    BY SetTipGivesPath, PathToProperties
  <1>3. ASSUME headersChain # <<>>, SwitchToMoreWork(headersChain, b, b, nChainWork)
        PROVE  Moved(b)
    BY <1>3, SwitchOf DEF Moved
  <1>4. ASSUME NEW i \in 1 .. n, ReplaceTip(i, b, bad, nChainWork),
               OnBranch(headerChainTips[i], b)
        PROVE  Extends(i, b)
    <2>1. /\ headerChainTips' = Append(erase(headerChainTips, i), b)
          /\ IF headerChainTips[i] = Tip(headersChain)
               THEN headersChain' = SetTip(headersChain, b) /\ pindexBestHeader' = b
               ELSE SwitchToMoreWork(headersChain, b, b, nChainWork)
      BY <1>1, <1>4 DEF ReplaceTip
    <2>2. headersChain # <<>>
      BY <1>4
    <2>3. Moved(b) /\ (headerChainTips[i] = Tip(headersChain) => Tip(headersChain') = b)
      BY <1>2, <1>3, <2>1, <2>2 DEF Moved
    <2>4. QED
      BY <1>4, <2>1, <2>3 DEF Extends
  <1>5. ASSUME AddTip(b, nChainWork)
        PROVE  headerChainTips' = Append(headerChainTips, b) /\ Moved(b)
    BY <1>2, <1>3, <1>5 DEF AddTip, Moved
  <1>6. \/ Stays(b)
        \/ \E i \in 1 .. n : OnBranch(headerChainTips[i], b) /\ ReplaceTip(i, b, bad, nChainWork)
        \/ /\ \A i \in 1 .. n : ~OnBranch(headerChainTips[i], b) /\ ~OnBranch(b, headerChainTips[i])
           /\ AddTip(b, nChainWork)
    BY DEF appendHeader, Stays
  <1>7. QED
    BY <1>4, <1>5, <1>6 DEF Forks

\* A header that failed.
LEMMA AppendBad ==
  ASSUME IsPath(headersChain), headersChain # <<>>, headerChainTips \in Seq(Block),
         NEW b \in Block, NEW bad, Genesis \notin bad, b \in bad,
         appendHeader(b, bad, nChainWork)
  PROVE  LET n == Len(headerChainTips)
             v == validPrevOf(b, bad)
         IN  /\ headersChain' # <<>> /\ pindexBestHeader' \in {b, v, pindexBestHeader}
             /\ \/ \E i \in 1 .. n :
                     /\ OnBranch(headerChainTips[i], b)
                     /\ headerChainTips' = Append(erase(headerChainTips, i), v)
                     /\ \/ Tip(headersChain') = v
                        \/ headersChain' = headersChain
                           /\ Tip(headersChain) # headerChainTips[i]
                \/ /\ headerChainTips' \in Seq(Left(b, bad)) /\ Left(b, bad) \subseteq Block
                   /\ \/ Tip(headersChain') \in Left(b, bad)
                      \/ /\ headersChain' = headersChain
                         /\ \A t \in Range(headerChainTips) :
                              OnBranch(b, t) => ~InChain(headersChain, t)
  <1> DEFINE n == Len(headerChainTips)
             v == validPrevOf(b, bad)
  <1>1. v \in Block
    BY ValidPrevExists
  <1>2. \A w \in Block : Tip(SetTip(headersChain, w)) = w /\ SetTip(headersChain, w) # <<>>
                          /\ IsPath(SetTip(headersChain, w))
    BY SetTipGivesPath, PathToProperties, IsPathOfBlock
  <1>3. ASSUME NEW i \in 1 .. n, OnBranch(headerChainTips[i], b),
               ReplaceTip(i, b, bad, nChainWork)
        PROVE  /\ headersChain' # <<>> /\ pindexBestHeader' \in {b, v, pindexBestHeader}
               /\ headerChainTips' = Append(erase(headerChainTips, i), v)
               /\ \/ Tip(headersChain') = v
                  \/ headersChain' = headersChain /\ Tip(headersChain) # headerChainTips[i]
    <2>1. /\ headerChainTips' = Append(erase(headerChainTips, i), v)
          /\ IF headerChainTips[i] = Tip(headersChain)
               THEN headersChain' = SetTip(headersChain, v) /\ pindexBestHeader' = v
               ELSE SwitchToMoreWork(headersChain, v, b, nChainWork)
      BY <1>3 DEF ReplaceTip
    <2> HIDE DEF v
    <2>2. QED
      BY <1>1, <1>2, <2>1, SwitchOf
  <1>4. ASSUME DropTips(b, bad, nChainWork)
        PROVE  /\ headersChain' # <<>> /\ pindexBestHeader' \in {b, v, pindexBestHeader}
               /\ headerChainTips' \in Seq(Left(b, bad)) /\ Left(b, bad) \subseteq Block
               /\ \/ Tip(headersChain') \in Left(b, bad)
                  \/ /\ headersChain' = headersChain
                     /\ \A t \in Range(headerChainTips) :
                          OnBranch(b, t) => ~InChain(headersChain, t)
    <2>1. Left(b, bad) \subseteq Block /\ headerChainTips' \in Seq(Left(b, bad))
      BY <1>4, DropTipsOf
    <2>2. PICK x \in Left(b, bad), w \in Left(b, bad) :
            \/ /\ \A t \in Range(headerChainTips) : OnBranch(b, t) => ~InChain(headersChain, t)
               /\ SwitchToMoreWork(headersChain, x, b, nChainWork)
            \/ SwitchToMoreWork(SetTip(headersChain, w), x, b, nChainWork)
      BY <1>4, DropTipsOf
    <2>3. x \in Block /\ w \in Block
      BY <2>1
    <2>4. ASSUME SwitchToMoreWork(headersChain, x, b, nChainWork)
          PROVE  /\ headersChain' # <<>> /\ pindexBestHeader' \in {b, pindexBestHeader}
                 /\ Tip(headersChain') \in Left(b, bad) \/ headersChain' = headersChain
      BY <2>2, <2>3, <2>4, SwitchOf
    <2>5. ASSUME SwitchToMoreWork(SetTip(headersChain, w), x, b, nChainWork)
          PROVE  /\ headersChain' # <<>> /\ pindexBestHeader' \in {b, pindexBestHeader}
                 /\ Tip(headersChain') \in Left(b, bad)
      <3>1. /\ headersChain' # <<>> /\ pindexBestHeader' \in {b, pindexBestHeader}
            /\ Tip(headersChain') = x \/ headersChain' = SetTip(headersChain, w)
        BY <1>2, <2>3, <2>5, SwitchOf
      <3>2. QED
        BY <1>2, <2>2, <2>3, <3>1
    <2>6. QED
      BY <2>1, <2>2, <2>4, <2>5
  <1>5. \/ \E i \in 1 .. n : OnBranch(headerChainTips[i], b) /\ ReplaceTip(i, b, bad, nChainWork)
        \/ DropTips(b, bad, nChainWork)
    BY Zenon DEF appendHeader
  <1>6. QED
    BY <1>3, <1>4, <1>5

-----------------------------------------------------------------------------
(* The types.  What makes them inductive: with a header the index holds its *)
(* ancestors, so that a failure marks only headers of the index.            *)

IndexInv ==
  /\ PathInv
  /\ \A x \in indexMap : \A a \in Block : OnBranch(a, x) => a \in indexMap
  /\ failed \subseteq indexMap
  /\ headerChainTips \in Seq(indexMap)
  /\ headersChain # <<>> => Tip(headersChain) \in indexMap
  /\ indexMap # {} => headersChain # <<>>
  /\ headersChain = <<>> => headerChainTips = <<>>
  /\ pindexBestHeader \in Block \cup {NULL}
  /\ nFailures \in 0 .. MaxFailures

LEMMA KnownBranch ==
  ASSUME IndexInv, NEW b \in Block, Known(b), NEW a \in Block, OnBranch(a, b)
  PROVE  a = b \/ a \in indexMap
  <1>1. CASE b = Genesis
    <2>1. nHeight[a] \in 0 .. 0 /\ ancestor[b][nHeight[a]] = a
      BY <1>1, BranchOf, TreeAssumption
    <2>2. QED
      BY <1>1, <2>1, TreeAssumption
  <1>2. CASE b # Genesis
    <2>1. pprev[b] \in indexMap
      BY <1>2 DEF Known
    <2>2. a = b \/ OnBranch(a, pprev[b])
      BY <1>2, ParentBranch
    <2>3. QED
      BY <2>1, <2>2 DEF IndexInv
  <1>3. QED
    BY <1>1, <1>2

LEMMA TipsKnown ==
  ASSUME IndexInv
  PROVE  /\ Len(headerChainTips) \in Nat
         /\ DOMAIN headerChainTips = 1 .. Len(headerChainTips)
         /\ \A i \in 1 .. Len(headerChainTips) :
              headerChainTips[i] \in indexMap /\ headerChainTips[i] \in Block
              /\ headerChainTips[i] \in Range(headerChainTips)
         /\ \A t \in Range(headerChainTips) :
              t \in indexMap /\ \E i \in 1 .. Len(headerChainTips) : t = headerChainTips[i]
         /\ headersChain # <<>> => Tip(headersChain) \in Block
  <1>1. headerChainTips \in Seq(indexMap) /\ indexMap \subseteq Block
    BY DEF IndexInv, PathInv
  <1>2. QED
    BY <1>1 DEF Range, IndexInv

LEMMA AppendKeepsIndex ==
  ASSUME IndexInv, NEW b \in Block, Known(b), NEW bad, Genesis \notin bad,
         appendHeader(b, bad, nChainWork)
  PROVE  /\ headerChainTips' \in Seq(indexMap \cup {b})
         /\ headersChain' # <<>> /\ Tip(headersChain') \in indexMap \cup {b}
         /\ pindexBestHeader' \in Block \cup {NULL}
  <1> DEFINE I == indexMap \cup {b}
             v == validPrevOf(b, bad)
             n == Len(headerChainTips)
  <1>1. /\ IsPath(headersChain) /\ headerChainTips \in Seq(Block) /\ headerChainTips \in Seq(I)
        /\ headersChain = <<>> => headerChainTips = <<>>
        /\ headersChain # <<>> => Tip(headersChain) \in I
        /\ pindexBestHeader \in Block \cup {NULL}
    BY DEF IndexInv, PathInv
  <1>2. v \in Block /\ v \in I
    <2>1. v \in Block /\ OnBranch(v, b)
      BY ValidPrevExists
    <2>2. QED
      BY <2>1, KnownBranch
  <1>3. \A s \in Seq(I) : \A x \in I : Append(s, x) \in Seq(I)
    BY AppendOf
  <1>4. \A i \in 1 .. n : erase(headerChainTips, i) \in Seq(I)
    BY <1>1, EraseOf
  <1> HIDE DEF v
  <1>5. CASE b \notin bad
    <2>1. Stays(b) \/ Forks(b) \/ \E i \in 1 .. n : Extends(i, b)
      BY <1>1, <1>5, AppendGood
    <2>2. ASSUME Stays(b) PROVE headersChain # <<>>
      <3>1. ASSUME InChain(headersChain, b) PROVE headersChain # <<>>
        BY <1>1, <3>1, InChainBranch
      <3>2. QED
        BY <1>1, <2>2, <3>1 DEF Stays
    <2>3. QED
      BY <1>1, <1>3, <1>4, <2>1, <2>2, Zenon DEF Stays, Forks, Extends, Moved, dbVars
  <1>6. CASE b \in bad
    <2>1. headersChain # <<>>
      BY <1>6 DEF Known, IndexInv
    <2>2. /\ headersChain' # <<>> /\ pindexBestHeader' \in {b, v, pindexBestHeader}
          /\ \/ \E i \in 1 .. n :
                  /\ headerChainTips' = Append(erase(headerChainTips, i), v)
                  /\ Tip(headersChain') = v \/ headersChain' = headersChain
             \/ /\ headerChainTips' \in Seq(Left(b, bad))
                /\ Tip(headersChain') \in Left(b, bad) \/ headersChain' = headersChain
      BY <1>1, <1>6, <2>1, AppendBad DEF v
    <2>3. Left(b, bad) \subseteq I
      BY <1>2, TipsKnown DEF Left, v
    <2>4. \A s \in Seq(Left(b, bad)) : s \in Seq(I)
      BY <2>3
    <2>5. QED
      BY <1>1, <1>2, <1>3, <1>4, <2>1, <2>2, <2>3, <2>4, Zenon
  <1>7. QED
    BY <1>5, <1>6

LEMMA IndexInvInitially == Init => IndexInv
  BY PathInvInitially, MaxFailuresAssumption DEF Init, IndexInv

\* The headers a failure marks are in the index once b is.
LEMMA MarkedKnown ==
  ASSUME IndexInv, NEW b \in Block \ {Genesis}
  PROVE  MarkedWith(b) \subseteq (indexMap \cup {b}) \ {Genesis}
  <1>1. SUFFICES ASSUME NEW x \in MarkedWith(b) PROVE x \in indexMap \cup {b} /\ x # Genesis
    OBVIOUS
  <1>2. CASE x \in failed \cup {b}
    BY <1>2 DEF IndexInv, PathInv
  <1>3. CASE x \notin failed \cup {b}
    <2>1. /\ x \in Block /\ nHeight[x] > nHeight[b]
          /\ \E t \in Range(headerChainTips) : OnBranch(x, t)
      BY <1>1, <1>3 DEF MarkedWith
    <2>2. x \in indexMap
      BY <2>1, TipsKnown DEF IndexInv
    <2>3. x # Genesis
      BY <2>1, TreeAssumption
    <2>4. QED
      BY <2>2, <2>3
  <1>4. QED
    BY <1>2, <1>3

LEMMA IndexInvInductive ==
  ASSUME IndexInv, [RpcNext]_vars
  PROVE  IndexInv'
  <1>0. PathInv /\ PathInv'
    BY PathInvInductive DEF IndexInv
  <1>1. CASE UNCHANGED vars
    BY <1>0, <1>1 DEF vars, IndexInv, Tip
  <1>2. ASSUME NEW b \in Block, Known(b), NEW bad, Genesis \notin bad,
               appendHeader(b, bad, nChainWork), indexMap' = indexMap \cup {b},
               failed' \subseteq indexMap', nFailures' \in 0 .. MaxFailures
        PROVE  IndexInv'
    <2>1. /\ headerChainTips' \in Seq(indexMap')
          /\ headersChain' # <<>> /\ Tip(headersChain') \in indexMap'
          /\ pindexBestHeader' \in Block \cup {NULL}
      BY <1>2, AppendKeepsIndex
    <2>2. ASSUME NEW x \in indexMap', NEW a \in Block, OnBranch(a, x) PROVE a \in indexMap'
      BY <1>2, <2>2, KnownBranch DEF IndexInv
    <2>3. QED
      BY <1>0, <1>2, <2>1, <2>2 DEF IndexInv
  <1>3. ASSUME NEW b \in Block, AcceptHeader(b) PROVE IndexInv'
    <2>1. /\ Known(b) /\ appendHeader(b, failed, nChainWork) /\ indexMap' = indexMap \cup {b}
          /\ failed' = failed /\ nFailures' = nFailures
      BY <1>3 DEF AcceptHeader
    <2>2. Genesis \notin failed /\ failed \subseteq indexMap /\ nFailures \in 0 .. MaxFailures
      BY DEF IndexInv, PathInv
    <2>3. QED
      BY <1>2, <2>1, <2>2
  <1>4. ASSUME NEW b \in Block, handleFailedBlock(b) PROVE IndexInv'
    <2>1. /\ b # Genesis /\ Known(b) /\ appendHeader(b, MarkedWith(b), nChainWork)
          /\ indexMap' = indexMap \cup {b} /\ failed' = MarkedWith(b)
          /\ nFailures' = nFailures \/ (nFailures < MaxFailures /\ nFailures' = nFailures + 1)
      BY <1>4 DEF handleFailedBlock
    <2>2. nFailures' \in 0 .. MaxFailures
      BY <2>1, MaxFailuresAssumption DEF IndexInv
    <2>3. MarkedWith(b) \subseteq indexMap \cup {b} /\ Genesis \notin MarkedWith(b)
      BY <2>1, MarkedKnown
    <2>4. QED
      BY <1>2, <2>1, <2>2, <2>3
  <1>5. ASSUME NEW b \in Block, invalidateBlock(b) PROVE IndexInv'
    <2>1. /\ b \in indexMap /\ b # Genesis /\ appendHeader(b, failed', nChainWork)
          /\ indexMap' = indexMap /\ failed' = failed \cup {b}
          /\ nFailures < MaxFailures /\ nFailures' = nFailures + 1
      BY <1>5 DEF invalidateBlock
    <2>2. nFailures' \in 0 .. MaxFailures
      BY <2>1, MaxFailuresAssumption DEF IndexInv
    <2>3. Known(b)
      BY <2>1, ParentBranch DEF IndexInv, Known
    <2>4. Genesis \notin failed' /\ failed' \subseteq indexMap' /\ indexMap' = indexMap \cup {b}
      BY <2>1 DEF IndexInv, PathInv
    <2>5. QED
      BY <1>2, <2>1, <2>2, <2>3, <2>4
  <1>6. ASSUME NEW b \in Block, reconsiderBlock(b) PROVE IndexInv'
    <2>1. failed' \subseteq failed
          /\ UNCHANGED <<indexMap, headerChainTips, headersChain, pindexBestHeader, nFailures>>
      BY <1>6 DEF reconsiderBlock
    <2>2. QED
      BY <1>0, <2>1 DEF IndexInv, Tip
  <1>7. QED
    BY <1>1, <1>3, <1>4, <1>5, <1>6 DEF RpcNext, Next

\* The tips, the chain and the failed blocks are headers of the index whatever
\* arrives, fails, is invalidated or reconsidered: a failure that marks the headers
\* up to the tips (handleFailedBlock) marks none that is not in the index.
THEOREM HeadersTypeCorrect == RpcSpec => []TypeOK
  <1>1. IndexInv => TypeOK
    <2>1. ASSUME IndexInv, headersChain # <<>> PROVE headersChain \in Seq(Block)
      BY <2>1, PathToProperties DEF IndexInv, PathInv, IsPath
    <2>2. ASSUME IndexInv PROVE TypeOK
      <3>1. headersChain \in Seq(Block)
        BY <2>1, <2>2, EmptyIsSeq, Zenon
      <3>2. QED
        BY <2>2, <3>1 DEF IndexInv, PathInv, TypeOK
    <2>3. QED
      BY <2>2
  <1>2. IndexInv /\ [RpcNext]_vars => IndexInv'
    BY IndexInvInductive
  <1>3. QED
    BY <1>1, <1>2, IndexInvInitially, PTL DEF RpcSpec

-----------------------------------------------------------------------------
(* The tips are the leaves of the tree of known headers.  Inductive is that  *)
(* no tip is on the branch of another one and every known header is on the   *)
(* branch of a tip; and the chain ends in one, so that a header of the chain *)
(* needs no new tip.                                                         *)

Leaves(T, known) ==
  /\ \A i, j \in 1 .. Len(T) : OnBranch(T[i], T[j]) => i = j
  /\ \A x \in known : \E i \in 1 .. Len(T) : OnBranch(x, T[i])

LeafInv ==
  failed = {} =>
    /\ Leaves(headerChainTips, indexMap)
    /\ headersChain # <<>> =>
         \E i \in 1 .. Len(headerChainTips) : headerChainTips[i] = Tip(headersChain)

\* b is all that the tips T lack to be the leaves of the known headers.
Lacks(T, known, b) ==
  /\ \A i, j \in 1 .. Len(T) : OnBranch(T[i], T[j]) => i = j
  /\ \A x \in known \ {b} : OnBranch(x, b) \/ \E i \in 1 .. Len(T) : OnBranch(x, T[i])
  /\ \A i \in 1 .. Len(T) : ~OnBranch(T[i], b) /\ ~OnBranch(b, T[i])

LEMMA LeavesAppend ==
  ASSUME NEW T \in Seq(Block), NEW known \in SUBSET Block, NEW b \in Block,
         Lacks(T, known, b)
  PROVE  /\ Leaves(Append(T, b), known \cup {b})
         /\ \E k \in 1 .. Len(Append(T, b)) : Append(T, b)[k] = b
         /\ \A i \in 1 .. Len(T) : \E k \in 1 .. Len(Append(T, b)) : Append(T, b)[k] = T[i]
  <1> DEFINE U == Append(T, b)
             n == Len(T)
  <1>1. /\ n \in Nat /\ Len(U) = n + 1 /\ U[n + 1] = b /\ n + 1 \in 1 .. n + 1
        /\ \A i \in 1 .. n : U[i] = T[i] /\ i \in 1 .. n + 1
        /\ \A i \in 1 .. n + 1 : i = n + 1 \/ i \in 1 .. n
    BY SeqOf, AppendOf
  <1>2. OnBranch(b, b)
    BY BranchRefl
  <1> HIDE DEF U, n
  <1>3. ASSUME NEW i \in 1 .. n + 1, NEW j \in 1 .. n + 1, OnBranch(U[i], U[j])
        PROVE  i = j
    BY <1>1, <1>3 DEF n, Lacks
  <1>4. ASSUME NEW x \in known \cup {b} PROVE \E i \in 1 .. n + 1 : OnBranch(x, U[i])
    BY <1>1, <1>2, <1>4 DEF n, Lacks
  <1>5. QED
    BY <1>1, <1>3, <1>4, Zenon DEF Leaves, U, n

Replaced(T, i, b) == Append(erase(T, i), b)

LEMMA LeavesReplace ==
  ASSUME NEW T \in Seq(Block), NEW known \in SUBSET Block, NEW b \in Block, Leaves(T, known),
         NEW i \in 1 .. Len(T), OnBranch(T[i], b)
  PROVE  /\ Leaves(Replaced(T, i, b), known \cup {b})
         /\ \E k \in 1 .. Len(Replaced(T, i, b)) : Replaced(T, i, b)[k] = b
         /\ \A j \in (1 .. Len(T)) \ {i} :
              \E k \in 1 .. Len(Replaced(T, i, b)) : Replaced(T, i, b)[k] = T[j]
  <1> DEFINE E == erase(T, i)
             n == Len(T)
             at(k) == IF k < i THEN k ELSE k + 1
             pos(j) == IF j < i THEN j ELSE j - 1
  <1>1. /\ n \in Nat /\ E \in Seq(Block) /\ Len(E) = n - 1
        /\ \A k \in 1 .. n - 1 : E[k] = T[at(k)]
        /\ \A k \in 1 .. n : T[k] \in Block
    <2>1. /\ n \in Nat /\ E \in Seq(Block) /\ Len(E) = n - 1
          /\ \A k \in 1 .. n - 1 : E[k] = IF k < i THEN T[k] ELSE T[k + 1]
      BY SeqOf, EraseOf
    <2>2. \A k \in 1 .. n : T[k] \in Block
      BY SeqOf
    <2>3. QED
      BY <2>1, <2>2
  <1>2. /\ \A k \in 1 .. n - 1 : at(k) \in 1 .. n /\ at(k) # i
        /\ \A j, k \in 1 .. n - 1 : at(j) = at(k) => j = k
        /\ \A j \in (1 .. n) \ {i} : pos(j) \in 1 .. n - 1 /\ at(pos(j)) = j
    BY <1>1
  <1>3. /\ \A j, k \in 1 .. n : OnBranch(T[j], T[k]) => j = k
        /\ \A x \in known : \E j \in 1 .. n : OnBranch(x, T[j])
    BY DEF Leaves
  <1> HIDE DEF E, n, at, pos
  <1>4. ASSUME NEW j \in 1 .. Len(E), NEW k \in 1 .. Len(E), OnBranch(E[j], E[k])
        PROVE  j = k
    <2>1. j \in 1 .. n - 1 /\ k \in 1 .. n - 1
      BY <1>1, <1>4
    <2>2. E[j] = T[at(j)] /\ E[k] = T[at(k)] /\ at(j) \in 1 .. n /\ at(k) \in 1 .. n
      BY <1>1, <1>2, <2>1, Zenon
    <2>3. at(j) = at(k)
      BY <1>3, <1>4, <2>2, Zenon
    <2>4. QED
      BY <1>2, <2>1, <2>3, Zenon
  <1>5. ASSUME NEW j \in 1 .. Len(E) PROVE ~OnBranch(E[j], b) /\ ~OnBranch(b, E[j])
    <2>1. E[j] = T[at(j)] /\ at(j) \in 1 .. n /\ at(j) # i /\ i \in 1 .. n
      BY <1>1, <1>2, <1>5 DEF n
    <2>2. T[i] \in Block /\ E[j] \in Block /\ ~OnBranch(T[i], E[j]) /\ ~OnBranch(E[j], T[i])
      BY <1>1, <1>3, <2>1
    <2>3. QED
      BY <2>2, BranchTrans, BranchLinear
  <1>6. ASSUME NEW x \in known
        PROVE  OnBranch(x, b) \/ \E j \in 1 .. Len(E) : OnBranch(x, E[j])
    <2>1. PICK j \in 1 .. n : OnBranch(x, T[j])
      BY <1>3
    <2>2. CASE j = i
      BY <2>1, <2>2, <1>1, BranchTrans
    <2>3. CASE j # i
      BY <1>1, <1>2, <2>1, <2>3
    <2>4. QED
      BY <2>2, <2>3
  <1>7. Lacks(E, known, b)
    BY <1>4, <1>5, <1>6, Zenon DEF Lacks
  <1>8. /\ Leaves(Append(E, b), known \cup {b})
        /\ \E k \in 1 .. Len(Append(E, b)) : Append(E, b)[k] = b
        /\ \A j \in 1 .. Len(E) : \E k \in 1 .. Len(Append(E, b)) : Append(E, b)[k] = E[j]
    BY <1>1, <1>7, LeavesAppend, Zenon
  <1>9. ASSUME NEW j \in (1 .. n) \ {i}
        PROVE  \E k \in 1 .. Len(Append(E, b)) : Append(E, b)[k] = T[j]
    <2>1. pos(j) \in 1 .. Len(E) /\ E[pos(j)] = T[j]
      BY <1>1, <1>2, Zenon
    <2>2. QED
      BY <1>8, <2>1, Zenon
  <1>10. QED
    BY <1>8, <1>9, Zenon DEF E, n, Replaced

LEMMA LeafInvInductive ==
  ASSUME IndexInv, LeafInv, [Next]_vars
  PROVE  LeafInv'
  <1>1. CASE UNCHANGED vars
    BY <1>1 DEF vars, LeafInv, Tip
  <1>2. ASSUME NEW b \in Block, handleFailedBlock(b) PROVE LeafInv'
    <2>1. failed' # {}
      BY <1>2 DEF handleFailedBlock, MarkedWith
    <2>2. QED
      BY <2>1 DEF LeafInv
  <1>3. ASSUME NEW b \in Block, AcceptHeader(b), failed' = {} PROVE LeafInv'
    <2> DEFINE T == headerChainTips
               n == Len(headerChainTips)
               tip == Tip(headersChain)
    <2>1. /\ failed = {} /\ indexMap' = indexMap \cup {b}
          /\ appendHeader(b, {}, nChainWork)
      BY <1>3 DEF AcceptHeader
    <2>2. /\ IsPath(headersChain) /\ indexMap \in SUBSET Block /\ T \in Seq(Block)
          /\ headersChain = <<>> => T = <<>>
      BY DEF IndexInv, PathInv
    <2>3. /\ Leaves(T, indexMap)
          /\ headersChain # <<>> => \E i \in 1 .. n : T[i] = tip
      BY <2>1 DEF LeafInv
    <2>4. Stays(b) \/ Forks(b) \/ \E i \in 1 .. n : Extends(i, b)
      BY <2>1, <2>2, AppendGood
    <2>5. CASE Stays(b)
      <3>1. ASSUME InChain(headersChain, b) PROVE \E i \in 1 .. n : OnBranch(b, T[i])
        BY <2>2, <2>3, <3>1, InChainBranch
      <3>2. PICK i \in 1 .. n : OnBranch(b, T[i])
        BY <2>5, <3>1 DEF Stays
      <3>3. b \in indexMap
        BY <3>2, TipsKnown DEF IndexInv
      <3>4. indexMap' = indexMap /\ UNCHANGED dbVars
        BY <2>1, <2>5, <3>3 DEF Stays
      <3>5. QED
        BY <2>3, <3>4 DEF dbVars, LeafInv, Tip
    <2> DEFINE U == headerChainTips'
    <2>6. ASSUME Moved(b), Leaves(U, indexMap'), \E k \in 1 .. Len(U) : U[k] = b,
                 \A i \in 1 .. n : T[i] = tip =>
                   Tip(headersChain') = b \/ \E k \in 1 .. Len(U) : U[k] = T[i]
          PROVE  LeafInv'
      <3>1. \E k \in 1 .. Len(U) : U[k] = Tip(headersChain')
        BY <2>3, <2>6 DEF Moved, Tip
      <3>2. QED
        BY <2>6, <3>1 DEF LeafInv
    <2>7. CASE Forks(b)
      <3>1. Lacks(T, indexMap, b)
        BY <2>3, <2>7 DEF Forks, Leaves, Lacks
      <3>2. /\ Leaves(Append(T, b), indexMap \cup {b})
            /\ \E k \in 1 .. Len(Append(T, b)) : Append(T, b)[k] = b
            /\ \A i \in 1 .. n : \E k \in 1 .. Len(Append(T, b)) : Append(T, b)[k] = T[i]
        BY <2>2, <3>1, LeavesAppend
      <3>3. U = Append(T, b) /\ Moved(b)
        BY <2>7 DEF Forks
      <3> HIDE DEF T, U, n, tip
      <3>4. QED
        BY <2>1, <2>6, <3>2, <3>3, Zenon
    <2>8. ASSUME NEW i \in 1 .. n, Extends(i, b) PROVE LeafInv'
      <3> DEFINE W == Replaced(T, i, b)
      <3>1. /\ OnBranch(T[i], b) /\ U = W /\ Moved(b)
            /\ T[i] = tip => Tip(headersChain') = b
        BY <2>8 DEF Extends, Replaced
      <3>2. /\ Leaves(W, indexMap \cup {b})
            /\ \E k \in 1 .. Len(W) : W[k] = b
            /\ \A j \in (1 .. n) \ {i} : \E k \in 1 .. Len(W) : W[k] = T[j]
        BY <2>2, <2>3, <3>1, LeavesReplace
      <3> HIDE DEF T, U, n, tip, W
      <3>3. QED
        BY <2>1, <2>6, <3>1, <3>2, Zenon
    <2>9. QED
      BY <2>4, <2>5, <2>7, <2>8
  <1>4. QED
    BY <1>1, <1>2, <1>3 DEF Next, LeafInv

LEMMA LeafInvLeaves ==
  ASSUME IndexInv, LeafInv
  PROVE  TipsAreLeaves
  <1> DEFINE T == headerChainTips
             n == Len(headerChainTips)
  <1>1. SUFFICES ASSUME failed = {}
                 PROVE  /\ \A b \in Block :
                             b \in Range(T) <=>
                               b \in indexMap /\ \A c \in indexMap : c # b => ~OnBranch(b, c)
                        /\ \A i, j \in 1 .. n : T[i] = T[j] => i = j
    <2>1. Range(T) \subseteq indexMap /\ indexMap \subseteq Block
      BY TipsKnown DEF IndexInv, PathInv
    <2>2. QED
      BY <2>1 DEF TipsAreLeaves
  <1>2. /\ \A i, j \in 1 .. n : OnBranch(T[i], T[j]) => i = j
        /\ \A x \in indexMap : \E i \in 1 .. n : OnBranch(x, T[i])
    BY <1>1 DEF LeafInv, Leaves
  <1>3. /\ \A i \in 1 .. n : T[i] \in indexMap /\ T[i] \in Block /\ T[i] \in Range(T)
        /\ \A t \in Range(T) : t \in indexMap /\ \E i \in 1 .. n : t = T[i]
        /\ indexMap \subseteq Block
    BY TipsKnown DEF IndexInv, PathInv
  <1> HIDE DEF T, n
  <1>4. ASSUME NEW i \in 1 .. n, NEW j \in 1 .. n, T[i] = T[j] PROVE i = j
    BY <1>2, <1>3, <1>4, BranchRefl
  <1>5. ASSUME NEW i \in 1 .. n, NEW c \in indexMap, c # T[i], OnBranch(T[i], c) PROVE FALSE
    <2>1. PICK j \in 1 .. n : OnBranch(c, T[j])
      BY <1>2
    <2>2. T[i] \in Block /\ T[j] \in Block /\ c \in Block
      BY <1>3
    <2>3. i = j
      BY <1>2, <1>5, <2>1, <2>2, BranchTrans
    <2>4. QED
      BY <1>5, <2>1, <2>2, <2>3, BranchAntisym
  <1>6. ASSUME NEW b \in indexMap, \A c \in indexMap : c # b => ~OnBranch(b, c)
        PROVE  b \in Range(T)
    BY <1>2, <1>3, <1>6
  <1>7. ASSUME NEW b \in Range(T)
        PROVE  b \in indexMap /\ \A c \in indexMap : c # b => ~OnBranch(b, c)
    BY <1>3, <1>5, Zenon
  <1>8. QED
    BY <1>4, <1>6, <1>7, Zenon DEF n, T

\* As long as no header failed, the list appendHeader keeps of the tips holds every
\* leaf of the tree of known headers once and nothing else, for every tree and every
\* order in which headers arrive and arrive again.
THEOREM TipsAlwaysLeaves == Spec => []TipsAreLeaves
  <1>1. Init => IndexInv /\ LeafInv
    <2>1. Init => LeafInv
      <3>1. Len(<<>>) = 0
        BY EmptyIsSeq
      <3>2. QED
        BY <3>1 DEF Init, LeafInv, Leaves
    <2>2. QED
      BY <2>1, IndexInvInitially
  <1>2. IndexInv /\ LeafInv /\ [Next]_vars => IndexInv' /\ LeafInv'
    BY IndexInvInductive, LeafInvInductive DEF RpcNext
  <1>3. IndexInv /\ LeafInv => TipsAreLeaves
    BY LeafInvLeaves
  <1>4. QED
    BY <1>1, <1>2, <1>3, PTL DEF Spec

-----------------------------------------------------------------------------
(* No failed header is on the chain, as long as one block at most fails of   *)
(* its own account.  What is known of a failed header failed too, and no tip *)
(* and no end of the chain did.  When the first block fails, the tips are    *)
(* the leaves (LeafInv), so that the walk of handleFailedBlock from the tips *)
(* down reaches every known header above it.                                 *)

FailInv ==
  /\ nFailures = 0 => failed = {}
  /\ \A x \in indexMap : \A f \in failed : OnBranch(f, x) => x \in failed
  /\ \A i \in 1 .. Len(headerChainTips) : headerChainTips[i] \notin failed
  /\ headersChain # <<>> => Tip(headersChain) \notin failed

LEMMA FailInvAccept ==
  ASSUME IndexInv, FailInv, NEW b \in Block, AcceptHeader(b)
  PROVE  FailInv'
  <1> DEFINE n == Len(headerChainTips)
  <1>1. /\ Known(b) /\ b \notin failed
        /\ b \in indexMap \/ b = Genesis \/ pprev[b] \notin failed
        /\ indexMap' = indexMap \cup {b} /\ failed' = failed /\ nFailures' = nFailures
        /\ appendHeader(b, failed, nChainWork)
    BY DEF AcceptHeader
  <1>2. /\ IsPath(headersChain) /\ indexMap \subseteq Block /\ headerChainTips \in Seq(Block)
        /\ headersChain = <<>> => headerChainTips = <<>>
        /\ Genesis \notin failed /\ failed \subseteq indexMap
    BY DEF IndexInv, PathInv
  <1>3. ASSUME NEW f \in failed, OnBranch(f, b) PROVE FALSE
    <2>1. f \in Block /\ f # b /\ b \notin indexMap
      BY <1>1, <1>2, <1>3 DEF FailInv
    <2>2. CASE b = Genesis
      <3>1. nHeight[f] \in 0 .. 0 /\ ancestor[b][nHeight[f]] = f
        BY <1>3, <2>1, <2>2, BranchOf, TreeAssumption
      <3>2. QED
        BY <2>1, <2>2, <3>1, TreeAssumption
    <2>3. CASE b # Genesis
      <3>1. pprev[b] \in indexMap /\ pprev[b] \notin failed /\ OnBranch(f, pprev[b])
        BY <1>1, <1>3, <2>1, <2>3, ParentBranch DEF Known
      <3>2. QED
        BY <3>1 DEF FailInv
    <2>4. QED
      BY <2>2, <2>3
  <1>4. \A x \in indexMap' : \A f \in failed' : OnBranch(f, x) => x \in failed'
    BY <1>1, <1>3 DEF FailInv
  <1>5. Stays(b) \/ Forks(b) \/ \E i \in 1 .. n : Extends(i, b)
    BY <1>1, <1>2, AppendGood
  <1>6. /\ \A k \in 1 .. Len(headerChainTips') : headerChainTips'[k] \notin failed
        /\ headersChain' # <<>> => Tip(headersChain') \notin failed
    <2>1. CASE Stays(b)
      BY <2>1 DEF Stays, dbVars, FailInv, Tip
    <2>2. ASSUME Moved(b) PROVE headersChain' # <<>> => Tip(headersChain') \notin failed
      BY <1>1, <2>2 DEF Moved, FailInv, Tip
    <2>3. headerChainTips \in Seq(Block \ failed) /\ b \in Block \ failed
      BY <1>1, <1>2 DEF FailInv
    <2>4. ASSUME headerChainTips' \in Seq(Block \ failed)
          PROVE  \A k \in 1 .. Len(headerChainTips') : headerChainTips'[k] \notin failed
      BY <2>4
    <2>5. CASE Forks(b)
      BY <2>2, <2>3, <2>4, <2>5, AppendOf DEF Forks
    <2>6. ASSUME NEW i \in 1 .. n, Extends(i, b)
          PROVE  headerChainTips' \in Seq(Block \ failed) /\ Moved(b)
      <3>1. erase(headerChainTips, i) \in Seq(Block \ failed)
        BY <2>3, EraseOf
      <3>2. QED
        BY <2>3, <2>6, <3>1, AppendOf DEF Extends
    <2>7. QED
      BY <1>5, <2>1, <2>2, <2>4, <2>5, <2>6
  <1>7. QED
    BY <1>1, <1>4, <1>6 DEF FailInv

\* What a failure marks failed before or descends from the block that failed.
LEMMA MarkedOf ==
  ASSUME IndexInv, NEW b \in Block, NEW f \in MarkedWith(b)
  PROVE  f \in Block /\ (f \in failed \/ OnBranch(b, f))
  <1>1. failed \subseteq Block
    BY DEF IndexInv, PathInv
  <1>2. CASE f \in failed \cup {b}
    BY <1>1, <1>2, BranchRefl
  <1>3. CASE f \notin failed \cup {b}
    <2>1. PICK t \in Range(headerChainTips) :
            f \in Block /\ nHeight[f] > nHeight[b] /\ OnBranch(b, t) /\ OnBranch(f, t)
      BY <1>3 DEF MarkedWith
    <2>2. t \in Block
      BY <2>1, TipsKnown DEF IndexInv, PathInv
    <2>3. ~OnBranch(f, b)
      BY <2>1, BranchOf
    <2>4. QED
      BY <2>1, <2>2, <2>3, BranchLinear
  <1>4. QED
    BY <1>2, <1>3

LEMMA FailInvFailed ==
  ASSUME IndexInv, LeafInv, FailInv, MaxFailures \in {0, 1},
         NEW b \in Block, handleFailedBlock(b)
  PROVE  FailInv'
  <1> DEFINE T == headerChainTips
             n == Len(headerChainTips)
             M == MarkedWith(b)
             v == validPrevOf(b, M)
             tip == Tip(headersChain)
             root == b \notin failed /\ pprev[b] \notin failed
  <1>1. /\ b \in Block \ {Genesis} /\ Known(b) /\ (root => nFailures < MaxFailures)
        /\ nFailures' = IF root THEN nFailures + 1 ELSE nFailures
        /\ indexMap' = indexMap \cup {b} /\ failed' = M /\ appendHeader(b, M, nChainWork)
    BY DEF handleFailedBlock
  <1>2. /\ pprev[b] \in indexMap /\ headersChain # <<>> /\ IsPath(headersChain)
        /\ T \in Seq(Block) /\ indexMap \subseteq Block /\ failed \subseteq indexMap
        /\ tip \in indexMap /\ nFailures \in Nat
    BY <1>1 DEF IndexInv, PathInv, Known
  <1>3. b \in M /\ Genesis \notin M /\ v \in Block \ M
    <2>1. b \in M
      BY DEF MarkedWith
    <2>2. Genesis \notin M
      BY <1>1, MarkedKnown
    <2>3. QED
      BY <2>1, <2>2, ValidPrevExists
  <1>4. /\ \A i \in 1 .. n : T[i] \in indexMap /\ T[i] \in Block /\ T[i] \in Range(T)
        /\ \A t \in Range(T) : t \in indexMap /\ \E i \in 1 .. n : t = T[i]
    BY TipsKnown, <1>2
  \* At most one block fails of its own account, and it is the first.
  <1>5. ASSUME root
        PROVE  /\ failed = {} /\ nFailures' # 0 /\ (\E i \in 1 .. n : T[i] = tip)
               /\ \A i, j \in 1 .. n : OnBranch(T[i], T[j]) => i = j
               /\ \A x \in indexMap : \E i \in 1 .. n : OnBranch(x, T[i])
    <2>1. nFailures = 0 /\ nFailures' = 1
      BY <1>1, <1>2, <1>5
    <2>2. failed = {}
      BY <2>1 DEF FailInv
    <2>3. QED
      BY <1>2, <2>1, <2>2 DEF LeafInv, Leaves
  \* Of any other failed block every known descendant failed before.
  <1>6. ASSUME ~root, NEW x \in indexMap, OnBranch(b, x) PROVE x \in failed
    <2>1. OnBranch(pprev[b], x)
      BY <1>1, <1>2, <1>6, ParentBranch, BranchTrans
    <2>2. QED
      BY <1>6, <2>1 DEF FailInv
  <1>7. nFailures' = 0 => failed' = {}
    BY <1>1, <1>2, <1>5 DEF FailInv
  <1>8. ASSUME NEW x \in indexMap, x \in M, x \notin failed PROVE root /\ OnBranch(b, x)
    BY <1>6, <1>8, MarkedOf
  <1>9. ASSUME NEW x \in indexMap', NEW f \in M, OnBranch(f, x) PROVE x \in M
    <2>1. CASE x = b
      BY <1>3, <2>1
    <2>2. CASE f \in failed /\ x \in indexMap
      <3>1. x \in failed
        BY <1>9, <2>2 DEF FailInv
      <3>2. QED
        BY <3>1 DEF MarkedWith
    <2>3. CASE f \notin failed /\ x \in indexMap /\ x # b
      <3>1. f \in Block /\ OnBranch(b, f) /\ x \in Block
        BY <1>2, <2>3, MarkedOf
      <3>2. OnBranch(b, x)
        BY <1>9, <3>1, BranchTrans
      <3>3. CASE root
        <4>1. PICK i \in 1 .. n : OnBranch(x, T[i])
          BY <1>5, <2>3, <3>3
        <4>2. T[i] \in Range(T) /\ OnBranch(b, T[i])
          BY <1>4, <3>1, <3>2, <4>1, BranchTrans
        <4>3. nHeight[x] > nHeight[b]
          <5>1. nHeight[b] \in Nat /\ nHeight[x] \in Nat /\ nHeight[b] <= nHeight[x]
                /\ ancestor[x][nHeight[b]] = b
            BY <3>1, <3>2, BranchOf
          <5>2. ancestor[x][nHeight[x]] = x
            BY <3>1, TreeAssumption
          <5>3. QED
            BY <2>3, <5>1, <5>2
        <4>4. QED
          BY <3>1, <4>1, <4>2, <4>3 DEF MarkedWith
      <3>4. CASE ~root
        <4>1. x \in failed
          BY <1>6, <2>3, <3>2, <3>4
        <4>2. QED
          BY <4>1 DEF MarkedWith
      <3>5. QED
        BY <3>3, <3>4
    <2>4. QED
      BY <1>1, <1>9, <2>1, <2>2, <2>3
  <1>10. /\ \A i \in 1 .. n : T[i] \in M => root /\ OnBranch(b, T[i])
         /\ tip \in M => root /\ OnBranch(b, tip)
    BY <1>2, <1>4, <1>8 DEF FailInv
  <1> DEFINE U == headerChainTips'
  <1>11. \/ \E i \in 1 .. n :
              /\ OnBranch(T[i], b) /\ U = Append(erase(T, i), v)
              /\ Tip(headersChain') = v \/ (headersChain' = headersChain /\ tip # T[i])
         \/ /\ U \in Seq(Left(b, M))
            /\ \/ Tip(headersChain') \in Left(b, M)
               \/ /\ headersChain' = headersChain
                  /\ \A t \in Range(T) : OnBranch(b, t) => ~InChain(headersChain, t)
    <2>1. M = failed' /\ Genesis \notin M /\ b \in M /\ appendHeader(b, M, nChainWork)
      BY <1>1, <1>3
    <2> HIDE DEF M
    <2>2. QED
      BY <1>2, <2>1, AppendBad, Zenon
  <1>12. ASSUME NEW i \in 1 .. n, OnBranch(T[i], b), NEW j \in 1 .. n, T[j] \in M
         PROVE  j = i
    <2>1. root /\ OnBranch(b, T[j])
      BY <1>10, <1>12
    <2>2. OnBranch(T[i], T[j])
      BY <1>4, <1>12, <2>1, BranchTrans
    <2>3. QED
      BY <1>5, <2>1, <2>2
  <1>13. ASSUME NEW i \in 1 .. n, OnBranch(T[i], b), U = Append(erase(T, i), v),
                Tip(headersChain') = v \/ (headersChain' = headersChain /\ tip # T[i])
         PROVE  /\ \A k \in 1 .. Len(U) : U[k] \notin M
                /\ Tip(headersChain') \notin M
    <2>1. /\ n \in Nat /\ erase(T, i) \in Seq(Block) /\ Len(erase(T, i)) = n - 1
          /\ \A k \in 1 .. n - 1 : erase(T, i)[k] = IF k < i THEN T[k] ELSE T[k + 1]
      BY <1>2, EraseOf, SeqOf
    <2>2. ASSUME NEW k \in 1 .. n - 1 PROVE erase(T, i)[k] \notin M
      <3> DEFINE j == IF k < i THEN k ELSE k + 1
      <3>1. j \in 1 .. n /\ j # i
        BY <2>1
      <3>2. erase(T, i)[k] = T[j]
        BY <2>1
      <3> HIDE DEF j
      <3>3. QED
        BY <1>12, <1>13, <3>1, <3>2
    <2>3. /\ Len(U) = n /\ U[n] = v /\ \A k \in 1 .. n - 1 : U[k] = erase(T, i)[k]
      <3>1. /\ Len(U) = Len(erase(T, i)) + 1 /\ U[Len(erase(T, i)) + 1] = v
            /\ \A k \in 1 .. Len(erase(T, i)) : U[k] = erase(T, i)[k]
        BY <1>3, <1>13, <2>1, AppendOf
      <3>2. QED
        BY <2>1, <3>1
    <2>4. \A k \in 1 .. n : k = n \/ k \in 1 .. n - 1
      BY <2>1
    <2>5. \A k \in 1 .. Len(U) : U[k] \notin M
      BY <1>3, <2>2, <2>3, <2>4, Zenon
    <2>6. ASSUME tip # T[i] PROVE tip \notin M
      BY <1>5, <1>10, <1>12, <1>13, <2>6
    <2>7. QED
      BY <1>3, <1>13, <2>5, <2>6 DEF Tip
  <1>14. ASSUME NEW x \in Left(b, M) PROVE x \notin M
    BY <1>3, <1>4, <1>10, <1>14 DEF Left
  <1>15. ASSUME U \in Seq(Left(b, M)) PROVE \A k \in 1 .. Len(U) : U[k] \notin M
    BY <1>14, <1>15, SeqOf
  <1>16. ASSUME \A t \in Range(T) : OnBranch(b, t) => ~InChain(headersChain, t)
         PROVE  tip \notin M
    <2>1. InChain(headersChain, tip)
      BY <1>2, TipInChain
    <2>2. root => tip \in Range(T)
      BY <1>4, <1>5
    <2>3. QED
      BY <1>10, <1>16, <2>1, <2>2
  <1> HIDE DEF T, n, M, v, U, root
  <1>17. (\A k \in 1 .. Len(U) : U[k] \notin M) /\ Tip(headersChain') \notin M
    <2>1. headersChain' = headersChain => Tip(headersChain') = tip
      BY DEF Tip
    <2>2. QED
      BY <1>11, <1>13, <1>14, <1>15, <1>16, <2>1, Zenon
  <1>18. QED
    BY <1>1, <1>7, <1>9, <1>17 DEF FailInv, U

\* The blocks that failed, and what descends from them, are not on the header
\* chain: when one block fails, whichever and whenever, appendHeader moves the chain
\* and every tip off its branch, and no header that arrives later brings them back.
\* That one block at most fails of its own account is needed: two failures may leave
\* a failed block on the chain.
THEOREM NeverFailedInChain ==
  ASSUME MaxFailures \in {0, 1}
  PROVE  Spec => []NoFailedInChain
  <1> DEFINE Inv == IndexInv /\ LeafInv /\ FailInv
  <1>1. Init => Inv
    <2>1. Len(<<>>) = 0
      BY EmptyIsSeq
    <2>2. Init => LeafInv /\ FailInv
      BY <2>1 DEF Init, LeafInv, Leaves, FailInv
    <2>3. QED
      BY <2>2, IndexInvInitially
  <1>2. Inv /\ [Next]_vars => Inv'
    <2>1. SUFFICES ASSUME Inv, [Next]_vars PROVE FailInv'
      BY IndexInvInductive, LeafInvInductive DEF RpcNext
    <2>2. CASE UNCHANGED vars
      BY <2>1, <2>2 DEF vars, FailInv, Tip
    <2>3. QED
      BY <2>1, <2>2, FailInvAccept, FailInvFailed DEF Next
  <1>3. Inv => NoFailedInChain
    <2>1. SUFFICES ASSUME Inv, NEW i \in 1 .. Len(headersChain), headersChain[i] \in failed
                   PROVE  FALSE
      BY DEF NoFailedInChain
    <2>2. PICK t \in Block : headersChain = PathTo(t)
      BY <2>1 DEF IndexInv, PathInv, IsPath
    <2>3. /\ Len(headersChain) = nHeight[t] + 1 /\ Tip(headersChain) = t /\ nHeight[t] \in Nat
          /\ headersChain # <<>>
      BY <2>2, PathToProperties, TreeAssumption
    <2>4. i - 1 \in 0 .. nHeight[t] /\ headersChain[i] = ancestor[t][i - 1]
      BY <2>2, <2>3 DEF PathTo
    <2>5. headersChain[i] \in Block /\ nHeight[headersChain[i]] = i - 1
      <3>1. ancestor[t] \in [0 .. nHeight[t] -> Block]
        BY TreeAssumption
      <3>2. nHeight[ancestor[t][i - 1]] = i - 1
        BY <2>4, AncestorAssumption
      <3>3. QED
        BY <2>4, <3>1, <3>2, Zenon
    <2>6. OnBranch(headersChain[i], t)
      BY <2>3, <2>4, <2>5, BranchOf
    <2>7. QED
      BY <2>1, <2>3, <2>6 DEF IndexInv, FailInv
  <1> HIDE DEF Inv
  <1>4. QED
    BY <1>1, <1>2, <1>3, PTL DEF Spec
=============================================================================
