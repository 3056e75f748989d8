------------------------- MODULE TxAdmissionProofs -------------------------
(***************************************************************************)
(* The mempool stays consistent with itself, with the chain and with the   *)
(* orphan cache, for any transactions, blocks and number of workers.       *)
(***************************************************************************)
EXTENDS TxAdmission, TransactionProofs

(* Elementary facts about sequences. *)

LEMMA ElementOf ==
  ASSUME NEW S, NEW s \in Seq(S), NEW n \in 1 .. Len(s)
  PROVE  s[n] \in S
  OBVIOUS

LEMMA PrefixOf ==
  ASSUME NEW S, NEW s \in Seq(S), NEW n \in 0 .. Len(s)
  PROVE  /\ SubSeq(s, 1, n) \in Seq(S) /\ Len(SubSeq(s, 1, n)) = n
         /\ \A i \in 1 .. n : SubSeq(s, 1, n)[i] = s[i]
  OBVIOUS

LEMMA ConcatOf ==
  ASSUME NEW S, NEW s \in Seq(S), NEW t \in Seq(S)
  PROVE  /\ s \o t \in Seq(S) /\ Len(s \o t) = Len(s) + Len(t)
         /\ \A i \in 1 .. Len(s) + Len(t) :
              (s \o t)[i] = IF i <= Len(s) THEN s[i] ELSE t[i - Len(s)]
  OBVIOUS

-----------------------------------------------------------------------------
(* The inductive invariant. *)

Confirmed == {chain[i].tx : i \in DOMAIN chain}

\* A chain in which no output is spent twice or before it is created.
ChainOK(ch) ==
  /\ ch \in Seq([tx : Tx, height : Nat])
  /\ \A i, j \in DOMAIN ch : i # j => prevouts[ch[i].tx] \cap prevouts[ch[j].tx] = {}
  /\ \A i \in DOMAIN ch : \A o \in prevouts[ch[i].tx] :
       o \in Coins \/ \E j \in DOMAIN ch : j < i /\ o \in Outputs(ch[j].tx)

Unspent(ch) ==
  (Coins \cup UNION {Outputs(ch[i].tx) : i \in DOMAIN ch})
    \ UNION {prevouts[ch[i].tx] : i \in DOMAIN ch}

JobsOK ==
  /\ job \in [Workers -> {NoJob} \cup [at : {"orphan", "insert", "link", "adopt"},
                                      tx : Tx, fromMempool : BOOLEAN]]
  /\ posted \subseteq [tx : Tx, fromMempool : BOOLEAN]
  /\ fromMempool \subseteq Orphans

Tasks == [tx : Tx, step : {"connect", "revert", "check"}, height : Nat]

\* The strand either connects a block or reverts some, and has nothing left to
\* do when it does not hold the lock.
StrandOK ==
  /\ todo \in Seq(Tasks)
  /\ csHolder \subseteq {strand}
  /\ csHolder = {} => todo = <<>> /\ job[strand] = NoJob
  /\ \/ \A k \in DOMAIN todo : todo[k].step = "connect"
     \/ \A k \in DOMAIN todo : todo[k].step # "connect"

\* What is left of a block still fits the coins.
ConnectsOK ==
  \A k \in DOMAIN todo : todo[k].step = "connect" =>
    \A o \in prevouts[todo[k].tx] :
      /\ o \in coins \/ \E j \in DOMAIN todo : j < k /\ o \in Outputs(todo[j].tx)
      /\ \A j \in DOMAIN todo : j < k => o \notin prevouts[todo[j].tx]

\* A reverted transaction that is not handled yet is nowhere else.
RevertsOK ==
  \A k \in DOMAIN todo : todo[k].step = "revert" =>
    /\ todo[k].tx \notin Pool
    /\ job[strand] # NoJob => job[strand].tx # todo[k].tx
    /\ \A j \in DOMAIN todo : j # k => todo[j].tx # todo[k].tx

\* Every input of an entry is in the pool, in the chain, or waits to come back.
Available ==
  \A c \in Pool : \A o \in prevouts[c] :
    \/ o[1] \in Pool /\ o[2] \in vout[o[1]]
    \/ o \in coins
    \/ /\ o[2] \in vout[o[1]]
       /\ \E k \in DOMAIN todo : todo[k].step = "revert" /\ todo[k].tx = o[1]

Consistent ==
  /\ StrandOK /\ PoolOK(mempool)
  /\ ChainOK(chain) /\ coins = Unspent(chain)
  /\ Pool \cap Confirmed = {}
  /\ ConnectsOK /\ RevertsOK /\ Available

AdmissionInv == Inv /\ JobsOK /\ Consistent

-----------------------------------------------------------------------------
(* The chain and its unspent outputs. *)

LEMMA OutputsOf ==
  ASSUME NEW tx
  PROVE  /\ \A o \in Outputs(tx) : o[1] = tx /\ o[2] \in vout[tx]
         /\ \A c \in Tx : \A o \in prevouts[c] :
              (o[1] = tx /\ o[2] \in vout[tx]) => o \in Outputs(tx)
  <1>1. \A o \in Outputs(tx) : o[1] = tx /\ o[2] \in vout[tx]
    BY DEF Outputs
  <1>2. ASSUME NEW c \in Tx, NEW o \in prevouts[c], o[1] = tx, o[2] \in vout[tx]
        PROVE  o \in Outputs(tx)
    <2>1. o = <<o[1], o[2]>>
      BY TransactionAssumption
    <2>2. <<tx, o[2]>> \in Outputs(tx)
      BY <1>2 DEF Outputs
    <2>3. QED
      BY <2>1, <2>2, <1>2
  <1>3. QED
    BY <1>1, <1>2

LEMMA TailOf ==
  ASSUME NEW S, NEW s \in Seq(S), s # <<>>
  PROVE  /\ Tail(s) \in Seq(S) /\ Head(s) = s[1] /\ 1 \in DOMAIN s /\ s[1] \in S
         /\ DOMAIN s = 1 .. Len(s) /\ Len(s) \in Nat \ {0}
         /\ DOMAIN Tail(s) = 1 .. Len(s) - 1
         /\ \A k \in DOMAIN Tail(s) : k + 1 \in DOMAIN s /\ Tail(s)[k] = s[k + 1]
         /\ \A k \in DOMAIN s : k # 1 => k - 1 \in DOMAIN Tail(s) /\ Tail(s)[k - 1] = s[k]
  OBVIOUS

LEMMA UnspentOf ==
  ASSUME NEW ch, NEW o
  PROVE  o \in Unspent(ch) <=>
           /\ o \in Coins \/ \E i \in DOMAIN ch : o \in Outputs(ch[i].tx)
           /\ ~\E i \in DOMAIN ch : o \in prevouts[ch[i].tx]
  BY DEF Unspent

Extended(ch, tx, h) == Append(ch, [tx |-> tx, height |-> h])

\* A transaction whose inputs are unspent extends the chain.
LEMMA ConnectKeepsChain ==
  ASSUME NEW ch, ChainOK(ch), NEW tx \in Tx, NEW h \in Nat,
         prevouts[tx] \subseteq Unspent(ch),
         NEW new, new = Extended(ch, tx, h)
  PROVE  /\ ChainOK(new)
         /\ Unspent(new) = (Unspent(ch) \ prevouts[tx]) \cup Outputs(tx)
         /\ \A i \in DOMAIN new : new[i].tx = tx \/ \E j \in DOMAIN ch : new[i].tx = ch[j].tx
  <1> DEFINE n == Len(ch) + 1
  <1>1. /\ new \in Seq([tx : Tx, height : Nat]) /\ ch \in Seq([tx : Tx, height : Nat])
        /\ DOMAIN ch = 1 .. Len(ch) /\ Len(ch) \in Nat /\ n \in Nat
        /\ DOMAIN new = 1 .. n
        /\ \A i \in DOMAIN ch : new[i] = ch[i] /\ i \in DOMAIN new /\ i < n
        /\ \A i \in DOMAIN new : i # n => i \in DOMAIN ch
        /\ n \in DOMAIN new /\ new[n].tx = tx
    BY DEF ChainOK, Extended
  <1> HIDE DEF n
  <1>2. ASSUME NEW o \in prevouts[tx]
        PROVE  /\ o \in Coins \/ \E j \in DOMAIN ch : o \in Outputs(ch[j].tx)
               /\ \A j \in DOMAIN ch : o \notin prevouts[ch[j].tx]
    BY DEF Unspent
  <1>3. \A j \in DOMAIN ch : ch[j].tx # tx
    <2>1. PICK o \in prevouts[tx] : TRUE
      BY TransactionAssumption
    <2>2. QED
      BY <2>1, <1>2
  <1>4. ASSUME NEW o \in Outputs(tx)
        PROVE  /\ o \notin prevouts[tx]
               /\ \A j \in DOMAIN ch : o \notin prevouts[ch[j].tx]
    <2>1. o[1] = tx
      BY OutputsOf
    <2>2. o \notin prevouts[tx]
      BY <2>1, TransactionAssumption
    <2>3. ASSUME NEW j \in DOMAIN ch, o \in prevouts[ch[j].tx]
          PROVE  FALSE
      <3>1. o \notin Coins
        BY <2>1, TxAdmissionAssumption
      <3>2. PICK k \in DOMAIN ch : o \in Outputs(ch[k].tx)
        BY <3>1, <2>3 DEF ChainOK
      <3>3. o[1] = ch[k].tx
        BY <3>2, OutputsOf
      <3>4. QED
        BY <3>3, <2>1, <1>3, Zenon
    <2>4. QED
      BY <2>2, <2>3
  <1>5. ChainOK(new)
    <2>1. ASSUME NEW i \in DOMAIN new, NEW j \in DOMAIN new, i # j
          PROVE  prevouts[new[i].tx] \cap prevouts[new[j].tx] = {}
      <3>1. CASE i # n /\ j # n
        BY <3>1, <2>1, <1>1, Zenon DEF ChainOK
      <3>2. CASE i = n
        BY <3>2, <2>1, <1>1, <1>2
      <3>3. CASE j = n
        BY <3>3, <2>1, <1>1, <1>2
      <3>4. QED
        BY <3>1, <3>2, <3>3
    <2>2. ASSUME NEW i \in DOMAIN new, NEW o \in prevouts[new[i].tx], o \notin Coins
          PROVE  \E j \in DOMAIN new : j < i /\ o \in Outputs(new[j].tx)
      <3>1. CASE i = n
        BY <3>1, <2>2, <1>1, <1>2
      <3>2. CASE i # n
        <4>1. i \in DOMAIN ch /\ new[i] = ch[i]
          BY <3>2, <1>1
        <4>2. PICK j \in DOMAIN ch : j < i /\ o \in Outputs(ch[j].tx)
          BY <4>1, <2>2 DEF ChainOK
        <4>3. QED
          BY <4>2, <1>1
      <3>3. QED
        BY <3>1, <3>2
    <2>3. QED
      BY <2>1, <2>2, <1>1, Zenon DEF ChainOK
  <1>6. Unspent(new) = (Unspent(ch) \ prevouts[tx]) \cup Outputs(tx)
    <2>1. ASSUME NEW o
          PROVE  /\ (\E i \in DOMAIN new : o \in Outputs(new[i].tx))
                    <=> (\E i \in DOMAIN ch : o \in Outputs(ch[i].tx)) \/ o \in Outputs(tx)
                 /\ (\E i \in DOMAIN new : o \in prevouts[new[i].tx])
                    <=> (\E i \in DOMAIN ch : o \in prevouts[ch[i].tx]) \/ o \in prevouts[tx]
      BY <1>1, Zenon
    <2>2. ASSUME NEW o
          PROVE  o \in Unspent(new) <=> o \in (Unspent(ch) \ prevouts[tx]) \cup Outputs(tx)
      BY <2>1, <1>4, UnspentOf
    <2>3. QED
      BY <2>2
  <1>7. \A i \in DOMAIN new : new[i].tx = tx \/ \E j \in DOMAIN ch : new[i].tx = ch[j].tx
    BY <1>1
  <1>8. QED
    BY <1>5, <1>6, <1>7

\* A chain that loses its last transactions gets their inputs back.
LEMMA RevertKeepsChain ==
  ASSUME NEW ch, ChainOK(ch), NEW fork \in 0 .. Len(ch) - 1,
         NEW inputs, NEW outputs,
         \A o : o \in inputs <=> \E i \in DOMAIN ch : i > fork /\ o \in prevouts[ch[i].tx],
         \A o : o \in outputs <=> \E i \in DOMAIN ch : i > fork /\ o \in Outputs(ch[i].tx)
  PROVE  LET new == SubSeq(ch, 1, fork) IN
         /\ ChainOK(new)
         /\ Unspent(new) = (Unspent(ch) \cup inputs) \ outputs
         /\ \A i \in DOMAIN new : i \in DOMAIN ch /\ new[i].tx = ch[i].tx
  <1> DEFINE new == SubSeq(ch, 1, fork)
  <1>1. /\ new \in Seq([tx : Tx, height : Nat]) /\ ch \in Seq([tx : Tx, height : Nat])
        /\ DOMAIN ch = 1 .. Len(ch) /\ Len(ch) \in Nat /\ fork \in Nat
        /\ DOMAIN new = 1 .. fork
        /\ \A i \in DOMAIN new : new[i] = ch[i] /\ i \in DOMAIN ch /\ i <= fork
        /\ \A i \in DOMAIN ch : i <= fork => i \in DOMAIN new
        /\ \A i \in DOMAIN ch : ch[i].tx \in Tx
    <2>1. /\ ch \in Seq([tx : Tx, height : Nat])
          /\ DOMAIN ch = 1 .. Len(ch) /\ Len(ch) \in Nat /\ fork \in Nat /\ fork < Len(ch)
      BY DEF ChainOK
    <2>2. \A i \in DOMAIN ch : ch[i] \in [tx : Tx, height : Nat]
      BY <2>1, ElementOf, Zenon
    <2>3. \A i \in 1 .. fork : i \in DOMAIN ch /\ ch[i] \in [tx : Tx, height : Nat]
      BY <2>1, <2>2
    <2>4. /\ new \in Seq([tx : Tx, height : Nat])
          /\ Len(new) = fork
          /\ \A i \in 1 .. fork : new[i] = ch[i]
      <3>1. fork \in 0 .. Len(ch)
        BY <2>1
      <3>2. QED
        BY <2>1, <3>1, PrefixOf, Zenon
    <2> HIDE DEF new
    <2>5. DOMAIN new = 1 .. fork /\ \A i \in 1 .. fork : new[i] = ch[i]
      BY <2>1, <2>4
    <2>6. QED
      BY <2>1, <2>2, <2>3, <2>4, <2>5
  <1> HIDE DEF new
  <1>2. ChainOK(new)
    <2>1. \A i, j \in DOMAIN new : i # j => prevouts[new[i].tx] \cap prevouts[new[j].tx] = {}
      BY <1>1, Zenon DEF ChainOK
    <2>2. ASSUME NEW i \in DOMAIN new, NEW o \in prevouts[new[i].tx], o \notin Coins
          PROVE  \E j \in DOMAIN new : j < i /\ o \in Outputs(new[j].tx)
      <3>1. PICK j \in DOMAIN ch : j < i /\ o \in Outputs(ch[j].tx)
        BY <2>2, <1>1 DEF ChainOK
      <3>2. j \in DOMAIN new
        BY <3>1, <1>1
      <3>3. QED
        BY <3>1, <3>2, <1>1
    <2>3. QED
      BY <2>1, <2>2, <1>1, Zenon DEF ChainOK
  <1>3. ASSUME NEW i \in DOMAIN ch, NEW j \in DOMAIN ch, ch[i].tx = ch[j].tx
        PROVE  i = j
    <2>1. PICK o \in prevouts[ch[i].tx] : TRUE
      BY <1>1, TransactionAssumption, Zenon
    <2>2. QED
      BY <2>1, <1>3, Zenon DEF ChainOK
  <1>4. ASSUME NEW o \in Unspent(new)
        PROVE  o \in (Unspent(ch) \cup inputs) \ outputs
    <2>1. /\ o \in Coins \/ \E i \in DOMAIN new : o \in Outputs(ch[i].tx)
          /\ \A i \in DOMAIN new : o \notin prevouts[ch[i].tx]
      BY <1>1 DEF Unspent
    <2>2. o \notin outputs
      <3>1. SUFFICES ASSUME NEW i \in DOMAIN ch, i > fork, o \in Outputs(ch[i].tx)
                     PROVE  FALSE
        OBVIOUS
      <3>2. o[1] = ch[i].tx /\ o \notin Coins
        BY <3>1, <1>1, OutputsOf, TxAdmissionAssumption
      <3>3. PICK j \in DOMAIN new : o \in Outputs(ch[j].tx)
        BY <2>1, <3>2
      <3>4. ch[j].tx = ch[i].tx /\ j \in DOMAIN ch /\ j <= fork
        BY <3>2, <3>3, OutputsOf, <1>1
      <3>5. QED
        <4>1. i = j
          BY <3>4, <1>3
        <4>2. QED
          BY <4>1, <3>1, <3>4, <1>1
    <2>3. CASE \E i \in DOMAIN ch : o \in prevouts[ch[i].tx]
      <3>1. PICK i \in DOMAIN ch : o \in prevouts[ch[i].tx]
        BY <2>3
      <3>2. i > fork
        BY <3>1, <2>1, <1>1
      <3>3. QED
        BY <3>1, <3>2, <2>2
    <2>4. CASE ~\E i \in DOMAIN ch : o \in prevouts[ch[i].tx]
      BY <2>1, <2>2, <2>4, <1>1 DEF Unspent
    <2>5. QED
      BY <2>3, <2>4
  <1>5. ASSUME NEW o \in (Unspent(ch) \cup inputs) \ outputs
        PROVE  o \in Unspent(new)
    <2>1. o \in Coins \/ \E i \in DOMAIN ch : o \in Outputs(ch[i].tx)
      <3>1. CASE o \in Unspent(ch)
        BY <3>1 DEF Unspent
      <3>2. CASE o \in inputs
        BY <3>2 DEF ChainOK
      <3>3. QED
        BY <3>1, <3>2
    <2>2. o \in Coins \/ \E i \in DOMAIN new : o \in Outputs(new[i].tx)
      <3>1. ASSUME NEW i \in DOMAIN ch, o \in Outputs(ch[i].tx)
            PROVE  i \in DOMAIN new
        <4>1. ~(i > fork)
          BY <3>1
        <4>2. QED
          BY <4>1, <1>1
      <3>2. QED
        BY <2>1, <3>1, <1>1
    <2>3. ASSUME NEW i \in DOMAIN new, o \in prevouts[new[i].tx]
          PROVE  FALSE
      <3>1. i \in DOMAIN ch /\ i <= fork /\ o \in prevouts[ch[i].tx]
        BY <2>3, <1>1
      <3>2. CASE o \in Unspent(ch)
        BY <3>1, <3>2 DEF Unspent
      <3>3. CASE o \in inputs
        <4>1. PICK j \in DOMAIN ch : j > fork /\ o \in prevouts[ch[j].tx]
          BY <3>3
        <4>2. i # j
          BY <4>1, <3>1, <1>1
        <4>3. QED
          BY <4>1, <4>2, <3>1 DEF ChainOK
      <3>4. QED
        BY <3>2, <3>3
    <2>4. QED
      BY <2>2, <2>3 DEF Unspent
  <1>6. Unspent(new) = (Unspent(ch) \cup inputs) \ outputs
    BY <1>4, <1>5
  <1>7. QED
    BY <1>1, <1>2, <1>6 DEF new


-----------------------------------------------------------------------------
(* The orphan cache inside the composition. *)

LEMMA JobOf ==
  ASSUME JobsOK, NEW w \in Workers
  PROVE  /\ job[w].at \in {"none", "orphan", "insert", "link", "adopt"}
         /\ job[w].at # "none" =>
              /\ job[w] # NoJob /\ job[w].tx \in Tx /\ job[w].fromMempool \in BOOLEAN
              /\ job[w] \in [at : {"orphan", "insert", "link", "adopt"},
                             tx : Tx, fromMempool : BOOLEAN]
         /\ job[w] # NoJob => job[w].at # "none" /\ job[w].tx \in Tx
  <1>1. CASE job[w] = NoJob
    BY <1>1 DEF NoJob
  <1>2. CASE job[w] \in [at : {"orphan", "insert", "link", "adopt"},
                         tx : Tx, fromMempool : BOOLEAN]
    BY <1>2 DEF NoJob
  <1>3. QED
    BY <1>1, <1>2 DEF JobsOK

\* The shape of what the first lock section leaves behind.
LEMMA CheckInputsStep ==
  ASSUME JobsOK, NEW w \in Workers, NEW state \in [tx : Tx, fromMempool : BOOLEAN],
         CheckInputs(w, state)
  PROVE  /\ MayLock(w) /\ UNCHANGED <<vars, poolVars, fromMempool, csHolder>>
         /\ job' \in [Workers -> {NoJob} \cup [at : {"orphan", "insert", "link", "adopt"},
                                               tx : Tx, fromMempool : BOOLEAN]]
         /\ \A v \in Workers : v # w => job'[v] = job[v]
         /\ job'[w] = job[w] \/ job'[w].tx = state.tx
  <1>1. /\ MayLock(w) /\ UNCHANGED <<vars, poolVars, fromMempool, csHolder>>
        /\ \/ UNCHANGED job
           \/ \E step \in {"orphan", "insert"} :
                job' = [job EXCEPT ![w] =
                  [at |-> step, tx |-> state.tx, fromMempool |-> state.fromMempool]]
    BY Zenon DEF CheckInputs
  <1>2. CASE UNCHANGED job
    BY <1>1, <1>2 DEF JobsOK
  <1>3. ASSUME NEW step \in {"orphan", "insert"},
               job' = [job EXCEPT ![w] =
                  [at |-> step, tx |-> state.tx, fromMempool |-> state.fromMempool]]
        PROVE  /\ job' \in [Workers -> {NoJob} \cup [at : {"orphan", "insert", "link", "adopt"},
                                               tx : Tx, fromMempool : BOOLEAN]]
               /\ \A v \in Workers : v # w => job'[v] = job[v]
               /\ job'[w].tx = state.tx
    <2> DEFINE new == [at |-> step, tx |-> state.tx, fromMempool |-> state.fromMempool]
               T == {NoJob} \cup [at : {"orphan", "insert", "link", "adopt"},
                                  tx : Tx, fromMempool : BOOLEAN]
    <2>1. new \in T /\ new.tx = state.tx
      OBVIOUS
    <2>2. job \in [Workers -> T]
      BY DEF JobsOK
    <2> HIDE DEF new, T
    <2>3. job' = [job EXCEPT ![w] = new]
      BY <1>3 DEF new
    <2>4. job' \in [Workers -> T] /\ job'[w] = new /\ \A v \in Workers : v # w => job'[v] = job[v]
      BY <2>1, <2>2, <2>3
    <2>5. QED
      BY <2>1, <2>4 DEF T
  <1>4. QED
    BY <1>1, <1>2, <1>3

LEMMA DoneStep ==
  ASSUME JobsOK, NEW w \in Workers, Done(w)
  PROVE  /\ job' \in [Workers -> {NoJob} \cup [at : {"orphan", "insert", "link", "adopt"},
                                               tx : Tx, fromMempool : BOOLEAN]]
         /\ \A v \in Workers : v # w => job'[v] = job[v]
         /\ job'[w] = NoJob
  <1> DEFINE T == {NoJob} \cup [at : {"orphan", "insert", "link", "adopt"},
                                tx : Tx, fromMempool : BOOLEAN]
  <1>1. NoJob \in T /\ job \in [Workers -> T] /\ job' = [job EXCEPT ![w] = NoJob]
    BY DEF JobsOK, Done
  <1> HIDE DEF T
  <1>2. job' \in [Workers -> T] /\ job'[w] = NoJob /\ \A v \in Workers : v # w => job'[v] = job[v]
    BY <1>1
  <1>3. QED
    BY <1>2 DEF T

\* The composition does to the orphan cache what OrphanCache allows.
LEMMA OrphanStep ==
  ASSUME Inv, JobsOK, [AdmissionNext]_admissionVars
  PROVE  [Next]_vars
  <1>1. ASSUME NEW w \in Workers, CacheOrphan(w) PROVE [Next]_vars
    <2>1. job[w].tx \in Tx
      BY <1>1, JobOf DEF CacheOrphan
    <2>2. CASE \E entryTime \in 0 .. now : AddOrphanTx(w, job[w].tx, entryTime)
      BY <2>1, <2>2 DEF Next
    <2>3. CASE UNCHANGED vars
      BY <2>3
    <2>4. QED
      BY <1>1, <2>2, <2>3 DEF CacheOrphan
  <1>2. ASSUME NEW w \in Workers, Adopt(w) PROVE [Next]_vars
    <2>1. job[w].tx \in Prevs
      BY <1>2, JobOf, TxAdmissionAssumption DEF Adopt
    <2>2. fetchTransactionsByPrev(w, job[w].tx)
      BY <1>2 DEF Adopt
    <2>3. QED
      BY <2>1, <2>2 DEF Next
  <1>3. CASE CleanOrphans
    <2>1. ASSUME NEW vtx \in Blocks PROVE Range(vtx) \in SUBSET Tx
      <3>1. vtx \in Seq(Tx)
        BY TxAdmissionAssumption
      <3>2. QED
        BY <3>1 DEF Range
    <2>2. QED
      BY <1>3, <2>1 DEF CleanOrphans, Next
  <1>4. ASSUME NEW w \in Workers, Receive(w) \/ RunPosted(w) PROVE [Next]_vars
    <2>1. UNCHANGED vars
      BY <1>4, Zenon DEF Receive, RunPosted, CheckInputs
    <2>2. QED
      BY <2>1
  <1>5. ASSUME NEW w \in Workers, Refuse(w) \/ Insert(w) \/ LinkChildren(w) PROVE [Next]_vars
    BY <1>5 DEF Refuse, Insert, LinkChildren
  <1>6. CASE sync \/ ConnectBlock \/ ConnectTx \/ PrepareChain \/ RevertTx \/ ChainPrepared
    <2>1. UNCHANGED vars
      BY <1>6, Zenon DEF sync, ConnectBlock, ConnectTx, PrepareChain, RevertTx, ChainPrepared
    <2>2. QED
      BY <2>1
  <1>7. CASE PutBack
    <2>1. UNCHANGED vars
      BY <1>7, Zenon DEF PutBack, CheckInputs
    <2>2. QED
      BY <2>1
  <1>8. CASE UNCHANGED admissionVars
    BY <1>8 DEF admissionVars
  <1>9. QED
    BY <1>1, <1>2, <1>3, <1>4, <1>5, <1>6, <1>7, <1>8 DEF AdmissionNext


LEMMA TodoOf ==
  ASSUME StrandOK, todo # <<>>
  PROVE  /\ Tail(todo) \in Seq(Tasks)
         /\ Head(todo) = todo[1] /\ 1 \in DOMAIN todo
         /\ Head(todo).tx \in Tx /\ Head(todo).height \in Nat
         /\ DOMAIN todo = 1 .. Len(todo) /\ Len(todo) \in Nat \ {0}
         /\ DOMAIN Tail(todo) = 1 .. Len(todo) - 1
         /\ \A k \in DOMAIN Tail(todo) : k + 1 \in DOMAIN todo /\ Tail(todo)[k] = todo[k + 1]
         /\ \A k \in DOMAIN todo :
              k # 1 => k - 1 \in DOMAIN Tail(todo) /\ Tail(todo)[k - 1] = todo[k]
  <1>1. todo \in Seq(Tasks)
    BY DEF StrandOK
  <1>2. \A e \in Tasks : e.tx \in Tx /\ e.height \in Nat
    BY DEF Tasks
  <1>3. todo[1] \in Tasks
    BY <1>1, TailOf
  <1>4. /\ Tail(todo) \in Seq(Tasks) /\ Head(todo) = todo[1] /\ 1 \in DOMAIN todo
        /\ DOMAIN todo = 1 .. Len(todo) /\ Len(todo) \in Nat \ {0}
        /\ DOMAIN Tail(todo) = 1 .. Len(todo) - 1
        /\ \A k \in DOMAIN Tail(todo) : k + 1 \in DOMAIN todo /\ Tail(todo)[k] = todo[k + 1]
        /\ \A k \in DOMAIN todo :
             k # 1 => k - 1 \in DOMAIN Tail(todo) /\ Tail(todo)[k - 1] = todo[k]
    BY <1>1, TailOf
  <1>5. QED
    BY <1>2, <1>3, <1>4

LEMMA JobsStep ==
  ASSUME Inv, Inv', JobsOK, StrandOK, [AdmissionNext]_admissionVars
  PROVE  JobsOK'
  <1> DEFINE J == [Workers -> {NoJob} \cup [at : {"orphan", "insert", "link", "adopt"},
                                            tx : Tx, fromMempool : BOOLEAN]]
             States == [tx : Tx, fromMempool : BOOLEAN]
  <1>0. job \in J /\ posted \subseteq States /\ fromMempool \subseteq Orphans
    BY DEF JobsOK
  <1>s. SUFFICES job' \in J /\ posted' \subseteq States /\ fromMempool' \subseteq Orphans'
    BY DEF JobsOK
  <1>u. UNCHANGED vars => Orphans' = Orphans
    BY DEF vars, Orphans
  <1>1. ASSUME NEW w \in Workers, NEW state \in States, CheckInputs(w, state),
               posted' \subseteq posted
        PROVE  job' \in J /\ posted' \subseteq States /\ fromMempool' \subseteq Orphans'
    BY <1>0, <1>1, <1>u, CheckInputsStep
  <1>2. ASSUME NEW w \in Workers, Done(w) PROVE job' \in J
    BY <1>2, DoneStep
  <1>3. ASSUME NEW w \in Workers, NEW step \in {"link", "adopt"}, job[w].at # "none",
               job' = [job EXCEPT ![w].at = step]
        PROVE  job' \in J
    <2>1. [job[w] EXCEPT !.at = step] \in
             [at : {"orphan", "insert", "link", "adopt"}, tx : Tx, fromMempool : BOOLEAN]
      BY <1>3, JobOf
    <2>2. job' = [job EXCEPT ![w] = [job[w] EXCEPT !.at = step]]
      BY <1>3
    <2>3. QED
      BY <1>0, <2>1, <2>2
  <1> HIDE DEF J
  <1>4. ASSUME NEW w \in Workers, Receive(w)
        PROVE  job' \in J /\ posted' \subseteq States /\ fromMempool' \subseteq Orphans'
    <2>1. PICK tx \in Relayed : CheckInputs(w, [tx |-> tx, fromMempool |-> FALSE])
      BY <1>4, Zenon DEF Receive
    <2>2. [tx |-> tx, fromMempool |-> FALSE] \in States
      BY TxAdmissionAssumption
    <2>3. QED
      BY <1>1, <1>4, <2>1, <2>2, Zenon DEF Receive
  <1>5. ASSUME NEW w \in Workers, RunPosted(w)
        PROVE  job' \in J /\ posted' \subseteq States /\ fromMempool' \subseteq Orphans'
    <2>1. PICK state \in posted : CheckInputs(w, state) /\ posted' = posted \ {state}
      BY <1>5 DEF RunPosted
    <2>2. QED
      BY <1>0, <1>1, <2>1
  <1>6. ASSUME NEW w \in Workers, CacheOrphan(w)
        PROVE  job' \in J /\ posted' \subseteq States /\ fromMempool' \subseteq Orphans'
    <2>1. Orphans \subseteq Orphans'
      <3>1. CASE \E entryTime \in 0 .. now : AddOrphanTx(w, job[w].tx, entryTime)
        BY <3>1 DEF AddOrphanTx, Added, Orphans
      <3>2. CASE UNCHANGED vars
        BY <3>2, <1>u
      <3>3. QED
        BY <1>6, <3>1, <3>2 DEF CacheOrphan
    <2>2. fromMempool' \subseteq fromMempool \/ fromMempool' \subseteq Orphans'
      BY <1>6 DEF CacheOrphan
    <2>3. Done(w) /\ UNCHANGED posted
      BY <1>6 DEF CacheOrphan
    <2>4. QED
      BY <1>0, <1>2, <2>1, <2>2, <2>3
  <1>7. ASSUME NEW w \in Workers, Refuse(w)
        PROVE  job' \in J /\ posted' \subseteq States /\ fromMempool' \subseteq Orphans'
    BY <1>0, <1>2, <1>7, <1>u DEF Refuse
  <1>8. ASSUME NEW w \in Workers, Insert(w) \/ LinkChildren(w)
        PROVE  job' \in J /\ posted' \subseteq States /\ fromMempool' \subseteq Orphans'
    <2>1. /\ job[w].at # "none" /\ UNCHANGED <<vars, posted, fromMempool>>
          /\ \E step \in {"link", "adopt"} : job' = [job EXCEPT ![w].at = step]
      BY <1>8 DEF Insert, LinkChildren
    <2>2. QED
      BY <1>0, <1>3, <1>u, <2>1, Zenon
  <1>9. ASSUME NEW w \in Workers, Adopt(w)
        PROVE  job' \in J /\ posted' \subseteq States /\ fromMempool' \subseteq Orphans'
    <2>1. Orphans' = Orphans /\ fromMempool' = fromMempool /\ Done(w)
      BY <1>9 DEF Adopt, fetchTransactionsByPrev, Orphans
    <2>2. scheduled'[w] \subseteq Tx
      BY DEF Inv, TypeOK
    <2>3. posted' \subseteq States
      <3>1. ASSUME NEW tx \in scheduled'[w]
            PROVE  [tx |-> tx, fromMempool |-> tx \in fromMempool] \in States
        <4>1. tx \in Tx /\ (tx \in fromMempool) \in BOOLEAN
          BY <2>2
        <4>2. QED
          BY <4>1, Zenon
      <3> HIDE DEF States
      <3>2. QED
        BY <1>0, <1>9, <3>1 DEF Adopt
    <2>4. QED
      BY <1>0, <1>2, <2>1, <2>3
  <1>10. CASE CleanOrphans
    BY <1>0, <1>10 DEF CleanOrphans
  <1>11. CASE sync \/ ConnectBlock \/ ConnectTx \/ PrepareChain \/ RevertTx \/ ChainPrepared
    <2>1. UNCHANGED <<vars, job, posted, fromMempool>>
      BY <1>11, Zenon DEF sync, ConnectBlock, ConnectTx, PrepareChain, RevertTx, ChainPrepared
    <2>2. QED
      BY <1>0, <1>u, <2>1
  <1>12. CASE PutBack
    <2>1. todo # <<>> /\ CheckInputs(strand, [tx |-> Head(todo).tx, fromMempool |-> TRUE])
          /\ posted' = posted
      BY <1>12 DEF PutBack, TakesUp
    <2>2. [tx |-> Head(todo).tx, fromMempool |-> TRUE] \in States
      <3>1. Head(todo).tx \in Tx
        BY <2>1, TodoOf
      <3>2. QED
        BY <3>1
    <2>3. QED
      BY <1>1, <2>1, <2>2, TxAdmissionAssumption, Zenon
  <1>13. CASE UNCHANGED admissionVars
    BY <1>0, <1>u, <1>13 DEF admissionVars
  <1>14. QED
    BY <1>4, <1>5, <1>6, <1>7, <1>8, <1>9, <1>10, <1>11, <1>12, <1>13 DEF AdmissionNext


-----------------------------------------------------------------------------
(* The pool, the chain and the strand, action by action. *)

\* A step that leaves them alone but may end the strand's job.
LEMMA FrameStep ==
  ASSUME Consistent, UNCHANGED <<poolVars, strandVars>>,
         job'[strand] = job[strand] \/ job'[strand] = NoJob
  PROVE  Consistent'
  <1>1. mempool' = mempool /\ coins' = coins /\ chain' = chain /\ csHolder' = csHolder
        /\ todo' = todo
    BY DEF poolVars, strandVars
  <1>2. Pool' = Pool /\ Confirmed' = Confirmed
    BY <1>1 DEF Pool, Confirmed
  <1>3. StrandOK'
    BY <1>1 DEF Consistent, StrandOK
  <1>4. PoolOK(mempool)' /\ ChainOK(chain)' /\ (coins = Unspent(chain))'
    BY <1>1 DEF Consistent
  <1>5. ConnectsOK'
    BY <1>1 DEF Consistent, ConnectsOK
  <1>6. RevertsOK'
    BY <1>1, <1>2 DEF Consistent, RevertsOK
  <1>7. Available'
    BY <1>1, <1>2 DEF Consistent, Available
  <1>8. QED
    BY <1>2, <1>3, <1>4, <1>5, <1>6, <1>7 DEF Consistent

\* sync and the end of prepareChain: the pool shrinks and nothing else moves.
LEMMA ShrinkStep ==
  ASSUME Consistent, mempool' \in Limited(mempool), UNCHANGED <<coins, chain, job, todo>>,
         csHolder' = {}, todo = <<>>, job[strand] = NoJob
  PROVE  Consistent'
  <1>1. Shrinks(mempool, mempool')
    BY LimitedShrinks DEF Consistent
  <1>2. Pool' \subseteq Pool /\ Confirmed' = Confirmed
    BY <1>1 DEF Shrinks, Pool, Confirmed
  <1>3. StrandOK'
    BY DEF Consistent, StrandOK
  <1>4. PoolOK(mempool)' /\ ChainOK(chain)' /\ (coins = Unspent(chain))'
    BY <1>1 DEF Consistent, Shrinks
  <1>5. ConnectsOK' /\ RevertsOK'
    BY DEF ConnectsOK, RevertsOK
  <1>6. Available'
    BY <1>1 DEF Consistent, Available, Shrinks, Pool
  <1>7. QED
    BY <1>2, <1>3, <1>4, <1>5, <1>6 DEF Consistent

\* insertTx: the transaction is not confirmed, no entry spends it and it is
\* not one of those still to be put back.
LEMMA InsertStep ==
  ASSUME JobsOK, Consistent, NEW w \in Workers, Insert(w)
  PROVE  Consistent'
  <1> DEFINE tx == job[w].tx
  <1>1. /\ tx \in Tx /\ job[w] # NoJob /\ MayLock(w) /\ Insertable(mempool, coins, tx)
        /\ mempool' = addUnchecked(mempool, tx)
        /\ UNCHANGED <<coins, chain, csHolder, todo>>
    BY JobOf DEF Insert, strandVars
  <1>2. /\ tx \notin Pool /\ prevouts[tx] \cap DOMAIN mempool.mapNextTx = {}
        /\ \A o \in prevouts[tx] : (o[1] \in Pool /\ o[2] \in vout[o[1]]) \/ o \in coins
    BY <1>1 DEF Insertable, exists, Pool
  <1>3. /\ job'[strand] # NoJob => job[strand] # NoJob /\ job'[strand].tx = job[strand].tx
        /\ csHolder = {} => job'[strand] = NoJob
    <2>1. strand # w => job'[strand] = job[strand]
      BY TxAdmissionAssumption DEF Insert, JobsOK
    <2>2. strand = w => job'[strand].tx = job[strand].tx /\ csHolder # {}
      BY <1>1 DEF Insert, JobsOK, Consistent, StrandOK
    <2>3. QED
      BY <1>1, <2>1, <2>2 DEF Consistent, StrandOK
  <1> HIDE DEF tx
  <1>4. \A k \in DOMAIN todo : todo[k].step = "revert" => todo[k].tx # tx
    <2>1. CASE w = strand
      BY <1>1, <2>1 DEF Consistent, RevertsOK, tx
    <2>2. CASE w # strand
      <3>1. todo = <<>>
        BY <1>1, <2>2 DEF Consistent, StrandOK, MayLock
      <3>2. QED
        BY <3>1
    <2>3. QED
      BY <2>1, <2>2
  <1>5. tx \notin Confirmed
    <2> SUFFICES ASSUME NEW i \in DOMAIN chain, chain[i].tx = tx PROVE FALSE
      BY DEF Confirmed
    <2>1. PICK o \in prevouts[tx] : TRUE
      BY <1>1, TransactionAssumption
    <2>2. o \notin coins
      BY UnspentOf DEF Consistent
    <2>3. o[1] \in Pool
      BY <1>2, <2>2
    <2>4. o[1] \in Tx /\ o \notin Coins
      BY <2>3, TxAdmissionAssumption DEF Consistent, PoolOK, PoolShape, Pool
    <2>5. PICK j \in DOMAIN chain : o \in Outputs(chain[j].tx)
      BY <2>1, <2>4 DEF Consistent, ChainOK
    <2>6. o[1] \in Confirmed
      BY <2>5, OutputsOf DEF Confirmed
    <2>7. QED
      BY <2>3, <2>6 DEF Consistent
  <1>6. ASSUME NEW c \in Pool, SpendsFrom(c, tx) PROVE FALSE
    <2>1. PICK o \in prevouts[c] : o[1] = tx
      BY <1>6 DEF SpendsFrom
    <2>2. CASE o \in coins
      <3>1. o \in Coins \/ \E i \in DOMAIN chain : o \in Outputs(chain[i].tx)
        BY <2>2, UnspentOf DEF Consistent
      <3>2. o \notin Coins
        BY <1>1, <2>1, TxAdmissionAssumption
      <3>3. PICK i \in DOMAIN chain : o \in Outputs(chain[i].tx)
        BY <3>1, <3>2
      <3>4. tx = chain[i].tx
        BY <2>1, <3>3, OutputsOf
      <3>5. QED
        BY <1>5, <3>4 DEF Confirmed
    <2>3. CASE o \notin coins
      BY <1>2, <1>4, <2>1, <2>3 DEF Consistent, Available
    <2>4. QED
      BY <2>2, <2>3
  <1>7. PoolOK(mempool') /\ Pool' = Pool \cup {tx}
    <2>1. /\ PoolOK(mempool) /\ tx \notin DOMAIN mempool.mapTx
          /\ \A c \in DOMAIN mempool.mapTx : ~SpendsFrom(c, tx)
      BY <1>2, <1>6 DEF Consistent, Pool
    <2>2. /\ PoolOK(addUnchecked(mempool, tx))
          /\ DOMAIN addUnchecked(mempool, tx).mapTx = DOMAIN mempool.mapTx \cup {tx}
      BY <1>1, <1>2, <2>1, AddKeepsPool
    <2>3. QED
      BY <1>1, <2>2 DEF Pool
  <1>8. PoolOK(mempool)' /\ ChainOK(chain)' /\ (coins = Unspent(chain))'
    BY <1>1, <1>7 DEF Consistent
  <1>9. (Pool \cap Confirmed = {})'
    <2>1. Confirmed' = Confirmed
      BY <1>1 DEF Confirmed
    <2>2. QED
      BY <1>5, <1>7, <2>1 DEF Consistent
  <1>10. ConnectsOK'
    BY <1>1 DEF Consistent, ConnectsOK
  <1>11. StrandOK'
    BY <1>1, <1>3 DEF Consistent, StrandOK
  <1>12. RevertsOK'
    BY <1>1, <1>3, <1>4, <1>7 DEF Consistent, RevertsOK
  <1>13. Available'
    <2> SUFFICES ASSUME NEW c \in Pool', NEW o \in prevouts[c]
                 PROVE  \/ o[1] \in Pool' /\ o[2] \in vout[o[1]]
                        \/ o \in coins
                        \/ /\ o[2] \in vout[o[1]]
                           /\ \E k \in DOMAIN todo :
                                todo[k].step = "revert" /\ todo[k].tx = o[1]
      BY <1>1 DEF Available
    <2>1. CASE c = tx
      BY <1>2, <1>7, <2>1
    <2>2. CASE c \in Pool
      BY <1>7, <2>2 DEF Consistent, Available
    <2>3. QED
      BY <1>7, <2>1, <2>2
  <1>14. QED
    BY <1>8, <1>9, <1>10, <1>11, <1>12, <1>13 DEF Consistent


LEMMA LinkStep ==
  ASSUME JobsOK, Consistent, NEW w \in Workers, LinkChildren(w)
  PROVE  Consistent'
  <1>1. /\ job[w].tx \in Tx /\ job[w] # NoJob
        /\ mempool' = UpdateTransactionsFromBlock(mempool, job[w].tx)
        /\ UNCHANGED <<coins, chain, csHolder, todo>>
    BY JobOf DEF LinkChildren, strandVars
  <1>2. PoolOK(mempool') /\ Pool' = Pool
    BY <1>1, LinkKeepsPool DEF Consistent, Pool
  <1>3. /\ job'[strand] # NoJob => job[strand] # NoJob /\ job'[strand].tx = job[strand].tx
        /\ csHolder = {} => job'[strand] = NoJob
    <2>1. strand # w => job'[strand] = job[strand]
      BY TxAdmissionAssumption DEF LinkChildren, JobsOK
    <2>2. strand = w => job'[strand].tx = job[strand].tx /\ csHolder # {}
      BY <1>1 DEF LinkChildren, JobsOK, Consistent, StrandOK
    <2>3. QED
      BY <1>1, <2>1, <2>2 DEF Consistent, StrandOK
  <1>4. PoolOK(mempool)' /\ ChainOK(chain)' /\ (coins = Unspent(chain))'
    BY <1>1, <1>2 DEF Consistent
  <1>5. (Pool \cap Confirmed = {})'
    BY <1>1, <1>2 DEF Consistent, Confirmed
  <1>6. StrandOK'
    BY <1>1, <1>3 DEF Consistent, StrandOK
  <1>7. ConnectsOK'
    BY <1>1 DEF Consistent, ConnectsOK
  <1>8. RevertsOK'
    BY <1>1, <1>2, <1>3 DEF Consistent, RevertsOK
  <1>9. Available'
    BY <1>1, <1>2 DEF Consistent, Available
  <1>10. QED
    BY <1>4, <1>5, <1>6, <1>7, <1>8, <1>9 DEF Consistent

\* What the strand's work list holds.
LEMMA EntriesOf ==
  ASSUME NEW txs \in Seq(Tx), NEW step \in {"connect", "revert", "check"}, NEW height \in Nat
  PROVE  /\ Entries(txs, step, height) \in Seq(Tasks)
         /\ DOMAIN Entries(txs, step, height) = DOMAIN txs
         /\ Len(Entries(txs, step, height)) = Len(txs)
         /\ \A k \in DOMAIN txs : /\ Entries(txs, step, height)[k].tx = txs[k]
                                  /\ Entries(txs, step, height)[k].step = step
  <1> DEFINE s == [k \in 1 .. Len(txs) |-> [tx |-> txs[k], step |-> step, height |-> height]]
  <1>1. Entries(txs, step, height) = s /\ DOMAIN txs = 1 .. Len(txs) /\ Len(txs) \in Nat
    BY DEF Entries
  <1>2. \A k \in 1 .. Len(txs) :
          [tx |-> txs[k], step |-> step, height |-> height] \in Tasks
    BY ElementOf DEF Tasks
  <1>3. \A k \in 1 .. Len(txs) : s[k].tx = txs[k] /\ s[k].step = step
    OBVIOUS
  <1>4. s \in Seq(Tasks) /\ Len(s) = Len(txs) /\ DOMAIN s = 1 .. Len(txs)
    BY <1>1, <1>2
  <1> HIDE DEF s
  <1>5. QED
    BY <1>1, <1>3, <1>4

\* A block that fits the coins is taken up.
LEMMA ConnectBlockStep ==
  ASSUME Consistent, ConnectBlock
  PROVE  Consistent'
  <1>1. /\ job[strand] = NoJob /\ csHolder' = {strand}
        /\ UNCHANGED <<mempool, coins, chain, job>>
        /\ todo = <<>>
    BY DEF ConnectBlock, Idle, Consistent, StrandOK, poolVars
  <1>2. PICK vtx \in Blocks :
          Connects(vtx) /\ todo' = Entries(vtx, "connect", Height + 1)
    BY DEF ConnectBlock
  <1>3. vtx \in Seq(Tx)
    BY TxAdmissionAssumption
  <1>4. Height \in Nat
    <2> DEFINE E == [tx : Tx, height : Nat]
    <2>1. chain \in Seq(E) /\ \A e \in E : e.height \in Nat
      BY DEF Consistent, ChainOK
    <2> HIDE DEF E
    <2>2. chain # <<>> => Len(chain) \in 1 .. Len(chain)
      BY <2>1
    <2>3. QED
      BY <2>1, <2>2, ElementOf DEF Height
  <1>5. /\ todo' \in Seq(Tasks)
        /\ DOMAIN todo' = DOMAIN vtx
        /\ \A k \in DOMAIN vtx : todo'[k].tx = vtx[k] /\ todo'[k].step = "connect"
    <2>1. Height + 1 \in Nat
      BY <1>4
    <2>2. ASSUME NEW height \in Nat, todo' = Entries(vtx, "connect", height)
          PROVE  /\ todo' \in Seq(Tasks)
                 /\ DOMAIN todo' = DOMAIN vtx
                 /\ \A k \in DOMAIN vtx : todo'[k].tx = vtx[k] /\ todo'[k].step = "connect"
      <3> DEFINE new == Entries(vtx, "connect", height)
      <3>1. /\ new \in Seq(Tasks)
            /\ DOMAIN new = DOMAIN vtx
            /\ \A k \in DOMAIN vtx : new[k].tx = vtx[k] /\ new[k].step = "connect"
        BY <1>3, EntriesOf
      <3> HIDE DEF new
      <3>2. todo' = new
        BY <2>2 DEF new
      <3>3. QED
        BY <3>1, <3>2
    <2>3. QED
      BY <1>2, <2>1, <2>2, Zenon
  <1>6. StrandOK'
    BY <1>1, <1>5 DEF StrandOK
  <1>7. PoolOK(mempool)' /\ ChainOK(chain)' /\ (coins = Unspent(chain))'
        /\ (Pool \cap Confirmed = {})'
    BY <1>1 DEF Consistent, Pool, Confirmed
  <1>8. ConnectsOK'
    <2>1. DOMAIN vtx \subseteq Nat /\ \A k, j \in DOMAIN vtx : j < k => j \in 1 .. k - 1
      BY <1>3
    <2>2. \A k \in DOMAIN vtx : \A j \in 1 .. k - 1 : j \in DOMAIN vtx /\ j < k
      BY <1>3
    <2>3. ASSUME NEW k \in DOMAIN vtx, NEW o \in prevouts[vtx[k]]
          PROVE  /\ o \in coins \/ \E j \in DOMAIN vtx : j < k /\ o \in Outputs(vtx[j])
                 /\ \A j \in DOMAIN vtx : j < k => o \notin prevouts[vtx[j]]
      BY <1>2, <2>1, <2>2 DEF Connects
    <2>4. QED
      BY <1>1, <1>5, <2>3 DEF ConnectsOK
  <1>9. RevertsOK'
    BY <1>5 DEF RevertsOK
  <1>10. Available'
    BY <1>1 DEF Consistent, Available, Pool
  <1>11. QED
    BY <1>6, <1>7, <1>8, <1>9, <1>10 DEF Consistent

\* A transaction of the block moves from the pool to the chain.
LEMMA ConnectTxStep ==
  ASSUME Consistent, ConnectTx
  PROVE  Consistent'
  <1> DEFINE tx == Head(todo).tx
             h == Head(todo).height
  <1>1. /\ job[strand] = NoJob /\ csHolder = {strand} /\ todo # <<>>
        /\ Head(todo).step = "connect" /\ UNCHANGED job
        /\ mempool' = removeForBlock(mempool, tx)
        /\ coins' = (coins \ prevouts[tx]) \cup Outputs(tx)
        /\ chain' = Append(chain, [tx |-> tx, height |-> h])
        /\ todo' = Tail(todo)
        /\ csHolder' = IF Len(todo) = 1 THEN {} ELSE {strand}
    BY DEF ConnectTx, TakesUp, Idle
  <1>2. /\ todo' \in Seq(Tasks)
        /\ Head(todo) = todo[1] /\ 1 \in DOMAIN todo /\ tx \in Tx /\ h \in Nat
        /\ DOMAIN todo = 1 .. Len(todo) /\ Len(todo) \in Nat \ {0}
        /\ DOMAIN todo' = 1 .. Len(todo) - 1
        /\ \A k \in DOMAIN todo' : k + 1 \in DOMAIN todo /\ todo'[k] = todo[k + 1]
        /\ \A k \in DOMAIN todo : k # 1 => k - 1 \in DOMAIN todo' /\ todo'[k - 1] = todo[k]
    BY <1>1, TodoOf DEF Consistent
  <1>3. \A k \in DOMAIN todo : todo[k].step = "connect"
    BY <1>1, <1>2, Zenon DEF Consistent, StrandOK
  <1>4. prevouts[tx] \subseteq coins
    BY <1>1, <1>2, <1>3 DEF Consistent, ConnectsOK
  <1> HIDE DEF tx, h
  <1>5. /\ PoolOK(mempool') /\ Pool' \subseteq Pool \ {tx}
        /\ \A c \in Pool' : \A o \in prevouts[c] :
             o \notin prevouts[tx] /\ (o[1] \in Pool => o[1] = tx \/ o[1] \in Pool')
    BY <1>1, <1>2, BlockKeepsPool DEF Consistent, Pool
  <1>6. /\ ChainOK(chain') /\ coins' = Unspent(chain')
        /\ \A i \in DOMAIN chain' :
             chain'[i].tx = tx \/ \E j \in DOMAIN chain : chain'[i].tx = chain[j].tx
    <2>1. ChainOK(chain) /\ coins = Unspent(chain)
      BY DEF Consistent
    <2>2. tx \in Tx /\ h \in Nat
      BY <1>2
    <2>3. prevouts[tx] \subseteq Unspent(chain)
      BY <1>4, <2>1
    <2>4. /\ ChainOK(chain')
          /\ Unspent(chain') = (Unspent(chain) \ prevouts[tx]) \cup Outputs(tx)
          /\ \A i \in DOMAIN chain' :
               chain'[i].tx = tx \/ \E j \in DOMAIN chain : chain'[i].tx = chain[j].tx
      <3>1. chain' = Extended(chain, tx, h)
        BY <1>1 DEF Extended
      <3>2. QED
        BY <2>1, <2>2, <2>3, <3>1, ConnectKeepsChain
    <2>5. coins' = (Unspent(chain) \ prevouts[tx]) \cup Outputs(tx)
      BY <1>1, <2>1
    <2>6. QED
      BY <2>4, <2>5
  <1>7. StrandOK'
    <2>1. csHolder' = {} => todo' = <<>>
      <3>1. ASSUME NEW S, todo' \in Seq(S), Len(todo) = 1 PROVE todo' = <<>>
        BY <1>2, <3>1
      <3>2. QED
        BY <1>1, <1>2, <3>1, Zenon
    <2>2. \A k \in DOMAIN todo' : todo'[k].step = "connect"
      BY <1>2, <1>3
    <2>3. csHolder' \subseteq {strand}
      BY <1>1
    <2>4. QED
      BY <1>1, <1>2, <2>1, <2>2, <2>3 DEF StrandOK
  <1>8. (Pool \cap Confirmed = {})'
    BY <1>5, <1>6 DEF Consistent, Confirmed
  <1>9. ConnectsOK'
    <2> SUFFICES ASSUME NEW k \in DOMAIN todo', NEW o \in prevouts[todo'[k].tx]
                 PROVE  /\ \/ o \in coins'
                           \/ \E j \in DOMAIN todo' : j < k /\ o \in Outputs(todo'[j].tx)
                        /\ \A j \in DOMAIN todo' : j < k => o \notin prevouts[todo'[j].tx]
      BY DEF ConnectsOK
    <2>1. k \in Nat /\ k + 1 \in DOMAIN todo /\ todo'[k] = todo[k + 1] /\ 1 < k + 1
      BY <1>2
    <2>2. /\ \/ o \in coins
             \/ \E j \in DOMAIN todo : j < k + 1 /\ o \in Outputs(todo[j].tx)
          /\ \A j \in DOMAIN todo : j < k + 1 => o \notin prevouts[todo[j].tx]
      BY <1>3, <2>1 DEF Consistent, ConnectsOK
    <2>3. ASSUME NEW j \in DOMAIN todo', j < k PROVE o \notin prevouts[todo'[j].tx]
      <3>1. j + 1 \in DOMAIN todo /\ todo'[j] = todo[j + 1] /\ j + 1 < k + 1
        BY <1>2, <2>1, <2>3
      <3>2. QED
        BY <2>2, <3>1
    <2>4. o \notin prevouts[tx]
      BY <1>2, <2>1, <2>2 DEF tx
    <2>5. CASE o \in coins
      BY <1>1, <2>3, <2>4, <2>5
    <2>6. ASSUME NEW j \in DOMAIN todo, j < k + 1, o \in Outputs(todo[j].tx)
          PROVE  o \in coins' \/ \E i \in DOMAIN todo' : i < k /\ o \in Outputs(todo'[i].tx)
      <3>1. CASE j = 1
        BY <1>1, <1>2, <2>6, <3>1 DEF tx
      <3>2. CASE j # 1
        <4>1. j - 1 \in DOMAIN todo' /\ todo'[j - 1] = todo[j] /\ j - 1 < k
          BY <1>2, <2>1, <2>6, <3>2
        <4>2. QED
          BY <2>6, <4>1
      <3>3. QED
        BY <3>1, <3>2
    <2>7. QED
      BY <2>2, <2>3, <2>5, <2>6
  <1>10. RevertsOK'
    BY <1>2, <1>3 DEF RevertsOK
  <1>11. Available'
    <2> SUFFICES ASSUME NEW c \in Pool', NEW o \in prevouts[c]
                 PROVE  (o[1] \in Pool' /\ o[2] \in vout[o[1]]) \/ o \in coins'
      BY DEF Available
    <2>1. c \in Pool /\ c \in Tx
      BY <1>5 DEF Consistent, PoolOK, PoolShape, Pool
    <2>2. (o[1] \in Pool /\ o[2] \in vout[o[1]]) \/ o \in coins
      BY <1>3, <2>1 DEF Consistent, Available
    <2>3. CASE o[1] = tx /\ o[2] \in vout[o[1]]
      BY <1>1, <2>1, <2>3, OutputsOf, Zenon
    <2>4. QED
      BY <1>1, <1>5, <2>2, <2>3
  <1>12. QED
    BY <1>5, <1>6, <1>7, <1>8, <1>9, <1>10, <1>11 DEF Consistent


\* Blocks are disconnected: their transactions wait to be put back, and an
\* entry that spends one of them waits for it.
LEMMA PrepareChainStep ==
  ASSUME Consistent, PrepareChain
  PROVE  Consistent'
  <1>1. /\ job[strand] = NoJob /\ csHolder' = {strand} /\ UNCHANGED job /\ todo = <<>>
        /\ mempool' \in Limited(mempool)
    BY DEF PrepareChain, Idle, Consistent, StrandOK
  <1>2. PICK fork \in 0 .. Len(chain) - 1 :
          LET reverted == [i \in 1 .. Len(chain) - fork |-> chain[fork + i].tx]
              outputs == UNION {Outputs(reverted[i]) : i \in DOMAIN reverted}
              inputs == UNION {prevouts[reverted[i]] : i \in DOMAIN reverted}
          IN /\ coins' = (coins \cup inputs) \ outputs
             /\ chain' = SubSeq(chain, 1, fork)
             /\ todo' = Entries(reverted, "revert", 0)
    BY Zenon DEF PrepareChain
  <1> DEFINE n == Len(chain) - fork
             reverted == [i \in 1 .. n |-> chain[fork + i].tx]
             outputs == UNION {Outputs(reverted[i]) : i \in DOMAIN reverted}
             inputs == UNION {prevouts[reverted[i]] : i \in DOMAIN reverted}
  <1>3. /\ coins' = (coins \cup inputs) \ outputs /\ chain' = SubSeq(chain, 1, fork)
        /\ todo' = Entries(reverted, "revert", 0)
    BY <1>2
  <1>4. /\ DOMAIN chain = 1 .. Len(chain) /\ Len(chain) \in Nat /\ fork \in Nat /\ n \in Nat
        /\ \A i \in 1 .. n : fork + i \in DOMAIN chain /\ fork + i > fork
        /\ \A i \in DOMAIN chain : i > fork => i - fork \in 1 .. n
        /\ \A i \in DOMAIN chain : chain[i].tx \in Tx
    <2> DEFINE E == [tx : Tx, height : Nat]
    <2>1. chain \in Seq(E) /\ \A e \in E : e.tx \in Tx
      BY DEF Consistent, ChainOK
    <2> HIDE DEF E
    <2>2. DOMAIN chain = 1 .. Len(chain) /\ Len(chain) \in Nat
      BY <2>1
    <2>3. QED
      BY <2>1, <2>2, ElementOf
  <1> HIDE DEF n
  <1>5. reverted \in Seq(Tx) /\ DOMAIN reverted = 1 .. n
        /\ \A i \in 1 .. n : reverted[i] = chain[fork + i].tx
    BY <1>4
  <1>6. ASSUME NEW o
        PROVE  /\ o \in inputs <=> \E i \in DOMAIN chain : i > fork /\ o \in prevouts[chain[i].tx]
               /\ o \in outputs <=> \E i \in DOMAIN chain : i > fork /\ o \in Outputs(chain[i].tx)
    <2> HIDE DEF reverted
    <2>1. \A i \in DOMAIN chain : i > fork => reverted[i - fork] = chain[i].tx
      BY <1>4, <1>5
    <2>2. o \in inputs <=> \E i \in 1 .. n : o \in prevouts[reverted[i]]
      BY <1>5
    <2>3. o \in outputs <=> \E i \in 1 .. n : o \in Outputs(reverted[i])
      BY <1>5
    <2> HIDE DEF inputs, outputs
    <2>4. QED
      BY <1>4, <1>5, <2>1, <2>2, <2>3, Zenon
  <1> HIDE DEF reverted, inputs, outputs
  <1>7. /\ ChainOK(chain') /\ coins' = Unspent(chain')
        /\ \A i \in DOMAIN chain' : i \in DOMAIN chain /\ chain'[i].tx = chain[i].tx
    <2>1. LET new == SubSeq(chain, 1, fork) IN
          /\ ChainOK(new)
          /\ Unspent(new) = (Unspent(chain) \cup inputs) \ outputs
          /\ \A i \in DOMAIN new : i \in DOMAIN chain /\ new[i].tx = chain[i].tx
      BY <1>6, RevertKeepsChain, Zenon DEF Consistent
    <2>2. QED
      BY <1>3, <2>1 DEF Consistent
  <1>8. /\ todo' \in Seq(Tasks) /\ DOMAIN todo' = 1 .. n
        /\ \A k \in 1 .. n : todo'[k].tx = chain[fork + k].tx /\ todo'[k].step = "revert"
    <2>1. PICK height \in Nat : todo' = Entries(reverted, "revert", height)
      BY <1>3, Zenon
    <2>2. /\ Entries(reverted, "revert", height) \in Seq(Tasks)
          /\ DOMAIN Entries(reverted, "revert", height) = DOMAIN reverted
          /\ \A k \in DOMAIN reverted :
               /\ Entries(reverted, "revert", height)[k].tx = reverted[k]
               /\ Entries(reverted, "revert", height)[k].step = "revert"
      <3>1. reverted \in Seq(Tx)
        BY <1>5
      <3>2. QED
        BY <3>1, EntriesOf
    <2>3. QED
      BY <1>5, <2>1, <2>2
  <1>9. Shrinks(mempool, mempool') /\ Pool' \subseteq Pool
    <2>1. Shrinks(mempool, mempool')
      BY <1>1, LimitedShrinks DEF Consistent
    <2>2. QED
      BY <2>1 DEF Shrinks, Pool
  <1>10. StrandOK'
    BY <1>1, <1>8 DEF StrandOK
  <1>11. PoolOK(mempool)' /\ ChainOK(chain)' /\ (coins = Unspent(chain))'
    BY <1>7, <1>9 DEF Shrinks
  <1>12. (Pool \cap Confirmed = {})'
    BY <1>7, <1>9 DEF Consistent, Confirmed
  <1>13. ConnectsOK'
    BY <1>8 DEF ConnectsOK
  <1>14. RevertsOK'
    <2>1. ASSUME NEW k \in DOMAIN todo' PROVE todo'[k].tx \notin Pool'
      <3>1. fork + k \in DOMAIN chain /\ todo'[k].tx = chain[fork + k].tx
        BY <1>4, <1>8
      <3>2. todo'[k].tx \in Confirmed
        BY <3>1 DEF Confirmed
      <3>3. QED
        BY <3>2, <1>9 DEF Consistent
    <2>2. ASSUME NEW k \in DOMAIN todo', NEW j \in DOMAIN todo', j # k
          PROVE  todo'[j].tx # todo'[k].tx
      <3>0. k \in 1 .. n /\ j \in 1 .. n /\ fork + j # fork + k
        BY <1>4, <1>8, <2>2
      <3>1. /\ fork + k \in DOMAIN chain /\ fork + j \in DOMAIN chain /\ fork + j # fork + k
            /\ todo'[k].tx = chain[fork + k].tx /\ todo'[j].tx = chain[fork + j].tx
        BY <1>4, <1>8, <3>0
      <3>2. prevouts[chain[fork + k].tx] # {} /\ chain[fork + k].tx \in Tx
        BY <1>4, <3>1, TransactionAssumption, Zenon
      <3>3. prevouts[chain[fork + k].tx] \cap prevouts[chain[fork + j].tx] = {}
        BY <3>1, Zenon DEF Consistent, ChainOK
      <3>4. QED
        BY <3>1, <3>2, <3>3
    <2>3. QED
      BY <1>1, <2>1, <2>2 DEF RevertsOK
  <1>15. Available'
    <2> SUFFICES ASSUME NEW c \in Pool', NEW o \in prevouts[c]
                 PROVE  \/ o[1] \in Pool' /\ o[2] \in vout[o[1]]
                        \/ o \in coins'
                        \/ /\ o[2] \in vout[o[1]]
                           /\ \E k \in DOMAIN todo' :
                                todo'[k].step = "revert" /\ todo'[k].tx = o[1]
      BY DEF Available
    <2>1. (o[1] \in Pool /\ o[2] \in vout[o[1]]) \/ o \in coins
      BY <1>1, <1>9 DEF Consistent, Available
    <2>2. o[1] \in Pool => o[1] \in Pool'
      BY <1>9 DEF Shrinks, Pool
    <2>3. ASSUME o \in outputs
          PROVE  /\ o[2] \in vout[o[1]]
                 /\ \E k \in DOMAIN todo' : todo'[k].step = "revert" /\ todo'[k].tx = o[1]
      <3>1. PICK i \in DOMAIN chain : i > fork /\ o \in Outputs(chain[i].tx)
        BY <1>6, <2>3
      <3>2. o[1] = chain[i].tx /\ o[2] \in vout[o[1]]
        BY <3>1, OutputsOf
      <3>3. i - fork \in DOMAIN todo' /\ fork + (i - fork) = i
        BY <1>4, <1>8, <3>1
      <3>4. QED
        BY <1>8, <3>2, <3>3
    <2>4. QED
      BY <1>3, <2>1, <2>2, <2>3
  <1>16. QED
    BY <1>10, <1>11, <1>12, <1>13, <1>14, <1>15 DEF Consistent

\* checkTransaction looks up the next transaction to be put back.
LEMMA PutBackStep ==
  ASSUME JobsOK, Consistent, PutBack
  PROVE  Consistent'
  <1> DEFINE tx == Head(todo).tx
  <1>1. /\ job[strand] = NoJob /\ csHolder = {strand} /\ todo # <<>>
        /\ Head(todo).step = "check" /\ todo' = Tail(todo)
        /\ CheckInputs(strand, [tx |-> tx, fromMempool |-> TRUE])
    BY DEF PutBack, TakesUp, Idle
  <1>2. /\ todo' \in Seq(Tasks) /\ Head(todo) = todo[1] /\ 1 \in DOMAIN todo /\ tx \in Tx
        /\ DOMAIN todo = 1 .. Len(todo) /\ Len(todo) \in Nat \ {0}
        /\ DOMAIN todo' = 1 .. Len(todo) - 1
        /\ \A k \in DOMAIN todo' : k + 1 \in DOMAIN todo /\ todo'[k] = todo[k + 1]
        /\ \A k \in DOMAIN todo : k # 1 => k - 1 \in DOMAIN todo' /\ todo'[k - 1] = todo[k]
    BY <1>1, TodoOf DEF Consistent
  <1> HIDE DEF tx
  <1>3. /\ UNCHANGED <<mempool, coins, chain, csHolder>>
        /\ job'[strand] = NoJob \/ job'[strand].tx = tx
    <2>1. PICK state \in [tx : Tx, fromMempool : BOOLEAN] :
            state.tx = tx /\ CheckInputs(strand, state)
      BY <1>1, <1>2, Zenon
    <2>2. QED
      BY <1>1, <2>1, CheckInputsStep, TxAdmissionAssumption DEF poolVars
  <1>4. \A k \in DOMAIN todo : todo[k].step # "connect"
    BY <1>1, <1>2 DEF Consistent, StrandOK
  <1>5. StrandOK'
    BY <1>1, <1>2, <1>3, <1>4 DEF StrandOK
  <1>6. PoolOK(mempool)' /\ ChainOK(chain)' /\ (coins = Unspent(chain))'
        /\ (Pool \cap Confirmed = {})'
    BY <1>3 DEF Consistent, Pool, Confirmed
  <1>7. ConnectsOK'
    BY <1>2, <1>4 DEF ConnectsOK
  <1>8. RevertsOK'
    <2> SUFFICES ASSUME NEW k \in DOMAIN todo', todo'[k].step = "revert"
                 PROVE  /\ todo'[k].tx \notin Pool'
                        /\ job'[strand] # NoJob => job'[strand].tx # todo'[k].tx
                        /\ \A j \in DOMAIN todo' : j # k => todo'[j].tx # todo'[k].tx
      BY DEF RevertsOK
    <2>1. k + 1 \in DOMAIN todo /\ todo'[k] = todo[k + 1] /\ k + 1 # 1
      BY <1>2
    <2>2. /\ todo'[k].tx \notin Pool
          /\ \A j \in DOMAIN todo : j # k + 1 => todo[j].tx # todo'[k].tx
      BY <2>1 DEF Consistent, RevertsOK
    <2>3. tx # todo'[k].tx
      BY <1>2, <2>1, <2>2 DEF tx
    <2>4. ASSUME NEW j \in DOMAIN todo', j # k PROVE todo'[j].tx # todo'[k].tx
      <3>1. j + 1 \in DOMAIN todo /\ todo'[j] = todo[j + 1] /\ j + 1 # k + 1
        BY <1>2, <2>4
      <3>2. QED
        BY <2>2, <3>1
    <2>5. QED
      BY <1>3, <2>2, <2>3, <2>4 DEF Pool
  <1>9. Available'
    <2>1. ASSUME NEW k \in DOMAIN todo, todo[k].step = "revert"
          PROVE  \E j \in DOMAIN todo' : todo'[j].step = "revert" /\ todo'[j].tx = todo[k].tx
      <3>1. k - 1 \in DOMAIN todo' /\ todo'[k - 1] = todo[k]
        BY <1>1, <1>2, <2>1
      <3>2. QED
        BY <2>1, <3>1
    <2>2. QED
      BY <1>3, <2>1 DEF Consistent, Available, Pool
  <1>10. QED
    BY <1>5, <1>6, <1>7, <1>8, <1>9 DEF Consistent


\* The next reverted transaction is about to come back: what depends on it has
\* left the pool, and both are put back next.
LEMMA RevertTxStep ==
  ASSUME Consistent, RevertTx
  PROVE  Consistent'
  <1> DEFINE tx == Head(todo).tx
             deps == Removed(mempool, tx)
             m == Cardinality(deps)
  <1>1. /\ job[strand] = NoJob /\ csHolder = {strand} /\ todo # <<>>
        /\ Head(todo).step = "revert"
        /\ UNCHANGED <<coins, chain, job, csHolder>>
        /\ mempool' = RemoveStaged(mempool, deps)
        /\ \E order \in [1 .. m -> deps] :
             /\ Range(order) = deps
             /\ todo' = Entries(<<tx>> \o order, "check", 0) \o Tail(todo)
    BY Zenon DEF RevertTx, TakesUp, Idle
  <1>2. /\ Tail(todo) \in Seq(Tasks) /\ Head(todo) = todo[1] /\ 1 \in DOMAIN todo /\ tx \in Tx
        /\ DOMAIN todo = 1 .. Len(todo) /\ Len(todo) \in Nat \ {0}
        /\ DOMAIN Tail(todo) = 1 .. Len(todo) - 1
        /\ \A k \in DOMAIN Tail(todo) : k + 1 \in DOMAIN todo /\ Tail(todo)[k] = todo[k + 1]
        /\ \A k \in DOMAIN todo :
             k # 1 => k - 1 \in DOMAIN Tail(todo) /\ Tail(todo)[k - 1] = todo[k]
    BY <1>1, TodoOf DEF Consistent
  <1>3. \A k \in DOMAIN todo : todo[k].step # "connect"
    BY <1>1, <1>2, Zenon DEF Consistent, StrandOK
  <1> HIDE DEF tx
  <1>4. /\ Shrinks(mempool, mempool') /\ deps \in SUBSET Pool
        /\ \A c \in Pool' : prevouts[c] \cap Outputs(tx) = {}
    BY <1>1, <1>2, RemovedShrinks, Zenon DEF Consistent, Pool
  <1> HIDE DEF deps
  <1>5. Pool' \subseteq Pool /\ deps \subseteq Tx /\ m \in Nat
    <2>1. IsFiniteSet(deps) /\ deps \subseteq Tx
      BY <1>4, FS_Subset DEF Consistent, PoolOK, PoolShape, Pool
    <2>2. QED
      BY <1>4, <2>1, FS_CardinalityType DEF Shrinks, Pool
  <1> HIDE DEF m
  <1>6. PICK order \in [1 .. m -> deps] :
          todo' = Entries(<<tx>> \o order, "check", 0) \o Tail(todo)
    BY <1>1, Zenon
  <1> DEFINE first == <<tx>> \o order
  <1>7. /\ first \in Seq(Tx) /\ Len(first) = m + 1 /\ DOMAIN first = 1 .. m + 1
        /\ \A k \in 1 .. m + 1 : first[k] = tx \/ first[k] \in deps
    <2>1. order \in Seq(Tx) /\ Len(order) = m /\ \A k \in 1 .. m : order[k] \in deps
      BY <1>5
    <2>2. <<tx>> \in Seq(Tx) /\ Len(<<tx>>) = 1 /\ <<tx>>[1] = tx
      BY <1>2
    <2>3. /\ first \in Seq(Tx) /\ Len(first) = m + 1
          /\ first[1] = tx /\ \A k \in 2 .. m + 1 : first[k] = order[k - 1]
      BY <1>5, <2>1, <2>2
    <2> HIDE DEF first
    <2>4. QED
      BY <1>5, <2>1, <2>3
  <1> HIDE DEF first
  <1>8. PICK head \in Seq(Tasks) :
          /\ todo' = head \o Tail(todo)
          /\ Len(head) = m + 1 /\ DOMAIN head = 1 .. m + 1
          /\ \A k \in 1 .. m + 1 : /\ head[k].tx = tx \/ head[k].tx \in deps
                                   /\ head[k].step = "check"
    <2>1. PICK height \in Nat : todo' = Entries(first, "check", height) \o Tail(todo)
      BY <1>6, Zenon DEF first
    <2>2. first \in Seq(Tx)
      BY <1>7
    <2>3. /\ Entries(first, "check", height) \in Seq(Tasks)
          /\ DOMAIN Entries(first, "check", height) = DOMAIN first
          /\ Len(Entries(first, "check", height)) = Len(first)
          /\ \A k \in DOMAIN first :
               /\ Entries(first, "check", height)[k].tx = first[k]
               /\ Entries(first, "check", height)[k].step = "check"
      BY <2>2, EntriesOf
    <2> DEFINE new == Entries(first, "check", height)
    <2>4. /\ new \in Seq(Tasks) /\ todo' = new \o Tail(todo)
          /\ Len(new) = m + 1 /\ DOMAIN new = 1 .. m + 1
          /\ \A k \in 1 .. m + 1 : /\ new[k].tx = tx \/ new[k].tx \in deps
                                   /\ new[k].step = "check"
      BY <1>7, <2>1, <2>3
    <2> HIDE DEF new
    <2>5. QED
      BY <2>4
  <1>9. /\ todo' \in Seq(Tasks) /\ DOMAIN todo' = 1 .. m + Len(todo)
        /\ \A k \in 1 .. m + 1 : k \in DOMAIN todo' /\ todo'[k] = head[k]
        /\ \A k \in DOMAIN todo' : k > m + 1 => k - m \in DOMAIN todo /\ k - m # 1
                                               /\ todo'[k] = todo[k - m]
        /\ \A k \in DOMAIN todo : k # 1 => m + k \in DOMAIN todo' /\ todo'[m + k] = todo[k]
    <2>1. /\ todo' \in Seq(Tasks) /\ Len(todo') = m + Len(todo)
          /\ DOMAIN todo' = 1 .. m + Len(todo)
          /\ \A k \in 1 .. m + 1 : todo'[k] = head[k]
          /\ \A k \in 1 .. m + Len(todo) : k > m + 1 => todo'[k] = Tail(todo)[k - (m + 1)]
      <3>1. Len(Tail(todo)) = Len(todo) - 1
        BY <1>2
      <3>2. /\ todo' \in Seq(Tasks) /\ Len(todo') = Len(head) + Len(Tail(todo))
            /\ \A k \in 1 .. Len(head) + Len(Tail(todo)) :
                 todo'[k] = IF k <= Len(head) THEN head[k] ELSE Tail(todo)[k - Len(head)]
        <4>1. ASSUME NEW tail \in Seq(Tasks), todo' = head \o tail
              PROVE  /\ todo' \in Seq(Tasks) /\ Len(todo') = Len(head) + Len(tail)
                     /\ \A k \in 1 .. Len(head) + Len(tail) :
                          todo'[k] = IF k <= Len(head) THEN head[k] ELSE tail[k - Len(head)]
          BY <4>1, ConcatOf
        <4>2. Tail(todo) \in Seq(Tasks) /\ todo' = head \o Tail(todo)
          BY <1>2, <1>8
        <4>3. QED
          BY <4>1, <4>2, Zenon
      <3>3. Len(todo') = m + Len(todo) /\ Len(head) + Len(Tail(todo)) = m + Len(todo)
        BY <1>2, <1>5, <1>8, <3>1, <3>2
      <3>4. DOMAIN todo' = 1 .. Len(todo')
        BY <3>2
      <3>5. \A k \in 1 .. m + Len(todo) :
              todo'[k] = IF k <= m + 1 THEN head[k] ELSE Tail(todo)[k - (m + 1)]
        BY <1>8, <3>2, <3>3
      <3>6. \A k \in 1 .. m + 1 : k \in 1 .. m + Len(todo) /\ k <= m + 1
        BY <1>2, <1>5
      <3>7. QED
        <4>1. \A k \in 1 .. m + 1 : todo'[k] = head[k]
          BY <3>5, <3>6
        <4>2. \A k \in 1 .. m + Len(todo) :
                k > m + 1 => todo'[k] = Tail(todo)[k - (m + 1)]
          <5>1. \A k \in 1 .. m + Len(todo) : k > m + 1 => ~(k <= m + 1)
            BY <1>2, <1>5
          <5>2. QED
            BY <3>5, <5>1, Zenon
        <4>3. QED
          BY <3>2, <3>3, <3>4, <4>1, <4>2, Zenon
    <2>2. ASSUME NEW k \in DOMAIN todo', k > m + 1
          PROVE  k - m \in DOMAIN todo /\ k - m # 1 /\ todo'[k] = todo[k - m]
      <3>1. k - (m + 1) \in DOMAIN Tail(todo) /\ (k - (m + 1)) + 1 = k - m
        BY <1>2, <1>5, <2>1, <2>2
      <3>2. QED
        BY <1>2, <1>5, <2>1, <2>2, <3>1
    <2>3. ASSUME NEW k \in DOMAIN todo, k # 1
          PROVE  m + k \in DOMAIN todo' /\ todo'[m + k] = todo[k]
      <3>1. m + k \in 1 .. m + Len(todo) /\ m + k > m + 1 /\ (m + k) - (m + 1) = k - 1
        BY <1>2, <1>5, <2>3
      <3>2. QED
        BY <1>2, <2>1, <2>3, <3>1
    <2>4. \A k \in 1 .. m + 1 : k \in DOMAIN todo'
      BY <1>2, <1>5, <2>1
    <2>5. QED
      BY <2>1, <2>2, <2>3, <2>4
  <1>10. DOMAIN todo' \subseteq Nat /\ \A k \in DOMAIN todo' : k > m + 1 \/ k \in 1 .. m + 1
    BY <1>2, <1>5, <1>9
  <1>11. StrandOK'
    <2>1. \A k \in DOMAIN todo' : todo'[k].step # "connect"
      BY <1>3, <1>8, <1>9, <1>10
    <2>2. QED
      BY <1>1, <1>9, <2>1, Zenon DEF StrandOK
  <1>12. PoolOK(mempool)' /\ ChainOK(chain)' /\ (coins = Unspent(chain))'
    BY <1>1, <1>4 DEF Consistent, Shrinks
  <1>13. (Pool \cap Confirmed = {})'
    BY <1>1, <1>5 DEF Consistent, Confirmed
  <1>14. ConnectsOK'
    BY <1>3, <1>8, <1>9, <1>10 DEF ConnectsOK
  <1>15. RevertsOK'
    <2> SUFFICES ASSUME NEW k \in DOMAIN todo', todo'[k].step = "revert"
                 PROVE  /\ todo'[k].tx \notin Pool'
                        /\ \A j \in DOMAIN todo' : j # k => todo'[j].tx # todo'[k].tx
      BY <1>1, Zenon DEF RevertsOK
    <2>1. k > m + 1
      BY <1>8, <1>9, <1>10
    <2>2. k - m \in DOMAIN todo /\ k - m # 1 /\ todo'[k] = todo[k - m]
      BY <1>9, <2>1
    <2>3. /\ todo'[k].tx \notin Pool
          /\ \A j \in DOMAIN todo : j # k - m => todo[j].tx # todo'[k].tx
      BY <2>2 DEF Consistent, RevertsOK
    <2>4. tx # todo'[k].tx
      BY <1>2, <2>2, <2>3 DEF tx
    <2>5. ASSUME NEW j \in DOMAIN todo', j # k PROVE todo'[j].tx # todo'[k].tx
      <3>1. CASE j \in 1 .. m + 1
        BY <1>4, <1>8, <1>9, <2>3, <2>4, <3>1
      <3>2. CASE j > m + 1
        <4>1. j - m \in DOMAIN todo /\ todo'[j] = todo[j - m] /\ j - m # k - m
          BY <1>5, <1>9, <1>10, <2>5, <3>2
        <4>2. QED
          BY <2>3, <4>1
      <3>3. QED
        BY <1>10, <3>1, <3>2
    <2>6. QED
      BY <1>5, <2>3, <2>5
  <1>16. Available'
    <2> SUFFICES ASSUME NEW c \in Pool', NEW o \in prevouts[c]
                 PROVE  \/ o[1] \in Pool' /\ o[2] \in vout[o[1]]
                        \/ o \in coins
                        \/ /\ o[2] \in vout[o[1]]
                           /\ \E k \in DOMAIN todo' :
                                todo'[k].step = "revert" /\ todo'[k].tx = o[1]
      BY <1>1, Zenon DEF Available
    <2>1. \/ o[1] \in Pool /\ o[2] \in vout[o[1]]
          \/ o \in coins
          \/ /\ o[2] \in vout[o[1]]
             /\ \E k \in DOMAIN todo : todo[k].step = "revert" /\ todo[k].tx = o[1]
      BY <1>5, Zenon DEF Consistent, Available
    <2>2. o[1] \in Pool => o[1] \in Pool'
      BY <1>4 DEF Shrinks, Pool
    <2>3. ASSUME o[2] \in vout[o[1]],
                 NEW k \in DOMAIN todo, todo[k].step = "revert", todo[k].tx = o[1]
          PROVE  \E j \in DOMAIN todo' : todo'[j].step = "revert" /\ todo'[j].tx = o[1]
      <3>1. k # 1
        <4> SUFFICES ASSUME k = 1 PROVE FALSE
          OBVIOUS
        <4>1. c \in Tx /\ o[1] = tx
          BY <1>2, <1>5, <2>3 DEF tx, Consistent, PoolOK, PoolShape, Pool
        <4>2. QED
          BY <1>4, <2>3, <4>1, OutputsOf
      <3>2. QED
        BY <1>9, <2>3, <3>1
    <2>4. QED
      BY <2>1, <2>2, <2>3
  <1>17. QED
    BY <1>11, <1>12, <1>13, <1>14, <1>15, <1>16 DEF Consistent


-----------------------------------------------------------------------------

LEMMA AdmissionInitInv == AdmissionInit => AdmissionInv
  <1> SUFFICES ASSUME AdmissionInit PROVE AdmissionInv
    OBVIOUS
  <1>1. /\ Init /\ mempool = EmptyPool /\ coins = Coins /\ chain = <<>> /\ posted = {}
        /\ job = [w \in Workers |-> NoJob] /\ fromMempool = {} /\ csHolder = {} /\ todo = <<>>
    BY DEF AdmissionInit
  <1>2. Inv
    BY <1>1, InitInv
  <1>3. JobsOK
    BY <1>1 DEF JobsOK
  <1>4. StrandOK
    BY <1>1, TxAdmissionAssumption DEF StrandOK
  <1>5. PoolOK(mempool) /\ Pool = {}
    <2>1. /\ mempool.mapTx = [tx \in {} |-> 0]
          /\ mempool.mapNextTx = [o \in {} |-> 0]
          /\ mempool.mapLinks = [tx \in {} |-> [parents |-> {}, children |-> {}]]
          /\ mempool = [mapTx |-> mempool.mapTx, mapNextTx |-> mempool.mapNextTx,
                        mapLinks |-> mempool.mapLinks]
      BY <1>1 DEF EmptyPool
    <2>2. DOMAIN mempool.mapTx = {} /\ DOMAIN mempool.mapNextTx = {}
          /\ DOMAIN mempool.mapLinks = {}
      BY <2>1
    <2>3. PoolShape(mempool)
      BY <2>1, <2>2, FS_EmptySet DEF PoolShape
    <2>4. PoolSpends(mempool) /\ PoolLinks(mempool) /\ PoolCounts(mempool)
      BY <2>2 DEF PoolSpends, PoolLinks, PoolCounts
    <2>5. QED
      BY <2>2, <2>3, <2>4 DEF PoolOK, Pool
  <1>6. ChainOK(chain)
    BY <1>1 DEF ChainOK
  <1>7. coins = Unspent(chain)
    BY <1>1 DEF Unspent
  <1>8. ConnectsOK /\ RevertsOK /\ Available
    BY <1>1, <1>5 DEF ConnectsOK, RevertsOK, Available
  <1>9. QED
    BY <1>2, <1>3, <1>4, <1>5, <1>6, <1>7, <1>8 DEF AdmissionInv, Consistent

LEMMA ConsistentStep ==
  ASSUME AdmissionInv, [AdmissionNext]_admissionVars
  PROVE  Consistent'
  <1> USE DEF AdmissionInv
  <1>1. ASSUME NEW w \in Workers, Receive(w) \/ RunPosted(w) PROVE Consistent'
    <2>1. /\ UNCHANGED <<poolVars, strandVars>> /\ w # strand
          /\ \E state : CheckInputs(w, state)
      BY <1>1, Zenon DEF Receive, RunPosted, CheckInputs, strandVars
    <2>2. job'[strand] = job[strand]
      <3>1. PICK state : CheckInputs(w, state)
        BY <2>1
      <3>2. \/ UNCHANGED job
            \/ \E new : job' = [job EXCEPT ![w] = new]
        BY <3>1, Zenon DEF CheckInputs
      <3>3. QED
        BY <2>1, <3>2, TxAdmissionAssumption DEF JobsOK
    <2>3. QED
      BY <2>1, <2>2, FrameStep
  <1>2. ASSUME NEW w \in Workers, CacheOrphan(w) \/ Refuse(w) \/ Adopt(w) PROVE Consistent'
    <2>1. Done(w) /\ UNCHANGED <<poolVars, strandVars>>
      BY <1>2, Zenon DEF CacheOrphan, Refuse, Adopt
    <2>2. job'[strand] = job[strand] \/ job'[strand] = NoJob
      BY <2>1, TxAdmissionAssumption, DoneStep
    <2>3. QED
      BY <2>1, <2>2, FrameStep
  <1>3. ASSUME NEW w \in Workers, Insert(w) PROVE Consistent'
    BY <1>3, InsertStep
  <1>4. ASSUME NEW w \in Workers, LinkChildren(w) PROVE Consistent'
    BY <1>4, LinkStep
  <1>5. CASE CleanOrphans
    <2>1. UNCHANGED <<poolVars, strandVars, job>>
      BY <1>5, Zenon DEF CleanOrphans
    <2>2. QED
      BY <2>1, FrameStep
  <1>6. CASE sync \/ ChainPrepared
    <2>1. /\ mempool' \in Limited(mempool) /\ UNCHANGED <<coins, chain, job, todo>>
          /\ csHolder' = {} /\ todo = <<>> /\ job[strand] = NoJob
      BY <1>6 DEF sync, ChainPrepared, Idle, strandVars, Consistent, StrandOK
    <2>2. QED
      BY <2>1, ShrinkStep
  <1>7. CASE ConnectBlock
    BY <1>7, ConnectBlockStep
  <1>8. CASE ConnectTx
    BY <1>8, ConnectTxStep
  <1>9. CASE PrepareChain
    BY <1>9, PrepareChainStep
  <1>10. CASE RevertTx
    BY <1>10, RevertTxStep
  <1>11. CASE PutBack
    BY <1>11, PutBackStep
  <1>12. CASE UNCHANGED admissionVars
    <2>1. UNCHANGED <<poolVars, strandVars, job>>
      BY <1>12 DEF admissionVars
    <2>2. QED
      BY <2>1, FrameStep
  <1>13. QED
    BY <1>1, <1>2, <1>3, <1>4, <1>5, <1>6, <1>7, <1>8, <1>9, <1>10, <1>11, <1>12
       DEF AdmissionNext

LEMMA AdmissionNextInv == AdmissionInv /\ [AdmissionNext]_admissionVars => AdmissionInv'
  <1> SUFFICES ASSUME AdmissionInv, [AdmissionNext]_admissionVars PROVE AdmissionInv'
    OBVIOUS
  <1>1. Inv'
    BY OrphanStep, NextInv DEF AdmissionInv
  <1>2. JobsOK'
    BY <1>1, JobsStep DEF AdmissionInv, Consistent
  <1>3. Consistent'
    BY ConsistentStep
  <1>4. QED
    BY <1>1, <1>2, <1>3 DEF AdmissionInv

\* What the workers, the strand and its list of work rely on holds in every state:
\* the pool is consistent with the chain the strand is at, the jobs and the strand
\* hold transactions, and the orphan cache satisfies its own invariant.
THEOREM AdmissionInvariant == AdmissionSpec => []AdmissionInv
  BY AdmissionInitInv, AdmissionNextInv, PTL DEF AdmissionSpec

\* Whatever the validation workers and the strand do, the orphan cache they
\* share only takes the steps OrphanCache describes: the composition implements
\* the specification of the cache on its own.
THEOREM AdmissionImplementsCache == AdmissionSpec => Spec
  <1>1. AdmissionInit => Init
    BY DEF AdmissionInit
  <1>2. AdmissionInv /\ [AdmissionNext]_admissionVars => [Next]_vars
    BY OrphanStep DEF AdmissionInv
  <1>3. QED
    BY <1>1, <1>2, AdmissionInvariant, PTL DEF AdmissionSpec, Spec

\* So the index by parent is exact whenever checkTransaction fetches from it.
THEOREM AdmissionIndexExact == AdmissionSpec => []IndexIsExact
  BY AdmissionImplementsCache, IndexAlwaysExact, PTL

\* And the cache stays within its limit but for the workers about to enforce it.
THEOREM AdmissionBounded == AdmissionSpec => []BoundedByLimit
  BY AdmissionImplementsCache, AlwaysBounded, PTL

\* The maps of the pool, the jobs and the strand's work list keep their shape,
\* and the strand has nothing left to do once it releases mempool->cs.
THEOREM AdmissionTypeCorrect == AdmissionSpec => []AdmissionTypeOK
  <1>1. AdmissionInv => AdmissionTypeOK
    <2> SUFFICES ASSUME AdmissionInv PROVE AdmissionTypeOK
      OBVIOUS
    <2> USE DEF AdmissionInv, Consistent
    <2>1. Pool \subseteq Tx /\ mempool.mapTx \in [Pool -> Nat] /\ DOMAIN mempool.mapLinks = Pool
      BY DEF PoolOK, PoolShape, Pool
    <2>2. Range(mempool.mapNextTx) \subseteq Pool
      BY NextTxInPool DEF Range, Pool
    <2>3. \A w \in Workers :
            /\ job[w].at \in {"none", "orphan", "insert", "link", "adopt"}
            /\ job[w] # NoJob => job[w].tx \in Tx
      BY JobOf
    <2>4. fromMempool \subseteq Orphans
      BY DEF JobsOK
    <2>5. csHolder \subseteq {strand} /\ (csHolder = {} => todo = <<>> /\ job[strand] = NoJob)
      BY DEF StrandOK
    <2>6. QED
      BY <2>1, <2>2, <2>3, <2>4, <2>5 DEF AdmissionTypeOK
  <1>2. QED
    BY <1>1, AdmissionInvariant, PTL

\* No two entries of the pool spend the same output, although the inputs are
\* looked up in another lock section than the one that inserts.
THEOREM AlwaysSpentOnce == AdmissionSpec => []SpentOnce
  <1>1. AdmissionInv => SpentOnce
    BY DEF AdmissionInv, Consistent, PoolOK, PoolSpends, SpentOnce, Pool
  <1>2. QED
    BY <1>1, AdmissionInvariant, PTL

\* mapLinks is the relation of the transactions' inputs in both directions,
\* through insertions, blocks, evictions and reorganisations.
THEOREM LinksAlwaysExact == AdmissionSpec => []LinksExact
  <1>1. AdmissionInv => LinksExact
    BY DEF AdmissionInv, Consistent, PoolOK, PoolLinks, SpendsFrom, LinksExact, Pool
  <1>2. QED
    BY <1>1, AdmissionInvariant, PTL

\* Whoever obtains mempool->cs finds a pool whose inputs are all in the chain
\* or in the pool.
THEOREM InputsAlwaysAvailable == AdmissionSpec => []InputsAvailable
  <1>1. AdmissionInv => InputsAvailable
    BY DEF AdmissionInv, Consistent, StrandOK, Available, InputsAvailable
  <1>2. QED
    BY <1>1, AdmissionInvariant, PTL

\* The totals that the descendant limits and the eviction read never fall below
\* the true number of descendants.
THEOREM DescendantsAlwaysCounted == AdmissionSpec => []DescendantsCounted
  <1>1. AdmissionInv => DescendantsCounted
    BY DEF AdmissionInv, Consistent, PoolOK, PoolCounts, DescendantsCounted, Pool
  <1>2. QED
    BY <1>1, AdmissionInvariant, PTL
=============================================================================
