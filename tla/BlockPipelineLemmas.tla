------------------------ MODULE BlockPipelineLemmas ------------------------
(***************************************************************************)
(* The inductive invariant of the block pipeline, and the steps that leave *)
(* both chains alone: the tasks, and the handlers of a header up to the    *)
(* adoption of its orphans.  BlockPipelineProofs has the rest.             *)
(*                                                                         *)
(* That a block is appended only on its parent is checked by               *)
(* processNewBlock itself; what takes an induction is that the block of    *)
(* every handler is a block at all.  The shared pointers see to that: a    *)
(* job that is bound to a task, a handler, an adoptee or an orphan is not  *)
(* destroyed.                                                              *)
(***************************************************************************)
EXTENDS BlockPipeline, HeaderChainProofs, FiniteSetTheorems

HandlerOps == {"blockHeaderValidated", "adopt", "append", "processNewBlock", "findMoreJobs",
               "cleanup"}
Handlers == [op : HandlerOps, job : Job \cup {NULL}, list : Seq(Job), todo : Seq(Job),
             n : Int, tip : Block \cup {NULL}]

\* The jobs that handler h works on are live in st.
HandlerOK(st, h) ==
  /\ h.op \in {"blockHeaderValidated", "adopt", "append"} =>
       h.job \in Job /\ st[h.job].blk # NULL
  /\ \A i \in 1 .. Len(h.list) : st[h.list[i]].blk # NULL
  /\ h.n >= 0
StrandOK(st, s) ==
  /\ s \in Seq(Handlers)
  /\ \A i \in 1 .. Len(s) : HandlerOK(st, s[i])

Shape(st) ==
  /\ DOMAIN st = Job
  /\ \A k \in Job : "blk" \in DOMAIN st[k] /\ st[k].blk \in (Block \ {Genesis}) \cup {NULL}

\* st and st2 have the same jobs, for the same blocks.
SameBlk(st, st2) ==
  /\ DOMAIN st2 = Job
  /\ \A k \in Job : "blk" \in DOMAIN st2[k] /\ st2[k].blk = st[k].blk

TaskInv ==
  /\ posted \in [Job -> [Ops -> Int]]
  /\ \A j \in Job : posted[j]["checks1"] > 0 => state[j].blk # NULL
OrphanInv == \A j \in orphanBlocks : j \in Job /\ state[j].blk # NULL
HeadersInv == PathInv /\ headersChain # <<>>
TipInv == utxo \in Block /\ blockchain = PathTo(utxo)
ScheduleInv == lastFullBlockScheduled \in Int /\ lastFullBlockScheduled >= -1

\* The inductive invariant.
PipelineInv ==
  /\ Shape(state) /\ TaskInv /\ OrphanInv /\ StrandOK(state, strand)
  /\ HeadersInv /\ TipInv /\ ScheduleInv

-----------------------------------------------------------------------------
(***************************************************************************)
(* The strand.                                                             *)
(***************************************************************************)

LEMMA StrandTail ==
  ASSUME NEW st, NEW s, StrandOK(st, s), s # <<>>
  PROVE  /\ StrandOK(st, Tail(s))
         /\ Head(s) \in Handlers /\ HandlerOK(st, Head(s))
  <1>1. s \in Seq(Handlers) /\ Len(s) \in Nat /\ Len(s) >= 1
    BY SeqOf, EmptyIsSeq, SeqOf DEF StrandOK
  <1>2. /\ Tail(s) \in Seq(Handlers) /\ Len(Tail(s)) = Len(s) - 1
        /\ \A i \in 1 .. Len(Tail(s)) : Tail(s)[i] = s[i + 1]
    BY <1>1, HeadTailOf
  <1>3. Head(s) = s[1] /\ Head(s) \in Handlers
    BY <1>1, HeadTailOf
  <1>4. \A i \in 1 .. Len(Tail(s)) : HandlerOK(st, Tail(s)[i])
    BY <1>1, <1>2 DEF StrandOK
  <1>5. QED
    BY <1>1, <1>2, <1>3, <1>4 DEF StrandOK

LEMMA StrandAppend ==
  ASSUME NEW st, NEW s, StrandOK(st, s), NEW h \in Handlers, HandlerOK(st, h)
  PROVE  StrandOK(st, Append(s, h))
  <1>1. s \in Seq(Handlers) /\ Len(s) \in Nat
    BY SeqOf DEF StrandOK
  <1>2. /\ Append(s, h) \in Seq(Handlers) /\ Len(Append(s, h)) = Len(s) + 1
        /\ \A i \in 1 .. Len(s) : Append(s, h)[i] = s[i]
        /\ Append(s, h)[Len(s) + 1] = h
    BY <1>1, AppendOf
  <1>3. \A i \in 1 .. Len(s) + 1 : i \in 1 .. Len(s) \/ i = Len(s) + 1
    BY <1>1
  <1>4. \A i \in 1 .. Len(Append(s, h)) : HandlerOK(st, Append(s, h)[i])
    BY <1>1, <1>2, <1>3 DEF StrandOK
  <1>5. QED
    BY <1>2, <1>4 DEF StrandOK

LEMMA StrandConcat ==
  ASSUME NEW st, NEW s, NEW t, StrandOK(st, s), StrandOK(st, t)
  PROVE  StrandOK(st, s \o t)
  <1>1. s \in Seq(Handlers) /\ t \in Seq(Handlers) /\ Len(s) \in Nat /\ Len(t) \in Nat
    BY SeqOf DEF StrandOK
  <1>2. /\ s \o t \in Seq(Handlers) /\ Len(s \o t) = Len(s) + Len(t)
        /\ \A i \in 1 .. Len(s) + Len(t) : (s \o t)[i] = IF i <= Len(s) THEN s[i] ELSE t[i - Len(s)]
    BY <1>1, ConcatOf
  <1>3. ASSUME NEW i \in 1 .. Len(s \o t) PROVE HandlerOK(st, (s \o t)[i])
    <2>1. CASE i <= Len(s)
      BY <1>1, <1>2, <2>1 DEF StrandOK
    <2>2. CASE ~(i <= Len(s))
      <3>1. i - Len(s) \in 1 .. Len(t)
        BY <1>1, <1>2, <2>2
      <3>2. QED
        BY <1>1, <1>2, <2>2, <3>1 DEF StrandOK
    <2>3. QED
      BY <2>1, <2>2
  <1>4. QED
    BY <1>2, <1>3 DEF StrandOK

LEMMA StrandOne ==
  ASSUME NEW st, NEW h \in Handlers, HandlerOK(st, h)
  PROVE  StrandOK(st, <<h>>)
  <1>1. <<h>> \in Seq(Handlers) /\ Len(<<h>>) = 1 /\ <<h>>[1] = h
    OBVIOUS
  <1>2. QED
    BY <1>1 DEF StrandOK

\* A strand stays well-formed when no job of it is destroyed.
LEMMA StrandState ==
  ASSUME NEW st, NEW st2, NEW s, StrandOK(st, s),
         \A k \in Job : st[k].blk # NULL => st2[k].blk # NULL
  PROVE  StrandOK(st2, s)
  <1>1. ASSUME NEW h \in Handlers, HandlerOK(st, h) PROVE HandlerOK(st2, h)
    <2>1. h.list \in Seq(Job)
      BY <1>1 DEF Handlers
    <2>2. \A i \in 1 .. Len(h.list) : h.list[i] \in Job
      BY <2>1, SeqOf
    <2>3. QED
      BY <1>1, <2>2 DEF HandlerOK
  <1>2. \A i \in 1 .. Len(s) : s[i] \in Handlers
    BY SeqOf DEF StrandOK
  <1>3. QED
    BY <1>1, <1>2 DEF StrandOK

LEMMA EmptyHandler ==
  ASSUME NEW st, NEW h, h.list = <<>>, h.n = 0,
         h.op \in {"blockHeaderValidated", "adopt", "append"} =>
           h.job \in Job /\ st[h.job].blk # NULL
  PROVE  HandlerOK(st, h)
  <1>1. 1 .. Len(h.list) = {} /\ h.n >= 0
    OBVIOUS
  <1>2. QED
    BY <1>1 DEF HandlerOK

LEMMA HandlerType ==
  ASSUME NEW j \in Job \cup {NULL}, NEW op \in HandlerOps
  PROVE  /\ Handler(op, j) \in Handlers
         /\ Handler(op, j).op = op /\ Handler(op, j).job = j
         /\ Handler(op, j).list = <<>> /\ Handler(op, j).n = 0
  <1>1. <<>> \in Seq(Job)
    OBVIOUS
  <1>2. QED
    BY <1>1 DEF Handler, Handlers

LEMMA NewProcess ==
  ASSUME NEW j \in Job, NEW st
  PROVE  /\ Handler("processNewBlock", j) \in Handlers
         /\ HandlerOK(st, Handler("processNewBlock", j))
  <1> DEFINE h == Handler("processNewBlock", j)
  <1>1. /\ h \in Handlers /\ h.op = "processNewBlock" /\ h.job = j
        /\ h.list = <<>> /\ h.n = 0
    BY HandlerType DEF HandlerOps
  <1> HIDE DEF h
  <1>2. HandlerOK(st, h)
    BY <1>1, EmptyHandler
  <1>3. QED
    BY <1>1, <1>2 DEF h

LEMMA NewHeader ==
  ASSUME NEW j \in Job, NEW st, st[j].blk # NULL
  PROVE  /\ Handler("blockHeaderValidated", j) \in Handlers
         /\ HandlerOK(st, Handler("blockHeaderValidated", j))
  <1> DEFINE h == Handler("blockHeaderValidated", j)
  <1>1. /\ h \in Handlers /\ h.op = "blockHeaderValidated" /\ h.job = j
        /\ h.list = <<>> /\ h.n = 0
    BY HandlerType DEF HandlerOps
  <1> HIDE DEF h
  <1>2. HandlerOK(st, h)
    BY <1>1, EmptyHandler
  <1>3. QED
    BY <1>1, <1>2 DEF h

LEMMA NewCleanup ==
  ASSUME NEW st
  PROVE  Handler("cleanup", NULL) \in Handlers /\ HandlerOK(st, Handler("cleanup", NULL))
  <1> DEFINE h == Handler("cleanup", NULL)
  <1>1. /\ h \in Handlers /\ h.op = "cleanup" /\ h.job = NULL
        /\ h.list = <<>> /\ h.n = 0
    BY HandlerType DEF HandlerOps
  <1> HIDE DEF h
  <1>2. HandlerOK(st, h)
    BY <1>1, EmptyHandler
  <1>3. QED
    BY <1>1, <1>2 DEF h

LEMMA NewFindMoreJobs ==
  ASSUME NEW st
  PROVE  FindMoreJobs \in Handlers /\ HandlerOK(st, FindMoreJobs)
  <1> DEFINE h == Handler("findMoreJobs", NULL)
  <1>1. /\ h \in Handlers /\ h.op = "findMoreJobs" /\ h.job = NULL
        /\ h.list = <<>> /\ h.n = 0
    BY HandlerType DEF HandlerOps
  <1> HIDE DEF h
  <1>2. HandlerOK(st, h)
    BY <1>1, EmptyHandler
  <1>3. QED
    BY <1>1, <1>2 DEF h, FindMoreJobs

LEMMA LandedOK == \A st, n : StrandOK(st, Landed(n))
  <1>1. \A st : StrandOK(st, <<>>)
    BY DEF StrandOK
  <1>2. \A st : StrandOK(st, <<FindMoreJobs>>)
    BY NewFindMoreJobs, StrandOne
  <1>3. QED
    BY <1>1, <1>2 DEF Landed

-----------------------------------------------------------------------------
(***************************************************************************)
(* What the helpers leave alone.                                           *)
(***************************************************************************)

LEMMA SameBlkReflexive ==
  ASSUME NEW st, Shape(st) PROVE SameBlk(st, st)
  BY DEF Shape, SameBlk

LEMMA SameBlkShape ==
  ASSUME NEW st, NEW st2, Shape(st), SameBlk(st, st2)
  PROVE  Shape(st2)
  BY DEF Shape, SameBlk

LEMMA FinishSame ==
  ASSUME NEW st, NEW st2, SameBlk(st, st2), NEW j
  PROVE  SameBlk(st, Finish(st2, j)) /\ SameBlk(st, blockFailed(st2, j))
  <1>1. ASSUME NEW s, SameBlk(st, s) PROVE SameBlk(st, Finish(s, j))
    BY <1>1 DEF SameBlk, Finish
  <1>2. SameBlk(st, [st2 EXCEPT ![j].bits = @ \cup {"Invalid"}])
    BY DEF SameBlk
  <1>3. QED
    BY <1>1, <1>2 DEF blockFailed

LEMMA MarkedSame ==
  ASSUME NEW st, NEW st2, SameBlk(st, st2), NEW j
  PROVE  SameBlk(st, Marked(st2, j))
  <1> DEFINE reach == CHOOSE f : f = [n \in 0 .. Cardinality(Job) |->
                IF n = 0 THEN {j}
                ELSE f[n - 1] \cup UNION {Range(st2[k].children) : k \in f[n - 1]}]
  <1>1. Marked(st2, j) =
          [k \in Job |-> IF k \in reach[Cardinality(Job)]
                           THEN [st2[k] EXCEPT !.bits = @ \cup {"Invalid"}] ELSE st2[k]]
    BY DEF Marked
  <1> HIDE DEF reach
  <1>2. QED
    BY <1>1 DEF SameBlk

LEMMA LinkedSame ==
  ASSUME Shape(state), NEW j
  PROVE  SameBlk(state, Linked(j))
  BY DEF Shape, SameBlk, Linked

LEMMA TipKept ==
  ASSUME TipInv, UNCHANGED chainVars PROVE TipInv'
  BY DEF TipInv, chainVars, PathTo

LEMMA HeadersKept ==
  ASSUME HeadersInv, UNCHANGED headerVars PROVE HeadersInv'
  BY DEF HeadersInv, PathInv, headerVars, IsPath, PathTo

LEMMA PostDone ==
  ASSUME NEW p \in [Job -> [Ops -> Int]], NEW j \in Job, NEW op \in Ops
  PROVE  /\ Post(p, j, op) \in [Job -> [Ops -> Int]]
         /\ op # "checks1" => \A k \in Job : Post(p, j, op)[k]["checks1"] = p[k]["checks1"]
         /\ p = posted => /\ Done(j, op) \in [Job -> [Ops -> Int]]
                          /\ \A k \in Job : Done(j, op)[k]["checks1"] <= p[k]["checks1"]
  <1>1. "checks1" \in Ops
    BY DEF Ops
  <1>2. QED
    BY <1>1 DEF Post, Done

\* A step that starts and ends no job keeps the invariant if it keeps its parts.
LEMMA Assemble ==
  ASSUME PipelineInv, SameBlk(state, state'), StrandOK(state, strand'),
         posted' \in [Job -> [Ops -> Int]],
         \A k \in Job : posted'[k]["checks1"] <= posted[k]["checks1"],
         \A j \in orphanBlocks' : j \in Job /\ state[j].blk # NULL,
         HeadersInv', TipInv', ScheduleInv'
  PROVE  PipelineInv'
  <1>1. Shape(state')
    BY SameBlkShape DEF PipelineInv
  <1>2. \A k \in Job : state'[k].blk = state[k].blk
    BY DEF SameBlk
  <1>3. StrandOK(state', strand')
    BY <1>2, StrandState
  <1>4. TaskInv'
    <2>1. "checks1" \in Ops
      BY DEF Ops
    <2>2. QED
      BY <1>2, <2>1 DEF PipelineInv, TaskInv
  <1>5. OrphanInv'
    BY <1>2 DEF OrphanInv
  <1>6. QED
    BY <1>1, <1>3, <1>4, <1>5 DEF PipelineInv

-----------------------------------------------------------------------------
(***************************************************************************)
(* The tasks of the io_service.                                            *)
(***************************************************************************)

\* What all tasks leave alone.
TaskFrame == UNCHANGED <<headerVars, chainVars, orphanBlocks, lastFullBlockScheduled>>

LEMMA TaskStep ==
  ASSUME PipelineInv, TaskFrame, SameBlk(state, state'), StrandOK(state, strand'),
         posted' \in [Job -> [Ops -> Int]],
         \A k \in Job : posted'[k]["checks1"] <= posted[k]["checks1"]
  PROVE  PipelineInv'
  <1>1. HeadersInv' /\ TipInv'
    BY HeadersKept, TipKept DEF PipelineInv, TaskFrame
  <1>2. ScheduleInv' /\ \A j \in orphanBlocks' : j \in Job /\ state[j].blk # NULL
    BY DEF PipelineInv, TaskFrame, ScheduleInv, OrphanInv
  <1>3. QED
    BY <1>1, <1>2, Assemble

LEMMA Checks1Keeps ==
  ASSUME PipelineInv, NEW j \in Job, checks1NoContext(j) PROVE PipelineInv'
  <1>1. TaskFrame
    BY DEF checks1NoContext, TaskFrame, queueVars
  <1>2. SameBlk(state, state')
    <2>1. SameBlk(state, state)
      BY SameBlkReflexive DEF PipelineInv
    <2>2. SameBlk(state, [state EXCEPT ![j].bits = @ \cup {"Header"}])
      BY <2>1 DEF SameBlk
    <2>3. QED
      BY <2>1, <2>2, FinishSame DEF checks1NoContext
  <1>3. state[j].blk # NULL
    BY DEF checks1NoContext, Take, PipelineInv, TaskInv
  <1>4. StrandOK(state, strand')
    BY <1>3, NewHeader, StrandAppend DEF checks1NoContext, PipelineInv
  <1>5. /\ posted' \in [Job -> [Ops -> Int]]
        /\ \A k \in Job : posted'[k]["checks1"] <= posted[k]["checks1"]
    BY PostDone DEF checks1NoContext, PipelineInv, TaskInv, Ops
  <1>6. QED
    BY <1>1, <1>2, <1>4, <1>5, TaskStep

LEMMA Checks2Keeps ==
  ASSUME PipelineInv, NEW j \in Job, checks2HaveParentHeaders(j) PROVE PipelineInv'
  <1>1. TaskFrame
    BY DEF checks2HaveParentHeaders, TaskFrame, queueVars
  <1>2. SameBlk(state, state')
    <2>1. SameBlk(state, state)
      BY SameBlkReflexive DEF PipelineInv
    <2>2. SameBlk(state, [state EXCEPT ![j].bits = @ \cup {"ChainHeaders"}])
      BY <2>1 DEF SameBlk
    <2>3. QED
      BY <2>1, <2>2, FinishSame DEF checks2HaveParentHeaders
  <1>3. StrandOK(state, strand')
    BY NewProcess, StrandAppend DEF checks2HaveParentHeaders, finishUp, PipelineInv
  <1>4. /\ posted' \in [Job -> [Ops -> Int]]
        /\ \A k \in Job : posted'[k]["checks1"] <= posted[k]["checks1"]
    <2>1. "checks2" \in Ops /\ "updateUtxo" \in Ops /\ posted \in [Job -> [Ops -> Int]]
      BY DEF PipelineInv, TaskInv, Ops
    <2>2. /\ Done(j, "checks2") \in [Job -> [Ops -> Int]]
          /\ \A k \in Job : Done(j, "checks2")[k]["checks1"] <= posted[k]["checks1"]
      BY <2>1, PostDone
    <2>3. /\ Post(Done(j, "checks2"), j, "updateUtxo") \in [Job -> [Ops -> Int]]
          /\ \A k \in Job : Post(Done(j, "checks2"), j, "updateUtxo")[k]["checks1"] =
                               Done(j, "checks2")[k]["checks1"]
      BY <2>1, <2>2, PostDone
    <2>4. posted' \in {Done(j, "checks2"), Post(Done(j, "checks2"), j, "updateUtxo")}
      BY DEF checks2HaveParentHeaders
    <2>5. QED
      BY <2>2, <2>3, <2>4
  <1>5. QED
    BY <1>1, <1>2, <1>3, <1>4, TaskStep

LEMMA UpdateUtxoKeeps ==
  ASSUME PipelineInv, NEW j \in Job, updateUtxoAndStartValidation(j) PROVE PipelineInv'
  <1>1. TaskFrame
    BY DEF updateUtxoAndStartValidation, TaskFrame, queueVars
  <1>2. SameBlk(state, state)
    BY SameBlkReflexive DEF PipelineInv
  <1>3. SameBlk(state, state')
    <2>1. SameBlk(state, ChunksStarted(j))
      BY <1>2 DEF SameBlk, ChunksStarted
    <2>2. SameBlk(state, blockFailed(state, j))
      BY <1>2, FinishSame
    <2>3. SameBlk(state, [blockFailed(state, j) EXCEPT ![j].readFrom = utxo])
      <3> HIDE DEF blockFailed
      <3>1. QED
        BY <2>2 DEF SameBlk
    <2>4. QED
      BY <1>2, <2>1, <2>3 DEF updateUtxoAndStartValidation
  <1>4. StrandOK(state, strand')
    <2>1. strand' = strand \/ strand' = Append(strand, Handler("processNewBlock", j))
      BY DEF updateUtxoAndStartValidation, finishUp
    <2>2. QED
      BY <2>1, NewProcess, StrandAppend DEF PipelineInv
  <1>5. /\ posted' \in [Job -> [Ops -> Int]]
        /\ \A k \in Job : posted'[k]["checks1"] <= posted[k]["checks1"]
    <2> DEFINE d == Done(j, "updateUtxo")
    <2>1. posted \in [Job -> [Ops -> Int]] /\ "checks1" \in Ops /\ "updateUtxo" \in Ops
      BY DEF PipelineInv, TaskInv, Ops
    <2>2. d \in [Job -> [Ops -> Int]] /\ \A k \in Job : d[k]["checks1"] <= posted[k]["checks1"]
      BY <2>1, PostDone
    <2>3. posted' \in {posted, d, [d EXCEPT ![j].chunk = nChunks]}
      BY DEF updateUtxoAndStartValidation
    <2> HIDE DEF d
    <2>4. nChunks \in Int
      BY PipelineAssumption
    <2>5. /\ [d EXCEPT ![j].chunk = nChunks] \in [Job -> [Ops -> Int]]
          /\ \A k \in Job : [d EXCEPT ![j].chunk = nChunks][k]["checks1"] = d[k]["checks1"]
      BY <2>1, <2>2, <2>4
    <2>6. \A k \in Job : posted[k]["checks1"] \in Int
      BY <2>1
    <2>7. CASE posted' = posted
      BY <2>1, <2>6, <2>7
    <2>8. CASE posted' = d
      BY <2>2, <2>8
    <2>9. CASE posted' = [d EXCEPT ![j].chunk = nChunks]
      BY <2>2, <2>5, <2>9
    <2>10. QED
      BY <2>3, <2>7, <2>8, <2>9
  <1>6. QED
    BY <1>1, <1>3, <1>4, <1>5, TaskStep

LEMMA ChunkKeeps ==
  ASSUME PipelineInv, NEW j \in Job, checkSignaturesChunk(j) PROVE PipelineInv'
  <1>1. TaskFrame
    BY DEF checkSignaturesChunk, TaskFrame, queueVars
  <1>2. SameBlk(state, state')
    <2>1. SameBlk(state, state)
      BY SameBlkReflexive DEF PipelineInv
    <2>2. SameBlk(state, blockFailed(state, j))
      BY <2>1, FinishSame
    <2>3. ASSUME NEW st, SameBlk(state, st)
          PROVE  SameBlk(state, [st EXCEPT ![j].left = @ - 1])
      BY <2>3 DEF SameBlk
    <2>4. \/ state' = [state EXCEPT ![j].left = @ - 1]
          \/ state' = [blockFailed(state, j) EXCEPT ![j].left = @ - 1]
      BY DEF checkSignaturesChunk
    <2>5. QED
      BY <2>1, <2>2, <2>3, <2>4
  <1>3. StrandOK(state, strand')
    <2>1. strand' = strand \/ strand' = Append(strand, Handler("processNewBlock", j))
      BY DEF checkSignaturesChunk, finishUp
    <2>2. QED
      BY <2>1, NewProcess, StrandAppend DEF PipelineInv
  <1>4. /\ posted' \in [Job -> [Ops -> Int]]
        /\ \A k \in Job : posted'[k]["checks1"] <= posted[k]["checks1"]
    <2> DEFINE d == Done(j, "chunk")
    <2>1. "chunk" \in Ops /\ "undo" \in Ops /\ posted \in [Job -> [Ops -> Int]]
      BY DEF PipelineInv, TaskInv, Ops
    <2>2. d \in [Job -> [Ops -> Int]] /\ \A k \in Job : d[k]["checks1"] <= posted[k]["checks1"]
      BY <2>1, PostDone
    <2>3. /\ Post(d, j, "undo") \in [Job -> [Ops -> Int]]
          /\ \A k \in Job : Post(d, j, "undo")[k]["checks1"] = d[k]["checks1"]
      <3> HIDE DEF d
      <3>1. QED
        BY <2>1, <2>2, PostDone
    <2>4. posted' \in {d, Post(d, j, "undo")}
      BY DEF checkSignaturesChunk
    <2>5. QED
      BY <2>2, <2>3, <2>4
  <1>5. QED
    BY <1>1, <1>2, <1>3, <1>4, TaskStep

LEMMA UndoKeeps ==
  ASSUME PipelineInv, NEW j \in Job, storeUndoBlock(j) PROVE PipelineInv'
  <1>1. TaskFrame /\ SameBlk(state, state') /\ StrandOK(state, strand')
    BY SameBlkReflexive DEF storeUndoBlock, TaskFrame, queueVars, PipelineInv
  <1>2. /\ posted' \in [Job -> [Ops -> Int]]
        /\ \A k \in Job : posted'[k]["checks1"] <= posted[k]["checks1"]
    BY PostDone DEF storeUndoBlock, PipelineInv, TaskInv, Ops
  <1>3. QED
    BY <1>1, <1>2, TaskStep

LEMMA TaskKeeps ==
  ASSUME PipelineInv, NEW j \in Job, Task(j) PROVE PipelineInv'
  BY Checks1Keeps, Checks2Keeps, UpdateUtxoKeeps, ChunkKeeps, UndoKeeps DEF Task

-----------------------------------------------------------------------------
(***************************************************************************)
(* The handlers of the strand.                                             *)
(***************************************************************************)

\* The handler at the head goes on as h.
LEMMA StrandHead ==
  ASSUME NEW st, NEW s, StrandOK(st, s), s # <<>>, NEW h \in Handlers, HandlerOK(st, h)
  PROVE  StrandOK(st, <<h>> \o Tail(s))
  BY StrandTail, StrandOne, StrandConcat

\* A handler that posts no task and leaves the chains alone.
LEMMA HandlerStep ==
  ASSUME PipelineInv, UNCHANGED <<headerVars, chainVars, posted>>, ScheduleInv',
         SameBlk(state, state'), StrandOK(state, strand'),
         \A j \in orphanBlocks' : j \in Job /\ state[j].blk # NULL
  PROVE  PipelineInv'
  <1>1. HeadersInv' /\ TipInv'
    BY HeadersKept, TipKept DEF PipelineInv
  <1>2. /\ posted' \in [Job -> [Ops -> Int]]
        /\ \A k \in Job : posted'[k]["checks1"] <= posted[k]["checks1"]
    BY DEF PipelineInv, TaskInv, Ops
  <1>3. QED
    BY <1>1, <1>2, Assemble

LEMMA HeaderAfterShutdownKeeps ==
  ASSUME PipelineInv, NEW j \in Job, HeaderAfterShutdown(j) PROVE PipelineInv'
  <1>1. /\ UNCHANGED <<headerVars, chainVars, posted, state, orphanBlocks,
                       lastFullBlockScheduled>>
        /\ strand # <<>> /\ strand' = Tail(strand)
    BY DEF HeaderAfterShutdown, queueVars, Header, Running
  <1>2. QED
    BY <1>1, StrandTail, SameBlkReflexive, HandlerStep
    DEF PipelineInv, ScheduleInv, OrphanInv

LEMMA HeaderNothingToDoKeeps ==
  ASSUME PipelineInv, NEW j \in Job, HeaderNothingToDo(j) PROVE PipelineInv'
  <1>1. /\ UNCHANGED <<headerVars, chainVars, posted, orphanBlocks, lastFullBlockScheduled>>
        /\ strand # <<>> /\ strand' = Tail(strand) /\ state' = Finish(state, j)
    BY DEF HeaderNothingToDo, queueVars, Header, Running
  <1>2. SameBlk(state, state')
    BY <1>1, SameBlkReflexive, FinishSame DEF PipelineInv
  <1>3. QED
    BY <1>1, <1>2, StrandTail, HandlerStep DEF PipelineInv, ScheduleInv, OrphanInv

LEMMA HeaderOrphanKeeps ==
  ASSUME PipelineInv, NEW j \in Job, HeaderOrphan(j) PROVE PipelineInv'
  <1>1. /\ UNCHANGED <<headerVars, chainVars, posted, state, lastFullBlockScheduled>>
        /\ strand # <<>> /\ Head(strand).op = "blockHeaderValidated" /\ Head(strand).job = j
        /\ strand' = Tail(strand) \o Landed(headersInFlight)
        /\ orphanBlocks' = orphanBlocks \cup {j}
    BY DEF HeaderOrphan, Header, Running
  <1>2. StrandOK(state, Tail(strand)) /\ HandlerOK(state, Head(strand))
    BY <1>1, StrandTail DEF PipelineInv
  <1>3. state[j].blk # NULL
    BY <1>1, <1>2 DEF HandlerOK
  <1>4. StrandOK(state, strand')
    BY <1>1, <1>2, LandedOK, StrandConcat
  <1>5. QED
    BY <1>1, <1>3, <1>4, SameBlkReflexive, HandlerStep DEF PipelineInv, ScheduleInv, OrphanInv

LEMMA ListsReplaced ==
  ASSUME NEW op, NEW job, NEW l, NEW t, NEW n, NEW tip, NEW l2, NEW t2, NEW h,
         h = [op |-> op, job |-> job, list |-> l, todo |-> t, n |-> n, tip |-> tip]
  PROVE  [h EXCEPT !.list = l2, !.todo = t2] =
           [op |-> op, job |-> job, list |-> l2, todo |-> t2, n |-> n, tip |-> tip]
  <1> DEFINE g == [h EXCEPT !.list = l2]
  <1>1. g = [op |-> op, job |-> job, list |-> l2, todo |-> t, n |-> n, tip |-> tip]
    OBVIOUS
  <1>2. [g EXCEPT !.todo = t2] =
           [op |-> op, job |-> job, list |-> l2, todo |-> t2, n |-> n, tip |-> tip]
    <2> HIDE DEF g
    <2>1. QED
      BY <1>1
  <1>3. QED
    BY <1>2

LEMMA HeaderAcceptedKeeps ==
  ASSUME PipelineInv, NEW j \in Job, HeaderAccepted(j) PROVE PipelineInv'
  <1> DEFINE h == [Handler("adopt", j) EXCEPT !.list = <<j>>, !.todo = <<j>>]
  <1>1. /\ UNCHANGED <<headerVars, chainVars, posted, orphanBlocks, lastFullBlockScheduled>>
        /\ strand # <<>> /\ Head(strand).op = "blockHeaderValidated" /\ Head(strand).job = j
        /\ strand' = <<h>> \o Tail(strand)
        /\ state' = [Linked(j) EXCEPT ![j].held = FALSE]
    BY DEF HeaderAccepted, queueVars, Header, Running
  <1>2. state[j].blk # NULL
    BY <1>1, StrandTail DEF PipelineInv, HandlerOK
  <1>3. h \in Handlers /\ HandlerOK(state, h)
    <2>1. <<j>> \in Seq(Job)
      OBVIOUS
    <2>5. h = [op |-> "adopt", job |-> j, list |-> <<j>>, todo |-> <<j>>, n |-> 0,
               tip |-> NULL]
      <3> DEFINE g == Handler("adopt", j)
      <3>1. g = [op |-> "adopt", job |-> j, list |-> <<>>, todo |-> <<>>, n |-> 0,
                 tip |-> NULL]
        BY DEF Handler
      <3>2. h = [g EXCEPT !.list = <<j>>, !.todo = <<j>>]
        OBVIOUS
      <3> HIDE DEF g, h
      <3>3. QED
        BY <3>1, <3>2, ListsReplaced
    <2> HIDE DEF h
    <2>2. /\ h \in Handlers /\ h.op = "adopt" /\ h.job = j /\ h.list = <<j>> /\ h.n = 0
      BY <2>1, <2>5 DEF Handlers, HandlerOps
    <2>3. \A i \in 1 .. Len(h.list) : h.list[i] = j
      BY <2>2
    <2>4. QED
      BY <1>2, <2>2, <2>3 DEF HandlerOK
  <1>4. SameBlk(state, state')
    <2>1. SameBlk(state, Linked(j))
      BY LinkedSame DEF PipelineInv
    <2>2. QED
      BY <1>1, <2>1 DEF SameBlk
  <1>5. StrandOK(state, strand')
    <2> HIDE DEF h
    <2>1. QED
      BY <1>1, <1>3, StrandHead DEF PipelineInv
  <1>6. QED
    BY <1>1, <1>4, <1>5, HandlerStep DEF PipelineInv, ScheduleInv, OrphanInv

\* The elements of a finite set as a sequence.
LEMMA SeqsOfSet ==
  ASSUME NEW S, IsFiniteSet(S), NEW q \in [1 .. Cardinality(S) -> S]
  PROVE  q \in Seq(S) /\ Len(q) \in Nat /\ \A i \in 1 .. Len(q) : q[i] \in S
  <1>1. Cardinality(S) \in Nat
    BY FS_CardinalityType
  <1>2. q \in Seq(S) /\ Len(q) = Cardinality(S)
    BY <1>1, FunctionIsSeq, SeqOf
  <1>3. QED
    BY <1>1, <1>2

LEMMA StartOrphanKeeps ==
  ASSUME PipelineInv, startOrphanWithParent PROVE PipelineInv'
  <1> DEFINE h == Head(strand)
             k == Head(h.todo)
             orphans == {o \in orphanBlocks : pprev[state[o].blk] = state[k].blk}
  <1>1. /\ UNCHANGED <<headerVars, chainVars, posted, lastFullBlockScheduled>>
        /\ strand # <<>> /\ h.op = "adopt" /\ h.todo # <<>>
        /\ orphanBlocks' = orphanBlocks \ orphans
    BY DEF startOrphanWithParent
  <1>2. PICK adoptees \in [1 .. Cardinality(orphans) -> orphans] :
          /\ strand' = <<[h EXCEPT !.list = @ \o adoptees,
                                   !.todo = adoptees \o Tail(@)]>> \o Tail(strand)
          /\ state' = [state EXCEPT ![k].children =
                         @ \o SelectSeq(adoptees, LAMBDA c : c \notin Range(state[k].children))]
    BY DEF startOrphanWithParent
  <1> DEFINE h2 == [h EXCEPT !.list = @ \o adoptees, !.todo = adoptees \o Tail(@)]
  <1>3. h \in Handlers /\ HandlerOK(state, h)
    BY <1>1, StrandTail DEF PipelineInv
  <1>4. orphans \subseteq Job /\ IsFiniteSet(orphans) /\ \A o \in orphans : state[o].blk # NULL
    <2>1. orphans \subseteq Job /\ \A o \in orphans : state[o].blk # NULL
      BY DEF PipelineInv, OrphanInv
    <2>2. IsFiniteSet(orphans)
      BY <2>1, PipelineAssumption, FS_Subset
    <2>3. QED
      BY <2>1, <2>2
  <1>5. SameBlk(state, state')
    <2> DEFINE more == SelectSeq(adoptees, LAMBDA c : c \notin Range(state[k].children))
    <2>1. state' = [state EXCEPT ![k].children = @ \o more]
      BY <1>2
    <2> HIDE DEF more, k
    <2>2. QED
      BY <2>1, SameBlkReflexive DEF PipelineInv, SameBlk
  <1> HIDE DEF orphans, k
  <1>6. /\ adoptees \in Seq(Job) /\ Len(adoptees) \in Nat
        /\ \A i \in 1 .. Len(adoptees) : state[adoptees[i]].blk # NULL
    <2>1. adoptees \in Seq(orphans) /\ Len(adoptees) \in Nat
          /\ \A i \in 1 .. Len(adoptees) : adoptees[i] \in orphans
      BY <1>2, <1>4, SeqsOfSet
    <2>2. QED
      BY <1>4, <2>1
  <1> HIDE DEF h
  <1>7. /\ h.list \in Seq(Job) /\ h.todo \in Seq(Job) /\ Len(h.list) \in Nat
        /\ h.op \in HandlerOps /\ h.job \in Job \cup {NULL} /\ h.n \in Int
        /\ h.tip \in Block \cup {NULL}
        /\ h = [op |-> h.op, job |-> h.job, list |-> h.list, todo |-> h.todo, n |-> h.n,
                tip |-> h.tip]
    BY <1>3 DEF Handlers
  <1>8. h2 = [op |-> h.op, job |-> h.job, list |-> h.list \o adoptees,
              todo |-> adoptees \o Tail(h.todo), n |-> h.n, tip |-> h.tip]
    <2> DEFINE l2 == h.list \o adoptees
               t2 == adoptees \o Tail(h.todo)
    <2>1. h2 = [h EXCEPT !.list = l2, !.todo = t2]
      OBVIOUS
    <2> HIDE DEF l2, t2, h2
    <2>2. h2 = [op |-> h.op, job |-> h.job, list |-> l2, todo |-> t2, n |-> h.n, tip |-> h.tip]
      BY <1>7, <2>1, ListsReplaced
    <2>3. QED
      BY <2>2 DEF l2, t2
  <1>9. strand' = <<h2>> \o Tail(strand)
    BY <1>2 DEF h
  <1> HIDE DEF h2
  <1>10. h2 \in Handlers
    <2>1. Tail(h.todo) \in Seq(Job)
      BY <1>1, <1>7, HeadTailOf
    <2>2. h.list \o adoptees \in Seq(Job) /\ adoptees \o Tail(h.todo) \in Seq(Job)
      BY <1>6, <1>7, <2>1, ConcatOf
    <2>3. QED
      BY <1>7, <1>8, <2>2 DEF Handlers
  <1>11. HandlerOK(state, h2)
    <2>1. h2.op = h.op /\ h2.job = h.job /\ h2.n = h.n /\ h2.list = h.list \o adoptees
      BY <1>8
    <2>2. ASSUME NEW i \in 1 .. Len(h2.list) PROVE state[h2.list[i]].blk # NULL
      <3>1. /\ Len(h2.list) = Len(h.list) + Len(adoptees)
            /\ h2.list[i] = IF i <= Len(h.list) THEN h.list[i] ELSE adoptees[i - Len(h.list)]
        BY <1>6, <1>7, <2>1, ConcatOf
      <3>2. CASE i <= Len(h.list)
        BY <1>3, <1>7, <3>1, <3>2 DEF HandlerOK
      <3>3. CASE ~(i <= Len(h.list))
        <4>1. i - Len(h.list) \in 1 .. Len(adoptees)
          BY <1>6, <1>7, <3>1, <3>3
        <4>2. QED
          BY <1>6, <3>1, <3>3, <4>1
      <3>4. QED
        BY <3>2, <3>3
    <2>3. QED
      BY <1>3, <2>1, <2>2 DEF HandlerOK
  <1>12. StrandOK(state, strand')
    BY <1>1, <1>9, <1>10, <1>11, StrandHead DEF PipelineInv
  <1>13. QED
    BY <1>1, <1>5, <1>12, HandlerStep DEF PipelineInv, ScheduleInv, OrphanInv

LEMMA AdoptionEndsKeeps ==
  ASSUME PipelineInv, AdoptionEnds PROVE PipelineInv'
  <1> DEFINE h == Head(strand)
             t == Tip(headersChain)
             h2 == [h EXCEPT !.op = "append", !.tip = t]
  <1>1. /\ UNCHANGED <<headerVars, chainVars, posted, state, orphanBlocks,
                       lastFullBlockScheduled>>
        /\ strand # <<>> /\ h.op = "adopt" /\ strand' = <<h2>> \o Tail(strand)
    BY DEF AdoptionEnds, queueVars
  <1>2. h \in Handlers /\ HandlerOK(state, h)
    BY <1>1, StrandTail DEF PipelineInv
  <1>3. t \in Block
    BY LastOfPath DEF PipelineInv, HeadersInv, PathInv
  <1> HIDE DEF h, t
  <1>4. /\ h2 \in Handlers /\ h2.op = "append" /\ h2.job = h.job /\ h2.list = h.list
        /\ h2.n = h.n
    BY <1>2, <1>3 DEF Handlers, HandlerOps
  <1> HIDE DEF h2
  <1>5. HandlerOK(state, h2)
    BY <1>1, <1>2, <1>4 DEF HandlerOK
  <1>6. StrandOK(state, strand')
    BY <1>1, <1>4, <1>5, StrandHead DEF PipelineInv
  <1>7. QED
    BY <1>1, <1>6, SameBlkReflexive, HandlerStep DEF PipelineInv, ScheduleInv, OrphanInv

=============================================================================
