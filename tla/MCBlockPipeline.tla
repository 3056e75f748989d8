-------------------------- MODULE MCBlockPipeline --------------------------
(***************************************************************************)
(* Small trees for BlockPipeline: g - p1 is there from the start, two      *)
(* branches a2 - a3 - a4 and b2 - b3 - b4 grow on p1.                      *)
(***************************************************************************)
EXTENDS BlockPipeline, TLC

CONSTANTS j1, j2, j3, j4, j5, g, p1, a2, a3, a4, b2, b3, b4,
          Bad, BadAt    \* BadAt is the check that rejects the blocks of Bad

Only(f) == [b \in Block |-> f[b]]
MCpprev == Only(g :> NULL @@ p1 :> g @@ a2 :> p1 @@ a3 :> a2 @@ a4 :> a3
                @@ b2 :> p1 @@ b3 :> b2 @@ b4 :> b3)
MCnHeight == Only(g :> 0 @@ p1 :> 1 @@ a2 :> 2 @@ a3 :> 3 @@ a4 :> 4
                  @@ b2 :> 2 @@ b3 :> 3 @@ b4 :> 4)
MCnChainWork == [b \in Block |-> MCnHeight[b] + 1]

Path[b \in Block] == IF b = g THEN 0 :> g ELSE Path[MCpprev[b]] @@ (MCnHeight[b] :> b)
MCancestor == [b \in Block |-> Path[b]]

MCFailsAt == [b \in Block |-> IF b \in Bad THEN BadAt ELSE "none"]

Full == [full |-> TRUE, corrupt |-> FALSE, waiting |-> FALSE]
FullWaiting == [full |-> TRUE, corrupt |-> FALSE, waiting |-> TRUE]
HeaderOnly == [full |-> FALSE, corrupt |-> FALSE, waiting |-> FALSE]
CorruptWaiting == [full |-> TRUE, corrupt |-> TRUE, waiting |-> TRUE]

\* The ways in which blocks are offered in the runs.
OffersFull == {Full}
OffersMixed == {Full, HeaderOnly}
OffersCorrupt == {FullWaiting, CorruptWaiting}
=============================================================================
