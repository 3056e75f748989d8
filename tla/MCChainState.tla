---------------------------- MODULE MCChainState ----------------------------
(***************************************************************************)
(* The block a1 on g creates c1 with two outputs.  Two branches compete on *)
(* it.  In a2 the transaction t1 spends both outputs of c1 and t2 one of   *)
(* t1.  In b2 the transaction t3 spends one output of c1; in b3 t4 spends  *)
(* the other one and that of t3.  a2 and b2 have the same coinbase c2; the *)
(* one of b3 is left out.                                                  *)
(***************************************************************************)
EXTENDS ChainState, TLC

CONSTANTS g, a1, a2, b2, b3, c1, c2, t1, t2, t3, t4

MCpprev == a1 :> g @@ a2 :> a1 @@ b2 :> a1 @@ b3 :> b2
MCnHeight == g :> 0 @@ a1 :> 1 @@ a2 :> 2 @@ b2 :> 2 @@ b3 :> 3
MCvtx == a1 :> <<c1>> @@ a2 :> <<c2, t1, t2>> @@ b2 :> <<c2, t3>> @@ b3 :> <<t4>>
MCvin == c1 :> <<>> @@ c2 :> <<>> @@ t1 :> <<<<c1, 1>>, <<c1, 2>>>> @@ t2 :> <<<<t1, 1>>>>
         @@ t3 :> <<<<c1, 1>>>> @@ t4 :> <<<<c1, 2>>, <<t3, 1>>>>
MCvout == c1 :> {1, 2} @@ c2 :> {1} @@ t1 :> {1, 2} @@ t2 :> {1} @@ t3 :> {1} @@ t4 :> {1}
MCCoins == {Pruned} \cup [outs : {{1}, {2}, {1, 2}}, nHeight : 0 .. 3]
=============================================================================
