-------------------------- MODULE MCBlockDownload --------------------------
(***************************************************************************)
(* Small trees for BlockDownload: g - a1 - a2, and on g a fork b1 that has *)
(* as much work as a2.                                                     *)
(***************************************************************************)
EXTENDS BlockDownload, TLC

CONSTANTS g, a1, a2, b1, p1, p2

MCpprev == [b \in Block |-> (g :> NULL @@ a1 :> g @@ a2 :> a1 @@ b1 :> g)[b]]
MCnHeight == [b \in Block |-> (g :> 0 @@ a1 :> 1 @@ a2 :> 2 @@ b1 :> 1)[b]]
MCnChainWork == [b \in Block |-> IF b = b1 THEN 3 ELSE MCnHeight[b] + 1]

Path[b \in Block] == IF b = g THEN 0 :> g ELSE Path[MCpprev[b]] @@ (MCnHeight[b] :> b)
MCancestor == [b \in Block |-> Path[b]]

\* Only p2 knows the better branch.
MCOffers == [n \in Peer |-> IF n \in Prompt THEN Block
                            ELSE IF n = p1 THEN Block \ {b1} ELSE Block \ {a2}]
=============================================================================
