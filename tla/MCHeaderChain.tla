--------------------------- MODULE MCHeaderChain ---------------------------
(* A fork at genesis and another one above it:                              *)
(*   g - a1 - a2 - a3                                                       *)
(*     \    \ c2 - c3       where c3 has more work than a3                  *)
(*      b1 - b2             and b1 has as much as a1                        *)
EXTENDS HeaderChain, TLC

CONSTANTS g, a1, a2, a3, b1, b2, c2, c3

Only(f) == [b \in Block |-> f[b]]
MCpprev == Only(g :> NULL @@ a1 :> g @@ a2 :> a1 @@ a3 :> a2 @@ b1 :> g @@ b2 :> b1
             @@ c2 :> a1 @@ c3 :> c2)
MCnHeight == Only(g :> 0 @@ a1 :> 1 @@ a2 :> 2 @@ a3 :> 3 @@ b1 :> 1 @@ b2 :> 2
             @@ c2 :> 2 @@ c3 :> 3)
MCnChainWork == Only(g :> 1 @@ a1 :> 2 @@ a2 :> 3 @@ a3 :> 4 @@ b1 :> 2 @@ b2 :> 4
             @@ c2 :> 3 @@ c3 :> 5)

\* the path from genesis to each block of height n
Path[n \in Nat] ==
  [b \in {c \in DOMAIN MCpprev : MCnHeight[c] = n} |->
     IF n = 0 THEN <<b>> ELSE Append(Path[n - 1][MCpprev[b]], b)]
MCancestor ==
  [b \in Block |-> [h \in 0 .. MCnHeight[b] |-> Path[MCnHeight[b]][b][h + 1]]]
=============================================================================
