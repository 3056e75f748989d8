--------------------------- MODULE MCTxAdmission ---------------------------
(* A chain of three transactions from a coin g, and a fourth that spends    *)
(* the same output as the second.  Only blocks bring the first and the      *)
(* fourth; a reorganisation puts them into the pool.                        *)
EXTENDS TxAdmission

CONSTANTS g, t1, t2, t3, t4

MCprevouts ==
  [tx \in Tx |-> CASE tx = t1 -> {<<g, 0>>}
                   [] tx = t2 -> {<<t1, 0>>}
                   [] tx = t3 -> {<<t2, 0>>}
                   [] tx = t4 -> {<<t1, 0>>}]
MCvout == [tx \in Tx |-> {0}]
MCCoins == {<<g, 0>>}
MCBlocks == {<<t1>>, <<t1, t4>>}
=============================================================================
