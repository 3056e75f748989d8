---------------------------- MODULE Transactions ----------------------------
(***************************************************************************)
(* Transactions as the memory pool and the orphan cache see them: ids,     *)
(* the outputs they spend and the outputs they create.  An output is the   *)
(* pair of its transaction's id and its index.                             *)
(***************************************************************************)

CONSTANTS
  Tx,        \* transactions, identified by their hash
  prevouts,  \* prevouts[tx]: the outputs tx spends
  vout       \* vout[tx]: the indexes of the outputs tx creates

\* No transaction is without inputs, or has its own hash in them.
ASSUME TransactionAssumption ==
  \A tx \in Tx :
    /\ prevouts[tx] # {}
    /\ \A o \in prevouts[tx] : o = <<o[1], o[2]>> /\ o[1] # tx

\* The ids of the transactions tx spends from.
vin == [tx \in Tx |-> {o[1] : o \in prevouts[tx]}]

Outputs(tx) == {tx} \X vout[tx]
=============================================================================
