------------------------------ MODULE Mempool ------------------------------
(***************************************************************************)
(* CTxMemPool (libs/server/txmempool.cpp): the unconfirmed transactions    *)
(* (mapTx), the outputs they spend (mapNextTx) and the links between a     *)
(* transaction and the ones it spends from (mapLinks).  A pool is a record *)
(* of these three maps and every method that changes it is an operator     *)
(* from a pool to a pool: each method takes the recursive lock cs, and the *)
(* modules that use the pool decide which calls share one lock section.    *)
(*                                                                         *)
(* Of an entry only nCountWithDescendants is kept: nSizeWithDescendants    *)
(* changes in the same assignments and by the same set of transactions.    *)
(* The UTXO view behind the pool (m_coins) is the set of its unspent       *)
(* outputs.                                                                *)
(***************************************************************************)
EXTENDS Transactions, Naturals, FiniteSets

EmptyPool ==
  [mapTx |-> [tx \in {} |-> 0],
   mapNextTx |-> [o \in {} |-> 0],
   mapLinks |-> [tx \in {} |-> [parents |-> {}, children |-> {}]]]

exists(pool, txid) == txid \in DOMAIN pool.mapTx

\* CCoinsViewMemPool: the pool's transactions in front of the UTXO view.  What
\* the pool itself spends is not marked as spent here.
HaveCoins(pool, coins, txid) ==
  exists(pool, txid) \/ \E o \in coins : o[1] = txid

HaveInputs(pool, coins, tx) ==
  \A o \in prevouts[tx] :
    IF exists(pool, o[1]) THEN o[2] \in vout[o[1]] ELSE o \in coins

\* The least set of entries that holds S and is closed under links.
Reachable(links, S) ==
  {tx \in DOMAIN links :
     \A D \in SUBSET DOMAIN links :
       (S \subseteq D /\ \A d \in D : links[d] \subseteq D) => tx \in D}

\* S and everything linked above it, without the limits on the package.
CalculateMemPoolAncestors(pool, S) ==
  Reachable([tx \in DOMAIN pool.mapLinks |-> pool.mapLinks[tx].parents], S)

CalculateDescendants(pool, S) ==
  Reachable([tx \in DOMAIN pool.mapLinks |-> pool.mapLinks[tx].children], S)

\* The entries that spend an output of txid, according to mapNextTx.
NextTxs(pool, txid) ==
  {pool.mapNextTx[o] : o \in {q \in DOMAIN pool.mapNextTx : q[1] = txid}}

MutantAddUnchecked(pool, tx) ==
  LET setParents == {o[1] : o \in prevouts[tx]} \cap DOMAIN pool.mapTx
      setAncestors == setParents
  IN [mapTx |->
        [t \in DOMAIN pool.mapTx \cup {tx} |->
           IF t = tx THEN 1
           ELSE pool.mapTx[t] + (IF t \in setAncestors THEN 1 ELSE 0)],
      mapNextTx |->
        [o \in DOMAIN pool.mapNextTx \cup prevouts[tx] |->
           IF o \in prevouts[tx] THEN tx ELSE pool.mapNextTx[o]],
      mapLinks |->
        [t \in DOMAIN pool.mapLinks \cup {tx} |->
           IF t = tx THEN [parents |-> setParents, children |-> {}]
           ELSE [pool.mapLinks[t] EXCEPT !.children =
                   @ \cup (IF t \in setParents THEN {tx} ELSE {})]]]

\* The new entry is assumed to have no child in the pool yet.
addUnchecked(pool, tx) ==
  LET setParents == {o[1] : o \in prevouts[tx]} \cap DOMAIN pool.mapTx
      setAncestors == CalculateMemPoolAncestors(pool, setParents)
  IN [mapTx |->
        [t \in DOMAIN pool.mapTx \cup {tx} |->
           IF t = tx THEN 1
           ELSE pool.mapTx[t] + (IF t \in setAncestors THEN 1 ELSE 0)],
      mapNextTx |->
        [o \in DOMAIN pool.mapNextTx \cup prevouts[tx] |->
           IF o \in prevouts[tx] THEN tx ELSE pool.mapNextTx[o]],
      mapLinks |->
        [t \in DOMAIN pool.mapLinks \cup {tx} |->
           IF t = tx THEN [parents |-> setParents, children |-> {}]
           ELSE [pool.mapLinks[t] EXCEPT !.children =
                   @ \cup (IF t \in setParents THEN {tx} ELSE {})]]]

\* What insertTx checks again before it calls addUnchecked: the lock was
\* released since the inputs were looked up.
MutantInsertable(pool, coins, tx) ==
  /\ ~exists(pool, tx)
  /\ \A o \in prevouts[tx] :
       \/ exists(pool, o[1]) /\ o[2] \in vout[o[1]]
       \/ o \in coins

Insertable(pool, coins, tx) ==
  /\ ~exists(pool, tx)
  /\ prevouts[tx] \cap DOMAIN pool.mapNextTx = {}
  /\ \A o \in prevouts[tx] :
       \/ exists(pool, o[1]) /\ o[2] \in vout[o[1]]
       \/ o \in coins

\* The links to and the totals of the children that were in the pool before
\* their parent tx came back to it.
UpdateTransactionsFromBlock(pool, tx) ==
  LET setChildren == NextTxs(pool, tx) \ {tx}
      linked == [pool EXCEPT !.mapLinks =
                   [t \in DOMAIN pool.mapLinks |->
                      IF t = tx
                        THEN [pool.mapLinks[t] EXCEPT !.children = @ \cup setChildren]
                        ELSE [pool.mapLinks[t] EXCEPT !.parents =
                                @ \cup (IF t \in setChildren THEN {tx} ELSE {})]]]
      descendants == CalculateDescendants(linked, linked.mapLinks[tx].children) \ {tx}
  IN IF exists(pool, tx)
       THEN [linked EXCEPT !.mapTx[tx] = @ + Cardinality(descendants)]
       ELSE pool

\* The entries of stage leave: the totals of their ancestors first, then the
\* links on both sides, then removeUnchecked for each of them.
MutantRemoveStaged(pool, stage) ==
  LET keep == DOMAIN pool.mapTx \ stage
      above(tx) == CalculateMemPoolAncestors(pool, pool.mapLinks[tx].parents)
  IN [mapTx |->
        [t \in keep |->
           pool.mapTx[t] - Cardinality({tx \in stage : t \in above(tx)})],
      mapNextTx |->
        [o \in {q \in DOMAIN pool.mapNextTx :
                  \A tx \in stage : q \notin prevouts[tx]} |-> pool.mapNextTx[o]],
      mapLinks |->
        [t \in keep |->
           [parents |-> pool.mapLinks[t].parents,
            children |-> {c \in pool.mapLinks[t].children :
                            ~(c \in stage /\ t \in pool.mapLinks[c].parents)}]]]

RemoveStaged(pool, stage) ==
  LET keep == DOMAIN pool.mapTx \ stage
      above(tx) == CalculateMemPoolAncestors(pool, pool.mapLinks[tx].parents)
  IN [mapTx |->
        [t \in keep |->
           pool.mapTx[t] - Cardinality({tx \in stage : t \in above(tx)})],
      mapNextTx |->
        [o \in {q \in DOMAIN pool.mapNextTx :
                  \A tx \in stage : q \notin prevouts[tx]} |-> pool.mapNextTx[o]],
      mapLinks |->
        [t \in keep |->
           [parents |-> {p \in pool.mapLinks[t].parents :
                           ~(p \in stage /\ t \in pool.mapLinks[p].children)},
            children |-> {c \in pool.mapLinks[t].children :
                            ~(c \in stage /\ t \in pool.mapLinks[c].parents)}]]]

\* What remove takes out when fRecursive: the descendants of tx, or of the
\* entries that spend it when tx itself is not in the pool.
Removed(pool, tx) ==
  CalculateDescendants(pool,
    IF exists(pool, tx) THEN {tx}
    ELSE {pool.mapNextTx[o] : o \in Outputs(tx) \cap DOMAIN pool.mapNextTx})

MutantRemoveConflicts(pool, tx) ==
  RemoveStaged(pool,
    {pool.mapNextTx[o] : o \in prevouts[tx] \cap DOMAIN pool.mapNextTx} \ {tx})

\* The entries that spend an input of tx leave with all their descendants.
removeConflicts(pool, tx) ==
  LET conflicts ==
        {pool.mapNextTx[o] : o \in prevouts[tx] \cap DOMAIN pool.mapNextTx} \ {tx}
  IN RemoveStaged(pool, CalculateDescendants(pool, conflicts))

\* A transaction of a connected block leaves without its descendants, which
\* spend it from the chain now, and what conflicts with it leaves with them.
removeForBlock(pool, tx) ==
  removeConflicts(RemoveStaged(pool, {tx} \cap DOMAIN pool.mapTx), tx)

\* Expire and TrimToSize, whose choice by age, fee and size is abstracted: the
\* pools that are left when some entries go, each with its descendants.
Limited(pool) ==
  {RemoveStaged(pool, CalculateDescendants(pool, S)) : S \in SUBSET DOMAIN pool.mapTx}

=============================================================================
