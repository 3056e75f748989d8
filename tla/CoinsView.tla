----------------------------- MODULE CoinsView -----------------------------
(***************************************************************************)
(* What the layers of the UTXO set promise (CCoinsView in                  *)
(* libs/server/coins.h): three complete copies of it.  The database        *)
(* survives a crash; the tip is what the node works with; a view holds the *)
(* changes of a block that is being connected or disconnected and reaches  *)
(* the tip in one step or not at all.  Each copy knows its best block, "the *)
(* block hash whose state this CCoinsView currently represents".           *)
(***************************************************************************)
CONSTANTS Tx, Coins, BlockHash

VARIABLES
  db, tip, view,             \* the unspent outputs of each transaction
  dbBest, tipBest, viewBest

viewVars == <<db, tip, view, dbBest, tipBest, viewBest>>

AbstractInit ==
  /\ db \in [Tx -> Coins] /\ tip = db /\ view = db
  /\ dbBest \in BlockHash /\ tipBest = dbBest /\ viewBest = dbBest

Change(tx, coins) ==
  /\ view' = [view EXCEPT ![tx] = coins]
  /\ UNCHANGED <<db, tip, dbBest, tipBest, viewBest>>

ChangeBest(b) == viewBest' = b /\ UNCHANGED <<db, tip, view, dbBest, tipBest>>

Commit == tip' = view /\ tipBest' = viewBest /\ UNCHANGED <<db, view, dbBest, viewBest>>

Discard == view' = tip /\ viewBest' = tipBest /\ UNCHANGED <<db, tip, dbBest, tipBest>>

Persist == db' = tip /\ dbBest' = tipBest /\ UNCHANGED <<tip, view, tipBest, viewBest>>

Restart ==
  /\ tip' = db /\ view' = db /\ tipBest' = dbBest /\ viewBest' = dbBest
  /\ UNCHANGED <<db, dbBest>>

AbstractNext ==
  \/ \E tx \in Tx, coins \in Coins : Change(tx, coins)
  \/ \E b \in BlockHash : ChangeBest(b)
  \/ Commit \/ Discard \/ Persist \/ Restart

AbstractSpec == AbstractInit /\ [][AbstractNext]_viewVars
=============================================================================
