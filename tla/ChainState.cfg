SPECIFICATION ChainSpec
CONSTANTS
  g = g
  a1 = a1
  a2 = a2
  b2 = b2
  b3 = b3
  c1 = c1
  c2 = c2
  t1 = t1
  t2 = t2
  t3 = t3
  t4 = t4
  NULL = NULL
  Pruned = Pruned
  Tx = {c1, c2, t1, t2, t3, t4}
  BlockHash = {g, a1, a2, b2, b3}
  Genesis = g
  Coins <- MCCoins
  pprev <- MCpprev
  nHeight <- MCnHeight
  vtx <- MCvtx
  vin <- MCvin
  vout <- MCvout
INVARIANTS   CoinsTypeOK FlagsExact
PROPERTIES ImplementsCoinsView
