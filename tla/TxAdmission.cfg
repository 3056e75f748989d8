SPECIFICATION AdmissionSpec
CONSTANTS
  g = g
  t1 = t1
  t2 = t2
  t3 = t3
  t4 = t4
  Tx = {t1, t2, t3, t4}
  Prevs = {g, t1, t2, t3, t4}
  prevouts <- MCprevouts
  vout <- MCvout
  Coins <- MCCoins
  Relayed = {t2, t3}
  Blocks <- MCBlocks
  MaxHeight = 1
  Large = {}
  strand = strand
  Workers = {strand, w1}
  m_limit = 1
  CheckInterval = 1
  Expiry = 0
  MaxTime = 2
INVARIANTS AdmissionTypeOK SpentOnce  InputsAvailable  IndexIsExact BoundedByLimit
