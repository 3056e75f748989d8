SPECIFICATION PipelineSpec
CONSTANTS
  g = g
  p1 = p1
  a2 = a2
  a3 = a3
  a4 = a4
  b2 = b2
  b3 = b3
  b4 = b4
  j1 = j1
  j2 = j2
  j3 = j3
  j4 = j4
  j5 = j5
  Block = {g, p1, a2, b2, b3}
  Genesis = g
  NULL = NULL
  pprev <- MCpprev
  nHeight <- MCnHeight
  nChainWork <- MCnChainWork
  ancestor <- MCancestor
  MaxFailures = 0
  Job = {j1, j2, j3, j4, j5}
  InitialTip = p1
  FailsAt <- MCFailsAt
  Bad = {a2}
  BadAt = "none"
  Unreadable = {}
  Offers <- OffersFull
  nChunks = 1
  blocksInFlightLimit = 2
  MaxOffers = 3
  MayShutdown = FALSE
CHECK_DEADLOCK FALSE
INVARIANTS UndoPresent
