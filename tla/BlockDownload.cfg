SPECIFICATION DownloadSpec
CONSTANTS
  g = g
  a1 = a1
  a2 = a2
  b1 = b1
  p1 = p1
  p2 = p2
  Block = {g, a1, a2, b1}
  Genesis = g
  NULL = NULL
  pprev <- MCpprev
  nHeight <- MCnHeight
  nChainWork <- MCnChainWork
  ancestor <- MCancestor
  MaxFailures = 1
  Peer = {p1, p2}
  Prompt = {}
  Preferred = {p1, p2}
  Unruly = {p2}
  Offers <- MCOffers
  ThinCapable = {p1}
  InitialTip = a1
  Invalid = {a2}
  Recent = {g, a1, a2, b1}
  Fresh = {a1}
  IsThinBlocksEnabled = TRUE
  MAX_BLOCKS_IN_TRANSIT_PER_PEER = 1
  BLOCK_DOWNLOAD_WINDOW = 1
  MIN_BLOCKS_TO_KEEP = 0
  IbdLag = 1
  ThinLag = 1
CHECK_DEADLOCK FALSE
INVARIANTS DownloadTypeOK InFlightExact  InTransitBounded  
 
