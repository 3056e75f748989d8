SPECIFICATION FairDownloadSpec
CONSTANTS
  g = g
  a1 = a1
  a2 = a2
  b1 = b1
  p1 = p1
  p2 = p2
  Block = {g, a1, a2}
  Genesis = g
  NULL = NULL
  pprev <- MCpprev
  nHeight <- MCnHeight
  nChainWork <- MCnChainWork
  ancestor <- MCancestor
  MaxFailures = 0
  Peer = {p1, p2}
  Prompt = {p2}
  Preferred = {p1, p2}
  Unruly = {}
  Offers <- MCOffers
  ThinCapable = {}
  InitialTip = a2
  Invalid = {}
  Recent = {g, a1, a2}
  Fresh = {}
  IsThinBlocksEnabled = FALSE
  MAX_BLOCKS_IN_TRANSIT_PER_PEER = 2
  BLOCK_DOWNLOAD_WINDOW = 1
  MIN_BLOCKS_TO_KEEP = 1
  IbdLag = 1
  ThinLag = 1
CHECK_DEADLOCK FALSE
PROPERTIES BlocksArrive
