SPECIFICATION Spec
CONSTANTS
  g = g
  a1 = a1
  a2 = a2
  a3 = a3
  b1 = b1
  b2 = b2
  c2 = c2
  c3 = c3
  Block = {g, a1, b1, b2}
  Genesis = g
  NULL = NULL
  pprev <- MCpprev
  nHeight <- MCnHeight
  nChainWork <- MCnChainWork
  ancestor <- MCancestor
  MaxFailures = 2
INVARIANT NoFailedInChain
