SPECIFICATION Spec
CONSTANTS
  MAXPROC = 4
  CLOCK_MAX = 3
  open = open
  stat = stat
  Funcs = {open, stat}
  Owner <- MCChain
  Needs <- MCChainNeeds
  NoRet = {}
  Stale <- MCStale
  RPC_TRIES_MAXNUM = 2
  MaxReq <- MCChainReqs
  MAXUPCALLS = 0
INVARIANT OwnResult
