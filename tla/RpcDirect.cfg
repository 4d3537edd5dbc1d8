SPECIFICATION FairSpec
CONSTANTS
  MAXPROC = 3
  CLOCK_MAX = 3
  open = open
  stat = stat
  Funcs = {open}
  Owner <- MCOnlyF
  Needs <- MCOnlyFNeeds
  NoRet = {}
  Stale <- MCStale
  RPC_TRIES_MAXNUM = 2
  MaxReq <- MCClients2
  MAXUPCALLS = 0
INVARIANTS RunsOnce OwnResult
PROPERTY CallReturns
