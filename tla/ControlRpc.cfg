SPECIFICATION RpcFairSpec
CONSTANTS
  Thread = {t1, t2}
  NoThread = NoThread
  MaxCalls = 3
  Timeout = 1
  MayDie = TRUE
INVARIANTS
  RpcTypeOK
  ReplyMatchesRequest
  NothingLeftBehind
  HandlesAllOrNone
PROPERTIES
  EveryCallReturns
  ImplementsRpcPromise
