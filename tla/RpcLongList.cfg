SPECIFICATION RpcSpec
CONSTANTS
  Thread = {t1}
  NoThread = NoThread
  MaxCalls = 1
  Timeout = 1
  MayDie = TRUE
INVARIANTS
  LongListReported
