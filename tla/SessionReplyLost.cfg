SPECIFICATION Spec
CONSTANTS
  OutPipes = {"conout"}
  Item <- MCItem
  Batches <- MCBatches
  IoSize = 2
  Quota = 1
  MaxOutput = 1
  MaxEvents = 0
  MaxRequests = 2
  Background = FALSE
  MouseAtStart = {FALSE}
INVARIANTS
  RpcBeforeExitAnswered
