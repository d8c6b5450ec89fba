SPECIFICATION FairSpec
CONSTANTS
  OutPipes = {"conout", "conerr"}
  Item <- MCItem
  Batches <- MCBatches
  IoSize = 2
  Quota = 1
  MaxOutput = 1
  MaxEvents = 0
  MaxRequests = 1
  Background = FALSE
  MouseAtStart = {FALSE}
PROPERTIES
  PipesCloseAfterExit
  AgentExitsAfterShutdown
  AgentFollowsControlPipe
