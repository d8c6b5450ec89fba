SPECIFICATION Spec
CONSTANTS
  OutPipes = {"conout"}
  Item <- MCItem
  Batches <- MCBatches
  IoSize = 2
  Quota = 1
  MaxOutput = 2
  MaxEvents = 1
  MaxRequests = 2
  Background = TRUE
  MouseAtStart = {FALSE}
INVARIANTS
  TypeOK
  StreamIntact
  FinalOutputDelivered
  OrderlyCloseKeepsOutput
  MouseOffAtEof
PROPERTIES
  
  ImplementsPromise
