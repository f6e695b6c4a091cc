SPECIFICATION FairSpec
CONSTANTS
  Keys = {k1, k2}
  None = None
  StartModes = {TRUE, FALSE}
  MaxEvents = 3
  MaxRequests = 1
  MaxOutputs = 1
  PanicLimit = 2
INVARIANTS
  TypeOK ConsumedWasHandled UnwantedKeysPass
PROPERTIES
  SignalEndsProcess LoopEndEndsProcess
CHECK_DEADLOCK FALSE
