SPECIFICATION FairSpec
CONSTANTS
  Ids = {a}
  NoId = NoId
  Marker = Marker
  MaxAttempts = 1
  AsyncRetries = 1
  MaxRequests = 3
  MaxFaults = 1
  FaultKinds = {"rejected", "lost", "refused"}
INVARIANTS
  ProtocolInv
  ResourcesAreTracked
PROPERTIES
  AnswersOnce
  EveryRequestIsAnswered
CHECK_DEADLOCK FALSE
