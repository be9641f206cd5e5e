SPECIFICATION FairMonitorSpec
CONSTANTS
  MaxEvents = 6
  FirstEvent = 2
  PageSize = 2
  MaxErrors = 2
INVARIANTS
  FeedInv
  FinalPollShowsRest
PROPERTIES
  FedInOrder
  KeepsUp
CHECK_DEADLOCK FALSE
