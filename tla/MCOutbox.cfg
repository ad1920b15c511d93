SPECIFICATION FairOutboxSpec
CONSTANTS
  NumEvents = 3
  Workers = {w1}
  BatchSize = 2
  MaxAttempts = 2
  MaxCrashes = 1
INVARIANTS PublishedWasDelivered DuplicatesNeedACrash
PROPERTIES EveryEventSettles
