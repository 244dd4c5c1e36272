SPECIFICATION FairLinkSpec
CONSTANTS
  Retries = 3
  MaxOffers = 9
  MaxSdus = 4
  MaxLosses = 2
  Capacity = 2
  MaxStaleUas = 0
  Prompt = TRUE
  SplitReplies = TRUE
INVARIANTS WindowOfOne OffersArrive
PROPERTIES AcknowledgedWasTaken TransactEnds EverySduReceived
CHECK_DEADLOCK FALSE
