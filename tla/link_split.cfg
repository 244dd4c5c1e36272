SPECIFICATION LinkSpec
CONSTANTS
  Retries = 2
  MaxOffers = 2
  MaxSdus = 2
  MaxLosses = 1
  Capacity = 3
  MaxStaleUas = 0
  Prompt = TRUE
  SplitReplies = TRUE
INVARIANTS ReceivedInOrder
CHECK_DEADLOCK FALSE
