SPECIFICATION LinkSpec
CONSTANTS
  Retries = 2
  MaxOffers = 3
  MaxSdus = 2
  MaxLosses = 2
  Capacity = 3
  MaxStaleUas = 1
  Prompt = FALSE
  SplitReplies = FALSE
INVARIANTS TypeOK ReceivedInOrder AcceptedInOrder LinkInv
CHECK_DEADLOCK FALSE
