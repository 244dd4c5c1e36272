SPECIFICATION FairTtpSpec
CONSTANTS
  Retries = 2
  MaxOffers = 20
  MaxSdus = 20
  MaxLosses = 3
  Capacity = 2
  MaxStaleUas = 1
  Prompt = TRUE
  SplitReplies = FALSE
  CreditTarget = 2
  ConnectPolls = 3
  MissLimit = 4
  InitialCredit = 1
  MaxTransfers = 2
  SduSize = 2
  MaxDawdles = 1
  DatalessGrants = TRUE
  MayDisconnect = TRUE
  AskSizes = {2}
  MoreSizes = {0, 1}
INVARIANTS OnlyUsbFails CreditCovered SendCreditBacked
PROPERTIES ImplementsSession
CHECK_DEADLOCK FALSE
