SPECIFICATION ChipSpec
CONSTANTS
  Speeds = {2400, 9600, 14400}
  PowerOn <- MCPowerOn
  Deaf <- MCDeaf
  Revision = 3
  Power = 1
  Sensitivity = 1
  Exchanges <- MCExchanges
  AnswerTicks = {1, 16, 20, 22, 36, 44, 47, 50, 52}
  DrainTicks = 6
  ReadTicks = 2
INVARIANTS ReadyMeansSet PromptIsHeard
PROPERTIES ClockChangesInReset VerdictTrue
CHECK_DEADLOCK FALSE
