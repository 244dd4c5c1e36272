SPECIFICATION SirSpec
CONSTANTS
  Payloads <- MCPayloads
  Noise <- MCNoise
  Xbofs = 1
  MaxFrames = 3
  MaxGarbage = 2
  MaxDamage = 1
INVARIANTS NothingMadeUp IntactArrive EveryEndCounted
CHECK_DEADLOCK FALSE
