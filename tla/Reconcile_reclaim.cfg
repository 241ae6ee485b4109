SPECIFICATION PlaceSpec
CONSTANTS
  Callers = {k1, k2}
  Blocks = {b1, b2}
  Schemas = {1}
  MaxPlacings = 3
  MaxCallerDeaths = 1
  MaxUserEdits = 1
  MaxConcurrent = 2
  LiveLooksStale = FALSE
INVARIANT PlacedBlocksStay
CHECK_DEADLOCK FALSE
