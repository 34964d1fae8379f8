SPECIFICATION FairSpec
CONSTANTS
  Images <- MCImages
  Pad = "FF"
  Old = "old"
  PageSize = 2
  Capacity = 3
  Uninitialised = {2, 4}
  MaxAttempts = 3
  Drops = TRUE
  Restarts = TRUE
  None = None
  Partial = Partial
INVARIANTS
  TypeOK
  WrittenIsFlashed
PROPERTIES
  WriteReturns
  DeliversUnlessMisread
