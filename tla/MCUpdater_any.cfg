SPECIFICATION Spec
CONSTANTS
  Image = {i1, i2}
  None = None
  Partial = Partial
  Garbage = Garbage
  Empty = Empty
  MaxOtas = 1
  OtaWhilePending = TRUE
  Offers = {{}, {"FW1"}, {"FW2"}, {"FW1", "FW2"}}
  EmptyAnswers = {"FW1"}
INVARIANTS
  Bootable
  RunningIntact
PROPERTY MarkKept
