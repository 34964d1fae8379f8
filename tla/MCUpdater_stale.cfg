SPECIFICATION Spec
CONSTANTS
  Image = {i1, i2}
  None = None
  Partial = Partial
  Garbage = Garbage
  Empty = Empty
  MaxOtas = 2
  OtaWhilePending = FALSE
  Offers = {{}, {"FW1"}, {"FW2"}, {"FW1", "FW2"}}
  EmptyAnswers = {}
INVARIANT Bootable
