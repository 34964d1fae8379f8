SPECIFICATION FairSpec
CONSTANTS
  Image = {i1, i2}
  None = None
  Partial = Partial
  Garbage = Garbage
  Empty = Empty
  MaxOtas = 1
  OtaWhilePending = FALSE
  Offers = {{}, {"FW1"}, {"FW1", "FW2"}}
  EmptyAnswers = {"FW1"}
INVARIANTS
  TypeOK
  NoResetMeansNoChange
  Cpu1Recoverable
PROPERTY ImplementsDelivery
