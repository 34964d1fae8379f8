SPECIFICATION Spec
CONSTANTS
  QueueLength = 3
  CountRange = 3
  None = None
INVARIANT TemporarySwitchEnds
