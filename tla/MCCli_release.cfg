SPECIFICATION FairSpec
CONSTANTS
  Chosen = {"0", "3"}
  TestMode = FALSE
  Byte <- MCByte
  NUL <- NoByte
  Command = {"0", "3"}
  Types <- MCTypes
  SIMPLE <- CLI_CMD_SIMPLE
  Size <- MCSize
  Type <- MCType
  PeerSize <- MCSize
  MaxFrames = 3
INVARIANTS
  TypeOK
  NoStrandedInput
  PendingFramed
PROPERTIES
  NoOvertaking
  ReplayTerminates
