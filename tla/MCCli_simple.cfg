SPECIFICATION FairSpec
CONSTANTS
  Chosen = {"l", "t"}
  TestMode = TRUE
  Byte <- MCByte
  NUL <- NoByte
  Command = {"l", "t"}
  Types <- MCTypes
  SIMPLE <- CLI_CMD_SIMPLE
  Size <- MCSize
  Type <- MCType
  PeerSize <- MCSize
  MaxFrames = 2
PROPERTIES
  ImplementsBus
