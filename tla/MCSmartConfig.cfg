SPECIFICATION FairSpec
CONSTANTS
  Radix = 8
  BitXor <- MCBitXor
  Key <- MCKey
  Owner <- MCOwner
  DefaultOwner <- MCDefault
  ErasedOwner <- MCErased
  Messages <- MCMessages
  XByte <- MCX
  MaxLinks = 2
  MaxEvents = 2
INVARIANTS
  TypeOK
  CommandsAreSent
  FlagMeansConfig
  AnsweredOnce
PROPERTIES
  ReportedIsStored
  UnreadableMeansX
  CheckConcludes
