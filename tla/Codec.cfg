\* Texts of at most three bytes of every kind, one command, every piece.
SPECIFICATION Spec
CONSTANTS
  Byte = {0, 126, 127}
  Commands = 1
  TextSize = 3
  BufSize = 2
  TunnelSize = 7
INVARIANTS
  TypeOK
  NothingLost
  FramesInStep
  CommandsIntact
PROPERTIES
  EncodesMost
\* Nothing is left to do when the text is received.
CHECK_DEADLOCK FALSE
