\* Files of at most four characters, none of them NUL, five typed; three rounds;
\* every fault; two signals.
SPECIFICATION Spec
CONSTANTS
  Char = {2, 10}
  Key = {0, 2, 10}
  FileSize = 4
  TypedSize = 5
  ChunkSize = 3
  LineSize = 3
  Rounds = 3
  BlockSize = 2
  ByteLimit = 4
  PipeFaults = {"interrupt", "fork", "cloexec"}
  MessageSize = 3
  ServerBuf = 2
  ShortWrites = TRUE
  MaxSignals = 2
INVARIANTS
  TableIsTheFile
  PrintsTheLine
  InputAnswered
  AlarmsAreRight
  ReaderGetsMessage
  MessageShownOnce
PROPERTIES
  ProgramEnds
  EverybodyEnds
  EndsWithNothingHeld
\* The programs end.
CHECK_DEADLOCK FALSE
