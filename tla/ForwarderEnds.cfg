\* One session, served or refused, and signals; a tunnel buffer holds one
\* command and is full then.
SPECIFICATION FairSpec
CONSTANTS
  Sessions = 1
  MaxId = 1
  Uploads = 1
  Downloads = 0
  BufSize = 1
  TunnelSize = 5
  WireSize = 7
  QueueSize = 4
  Chunks = {10}
  Faults = {"connect", "signal"}
PROPERTIES
  SignalsStop
  EndsTogether
\* Both nodes may wait for their applications for ever.
CHECK_DEADLOCK FALSE
