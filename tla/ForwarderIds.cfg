\* Three sessions, served or refused, share two identifiers; no bytes, only
\* commands, of which a tunnel buffer holds one.
SPECIFICATION Spec
CONSTANTS
  Sessions = 3
  MaxId = 2
  Uploads = 0
  Downloads = 0
  BufSize = 1
  TunnelSize = 7
  WireSize = 5
  QueueSize = 6
  Chunks = {7}
  Faults = {"connect"}
INVARIANTS
  TypeOK
  IdsDisciplined
  QueueSuffices
  ServerIdsUnique
PROPERTIES
  CommandsHitTheirSession
\* Both nodes may wait for their applications for ever.
CHECK_DEADLOCK FALSE
