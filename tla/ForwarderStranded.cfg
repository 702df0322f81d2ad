\* One session; the tunnel buffer takes less than the connection's buffer holds.
SPECIFICATION Spec
CONSTANTS
  Sessions = 1
  MaxId = 1
  Uploads = 2
  Downloads = 0
  BufSize = 2
  TunnelSize = 7
  WireSize = 7
  QueueSize = 4
  Chunks = {2}
  Faults = {}
INVARIANTS
  NoBytesStranded
\* Both nodes may wait for their applications for ever.
CHECK_DEADLOCK FALSE
