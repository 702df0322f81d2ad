\* Two sessions that use the only identifier one after the other.
SPECIFICATION Spec
CONSTANTS
  Sessions = 2
  MaxId = 1
  Uploads = 2
  Downloads = 0
  BufSize = 2
  TunnelSize = 7
  WireSize = 7
  QueueSize = 4
  Chunks = {7}
  Faults = {}
PROPERTIES
  Relayed
\* Both nodes may wait for their applications for ever.
CHECK_DEADLOCK FALSE
