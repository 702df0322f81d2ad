\* One session whose commands arrive together.
SPECIFICATION FairSpec
CONSTANTS
  Sessions = 1
  MaxId = 1
  Uploads = 0
  Downloads = 0
  BufSize = 1
  TunnelSize = 10
  WireSize = 10
  QueueSize = 4
  Chunks = {10}
  Faults = {}
PROPERTIES
  CommandsAreNoticed
\* Both nodes may wait for their applications for ever.
CHECK_DEADLOCK FALSE
