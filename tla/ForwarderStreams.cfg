\* Two sessions share the only identifier; the client's applications send one
\* byte each through a tunnel that moves two bytes or all it can; writes may
\* fail; a command queue of one slot makes handle_state_changes come again.
SPECIFICATION Spec
CONSTANTS
  Sessions = 2
  MaxId = 1
  Uploads = 1
  Downloads = 0
  BufSize = 1
  TunnelSize = 7
  WireSize = 7
  QueueSize = 1
  Chunks = {2, 7}
  Faults = {"write"}
INVARIANTS
  NothingMissing
  FramesInStep
  FailedWritesStayUnreported
  DataFindsItsConnection
PROPERTIES
  RelayedUntilDisturbed
\* Both nodes may wait for their applications for ever.
CHECK_DEADLOCK FALSE
