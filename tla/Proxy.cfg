\* Three clients for two slots; the applications of the second send two bytes each
\* way; writes may fail and a signal may come.
SPECIFICATION Spec
CONSTANTS
  MaxClients = 2
  Clients = 3
  Talkers = {2}
  Units = 2
  BufferSize = 2
  Faults = {"write", "signal"}
INVARIANTS
  SlotsAgree
  PollAsksForWhatIsNeeded
  DescriptorsAreUsable
PROPERTIES
  Relayed
  SignalEnds
\* Without a new connection or a byte poll blocks for ever.
CHECK_DEADLOCK FALSE
