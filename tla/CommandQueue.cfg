\* The queue of the pump with three slots: every alignment, full and empty.
SPECIFICATION Spec
CONSTANTS
  Cap = 3
  NOP = NOP
  Command = {new, close, ack}
INVARIANTS
  TypeOK
PROPERTIES
  FifoSpec
  CallsTellTheTruth
