\* A ring of three bytes or more is not.
SPECIFICATION Spec
CONSTANTS
  Capacity = 3
  Byte = {x, y}
PROPERTIES
  FifoSpec
