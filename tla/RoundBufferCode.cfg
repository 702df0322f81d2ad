\* Every operation of the round buffer, on a ring of four bytes: all
\* alignments of unread bytes, wrapped and not.
SPECIFICATION Spec
CONSTANTS
  Capacity = 4
  Byte = {x, y}
INVARIANTS
  TypeOK
  IovInBounds
  IteratorOutlastsFreeLength
  WritableIsFree
PROPERTIES
  FifoUnlessWrapped
  ReadingIsFifo
