---------------------------- MODULE RoundBuffer ----------------------------
(***************************************************************************)
(* struct round_buffer of "34-35. Port forwarding/round_buffer.c": a byte  *)
(* ring given to the kernel as at most two iovec segments.  The address a  *)
(* of the model is buffer[a]; what the source calls a buffer's content is  *)
(* what the segments of buf_reading_iov yield, in order.                   *)
(***************************************************************************)
EXTENDS Naturals, Sequences

CONSTANTS Capacity,   \* the argument of buf_create
          Byte        \* the byte values told apart

(* main.c asks for 10240 and ten times as many; malloc(0) is never asked.   *)
ASSUME CapacityAssumption == Capacity \in Nat \ {0}

VARIABLES offset, length, cells

vars == <<offset, length, cells>>

Address == 0..(Capacity - 1)

(* malloc does not initialise the cells.                                    *)
Init == /\ offset = 0
        /\ length = 0
        /\ cells \in [Address -> Byte]

FreeLength == Capacity - length
-----------------------------------------------------------------------------
(* Segment lists                                                            *)

Segment(b, n) == [base |-> b, len |-> n]

(* Mutants of WritingIov: the second segment one byte too long; the second  *)
(* segment forgotten.                                                       *)
WritingIovOffByOne ==
  LET start == offset + length
  IN  (IF start < Capacity THEN <<Segment(start, Capacity - start)>> ELSE <<>>)
      \o (IF offset > 0 THEN <<Segment(0, offset + 1)>> ELSE <<>>)

WritingIovOneSegment ==
  LET start == offset + length
  IN  IF start < Capacity THEN <<Segment(start, Capacity - start)>>
      ELSE IF length < Capacity THEN <<Segment(0, 1)>> ELSE <<>>

(* The free space, as handed to readv and to the pump's writing iterator.   *)
WritingIov ==
  IF length = Capacity THEN <<>>
  ELSE LET start == offset + length
       IN  (IF start < Capacity THEN <<Segment(start, Capacity - start)>>
                                ELSE <<>>)
           \o (IF offset > 0 THEN <<Segment(0, offset)>> ELSE <<>>)

(* Mutant of ReadingIov: the segments of wrapped bytes in address order.    *)
ReadingIovSwapped ==
  IF length = 0 THEN <<>>
  ELSE LET end == offset + length
       IN  IF end <= Capacity THEN <<Segment(offset, length)>>
           ELSE <<Segment(0, end - Capacity),
                  Segment(offset, Capacity - offset)>>

(* The unread bytes, as handed to writev and to the reading iterator.       *)
ReadingIov ==
  IF length = 0 THEN <<>>
  ELSE LET end == offset + length
       IN  IF end <= Capacity THEN <<Segment(offset, length)>>
           ELSE <<Segment(offset, Capacity - offset),
                  Segment(0, end - Capacity)>>

IovTotal(iov) == CASE Len(iov) = 0 -> 0
                   [] Len(iov) = 1 -> iov[1].len
                   [] OTHER        -> iov[1].len + iov[2].len

(* The address of the k-th byte of a segment list (buf_iter_next).          *)
IovAddress(iov, k) == IF k <= iov[1].len THEN iov[1].base + k - 1
                                         ELSE iov[2].base + k - iov[1].len - 1

Covered(iov) == {IovAddress(iov, k) : k \in 1..IovTotal(iov)}

Contents == [k \in 1..IovTotal(ReadingIov) |-> cells[IovAddress(ReadingIov, k)]]

(* Bytes bs stored through the segments of iov, first byte first.           *)
Scatter(iov, bs) ==
  [a \in Address |->
     IF \E k \in 1..Len(bs) : IovAddress(iov, k) = a
     THEN bs[CHOOSE k \in 1..Len(bs) : IovAddress(iov, k) = a]
     ELSE cells[a]]

AtMost(k, most) == IF most < k THEN most ELSE k
-----------------------------------------------------------------------------
(* Mutant of AdvanceWrite: no clamp (33. Proxy/round_buffer.c:101 has none).*)
AdvanceWriteUnclamped(n) == length' = length + n

AdvanceWrite(n) == length' = length + AtMost(n, FreeLength)

(* Mutant of AdvanceRead: the offset does not come round the end.           *)
AdvanceReadNoModulo(n) ==
  LET k == AtMost(n, length)
  IN  /\ length' = length - k
      /\ offset' = offset + k

AdvanceRead(n) ==
  LET k == AtMost(n, length)
  IN  IF k = length
      THEN /\ length' = 0
           /\ offset' = 0
      ELSE /\ length' = length - k
           /\ offset' = (offset + k) % Capacity

(* readv stores any number of bytes the segments can take; n = 0 is EOF.    *)
BufRead ==
  /\ WritingIov # <<>>
  /\ \E n \in 0..IovTotal(WritingIov) : \E bs \in [1..n -> Byte] :
       /\ cells' = Scatter(WritingIov, bs)
       /\ AdvanceWrite(n)
  /\ UNCHANGED offset

(* writev takes any number of unread bytes.                                 *)
BufWrite ==
  /\ ReadingIov # <<>>
  /\ \E n \in 0..IovTotal(ReadingIov) : AdvanceRead(n)
  /\ UNCHANGED cells

(* The pump writes byte by byte through the iterator (encode, decode,       *)
(* encode_command), never more than the free length, and then advances.     *)
PumpWrite ==
  /\ \E n \in 0..FreeLength : \E bs \in [1..n -> Byte] :
       /\ cells' = Scatter(WritingIov, bs)
       /\ AdvanceWrite(n)
  /\ UNCHANGED offset

(* The pump consumes what it decoded; decode may count one byte more than   *)
(* there is (an escape at the end), hence the clamp.                        *)
PumpRead ==
  /\ \E n \in 0..(length + 1) : AdvanceRead(n)
  /\ UNCHANGED cells

Next == BufRead \/ BufWrite \/ PumpWrite \/ PumpRead

Spec == Init /\ [][Next]_vars
-----------------------------------------------------------------------------
(* Properties                                                               *)

(* The cursor stays inside the array, and an empty buffer that was read     *)
(* dry starts again at address 0.                                           *)
TypeOK == /\ offset \in Address
          /\ length \in 0..Capacity
          /\ cells \in [Address -> Byte]

(* The unread bytes run past the end of the array and begin again at 0.     *)
Wrapped == offset + length > Capacity

(* No segment list ever reaches outside the array, so neither readv nor     *)
(* writev touches memory that is not the buffer's, and neither do the       *)
(* pump's iterators while they stay in their segments.  decode's reading    *)
(* iterator leaves the last one when an escape is the last byte (pump.c:141);*)
(* that is the matter of Codec, not of this property.                       *)
IovInBounds == Covered(WritingIov) \cup Covered(ReadingIov) \subseteq Address

(* The pump checks buf_free_length and then walks the writing iterator      *)
(* without looking at its end: the segments must be able to take as many    *)
(* bytes as the free length promises (encode, encode_command, decode).      *)
IteratorOutlastsFreeLength == IovTotal(WritingIov) >= FreeLength

(* While the unread bytes do not wrap, the segments offered for writing are *)
(* exactly the free cells: no unread byte can be overwritten.               *)
WritableIsFree ==
  ~Wrapped => Covered(WritingIov) = Address \ Covered(ReadingIov)

Fifo == INSTANCE BoundedFifo WITH Item <- Byte, Cap <- Capacity, q <- Contents

(* From a buffer that does not wrap, every operation is a FIFO step: bytes  *)
(* are appended behind the unread ones or removed from their front.         *)
FifoUnlessWrapped == [][~Wrapped => Fifo!Next]_vars

(* A reader is never disturbed: consuming is a FIFO step even when the      *)
(* bytes wrap (BufWrite and PumpRead; only filling a wrapped buffer is not).*)
ReadingIsFifo == [][cells' = cells /\ length' <= length => Fifo!Next]_vars

(* The whole buffer is a FIFO of bytes, whatever the order of the calls.    *)
FifoSpec == Fifo!Spec
=============================================================================
