-------------------------- MODULE RoundBufferProofs --------------------------
(***************************************************************************)
(* Proofs about RoundBuffer, for every capacity and every set of bytes.    *)
(***************************************************************************)
EXTENDS RoundBuffer, TLAPS

(* The cursor alone.                                                        *)
CursorOK == offset \in Address /\ length \in 0..Capacity

LEMMA CursorBounds ==
  ASSUME CursorOK
  PROVE  /\ offset \in Nat /\ offset < Capacity
         /\ length \in Nat /\ length <= Capacity
         /\ Capacity \in Nat /\ Capacity > 0
         /\ FreeLength \in Nat
BY CapacityAssumption DEF CursorOK, Address, FreeLength
-----------------------------------------------------------------------------
(* Segment lists.  The six shapes of the two lists, as a reader of the C    *)
(* code would enumerate them.                                               *)

LEMMA ReadingShapes ==
  ASSUME CursorOK
  PROVE  /\ length = 0 => ReadingIov = <<>>
         /\ length > 0 /\ ~Wrapped => ReadingIov = <<Segment(offset, length)>>
         /\ Wrapped => ReadingIov = <<Segment(offset, Capacity - offset),
                                      Segment(0, offset + length - Capacity)>>
BY CursorBounds DEF ReadingIov, Wrapped

LEMMA Concat ==
  ASSUME NEW x, NEW y
  PROVE  /\ <<x>> \o <<y>> = <<x, y>>
         /\ <<x>> \o <<>> = <<x>>
         /\ <<>> \o <<y>> = <<y>>
<1> DEFINE S == {x, y}
<1>1. <<x>> \in Seq(S) /\ <<y>> \in Seq(S) /\ <<x, y>> \in Seq(S) /\ <<>> \in Seq(S)
  OBVIOUS
<1> HIDE DEF S
<1>2. <<x>> \o <<>> = <<x>> /\ <<>> \o <<y>> = <<y>>
  BY <1>1
<1>3. <<x>> \o <<y>> = <<x, y>>
  <2>1. <<x>> \o <<y>> \in Seq(S) /\ Len(<<x>> \o <<y>>) = 2
    BY <1>1
  <2>2. (<<x>> \o <<y>>)[1] = x /\ (<<x>> \o <<y>>)[2] = y
    BY <1>1
  <2>3. \A t \in Seq(S) : Len(t) = 2 => t = <<t[1], t[2]>>
    OBVIOUS
  <2> QED
    BY <2>1, <2>2, <2>3, Zenon
<1> QED
  BY <1>2, <1>3

LEMMA WritingShapes ==
  ASSUME CursorOK
  PROVE  /\ length = Capacity => WritingIov = <<>>
         /\ length < Capacity /\ offset + length < Capacity /\ offset = 0
              => WritingIov = <<Segment(offset + length, Capacity - (offset + length))>>
         /\ length < Capacity /\ offset + length < Capacity /\ offset > 0
              => WritingIov = <<Segment(offset + length, Capacity - (offset + length)),
                                Segment(0, offset)>>
         /\ length < Capacity /\ offset + length >= Capacity
              => WritingIov = <<Segment(0, offset)>> /\ offset > 0
<1> DEFINE start == offset + length
           s1 == Segment(start, Capacity - start)
           s2 == Segment(0, offset)
<1>1. WritingIov = IF length = Capacity THEN <<>>
                   ELSE (IF start < Capacity THEN <<s1>> ELSE <<>>)
                        \o (IF offset > 0 THEN <<s2>> ELSE <<>>)
  BY DEF WritingIov
<1>2. start >= Capacity /\ length < Capacity => offset > 0
  BY CursorBounds
<1>3. ~(offset > 0) <=> offset = 0
  BY CursorBounds
<1>4. ~(start < Capacity) <=> start >= Capacity
  BY CursorBounds
<1>5. length < Capacity => length # Capacity
  BY CursorBounds
<1> HIDE DEF start, s1, s2
<1>6. <<s1>> \o <<s2>> = <<s1, s2>> /\ <<s1>> \o <<>> = <<s1>> /\ <<>> \o <<s2>> = <<s2>>
  BY Concat
<1>7. /\ length = Capacity => WritingIov = <<>>
      /\ length < Capacity /\ start < Capacity /\ offset = 0 => WritingIov = <<s1>>
      /\ length < Capacity /\ start < Capacity /\ offset > 0 => WritingIov = <<s1, s2>>
      /\ length < Capacity /\ start >= Capacity => WritingIov = <<s2>> /\ offset > 0
  BY <1>1, <1>2, <1>3, <1>4, <1>5, <1>6, Zenon
<1> QED
  BY <1>7 DEF start, s1, s2

LEMMA OneSegment ==
  ASSUME NEW b \in Nat, NEW n \in Nat
  PROVE  /\ IovTotal(<<Segment(b, n)>>) = n
         /\ \A k \in 1..n : IovAddress(<<Segment(b, n)>>, k) = b + k - 1
BY DEF IovTotal, IovAddress, Segment

LEMMA TwoSegments ==
  ASSUME NEW b \in Nat, NEW n \in Nat, NEW c \in Nat, NEW m \in Nat
  PROVE  LET iov == <<Segment(b, n), Segment(c, m)>>
         IN  /\ IovTotal(iov) = n + m
             /\ \A k \in 1..(n + m) :
                  IovAddress(iov, k) = IF k <= n THEN b + k - 1 ELSE c + k - n - 1
BY DEF IovTotal, IovAddress, Segment

LEMMA NoSegment == IovTotal(<<>>) = 0
BY DEF IovTotal
-----------------------------------------------------------------------------
(* The address of the k-th byte of a ring read from o.                      *)
Place(o, k) == IF o + k - 1 < Capacity THEN o + k - 1 ELSE o + k - 1 - Capacity

(* The reading segments hold as many bytes as length says, and the k-th one *)
(* is k - 1 places behind the offset, round the end of the array.           *)
LEMMA ReadingAddresses ==
  ASSUME CursorOK
  PROVE  /\ IovTotal(ReadingIov) = length
         /\ \A k \in 1..length : IovAddress(ReadingIov, k) = Place(offset, k)
<1>1. CASE length = 0
  BY <1>1, ReadingShapes, NoSegment
<1>2. CASE length > 0 /\ ~Wrapped
  BY <1>2, CursorBounds, ReadingShapes, OneSegment DEF Wrapped, Place
<1>3. CASE Wrapped
  <2> DEFINE n == Capacity - offset
             m == offset + length - Capacity
  <2>1. n \in Nat /\ m \in Nat /\ n + m = length /\ offset \in Nat
    BY <1>3, CursorBounds DEF Wrapped
  <2>2. ReadingIov = <<Segment(offset, n), Segment(0, m)>>
    BY <1>3, ReadingShapes
  <2>3. \A k \in 1..length :
          Place(offset, k) = IF k <= n THEN offset + k - 1 ELSE 0 + k - n - 1
    BY <1>3, CursorBounds DEF Wrapped, Place
  <2> HIDE DEF n, m
  <2>4. /\ IovTotal(ReadingIov) = n + m
        /\ \A k \in 1..(n + m) :
             IovAddress(ReadingIov, k) = IF k <= n THEN offset + k - 1 ELSE 0 + k - n - 1
    BY <2>1, <2>2, TwoSegments
  <2> QED
    BY <2>1, <2>3, <2>4
<1> QED
  BY <1>1, <1>2, <1>3, CursorBounds

(* The writing segments of a ring that does not wrap hold as many bytes as  *)
(* are free, and go on where the unread bytes end; those of a ring that     *)
(* wraps begin at the start of the array, where unread bytes are.           *)
LEMMA WritingAddresses ==
  ASSUME CursorOK
  PROVE  /\ ~Wrapped => /\ IovTotal(WritingIov) = FreeLength
                        /\ \A k \in 1..FreeLength :
                             IovAddress(WritingIov, k) = Place(offset, length + k)
         /\ Wrapped /\ length < Capacity =>
                        /\ IovTotal(WritingIov) = offset
                        /\ \A k \in 1..offset : IovAddress(WritingIov, k) = k - 1
         /\ length = Capacity => IovTotal(WritingIov) = 0
<1> DEFINE n == Capacity - (offset + length)
<1>1. CASE length = Capacity
  <2>1. IovTotal(WritingIov) = 0
    BY <1>1, WritingShapes, NoSegment
  <2> QED
    BY <1>1, <2>1, CursorBounds DEF FreeLength
<1>2. CASE length < Capacity /\ offset + length < Capacity /\ offset = 0
  <2>1. n \in Nat /\ offset + length \in Nat /\ ~Wrapped /\ n = FreeLength
    BY <1>2, CursorBounds DEF Wrapped, FreeLength
  <2>2. WritingIov = <<Segment(offset + length, n)>>
    BY <1>2, WritingShapes
  <2>3. \A k \in 1..n : Place(offset, length + k) = (offset + length) + k - 1
    BY <1>2, CursorBounds DEF Place
  <2> HIDE DEF n
  <2>4. /\ IovTotal(WritingIov) = n
        /\ \A k \in 1..n : IovAddress(WritingIov, k) = (offset + length) + k - 1
    BY <2>1, <2>2, OneSegment
  <2> QED
    BY <1>2, <2>1, <2>3, <2>4, CursorBounds
<1>3. CASE length < Capacity /\ offset + length < Capacity /\ offset > 0
  <2>1. /\ n \in Nat /\ offset + length \in Nat /\ offset \in Nat /\ ~Wrapped
        /\ n + offset = FreeLength
    BY <1>3, CursorBounds DEF Wrapped, FreeLength
  <2>2. WritingIov = <<Segment(offset + length, n), Segment(0, offset)>>
    BY <1>3, WritingShapes
  <2>3. \A k \in 1..FreeLength :
          Place(offset, length + k) = IF k <= n THEN (offset + length) + k - 1
                                                ELSE 0 + k - n - 1
    BY <1>3, CursorBounds DEF Place, FreeLength
  <2> HIDE DEF n
  <2>4. /\ IovTotal(WritingIov) = n + offset
        /\ \A k \in 1..(n + offset) :
             IovAddress(WritingIov, k) = IF k <= n THEN (offset + length) + k - 1
                                                   ELSE 0 + k - n - 1
    BY <2>1, <2>2, TwoSegments, SMTT(30)
  <2> QED
    BY <1>3, <2>1, <2>3, <2>4, CursorBounds
<1>4. CASE length < Capacity /\ offset + length >= Capacity
  <2>1. WritingIov = <<Segment(0, offset)>> /\ offset \in Nat
    BY <1>4, WritingShapes, CursorBounds
  <2>2. /\ IovTotal(WritingIov) = offset
        /\ \A k \in 1..offset : IovAddress(WritingIov, k) = 0 + k - 1
    BY <2>1, OneSegment
  <2>3. \A k \in 1..offset : 0 + k - 1 = k - 1
    BY <2>1
  <2>4. ~Wrapped => /\ offset = FreeLength
                    /\ \A k \in 1..offset : Place(offset, length + k) = k - 1
    BY <1>4, CursorBounds DEF Wrapped, FreeLength, Place
  <2> QED
    BY <1>4, <2>2, <2>3, <2>4, CursorBounds
<1> QED
  BY <1>1, <1>2, <1>3, <1>4, CursorBounds
-----------------------------------------------------------------------------
(* One turn round the ring: the places behind an offset are distinct, and   *)
(* every address is one of them.                                            *)
LEMMA PlaceProperties ==
  ASSUME NEW o \in Address
  PROVE  /\ \A k \in 1..Capacity : Place(o, k) \in Address
         /\ \A j, k \in 1..Capacity : Place(o, j) = Place(o, k) => j = k
         /\ \A a \in Address : \E k \in 1..Capacity : Place(o, k) = a
<1>1. o \in Nat /\ o < Capacity /\ Capacity \in Nat /\ Capacity > 0
  BY CapacityAssumption DEF Address
<1>2. \A k \in 1..Capacity : Place(o, k) \in Address
  BY <1>1 DEF Place, Address
<1>3. \A j, k \in 1..Capacity : Place(o, j) = Place(o, k) => j = k
  BY <1>1 DEF Place
<1>4. ASSUME NEW a \in Address
      PROVE  \E k \in 1..Capacity : Place(o, k) = a
  <2>1. a \in Nat /\ a < Capacity
    BY <1>1 DEF Address
  <2>2. CASE a >= o
    <3>1. a - o + 1 \in 1..Capacity /\ Place(o, a - o + 1) = a
      BY <1>1, <2>1, <2>2 DEF Place
    <3> QED
      BY <3>1
  <2>3. CASE a < o
    <3>1. /\ a - o + Capacity + 1 \in 1..Capacity
          /\ Place(o, a - o + Capacity + 1) = a
      BY <1>1, <2>1, <2>3 DEF Place
    <3> QED
      BY <3>1
  <2> QED
    BY <1>1, <2>1, <2>2, <2>3
<1> QED
  BY <1>2, <1>3, <1>4

(* The three invariants about segments, from the bounds of the cursor.      *)
LEMMA InBounds ==
  ASSUME CursorOK
  PROVE  IovInBounds
<1>1. Covered(ReadingIov) \subseteq Address
  <2>1. offset \in Address /\ \A k \in 1..length : k \in 1..Capacity
    BY CursorBounds DEF CursorOK
  <2> QED
    BY <2>1, ReadingAddresses, PlaceProperties DEF Covered
<1>2. Covered(WritingIov) \subseteq Address
  <2>1. CASE ~Wrapped
    <3>1. offset \in Address /\ \A k \in 1..FreeLength : length + k \in 1..Capacity
      BY CursorBounds DEF CursorOK, FreeLength
    <3> QED
      BY <2>1, <3>1, WritingAddresses, PlaceProperties DEF Covered
  <2>2. CASE Wrapped /\ length < Capacity
    <3>1. \A k \in 1..offset : k - 1 \in Address
      BY CursorBounds DEF Address
    <3> QED
      BY <2>2, <3>1, WritingAddresses DEF Covered
  <2>3. CASE length = Capacity
    <3>1. 1..0 = {}
      OBVIOUS
    <3> QED
      BY <2>3, <3>1, WritingAddresses DEF Covered
  <2> QED
    BY <2>1, <2>2, <2>3, CursorBounds
<1> QED
  BY <1>1, <1>2 DEF IovInBounds

LEMMA Outlasts ==
  ASSUME CursorOK
  PROVE  IteratorOutlastsFreeLength
<1>1. CASE ~Wrapped
  BY <1>1, WritingAddresses, CursorBounds DEF IteratorOutlastsFreeLength
<1>2. CASE Wrapped /\ length < Capacity
  BY <1>2, WritingAddresses, CursorBounds
     DEF IteratorOutlastsFreeLength, Wrapped, FreeLength
<1>3. CASE length = Capacity
  BY <1>3, WritingAddresses, CursorBounds DEF IteratorOutlastsFreeLength, FreeLength
<1> QED
  BY <1>1, <1>2, <1>3, CursorBounds

LEMMA Writable ==
  ASSUME CursorOK
  PROVE  WritableIsFree
<1> SUFFICES ASSUME ~Wrapped
             PROVE  Covered(WritingIov) = Address \ Covered(ReadingIov)
  BY DEF WritableIsFree
<1>1. Covered(ReadingIov) = {Place(offset, k) : k \in 1..length}
  BY ReadingAddresses DEF Covered
<1>2. Covered(WritingIov) = {Place(offset, length + k) : k \in 1..FreeLength}
  BY WritingAddresses DEF Covered
<1>3. /\ \A k \in 1..length : k \in 1..Capacity
      /\ \A k \in 1..FreeLength : length + k \in 1..Capacity /\ length + k \notin 1..length
      /\ \A k \in 1..Capacity : k \notin 1..length =>
           k - length \in 1..FreeLength /\ length + (k - length) = k
  BY CursorBounds DEF FreeLength
<1>4. /\ \A k \in 1..Capacity : Place(offset, k) \in Address
      /\ \A j, k \in 1..Capacity : Place(offset, j) = Place(offset, k) => j = k
      /\ \A a \in Address : \E k \in 1..Capacity : Place(offset, k) = a
  BY PlaceProperties DEF CursorOK
<1>5. ASSUME NEW a \in Covered(WritingIov)
      PROVE  a \in Address \ Covered(ReadingIov)
  BY <1>1, <1>2, <1>3, <1>4
<1>6. ASSUME NEW a \in Address, a \notin Covered(ReadingIov)
      PROVE  a \in Covered(WritingIov)
  <2>1. PICK k \in 1..Capacity : Place(offset, k) = a
    BY <1>4
  <2>2. k \notin 1..length
    BY <1>1, <1>6, <2>1
  <2> QED
    BY <1>2, <1>3, <2>1, <2>2
<1> QED
  BY <1>5, <1>6
-----------------------------------------------------------------------------
(* Storing bytes and moving the cursor                                      *)

LEMMA ScatterType ==
  ASSUME NEW iov, NEW n \in Nat, NEW bs \in [1..n -> Byte],
         cells \in [Address -> Byte]
  PROVE  Scatter(iov, bs) \in [Address -> Byte]
<1>1. Len(bs) = n
  OBVIOUS
<1> DEFINE Hit(a) == \E k \in 1..n : IovAddress(iov, k) = a
           Which(a) == CHOOSE k \in 1..n : IovAddress(iov, k) = a
<1>2. Scatter(iov, bs) = [a \in Address |-> IF Hit(a) THEN bs[Which(a)] ELSE cells[a]]
  BY <1>1 DEF Scatter
<1>3. \A a \in Address : Hit(a) => Which(a) \in 1..n
  OBVIOUS
<1> HIDE DEF Hit, Which
<1> QED
  BY <1>2, <1>3

(* Where a ring does not wrap, storing through the writing segments leaves  *)
(* the unread bytes alone.                                                  *)
LEMMA ScatterSpares ==
  ASSUME CursorOK, ~Wrapped, NEW n \in 0..FreeLength, NEW bs \in [1..n -> Byte],
         NEW k \in 1..length
  PROVE  Scatter(WritingIov, bs)[Place(offset, k)] = cells[Place(offset, k)]
<1>1. /\ Len(bs) = n /\ n \in Nat /\ k \in 1..Capacity
      /\ \A j \in 1..n : j \in 1..FreeLength /\ length + j \in 1..Capacity /\ length + j # k
  BY CursorBounds DEF FreeLength
<1>2. Place(offset, k) \in Address
  BY <1>1, PlaceProperties DEF CursorOK
<1>3. \A j \in 1..n : IovAddress(WritingIov, j) # Place(offset, k)
  BY <1>1, WritingAddresses, PlaceProperties DEF CursorOK
<1> QED
  BY <1>1, <1>2, <1>3 DEF Scatter

LEMMA AtMostIs ==
  ASSUME NEW k \in Nat, NEW most \in Nat
  PROVE  /\ AtMost(k, most) \in 0..most
         /\ k \in 0..most => AtMost(k, most) = k
BY DEF AtMost

LEMMA AdvanceWriteKeeps ==
  ASSUME CursorOK, NEW n \in Nat, AdvanceWrite(n), UNCHANGED offset
  PROVE  CursorOK' /\ length' \in length..Capacity
<1>1. AtMost(n, FreeLength) \in 0..FreeLength
  BY CursorBounds, AtMostIs
<1>2. length' \in length..Capacity
  BY <1>1, CursorBounds DEF AdvanceWrite, FreeLength
<1> QED
  BY <1>2, CursorBounds DEF CursorOK

(* Consuming moves the cursor k places on, with k at most what there was;   *)
(* the places of the remaining bytes are the old ones.                      *)
LEMMA AdvanceReadKeeps ==
  ASSUME CursorOK, NEW n \in Nat, AdvanceRead(n)
  PROVE  /\ CursorOK'
         /\ \E k \in 0..length :
              /\ length' = length - k
              /\ \A j \in 1..(length - k) : Place(offset', j) = Place(offset, k + j)
<1> DEFINE k == AtMost(n, length)
<1>1. k \in 0..length
  BY CursorBounds, AtMostIs
<1>2. /\ k = length => length' = 0 /\ offset' = 0
      /\ k # length => length' = length - k /\ offset' = (offset + k) % Capacity
  BY DEF AdvanceRead
<1> HIDE DEF k
<1>3. CASE k = length
  BY <1>1, <1>2, <1>3, CursorBounds DEF CursorOK, Address
<1>4. CASE k # length
  <2>1. (offset + k) % Capacity = Place(offset, k + 1)
    <3> DEFINE x == offset + k
    <3>1. /\ x \in Nat /\ x < 2 * Capacity
          /\ Place(offset, k + 1) = IF x < Capacity THEN x ELSE x - Capacity
      BY <1>1, <1>4, CursorBounds DEF Place
    <3> HIDE DEF x
    <3>2. x % Capacity = IF x < Capacity THEN x ELSE x - Capacity
      <4>1. CASE x < Capacity
        BY <3>1, <4>1, CursorBounds
      <4>2. CASE x >= Capacity
        BY <3>1, <4>2, CursorBounds
      <4> QED
        BY <3>1, <4>1, <4>2, CursorBounds
    <3> QED
      BY <3>1, <3>2, Zenon DEF x
  <2>2. Place(offset, k + 1) \in Address
    BY <1>1, <1>4, CursorBounds, PlaceProperties DEF CursorOK
  <2>3. length - k \in 0..Capacity
    BY <1>1, CursorBounds
  <2>4. \A j \in 1..(length - k) : Place(offset', j) = Place(offset, k + j)
    BY <1>1, <1>2, <1>4, <2>1, CursorBounds DEF Place
  <2> QED
    BY <1>1, <1>2, <1>4, <2>1, <2>2, <2>3, <2>4 DEF CursorOK
<1> QED
  BY <1>3, <1>4
-----------------------------------------------------------------------------
(* The operations: each either stores through the writing segments and      *)
(* counts the bytes in, or counts bytes out.                                *)

StoreBytes(n, bs) == /\ cells' = Scatter(WritingIov, bs)
                     /\ AdvanceWrite(n)
                     /\ UNCHANGED offset

LEMMA Steps ==
  ASSUME CursorOK, Next
  PROVE  \/ \E n \in Nat : \E bs \in [1..n -> Byte] :
              /\ StoreBytes(n, bs)
              /\ ~Wrapped => n \in 0..FreeLength
         \/ \E n \in Nat : AdvanceRead(n) /\ UNCHANGED cells
<1>1. ASSUME BufRead
      PROVE  \E n \in Nat : \E bs \in [1..n -> Byte] :
               StoreBytes(n, bs) /\ (~Wrapped => n \in 0..FreeLength)
  <2>1. PICK n \in 0..IovTotal(WritingIov) : \E bs \in [1..n -> Byte] :
               /\ cells' = Scatter(WritingIov, bs)
               /\ AdvanceWrite(n)
    BY <1>1 DEF BufRead
  <2>2. /\ IovTotal(WritingIov) \in Nat
        /\ ~Wrapped => IovTotal(WritingIov) = FreeLength
    BY WritingAddresses, CursorBounds
  <2>3. n \in Nat /\ (~Wrapped => n \in 0..FreeLength)
    BY <2>2
  <2> QED
    BY <1>1, <2>1, <2>3 DEF BufRead, StoreBytes
<1>2. ASSUME PumpWrite
      PROVE  \E n \in Nat : \E bs \in [1..n -> Byte] :
               StoreBytes(n, bs) /\ (~Wrapped => n \in 0..FreeLength)
  <2>1. PICK n \in 0..FreeLength : \E bs \in [1..n -> Byte] :
               /\ cells' = Scatter(WritingIov, bs)
               /\ AdvanceWrite(n)
    BY <1>2 DEF PumpWrite
  <2>2. n \in Nat
    BY CursorBounds
  <2> QED
    BY <1>2, <2>1, <2>2 DEF PumpWrite, StoreBytes
<1>3. ASSUME BufWrite
      PROVE  \E n \in Nat : AdvanceRead(n) /\ UNCHANGED cells
  <2>1. PICK n \in 0..IovTotal(ReadingIov) : AdvanceRead(n)
    BY <1>3 DEF BufWrite
  <2>2. n \in Nat
    BY ReadingAddresses, CursorBounds
  <2> QED
    BY <1>3, <2>1, <2>2 DEF BufWrite
<1>4. ASSUME PumpRead
      PROVE  \E n \in Nat : AdvanceRead(n) /\ UNCHANGED cells
  <2>1. PICK n \in 0..(length + 1) : AdvanceRead(n)
    BY <1>4 DEF PumpRead
  <2>2. n \in Nat
    BY CursorBounds
  <2> QED
    BY <1>4, <2>1, <2>2 DEF PumpRead
<1> QED
  BY <1>1, <1>2, <1>3, <1>4 DEF Next

(* The cursor and the cells keep their types, whatever the order of the     *)
(* calls and the number of bytes the kernel moves.                          *)
THEOREM TypeCorrect == Spec => []TypeOK
<1>1. Init => TypeOK
  BY CapacityAssumption DEF Init, TypeOK, Address
<1>2. TypeOK /\ [Next]_vars => TypeOK'
  <2> SUFFICES ASSUME TypeOK, [Next]_vars
               PROVE  TypeOK'
    OBVIOUS
  <2>1. CursorOK /\ cells \in [Address -> Byte]
    BY DEF TypeOK, CursorOK
  <2>2. ASSUME NEW n \in Nat, NEW bs \in [1..n -> Byte], StoreBytes(n, bs)
        PROVE  TypeOK'
    <3>1. cells' \in [Address -> Byte]
      BY <2>1, <2>2, ScatterType DEF StoreBytes
    <3>2. CursorOK'
      BY <2>1, <2>2, AdvanceWriteKeeps DEF StoreBytes
    <3> QED
      BY <3>1, <3>2 DEF TypeOK, CursorOK
  <2>3. ASSUME NEW n \in Nat, AdvanceRead(n), UNCHANGED cells
        PROVE  TypeOK'
    BY <2>1, <2>3, AdvanceReadKeeps DEF TypeOK, CursorOK
  <2>4. CASE UNCHANGED vars
    BY <2>4 DEF vars, TypeOK
  <2> QED
    BY <2>1, <2>2, <2>3, <2>4, Steps
<1> QED
  BY <1>1, <1>2, PTL DEF Spec

LEMMA TypeGivesCursor == TypeOK => CursorOK
  BY DEF TypeOK, CursorOK

(* No segment handed to readv, to writev or to an iterator of the pump      *)
(* reaches outside the array.  Of an iterator that runs past its last       *)
(* segment, as decode's does behind an escape, nothing is said here.        *)
THEOREM SegmentsInBounds == Spec => []IovInBounds
  BY TypeCorrect, TypeGivesCursor, InBounds, PTL

(* encode, encode_command and decode look at the free length once and then  *)
(* walk the writing iterator unchecked: it never ends before they do.       *)
THEOREM IteratorOutlasts == Spec => []IteratorOutlastsFreeLength
  BY TypeCorrect, TypeGivesCursor, Outlasts, PTL

(* Filling a buffer that does not wrap overwrites no unread byte and leaves *)
(* no free cell unused.                                                     *)
THEOREM WritingIsSafe == Spec => []WritableIsFree
  BY TypeCorrect, TypeGivesCursor, Writable, PTL
-----------------------------------------------------------------------------
(* The content as a function of the variables: Contents without segments.   *)
Unread(o, l, c) == [k \in 1..l |-> c[Place(o, k)]]

LEMMA ContentsAre == CursorOK => Contents = Unread(offset, length, cells)
  BY ReadingAddresses DEF Contents, Unread

LEMMA NextContentsAre == CursorOK' => Contents' = Unread(offset', length', cells')
<1>1. (CursorOK => Contents = Unread(offset, length, cells))'
  BY ContentsAre, PTL
<1> QED
  BY <1>1 DEF Unread, Place

LEMMA UnreadIsSequence ==
  ASSUME NEW o \in Address, NEW l \in 0..Capacity, NEW c \in [Address -> Byte]
  PROVE  /\ Unread(o, l, c) \in Seq(Byte)
         /\ Len(Unread(o, l, c)) = l
         /\ \A k \in 1..l : Unread(o, l, c)[k] = c[Place(o, k)]
<1>1. l \in Nat /\ \A k \in 1..l : k \in 1..Capacity
  BY CapacityAssumption
<1>2. \A k \in 1..l : c[Place(o, k)] \in Byte
  BY <1>1, PlaceProperties
<1>3. Unread(o, l, c) \in [1..l -> Byte]
  BY <1>2 DEF Unread
<1> QED
  BY <1>1, <1>3 DEF Unread

(* Counting bytes out removes them from the front, in every state.          *)
LEMMA ReadingTakes ==
  ASSUME TypeOK, NEW n \in Nat, AdvanceRead(n), UNCHANGED cells
  PROVE  Fifo!Take
<1>1. CursorOK /\ cells \in [Address -> Byte]
  BY DEF TypeOK, CursorOK
<1>2. PICK k \in 0..length :
        /\ length' = length - k
        /\ \A j \in 1..(length - k) : Place(offset', j) = Place(offset, k + j)
  BY <1>1, AdvanceReadKeeps
<1>3. CursorOK'
  BY <1>1, AdvanceReadKeeps
<1>4. /\ Contents \in Seq(Byte) /\ Len(Contents) = length
      /\ \A j \in 1..length : Contents[j] = cells[Place(offset, j)]
  BY <1>1, ContentsAre, UnreadIsSequence DEF CursorOK
<1>5. /\ Contents' \in Seq(Byte) /\ Len(Contents') = length - k
      /\ \A j \in 1..(length - k) : Contents'[j] = cells[Place(offset, k + j)]
  BY <1>1, <1>2, <1>3, NextContentsAre, UnreadIsSequence, SMTT(30) DEF CursorOK
<1>6. length \in Nat /\ k \in Nat /\ k <= length
  BY <1>1, CursorBounds
<1>7. /\ SubSeq(Contents, k + 1, length) \in Seq(Byte)
      /\ Len(SubSeq(Contents, k + 1, length)) = length - k
      /\ \A j \in 1..(length - k) : SubSeq(Contents, k + 1, length)[j] = Contents[k + j]
  BY <1>4, <1>6
<1>8. Contents' = SubSeq(Contents, k + 1, length)
  BY <1>4, <1>5, <1>6, <1>7
<1> QED
  BY <1>4, <1>8 DEF Fifo!Take

(* Storing bytes where the ring does not wrap puts them behind the others.  *)
LEMMA WritingPuts ==
  ASSUME TypeOK, ~Wrapped, NEW n \in 0..FreeLength, NEW bs \in [1..n -> Byte],
         StoreBytes(n, bs)
  PROVE  Fifo!Put
<1>1. CursorOK /\ cells \in [Address -> Byte] /\ n \in Nat
  BY CursorBounds DEF TypeOK, CursorOK
<1>2. /\ CursorOK' /\ length' \in length..Capacity /\ offset' = offset
      /\ cells' \in [Address -> Byte]
  BY <1>1, AdvanceWriteKeeps, ScatterType DEF StoreBytes
<1>3. \A k \in 1..length : cells'[Place(offset, k)] = cells[Place(offset, k)]
  BY <1>1, ScatterSpares DEF StoreBytes
<1>4. /\ Contents \in Seq(Byte) /\ Len(Contents) = length
      /\ \A j \in 1..length : Contents[j] = cells[Place(offset, j)]
  BY <1>1, ContentsAre, UnreadIsSequence DEF CursorOK
<1>5. /\ Contents' \in Seq(Byte) /\ Len(Contents') = length'
      /\ \A j \in 1..length' : Contents'[j] = cells'[Place(offset, j)]
  BY <1>2, NextContentsAre, UnreadIsSequence DEF CursorOK
<1>6. \A j \in 1..length : j \in 1..length' /\ Contents'[j] = Contents[j]
  BY <1>1, <1>2, <1>3, <1>4, <1>5, CursorBounds
<1> QED
  BY <1>2, <1>4, <1>5, <1>6 DEF Fifo!Put

(* From a buffer that does not wrap every call is a FIFO step: what is read *)
(* comes from the front, what is written goes to the end, and nothing that  *)
(* waits is changed.                                                        *)
THEOREM FifoWhileUnwrapped == Spec => FifoUnlessWrapped
<1>1. TypeOK /\ [Next]_vars => [~Wrapped => Fifo!Next]_vars
  <2> SUFFICES ASSUME TypeOK, Next, ~Wrapped
               PROVE  Fifo!Next
    BY Zenon
  <2> USE TypeGivesCursor
  <2>1. ASSUME NEW n \in Nat, NEW bs \in [1..n -> Byte], StoreBytes(n, bs),
               n \in 0..FreeLength
        PROVE  Fifo!Next
    BY <2>1, WritingPuts DEF Fifo!Next
  <2>2. ASSUME NEW n \in Nat, AdvanceRead(n), UNCHANGED cells
        PROVE  Fifo!Next
    BY <2>2, ReadingTakes DEF Fifo!Next
  <2> QED
    BY <2>1, <2>2, Steps
<1> QED
  BY <1>1, TypeCorrect, PTL DEF Spec, FifoUnlessWrapped

(* A reader gets the bytes in order even from a buffer that wraps: a call   *)
(* that stores nothing is a FIFO step in every state.                       *)
THEOREM ReadingStaysFifo == Spec => ReadingIsFifo
<1>1. TypeOK /\ [Next]_vars => [cells' = cells /\ length' <= length => Fifo!Next]_vars
  <2> SUFFICES ASSUME TypeOK, Next, cells' = cells, length' <= length
               PROVE  Fifo!Next
    BY Zenon
  <2>0. CursorOK
    BY TypeGivesCursor
  <2>1. ASSUME NEW n \in Nat, NEW bs \in [1..n -> Byte], StoreBytes(n, bs)
        PROVE  Fifo!Next
    <3>1. length' = length /\ offset' = offset
      BY <2>0, <2>1, AdvanceWriteKeeps, CursorBounds DEF StoreBytes
    <3>2. Contents' = Contents /\ Contents \in Seq(Byte) /\ Len(Contents) = length
      <4>1. CursorOK'
        BY <2>0, <3>1 DEF CursorOK
      <4> QED
        BY <2>0, <3>1, <4>1, ContentsAre, NextContentsAre, UnreadIsSequence
           DEF TypeOK, CursorOK
    <3>3. Fifo!Take
      <4>1. 0 \in 0..Len(Contents) /\ Contents' = SubSeq(Contents, 0 + 1, Len(Contents))
        BY <3>2
      <4> QED
        BY <4>1 DEF Fifo!Take
    <3> QED
      BY <3>3 DEF Fifo!Next
  <2>2. ASSUME NEW n \in Nat, AdvanceRead(n), UNCHANGED cells
        PROVE  Fifo!Next
    BY <2>2, ReadingTakes DEF Fifo!Next
  <2> QED
    BY <2>0, <2>1, <2>2, Steps
<1> QED
  BY <1>1, TypeCorrect, PTL DEF Spec, ReadingIsFifo
=============================================================================
