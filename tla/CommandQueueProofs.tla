------------------------- MODULE CommandQueueProofs -------------------------
(***************************************************************************)
(* Proofs about CommandQueue, for every capacity and every set of commands.*)
(***************************************************************************)
EXTENDS CommandQueue, TLAPS

(* What % does where the queue uses it: at most one turn round the ring.    *)
LEMMA OneTurn ==
  ASSUME NEW x \in Nat, x < 2 * Cap
  PROVE  x % Cap = IF x < Cap THEN x ELSE x - Cap
<1>1. Cap \in Nat /\ Cap > 0
  BY CapAssumption
<1>2. CASE x < Cap
  BY <1>1, <1>2
<1>3. CASE x >= Cap
  BY <1>1, <1>3
<1> QED
  BY <1>1, <1>2, <1>3

(* Successor is what the comparison in dequeue makes of it: the next slot,  *)
(* and slot 0 behind the last one.                                          *)
LEMMA SuccessorIsNext ==
  ASSUME NEW i \in Slot
  PROVE  /\ Successor(i) \in Slot
         /\ Successor(i) = IF i + 1 = Cap THEN 0 ELSE i + 1
BY CapAssumption, OneTurn DEF Slot, Successor
-----------------------------------------------------------------------------
(* The cursor and the number of commands stay inside the array, and every   *)
(* slot holds a command: cmdq_enqueue and cmdq_dequeue never touch memory   *)
(* outside the queue, whatever its size and the order of the calls.         *)
THEOREM TypeCorrect == Spec => []TypeOK
<1>1. Init => TypeOK
  BY CapAssumption DEF Init, TypeOK, Slot
<1>2. TypeOK /\ [Next]_vars => TypeOK'
  <2> SUFFICES ASSUME TypeOK, [Next]_vars
               PROVE  TypeOK'
    OBVIOUS
  <2>1. ASSUME NEW c \in Command, Enqueue(c)
        PROVE  TypeOK'
    <3>1. CASE Full
      BY <2>1, <3>1 DEF Enqueue, TypeOK
    <3>2. CASE ~Full
      <4>1. (offset + length) % Cap \in Slot
        BY CapAssumption, OneTurn DEF TypeOK, Slot
      <4>2. length + 1 \in 0..Cap
        BY <3>2, CapAssumption DEF TypeOK, Full
      <4> QED
        BY <2>1, <3>2, <4>1, <4>2 DEF Enqueue, TypeOK
    <3> QED
      BY <3>1, <3>2
  <2>2. CASE Dequeue
    <3>1. CASE length = 0
      BY <2>2, <3>1 DEF Dequeue, TypeOK
    <3>2. CASE length # 0
      <4>1. length - 1 \in 0..Cap
        BY <3>2, CapAssumption DEF TypeOK
      <4> QED
        BY <2>2, <3>2, <4>1, SuccessorIsNext DEF Dequeue, TypeOK
    <3> QED
      BY <3>1, <3>2
  <2>3. CASE UNCHANGED vars
    BY <2>3 DEF vars, TypeOK
  <2> QED
    BY <2>1, <2>2, <2>3 DEF Next
<1> QED
  BY <1>1, <1>2, PTL DEF Spec
-----------------------------------------------------------------------------
(* The slot of the k-th command of a ring that starts at o, and the commands *)
(* of a ring with l of them: Contents for any values of the variables.      *)
SlotOf(o, k) == IF o + k - 1 < Cap THEN o + k - 1 ELSE o + k - 1 - Cap

Ring(o, l, q) == [k \in 1..l |-> q[(o + k - 1) % Cap]]

LEMMA SlotOfIsSlot ==
  ASSUME NEW o \in Slot, NEW k \in 1..Cap
  PROVE  SlotOf(o, k) \in Slot /\ (o + k - 1) % Cap = SlotOf(o, k)
<1>1. /\ o \in Nat /\ o < Cap /\ k \in Nat /\ k >= 1 /\ k <= Cap
      /\ Cap \in Nat /\ Cap > 0
  BY CapAssumption DEF Slot
<1> DEFINE x == o + k - 1
<1>2. x \in Nat /\ x < 2 * Cap
  BY <1>1
<1>3. SlotOf(o, k) \in Slot /\ SlotOf(o, k) = IF x < Cap THEN x ELSE x - Cap
  BY <1>1 DEF SlotOf, Slot
<1>4. x % Cap = IF x < Cap THEN x ELSE x - Cap
  <2> HIDE DEF x
  <2> QED
    BY <1>2, OneTurn
<1> QED
  BY <1>3, <1>4

(* A ring is a sequence: as long as length says, its k-th command in the    *)
(* k-th slot from the offset.                                               *)
LEMMA RingIsSequence ==
  ASSUME NEW o \in Slot, NEW l \in 0..Cap, NEW q \in [Slot -> Command]
  PROVE  /\ Ring(o, l, q) \in Seq(Command)
         /\ Len(Ring(o, l, q)) = l
         /\ \A k \in 1..l : Ring(o, l, q)[k] = q[SlotOf(o, k)]
<1>1. l \in Nat /\ \A k \in 1..l : k \in 1..Cap
  BY CapAssumption
<1>2. \A k \in 1..l : /\ Ring(o, l, q)[k] = q[SlotOf(o, k)]
                      /\ q[SlotOf(o, k)] \in Command
  BY <1>1, SlotOfIsSlot DEF Ring
<1>3. Ring(o, l, q) \in [1..l -> Command]
  BY <1>2 DEF Ring
<1> QED
  BY <1>1, <1>2, <1>3

(* Writing to the slot behind the last command appends it: that slot is     *)
(* none of theirs.                                                          *)
LEMMA RingAppend ==
  ASSUME NEW o \in Slot, NEW l \in 0..(Cap - 1), NEW q \in [Slot -> Command],
         NEW c \in Command
  PROVE  Ring(o, l + 1, [q EXCEPT ![(o + l) % Cap] = c]) = Append(Ring(o, l, q), c)
<1> DEFINE r == [q EXCEPT ![SlotOf(o, l + 1)] = c]
<1>1. /\ l \in Nat /\ l < Cap /\ o \in Nat /\ o < Cap /\ Cap \in Nat /\ Cap > 0
      /\ l \in 0..Cap /\ l + 1 \in 0..Cap /\ l + 1 \in 1..Cap
  BY CapAssumption DEF Slot
<1>2. (o + l) % Cap = SlotOf(o, l + 1) /\ SlotOf(o, l + 1) \in Slot
  <2>1. o + (l + 1) - 1 = o + l
    BY <1>1
  <2> QED
    BY <1>1, <2>1, SlotOfIsSlot
<1>3. \A k \in 1..l : SlotOf(o, k) # SlotOf(o, l + 1) /\ SlotOf(o, k) \in Slot
  BY <1>1, SlotOfIsSlot DEF SlotOf
<1>4. r \in [Slot -> Command]
  OBVIOUS
<1>5. \A k \in 1..l : r[SlotOf(o, k)] = q[SlotOf(o, k)]
  BY <1>3
<1>6. r[SlotOf(o, l + 1)] = c
  BY <1>2
<1> HIDE DEF r
<1>7. /\ Ring(o, l + 1, r) \in Seq(Command) /\ Len(Ring(o, l + 1, r)) = l + 1
      /\ \A k \in 1..(l + 1) : Ring(o, l + 1, r)[k] = r[SlotOf(o, k)]
  BY <1>1, <1>4, RingIsSequence
<1>8. /\ Ring(o, l, q) \in Seq(Command) /\ Len(Ring(o, l, q)) = l
      /\ \A k \in 1..l : Ring(o, l, q)[k] = q[SlotOf(o, k)]
  BY <1>1, RingIsSequence
<1>9. Ring(o, l + 1, r) = Append(Ring(o, l, q), c)
  BY <1>1, <1>5, <1>6, <1>7, <1>8
<1> QED
  BY <1>2, <1>9 DEF r

(* Moving the offset to the next slot drops the oldest command and no other.*)
LEMMA RingTail ==
  ASSUME NEW o \in Slot, NEW l \in 1..Cap, NEW q \in [Slot -> Command]
  PROVE  /\ Ring(o, l, q) # <<>>
         /\ q[o] = Head(Ring(o, l, q))
         /\ Ring(Successor(o), l - 1, q) = Tail(Ring(o, l, q))
<1>1. /\ l \in Nat /\ l >= 1 /\ l <= Cap /\ o \in Nat /\ o < Cap
      /\ Cap \in Nat /\ Cap > 0 /\ l \in 0..Cap /\ l - 1 \in 0..Cap
  BY CapAssumption DEF Slot
<1>2. /\ Successor(o) \in Slot
      /\ Successor(o) = IF o + 1 = Cap THEN 0 ELSE o + 1
  BY SuccessorIsNext
<1>3. SlotOf(o, 1) = o
  BY <1>1 DEF SlotOf
<1>4. \A k \in 1..(l - 1) : SlotOf(Successor(o), k) = SlotOf(o, k + 1)
  BY <1>1, <1>2 DEF SlotOf
<1>5. /\ Ring(o, l, q) \in Seq(Command) /\ Len(Ring(o, l, q)) = l
      /\ \A k \in 1..l : Ring(o, l, q)[k] = q[SlotOf(o, k)]
  BY <1>1, RingIsSequence
<1>6. LET t == Ring(Successor(o), l - 1, q)
      IN  /\ t \in Seq(Command) /\ Len(t) = l - 1
          /\ \A k \in 1..(l - 1) : t[k] = q[SlotOf(Successor(o), k)]
  BY <1>1, <1>2, RingIsSequence
<1>7. Ring(o, l, q) # <<>> /\ q[o] = Head(Ring(o, l, q))
  BY <1>1, <1>3, <1>5
<1>8. Ring(Successor(o), l - 1, q) = Tail(Ring(o, l, q))
  BY <1>1, <1>4, <1>5, <1>6, SMTT(30)
<1> QED
  BY <1>7, <1>8
-----------------------------------------------------------------------------
LEMMA ContentsIsRing == Contents = Ring(offset, length, queue)
  BY DEF Contents, Ring

LEMMA NextContentsIsRing == Contents' = Ring(offset', length', queue')
  BY DEF Contents, Ring

(* The two operations, seen from outside.                                   *)
LEMMA EnqueueFull ==
  ASSUME TypeOK, NEW c \in Command, Enqueue(c), Full
  PROVE  result' = 0 /\ Len(Contents) = Cap /\ Contents' = Contents
<1>1. Contents' = Contents /\ result' = 0
  BY ContentsIsRing, NextContentsIsRing DEF Enqueue
<1>2. Len(Contents) = Cap
  BY ContentsIsRing, RingIsSequence DEF TypeOK, Full
<1> QED
  BY <1>1, <1>2

LEMMA EnqueueAppends ==
  ASSUME TypeOK, NEW c \in Command, Enqueue(c), ~Full
  PROVE  /\ result' = 1 /\ Contents' = Append(Contents, c)
         /\ Contents \in Seq(Command) /\ Len(Contents) < Cap
<1>1. length \in 0..(Cap - 1) /\ length \in 0..Cap /\ length < Cap
  BY CapAssumption DEF TypeOK, Full
<1>2. /\ offset' = offset /\ length' = length + 1 /\ result' = 1
      /\ queue' = [queue EXCEPT ![(offset + length) % Cap] = c]
  BY DEF Enqueue
<1>3. Ring(offset, length + 1, [queue EXCEPT ![(offset + length) % Cap] = c])
        = Append(Ring(offset, length, queue), c)
  BY <1>1, RingAppend DEF TypeOK
<1>4. /\ Ring(offset, length, queue) \in Seq(Command)
      /\ Len(Ring(offset, length, queue)) = length
  BY <1>1, RingIsSequence DEF TypeOK
<1> QED
  BY <1>1, <1>2, <1>3, <1>4, ContentsIsRing, NextContentsIsRing

LEMMA DequeueEmpty ==
  ASSUME TypeOK, Dequeue, length = 0
  PROVE  result' = NOP /\ Contents = <<>> /\ Contents' = Contents
<1>1. Contents' = Contents /\ result' = NOP
  BY ContentsIsRing, NextContentsIsRing DEF Dequeue
<1>2. Contents \in Seq(Command) /\ Len(Contents) = 0
  BY ContentsIsRing, RingIsSequence DEF TypeOK
<1> QED
  BY <1>1, <1>2

LEMMA DequeueTakesHead ==
  ASSUME TypeOK, Dequeue, length # 0
  PROVE  /\ Contents \in Seq(Command) /\ Contents # <<>>
         /\ result' = Head(Contents) /\ result' \in Command
         /\ Contents' = Tail(Contents)
<1>1. length \in 1..Cap /\ length \in 0..Cap
  BY CapAssumption DEF TypeOK
<1>2. /\ offset' = Successor(offset) /\ length' = length - 1
      /\ queue' = queue /\ result' = queue[offset]
  BY <1>1 DEF Dequeue
<1>3. /\ Ring(offset, length, queue) # <<>>
      /\ queue[offset] = Head(Ring(offset, length, queue))
      /\ Ring(Successor(offset), length - 1, queue) = Tail(Ring(offset, length, queue))
  BY <1>1, RingTail DEF TypeOK
<1>4. Ring(offset, length, queue) \in Seq(Command) /\ queue[offset] \in Command
  BY <1>1, RingIsSequence DEF TypeOK
<1> QED
  BY <1>2, <1>3, <1>4, ContentsIsRing, NextContentsIsRing
-----------------------------------------------------------------------------
(* What a call returns is the truth about the queue: the caller of enqueue  *)
(* that gets 1 finds its command behind all the others, the one that gets 0 *)
(* finds the queue full and untouched, and dequeue hands out the oldest     *)
(* command, or CMD_NOP when there is none.                                  *)
THEOREM CallsAreTruthful == Spec => CallsTellTheTruth
<1> DEFINE Truth ==
      \/ result' = NOP /\ Contents = <<>> /\ Contents' = <<>>
      \/ result' \in Command /\ Contents # <<>> /\ result' = Head(Contents)
                             /\ Contents' = Tail(Contents)
      \/ result' = 1 /\ \E c \in Command : Contents' = Append(Contents, c)
      \/ result' = 0 /\ Len(Contents) = Cap /\ Contents' = Contents
<1>1. TypeOK /\ [Next]_vars => [Truth]_vars
  <2> SUFFICES ASSUME TypeOK, Next
               PROVE  Truth
    OBVIOUS
  <2>1. ASSUME NEW c \in Command, Enqueue(c)
        PROVE  Truth
    BY <2>1, EnqueueFull, EnqueueAppends
  <2>2. CASE Dequeue
    BY <2>2, DequeueEmpty, DequeueTakesHead
  <2> QED
    BY <2>1, <2>2 DEF Next
<1> QED
  BY <1>1, TypeCorrect, PTL DEF Spec, CallsTellTheTruth

(* The ring implements the bounded FIFO: the commands of                    *)
(* handle_state_changes and on_command reach pump_transfer in the order in  *)
(* which send_command was called.                                           *)
THEOREM ImplementsFifo == Spec => FifoSpec
<1>1. Init => Fifo!Init
  <2> SUFFICES ASSUME Init
               PROVE  Contents = <<>>
    BY DEF Fifo!Init
  <2>1. Contents = [k \in 1..0 |-> queue[(offset + k - 1) % Cap]]
    BY DEF Init, Contents
  <2> QED
    BY <2>1
<1>2. TypeOK /\ [Next]_vars => [Fifo!Next]_Contents
  <2> SUFFICES ASSUME TypeOK, [Next]_vars
               PROVE  Fifo!Next \/ Contents' = Contents
    OBVIOUS
  <2>1. ASSUME NEW c \in Command, Enqueue(c), ~Full
        PROVE  Fifo!Put
    <3>1. /\ Contents' = Append(Contents, c)
          /\ Contents \in Seq(Command) /\ Len(Contents) < Cap
      BY <2>1, EnqueueAppends
    <3>2. /\ Contents' \in Seq(Command) /\ Len(Contents') = Len(Contents) + 1
          /\ \A i \in 1..Len(Contents) : Contents'[i] = Contents[i]
      BY <3>1
    <3>3. Len(Contents') \in Len(Contents)..Cap
      BY <3>1, <3>2, CapAssumption
    <3> QED
      BY <3>2, <3>3 DEF Fifo!Put
  <2>2. ASSUME NEW c \in Command, Enqueue(c), Full
        PROVE  Contents' = Contents
    BY <2>2, EnqueueFull
  <2>3. CASE Dequeue /\ length = 0
    BY <2>3, DequeueEmpty
  <2>4. CASE Dequeue /\ length # 0
    <3>1. /\ Contents \in Seq(Command) /\ Contents # <<>>
          /\ Contents' = Tail(Contents)
      BY <2>4, DequeueTakesHead
    <3>2. 1 \in 0..Len(Contents) /\ Contents' = SubSeq(Contents, 1 + 1, Len(Contents))
      BY <3>1
    <3>3. Fifo!Take
      BY <3>2 DEF Fifo!Take
    <3> QED
      BY <3>3 DEF Fifo!Next
  <2>5. CASE UNCHANGED vars
    BY <2>5, ContentsIsRing, NextContentsIsRing DEF vars
  <2> QED
    BY <2>1, <2>2, <2>3, <2>4, <2>5 DEF Next, Fifo!Next
<1> QED
  BY <1>1, <1>2, TypeCorrect, PTL DEF Spec, FifoSpec, Fifo!Spec
=============================================================================
