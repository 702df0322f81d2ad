---------------------------- MODULE CommandQueue ----------------------------
(***************************************************************************)
(* struct cmd_queue of "34-35. Port forwarding/command_queue.c": a ring of *)
(* commands, full at Cap entries, whose dequeue yields CMD_NOP when empty. *)
(***************************************************************************)
EXTENDS Naturals, Sequences

CONSTANTS Cap,        \* QUEUE_SIZE, 512
          Command,    \* the commands told apart
          NOP         \* CMD_NOP, the command that is never queued

(* make_cmd_queue refuses a capacity of 0.                                  *)
ASSUME CapAssumption == Cap \in Nat \ {0}

ASSUME NOPAssumption == NOP \notin Command

VARIABLES offset, length, queue,
          result      \* what the last call returned

vars == <<offset, length, queue, result>>

Slot == 0..(Cap - 1)

(* The array comes from malloc: its commands are arbitrary.                 *)
Init == /\ offset = 0
        /\ length = 0
        /\ queue \in [Slot -> Command]
        /\ result = 1

(* Mutant of Full: the last slot may be used twice.                         *)
FullOffByOne == length > Cap

Full == length = Cap

(* cmdq_enqueue: 0 when full, and then the command is the caller's problem. *)
Enqueue(c) ==
  IF Full
  THEN /\ result' = 0
       /\ UNCHANGED <<offset, length, queue>>
  ELSE /\ queue' = [queue EXCEPT ![(offset + length) % Cap] = c]
       /\ length' = length + 1
       /\ result' = 1
       /\ UNCHANGED offset

(* Mutant of Successor: the offset is brought back one slot too late.       *)
SuccessorLate(i) == IF i + 1 > Cap THEN 0 ELSE i + 1

Successor(i) == IF i + 1 >= Cap THEN (i + 1) % Cap ELSE i + 1

Dequeue ==
  IF length = 0
  THEN /\ result' = NOP
       /\ UNCHANGED <<offset, length, queue>>
  ELSE /\ result' = queue[offset]
       /\ offset' = Successor(offset)
       /\ length' = length - 1
       /\ UNCHANGED queue

Next == (\E c \in Command : Enqueue(c)) \/ Dequeue

Spec == Init /\ [][Next]_vars
-----------------------------------------------------------------------------
(* The commands waiting, oldest first.                                      *)
Contents == [k \in 1..length |-> queue[(offset + k - 1) % Cap]]

(* The cursor and the number of commands stay inside the array.             *)
TypeOK == /\ offset \in Slot
          /\ length \in 0..Cap
          /\ queue \in [Slot -> Command]
          /\ result \in {0, 1} \cup Command \cup {NOP}

Fifo == INSTANCE BoundedFifo WITH Item <- Command, q <- Contents

(* send_command's queue is a bounded FIFO: commands leave in the order they *)
(* entered, whatever wrap-around their slots go through.                    *)
FifoSpec == Fifo!Spec

(* A call tells the truth: dequeue hands out the oldest waiting command and *)
(* removes just that one, and NOP only when none waits; enqueue reports     *)
(* failure exactly when the queue stays as it is.                           *)
CallsTellTheTruth ==
  [][\/ result' = NOP /\ Contents = <<>> /\ Contents' = <<>>
     \/ result' \in Command /\ Contents # <<>> /\ result' = Head(Contents)
                            /\ Contents' = Tail(Contents)
     \/ result' = 1 /\ \E c \in Command : Contents' = Append(Contents, c)
     \/ result' = 0 /\ Len(Contents) = Cap /\ Contents' = Contents]_vars
=============================================================================
