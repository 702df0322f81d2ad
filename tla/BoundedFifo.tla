---------------------------- MODULE BoundedFifo ----------------------------
(***************************************************************************)
(* What every queue of the port forwarder promises, whatever it is made    *)
(* of: items leave in the order they came, none is invented, changed,      *)
(* duplicated or dropped, and no more than Cap of them are ever held.      *)
(* The round buffer (round_buffer.c) and the command queue                 *)
(* (command_queue.c) are compared with this specification.                 *)
(***************************************************************************)
EXTENDS Naturals, Sequences

CONSTANTS Item, Cap

VARIABLE q

Init == q = <<>>

(* One step may add several items at the end (readv, a whole command)...    *)
Put == /\ q' \in Seq(Item)
       /\ Len(q') \in Len(q)..Cap
       /\ \A i \in 1..Len(q) : q'[i] = q[i]

(* ...or take several from the front (writev, a decoded frame).             *)
Take == \E k \in 0..Len(q) : q' = SubSeq(q, k + 1, Len(q))

Next == Put \/ Take

Spec == Init /\ [][Next]_q
=============================================================================
