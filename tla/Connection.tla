---------------------------- MODULE Connection ----------------------------
(***************************************************************************)
(* struct connection of "34-35. Port forwarding" and the code that moves   *)
(* its state: the connection manager (manager.c) and the conditions the    *)
(* controller derives from it (controller.c).  A connection is a record;   *)
(* its three state bytes are sets of flags, its buffers are sequences (see *)
(* RoundBuffer for when the ring really is one), and events is the set of  *)
(* poll flags of its descriptor, empty when poll ignores the descriptor.   *)
(***************************************************************************)
EXTENDS Integers, Sequences

Flag == {"NEW", "EOF", "CLOSED", "DELETE", "STOPPED"}

Event == {"IN", "OUT"}

NoId == -1     \* the id of a connection that was accepted a moment ago

(* make_connection and cm_add_connection: watched for input.                *)
MakeConnection(id, state) ==
  [id |-> id, state |-> state, in |-> {}, out |-> {},
   inBuf |-> <<>>, outBuf |-> <<>>, events |-> {"IN"}]
-----------------------------------------------------------------------------
(* manager.c                                                                *)

IsAlive(flags) == flags \cap {"EOF", "CLOSED", "DELETE"} = {}

IsStopped(flags) == "STOPPED" \in flags

ShouldClose(flags) == flags \cap {"EOF", "DELETE"} # {}

(* Mutant of ShouldCloseSocket: the end of one direction ends both.         *)
ShouldCloseSocketEither(c) ==
  ShouldClose(c.state) \/ ~IsAlive(c.in) \/ ~IsAlive(c.out)

ShouldCloseSocket(c) ==
  ShouldClose(c.state) \/ (~IsAlive(c.in) /\ ~IsAlive(c.out))

ShouldDelete(c) == {"DELETE", "CLOSED"} \subseteq c.state

(* Shut one direction down if it is to be closed.                           *)
CloseDirection(flags) ==
  IF ShouldClose(flags) THEN flags \cup {"CLOSED"} ELSE flags

(* One round of close_sockets for one connection.                           *)
CloseSockets(c) ==
  IF "CLOSED" \in c.state THEN c
  ELSE IF ShouldCloseSocket(c)
       THEN [c EXCEPT !.state = @ \cup {"CLOSED"}, !.in = @ \cup {"CLOSED"},
                      !.out = @ \cup {"CLOSED"}, !.events = {}]
       ELSE [c EXCEPT !.in = CloseDirection(@), !.out = CloseDirection(@)]

(* cm_poll before it blocks: ask for POLLOUT where there is data to send.   *)
WatchOutput(c) == IF c.outBuf # <<>> /\ IsAlive(c.out)
                  THEN [c EXCEPT !.events = @ \cup {"OUT"}] ELSE c

(* receive: bytes came in, or the peer closed or failed (eof); POLLIN is    *)
(* asked for again unless the buffer is full or the direction is over.      *)
Receive(c, bytes, eof, capacity) ==
  IF ~IsAlive(c.in) \/ IsStopped(c.state) THEN c
  ELSE LET buf   == c.inBuf \o bytes
           flags == IF eof THEN c.in \cup {"EOF"} ELSE c.in
       IN  [c EXCEPT !.inBuf = buf, !.in = flags,
                     !.events = IF Len(buf) = capacity \/ ~IsAlive(flags)
                                THEN @ \ {"IN"} ELSE @ \cup {"IN"}]

(* Mutant of Transmit: a failed write counts as done.                       *)
TransmitDropping(c, n, failed) ==
  IF ~IsAlive(c.out) \/ IsStopped(c.state) THEN c
  ELSE LET buf == IF failed THEN <<>> ELSE SubSeq(c.outBuf, n + 1, Len(c.outBuf))
       IN  [c EXCEPT !.outBuf = buf,
                     !.out = IF failed THEN @ \cup {"EOF"} ELSE @,
                     !.events = IF buf = <<>> THEN @ \ {"OUT"} ELSE @ \cup {"OUT"}]

(* transmit: n bytes went out, or the write failed; what was not written    *)
(* stays in the buffer.                                                     *)
Transmit(c, n, failed) ==
  IF ~IsAlive(c.out) \/ IsStopped(c.state) THEN c
  ELSE LET buf   == SubSeq(c.outBuf, n + 1, Len(c.outBuf))
           flags == IF failed THEN c.out \cup {"EOF"} ELSE c.out
       IN  [c EXCEPT !.outBuf = buf, !.out = flags,
                     !.events = IF buf = <<>> \/ ~IsAlive(flags)
                                THEN @ \ {"OUT"} ELSE @ \cup {"OUT"}]

(* receive and transmit reach the socket only under these conditions.       *)
CanReceive(c, capacity) ==
  /\ "IN" \in c.events
  /\ IsAlive(c.state) /\ IsAlive(c.in) /\ ~IsStopped(c.state)
  /\ Len(c.inBuf) < capacity

CanTransmit(c) ==
  /\ "OUT" \in c.events
  /\ IsAlive(c.state) /\ IsAlive(c.out) /\ ~IsStopped(c.state)
  /\ c.outBuf # <<>>
-----------------------------------------------------------------------------
(* controller.c                                                             *)

IsNewConnection(c) == "NEW" \in c.state

ShouldCloseConnection(c) ==
  c.inBuf = <<>> /\ c.outBuf = <<>> /\ "CLOSED" \in c.state

(* Mutant of ShouldCloseIn: what was reported is not remembered.            *)
ShouldCloseInAgain(c) == c.inBuf = <<>> /\ "CLOSED" \in c.in

ShouldCloseIn(c) ==
  "DELETE" \notin c.in /\ c.inBuf = <<>> /\ "CLOSED" \in c.in

ShouldCloseOut(c) ==
  "DELETE" \notin c.out /\ c.outBuf = <<>> /\ "CLOSED" \in c.out

(* What handle_state_changes tells the other node about a connection next.  *)
NextReport(c) ==
  CASE IsNewConnection(c) -> "NEW"
    [] ~IsNewConnection(c) /\ ShouldCloseConnection(c) -> "CLOSE"
    [] ~IsNewConnection(c) /\ ~ShouldCloseConnection(c) /\ ShouldCloseIn(c)
         -> "CLOSE_SRC_TO_DST"
    [] ~IsNewConnection(c) /\ ~ShouldCloseConnection(c) /\ ~ShouldCloseIn(c)
       /\ ShouldCloseOut(c) -> "CLOSE_DST_TO_SRC"
    [] OTHER -> "none"

AfterReport(c, cmd) ==
  CASE cmd = "NEW"              -> [c EXCEPT !.state = (@ \ {"NEW"}) \cup {"STOPPED"}]
    [] cmd = "CLOSE"            -> [c EXCEPT !.state = @ \cup {"DELETE"}]
    [] cmd = "CLOSE_SRC_TO_DST" -> [c EXCEPT !.in = @ \cup {"DELETE"}]
    [] cmd = "CLOSE_DST_TO_SRC" -> [c EXCEPT !.out = @ \cup {"DELETE"}]
=============================================================================
