----------------------------- MODULE Forwarder -----------------------------
(***************************************************************************)
(* The two processes of "34-35. Port forwarding" and the tunnel between    *)
(* them.  Each node repeats update() of controller.c, here in phases:      *)
(*   enter  the first half of cm_poll, up to poll();                       *)
(*   poll   blocked in poll(); when it returns: accept, receive, transmit; *)
(*   sort   sort_connections: identifiers are given, the array is indexed; *)
(*   state  handle_state_changes: commands about new and closed ones;      *)
(*   recv   recv_from_tunnel: at most one frame, decoded or obeyed;        *)
(*   cmds   the command queue is emptied into the tunnel buffer;           *)
(*   data   the round that encodes the connections' bytes;                 *)
(* and it ends in stopped (destroy_controller) or in one of the crashes.   *)
(* The nodes share only the wire, which they touch only in poll, so one    *)
(* node's update is never interleaved with the other's.                    *)
(*                                                                         *)
(* A session is one accepted connection; the same number names the         *)
(* connection the server opens for it.  The number is the model's: the     *)
(* code knows a connection by its identifier only.                         *)
(***************************************************************************)
EXTENDS Connection, FiniteSets, FiniteSetsExt

CONSTANTS MaxId,      \* identifiers 1..MaxId; 255 in the code
          Sessions,   \* how many connections are ever accepted
          Uploads,    \* bytes each application sends at the client's side
          Downloads,  \* bytes each application sends at the server's side
          BufSize,    \* capacity of a connection's buffers
          TunnelSize, \* capacity of the tunnel's buffers
          WireSize,   \* bytes the kernel holds between the nodes, one way
          QueueSize,  \* capacity of the command queue; 512 in the code
          Chunks,     \* most bytes the kernel moves through the tunnel at once
          Faults      \* events of the environment that may happen

ASSUME ForwarderAssumption ==
  /\ {MaxId, Sessions, BufSize, TunnelSize, WireSize, QueueSize} \subseteq Nat \ {0}
  /\ {Uploads, Downloads} \subseteq Nat
  /\ Chunks # {} /\ Chunks \subseteq Nat \ {0}
  /\ Faults \subseteq {"write", "connect", "signal"}

Node == {"client", "server"}

Other(n) == IF n = "client" THEN "server" ELSE "client"

Session == 1..Sessions

Units(n) == IF n = "client" THEN Uploads ELSE Downloads

Id == 1..MaxId

NoConn == [id |-> 0]

NoSession == 0

VARIABLES phase,      \* where the node is in update()
          conns,      \* the manager's connections, by session
          tun,        \* the manager's connection 0, the tunnel
          wire,       \* bytes the node has sent and the other not yet read
          freeIds,    \* the client's stack of free identifiers
          queue,      \* the pump's commands waiting for the tunnel
          sendingTo,  \* the pump's unfinished data frame, 0 for none
          current,    \* the pump's current_index
          sorted,     \* update's local array: identifier to session
          visited,    \* pump_transfer's loop counter
          signalled,  \* SIGINT or SIGQUIT is in the manager's pipe
          accepted,   \* how many connections were accepted so far
          sent,       \* history: bytes each application has sent
          got,        \* history: bytes each application has received
          closedBy,   \* history: the nodes that issued CLOSE for a session
          lost        \* history: a command was lost in the pump

history == <<sent, got, closedBy, lost>>
pump    == <<queue, sendingTo, current>>
kernel  == <<wire, signalled, accepted>>
local   == <<sorted, visited>>

vars == <<phase, conns, tun, kernel, freeIds, pump, local, history>>
-----------------------------------------------------------------------------
(* Frames.  A byte of application data is <<"data", node, session, index>>, *)
(* its origin; END also opens the next frame.                               *)

END == <<"end">>

IdByte(i) == <<"id", i>>

(* Mutant of DataFrame: the END before it is taken for its opening one.     *)
DataFrameUnopened(i, bytes) == <<IdByte(i)>> \o bytes \o <<END>>

DataFrame(i, bytes) == <<END, IdByte(i)>> \o bytes \o <<END>>

Command(cmd, c, s) == [cmd |-> cmd, id |-> c.id, session |-> s]

CommandFrame(c) ==
  <<END, IdByte(0), <<"cmd", c.cmd, c.session>>, <<"arg", c.id>>, END>>

CommandSize == 5

DataByte(n, s, i) == <<"data", n, s, i>>

TunnelRoom(n) == TunnelSize - Len(tun[n].outBuf)

Live(n) == {s \in Session : conns[n][s] # NoConn}

Queued(n, command) == queue' = [queue EXCEPT ![n] = Append(@, command)]

HasRoom(n) == Len(queue[n]) < QueueSize

Goto(n, p) == phase' = [phase EXCEPT ![n] = p]

(* A node that has ended: its sockets are closed, its memory is gone.       *)
Ended == {"stopped", "closed connection", "starting byte", "null pointer"}

IsRunning(n) == phase[n] \notin Ended
-----------------------------------------------------------------------------
Init ==
  /\ phase = [n \in Node |-> "enter"]
  /\ conns = [n \in Node |-> [s \in Session |-> NoConn]]
  /\ tun = [n \in Node |-> MakeConnection(0, {})]
  /\ wire = [n \in Node |-> <<>>]
  /\ freeIds = [i \in Id |-> MaxId + 1 - i]
  /\ queue = [n \in Node |-> <<>>]
  /\ sendingTo = [n \in Node |-> 0]
  /\ current = [n \in Node |-> 0]
  /\ sorted = [n \in Node |-> [i \in Id |-> NoSession]]
  /\ visited = [n \in Node |-> 0]
  /\ signalled = [n \in Node |-> FALSE]
  /\ accepted = 0
  /\ sent = [n \in Node |-> [s \in Session |-> 0]]
  /\ got = [n \in Node |-> [s \in Session |-> <<>>]]
  /\ closedBy = [s \in Session |-> {}]
  /\ lost = FALSE

(* The process ends: its own variables are forgotten, and of the bytes it   *)
(* has sent the kernel delivers all, or drops all by a reset.               *)
End(n, why) ==
  /\ Goto(n, why)
  /\ conns' = [conns EXCEPT ![n] = [s \in Session |-> NoConn]]
  /\ tun' = [tun EXCEPT ![n] = MakeConnection(0, {"CLOSED"})]
  /\ \E bytes \in {wire[n], <<>>} : wire' = [wire EXCEPT ![n] = bytes]
  /\ queue' = [queue EXCEPT ![n] = <<>>]
  /\ sendingTo' = [sendingTo EXCEPT ![n] = 0]
  /\ sorted' = [sorted EXCEPT ![n] = [i \in Id |-> NoSession]]
  /\ visited' = [visited EXCEPT ![n] = 0]
  /\ UNCHANGED <<current, freeIds, signalled, accepted, history>>

(* update() returns and is called again: its local array is gone.           *)
UpdateReturns(n) ==
  /\ Goto(n, "enter")
  /\ sorted' = [sorted EXCEPT ![n] = [i \in Id |-> NoSession]]
  /\ visited' = [visited EXCEPT ![n] = 0]
-----------------------------------------------------------------------------
(* cm_poll                                                                  *)

(* close_sockets and shrink, for one connection.                            *)
Settle(c) == LET d == CloseSockets(c)
             IN  IF c = NoConn \/ ShouldDelete(d) THEN NoConn ELSE d

BeforePoll(c) == LET d == Settle(c)
                 IN  IF d = NoConn THEN NoConn ELSE WatchOutput(d)

EnterPoll(n) ==
  /\ phase[n] = "enter"
  /\ Goto(n, "poll")
  /\ conns' = [conns EXCEPT ![n] = [s \in Session |-> BeforePoll(@[s])]]
  /\ tun' = [tun EXCEPT ![n] = BeforePoll(@)]
  /\ UNCHANGED <<kernel, freeIds, pump, local, history>>

Least(a, b) == IF a < b THEN a ELSE b

EndOfFile == -1

(* What one readv and one writev may do to a connection during this poll:   *)
(* nothing (the descriptor is not ready), some bytes, or end of file.       *)
ReadResults(n, s) ==
  LET c == conns[n][s]
  IN  IF CanReceive(c, BufSize)
      THEN EndOfFile..Least(BufSize - Len(c.inBuf), Units(n) - sent[n][s])
      ELSE {0}

WriteResults(n, s) ==
  LET c == conns[n][s]
  IN  IF CanTransmit(c)
      THEN (IF "write" \in Faults THEN EndOfFile ELSE 0)..Len(c.outBuf)
      ELSE {0}

TunnelReads(n) ==
  LET room == Least(TunnelSize - Len(tun[n].inBuf), Len(wire[Other(n)]))
  IN  IF ~CanReceive(tun[n], TunnelSize) THEN {0}
      ELSE {0} \cup {Least(k, room) : k \in Chunks}
           \cup (IF ~IsRunning(Other(n)) /\ wire[Other(n)] = <<>>
                 THEN {EndOfFile} ELSE {})

TunnelWrites(n) ==
  LET room == Least(Len(tun[n].outBuf), WireSize - Len(wire[n]))
  IN  IF ~CanTransmit(tun[n]) THEN {0}
      ELSE IF IsRunning(Other(n)) THEN {0} \cup {Least(k, room) : k \in Chunks}
      ELSE {0, EndOfFile}

(* poll returns for this descriptor although nothing will be done about it: *)
(* a stopped connection whose application has sent or closed, or one that   *)
(* is closed for writing with POLLOUT still asked for.                      *)
IsBusy(n, s) ==
  LET c == conns[n][s]
  IN  \/ "IN" \in c.events /\ IsStopped(c.state)
      \/ "OUT" \in c.events /\ ~IsAlive(c.out)

Moved(k) == IF k = EndOfFile THEN 0 ELSE k

(* receive and transmit for one connection that was there before poll.      *)
Serve(c, bytes, r, w, capacity) ==
  IF ~IsAlive(c.state) THEN c
  ELSE Transmit(Receive(c, bytes, r = EndOfFile, capacity),
                Moved(w), w = EndOfFile)

Arriving(n, s, k) == [i \in 1..Moved(k) |-> DataByte(n, s, sent[n][s] + i)]

(* poll returns with at least one event: accept_connection, then the loop   *)
(* over the connections that were there, then close_sockets and shrink.     *)
PollReturns(n) ==
  /\ phase[n] = "poll"
  /\ ~signalled[n]
  /\ phase[Other(n)] \in Ended \cup {"poll"}
  /\ \E read \in [Live(n) -> EndOfFile..BufSize],
        write \in [Live(n) -> EndOfFile..BufSize],
        r \in TunnelReads(n), w \in TunnelWrites(n),
        new \in {0} \cup (IF n = "client" /\ accepted < Sessions THEN {1} ELSE {}) :
       /\ \A s \in Live(n) : read[s] \in ReadResults(n, s)
                             /\ write[s] \in WriteResults(n, s)
       /\ \/ new = 1 \/ r # 0 \/ w # 0
          \/ \E s \in Live(n) : read[s] # 0 \/ write[s] # 0 \/ IsBusy(n, s)
       /\ accepted' = accepted + new
       /\ conns' = [conns EXCEPT ![n] =
            [s \in Session |->
               IF s \in Live(n)
               THEN Settle(Serve(@[s], Arriving(n, s, read[s]),
                                 read[s], write[s], BufSize))
               ELSE IF new = 1 /\ s = accepted'
               THEN MakeConnection(NoId, {"NEW"})
               ELSE @[s]]]
       /\ tun' = [tun EXCEPT ![n] =
            Settle(Serve(@, SubSeq(wire[Other(n)], 1, Moved(r)),
                         r, w, TunnelSize))]
       /\ wire' = [wire EXCEPT
            ![n] = @ \o SubSeq(tun[n].outBuf, 1, Moved(w)),
            ![Other(n)] = SubSeq(@, Moved(r) + 1, Len(@))]
       /\ sent' = [sent EXCEPT ![n] =
            [s \in Session |-> IF s \in Live(n) THEN @[s] + Moved(read[s])
                                                ELSE @[s]]]
       /\ got' = [got EXCEPT ![n] =
            [s \in Session |-> IF s \in Live(n)
                               THEN @[s] \o SubSeq(conns[n][s].outBuf, 1, Moved(write[s]))
                               ELSE @[s]]]
  /\ Goto(n, "sort")
  /\ UNCHANGED <<signalled, freeIds, pump, local, closedBy, lost>>

(* termination_signal_handler writes to the pipe (SIGINT, SIGQUIT).         *)
Signal(n) ==
  /\ "signal" \in Faults
  /\ IsRunning(n) /\ ~signalled[n]
  /\ signalled' = [signalled EXCEPT ![n] = TRUE]
  /\ UNCHANGED <<phase, conns, tun, wire, accepted, freeIds, pump, local, history>>

(* poll returns with the pipe readable: nothing else is looked at.          *)
PollReturnsUser(n) ==
  /\ phase[n] = "poll"
  /\ signalled[n]
  /\ End(n, "stopped")
-----------------------------------------------------------------------------
(* sort_connections                                                         *)

Nameless(n) == {s \in Live(n) : conns[n][s].id = NoId}

(* The connections without identifier pop one each, in array order, while   *)
(* there are any left.                                                      *)
Rank(n, s) == Cardinality({t \in Nameless(n) : t <= s})

Named(n, s) == s \in Nameless(n) /\ Rank(n, s) <= Len(freeIds)

(* Mutant of WithId: the identifier is taken from the wrong end.            *)
WithIdFromBottom(n, s) ==
  IF Named(n, s)
  THEN [conns[n][s] EXCEPT !.id = freeIds[Rank(n, s)]]
  ELSE conns[n][s]

WithId(n, s) ==
  IF Named(n, s)
  THEN [conns[n][s] EXCEPT !.id = freeIds[Len(freeIds) + 1 - Rank(n, s)]]
  ELSE conns[n][s]

Carriers(n, i) == {s \in Live(n) : WithId(n, s).id = i}

SortConnections(n) ==
  /\ phase[n] = "sort"
  /\ Goto(n, "state")
  /\ conns' = [conns EXCEPT ![n] = [s \in Session |-> WithId(n, s)]]
  /\ freeIds' = SubSeq(freeIds, 1, Len(freeIds)
                                   - Cardinality({s \in Session : Named(n, s)}))
  /\ sorted' = [sorted EXCEPT ![n] =
       [i \in Id |-> IF Carriers(n, i) = {} THEN NoSession ELSE Max(Carriers(n, i))]]
  /\ UNCHANGED <<tun, kernel, pump, visited, history>>
-----------------------------------------------------------------------------
(* handle_state_changes.  An identifier with nothing to report is passed    *)
(* over; a report changes the connection so that it is not made twice.      *)

Indexed(n, i) == conns[n][sorted[n][i]]

Reports(n) == {i \in Id : sorted[n][i] # NoSession /\ NextReport(Indexed(n, i)) # "none"}

(* Mutant of TunnelAlive: the end of one direction is not noticed.          *)
TunnelAliveStateOnly(n) == "CLOSED" \notin tun[n].state

TunnelAlive(n) == "CLOSED" \notin tun[n].state \cup tun[n].in \cup tun[n].out

StateShutdown(n) ==
  /\ phase[n] = "state"
  /\ ~TunnelAlive(n)
  /\ End(n, "stopped")

(* Mutant of Pushed: the stack grows beyond its array.                      *)
PushedAlways(stack, i) == Append(stack, i)

(* The stack ignores a push when it is full.                                *)
Pushed(stack, i) == IF Len(stack) = MaxId THEN stack ELSE Append(stack, i)

Freed(n, i) ==
  freeIds' = IF n = "client" THEN Pushed(freeIds, i) ELSE freeIds

(* The next report, while there is room for its command.  A connection that *)
(* is reported closed leaves the local array but stays in the manager's.    *)
Report(n) ==
  /\ phase[n] = "state" /\ TunnelAlive(n)
  /\ Reports(n) # {} /\ HasRoom(n)
  /\ LET i   == Min(Reports(n))
         s   == sorted[n][i]
         cmd == NextReport(conns[n][s])
     IN  /\ Queued(n, Command(cmd, conns[n][s], s))
         /\ conns' = [conns EXCEPT ![n][s] = AfterReport(@, cmd)]
         /\ IF cmd = "CLOSE"
            THEN /\ Freed(n, i)
                 /\ sorted' = [sorted EXCEPT ![n][i] = NoSession]
                 /\ closedBy' = [closedBy EXCEPT ![s] = @ \cup {n}]
            ELSE UNCHANGED <<freeIds, sorted, closedBy>>
  /\ UNCHANGED <<phase, tun, kernel, sendingTo, current, visited, sent, got, lost>>

(* The queue is full: STATE_AGAIN, and update() returns at once.            *)
StateAgain(n) ==
  /\ phase[n] = "state" /\ TunnelAlive(n)
  /\ Reports(n) # {} /\ ~HasRoom(n)
  /\ UpdateReturns(n)
  /\ UNCHANGED <<conns, tun, kernel, freeIds, pump, history>>

StateOk(n) ==
  /\ phase[n] = "state" /\ TunnelAlive(n)
  /\ Reports(n) = {}
  /\ Goto(n, "recv")
  /\ UNCHANGED <<conns, tun, kernel, freeIds, pump, local, history>>
-----------------------------------------------------------------------------
(* on_command                                                               *)

Holders(n, i) == {s \in Live(n) : conns[n][s].id = i}

IsKnown(n, i) == Holders(n, i) # {}

(* Mutant of Target: the command acts on whatever connection comes first.   *)
TargetFirst(n, i) == Min(Live(n))

Target(n, i) == Min(Holders(n, i))

(* send_command, whose failure is only reported.                            *)
Answered(n, command) == IF HasRoom(n) THEN Queued(n, command) ELSE UNCHANGED queue

(* The service accepts the connection, or refuses it.                       *)
ConnectToService(n, i, s) ==
  \/ /\ conns' = [conns EXCEPT ![n][s] = MakeConnection(i, {})]
     /\ Answered(n, [cmd |-> "ACK", id |-> i, session |-> s])
     /\ UNCHANGED closedBy
  \/ /\ "connect" \in Faults
     /\ Answered(n, [cmd |-> "CLOSE", id |-> i, session |-> s])
     /\ closedBy' = [closedBy EXCEPT ![s] = @ \cup {n}]
     /\ UNCHANGED conns

(* Mutant of OnNew: NEW is obeyed for an identifier already in use.         *)
OnNewUnchecked(n, i, s) == ConnectToService(n, i, s) /\ UNCHANGED freeIds

OnNew(n, i, s) ==
  /\ IF IsKnown(n, i)
     THEN UNCHANGED <<conns, queue, closedBy>>
     ELSE ConnectToService(n, i, s)
  /\ UNCHANGED freeIds

(* The other commands change the first connection with the identifier.      *)
Obey(c, cmd) ==
  CASE cmd = "CLOSE"            -> [c EXCEPT !.state = @ \cup {"DELETE"}]
    [] cmd = "CLOSE_SRC_TO_DST" -> [c EXCEPT !.out = @ \cup {"DELETE"}]
    [] cmd = "CLOSE_DST_TO_SRC" -> [c EXCEPT !.in = @ \cup {"DELETE"}]
    [] cmd = "ACK"              -> [c EXCEPT !.state = @ \ {"STOPPED"}]

OnOther(n, cmd, i) ==
  /\ IF ~IsKnown(n, i)
     THEN UNCHANGED <<conns, freeIds>>
     ELSE /\ conns' = [conns EXCEPT ![n][Target(n, i)] = Obey(@, cmd)]
          /\ IF cmd = "CLOSE" THEN Freed(n, i) ELSE UNCHANGED freeIds
  /\ UNCHANGED <<queue, closedBy>>

OnCommand(n, cmd, i, s) ==
  IF cmd = "NEW" THEN OnNew(n, i, s) ELSE OnOther(n, cmd, i)
-----------------------------------------------------------------------------
(* recv_from_tunnel                                                         *)

TunnelIn(n) == tun[n].inBuf

(* The first END of a buffer, or the place behind the buffer.               *)
EndAt(buf) == Min({i \in DOMAIN buf : buf[i] = END} \cup {Len(buf) + 1})

(* Mutant of Decodable: the frame's END is taken for data.                  *)
DecodablePastEnd(buf, free) == Least(EndAt(buf), free)

(* decode: bytes go to connection s until its buffer is full, the frame's   *)
(* END is reached, or the tunnel has no more.  An END behind the byte that  *)
(* fills the buffer is left for the next call.                              *)
Decodable(buf, free) == Least(EndAt(buf) - 1, free)

EndReached(buf, free) == EndAt(buf) <= Len(buf) /\ EndAt(buf) - 1 < free

Decoded(n, s, buf) ==
  LET free == BufSize - Len(conns[n][s].outBuf)
      m    == Decodable(buf, free)
      used == IF EndReached(buf, free) THEN m + 1 ELSE m
  IN  /\ conns' = [conns EXCEPT ![n][s].outBuf = @ \o SubSeq(buf, 1, m)]
      /\ tun' = [tun EXCEPT ![n].inBuf = SubSeq(buf, used + 1, Len(buf))]

Receiving(n) == phase[n] = "recv" /\ TunnelIn(n) # <<>>

(* A frame was begun by an earlier call: go on, and look at the next frame  *)
(* in the same call only if this one came to its end.                       *)
ContinueFrame(n) ==
  /\ Receiving(n) /\ sendingTo[n] # 0
  /\ sorted[n][sendingTo[n]] # NoSession
  /\ LET s    == sorted[n][sendingTo[n]]
         free == BufSize - Len(conns[n][s].outBuf)
     IN  /\ Decoded(n, s, TunnelIn(n))
         /\ IF EndReached(TunnelIn(n), free)
            THEN /\ sendingTo' = [sendingTo EXCEPT ![n] = 0]
                 /\ UNCHANGED phase
            ELSE /\ Goto(n, "cmds")
                 /\ UNCHANGED sendingTo
  /\ UNCHANGED <<kernel, freeIds, queue, current, local, history>>

(* END, an identifier and at least one more byte and END: a decision can be *)
(* taken.                                                                   *)
FrameAvailable(n) == Receiving(n) /\ sendingTo[n] = 0 /\ Len(TunnelIn(n)) > 3

WellStarted(n) == TunnelIn(n)[1] = END

FrameId(n) == TunnelIn(n)[2][2]

(* Why recv_from_tunnel ends the process, if it does: connections[sending_to]*)
(* is NULL, or one of its two exit(2) "protocol violation".                 *)
Failure(n) ==
  CASE Receiving(n) /\ sendingTo[n] # 0 /\ sorted[n][sendingTo[n]] = NoSession
         -> "null pointer"
    [] FrameAvailable(n) /\ ~WellStarted(n)
         -> "starting byte"
    [] FrameAvailable(n) /\ WellStarted(n) /\ FrameId(n) # 0
       /\ sorted[n][FrameId(n)] = NoSession
         -> "closed connection"
    [] OTHER -> "none"

ReceiveFails(n) ==
  /\ Failure(n) # "none"
  /\ End(n, Failure(n))

ReceiveCommand(n) ==
  /\ FrameAvailable(n) /\ WellStarted(n) /\ FrameId(n) = 0
  /\ Len(TunnelIn(n)) >= CommandSize
  /\ OnCommand(n, TunnelIn(n)[3][2], TunnelIn(n)[4][2], TunnelIn(n)[3][3])
  /\ tun' = [tun EXCEPT ![n].inBuf = SubSeq(@, CommandSize + 1, Len(@))]
  /\ Goto(n, "cmds")
  /\ UNCHANGED <<kernel, sendingTo, current, local, sent, got, lost>>

ReceiveData(n) ==
  /\ FrameAvailable(n) /\ WellStarted(n) /\ FrameId(n) # 0
  /\ sorted[n][FrameId(n)] # NoSession
  /\ LET s    == sorted[n][FrameId(n)]
         body == SubSeq(TunnelIn(n), 3, Len(TunnelIn(n)))
     IN  /\ Decoded(n, s, body)
         /\ IF EndReached(body, BufSize - Len(conns[n][s].outBuf))
            THEN UNCHANGED sendingTo
            ELSE sendingTo' = [sendingTo EXCEPT ![n] = FrameId(n)]
  /\ Goto(n, "cmds")
  /\ UNCHANGED <<kernel, freeIds, queue, current, local, history>>

(* Mutant of ReceiveNothing: a frame that came in part is waited for here.  *)
ReceiveNothingWaiting(n) ==
  /\ phase[n] = "recv"
  /\ TunnelIn(n) = <<>>
  /\ Goto(n, "cmds")
  /\ UNCHANGED <<conns, tun, kernel, freeIds, pump, local, history>>

ReceiveNothing(n) ==
  /\ phase[n] = "recv"
  /\ \/ TunnelIn(n) = <<>>
     \/ sendingTo[n] = 0 /\ Len(TunnelIn(n)) <= 3
     \/ FrameAvailable(n) /\ WellStarted(n) /\ FrameId(n) = 0 /\ Len(TunnelIn(n)) < CommandSize
  /\ Goto(n, "cmds")
  /\ UNCHANGED <<conns, tun, kernel, freeIds, pump, local, history>>
-----------------------------------------------------------------------------
(* pump_transfer                                                            *)

Put(n, bytes) == tun' = [tun EXCEPT ![n].outBuf = @ \o bytes]

SendCommand(n) ==
  /\ phase[n] = "cmds" /\ queue[n] # <<>>
  /\ TunnelRoom(n) >= CommandSize
  /\ Put(n, CommandFrame(Head(queue[n])))
  /\ queue' = [queue EXCEPT ![n] = Tail(@)]
  /\ UNCHANGED <<phase, conns, kernel, freeIds, sendingTo, current, local, history>>

(* The tunnel buffer is full, but the command is already out of the queue.  *)
LoseCommand(n) ==
  /\ phase[n] = "cmds" /\ queue[n] # <<>>
  /\ TunnelRoom(n) < CommandSize
  /\ queue' = [queue EXCEPT ![n] = Tail(@)]
  /\ lost' = TRUE
  /\ UpdateReturns(n)
  /\ UNCHANGED <<conns, tun, kernel, freeIds, sendingTo, current, sent, got, closedBy>>

CommandsSent(n) ==
  /\ phase[n] = "cmds" /\ queue[n] = <<>>
  /\ Goto(n, "data")
  /\ UNCHANGED <<conns, tun, kernel, freeIds, pump, local, history>>

(* The identifier visited in turn i of the round, and the turns that find   *)
(* something to encode.                                                     *)
Turn(n, i) == ((current[n] + i) % MaxId) + 1

HasData(n, i) ==
  /\ sorted[n][Turn(n, i)] # NoSession
  /\ LET c == Indexed(n, Turn(n, i))
     IN  IsAlive(c.state) /\ IsAlive(c.in) /\ c.inBuf # <<>>

Turns(n) == {i \in visited[n]..(MaxId - 1) : HasData(n, i)}

(* encode: one frame with as many bytes as fit; the escapes are not counted *)
(* here.                                                                    *)
EncodeData(n) ==
  /\ phase[n] = "data" /\ Turns(n) # {}
  /\ TunnelRoom(n) >= 4
  /\ LET i   == Min(Turns(n))
         s   == sorted[n][Turn(n, i)]
         buf == conns[n][s].inBuf
         m   == Least(Len(buf), TunnelRoom(n) - 3)
     IN  /\ Put(n, DataFrame(conns[n][s].id, SubSeq(buf, 1, m)))
         /\ conns' = [conns EXCEPT ![n][s].inBuf = SubSeq(buf, m + 1, Len(buf))]
         /\ visited' = [visited EXCEPT ![n] = i + 1]
  /\ UNCHANGED <<phase, kernel, freeIds, pump, sorted, history>>

(* Buffer is full: the next round begins behind the identifier refused.     *)
EncodeRefused(n) ==
  /\ phase[n] = "data" /\ Turns(n) # {}
  /\ TunnelRoom(n) < 4
  /\ current' = [current EXCEPT ![n] = Turn(n, Min(Turns(n)))]
  /\ UpdateReturns(n)
  /\ UNCHANGED <<conns, tun, kernel, freeIds, queue, sendingTo, history>>

RoundDone(n) ==
  /\ phase[n] = "data" /\ Turns(n) = {}
  /\ UpdateReturns(n)
  /\ UNCHANGED <<conns, tun, kernel, freeIds, pump, history>>
-----------------------------------------------------------------------------
StateChanges(n) == StateShutdown(n) \/ Report(n) \/ StateAgain(n) \/ StateOk(n)

Recv(n) == \/ ContinueFrame(n) \/ ReceiveFails(n) \/ ReceiveCommand(n)
           \/ ReceiveData(n) \/ ReceiveNothing(n)

Transfer(n) == \/ SendCommand(n) \/ LoseCommand(n) \/ CommandsSent(n)
               \/ EncodeData(n) \/ EncodeRefused(n) \/ RoundDone(n)

(* What a node does by itself, without waiting for anyone.                  *)
Update(n) == EnterPoll(n) \/ SortConnections(n) \/ StateChanges(n) \/ Recv(n) \/ Transfer(n)

Next == \E n \in Node : Update(n) \/ PollReturns(n) \/ PollReturnsUser(n) \/ Signal(n)

Spec == Init /\ [][Next]_vars

(* The processes run, the kernel delivers, and poll is level-triggered: the *)
(* tunnel's readiness lasts until it is served, so a node that comes back   *)
(* to poll again and again serves it at last.  Nothing is assumed of the    *)
(* applications.                                                            *)
TunnelRead(n) == /\ PollReturns(n)
                 /\ wire'[Other(n)] # wire[Other(n)] \/ tun'[n].in # tun[n].in

TunnelWritten(n) == /\ PollReturns(n)
                    /\ wire'[n] # wire[n] \/ tun'[n].out # tun[n].out

Fairness == \A n \in Node : /\ WF_vars(Update(n)) /\ WF_vars(PollReturnsUser(n))
                            /\ SF_vars(TunnelRead(n)) /\ SF_vars(TunnelWritten(n))

FairSpec == Spec /\ Fairness
-----------------------------------------------------------------------------
(* Properties                                                               *)

IsConnection(c) ==
  /\ c.id \in NoId..MaxId
  /\ {c.state, c.in, c.out} \subseteq SUBSET Flag
  /\ c.events \subseteq Event

(* No buffer ever holds more than its capacity, no queue more than          *)
(* QueueSize commands, the stack no more than MaxId identifiers.            *)
TypeOK ==
  /\ \A n \in Node : \A s \in Live(n) :
       /\ IsConnection(conns[n][s])
       /\ Len(conns[n][s].inBuf) <= BufSize
       /\ Len(conns[n][s].outBuf) <= BufSize
  /\ \A n \in Node :
       /\ IsConnection(tun[n])
       /\ Len(tun[n].inBuf) <= TunnelSize
       /\ Len(tun[n].outBuf) <= TunnelSize
       /\ Len(wire[n]) <= WireSize
       /\ Len(queue[n]) <= QueueSize
       /\ sendingTo[n] \in 0..MaxId
       /\ current[n] \in 0..MaxId
  /\ freeIds \in Seq(Id) /\ Len(freeIds) <= MaxId

(* No session was closed from both ends at once, and no command got lost:   *)
(* the two events after which the nodes' ideas of an identifier differ.     *)
Undisturbed == ~lost /\ \A s \in Session : closedBy[s] # Node

Promise == INSTANCE Relay

(* The applications of a session get each other's bytes and nothing else    *)
(* (the promise of Relay, and what 512-tcp-clients/main.c:95 compares).     *)
Relayed == Promise!Spec

(* Until the nodes' ideas of an identifier differ, they do.                 *)
RelayedUntilDisturbed == [][Undisturbed => Promise!Next]_vars

(* Until then no byte of a session open at both ends is missing anywhere:    *)
(* what was received, what waits to be written, what is in the tunnel and   *)
(* what waits to be encoded are together all that was sent, in order.       *)
InTunnel(n, s) ==
  SelectSeq(tun[n].inBuf \o wire[Other(n)] \o tun[Other(n)].outBuf,
            LAMBDA b : b[1] = "data" /\ b[3] = s)

NothingMissing ==
  Undisturbed => \A n \in Node : \A s \in Live(n) \cap Live(Other(n)) :
    LET m == Other(n)
    IN  got[n][s] \o conns[n][s].outBuf \o InTunnel(n, s) \o conns[m][s].inBuf
          = Promise!Stream(m, s, sent[m][s])

(* The two nodes stay in step about where a frame begins: the exit for a    *)
(* wrong starting byte (pump.c:207) is never taken, and neither is the      *)
(* frame in progress ever without a connection to write to (pump.c:193).    *)
FramesInStep == \A n \in Node : phase[n] \notin {"starting byte", "null pointer"}

(* The server refuses a NEW for an identifier it uses, so it never has two  *)
(* connections with the same one, whatever the client sends it.             *)
ServerIdsUnique ==
  \A s, t \in Live("server") :
    conns["server"][s].id = conns["server"][t].id => s = t

InUse == {s \in Live("client") : /\ conns["client"][s].id # NoId
                                 /\ "DELETE" \notin conns["client"][s].state}

(* The collection of free identifiers holds each at most once and none that *)
(* a connection uses.                                                       *)
FreeIdsAreFree ==
  /\ \A i, j \in DOMAIN freeIds : freeIds[i] = freeIds[j] => i = j
  /\ \A i \in DOMAIN freeIds, s \in InUse : conns["client"][s].id # freeIds[i]

(* Until then identifiers are managed as meant: free or used by exactly one *)
(* connection, never both.                                                  *)
IdsDisciplined ==
  Undisturbed =>
    /\ FreeIdsAreFree
    /\ \A s, t \in InUse : conns["client"][s].id = conns["client"][t].id => s = t

(* Until then a command acts on the session it was sent about and on no     *)
(* other one that carries the same identifier by now.                       *)
CommandsHitTheirSession ==
  [][Undisturbed => \A n \in Node : ReceiveCommand(n) =>
       \A s \in Live(n) : conns'[n][s] # conns[n][s] => s = TunnelIn(n)[3][3]]_vars

(* Until then, and unless the service refuses a connection, no data comes   *)
(* for a connection that is gone (pump.c:224).                              *)
DataFindsItsConnection ==
  Undisturbed /\ "connect" \notin Faults =>
    \A n \in Node : phase[n] # "closed connection"

(* A queue of 2 * (MaxId + 1) commands is enough (controller.c:11): neither *)
(* a report nor an answer is refused for want of room until a command gets  *)
(* lost and those behind it have to wait for a later round.                 *)
QueueSuffices ==
  QueueSize >= 2 * (MaxId + 1) /\ ~lost =>
    \A n \in Node : /\ phase[n] = "state" /\ Reports(n) # {} => HasRoom(n)
                    /\ FrameAvailable(n) /\ FrameId(n) = 0 => HasRoom(n)

(* An application that stops reading is never reported: a failed write      *)
(* leaves the buffer with data in it, and should_close_out asks for an      *)
(* empty one.  CLOSE_DST_TO_SRC is never sent.                              *)
FailedWritesStayUnreported ==
  \A n \in Node : \A i \in DOMAIN queue[n] : queue[n][i].cmd # "CLOSE_DST_TO_SRC"

(* A signal ends the process, whatever it is doing.                         *)
SignalsStop == \A n \in Node : signalled[n] ~> ~IsRunning(n)

(* When one process ends the other one ends, too, unless it never asks for  *)
(* input of the tunnel again: receive clears POLLIN of a full in_buf        *)
(* (manager.c:303), and only a later call of it, when poll has returned for *)
(* something else, sets it again.  That never comes if the pump finds no    *)
(* room for what is in the buffer, or has emptied it before poll.           *)
TunnelUnpolled(n) == "IN" \notin tun[n].events /\ IsAlive(tun[n].in)

EndsTogether ==
  \A n \in Node :
    ~IsRunning(n) ~> (~IsRunning(Other(n)) \/ []TunnelUnpolled(Other(n)))

(* The pump notifies the controller about a command that it has received in *)
(* full.                                                                    *)
CommandWaits(n) == /\ sendingTo[n] = 0 /\ Len(TunnelIn(n)) >= CommandSize
                   /\ WellStarted(n) /\ FrameId(n) = 0

CommandsAreNoticed == \A n \in Node : CommandWaits(n) ~> ~CommandWaits(n)

(* The pump encodes what it finds in a connection's buffer for as long as   *)
(* the connection is open: no byte that was read is left behind there when  *)
(* the application closes its sending direction (pump.c:261 passes over     *)
(* such a connection for ever).                                             *)
NoBytesStranded ==
  \A n \in Node : \A s \in Live(n) :
    LET c == conns[n][s]
    IN  c.inBuf # <<>> /\ IsAlive(c.state) => IsAlive(c.in)
=============================================================================
