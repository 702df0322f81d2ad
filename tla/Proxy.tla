------------------------------- MODULE Proxy -------------------------------
(***************************************************************************)
(* The TCP proxy of "33. Proxy": one process that accepts connections,     *)
(* opens one to the target for each, and moves bytes both ways between the *)
(* two sockets of such a client.  A client's sockets are its sides "src"   *)
(* and "dst"; the direction d takes bytes from side d to the other side.   *)
(* The numbers of clients are the model's: the code has their addresses.   *)
(*                                                                         *)
(* The buffers are sequences: what round_buffer.c makes of them is the     *)
(* subject of RoundBuffer, whose segment lists this program shares.        *)
(***************************************************************************)
EXTENDS Integers, Sequences, FiniteSets

CONSTANTS MaxClients,  \* slots; 510 in the code
          Clients,     \* how many connections are ever made
          Talkers,     \* the clients whose applications send anything
          Units,       \* bytes each of these sends
          BufferSize,  \* capacity of a buffer; 1024 in the code
          Faults       \* "write": a write may fail; "signal": a signal may come

ASSUME ProxyAssumption ==
  /\ {MaxClients, Clients, BufferSize} \subseteq Nat \ {0}
  /\ Units \in Nat
  /\ Talkers \subseteq Nat
  /\ Faults \subseteq {"write", "signal"}

Side == {"src", "dst"}

Other(s) == IF s = "src" THEN "dst" ELSE "src"

Client == 1..Clients

NoClient == 0

VARIABLES phase,    \* where main's loop is
          slots,    \* clients[] and fds[], slot by slot, clients_count long
          revents,  \* what poll reported for the slots it was asked about
          turn,     \* the loop's i and the direction that is next
          active,   \* src_dst_active and dst_src_active, by client and side
          buf,      \* src_dst_buf and dst_src_buf, by client and side
          open,     \* the clients whose two sockets are open
          shut,     \* <<client, side, way>> for what was shut down of the open sockets
          term,     \* term_signal_received
          accepted, \* how many connections were made so far
          sent,     \* history: bytes each application has sent
          got       \* history: bytes each application has received

loop    == <<phase, revents, turn>>
memory  == <<active, buf, shut>>
streams == <<sent, got>>

vars == <<loop, slots, memory, open, term, accepted, streams>>

(* An entry of fds: watched unless its fd is negative; of is whose socket   *)
(* it is.                                                                   *)
PollFd(c) == [of |-> c, watched |-> TRUE, events |-> {"IN"}]

NoTurn == [slot |-> 0, dir |-> "none"]

Goto(p) == phase' = p
-----------------------------------------------------------------------------
Init ==
  /\ phase = "top"
  /\ slots = <<>>
  /\ revents = <<>>
  /\ turn = NoTurn
  /\ active = [c \in Client |-> [s \in Side |-> FALSE]]
  /\ buf = [c \in Client |-> [s \in Side |-> <<>>]]
  /\ open = {}
  /\ shut = {}
  /\ term = FALSE
  /\ accepted = 0
  /\ sent = [s \in Side |-> [c \in Client |-> 0]]
  /\ got = [s \in Side |-> [c \in Client |-> <<>>]]

(* Mutant of CheckSignal: poll is called without a look at the flag.        *)
CheckSignalUnasked ==
  /\ phase = "top"
  /\ Goto("checked")
  /\ UNCHANGED <<revents, turn, slots, memory, open, term, accepted, streams>>

(* The while condition was true: fds[0] is prepared and poll is called.     *)
(* Between the two the handler's flag goes unseen.                          *)
CheckSignal ==
  /\ phase = "top" /\ ~term
  /\ Goto("checked")
  /\ UNCHANGED <<revents, turn, slots, memory, open, term, accepted, streams>>

CallPoll ==
  /\ phase = "checked"
  /\ Goto("blocked")
  /\ UNCHANGED <<revents, turn, slots, memory, open, term, accepted, streams>>

(* The handler; poll returns EINTR if it is what the signal interrupts.     *)
Signal ==
  /\ "signal" \in Faults
  /\ ~term /\ phase # "terminated"
  /\ term' = TRUE
  /\ Goto(IF phase = "blocked" THEN "top" ELSE phase)
  /\ UNCHANGED <<revents, turn, slots, memory, open, accepted, streams>>

(* The program ends: all clients are disconnected.                          *)
Terminate ==
  /\ phase = "top" /\ term
  /\ Goto("terminated")
  /\ open' = open \ {slots[i].client : i \in DOMAIN slots}
  /\ slots' = <<>>
  /\ active' = [c \in Client |-> [s \in Side |-> FALSE]]
  /\ buf' = [c \in Client |-> [s \in Side |-> <<>>]]
  /\ shut' = {}
  /\ UNCHANGED <<revents, turn, term, accepted, streams>>
-----------------------------------------------------------------------------
Listens == Len(slots) < MaxClients

FirstTurn == IF slots = <<>> THEN NoTurn ELSE [slot |-> 1, dir |-> "src"]

(* poll returns: the listening socket has a connection, or descriptors that *)
(* are watched are ready for what was asked.                                *)
PollReturns ==
  /\ phase = "blocked"
  /\ \E listening \in BOOLEAN,
        rev \in [DOMAIN slots -> [Side -> SUBSET {"IN", "OUT"}]] :
       /\ listening => Listens /\ accepted < Clients
       /\ \A i \in DOMAIN slots, s \in Side :
            rev[i][s] \subseteq IF slots[i].fds[s].watched
                                THEN slots[i].fds[s].events ELSE {}
       /\ listening \/ \E i \in DOMAIN slots, s \in Side : rev[i][s] # {}
       /\ revents' = rev
       /\ turn' = FirstTurn
       /\ Goto(IF listening THEN "accept" ELSE "serve")
  /\ UNCHANGED <<slots, memory, open, term, accepted, streams>>

CanAddSlot == Len(slots) < MaxClients

(* accept_connection: a client is added behind the slots that are served in *)
(* this round; or accept fails, or the sockets are closed again because     *)
(* connect, malloc or the slot is refused.                                  *)
AddClient ==
  /\ phase = "accept" /\ CanAddSlot
  /\ LET c == accepted + 1
     IN  /\ accepted' = c
         /\ open' = open \cup {c}
         /\ active' = [active EXCEPT ![c] = [s \in Side |-> TRUE]]
         /\ slots' = Append(slots, [client |-> c, fds |-> [s \in Side |-> PollFd(c)]])
  /\ Goto("serve")
  /\ UNCHANGED <<revents, turn, buf, shut, term, streams>>

RefuseClient ==
  /\ phase = "accept"
  /\ accepted' \in {accepted, accepted + 1}
  /\ Goto("serve")
  /\ UNCHANGED <<revents, turn, slots, memory, open, term, streams>>
-----------------------------------------------------------------------------
(* transfer                                                                 *)

SetFlag(fd, flag) == [fd EXCEPT !.events = @ \cup {flag}, !.watched = TRUE]

(* Mutant of ClearFlag: the descriptor is ignored whatever else is asked.   *)
ClearFlagAlways(fd, flag) ==
  [fd EXCEPT !.events = @ \ {flag}, !.watched = FALSE]

(* A descriptor that nothing is asked of is made negative, and poll ignores *)
(* it.                                                                      *)
ClearFlag(fd, flag) ==
  [fd EXCEPT !.events = @ \ {flag},
             !.watched = @ /\ fd.events \ {flag} # {}]

Failed == -1

Current == slots[turn.slot]

(* The i-th byte that the application at a side sends.                      *)
DataByte(s, c, i) == <<s, c, i>>

Bytes(s, c, k) == [i \in 1..k |-> DataByte(s, c, sent[s][c] + i)]

(* transfer's two conditions, in the middle of the round.                   *)
Reads(d) == /\ "IN" \in revents[turn.slot][d]
            /\ Len(buf[Current.client][d]) < BufferSize

Writes(d, bytes) == "OUT" \in revents[turn.slot][Other(d)] /\ bytes # <<>>

(* What readv and writev return: a number of bytes, or Failed for the end   *)
(* of the stream and for every error that is not ignored.  A negative       *)
(* descriptor is an error.                                                  *)
ReadResults(d) ==
  LET fd   == Current.fds[d]
      room == BufferSize - Len(buf[Current.client][d])
      left == IF fd.of \in Talkers THEN Units - sent[d][fd.of] ELSE 0
  IN  IF ~Reads(d) THEN {0}
      ELSE IF ~fd.watched THEN {Failed}
      ELSE {Failed} \cup 1..(IF left < room THEN left ELSE room)

WriteResults(d, bytes) ==
  IF ~Writes(d, bytes) THEN {0}
  ELSE IF ~Current.fds[Other(d)].watched THEN {Failed}
  ELSE 1..Len(bytes) \cup (IF "write" \in Faults THEN {Failed} ELSE {})

(* The direction is over: nothing is asked for it any more, and what its    *)
(* buffer still holds stays there.                                          *)
EndDirection(d, side, way) ==
  /\ active' = [active EXCEPT ![Current.client][d] = FALSE]
  /\ slots' = [slots EXCEPT ![turn.slot].fds[d] = ClearFlag(@, "IN"),
                            ![turn.slot].fds[Other(d)] = ClearFlag(@, "OUT")]
  /\ shut' = shut \cup {<<Current.fds[side].of, side, way>>}

(* Mutant of AskForOutput: the flag is left as it was.                      *)
AskForOutputNever(fd, bytes) == fd

AskForOutput(fd, bytes) == IF bytes = <<>> THEN ClearFlag(fd, "OUT") ELSE SetFlag(fd, "OUT")

NextDirection(d) == turn' = [turn EXCEPT !.dir = IF d = "src" THEN "dst" ELSE "end"]

(* The buffer when r bytes were read into it, and what of it is handed on   *)
(* and stays when w bytes are written.                                      *)
Filled(d, r) == buf[Current.client][d] \o Bytes(d, Current.fds[d].of, r)

Written(d, r, w) == SubSeq(Filled(d, r), 1, w)

Rest(d, r, w) == SubSeq(Filled(d, r), w + 1, Len(Filled(d, r)))

ReadFails(d) ==
  /\ EndDirection(d, Other(d), "WR")
  /\ UNCHANGED <<buf, streams>>

WriteFails(d, r) ==
  /\ buf' = [buf EXCEPT ![Current.client][d] = Filled(d, r)]
  /\ EndDirection(d, d, "RD")
  /\ UNCHANGED got

HandOn(d, r, w) ==
  LET o == Other(d)
  IN  /\ buf' = [buf EXCEPT ![Current.client][d] = Rest(d, r, w)]
      /\ slots' = [slots EXCEPT ![turn.slot].fds[o] = AskForOutput(@, Rest(d, r, w))]
      /\ got' = [got EXCEPT ![o][Current.fds[o].of] = @ \o Written(d, r, w)]
      /\ UNCHANGED <<active, shut>>

Transfer(d) ==
  /\ phase = "serve" /\ turn.dir = d
  /\ active[Current.client][d]
  /\ \E r \in ReadResults(d) :
       \/ r = Failed /\ ReadFails(d)
       \/ /\ r # Failed
          /\ sent' = [sent EXCEPT ![d][Current.fds[d].of] = @ + r]
          /\ \E w \in WriteResults(d, Filled(d, r)) :
               \/ w = Failed /\ WriteFails(d, r)
               \/ w # Failed /\ HandOn(d, r, w)
  /\ NextDirection(d)
  /\ UNCHANGED <<phase, revents, open, term, accepted>>

SkipDirection(d) ==
  /\ phase = "serve" /\ turn.dir = d
  /\ ~active[Current.client][d]
  /\ NextDirection(d)
  /\ UNCHANGED <<phase, revents, slots, memory, open, term, accepted, streams>>

Finished(c) == \A s \in Side : ~active[c][s]

(* The end of a slot's turn: disconnect_client, if both directions are over.*)
EndTurn ==
  /\ phase = "serve" /\ turn.dir = "end"
  /\ LET c == Current.client
     IN  IF Finished(c)
         THEN /\ open' = open \ {c}
              /\ slots' = [slots EXCEPT ![turn.slot].client = NoClient]
              /\ active' = [active EXCEPT ![c] = [s \in Side |-> FALSE]]
              /\ buf' = [buf EXCEPT ![c] = [s \in Side |-> <<>>]]
              /\ shut' = {x \in shut : x[1] # c}
         ELSE UNCHANGED <<open, slots, memory>>
  /\ turn' = IF turn.slot < Len(revents)
             THEN [slot |-> turn.slot + 1, dir |-> "src"] ELSE NoTurn
  /\ UNCHANGED <<phase, revents, term, accepted, streams>>

Occupied(slot) == slot.client # NoClient

(* shrink_slots' loop over the array: copied[j] is what the first j slots   *)
(* leave.                                                                   *)
Compact(array) ==
  LET copied[j \in 0..Len(array)] ==
        IF j = 0 THEN <<>>
        ELSE IF Occupied(array[j]) THEN Append(copied[j - 1], array[j])
        ELSE copied[j - 1]
  IN  copied[Len(array)]

(* Mutants of Shrunk: nothing is copied; the descriptors stay where they    *)
(* were.                                                                    *)
ShrunkWithoutCopy == SubSeq(slots, 1, Len(Compact(slots)))

ShrunkClientsOnly ==
  LET kept == Compact(slots)
  IN  [i \in DOMAIN kept |-> [kept[i] EXCEPT !.fds = slots[i].fds]]

Shrunk == Compact(slots)

(* shrink_slots; what poll reported is of no more use.                      *)
ShrinkSlots ==
  /\ phase = "serve" /\ turn = NoTurn
  /\ slots' = Shrunk
  /\ revents' = <<>>
  /\ Goto("top")
  /\ UNCHANGED <<turn, memory, open, term, accepted, streams>>
-----------------------------------------------------------------------------
Run == \/ CheckSignal \/ CallPoll \/ Terminate \/ AddClient \/ RefuseClient
       \/ EndTurn \/ ShrinkSlots
       \/ \E d \in Side : Transfer(d) \/ SkipDirection(d)

Next == Run \/ PollReturns \/ Signal

(* The process runs on until poll blocks it.                                *)
Spec == Init /\ [][Next]_vars /\ WF_vars(Run)
-----------------------------------------------------------------------------
(* Properties                                                               *)

(* Slots, sockets and memory agree whenever the array is not being changed: *)
(* each open client has exactly one slot, each slot an open client and that *)
(* client's own two descriptors.  Nothing leaks, nothing is closed twice,   *)
(* and copy_slot and shrink_slots mix no clients up.  For each connection   *)
(* accept may return there is a slot, as main.c:167 says.                   *)
SlotsAgree ==
  /\ phase # "serve" =>
       /\ open = {slots[i].client : i \in DOMAIN slots}
       /\ Cardinality(open) = Len(slots)
       /\ \A i \in DOMAIN slots, s \in Side : slots[i].fds[s].of = slots[i].client
  /\ phase = "accept" => CanAddSlot

(* What poll is asked about a descriptor that serves two directions is what *)
(* the two need, whatever the other one has set or cleared: input as long   *)
(* as its direction runs, output while there is something to write, and it  *)
(* is not looked at otherwise (main.c:239-254).                             *)
PollAsksForWhatIsNeeded ==
  phase = "blocked" => \A i \in DOMAIN slots, s \in Side :
    LET fd == slots[i].fds[s]
        c  == slots[i].client
        o  == Other(s)
    IN  /\ "IN" \in fd.events <=> active[c][s]
        /\ "OUT" \in fd.events <=> active[c][o] /\ buf[c][o] # <<>>
        /\ fd.watched <=> fd.events # {}

(* transfer never uses a descriptor that was made negative by the transfer  *)
(* before it in the same round, nor one that was shut down for that use.    *)
DescriptorsAreUsable ==
  phase = "serve" /\ turn.dir \in Side /\ active[Current.client][turn.dir] =>
    LET d == turn.dir
        o == Other(d)
        c == Current.client
    IN  /\ Reads(d) => Current.fds[d].watched /\ <<c, d, "RD">> \notin shut
        /\ Writes(d, buf[c][d]) => Current.fds[o].watched /\ <<c, o, "WR">> \notin shut

(* A signal ends the program although rounds are under way, poll included:  *)
(* only one that comes between the test of the flag and poll has to wait    *)
(* until poll returns for another reason (main.c:410-417).                  *)
SignalEnds ==
  (term /\ phase \notin {"checked", "blocked"}) ~> (phase = "terminated")

Promise == INSTANCE Relay WITH Node <- Side, Session <- Client

(* Each application receives what the other one of its pair has sent, from  *)
(* the first byte on and in order, and nothing of another pair's.           *)
Relayed == Promise!Spec
=============================================================================
