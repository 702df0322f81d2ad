----------------------------- MODULE UnixSocket -----------------------------
(***************************************************************************)
(* "30. Unix domain socket": the client sends one message with write_all,  *)
(* the server reads it in pieces and hands each to write_all for the       *)
(* terminal in upper case.  Both write_all are the same; a byte is its     *)
(* place in the message.                                                   *)
(***************************************************************************)
EXTENDS Naturals, SequencesExt

CONSTANTS MessageSize, \* strlen(msg), 15
          ServerBuf,   \* the server's buffer, 1024
          ShortWrites  \* TRUE if the kernel may take a part of a write

ASSUME SocketAssumption ==
  /\ {MessageSize, ServerBuf} \subseteq Nat \ {0}
  /\ ShortWrites \in BOOLEAN

NewLine == 0           \* what the server prints at the end

Message == [i \in 1..MessageSize |-> i]

UpperCase(s) == [i \in DOMAIN s |-> MessageSize + s[i]]

VARIABLES sender,      \* bytes of its message the client has counted as written
          open,        \* the client has not closed its socket
          socket,      \* bytes on their way
          block,       \* the server's buffer, empty while it reads
          counted,     \* bytes of it the server has counted as written
          terminal,    \* what was printed
          served,      \* the server has come to the end of file
          short        \* history: a write was short

socketVars == <<sender, open, socket, block, counted, terminal, served, short>>

SocketInit == /\ sender = 0 /\ open = TRUE /\ socket = <<>>
              /\ block = <<>> /\ counted = 0 /\ terminal = <<>>
              /\ served = FALSE /\ short = FALSE

(* How much of a write of n bytes the kernel may take; an interrupted one   *)
(* that took nothing is repeated.                                           *)
Taken(n) == IF ShortWrites THEN 1..n ELSE {n}

(* Each turn of write_all's loop writes the buffer from its start and in    *)
(* its whole length, whatever was written before.                           *)
ClientWrite ==
  /\ open /\ sender < MessageSize
  /\ \E n \in Taken(MessageSize) :
       /\ socket' = socket \o SubSeq(Message, 1, n)
       /\ sender' = sender + n
       /\ short' = (short \/ n < MessageSize)
  /\ UNCHANGED <<open, block, counted, terminal, served>>

ClientClose ==
  /\ open /\ sender >= MessageSize
  /\ open' = FALSE
  /\ UNCHANGED <<sender, socket, block, counted, terminal, served, short>>

ServerRead ==
  /\ block = <<>> /\ ~served
  /\ \E n \in 1..Len(socket) :
       /\ n <= ServerBuf
       /\ block' = UpperCase(SubSeq(socket, 1, n))
       /\ socket' = SubSeq(socket, n + 1, Len(socket))
  /\ counted' = 0
  /\ UNCHANGED <<sender, open, terminal, served, short>>

(* Mutant of Finished: one byte more is asked for.                          *)
FinishedLate(written) == written > Len(block)

Finished(written) == written >= Len(block)

ServerWrite ==
  /\ block # <<>>
  /\ \E n \in Taken(Len(block)) :
       /\ terminal' = terminal \o SubSeq(block, 1, n)
       /\ counted' = counted + n
       /\ block' = IF Finished(counted') THEN <<>> ELSE block
       /\ short' = (short \/ n < Len(block))
  /\ UNCHANGED <<sender, open, socket, served>>

ServerEnds ==
  /\ block = <<>> /\ socket = <<>> /\ ~open /\ ~served
  /\ served' = TRUE
  /\ terminal' = Append(terminal, NewLine)
  /\ UNCHANGED <<sender, open, socket, block, counted, short>>

SocketNext == ClientWrite \/ ClientClose \/ ServerRead \/ ServerWrite \/ ServerEnds
-----------------------------------------------------------------------------
(* The terminal shows the message in capitals, each byte once and in order, *)
(* and all of it when the server has come to the end - unless a write was   *)
(* short: write_all then begins again at the start of its buffer            *)
(* (server.c:24).                                                           *)
MessageShownOnce ==
  LET whole == Append(UpperCase(Message), NewLine)
  IN  ~short => IsPrefix(terminal, whole) /\ (served => terminal = whole)
=============================================================================
