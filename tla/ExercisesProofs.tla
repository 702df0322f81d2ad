--------------------------- MODULE ExercisesProofs ---------------------------
(***************************************************************************)
(* Proofs about the small programs, for blocks, messages and buffers of    *)
(* every size.  A program's variables change in its own steps only, so     *)
(* each theorem needs the next-state relation of one program.              *)
(***************************************************************************)
EXTENDS Exercises, SequenceLemmas, FiniteSetTheorems, TLAPS

(* What the load test's client knows about the answer it is reading.  While *)
(* nothing came in pieces it has either all of it still to come or all of   *)
(* it in recv_buf; what is complete in the socket is this round's answer.   *)
IsWrong(answer) == wrong = (answer # Pattern(round))

LoadInv ==
  /\ round \in Nat
  /\ job \in {"write", "read"} => round # Rounds
  /\ job = "read" =>
       /\ echo \in Seq(Byte)
       /\ Len(echo) <= BlockSize
       /\ Len(echo) = BlockSize => IsWrong(echo) /\ due = BlockSize
       /\ ~split => due = BlockSize \/ IsWrong(cells)
  /\ AlarmsAreRight

LEMMA LoadStep ==
  ASSUME LoadInv, LoadNext
  PROVE  LoadInv'
<1>1. BlockSize \in Nat /\ BlockSize > 0
  BY LoadAssumption
<1>2. CASE SendBlock
  <2>1. /\ UNCHANGED round /\ job = "write" /\ job' \in {"read", "end"}
        /\ job' = "read" =>
             /\ due' = BlockSize /\ ~split'
             /\ wrong' = (~hungUp /\ echo' # Pattern(round))
             /\ hungUp => echo' = <<>>
             /\ ~hungUp => echo' \in [Cell -> Byte]
        /\ job' # "read" => UNCHANGED <<split, wrong>>
    <3>1. UNCHANGED round /\ job = "write"
      BY <1>2 DEF SendBlock
    <3>2. CASE job' = "end" /\ UNCHANGED <<split, wrong>>
      BY <3>1, <3>2
    <3>3. CASE /\ job' = "read" /\ due' = BlockSize
               /\ IF hungUp THEN echo' = <<>> ELSE echo' \in [Cell -> Byte]
               /\ split' = FALSE /\ wrong' = (~hungUp /\ echo' # Pattern(round))
      BY <3>1, <3>3
    <3> QED
      BY <1>2, <3>2, <3>3 DEF SendBlock
  <2>2. job' = "read" => /\ echo' \in Seq(Byte)
                         /\ Len(echo') <= BlockSize
                         /\ Len(echo') = BlockSize => IsWrong(echo)'
    <3>1. <<>> \in Seq(Byte) /\ Len(<<>>) = 0
      BY EmptySeq
    <3>2. CASE job' = "read" /\ echo' = <<>> /\ hungUp
      BY <1>1, <3>1, <3>2
    <3>3. CASE job' = "read" /\ echo' \in [Cell -> Byte] /\ ~hungUp
      <4>1. echo' \in Seq(Byte) /\ Len(echo') = BlockSize
        BY <1>1, <3>3 DEF Cell
      <4>2. IsWrong(echo)'
        BY <2>1, <3>3 DEF IsWrong, Pattern
      <4> QED
        BY <1>1, <4>1, <4>2
    <3> QED
      BY <2>1, <3>2, <3>3
  <2> QED
    BY <2>1, <2>2 DEF LoadInv, AlarmsAreRight
<1>3. CASE ReadPiece
  <2>1. PICK n \in 1..Len(echo) :
          /\ cells' = Stored(n)
          /\ echo' = SubSeq(echo, n + 1, Len(echo))
          /\ due' = due - n
          /\ split' = (n < BlockSize)
    BY <1>3 DEF ReadPiece
  <2>2. /\ job = "read" /\ UNCHANGED <<job, round, wrong>> /\ round # Rounds
    BY <1>3 DEF ReadPiece, LoadInv
  <2>3. /\ echo \in Seq(Byte) /\ Len(echo) <= BlockSize
        /\ Len(echo) = BlockSize => IsWrong(echo) /\ due = BlockSize
    BY <2>2 DEF LoadInv
  <2>4. /\ echo' \in Seq(Byte)
        /\ Len(echo') = Len(echo) - n
    <3>1. n \in 0..Len(echo)
      BY <2>3
    <3> QED
      BY <2>1, <2>3, <3>1, SeqRest
  <2>8. n \in Nat /\ n > 0 /\ Len(echo) \in Nat
    BY <2>3
  <2>5. n = BlockSize => IsWrong(cells)'
    <3> SUFFICES ASSUME n = BlockSize
                 PROVE  IsWrong(cells)'
      OBVIOUS
    <3>1. Len(echo) = BlockSize /\ IsWrong(echo)
      BY <1>1, <2>1, <2>3, <2>8
    <3>2. cells' = [j \in Cell |-> echo[j]]
      BY <1>1, <2>1 DEF Stored, Cell
    <3>3. echo = [j \in Cell |-> echo[j]]
      <4>1. echo \in [1..Len(echo) -> Byte]
        BY <2>3
      <4> QED
        BY <3>1, <4>1 DEF Cell
    <3> QED
      BY <2>2, <3>1, <3>2, <3>3 DEF IsWrong, Pattern
  <2>7. n < BlockSize => split'
    BY <2>1
  <2>9. AlarmsAreRight'
    BY <2>2 DEF AlarmsAreRight
  <2>10. Len(echo') <= BlockSize /\ Len(echo') # BlockSize
    BY <1>1, <2>3, <2>4, <2>8
  <2>11. ~split' => IsWrong(cells)'
    BY <1>1, <2>1, <2>3, <2>5, <2>7, <2>8
  <2> QED
    BY <2>2, <2>4, <2>9, <2>10, <2>11 DEF LoadInv
<1>4. CASE Compare
  <2>1. /\ job = "read" /\ due = 0 /\ round # Rounds /\ round \in Nat
        /\ UNCHANGED <<cells, split, wrong>>
        /\ ~split => IsWrong(cells)
    BY <1>1, <1>4 DEF LoadInv, Compare
  <2>2. CASE cells = Pattern(round)
    <3>1. ~split => ~wrong
      BY <2>1, <2>2 DEF IsWrong
    <3>2. /\ round' = round + 1
          /\ job' = IF round' = Rounds THEN "end" ELSE "write"
      BY <1>4, <2>2 DEF Compare
    <3> QED
      BY <2>1, <3>1, <3>2 DEF LoadInv, AlarmsAreRight
  <2>3. CASE cells # Pattern(round)
    <3>1. ~split => wrong
      BY <2>1, <2>3 DEF IsWrong
    <3>2. job' = "alarm" /\ UNCHANGED round
      BY <1>4, <2>3 DEF Compare
    <3> QED
      BY <2>1, <3>1, <3>2 DEF LoadInv, AlarmsAreRight
  <2> QED
    BY <2>2, <2>3
<1>5. CASE HangUp
  <2>1. <<>> \in Seq(Byte) /\ Len(<<>>) = 0
    BY EmptySeq
  <2> QED
    BY <1>1, <1>5, <2>1 DEF LoadInv, HangUp, AlarmsAreRight, IsWrong, Pattern
<1>6. CASE ReadFails
  BY <1>6 DEF LoadInv, ReadFails, AlarmsAreRight
<1> QED
  BY <1>2, <1>3, <1>4, <1>5, <1>6 DEF LoadNext

(* Of answers that come in one piece the load test reports the wrong ones   *)
(* and no other, for blocks of every size and any number of rounds          *)
(* (512-tcp-clients/main.c:87-95).                                          *)
THEOREM AlarmsTellTheTruth == Spec => []AlarmsAreRight
<1>1. Init => LoadInv
  <2>1. Rounds # 0
    BY LoadAssumption
  <2> QED
    BY <2>1 DEF Init, NoLoad, LoadInit, LoadInv, AlarmsAreRight
<1>2. LoadInv /\ [Next]_vars => LoadInv'
  <2> SUFFICES ASSUME LoadInv, [Next]_vars
               PROVE  LoadInv'
    OBVIOUS
  <2>1. CASE LoadRuns
    BY <2>1, LoadStep DEF LoadRuns
  <2>2. CASE UNCHANGED loadVars
    BY <2>2 DEF loadVars, LoadInv, AlarmsAreRight, IsWrong, Pattern
  <2> QED
    BY <2>1, <2>2 DEF Next, vars, FileRuns, PipeRuns, SocketRuns, LifeRuns
<1>3. LoadInv => AlarmsAreRight
  BY DEF LoadInv
<1> QED
  BY <1>1, <1>2, <1>3, PTL DEF Spec
-----------------------------------------------------------------------------
(* Until a write is short, what is printed, what the server has in its      *)
(* buffer and what is on its way are together what the client has written,  *)
(* which is nothing or all.                                                 *)
SocketInv ==
  ~short =>
    /\ sender \in {0, MessageSize} /\ counted \in Nat
    /\ ~open => sender = MessageSize
    /\ terminal \in Seq(Nat) /\ block \in Seq(Nat) /\ socket \in Seq(Nat)
    /\ ~served =>
         /\ Len(terminal) + Len(block) + Len(socket) = sender
         /\ \A i \in 1..Len(terminal) : terminal[i] = MessageSize + i
         /\ \A i \in 1..Len(block) : block[i] = MessageSize + (Len(terminal) + i)
         /\ \A i \in 1..Len(socket) : socket[i] = Len(terminal) + Len(block) + i
    /\ served => /\ block = <<>> /\ socket = <<>> /\ ~open
                 /\ terminal = Append(UpperCase(Message), NewLine)

(* A write that is not short takes the whole buffer.                        *)
LEMMA LongWrite ==
  ASSUME NEW k \in Nat, NEW n \in Taken(k), ~(n < k)
  PROVE  n = k
BY DEF Taken

LEMMA MessageIsText ==
  /\ Message \in Seq(Nat) /\ Len(Message) = MessageSize
  /\ \A i \in 1..MessageSize : Message[i] = i
  /\ UpperCase(Message) \in Seq(Nat) /\ Len(UpperCase(Message)) = MessageSize
  /\ \A i \in 1..MessageSize : UpperCase(Message)[i] = MessageSize + i
<1>1. MessageSize \in Nat
  BY SocketAssumption
<1>2. /\ Message \in Seq(Nat) /\ Len(Message) = MessageSize
      /\ \A i \in 1..MessageSize : Message[i] = i
      /\ DOMAIN Message = 1..MessageSize
  BY <1>1 DEF Message
<1>3. UpperCase(Message) = [i \in 1..MessageSize |-> MessageSize + i]
  BY <1>2 DEF UpperCase
<1> QED
  BY <1>1, <1>2, <1>3

LEMMA SocketStep ==
  ASSUME SocketInv, SocketNext
  PROVE  SocketInv'
<1>1. MessageSize \in Nat /\ MessageSize > 0 /\ ServerBuf \in Nat
  BY SocketAssumption
<1> SUFFICES ASSUME ~short'
             PROVE  SocketInv'
  BY DEF SocketInv
<1>2. ~short
  BY DEF SocketNext, ClientWrite, ClientClose, ServerRead, ServerWrite, ServerEnds
<1>3. CASE ClientWrite
  <2>1. PICK n \in Taken(MessageSize) :
          /\ socket' = socket \o SubSeq(Message, 1, n)
          /\ sender' = sender + n
          /\ short' = (short \/ n < MessageSize)
    BY <1>3 DEF ClientWrite
  <2>2. n = MessageSize
    BY <1>1, <2>1, LongWrite
  <2>3. sender = 0 /\ open /\ UNCHANGED <<open, block, counted, terminal, served>>
    BY <1>1, <1>2, <1>3 DEF ClientWrite, SocketInv
  <2>4. /\ socket \in Seq(Nat) /\ block \in Seq(Nat) /\ terminal \in Seq(Nat) /\ ~served
        /\ Len(terminal) = 0 /\ Len(block) = 0 /\ Len(socket) = 0
    <3>1. ~served
      BY <1>2, <2>3 DEF SocketInv
    <3> QED
      BY <1>2, <2>3, <3>1 DEF SocketInv
  <2>5. SubSeq(Message, 1, n) = Message
    BY <2>2, MessageIsText, SubSeqFull
  <2>6. socket' = Message
    <3>1. socket = <<>>
      BY <2>4, EmptySeq
    <3> QED
      BY <2>1, <2>5, <3>1, MessageIsText, ConcatEmptySeq
  <2>7. sender' = MessageSize
    BY <1>1, <2>1, <2>2, <2>3
  <2> QED
    BY <1>1, <1>2, <2>3, <2>4, <2>6, <2>7, MessageIsText DEF SocketInv
<1>4. CASE ClientClose
  BY <1>1, <1>2, <1>4 DEF ClientClose, SocketInv
<1>5. CASE ServerRead
  <2>1. PICK n \in 1..Len(socket) :
          /\ block' = UpperCase(SubSeq(socket, 1, n))
          /\ socket' = SubSeq(socket, n + 1, Len(socket))
    BY <1>5 DEF ServerRead
  <2>2. /\ block = <<>> /\ ~served /\ counted' = 0
        /\ UNCHANGED <<sender, open, terminal, served>>
    BY <1>5 DEF ServerRead
  <2>3. /\ socket \in Seq(Nat) /\ terminal \in Seq(Nat) /\ sender \in {0, MessageSize}
        /\ Len(terminal) + Len(socket) = sender
        /\ \A i \in 1..Len(terminal) : terminal[i] = MessageSize + i
        /\ \A i \in 1..Len(socket) : socket[i] = Len(terminal) + i
        /\ ~open => sender = MessageSize
    BY <1>2, <2>2, EmptySeq DEF SocketInv
  <2>4. n \in 0..Len(socket) /\ n \in Nat /\ Len(socket) \in Nat /\ Len(terminal) \in Nat
    BY <2>3
  <2>5. /\ SubSeq(socket, 1, n) \in Seq(Nat) /\ Len(SubSeq(socket, 1, n)) = n
        /\ \A i \in 1..n : SubSeq(socket, 1, n)[i] = Len(terminal) + i
    <3>1. socket \in Seq(Nat) /\ n \in 0..Len(socket)
      BY <2>3, <2>4
    <3>2. /\ SubSeq(socket, 1, n) \in Seq(Nat) /\ Len(SubSeq(socket, 1, n)) = n
          /\ \A i \in 1..n : SubSeq(socket, 1, n)[i] = socket[i]
      BY <3>1, SeqFirst
    <3>3. \A i \in 1..n : socket[i] = Len(terminal) + i
      BY <2>3, <2>4
    <3> QED
      BY <3>2, <3>3
  <2>6. block' = [i \in 1..n |-> MessageSize + (Len(terminal) + i)]
    <3>1. DOMAIN SubSeq(socket, 1, n) = 1..n
      BY <2>5
    <3> QED
      BY <2>1, <2>5, <3>1 DEF UpperCase
  <2>7. /\ block' \in Seq(Nat) /\ Len(block') = n
        /\ \A i \in 1..n : block'[i] = MessageSize + (Len(terminal) + i)
    BY <1>1, <2>4, <2>6
  <2>8. /\ socket' \in Seq(Nat) /\ Len(socket') = Len(socket) - n
        /\ \A i \in 1..(Len(socket) - n) : socket'[i] = socket[n + i]
    BY <2>1, <2>3, <2>4, SeqRest
  <2>9. \A i \in 1..Len(socket') : socket'[i] = Len(terminal) + n + i
    BY <2>3, <2>4, <2>8, SMTT(30)
  <2>10. Len(terminal) + Len(block') + Len(socket') = sender
    <3>1. Len(terminal) + n + (Len(socket) - n) = Len(terminal) + Len(socket)
      BY <2>4
    <3> QED
      BY <2>3, <2>7, <2>8, <3>1
  <2>11. /\ \A i \in 1..Len(block') : block'[i] = MessageSize + (Len(terminal) + i)
         /\ \A i \in 1..Len(socket') : socket'[i] = Len(terminal) + Len(block') + i
    BY <2>7, <2>9
  <2> QED
    BY <1>1, <1>2, <2>2, <2>3, <2>7, <2>8, <2>10, <2>11 DEF SocketInv
<1>6. CASE ServerWrite
  <2>1. PICK n \in Taken(Len(block)) :
          /\ terminal' = terminal \o SubSeq(block, 1, n)
          /\ counted' = counted + n
          /\ block' = IF Finished(counted') THEN <<>> ELSE block
          /\ short' = (short \/ n < Len(block))
    BY <1>6 DEF ServerWrite
  <2>2. /\ block # <<>> /\ UNCHANGED <<sender, open, socket, served>>
    BY <1>6 DEF ServerWrite
  <2>3. /\ block \in Seq(Nat) /\ socket \in Seq(Nat) /\ terminal \in Seq(Nat)
        /\ ~served /\ counted \in Nat /\ Len(block) \in Nat
    BY <1>2, <2>2 DEF SocketInv
  <2>4. n = Len(block)
    BY <2>1, <2>3, LongWrite
  <2>5. terminal' = terminal \o block /\ counted' \in Nat /\ block' = <<>>
    <3>1. SubSeq(block, 1, n) = block
      BY <2>3, <2>4, SubSeqFull
    <3>2. counted' \in Nat /\ counted' >= Len(block)
      BY <2>1, <2>3, <2>4
    <3>3. block' = <<>>
      BY <2>1, <3>2 DEF Finished
    <3> QED
      BY <2>1, <3>1, <3>2, <3>3
  <2>6. /\ terminal' \in Seq(Nat) /\ Len(terminal') = Len(terminal) + Len(block)
        /\ \A i \in 1..(Len(terminal) + Len(block)) :
             terminal'[i] = IF i <= Len(terminal) THEN terminal[i] ELSE block[i - Len(terminal)]
    BY <2>3, <2>5, ConcatProperties
  <2>7. ASSUME NEW i \in 1..Len(terminal')
        PROVE  terminal'[i] = MessageSize + i
    <3>1. /\ \A j \in 1..Len(terminal) : terminal[j] = MessageSize + j
          /\ \A j \in 1..Len(block) : block[j] = MessageSize + (Len(terminal) + j)
      BY <1>2, <2>3 DEF SocketInv
    <3>2. i \in 1..(Len(terminal) + Len(block)) /\ Len(terminal) \in Nat
      BY <2>3, <2>6
    <3>3. CASE i <= Len(terminal)
      <4>1. terminal'[i] = terminal[i]
        BY <2>6, <3>2, <3>3
      <4>2. i \in 1..Len(terminal)
        BY <3>2, <3>3
      <4> QED
        BY <3>1, <4>1, <4>2
    <3>4. CASE ~(i <= Len(terminal))
      <4>1. /\ i - Len(terminal) \in 1..Len(block)
            /\ MessageSize + (Len(terminal) + (i - Len(terminal))) = MessageSize + i
        BY <1>1, <2>3, <3>2, <3>4
      <4>2. terminal'[i] = block[i - Len(terminal)]
        BY <2>6, <3>2, <3>4
      <4> QED
        BY <3>1, <4>1, <4>2
    <3> QED
      BY <3>3, <3>4
  <2>8. /\ block' \in Seq(Nat) /\ Len(block') = 0
    BY <2>5, EmptySeq
  <2> QED
    BY <1>1, <1>2, <2>2, <2>3, <2>5, <2>6, <2>7, <2>8 DEF SocketInv
<1>7. CASE ServerEnds
  <2>1. /\ block = <<>> /\ socket = <<>> /\ ~open /\ ~served /\ served'
        /\ terminal' = Append(terminal, NewLine)
        /\ UNCHANGED <<sender, open, socket, block, counted>>
    BY <1>7 DEF ServerEnds
  <2>2. /\ terminal \in Seq(Nat) /\ Len(terminal) = MessageSize
        /\ \A i \in 1..MessageSize : terminal[i] = MessageSize + i
    BY <1>1, <1>2, <2>1, EmptySeq DEF SocketInv
  <2>3. terminal = UpperCase(Message)
    BY <2>2, MessageIsText, SeqEqual, ZenonT(30)
  <2>4. terminal' \in Seq(Nat)
    BY <2>1, <2>2, AppendProperties DEF NewLine
  <2> QED
    BY <1>2, <2>1, <2>3, <2>4 DEF SocketInv
<1> QED
  BY <1>3, <1>4, <1>5, <1>6, <1>7 DEF SocketNext

LEMMA ShownIsPrefix ==
  ASSUME SocketInv
  PROVE  MessageShownOnce
<1> DEFINE whole == Append(UpperCase(Message), NewLine)
<1> SUFFICES ASSUME ~short
             PROVE  IsPrefix(terminal, whole) /\ (served => terminal = whole)
  BY DEF MessageShownOnce
<1>1. MessageSize \in Nat /\ MessageSize > 0
  BY SocketAssumption
<1>2. /\ whole \in Seq(Nat) /\ Len(whole) = MessageSize + 1
      /\ \A i \in 1..MessageSize : whole[i] = MessageSize + i
  BY <1>1, MessageIsText, AppendProperties DEF NewLine
<1>3. served => terminal = whole
  BY DEF SocketInv
<1>4. terminal \in Seq(Nat) /\ Len(terminal) \in Nat
  BY DEF SocketInv
<1> HIDE DEF whole
<1>5. /\ Len(terminal) <= Len(whole)
      /\ ~served => \A i \in 1..Len(terminal) : terminal[i] = whole[i]
  <2>1. CASE served
    BY <1>2, <1>3, <2>1
  <2>2. CASE ~served
    <3>1. /\ Len(terminal) + Len(block) + Len(socket) \in {0, MessageSize}
          /\ Len(block) \in Nat /\ Len(socket) \in Nat
          /\ \A i \in 1..Len(terminal) : terminal[i] = MessageSize + i
      BY <2>2 DEF SocketInv
    <3>2. Len(terminal) <= MessageSize
      BY <1>1, <1>4, <3>1
    <3> QED
      BY <1>1, <1>2, <1>4, <3>1, <3>2
  <2> QED
    BY <2>1, <2>2
<1>6. \A i \in 1..Len(terminal) : terminal[i] = whole[i]
  BY <1>3, <1>5
<1>7. SubSeq(terminal, 1, Len(terminal)) = SubSeq(whole, 1, Len(terminal))
  BY <1>2, <1>4, <1>5, <1>6, SeqFirst, SeqEqual
<1> QED
  BY <1>3, <1>5, <1>7 DEF IsPrefix

(* The other programs print nothing here.                                   *)
SocketRunInv == IF running = "socket" THEN SocketInv ELSE terminal = <<>> /\ ~served

(* The terminal shows the message in capitals once and in order, for every  *)
(* message and server buffer, until a write is short (server.c:24).         *)
THEOREM MessagesAreShownOnce == Spec => []MessageShownOnce
<1>1. Init => SocketRunInv
  <2>1. SocketInit => SocketInv
    BY SocketAssumption, EmptySeq DEF SocketInit, SocketInv
  <2> QED
    BY <2>1 DEF Init, NoSocket, SocketRunInv
<1>2. SocketRunInv /\ [Next]_vars => SocketRunInv'
  <2> SUFFICES ASSUME SocketRunInv, [Next]_vars
               PROVE  SocketRunInv'
    OBVIOUS
  <2>1. CASE SocketRuns
    BY <2>1, SocketStep DEF SocketRuns, SocketRunInv
  <2>2. CASE UNCHANGED <<running, socketVars>>
    BY <2>2 DEF socketVars, SocketRunInv, SocketInv, UpperCase, Message
  <2> QED
    BY <2>1, <2>2 DEF Next, vars, FileRuns, LoadRuns, PipeRuns, LifeRuns
<1>3. SocketRunInv => MessageShownOnce
  <2>1. CASE running = "socket"
    BY <2>1, ShownIsPrefix DEF SocketRunInv
  <2>2. CASE terminal = <<>> /\ ~served
    <3> DEFINE whole == Append(UpperCase(Message), NewLine)
    <3>1. whole \in Seq(Nat)
      BY MessageIsText, AppendProperties DEF NewLine
    <3>2. 0 <= Len(whole) /\ SubSeq(whole, 1, 0) = <<>>
      BY <3>1, SubSeqEmpty
    <3>3. Len(terminal) = 0 /\ SubSeq(terminal, 1, 0) = <<>>
      BY <2>2, SubSeqEmpty, EmptySeq
    <3> QED
      BY <2>2, <3>2, <3>3 DEF IsPrefix, MessageShownOnce
  <2> QED
    BY <2>1, <2>2 DEF SocketRunInv
<1> QED
  BY <1>1, <1>2, <1>3, PTL DEF Spec
-----------------------------------------------------------------------------
(* Who holds which end and how far the processes are.  A child whose call   *)
(* is still to come holds the end it calls for, so the other one's call     *)
(* goes through; once the writer has ended the message is in the pipe,      *)
(* unless the reader was never forked.                                      *)
PipeInv ==
  /\ DOMAIN stage = Process
  /\ \A c \in Child : stage[c] \in {"none", "begin", "transfer", "end"}
  /\ ends \in [Process -> SUBSET {"r", "w"}]
  /\ stage["parent"] = "writer" => \A c \in Child : stage[c] = "none"
  /\ stage["parent"] = "reader" => stage["reader"] = "none" /\ stage["writer"] # "none"
  /\ stage["reader"] # "none" => stage["writer"] # "none"
  /\ stage["parent"] \in Child => ends["parent"] = {"r", "w"}
  /\ \A c \in Child : stage[c] = "begin" => ends[c] = {"r", "w"}
  /\ stage["writer"] = "transfer" => "w" \in ends["writer"]
  /\ stage["reader"] = "transfer" => "r" \in ends["reader"]
  /\ full => stage["writer"] = "end"
  /\ ~cut => /\ stage["writer"] \in {"begin", "transfer"} => stage["reader"] # "end"
             /\ stage["writer"] = "end"
                  => full \/ (stage["reader"] = "none" /\ stage["parent"] # "reader")
             /\ stage["reader"] = "end" => printed = "message"

(* The other programs have no reader.                                       *)
PipeRunInv == IF running = "pipe" THEN PipeInv ELSE stage["reader"] = "none"

LEMMA PipeStep ==
  ASSUME PipeInv, PipeNext
  PROVE  PipeInv'
<1> USE DEF Process, Child
<1>1. CASE Fork("writer")
  BY <1>1 DEF Fork, Goes, PipeInv
<1>2. CASE Fork("reader")
  BY <1>2 DEF Fork, Goes, PipeInv
<1>3. CASE ParentCloses
  BY <1>3 DEF ParentCloses, Goes, PipeInv
<1>4. CASE ParentEnds
  BY <1>4 DEF ParentEnds, Goes, PipeInv
<1>5. ASSUME NEW c \in Child, Begin(c)
      PROVE  PipeInv'
  BY <1>5 DEF Begin, Kept, Goes, PipeInv
<1>6. CASE Write
  <2>1. /\ stage["writer"] = "transfer" /\ "w" \in ends["writer"]
        /\ stage' = [stage EXCEPT !["writer"] = "end"]
        /\ ends' = [ends EXCEPT !["writer"] = {}]
        /\ UNCHANGED <<cut, printed>>
    BY <1>6 DEF Write, Ends, Goes, PipeInv
  <2>2. /\ DOMAIN stage' = Process /\ ends' \in [Process -> SUBSET {"r", "w"}]
        /\ stage'["writer"] = "end"
        /\ \A p \in {"parent", "reader"} : stage'[p] = stage[p] /\ ends'[p] = ends[p]
    BY <2>1 DEF PipeInv
  <2>3. full' \/ cut \/ (stage["reader"] = "none" /\ stage["parent"] # "reader")
    <3>1. stage["reader"] \in {"begin", "transfer"} => "r" \in ends["reader"]
      BY DEF PipeInv
    <3>2. stage["parent"] = "reader" => "r" \in ends["parent"]
      BY DEF PipeInv
    <3>3. stage["reader"] = "end" => cut
      BY <2>1 DEF PipeInv
    <3>4. stage["reader"] \in {"none", "begin", "transfer", "end"}
      BY DEF PipeInv
    <3> QED
      BY <1>6, <2>1, <3>1, <3>2, <3>3, <3>4 DEF Write, Open
  <2> QED
    BY <2>1, <2>2, <2>3 DEF PipeInv
<1>7. CASE Read
  <2>1. /\ stage["reader"] = "transfer" /\ "r" \in ends["reader"]
        /\ stage' = [stage EXCEPT !["reader"] = "end"]
        /\ ends' = [ends EXCEPT !["reader"] = {}]
        /\ UNCHANGED <<cut, full>>
    BY <1>7 DEF Read, Ends, Goes, PipeInv
  <2>2. /\ DOMAIN stage' = Process /\ ends' \in [Process -> SUBSET {"r", "w"}]
        /\ stage'["reader"] = "end"
        /\ \A p \in {"parent", "writer"} : stage'[p] = stage[p] /\ ends'[p] = ends[p]
    BY <2>1 DEF PipeInv
  <2>3. full \/ ~Open("w")
    BY <1>7, <2>1 DEF Read
  <2>4. stage["writer"] = "end" /\ stage["parent"] \notin Child
    <3>1. stage["writer"] \in {"begin", "transfer"} => "w" \in ends["writer"]
      BY DEF PipeInv
    <3>2. stage["writer"] \in {"begin", "transfer", "end"} /\ stage["parent"] \notin Child
      BY <2>1 DEF PipeInv
    <3>3. full => stage["writer"] = "end"
      BY DEF PipeInv
    <3> QED
      BY <2>3, <3>1, <3>2, <3>3 DEF Open
  <2>5. full \/ cut
    BY <2>1, <2>4 DEF PipeInv
  <2>6. full => printed' = "message"
    BY <1>7, <2>1 DEF Read
  <2> QED
    BY <2>1, <2>2, <2>4, <2>5, <2>6 DEF PipeInv
<1>8. ASSUME NEW c \in Child, Interrupt(c)
      PROVE  PipeInv'
  BY <1>8 DEF Interrupt, Ends, Goes, PipeInv
<1> QED
  BY <1>1, <1>2, <1>3, <1>4, <1>5, <1>6, <1>7, <1>8
     DEF PipeNext, ParentStep, WriterStep, ReaderStep

(* A reader of 25 or 27 that has ended has the message, in whatever order   *)
(* the three processes run, fork and close their ends, unless a call was    *)
(* interrupted (25's main.c:28).  The message is one unit here: that it can *)
(* come in pieces is left out.                                              *)
THEOREM ReadersGetTheMessage == Spec => []ReaderGetsMessage
<1>1. Init => PipeRunInv
  <2>1. PipeInit => PipeInv
    BY DEF PipeInit, PipeInv, Process, Child
  <2> QED
    BY <2>1 DEF Init, NoPipe, PipeRunInv, Process, Child
<1>2. PipeRunInv /\ [Next]_vars => PipeRunInv'
  <2> SUFFICES ASSUME PipeRunInv, [Next]_vars
               PROVE  PipeRunInv'
    OBVIOUS
  <2>1. CASE PipeRuns
    BY <2>1, PipeStep DEF PipeRuns, PipeRunInv
  <2>2. CASE UNCHANGED <<running, pipeVars>>
    BY <2>2 DEF pipeVars, PipeRunInv, PipeInv
  <2> QED
    BY <2>1, <2>2 DEF Next, vars, FileRuns, LoadRuns, SocketRuns, LifeRuns
<1>3. PipeRunInv => ReaderGetsMessage
  BY DEF PipeRunInv, PipeInv, ReaderGetsMessage
<1> QED
  BY <1>1, <1>2, <1>3, PTL DEF Spec
-----------------------------------------------------------------------------
(* The line table of "5,6. File" and "7. mmap".  A line of s begins at a    *)
(* start of a line and ends at the next break or at the end.                *)
IsLine(s, b, e) ==
  /\ b \in LineStarts(s) /\ e \in Breaks(s) \cup {Len(s) + 1} /\ b < e
  /\ \A k \in Breaks(s) : ~(b < k /\ k < e)

(* Behind n characters of s the line that began at o is open.               *)
Opens(s, o, n) ==
  /\ o \in LineStarts(s) /\ o <= n /\ n <= Len(s)
  /\ \A k \in Breaks(s) : ~(o < k /\ k <= n)

Line == [offset : Nat, len : Nat]

(* t has the lines of s that end among the first n characters, in order.    *)
HasLines(s, t, n) ==
  /\ t \in Seq(Line)
  /\ \A i \in 1..Len(t) : /\ IsLine(s, t[i].offset, t[i].offset + t[i].len + 1)
                          /\ t[i].offset + t[i].len + 1 <= n
  /\ \A i, j \in 1..Len(t) : i < j => t[i].offset < t[j].offset
  /\ \A b, e \in 0..n : IsLine(s, b, e) =>
       \E i \in 1..Len(t) : t[i] = [offset |-> b, len |-> e - 1 - b]

LEMMA StartsAreNumbers ==
  ASSUME NEW S, NEW s \in Seq(S)
  PROVE  /\ Breaks(s) \subseteq Nat \ {0} /\ LineStarts(s) \subseteq Nat
         /\ \A k \in LineStarts(s) : k # 0 => k \in Breaks(s)
         /\ \A k \in Breaks(s) : k <= Len(s) /\ s[k] = NL
<1>1. DOMAIN s = 1..Len(s) /\ Len(s) \in Nat
  BY LenProperties
<1> QED
  BY <1>1 DEF Breaks, LineStarts

LEMMA LineAdded ==
  ASSUME NEW S, NEW s \in Seq(S), NEW t, NEW n \in Nat, NEW o \in Nat,
         HasLines(s, t, n), Opens(s, o, n),
         n = Len(s) \/ (n < Len(s) /\ s[n + 1] = NL)
  PROVE  HasLines(s, Append(t, [offset |-> o, len |-> n - o]), n + 1)
<1> DEFINE l == [offset |-> o, len |-> n - o]
           u == Append(t, l)
<1>1. Len(s) \in Nat /\ o <= n /\ n <= Len(s) /\ o \in LineStarts(s)
  BY LenProperties DEF Opens
<1>2. l \in Line /\ t \in Seq(Line) /\ l.offset = o /\ l.offset + l.len + 1 = n + 1
  BY <1>1 DEF HasLines, Line
<1> HIDE DEF l
<1>3. /\ u \in Seq(Line) /\ Len(u) = Len(t) + 1 /\ u[Len(t) + 1] = l
      /\ \A i \in 1..Len(t) : u[i] = t[i]
  BY <1>2, AppendProperties
<1>4. Len(t) \in Nat
  BY <1>2, LenProperties
<1> HIDE DEF u
<1>5. /\ Breaks(s) \subseteq Nat \ {0}
      /\ \A k \in LineStarts(s) : k \in Nat /\ (k # 0 => k \in Breaks(s))
      /\ \A k \in Breaks(s) : k <= Len(s)
  BY StartsAreNumbers
<1>6. IsLine(s, o, n + 1)
  <2>1. n + 1 \in Breaks(s) \cup {Len(s) + 1}
    <3>1. CASE n = Len(s)
      BY <3>1
    <3>2. CASE n < Len(s) /\ s[n + 1] = NL
      <4>1. n + 1 \in DOMAIN s
        BY <1>1, <3>2, LenProperties
      <4> QED
        BY <3>2, <4>1 DEF Breaks
    <3> QED
      BY <3>1, <3>2
  <2>2. \A k \in Breaks(s) : ~(o < k /\ k < n + 1)
    BY <1>5 DEF Opens
  <2> QED
    BY <1>1, <2>1, <2>2 DEF IsLine
<1>7. ASSUME NEW i \in 1..Len(t)
      PROVE  /\ IsLine(s, t[i].offset, t[i].offset + t[i].len + 1)
             /\ t[i].offset + t[i].len + 1 <= n
             /\ t[i].offset < o /\ t[i] \in Line
  <2> DEFINE b == t[i].offset
             e == t[i].offset + t[i].len + 1
  <2>1. IsLine(s, b, e) /\ e <= n
    BY DEF HasLines
  <2>2. t[i] \in Line
    BY <1>2, ElementOfSeq
  <2>3. b \in Nat /\ e \in Nat
    BY <2>2 DEF Line
  <2> HIDE DEF b, e
  <2>4. b < e /\ e \in Breaks(s)
    BY <1>1, <2>1, <2>3 DEF IsLine
  <2>5. e <= o
    BY <2>1, <2>3, <2>4 DEF Opens
  <2> QED
    BY <2>1, <2>2, <2>3, <2>4, <2>5 DEF b, e
<1>8. ASSUME NEW i \in 1..Len(u)
      PROVE  /\ IsLine(s, u[i].offset, u[i].offset + u[i].len + 1)
             /\ u[i].offset + u[i].len + 1 <= n + 1
  <2>1. CASE i = Len(t) + 1
    BY <1>2, <1>3, <1>6, <2>1
  <2>2. CASE i # Len(t) + 1
    <3>1. i \in 1..Len(t) /\ u[i] = t[i]
      BY <1>3, <1>4, <2>2
    <3>2. t[i] \in Line
      BY <1>7, <3>1
    <3>3. t[i].offset + t[i].len + 1 \in Nat
      BY <3>2 DEF Line
    <3> QED
      BY <1>7, <3>1, <3>3
  <2> QED
    BY <2>1, <2>2
<1>9. ASSUME NEW i \in 1..Len(u), NEW j \in 1..Len(u), i < j
      PROVE  u[i].offset < u[j].offset
  <2>1. i \in 1..Len(t) /\ u[i] = t[i]
    BY <1>3, <1>4, <1>9
  <2>2. CASE j = Len(t) + 1
    BY <1>2, <1>3, <1>7, <2>1, <2>2
  <2>3. CASE j # Len(t) + 1
    <3>1. j \in 1..Len(t) /\ u[j] = t[j]
      BY <1>3, <1>4, <2>3
    <3> QED
      BY <1>9, <2>1, <3>1 DEF HasLines
  <2> QED
    BY <2>2, <2>3
<1>10. ASSUME NEW b \in 0..(n + 1), NEW e \in 0..(n + 1), IsLine(s, b, e)
       PROVE  \E i \in 1..Len(u) : u[i] = [offset |-> b, len |-> e - 1 - b]
  <2>1. b < e /\ b \in LineStarts(s) /\ \A k \in Breaks(s) : ~(b < k /\ k < e)
    BY <1>10 DEF IsLine
  <2>2. CASE e = n + 1
    <3>1. b = o
      <4>1. ~(b < o)
        <5>1. o = 0 \/ o \in Breaks(s)
          BY <1>1, <1>5
        <5> QED
          BY <1>1, <2>1, <2>2, <5>1
      <4>2. ~(o < b)
        <5>1. b = 0 \/ b \in Breaks(s)
          BY <1>5, <2>1
        <5>2. b <= n
          BY <2>1, <2>2
        <5> QED
          BY <5>1, <5>2 DEF Opens
      <4> QED
        BY <4>1, <4>2
    <3>2. [offset |-> b, len |-> e - 1 - b] = l
      BY <1>1, <2>2, <3>1 DEF l
    <3>3. Len(t) + 1 \in 1..Len(u)
      BY <1>3, <1>4
    <3> QED
      BY <1>3, <3>2, <3>3
  <2>3. CASE e # n + 1
    <3>1. b \in 0..n /\ e \in 0..n
      BY <2>1, <2>3
    <3>2. PICK i \in 1..Len(t) : t[i] = [offset |-> b, len |-> e - 1 - b]
      BY <1>10, <3>1 DEF HasLines
    <3>3. i \in 1..Len(u) /\ u[i] = t[i]
      BY <1>3, <1>4
    <3> QED
      BY <3>2, <3>3
  <2> QED
    BY <2>2, <2>3
<1> QED
  BY <1>3, <1>8, <1>9, <1>10 DEF HasLines, u, l

LEMMA LineOpens ==
  ASSUME NEW S, NEW s \in Seq(S), NEW n \in Nat, n < Len(s), s[n + 1] = NL
  PROVE  Opens(s, n + 1, n + 1)
<1>1. Len(s) \in Nat /\ n + 1 \in DOMAIN s
  BY LenProperties
<1>2. n + 1 \in Breaks(s) /\ Breaks(s) \subseteq Nat
  BY <1>1, StartsAreNumbers DEF Breaks
<1> QED
  BY <1>1, <1>2 DEF Opens, LineStarts

LEMMA LineGoesOn ==
  ASSUME NEW S, NEW s \in Seq(S), NEW t, NEW n \in Nat, NEW o \in Nat,
         HasLines(s, t, n), Opens(s, o, n), n < Len(s), s[n + 1] # NL
  PROVE  HasLines(s, t, n + 1) /\ Opens(s, o, n + 1)
<1>1. Len(s) \in Nat /\ n + 1 \notin Breaks(s) /\ n + 1 # Len(s) + 1
  BY LenProperties DEF Breaks
<1>2. \A k \in Breaks(s) : k \in Nat
  BY StartsAreNumbers
<1>3. Opens(s, o, n + 1)
  BY <1>1, <1>2 DEF Opens
<1>4. ASSUME NEW b \in 0..(n + 1), NEW e \in 0..(n + 1), IsLine(s, b, e)
      PROVE  b \in 0..n /\ e \in 0..n
  BY <1>1, <1>4 DEF IsLine
<1>5. ASSUME NEW i \in 1..Len(t)
      PROVE  t[i].offset + t[i].len + 1 <= n + 1
  <2>1. t[i] \in Line /\ t[i].offset + t[i].len + 1 <= n
    BY ElementOfSeq DEF HasLines
  <2>2. t[i].offset + t[i].len + 1 \in Nat
    BY <2>1 DEF Line
  <2> QED
    BY <2>1, <2>2
<1> QED
  BY <1>3, <1>4, <1>5 DEF HasLines
-----------------------------------------------------------------------------
(* scan_file                                                                *)
Row == [offset : Int, len : Int]

ScanState == [table : Seq(Row), curr : Int, newLine : BOOLEAN,
              pos : Int, i : Int]

LEMMA EndLineIs ==
  ASSUME NEW m \in ScanState, NEW start \in Int, NEW len \in Int
  PROVE  EndLine(m, start, len) \in ScanState
<1>1. m.table \in Seq(Row) /\ [offset |-> start, len |-> len] \in Row
  BY DEF ScanState, Row
<1>2. Append(m.table, [offset |-> start, len |-> len]) \in Seq(Row)
  BY <1>1, AppendProperties
<1> QED
  BY <1>2 DEF ScanState, EndLine

LEMMA ScanCharIs ==
  ASSUME NEW m \in ScanState, NEW c \in Nat
  PROVE  ScanChar(m, c) \in ScanState
<1> DEFINE start == IF m.newLine THEN m.pos + m.i ELSE m.curr
           k == m.i + 1
           nl == (c = NL)
           next == [m EXCEPT !.curr = start, !.newLine = nl, !.i = k]
<1>1. m.pos \in Int /\ m.i \in Int /\ m.curr \in Int
  BY DEF ScanState
<1>2. start \in Int /\ k \in Int /\ nl \in BOOLEAN
  BY <1>1
<1> HIDE DEF start, k, nl
<1>3. next \in ScanState
  BY <1>2 DEF ScanState
<1>4. m.pos + m.i - start \in Int
  BY <1>1, <1>2
<1> HIDE DEF next
<1>5. EndLine(next, start, m.pos + m.i - start) \in ScanState
  BY <1>2, <1>3, <1>4, EndLineIs
<1>6. ScanChar(m, c) = IF c = NL THEN EndLine(next, start, m.pos + m.i - start) ELSE next
  BY DEF ScanChar, next, start, k, nl
<1> QED
  BY <1>3, <1>5, <1>6

(* What becomes of the scan's variables in a turn.                          *)
LEMMA ScanCharDoes ==
  ASSUME NEW m \in ScanState, NEW c \in Nat, NEW n, n = m.pos + m.i,
         NEW start, m.newLine => start = n, ~m.newLine => start = m.curr
  PROVE  /\ ScanChar(m, c).pos = m.pos /\ ScanChar(m, c).i = m.i + 1
         /\ c = NL => ScanChar(m, c).newLine
         /\ c # NL => ~ScanChar(m, c).newLine /\ ScanChar(m, c).curr = start
         /\ ScanChar(m, c).table =
              IF c = NL THEN Append(m.table, [offset |-> start, len |-> n - start])
                        ELSE m.table
<1> DEFINE here == m.pos + m.i
           from == IF m.newLine THEN here ELSE m.curr
           k == m.i + 1
           nl == (c = NL)
           next == [m EXCEPT !.curr = from, !.newLine = nl, !.i = k]
           size == m.pos + m.i - from
           e == EndLine(next, from, size)
           r == ScanChar(m, c)
<1> HIDE DEF here
<1>7. here = n
  BY DEF here
<1>0. from = start
  BY <1>7
<1>8. size = n - start
  <2>1. m.pos \in Int /\ m.i \in Int /\ m.curr \in Int
    BY DEF ScanState
  <2>2. start \in Int
    BY <2>1
  <2> HIDE DEF from
  <2>3. m.pos + m.i - from = (m.pos + m.i) - start
    BY <1>0, <2>1, <2>2
  <2> QED
    BY <2>3
<1> HIDE DEF from, k, nl, next, size, e, r
<1>1. r = IF c = NL THEN e ELSE next
  BY DEF ScanChar, here, from, k, nl, next, size, e, r
<1>2. next.newLine = nl /\ next.pos = m.pos /\ next.i = k
      /\ next.curr = from /\ next.table = m.table
  BY DEF ScanState, next
<1>3. /\ e.pos = next.pos /\ e.i = next.i /\ e.newLine = next.newLine
      /\ e.table = Append(next.table, [offset |-> from, len |-> size])
  BY DEF ScanState, EndLine, e, next
<1>6. k = m.i + 1 /\ nl = (c = NL)
  BY DEF k, nl
<1>4. CASE c = NL
  <2>1. nl
    BY <1>4, <1>6
  <2>2. r = e
    BY <1>1, <1>4
  <2>3. r.newLine /\ r.pos = m.pos /\ r.i = m.i + 1
    BY <1>2, <1>3, <1>6, <2>1, <2>2
  <2>4. r.table = Append(m.table, [offset |-> start, len |-> n - start])
    BY <1>0, <1>2, <1>3, <1>8, <2>2
  <2> QED
    BY <1>4, <2>3, <2>4 DEF r
<1>5. CASE c # NL
  <2>1. ~nl
    BY <1>5, <1>6
  <2>2. r = next
    BY <1>1, <1>5
  <2>3. ~r.newLine /\ r.pos = m.pos /\ r.i = m.i + 1 /\ r.curr = start
        /\ r.table = m.table
    BY <1>0, <1>2, <1>6, <2>1, <2>2
  <2> QED
    BY <1>5, <2>3 DEF r
<1> QED
  BY <1>4, <1>5

LEMMA MappedCharIs ==
  ASSUME NEW m \in ScanState, NEW c \in Nat
  PROVE  MappedChar(m, c) \in ScanState
<1> DEFINE next == [m EXCEPT !.i = @ + 1]
           moved == [next EXCEPT !.curr = m.i + 1]
<1>1. m.pos \in Int /\ m.i \in Int /\ m.curr \in Int
  BY DEF ScanState
<1>2. next \in ScanState
  BY <1>1 DEF ScanState
<1>3. moved \in ScanState
  BY <1>1, <1>2 DEF ScanState
<1> HIDE DEF moved
<1>4. m.i - m.curr \in Int
  BY <1>1
<1>5. EndLine(moved, m.curr, m.i - m.curr) \in ScanState
  BY <1>1, <1>3, <1>4, EndLineIs
<1>6. MappedChar(m, c) = IF c = NL THEN EndLine(moved, m.curr, m.i - m.curr) ELSE next
  BY DEF MappedChar, moved
<1> QED
  BY <1>2, <1>5, <1>6

ScanTurn == [x \in ScanState \X Nat |-> ScanChar(x[1], x[2])]

MappedTurn == [x \in ScanState \X Nat |-> MappedChar(x[1], x[2])]

LEMMA ScanRuns ==
  ASSUME NEW m \in ScanState, NEW s \in Seq(Nat)
  PROVE  \E w : LoopRun(w, ScanState, ScanTurn, m, s) /\ w[Len(s)] = FoldLeft(ScanChar, m, s)
<1> DEFINE n == Len(s)
           Eq(h) == h = [t \in SUBSET DOMAIN s |->
                           IF t = {} THEN m ELSE ScanChar(h[t \ {Max(t)}], s[Max(t)])]
           h == CHOOSE g : Eq(g)
<1>1. n \in Nat /\ DOMAIN s = 1..n /\ \A i \in 1..n : s[i] \in Nat
  BY LenProperties, ElementOfSeq
<1>2. IsLoopTurn(ScanTurn, ScanState, Nat)
  BY ScanCharIs DEF ScanTurn, IsLoopTurn, LoopTurn
<1>3. \A q \in ScanState : \A b \in Nat : LoopTurn(ScanTurn, q, b) = ScanChar(q, b)
  BY DEF ScanTurn, LoopTurn
<1>4. PICK g : g \in [SUBSET (1..n) -> ScanState] /\ Recursion(g, ScanTurn, m, s)
  BY <1>2, RecursionExists
<1>5. \A t \in SUBSET (1..n) : t # {} => Max(t) \in 1..n /\ t \ {Max(t)} \in SUBSET (1..n)
  BY <1>1, MaxOfPart
<1>6. Eq(g)
  <2>1. ASSUME NEW t \in SUBSET (1..n), t # {}
        PROVE  g[t] = ScanChar(g[t \ {Max(t)}], s[Max(t)])
    <3>1. g[t \ {Max(t)}] \in ScanState /\ s[Max(t)] \in Nat
      BY <1>1, <1>4, <1>5, <2>1
    <3>2. g[t] = LoopTurn(ScanTurn, g[t \ {Max(t)}], s[Max(t)])
      BY <1>4, <2>1 DEF Recursion
    <3> QED
      BY <1>3, <3>1, <3>2
  <2>2. \A t \in SUBSET (1..n) :
          g[t] = IF t = {} THEN m ELSE ScanChar(g[t \ {Max(t)}], s[Max(t)])
    BY <1>4, <2>1 DEF Recursion
  <2> QED
    BY <1>1, <1>4, <2>2
<1>7. Eq(h)
  BY <1>6
<1>8. FoldLeft(ScanChar, m, s) = h[1..n]
  BY <1>1 DEF FoldLeft, MapThenFoldSet
<1> HIDE DEF h
<1>9. \A t \in SUBSET (1..n) :
        h[t] = IF t = {} THEN m ELSE ScanChar(h[t \ {Max(t)}], s[Max(t)])
  BY <1>1, <1>7
<1>10. h[{}] = m
  BY <1>9
<1>11. ASSUME NEW t \in SUBSET (1..n), t # {}, h[t \ {Max(t)}] \in ScanState
       PROVE  h[t] = LoopTurn(ScanTurn, h[t \ {Max(t)}], s[Max(t)])
  BY <1>1, <1>3, <1>5, <1>9, <1>11
<1>12. Solution(h, ScanState, ScanTurn, m, s)
  BY <1>10, <1>11 DEF Solution
<1>13. \E w : LoopRun(w, ScanState, ScanTurn, m, s) /\ w[n] = h[1..n]
  <2> HIDE DEF n
  <2>1. Solution(h, ScanState, ScanTurn, m, s)
    BY <1>12
  <2>2. \E w : LoopRun(w, ScanState, ScanTurn, m, s) /\ w[Len(s)] = h[1..Len(s)]
    BY ONLY m \in ScanState, s \in Seq(Nat), <1>2, <2>1, RunOf
  <2> QED
    BY <2>2 DEF n
<1> QED
  BY <1>8, <1>13

LEMMA MappedRuns ==
  ASSUME NEW m \in ScanState, NEW s \in Seq(Nat)
  PROVE  \E w : /\ LoopRun(w, ScanState, MappedTurn, m, s)
                /\ w[Len(s)] = FoldLeft(MappedChar, m, s)
<1> DEFINE n == Len(s)
           Eq(h) == h = [t \in SUBSET DOMAIN s |->
                           IF t = {} THEN m ELSE MappedChar(h[t \ {Max(t)}], s[Max(t)])]
           h == CHOOSE g : Eq(g)
<1>1. n \in Nat /\ DOMAIN s = 1..n /\ \A i \in 1..n : s[i] \in Nat
  BY LenProperties, ElementOfSeq
<1>2. IsLoopTurn(MappedTurn, ScanState, Nat)
  BY MappedCharIs DEF MappedTurn, IsLoopTurn, LoopTurn
<1>3. \A q \in ScanState : \A b \in Nat : LoopTurn(MappedTurn, q, b) = MappedChar(q, b)
  BY DEF MappedTurn, LoopTurn
<1>4. PICK g : g \in [SUBSET (1..n) -> ScanState] /\ Recursion(g, MappedTurn, m, s)
  BY <1>2, RecursionExists
<1>5. \A t \in SUBSET (1..n) : t # {} => Max(t) \in 1..n /\ t \ {Max(t)} \in SUBSET (1..n)
  BY <1>1, MaxOfPart
<1>6. Eq(g)
  <2>1. ASSUME NEW t \in SUBSET (1..n), t # {}
        PROVE  g[t] = MappedChar(g[t \ {Max(t)}], s[Max(t)])
    <3>1. g[t \ {Max(t)}] \in ScanState /\ s[Max(t)] \in Nat
      BY <1>1, <1>4, <1>5, <2>1
    <3>2. g[t] = LoopTurn(MappedTurn, g[t \ {Max(t)}], s[Max(t)])
      BY <1>4, <2>1 DEF Recursion
    <3> QED
      BY <1>3, <3>1, <3>2
  <2>2. \A t \in SUBSET (1..n) :
          g[t] = IF t = {} THEN m ELSE MappedChar(g[t \ {Max(t)}], s[Max(t)])
    BY <1>4, <2>1 DEF Recursion
  <2> QED
    BY <1>1, <1>4, <2>2
<1>7. Eq(h)
  BY <1>6
<1>8. FoldLeft(MappedChar, m, s) = h[1..n]
  BY <1>1 DEF FoldLeft, MapThenFoldSet
<1> HIDE DEF h
<1>9. \A t \in SUBSET (1..n) :
        h[t] = IF t = {} THEN m ELSE MappedChar(h[t \ {Max(t)}], s[Max(t)])
  BY <1>1, <1>7
<1>10. h[{}] = m
  BY <1>9
<1>11. ASSUME NEW t \in SUBSET (1..n), t # {}, h[t \ {Max(t)}] \in ScanState
       PROVE  h[t] = LoopTurn(MappedTurn, h[t \ {Max(t)}], s[Max(t)])
  BY <1>1, <1>3, <1>5, <1>9, <1>11
<1>12. Solution(h, ScanState, MappedTurn, m, s)
  BY <1>10, <1>11 DEF Solution
<1>13. \E w : LoopRun(w, ScanState, MappedTurn, m, s) /\ w[n] = h[1..n]
  <2> HIDE DEF n
  <2>1. Solution(h, ScanState, MappedTurn, m, s)
    BY <1>12
  <2>2. \E w : LoopRun(w, ScanState, MappedTurn, m, s) /\ w[Len(s)] = h[1..Len(s)]
    BY ONLY m \in ScanState, s \in Seq(Nat), <1>2, <2>1, RunOf
  <2> QED
    BY <2>2 DEF n
<1> QED
  BY <1>8, <1>13
-----------------------------------------------------------------------------
(* scan_file has m when it has looked at n characters of s.                 *)
Follows(s, m, n) ==
  /\ m.newLine \in BOOLEAN /\ HasLines(s, m.table, n)
  /\ m.newLine => Opens(s, n, n)
  /\ ~m.newLine => Opens(s, m.curr, n)

LEMMA ScanFollows ==
  ASSUME NEW s \in Seq(Nat), NEW m \in ScanState, m.pos \in Nat, m.i \in Nat,
         m.pos + m.i < Len(s), Follows(s, m, m.pos + m.i)
  PROVE  LET r == ScanChar(m, s[m.pos + m.i + 1])
         IN  Follows(s, r, m.pos + m.i + 1) /\ r.pos = m.pos /\ r.i = m.i + 1
<1> DEFINE n == m.pos + m.i
           c == s[n + 1]
           start == IF m.newLine THEN n ELSE m.curr
           r == ScanChar(m, c)
<1>1. n \in Nat /\ n < Len(s) /\ Len(s) \in Nat
  BY LenProperties
<1>2. start \in Nat /\ Opens(s, start, n) /\ HasLines(s, m.table, n)
  <2>1. Opens(s, start, n)
    <3>1. CASE m.newLine
      BY <3>1 DEF Follows
    <3>2. CASE ~m.newLine
      BY <3>2 DEF Follows
    <3> QED
      BY <3>1, <3>2
  <2>2. start \in LineStarts(s)
    BY <2>1 DEF Opens
  <2> QED
    BY <2>1, <2>2, StartsAreNumbers DEF Follows
<1>3. c \in Nat
  BY <1>1, ElementOfSeq
<1>4. n = m.pos + m.i /\ (m.newLine => start = n) /\ (~m.newLine => start = m.curr)
  OBVIOUS
<1> HIDE DEF n, c, start, r
<1>5. /\ r.pos = m.pos /\ r.i = m.i + 1
      /\ c = NL => r.newLine
      /\ c # NL => ~r.newLine /\ r.curr = start
      /\ r.table = IF c = NL THEN Append(m.table, [offset |-> start, len |-> n - start])
                             ELSE m.table
  BY <1>3, <1>4, ScanCharDoes DEF r
<1>9. r.newLine \in BOOLEAN
  BY <1>3, ScanCharIs DEF r, ScanState
<1>6. CASE c = NL
  <2>1. HasLines(s, Append(m.table, [offset |-> start, len |-> n - start]), n + 1)
    BY <1>1, <1>2, <1>6, LineAdded DEF c
  <2>2. Opens(s, n + 1, n + 1)
    BY <1>1, <1>6, LineOpens DEF c
  <2>3. Follows(s, r, n + 1)
    BY <1>5, <1>6, <1>9, <2>1, <2>2 DEF Follows
  <2> QED
    BY <1>5, <2>3 DEF n, c, r
<1>7. CASE c # NL
  <2>1. HasLines(s, m.table, n + 1) /\ Opens(s, start, n + 1)
    BY <1>1, <1>2, <1>7, LineGoesOn DEF c
  <2>2. Follows(s, r, n + 1)
    BY <1>5, <1>7, <1>9, <2>1 DEF Follows
  <2> QED
    BY <1>5, <2>2 DEF n, c, r
<1> QED
  BY <1>6, <1>7

(* The end of the file is a break.                                          *)
LEMMA ScanEnds ==
  ASSUME NEW s \in Seq(Nat), NEW m \in ScanState, m.pos = Len(s), m.i = 0,
         Follows(s, m, Len(s))
  PROVE  HasLines(s, ScanChar(m, NL).table, Len(s) + 1)
<1> DEFINE n == Len(s)
           start == IF m.newLine THEN n ELSE m.curr
<1>1. n \in Nat /\ n = m.pos + m.i
  BY LenProperties
<1>2. start \in Nat /\ Opens(s, start, n) /\ HasLines(s, m.table, n)
  <2>1. Opens(s, start, n)
    <3>1. CASE m.newLine
      BY <3>1 DEF Follows
    <3>2. CASE ~m.newLine
      BY <3>2 DEF Follows
    <3> QED
      BY <3>1, <3>2
  <2>2. start \in LineStarts(s)
    BY <2>1 DEF Opens
  <2> QED
    BY <2>1, <2>2, StartsAreNumbers DEF Follows
<1>3. (m.newLine => start = n) /\ (~m.newLine => start = m.curr)
  OBVIOUS
<1>4. NL \in Nat
  BY DEF NL
<1> HIDE DEF n, start
<1>5. ScanChar(m, NL).table = Append(m.table, [offset |-> start, len |-> n - start])
  <2> DEFINE c == NL
  <2>1. c \in Nat
    BY <1>4
  <2> HIDE DEF c
  <2>2. /\ ScanChar(m, c).pos = m.pos /\ ScanChar(m, c).i = m.i + 1
        /\ c = NL => ScanChar(m, c).newLine
        /\ c # NL => ~ScanChar(m, c).newLine /\ ScanChar(m, c).curr = start
        /\ ScanChar(m, c).table =
             IF c = NL THEN Append(m.table, [offset |-> start, len |-> n - start])
                       ELSE m.table
    BY ONLY <1>1, <1>3, <2>1, m \in ScanState, ScanCharDoes
  <2> QED
    BY <2>2 DEF c
<1>6. n = Len(s)
  BY DEF n
<1>7. HasLines(s, Append(m.table, [offset |-> start, len |-> n - start]), n + 1)
  BY <1>1, <1>2, <1>6, LineAdded
<1> QED
  BY <1>5, <1>6, <1>7

LEMMA MappedFollows ==
  ASSUME NEW s \in Seq(Nat), NEW m \in ScanState, m.i \in Nat,
         m.i < Len(s), ~m.newLine, Follows(s, m, m.i)
  PROVE  LET r == MappedChar(m, s[m.i + 1])
         IN  Follows(s, r, m.i + 1) /\ ~r.newLine /\ r.i = m.i + 1
<1> DEFINE n == m.i
           c == s[n + 1]
           next == [m EXCEPT !.i = @ + 1]
           moved == [next EXCEPT !.curr = n + 1]
           r == MappedChar(m, c)
<1>1. n \in Nat /\ n < Len(s)
  OBVIOUS
<1>2. m.curr \in Nat /\ Opens(s, m.curr, n) /\ HasLines(s, m.table, n)
  <2>1. Opens(s, m.curr, n) /\ HasLines(s, m.table, n)
    BY DEF Follows
  <2>2. m.curr \in LineStarts(s)
    BY <2>1 DEF Opens
  <2> QED
    BY <2>1, <2>2, StartsAreNumbers
<1>3. r = IF c = NL THEN EndLine(moved, m.curr, n - m.curr) ELSE next
  BY DEF MappedChar
<1> HIDE DEF r
<1>4. next.i = n + 1 /\ next.table = m.table /\ next.curr = m.curr
      /\ next.newLine = m.newLine
  BY DEF ScanState
<1>5. CASE c = NL
  <2>1. r = EndLine(moved, m.curr, n - m.curr)
    BY <1>3, <1>5
  <2>2. r.table = Append(m.table, [offset |-> m.curr, len |-> n - m.curr])
        /\ r.newLine = m.newLine /\ r.curr = n + 1 /\ r.i = n + 1
    BY <2>1 DEF EndLine, ScanState
  <2>3. HasLines(s, r.table, n + 1)
    <3>1. HasLines(s, Append(m.table, [offset |-> m.curr, len |-> n - m.curr]), n + 1)
      BY <1>1, <1>2, <1>5, LineAdded
    <3> QED
      BY <2>2, <3>1
  <2>4. Opens(s, n + 1, n + 1)
    BY <1>1, <1>5, LineOpens
  <2> QED
    BY <2>2, <2>3, <2>4 DEF Follows, r
<1>6. CASE c # NL
  <2>1. r.table = m.table /\ r.curr = m.curr /\ r.newLine = m.newLine /\ r.i = n + 1
    BY <1>3, <1>4, <1>6
  <2>2. HasLines(s, m.table, n + 1) /\ Opens(s, m.curr, n + 1)
    BY <1>1, <1>2, <1>6, LineGoesOn
  <2> QED
    BY <2>1, <2>2 DEF Follows, r
<1> QED
  BY <1>5, <1>6
-----------------------------------------------------------------------------
(* The loop over a chunk.                                                   *)
LEMMA ChunkFollows ==
  ASSUME NEW s \in Seq(Nat), NEW m \in ScanState, m.pos \in Nat, m.i = 0,
         Follows(s, m, m.pos),
         NEW chunk \in Seq(Nat), m.pos + Len(chunk) <= Len(s),
         \A j \in 1..Len(chunk) : chunk[j] = s[m.pos + j]
  PROVE  /\ FoldLeft(ScanChar, m, chunk) \in ScanState
         /\ Follows(s, FoldLeft(ScanChar, m, chunk), m.pos + Len(chunk))
<1> DEFINE k == Len(chunk)
           p == m.pos
           r == FoldLeft(ScanChar, m, chunk)
<1>1. k \in Nat /\ p \in Nat /\ Len(s) \in Nat /\ p + k <= Len(s)
      /\ \A j \in 1..k : chunk[j] = s[p + j] /\ chunk[j] \in Nat
  BY LenProperties, ElementOfSeq
<1>2. PICK w : LoopRun(w, ScanState, ScanTurn, m, chunk) /\ w[k] = r
  BY ScanRuns
<1>3. /\ w \in [0..k -> ScanState] /\ w[0] = m
      /\ \A j \in 1..k : w[j] = LoopTurn(ScanTurn, w[j - 1], chunk[j])
  BY <1>2 DEF LoopRun
<1>9. p = m.pos /\ m.i = 0 /\ Follows(s, m, p)
  OBVIOUS
<1> HIDE DEF k, p, r
<1> DEFINE T == {j \in 0..k : w[j].pos = p /\ w[j].i = j /\ Follows(s, w[j], p + j)}
<1>4. 0 \in T
  <2>1. 0 \in 0..k /\ p + 0 = p
    BY <1>1
  <2> QED
    BY <1>3, <1>9, <2>1
<1>5. ASSUME NEW j \in 0..(k - 1), j \in T
      PROVE  j + 1 \in T
  <2>1. j + 1 \in 1..k /\ (j + 1) - 1 = j /\ j \in 0..k /\ j + 1 \in 0..k /\ j \in Nat
    BY <1>1
  <2>2. w[j].pos = p /\ w[j].i = j /\ Follows(s, w[j], p + j) /\ w[j] \in ScanState
    BY <1>3, <1>5, <2>1
  <2> DEFINE q == w[j]
             c == chunk[j + 1]
  <2>3. c = s[p + (j + 1)] /\ c \in Nat
    BY <1>1, <2>1
  <2>4. w[j + 1] = ScanChar(q, c)
    <3>1. w[j + 1] = LoopTurn(ScanTurn, w[j], chunk[j + 1])
      BY <1>3, <2>1
    <3> QED
      BY <2>2, <2>3, <3>1 DEF LoopTurn, ScanTurn
  <2>5. p + j < Len(s) /\ p + j + 1 = p + (j + 1)
    BY <1>1, <2>1
  <2>6. q \in ScanState /\ q.pos \in Nat /\ q.i \in Nat /\ q.pos + q.i < Len(s)
        /\ Follows(s, q, q.pos + q.i)
    BY <1>1, <2>1, <2>2, <2>5
  <2> HIDE DEF q, c
  <2>7. /\ Follows(s, ScanChar(q, s[q.pos + q.i + 1]), q.pos + q.i + 1)
        /\ ScanChar(q, s[q.pos + q.i + 1]).pos = q.pos
        /\ ScanChar(q, s[q.pos + q.i + 1]).i = q.i + 1
    BY <2>6, ScanFollows
  <2>8. q.pos = p /\ q.i = j
    BY <2>2 DEF q
  <2>9. s[q.pos + q.i + 1] = c /\ q.pos + q.i + 1 = p + (j + 1)
    BY <2>3, <2>5, <2>8
  <2> QED
    BY <2>1, <2>4, <2>7, <2>8, <2>9
<1> HIDE DEF T
<1>6. \A j \in 0..k : j \in T
  BY <1>1, <1>4, <1>5, InductionTo
<1>7. k \in T /\ w[k] \in ScanState
  BY <1>1, <1>3, <1>6
<1> QED
  BY <1>2, <1>7 DEF T, k, p, r

(* The loop over what stands for the end of the file.                       *)
LEMMA EndOfFileTurn ==
  ASSUME NEW m \in ScanState
  PROVE  FoldLeft(ScanChar, m, <<NL>>) = ScanChar(m, NL)
<1> DEFINE c == NL
           s == <<c>>
<1>1. c \in Nat
  BY DEF NL
<1> HIDE DEF c
<1>2. s \in Seq(Nat) /\ Len(s) = 1 /\ s[1] = c
  BY <1>1
<1> HIDE DEF s
<1>3. PICK w : LoopRun(w, ScanState, ScanTurn, m, s) /\ w[Len(s)] = FoldLeft(ScanChar, m, s)
  BY <1>2, ScanRuns
<1>4. w[1] = LoopTurn(ScanTurn, w[0], s[1]) /\ w[0] = m
  <2>1. /\ w[0] = m
        /\ \A i \in 1..Len(s) : w[i] = LoopTurn(ScanTurn, w[i - 1], s[i])
    BY <1>3 DEF LoopRun
  <2>2. 1 \in 1..Len(s) /\ 1 - 1 = 0
    BY <1>2
  <2> QED
    BY <2>1, <2>2
<1>5. w[1] = ScanChar(m, c)
  BY <1>1, <1>2, <1>4 DEF LoopTurn, ScanTurn
<1>6. FoldLeft(ScanChar, m, s) = ScanChar(m, c)
  BY <1>2, <1>3, <1>5
<1> QED
  BY <1>6 DEF s, c

LEMMA MappingFollows ==
  ASSUME NEW s \in Seq(Nat), NEW m \in ScanState, m.i = 0, ~m.newLine, Follows(s, m, 0)
  PROVE  Follows(s, FoldLeft(MappedChar, m, s), Len(s))
<1> DEFINE k == Len(s)
           r == FoldLeft(MappedChar, m, s)
<1>1. k \in Nat /\ k = Len(s) /\ \A j \in 1..k : s[j] \in Nat
  BY LenProperties, ElementOfSeq
<1>2. PICK w : LoopRun(w, ScanState, MappedTurn, m, s) /\ w[k] = r
  BY MappedRuns
<1>3. /\ w \in [0..k -> ScanState] /\ w[0] = m
      /\ \A j \in 1..k : w[j] = LoopTurn(MappedTurn, w[j - 1], s[j])
  BY <1>2 DEF LoopRun
<1> HIDE DEF k, r
<1> DEFINE T == {j \in 0..k : w[j].i = j /\ ~w[j].newLine /\ Follows(s, w[j], j)}
<1>4. 0 \in T
  <2>1. 0 \in 0..k
    BY <1>1
  <2> QED
    BY <1>3, <2>1
<1>5. ASSUME NEW j \in 0..(k - 1), j \in T
      PROVE  j + 1 \in T
  <2>1. j + 1 \in 1..k /\ (j + 1) - 1 = j /\ j \in 0..k /\ j + 1 \in 0..k /\ j \in Nat
        /\ j < k
    BY <1>1
  <2>2. w[j].i = j /\ ~w[j].newLine /\ Follows(s, w[j], j) /\ w[j] \in ScanState
    BY <1>3, <1>5, <2>1
  <2> DEFINE q == w[j]
             c == s[j + 1]
  <2>3. c \in Nat
    BY <1>1, <2>1
  <2>4. w[j + 1] = MappedChar(q, c)
    <3>1. w[j + 1] = LoopTurn(MappedTurn, w[j], s[j + 1])
      BY <1>3, <2>1
    <3> QED
      BY <2>2, <2>3, <3>1 DEF LoopTurn, MappedTurn
  <2>6. q \in ScanState /\ q.i \in Nat /\ q.i < Len(s) /\ ~q.newLine /\ Follows(s, q, q.i)
    BY <1>1, <2>1, <2>2
  <2>8. q.i = j
    BY <2>2
  <2> HIDE DEF q
  <2>7. /\ Follows(s, MappedChar(q, s[q.i + 1]), q.i + 1)
        /\ ~MappedChar(q, s[q.i + 1]).newLine
        /\ MappedChar(q, s[q.i + 1]).i = q.i + 1
    BY <2>6, MappedFollows
  <2> QED
    BY <2>1, <2>4, <2>7, <2>8
<1> HIDE DEF T
<1>6. \A j \in 0..k : j \in T
  BY <1>1, <1>4, <1>5, InductionTo
<1>7. k \in T
  BY <1>1, <1>6
<1> QED
  BY <1>2, <1>7 DEF T, k, r
-----------------------------------------------------------------------------
(* The table and the file                                                   *)

(* A line has one end.                                                      *)
LEMMA LineEndIs ==
  ASSUME NEW s \in Seq(Nat), NEW b \in LineStarts(s)
  PROVE  /\ LineEnd(s, b) \in Nat /\ b \in Nat /\ b < LineEnd(s, b)
         /\ LineEnd(s, b) <= Len(s) + 1 /\ IsLine(s, b, LineEnd(s, b))
         /\ \A e \in Nat : IsLine(s, b, e) => e = LineEnd(s, b)
<1> DEFINE behind == {i \in Breaks(s) : i > b} \cup {Len(s) + 1}
           end == LineEnd(s, b)
<1>1. Len(s) \in Nat /\ b \in Nat /\ b <= Len(s)
      /\ \A k \in Breaks(s) : k \in Nat /\ k <= Len(s)
  <2>1. Len(s) \in Nat
    BY LenProperties
  <2>2. /\ Breaks(s) \subseteq Nat \ {0} /\ LineStarts(s) \subseteq Nat
        /\ \A k \in LineStarts(s) : k # 0 => k \in Breaks(s)
        /\ \A k \in Breaks(s) : k <= Len(s)
    BY StartsAreNumbers
  <2> QED
    BY <2>1, <2>2
<1>2. behind \in SUBSET Nat /\ behind # {}
  BY <1>1
<1>3. \E e \in behind : \A f \in behind : e <= f
  BY <1>2, LeastNat
<1>4. end \in behind /\ \A f \in behind : end <= f
  BY <1>3 DEF LineEnd
<1> HIDE DEF end
<1>5. end \in Nat /\ b < end /\ end <= Len(s) + 1
  BY <1>1, <1>4
<1>6. IsLine(s, b, end)
  BY <1>1, <1>4, <1>5 DEF IsLine
<1>7. ASSUME NEW e \in Nat, IsLine(s, b, e)
      PROVE  e = end
  <2>1. e \in behind /\ \A k \in Breaks(s) : ~(b < k /\ k < e)
    BY <1>1, <1>7 DEF IsLine
  <2>2. end <= e
    BY <1>4, <2>1
  <2>3. ~(end < e)
    <3>1. e <= Len(s) + 1
      BY <1>1, <2>1
    <3>2. end \in Breaks(s) \/ end = Len(s) + 1
      BY <1>4
    <3> QED
      BY <1>1, <1>5, <2>1, <3>1, <3>2
  <2> QED
    BY <1>5, <2>2, <2>3
<1> QED
  BY <1>1, <1>5, <1>6, <1>7 DEF end

LEMMA TableHasTheLines ==
  ASSUME NEW s \in Seq(Nat), NEW t, NEW n \in {Len(s), Len(s) + 1}, HasLines(s, t, n)
  PROVE  /\ \A i, j \in DOMAIN t : i < j => t[i].offset < t[j].offset
         /\ ToSet(t) = {l \in LinesOf(s) : n = Len(s) + 1 \/ l.offset + l.len < Len(s)}
<1>1. Len(s) \in Nat /\ n \in Nat /\ n <= Len(s) + 1
  BY LenProperties
<1>2. t \in Seq(Line) /\ DOMAIN t = 1..Len(t) /\ \A i \in 1..Len(t) : t[i] \in Line
  BY LenProperties, ElementOfSeq DEF HasLines
<1>3. \A i, j \in DOMAIN t : i < j => t[i].offset < t[j].offset
  BY <1>2 DEF HasLines
<1> DEFINE wanted == {l \in LinesOf(s) : n = Len(s) + 1 \/ l.offset + l.len < Len(s)}
<1>4. ASSUME NEW i \in 1..Len(t)
      PROVE  t[i] \in wanted
  <2> DEFINE b == t[i].offset
             e == t[i].offset + t[i].len + 1
  <2>1. b \in Nat /\ t[i].len \in Nat /\ e \in Nat /\ e - 1 - b = t[i].len
        /\ t[i] = [offset |-> b, len |-> t[i].len]
    BY <1>2 DEF Line
  <2>2. IsLine(s, b, e) /\ e <= n
    BY DEF HasLines
  <2>3. b \in LineStarts(s)
    BY <2>2 DEF IsLine
  <2>4. e = LineEnd(s, b)
    BY <2>1, <2>2, <2>3, LineEndIs
  <2>5. t[i] = [offset |-> b, len |-> LineEnd(s, b) - 1 - b]
    <3> HIDE DEF b, e
    <3> QED
      BY <2>1, <2>4
  <2>6. t[i] \in LinesOf(s)
    BY <2>3, <2>5 DEF LinesOf
  <2>7. n = Len(s) + 1 \/ t[i].offset + t[i].len < Len(s)
    BY <1>1, <2>1, <2>2
  <2> QED
    BY <2>6, <2>7
<1>5. ASSUME NEW l \in wanted
      PROVE  \E i \in 1..Len(t) : t[i] = l
  <2>1. PICK b \in LineStarts(s) : l = [offset |-> b, len |-> LineEnd(s, b) - 1 - b]
    BY DEF LinesOf
  <2> DEFINE e == LineEnd(s, b)
  <2>2. e \in Nat /\ b \in Nat /\ b < e /\ e <= Len(s) + 1 /\ IsLine(s, b, e)
    BY LineEndIs
  <2>3. l = [offset |-> b, len |-> e - 1 - b]
    BY <2>1
  <2> HIDE DEF e
  <2>4. e <= n
    <3>1. CASE n = Len(s) + 1
      BY <2>2, <3>1
    <3>2. CASE n # Len(s) + 1
      <4>1. l.offset + l.len < Len(s) /\ n = Len(s)
        BY <3>2
      <4>2. b + (e - 1 - b) < Len(s)
        BY <2>3, <4>1
      <4> QED
        BY <1>1, <2>2, <4>1, <4>2
    <3> QED
      BY <3>1, <3>2
  <2>5. b \in 0..n /\ e \in 0..n
    BY <1>1, <2>2, <2>4
  <2> QED
    BY <2>2, <2>3, <2>5 DEF HasLines
<1>6. ToSet(t) = wanted
  BY <1>2, <1>4, <1>5 DEF ToSet
<1> QED
  BY <1>3, <1>6
-----------------------------------------------------------------------------
(* The characters from a on up to b.                                        *)
LEMMA PieceIs ==
  ASSUME NEW S, NEW s \in Seq(S), NEW a \in Nat, NEW b \in Nat, a <= b, b <= Len(s)
  PROVE  /\ SubSeq(s, a + 1, b) \in Seq(S) /\ Len(SubSeq(s, a + 1, b)) = b - a
         /\ \A i \in 1..(b - a) : SubSeq(s, a + 1, b)[i] = s[a + i]
<1>1. Len(s) \in Nat
  BY LenProperties
<1>2. \A i \in (a + 1)..b : s[i] \in S
  BY <1>1, ElementOfSeq
<1>3. /\ SubSeq(s, a + 1, b) \in Seq(S)
      /\ Len(SubSeq(s, a + 1, b)) = IF a + 1 <= b THEN b - (a + 1) + 1 ELSE 0
  BY <1>1, <1>2, SubSeqProperties
<1> QED
  BY <1>1, <1>3, SubSeqProperties
-----------------------------------------------------------------------------
(* What "5,6. File" and "7. mmap" have at every moment, until the file is   *)
(* cut off: the table has the lines of what was scanned, and whatever is to *)
(* be printed lies in the file.                                             *)
LastBreak == IF program = "read" THEN Len(file) + 1 ELSE Len(file)

FitsIn(ls) ==
  /\ ls \in Seq(Line)
  /\ \A i \in 1..Len(ls) : ls[i].offset + ls[i].len <= Len(file)

ScanInv ==
  /\ at \in 0..Len(file) /\ (program = "mmap" => at = 0 /\ ~newLine)
  /\ Scanned \in ScanState /\ Follows(file, Scanned, at)

PutLines == {Put(c) : c \in Seq(Nat)}

(* The first pieces of the line l are shown and the next one is due, or     *)
(* they are all its pieces.                                                 *)
Pieced(l) ==
  /\ shown \in Seq(PutLines) /\ AreFirstPieces(shown, LineText(l))
  /\ \/ left > 0 /\ at = l.offset + PieceEnd(Len(shown))
                /\ left = l.len - PieceEnd(Len(shown))
     \/ left = 0 /\ l.len <= PieceEnd(Len(shown))

(* The line l is still to be shown or was shown in one go.                  *)
Mapped(l) ==
  \/ shown = <<>> /\ at = l.offset /\ left = l.len
  \/ shown = <<LineText(l)>> /\ left = 0

PrintInv ==
  /\ FitsIn(todo) /\ todo # <<>>
  /\ IF program = "mmap" THEN Mapped(Head(todo)) ELSE Pieced(Head(todo))

FileInv ==
  ~shrunk =>
    /\ program \in {"read", "mmap"} /\ file \in Seq(Nat)
    /\ mode \in {"scan", "read", "print", "quit"}
    /\ mode = "scan" => ScanInv
    /\ mode # "scan" => HasLines(file, table, LastBreak)
    /\ mode = "print" => PrintInv

LEMMA TableFits ==
  ASSUME file \in Seq(Nat), HasLines(file, table, LastBreak)
  PROVE  FitsIn(table) /\ \A i \in DOMAIN table : FitsIn(<<table[i]>>)
<1>1. table \in Seq(Line) /\ DOMAIN table = 1..Len(table)
      /\ \A i \in 1..Len(table) : table[i] \in Line
  BY LenProperties, ElementOfSeq DEF HasLines
<1>2. Len(file) \in Nat /\ LastBreak \in Nat /\ LastBreak <= Len(file) + 1
  BY LenProperties DEF LastBreak
<1>3. ASSUME NEW i \in 1..Len(table)
      PROVE  table[i].offset + table[i].len <= Len(file)
  <2>1. table[i].offset + table[i].len + 1 <= LastBreak
    BY DEF HasLines
  <2>2. table[i].offset \in Nat /\ table[i].len \in Nat
    BY <1>1 DEF Line
  <2> QED
    BY <1>2, <2>1, <2>2
<1>4. ASSUME NEW i \in DOMAIN table
      PROVE  FitsIn(<<table[i]>>)
  <2>1. table[i] \in Line /\ table[i].offset + table[i].len <= Len(file)
    BY <1>1, <1>3
  <2> DEFINE l == table[i]
  <2> HIDE DEF l
  <2>2. <<l>> \in Seq(Line) /\ Len(<<l>>) = 1 /\ <<l>>[1] = l
    BY <2>1 DEF l
  <2>3. l.offset + l.len <= Len(file)
    BY <2>1 DEF l
  <2>4. FitsIn(<<l>>)
    BY <2>2, <2>3 DEF FitsIn
  <2> QED
    BY <2>4 DEF l
<1> QED
  BY <1>1, <1>3, <1>4 DEF FitsIn

LEMMA NothingFits == FitsIn(<<>>)
  BY EmptySeq DEF FitsIn

LEMMA FirstFits ==
  ASSUME file \in Seq(Nat), NEW ls, FitsIn(ls), ls # <<>>
  PROVE  /\ Head(ls) \in Line /\ Head(ls).offset \in Nat /\ Head(ls).len \in Nat
         /\ Head(ls).offset + Head(ls).len <= Len(file) /\ Len(file) \in Nat
<1>1. ls \in Seq(Line) /\ Len(ls) \in Nat /\ Len(ls) # 0 /\ Len(file) \in Nat
  BY EmptySeq, LenProperties DEF FitsIn
<1>2. Head(ls) = ls[1] /\ 1 \in 1..Len(ls)
  BY <1>1, HeadTailProperties
<1>3. ls[1] \in Line /\ ls[1].offset + ls[1].len <= Len(file)
  BY <1>1, <1>2, ElementOfSeq DEF FitsIn
<1>4. ls[1].offset \in Nat /\ ls[1].len \in Nat
  BY <1>3 DEF Line
<1> QED
  BY <1>1, <1>2, <1>3, <1>4

LEMMA TextIs ==
  ASSUME file \in Seq(Nat), NEW l, l.offset \in Nat, l.len \in Nat,
         l.offset + l.len <= Len(file)
  PROVE  LineText(l) \in Seq(Nat) /\ Len(LineText(l)) = l.len
<1> DEFINE o == l.offset
           n == l.len
           e == o + n
<1>1. o \in Nat /\ n \in Nat /\ e \in Nat /\ o <= e /\ e <= Len(file) /\ e - o = n
  OBVIOUS
<1>2. LineText(l) = SubSeq(file, o + 1, e)
  BY DEF LineText
<1> HIDE DEF o, n, e
<1>3. SubSeq(file, o + 1, e) \in Seq(Nat) /\ Len(SubSeq(file, o + 1, e)) = e - o
  BY <1>1, PieceIs
<1> QED
  BY <1>1, <1>2, <1>3 DEF n

LEMMA PieceEnds ==
  /\ PieceEnd(0) = 0 /\ ChunkSize - 1 \in Nat /\ ChunkSize - 1 > 0
  /\ \A k \in Nat : /\ PieceEnd(k) \in Nat
                    /\ PieceEnd(k + 1) = PieceEnd(k) + (ChunkSize - 1)
<1>1. ChunkSize \in Nat /\ ChunkSize > 1
  BY FileAssumption
<1> DEFINE c == ChunkSize - 1
<1>2. c \in Nat /\ c > 0
  BY <1>1
<1> HIDE DEF c
<1>3. 0 * c = 0 /\ \A k \in Nat : k * c \in Nat /\ (k + 1) * c = k * c + c
  BY <1>2
<1>4. \A k : PieceEnd(k) = k * c
  BY DEF PieceEnd, c
<1> QED
  BY <1>2, <1>3, <1>4 DEF c

(* print_lines and print_line begin.                                        *)
LEMMA LinesBegin ==
  ASSUME file \in Seq(Nat), NEW ls, FitsIn(ls), NEW quits, PrintLines(ls, quits),
         UNCHANGED file
  PROVE  /\ mode' \in {"read", "print", "quit"}
         /\ (mode = "print" => PrintInv)'
<1>1. Len(file) \in Nat
  BY LenProperties
<1>2. CASE ls = <<>>
  <2>1. mode' = IF quits THEN "quit" ELSE "read"
    BY <1>2 DEF PrintLines
  <2>2. mode' \in {"read", "quit"}
    BY <2>1
  <2> QED
    BY <2>2
<1>3. CASE ls # <<>>
  <2>1. mode' = "print" /\ left' = Head(ls).len /\ at' = Head(ls).offset
        /\ todo' = ls /\ shown' = <<>>
    BY <1>3 DEF PrintLines
  <2>2. ls \in Seq(Line) /\ Len(ls) \in Nat /\ Len(ls) # 0
    BY <1>3, EmptySeq DEF FitsIn
  <2> DEFINE l == Head(ls)
  <2>3. l.offset \in Nat /\ l.len \in Nat /\ l.offset + l.len <= Len(file)
    BY <1>3, FirstFits
  <2> HIDE DEF l
  <2>4. at' = l.offset /\ left' = l.len /\ Head(todo') = l /\ todo' = ls
    BY <2>1 DEF l
  <2>5. FitsIn(todo)' /\ todo' # <<>>
    BY <1>3, <2>4 DEF FitsIn
  <2>6. Mapped(l)'
    BY <2>1, <2>4 DEF Mapped
  <2>7. Pieced(l)'
    <3>1. <<>> \in Seq(PutLines) /\ Len(<<>>) = 0 /\ DOMAIN <<>> = {}
      BY EmptySeq, LenProperties
    <3>2. AreFirstPieces(shown', LineText(l)')
      BY <2>1, <3>1 DEF AreFirstPieces
    <3>3. PieceEnd(Len(shown')) = 0
      BY <2>1, <3>1, PieceEnds
    <3>4. \/ left' > 0 /\ at' = l.offset + PieceEnd(Len(shown'))
                      /\ left' = l.len - PieceEnd(Len(shown'))
          \/ left' = 0 /\ l.len <= PieceEnd(Len(shown'))
      BY <2>3, <2>4, <3>3
    <3>5. shown' \in Seq(PutLines)
      BY <2>1, <3>1
    <3> QED
      BY <3>2, <3>4, <3>5 DEF Pieced
  <2>8. Mapped(Head(todo))' /\ Pieced(Head(todo))'
    BY <2>4, <2>6, <2>7
  <2> QED
    BY <2>1, <2>5, <2>8 DEF PrintInv
<1> QED
  BY <1>2, <1>3

(* read_line has returned l.                                                *)
LEMMA ReturnedBegins ==
  ASSUME file \in Seq(Nat), HasLines(file, table, LastBreak), UNCHANGED file,
         NEW l, Returned(l)
  PROVE  /\ mode' \in {"read", "print", "quit"}
         /\ (mode = "print" => PrintInv)'
<1>1. CASE PrintLines(<<>>, FALSE)
  BY <1>1, NothingFits, LinesBegin
<1>2. CASE Answer(Front(l))
  <2> DEFINE n == Number(Front(l))
  <2>1. IF n \in DOMAIN table THEN PrintLines(<<table[n]>>, FALSE)
                              ELSE PrintLines(<<>>, n = 0)
    BY <1>2 DEF Answer
  <2> HIDE DEF n
  <2>2. CASE n \in DOMAIN table
    <3>1. FitsIn(<<table[n]>>)
      BY <2>2, TableFits
    <3>2. PrintLines(<<table[n]>>, FALSE)
      BY <2>1, <2>2
    <3> QED
      BY <3>1, <3>2, LinesBegin
  <2>3. CASE n \notin DOMAIN table
    <3>1. PrintLines(<<>>, n = 0)
      BY <2>1, <2>3
    <3> QED
      BY <3>1, NothingFits, LinesBegin
  <2> QED
    BY <2>2, <2>3
<1>3. PrintLines(<<>>, FALSE) \/ Answer(Front(l))
  BY DEF Returned
<1> QED
  BY <1>1, <1>2, <1>3

(* A step that leaves the table and the file alone keeps the invariant if   *)
(* printing begins rightly.                                                 *)
LEMMA TableStays ==
  ASSUME FileInv, mode # "scan", UNCHANGED <<program, file, shrunk, table>>,
         mode' \in {"read", "print", "quit"},
         ~shrunk => (mode = "print" => PrintInv)'
  PROVE  FileInv'
<1> SUFFICES ASSUME ~shrunk
             PROVE  FileInv'
  BY DEF FileInv
<1>1. /\ program \in {"read", "mmap"} /\ file \in Seq(Nat)
      /\ HasLines(file, table, LastBreak)
  BY DEF FileInv
<1>2. LastBreak' = LastBreak
  BY DEF LastBreak
<1>3. HasLines(file', table', LastBreak')
  BY <1>1, <1>2
<1>4. mode' # "scan" /\ mode' \in {"scan", "read", "print", "quit"}
  OBVIOUS
<1> QED
  BY <1>1, <1>3, <1>4 DEF FileInv

(* So does one that leaves alone what is printed, too.                      *)
LEMMA PrintingStays ==
  ASSUME FileInv, mode \in {"read", "print"},
         UNCHANGED <<program, file, shrunk, mode, scanner, at, printer>>
  PROVE  FileInv'
<1>1. UNCHANGED <<program, file, shrunk, table, mode, at, todo, left, shown>>
  BY DEF scanner, printer
<1>2. mode # "scan" /\ mode' \in {"read", "print", "quit"}
  BY <1>1
<1>3. ASSUME ~shrunk, mode' = "print"
      PROVE  PrintInv'
  <2>1. PrintInv
    BY <1>1, <1>3 DEF FileInv
  <2> QED
    BY <1>1, <2>1 DEF PrintInv, FitsIn, Mapped, Pieced, LineText
<1> QED
  BY <1>1, <1>2, <1>3, TableStays

LEMMA ScanReadKeeps ==
  ASSUME FileInv, ~shrunk, ScanRead
  PROVE  FileInv'
<1> DEFINE n == Len(file)
           e == Least(at + ChunkSize, n)
           chunk == SubSeq(file, at + 1, e)
           t == ScanChunk(IF chunk = <<>> THEN <<NL>> ELSE chunk)
<1>1. /\ program = "read" /\ mode = "scan" /\ file \in Seq(Nat) /\ ScanInv
      /\ UNCHANGED <<program, file, shrunk>>
  BY DEF FileInv, ScanRead
<1>2. /\ n \in Nat /\ at \in Nat /\ at <= n
      /\ Scanned \in ScanState /\ Follows(file, Scanned, at)
  BY <1>1, LenProperties DEF ScanInv
<1>3. ChunkSize \in Nat /\ ChunkSize > 0
  BY FileAssumption
<1>4. e \in Nat /\ at <= e /\ e <= n /\ (at < n => at < e)
  BY <1>2, <1>3 DEF Least
<1>5. /\ table' = t.table /\ curr' = t.curr /\ newLine' = t.newLine
      /\ at' = IF chunk = <<>> THEN 0 ELSE at + Len(chunk)
      /\ mode' = IF chunk = <<>> THEN "read" ELSE "scan"
  BY DEF ScanRead
<1>6. chunk \in Seq(Nat) /\ Len(chunk) = e - at
      /\ \A j \in 1..Len(chunk) : chunk[j] = file[at + j]
  <2> HIDE DEF e
  <2> QED
    BY <1>1, <1>2, <1>4, PieceIs DEF n
<1> DEFINE m == Scanned
<1>7. m.pos = at /\ m.i = 0 /\ m \in ScanState /\ Follows(file, m, at)
  BY <1>2 DEF Scanned
<1> HIDE DEF e, chunk, t, m
<1>8. CASE chunk = <<>>
  <2>1. at = n
    BY <1>2, <1>4, <1>6, <1>8, EmptySeq
  <2>2. t = FoldLeft(ScanChar, m, <<NL>>)
    BY <1>8 DEF t, ScanChunk, m
  <2>3. t = ScanChar(m, NL)
    BY <1>7, <2>2, EndOfFileTurn
  <2>4. m.pos = Len(file) /\ Follows(file, m, Len(file))
    BY <1>7, <2>1
  <2>5. HasLines(file, ScanChar(m, NL).table, Len(file) + 1)
    BY <1>1, <1>7, <2>4, ScanEnds
  <2>6. HasLines(file, table', Len(file) + 1)
    BY <1>5, <2>3, <2>5
  <2>7. LastBreak' = Len(file) + 1
    BY <1>1 DEF LastBreak
  <2>8. HasLines(file', table', LastBreak') /\ mode' = "read"
    BY <1>1, <1>5, <1>8, <2>6, <2>7
  <2> QED
    BY <1>1, <2>8 DEF FileInv
<1>9. CASE chunk # <<>>
  <2>1. t = FoldLeft(ScanChar, m, chunk)
    BY <1>9 DEF t, ScanChunk, m
  <2>2. m.pos + Len(chunk) <= Len(file) /\ at + Len(chunk) = e
    BY <1>2, <1>4, <1>6, <1>7
  <2>3. m.pos \in Nat /\ Follows(file, m, m.pos)
        /\ \A j \in 1..Len(chunk) : chunk[j] = file[m.pos + j]
    BY <1>2, <1>6, <1>7
  <2>4. /\ FoldLeft(ScanChar, m, chunk) \in ScanState
        /\ Follows(file, FoldLeft(ScanChar, m, chunk), m.pos + Len(chunk))
    BY <1>1, <1>6, <1>7, <2>2, <2>3, ChunkFollows
  <2>5. t \in ScanState /\ Follows(file, t, e) /\ at' = e
    BY <1>5, <1>7, <1>9, <2>1, <2>2, <2>4
  <2>6. /\ Scanned'.table = t.table /\ Scanned'.curr = t.curr
        /\ Scanned'.newLine = t.newLine
    BY <1>5 DEF Scanned
  <2>7. Follows(file, Scanned', e)
    BY <2>5, <2>6 DEF Follows
  <2>8. Scanned' \in ScanState
    <3>1. table' \in Seq(Row) /\ curr' \in Int /\ newLine' \in BOOLEAN
      BY <1>5, <2>5 DEF ScanState
    <3>2. Scanned' = [table |-> table', curr |-> curr', newLine |-> newLine',
                      pos |-> at', i |-> 0]
      BY DEF Scanned
    <3>3. at' \in Int
      BY <1>4, <2>5
    <3> QED
      BY <3>1, <3>2, <3>3 DEF ScanState
  <2>9. ScanInv'
    <3>1. at' \in 0..Len(file') /\ program' # "mmap"
      BY <1>1, <1>4, <2>5
    <3>2. Follows(file', Scanned', at')
      BY <1>1, <2>5, <2>7
    <3> QED
      BY <2>8, <3>1, <3>2 DEF ScanInv
  <2>10. mode' = "scan"
    BY <1>5, <1>9
  <2> QED
    BY <1>1, <2>9, <2>10 DEF FileInv
<1> QED
  BY <1>8, <1>9

LEMMA ScanMappingKeeps ==
  ASSUME FileInv, ~shrunk, ScanMapping
  PROVE  FileInv'
<1> DEFINE m == Scanned
           t == FoldLeft(MappedChar, m, file)
<1>1. /\ program = "mmap" /\ mode = "scan" /\ file \in Seq(Nat) /\ ScanInv
      /\ UNCHANGED <<program, file, shrunk>> /\ mode' = "read" /\ table' = t.table
  BY DEF FileInv, ScanMapping
<1>2. m \in ScanState /\ m.i = 0 /\ ~m.newLine /\ Follows(file, m, 0)
  <2>1. m.i = 0 /\ m.newLine = newLine
    BY DEF Scanned
  <2>2. at = 0 /\ ~newLine /\ Scanned \in ScanState /\ Follows(file, Scanned, at)
    BY <1>1 DEF ScanInv
  <2> HIDE DEF m
  <2>3. m \in ScanState /\ Follows(file, m, 0)
    BY <2>2 DEF m
  <2> QED
    BY <2>1, <2>2, <2>3
<1> HIDE DEF m
<1>3. Follows(file, t, Len(file))
  BY <1>1, <1>2, MappingFollows
<1>4. HasLines(file, table', Len(file))
  BY <1>1, <1>3 DEF Follows
<1>5. LastBreak' = Len(file)
  BY <1>1 DEF LastBreak
<1>6. HasLines(file', table', LastBreak')
  BY <1>1, <1>4, <1>5
<1> QED
  BY <1>1, <1>6 DEF FileInv

(* A part of a part of a sequence.                                          *)
LEMMA PieceOfPiece ==
  ASSUME NEW S, NEW s \in Seq(S), NEW a \in Nat, NEW b \in Nat, a <= b, b <= Len(s),
         NEW c \in Nat, NEW d \in Nat, c <= d, d <= b - a
  PROVE  SubSeq(SubSeq(s, a + 1, b), c + 1, d) = SubSeq(s, a + c + 1, a + d)
<1> DEFINE x == SubSeq(s, a + 1, b)
           y == SubSeq(x, c + 1, d)
           e == a + c
           f == a + d
           z == SubSeq(s, e + 1, f)
<1>1. Len(s) \in Nat
  BY LenProperties
<1>2. x \in Seq(S) /\ Len(x) = b - a /\ \A i \in 1..(b - a) : x[i] = s[a + i]
  BY PieceIs
<1> HIDE DEF x
<1>3. y \in Seq(S) /\ Len(y) = d - c /\ \A i \in 1..(d - c) : y[i] = x[c + i]
  BY <1>2, PieceIs
<1> HIDE DEF y
<1>4. e \in Nat /\ f \in Nat /\ e <= f /\ f <= Len(s) /\ f - e = d - c
  BY <1>1
<1>5. \A i \in 1..(d - c) : c + i \in 1..(b - a) /\ a + (c + i) = e + i
  OBVIOUS
<1> HIDE DEF e, f
<1>6. z \in Seq(S) /\ Len(z) = f - e /\ \A i \in 1..(f - e) : z[i] = s[e + i]
  BY <1>4, PieceIs
<1> HIDE DEF z
<1>7. Len(y) = Len(z) /\ \A i \in 1..Len(y) : y[i] = z[i]
  BY <1>2, <1>3, <1>4, <1>5, <1>6
<1>8. y = z
  BY <1>3, <1>6, <1>7, SeqEqual
<1> QED
  BY <1>8 DEF x, y, z, e, f

(* Of a line of n characters at o, s are shown: of the next chunk as many   *)
(* are shown as belong to the next piece of the line, of at most c.         *)
IsNextPiece(chunk, o, n, s, c) ==
  /\ chunk \in Seq(Nat) /\ Len(chunk) \in Nat /\ chunk # <<>>
  /\ Least(n - s, Len(chunk)) = IF n - s <= c THEN n - s ELSE c
  /\ n - s > c => Len(chunk) = c
  /\ SubSeq(chunk, 1, Least(n - s, Len(chunk)))
       = SubSeq(SubSeq(file, o + 1, o + n), s + 1, Least(s + c, n))
  /\ SubSeq(chunk, 1, Least(n - s, Len(chunk))) \in Seq(Nat)

LEMMA ChunkIsPiece ==
  ASSUME file \in Seq(Nat), NEW o \in Nat, NEW n \in Nat, o + n <= Len(file),
         NEW s \in Nat, s < n, NEW c \in Nat, c > 0, NEW chunk,
         chunk = SubSeq(file, o + s + 1, Least(o + s + c, Len(file)))
  PROVE  IsNextPiece(chunk, o, n, s, c)
<1> DEFINE m == Len(file)
           p == o + s
           e == Least(p + c, m)
           cnt == Least(n - s, Len(chunk))
           q == o + n
           d == Least(s + c, n)
<1>1. m \in Nat /\ p \in Nat /\ q \in Nat /\ p < q /\ q <= m /\ q - p = n - s
  BY LenProperties
<1>2. e = IF p + c < m THEN p + c ELSE m
  BY DEF Least
<1>3. d = IF s + c < n THEN s + c ELSE n
  BY DEF Least
<1>4. chunk = SubSeq(file, p + 1, e)
  OBVIOUS
<1> HIDE DEF e, d, m
<1>5. e \in Nat /\ p < e /\ e <= m
  BY <1>1, <1>2
<1> HIDE DEF p, q
<1>6. SubSeq(file, p + 1, e) \in Seq(Nat) /\ Len(SubSeq(file, p + 1, e)) = e - p
  BY <1>5, <1>1, PieceIs DEF m
<1>7. chunk \in Seq(Nat) /\ Len(chunk) = e - p /\ e - p \in Nat /\ e - p > 0
  <2>1. e - p \in Nat /\ e - p > 0
    BY <1>1, <1>5
  <2> QED
    BY <1>4, <1>6, <2>1
<1>8. cnt = IF n - s < e - p THEN n - s ELSE e - p
  BY <1>7 DEF Least
<1> HIDE DEF cnt
<1>9. cnt = (IF n - s <= c THEN n - s ELSE c) /\ (n - s > c => e - p = c)
  <2>1. CASE p + c < m
    <3>1. e - p = c
      BY <1>1, <1>2, <2>1
    <3> QED
      BY <1>8, <3>1
  <2>2. CASE ~(p + c < m)
    <3>1. e - p = m - p /\ m - p <= c /\ n - s <= m - p
      BY <1>1, <1>2, <2>2
    <3>2. n - s <= c /\ cnt = n - s
      BY <1>1, <1>8, <3>1
    <3> QED
      BY <3>2
  <2> QED
    BY <2>1, <2>2
<1>10. /\ cnt \in Nat /\ cnt <= e - p /\ d \in Nat /\ s <= d /\ d <= n
       /\ p + cnt = o + d /\ p = o + s /\ q = o + n
  <2>1. p = o + s /\ q = o + n
    BY DEF p, q
  <2>2. cnt \in Nat /\ cnt <= e - p
    BY <1>7, <1>8, <1>1
  <2>3. d \in Nat /\ s <= d /\ d <= n
    BY <1>3
  <2>4. CASE n - s <= c
    <3>1. cnt = n - s /\ d = n
      BY <1>3, <1>9, <2>4
    <3> QED
      BY <2>1, <2>2, <2>3, <3>1
  <2>5. CASE ~(n - s <= c)
    <3>1. cnt = c /\ d = s + c
      BY <1>3, <1>9, <2>5
    <3> QED
      BY <2>1, <2>2, <2>3, <3>1
  <2> QED
    BY <2>4, <2>5
<1>11. SubSeq(chunk, 1, cnt) = SubSeq(file, p + 1, p + cnt)
  <2> DEFINE z == 0
  <2>1. z \in Nat /\ z <= cnt /\ p <= e /\ e <= Len(file)
    BY <1>1, <1>5, <1>10 DEF m
  <2>2. z + 1 = 1 /\ p + z + 1 = p + 1
    BY <1>1
  <2> HIDE DEF z
  <2>3. SubSeq(SubSeq(file, p + 1, e), z + 1, cnt) = SubSeq(file, p + z + 1, p + cnt)
    BY <1>1, <1>5, <1>10, <2>1, PieceOfPiece
  <2> QED
    BY <1>4, <2>2, <2>3
<1>12. SubSeq(SubSeq(file, o + 1, q), s + 1, d) = SubSeq(file, o + s + 1, o + d)
  <2>1. o <= q /\ q <= Len(file) /\ d <= q - o
    BY <1>1, <1>10 DEF m
  <2> QED
    BY <1>1, <1>10, <2>1, PieceOfPiece
<1>13. SubSeq(chunk, 1, cnt) = SubSeq(SubSeq(file, o + 1, q), s + 1, d)
  BY <1>10, <1>11, <1>12
<1>14. SubSeq(chunk, 1, cnt) \in Seq(Nat)
  <2>1. cnt \in 0..Len(chunk)
    BY <1>7, <1>10
  <2> QED
    BY <1>7, <2>1, SeqFirst
<1>15. chunk # <<>>
  BY <1>7, EmptySeq
<1> QED
  BY <1>7, <1>9, <1>13, <1>14, <1>15 DEF cnt, d, q, IsNextPiece

LEMMA PrintChunkKeeps ==
  ASSUME FileInv, ~shrunk, PrintChunk
  PROVE  FileInv'
<1> DEFINE l == Head(todo)
           k == Len(shown)
           s == PieceEnd(k)
           c == ChunkSize - 1
           chunk == SubSeq(file, at + 1, Least(at + ChunkSize - 1, Len(file)))
           cnt == Least(left, Len(chunk))
           piece == Put(SubSeq(chunk, 1, cnt))
           text == LineText(l)
<1>1. /\ program = "read" /\ mode = "print" /\ file \in Seq(Nat) /\ PrintInv /\ left > 0
      /\ UNCHANGED <<program, file, shrunk, mode, table, todo>>
  BY DEF FileInv, PrintChunk, scanner
<1>2. /\ shown' = IF chunk = <<>> THEN shown ELSE Append(shown, piece)
      /\ left' = left - cnt /\ at' = at + Len(chunk)
  BY DEF PrintChunk, Shown
<1>3. /\ FitsIn(todo) /\ todo # <<>>
      /\ shown \in Seq(PutLines) /\ AreFirstPieces(shown, text)
      /\ at = l.offset + s /\ left = l.len - s
  <2>1. FitsIn(todo) /\ todo # <<>> /\ Pieced(l) /\ ~(left = 0)
    BY <1>1 DEF PrintInv
  <2> QED
    BY <2>1 DEF Pieced
<1>4. /\ l.offset \in Nat /\ l.len \in Nat /\ l.offset + l.len <= Len(file)
      /\ Len(file) \in Nat
  BY <1>1, <1>3, FirstFits
<1>5. text \in Seq(Nat) /\ Len(text) = l.len
  BY <1>1, <1>4, TextIs
<1>6. k \in Nat /\ DOMAIN shown = 1..k
  BY <1>3, LenProperties
<1>7. s \in Nat /\ PieceEnd(k + 1) = s + c /\ c \in Nat /\ c > 0
  BY <1>6, PieceEnds
<1>8. text = SubSeq(file, l.offset + 1, l.offset + l.len)
  BY DEF LineText
<1>17. chunk = SubSeq(file, at + 1, Least(at + ChunkSize - 1, Len(file)))
  OBVIOUS
<1> HIDE DEF chunk, l, s, text
<1>18. at + ChunkSize - 1 = at + c
  <2>1. ChunkSize \in Nat
    BY FileAssumption
  <2>2. at \in Nat
    BY <1>3, <1>4, <1>7
  <2> QED
    BY ONLY <2>1, <2>2
<1> HIDE DEF c
<1> DEFINE o == l.offset
           n == l.len
<1>9. o \in Nat /\ n \in Nat /\ o + n <= Len(file) /\ s < n /\ at = o + s /\ left = n - s
  BY <1>1, <1>3, <1>4, <1>7
<1>10. chunk = SubSeq(file, o + s + 1, Least(o + s + c, Len(file)))
  BY <1>9, <1>17, <1>18
<1>19. text = SubSeq(file, o + 1, o + n) /\ Len(text) = n
  BY <1>5, <1>8
<1> HIDE DEF o, n
<1>11. /\ chunk \in Seq(Nat) /\ Len(chunk) \in Nat /\ chunk # <<>>
       /\ cnt = (IF left <= c THEN left ELSE c) /\ (left > c => Len(chunk) = c)
       /\ SubSeq(chunk, 1, cnt) = SubSeq(text, s + 1, Least(s + c, n))
       /\ SubSeq(chunk, 1, cnt) \in Seq(Nat)
  <2>1. /\ chunk \in Seq(Nat) /\ Len(chunk) \in Nat /\ chunk # <<>>
        /\ Least(n - s, Len(chunk)) = IF n - s <= c THEN n - s ELSE c
        /\ n - s > c => Len(chunk) = c
        /\ SubSeq(chunk, 1, Least(n - s, Len(chunk)))
             = SubSeq(SubSeq(file, o + 1, o + n), s + 1, Least(s + c, n))
        /\ SubSeq(chunk, 1, Least(n - s, Len(chunk))) \in Seq(Nat)
    <3>1. file \in Seq(Nat)
      BY <1>1
    <3>2. o \in Nat /\ n \in Nat /\ o + n <= Len(file) /\ s \in Nat /\ s < n
      BY <1>7, <1>9
    <3>3. c \in Nat /\ c > 0
      BY <1>7
    <3>4. IsNextPiece(chunk, o, n, s, c)
      BY ONLY <1>10, <3>1, <3>2, <3>3, ChunkIsPiece
    <3> QED
      BY <3>4 DEF IsNextPiece
  <2> QED
    BY <1>9, <1>19, <2>1
<1> HIDE DEF cnt
<1>12. piece = Put(Piece(text, k + 1)) /\ piece \in PutLines
  <2>1. k + 1 - 1 = k /\ PieceEnd(k) = s
    <3>1. PieceEnd(k) = s
      BY DEF s
    <3> HIDE DEF k
    <3> QED
      BY <1>6, <3>1
  <2>3. Piece(text, k + 1)
          = SubSeq(text, PieceEnd(k + 1 - 1) + 1, Least(PieceEnd(k + 1), Len(text)))
    <3> DEFINE j == k + 1
    <3> HIDE DEF j
    <3>1. Piece(text, j) = SubSeq(text, PieceEnd(j - 1) + 1, Least(PieceEnd(j), Len(text)))
      BY DEF Piece
    <3> QED
      BY <3>1 DEF j
  <2> HIDE DEF k
  <2>2. Piece(text, k + 1) = SubSeq(text, s + 1, Least(s + c, n))
    BY <1>7, <1>19, <2>1, <2>3
  <2> QED
    BY <1>11, <2>2 DEF PutLines
<1> HIDE DEF piece
<1>13. /\ shown' \in Seq(PutLines) /\ Len(shown') = k + 1
       /\ DOMAIN shown' = 1..(k + 1)
       /\ \A i \in 1..k : shown'[i] = shown[i]
       /\ shown'[k + 1] = piece
  <2>1. shown' = Append(shown, piece)
    BY <1>2, <1>11
  <2>2. /\ Append(shown, piece) \in Seq(PutLines) /\ Len(Append(shown, piece)) = k + 1
        /\ \A i \in 1..k : Append(shown, piece)[i] = shown[i]
        /\ Append(shown, piece)[k + 1] = piece
    BY <1>3, <1>12, AppendProperties
  <2>3. DOMAIN Append(shown, piece) = 1..(k + 1)
    BY <2>2, LenProperties
  <2> HIDE DEF k
  <2> QED
    BY <2>1, <2>2, <2>3
<1> HIDE DEF k
<1>14. AreFirstPieces(shown', text)
  <2> SUFFICES ASSUME NEW i \in 1..(k + 1)
               PROVE  PieceEnd(i - 1) < n /\ shown'[i] = Put(Piece(text, i))
    BY <1>13, <1>19 DEF AreFirstPieces
  <2>1. CASE i \in 1..k
    BY <1>3, <1>6, <1>13, <1>19, <2>1 DEF AreFirstPieces
  <2>2. CASE i = k + 1
    <3>1. i - 1 = k
      BY <1>6, <2>2
    <3>2. PieceEnd(i - 1) = s
      BY <3>1 DEF s
    <3> QED
      BY <1>9, <1>12, <1>13, <2>2, <3>2
  <2> QED
    BY <1>6, <2>1, <2>2
<1>15. \/ left' > 0 /\ at' = o + PieceEnd(Len(shown')) /\ left' = n - PieceEnd(Len(shown'))
       \/ left' = 0 /\ n <= PieceEnd(Len(shown'))
  <2>1. PieceEnd(Len(shown')) = s + c
    BY <1>7, <1>13
  <2>2. CASE left <= c
    <3>1. left' = 0 /\ n <= s + c
      BY <1>2, <1>7, <1>9, <1>11, <2>2
    <3> QED
      BY <2>1, <3>1
  <2>3. CASE left > c
    <3>3. ~(left <= c)
      BY <1>7, <1>9, <2>3
    <3>1. left' = left - c /\ at' = at + c
      BY <1>2, <1>11, <2>3, <3>3
    <3>2. left' > 0 /\ left' = n - (s + c) /\ at' = o + (s + c)
      BY <1>7, <1>9, <2>3, <3>1
    <3> QED
      BY <2>1, <3>2
  <2> QED
    BY <1>7, <1>9, <2>2, <2>3
<1>16. PrintInv'
  <2>1. FitsIn(todo)' /\ todo' # <<>> /\ program' # "mmap" /\ Head(todo') = l
    BY <1>1, <1>3 DEF FitsIn, l
  <2>2. LineText(Head(todo))' = text
    BY <1>1 DEF LineText, l, text
  <2>3. Pieced(Head(todo))'
    BY <1>13, <1>14, <1>15, <2>1, <2>2 DEF Pieced, o, n
  <2> QED
    BY <2>1, <2>3 DEF PrintInv
<1>20. mode # "scan" /\ mode' \in {"read", "print", "quit"}
  BY <1>1
<1> QED
  BY <1>1, <1>16, <1>20, TableStays

LEMMA PrintMappingKeeps ==
  ASSUME FileInv, ~shrunk, PrintMapping
  PROVE  FileInv'
<1> DEFINE l == Head(todo)
<1>1. /\ program = "mmap" /\ mode = "print" /\ PrintInv
      /\ UNCHANGED <<program, file, shrunk, mode, table, todo, at>>
      /\ shown = <<>> /\ shown' = <<SubSeq(file, at + 1, at + left)>> /\ left' = 0
  BY DEF FileInv, PrintMapping, scanner
<1>2. FitsIn(todo) /\ todo # <<>> /\ Mapped(l)
  BY <1>1 DEF PrintInv
<1>3. at = l.offset /\ left = l.len
  <2>1. shown # <<LineText(l)>>
    BY <1>1
  <2> QED
    BY <1>2, <2>1 DEF Mapped
<1>4. shown' = <<LineText(l)'>>
  BY <1>1, <1>3 DEF LineText
<1>5. PrintInv'
  BY <1>1, <1>2, <1>4 DEF PrintInv, FitsIn, Mapped
<1>6. mode # "scan" /\ mode' \in {"read", "print", "quit"}
  BY <1>1
<1> QED
  BY <1>1, <1>5, <1>6, TableStays

LEMMA LinePrintedKeeps ==
  ASSUME FileInv, ~shrunk, LinePrinted
  PROVE  FileInv'
<1>1. /\ mode = "print" /\ file \in Seq(Nat) /\ FitsIn(todo) /\ todo # <<>>
      /\ PrintLines(Tail(todo), last)
      /\ UNCHANGED <<program, file, shrunk, table>>
  BY DEF FileInv, LinePrinted, scanner, PrintInv
<1>2. todo \in Seq(Line) /\ Tail(todo) \in Seq(Line) /\ Len(Tail(todo)) = Len(todo) - 1
      /\ Len(todo) \in Nat /\ \A i \in 1..Len(Tail(todo)) : Tail(todo)[i] = todo[i + 1]
  <2>1. todo \in Seq(Line)
    BY <1>1 DEF FitsIn
  <2> QED
    BY <1>1, <2>1, HeadTailProperties, LenProperties
<1>3. FitsIn(Tail(todo))
  <2>1. ASSUME NEW i \in 1..Len(Tail(todo))
        PROVE  Tail(todo)[i].offset + Tail(todo)[i].len <= Len(file)
    <3>1. i + 1 \in 1..Len(todo) /\ Tail(todo)[i] = todo[i + 1]
      BY <1>2
    <3> QED
      BY <1>1, <3>1 DEF FitsIn
  <2> QED
    BY <1>2, <2>1 DEF FitsIn
<1>4. /\ mode' \in {"read", "print", "quit"}
      /\ (mode = "print" => PrintInv)'
  BY <1>1, <1>3, LinesBegin
<1> QED
  BY <1>1, <1>4, TableStays

LEMMA FileStepKeeps ==
  ASSUME FileInv, FileNext
  PROVE  FileInv'
<1> SUFFICES ASSUME ~shrunk'
             PROVE  FileInv'
  BY DEF FileInv
<1>1. CASE Shrink
  BY <1>1 DEF Shrink
<1>2. CASE ~Shrink
  <2>1. ~shrunk
    BY <1>2 DEF FileNext, FileStep, ScanRead, ScanMapping, PrintChunk, PrintMapping,
                LinePrinted, SelectTimer, SelectInput, SelectEndOfFile, Consume, Type,
                CloseInput, Expire
  <2>2. CASE ScanRead
    BY <2>1, <2>2, ScanReadKeeps
  <2>3. CASE ScanMapping
    BY <2>1, <2>3, ScanMappingKeeps
  <2>4. CASE PrintChunk
    BY <2>1, <2>4, PrintChunkKeeps
  <2>5. CASE PrintMapping
    BY <2>1, <2>5, PrintMappingKeeps
  <2>6. CASE LinePrinted
    BY <2>1, <2>6, LinePrintedKeeps
  <2>7. mode = "read" => /\ file \in Seq(Nat) /\ HasLines(file, table, LastBreak)
                         /\ mode # "scan"
    BY <2>1 DEF FileInv
  <2>8. CASE SelectTimer
    <3>1. /\ mode = "read" /\ PrintLines(table, TRUE)
          /\ UNCHANGED <<program, file, shrunk, table>>
      BY <2>8 DEF SelectTimer, InSelect, scanner
    <3>2. FitsIn(table)
      BY <2>7, <3>1, TableFits
    <3>3. /\ mode' \in {"read", "print", "quit"}
          /\ (mode = "print" => PrintInv)'
      BY <2>7, <3>1, <3>2, LinesBegin
    <3> QED
      BY <2>7, <3>1, <3>3, TableStays
  <2>9. CASE SelectInput
    BY <2>9, PrintingStays DEF SelectInput, InSelect
  <2>10. CASE SelectEndOfFile
    <3>1. mode = "read" /\ UNCHANGED <<program, file, shrunk, table>>
      BY <2>10 DEF SelectEndOfFile, InSelect, scanner
    <3>2. Returned(Append(line, NL)) \/ PrintLines(<<>>, TRUE)
      BY <2>10 DEF SelectEndOfFile
    <3>3. CASE Returned(Append(line, NL))
      <4>1. /\ mode' \in {"read", "print", "quit"}
            /\ (mode = "print" => PrintInv)'
        BY <2>7, <3>1, <3>3, ReturnedBegins
      <4> QED
        BY <2>7, <3>1, <4>1, TableStays
    <3>4. CASE PrintLines(<<>>, TRUE)
      <4>1. /\ mode' \in {"read", "print", "quit"}
            /\ (mode = "print" => PrintInv)'
        BY <2>7, <3>1, <3>4, NothingFits, LinesBegin
      <4> QED
        BY <2>7, <3>1, <4>1, TableStays
    <3> QED
      BY <3>2, <3>3, <3>4
  <2>11. CASE Consume
    <3>1. mode = "read" /\ UNCHANGED <<program, file, shrunk, scanner>>
      BY <2>11 DEF Consume
    <3>5. UNCHANGED table
      BY <3>1 DEF scanner
    <3> DEFINE l == line \o SubSeq(buf, 1, Consumed)
    <3>2. Returned(l) \/ UNCHANGED <<mode, at, printer>>
      BY <2>11 DEF Consume
    <3> HIDE DEF l
    <3>3. CASE Returned(l)
      <4>1. /\ mode' \in {"read", "print", "quit"}
            /\ (mode = "print" => PrintInv)'
        BY <2>7, <3>1, <3>3, ReturnedBegins
      <4> QED
        BY <2>7, <3>1, <3>5, <4>1, TableStays
    <3>4. CASE UNCHANGED <<mode, at, printer>>
      BY <3>1, <3>4, PrintingStays
    <3> QED
      BY <3>2, <3>3, <3>4
  <2>12. CASE Type
    BY <2>12, PrintingStays DEF Type, InSelect
  <2>13. CASE CloseInput
    BY <2>13, PrintingStays DEF CloseInput, InSelect
  <2>14. CASE Expire
    BY <2>14, PrintingStays DEF Expire, InSelect
  <2> QED
    BY <1>2, <2>2, <2>3, <2>4, <2>5, <2>6, <2>8, <2>9, <2>10, <2>11, <2>12, <2>13,
       <2>14 DEF FileNext, FileStep
<1> QED
  BY <1>1, <1>2

LEMMA NothingScanned ==
  ASSUME NEW s \in Seq(Nat)
  PROVE  HasLines(s, <<>>, 0) /\ Opens(s, 0, 0)
<1>1. Len(s) \in Nat /\ \A k \in Breaks(s) : k \in Nat
  BY LenProperties, StartsAreNumbers
<1>2. <<>> \in Seq(Line) /\ Len(<<>>) = 0
  BY EmptySeq
<1>3. ASSUME NEW b \in 0..0, NEW e \in 0..0
      PROVE  ~IsLine(s, b, e)
  BY DEF IsLine
<1>4. HasLines(s, <<>>, 0)
  BY <1>2, <1>3 DEF HasLines
<1>5. Opens(s, 0, 0)
  BY <1>1 DEF Opens, LineStarts
<1> QED
  BY <1>4, <1>5

LEMMA FileInitInv ==
  ASSUME FileInit \/ NoFile
  PROVE  FileInv
<1>1. CASE FileInit
  <2>1. /\ program \in {"read", "mmap"} /\ mode = "scan" /\ table = <<>> /\ curr = 0
        /\ at = 0 /\ newLine = (program = "read")
    BY <1>1 DEF FileInit
  <2>2. file \in Seq(Nat)
    <3>1. file \in BoundedSeq(Char, FileSize) /\ Char \subseteq Nat /\ FileSize \in Nat
      BY <1>1, FileAssumption DEF FileInit
    <3>2. PICK n \in 0..FileSize : file \in [1..n -> Char]
      BY <3>1 DEF BoundedSeq, SeqOf
    <3>3. file \in [1..n -> Nat] /\ n \in Nat
      <4>1. file = [i \in 1..n |-> file[i]] /\ \A i \in 1..n : file[i] \in Nat
        BY <3>1, <3>2
      <4> QED
        BY <4>1
    <3> QED
      BY <3>3
  <2>3. HasLines(file, <<>>, 0) /\ Opens(file, 0, 0)
    BY <2>2, NothingScanned
  <2>4. Len(file) \in Nat
    BY <2>2, LenProperties
  <2>5. newLine \in BOOLEAN /\ (program = "mmap" => ~newLine)
    BY <2>1
  <2>6. Scanned \in ScanState
    <3>1. table \in Seq(Row) /\ curr \in Int /\ newLine \in BOOLEAN /\ at \in Int
      BY <2>1, <2>5
    <3> QED
      BY <3>1 DEF Scanned, ScanState
  <2>7. Follows(file, Scanned, at)
    <3>1. Scanned.newLine = newLine /\ Scanned.table = table /\ Scanned.curr = curr
      BY DEF Scanned
    <3>2. /\ HasLines(file, Scanned.table, at) /\ Opens(file, at, at)
          /\ Opens(file, Scanned.curr, at)
      BY <2>1, <2>3, <3>1
    <3>3. Scanned.newLine \in BOOLEAN
      BY <2>5, <3>1
    <3> QED
      BY <3>2, <3>3 DEF Follows
  <2>8. ScanInv
    BY <2>1, <2>4, <2>5, <2>6, <2>7 DEF ScanInv
  <2> QED
    BY <2>1, <2>2, <2>8 DEF FileInv
<1>2. CASE NoFile
  <2>1. program = "mmap" /\ mode = "quit" /\ file = <<>> /\ table = <<>>
    BY <1>2 DEF NoFile
  <2>2. <<>> \in Seq(Nat) /\ Len(<<>>) = 0
    BY EmptySeq
  <2>3. HasLines(<<>>, <<>>, 0)
    BY <2>2, NothingScanned
  <2>4. LastBreak = 0
    BY <2>1, <2>2 DEF LastBreak
  <2> QED
    BY <2>1, <2>2, <2>3, <2>4 DEF FileInv
<1> QED
  BY <1>1, <1>2

(* Whatever was scanned is in the table and whatever is printed lies in the *)
(* file, in every state until somebody cuts the file off                    *)
(* (5,6. File/main.c:8-70, 7. mmap/main.c).                                 *)
THEOREM FileInvariant == Spec => []FileInv
<1>1. Init => FileInv
  BY FileInitInv DEF Init
<1>2. FileInv /\ [Next]_vars => FileInv'
  <2> SUFFICES ASSUME FileInv, [Next]_vars
               PROVE  FileInv'
    OBVIOUS
  <2>1. CASE FileRuns
    BY <2>1, FileStepKeeps DEF FileRuns
  <2>2. CASE UNCHANGED fileVars
    <3>1. UNCHANGED <<program, file, shrunk, mode, table, curr, newLine, at, todo,
                      left, shown>>
      BY <2>2 DEF fileVars, scanner, printer
    <3>2. /\ LastBreak' = LastBreak /\ Scanned' = Scanned
          /\ LineText(Head(todo))' = LineText(Head(todo))
      BY <3>1 DEF LastBreak, Scanned, LineText
    <3>3. ScanInv => ScanInv'
      BY <3>1, <3>2 DEF ScanInv
    <3>4. PrintInv => PrintInv'
      BY <3>1, <3>2 DEF PrintInv, FitsIn, Mapped, Pieced, LineText
    <3> QED
      BY <3>1, <3>2, <3>3, <3>4 DEF FileInv
  <2> QED
    BY <2>1, <2>2 DEF Next, vars, LoadRuns, PipeRuns, SocketRuns, LifeRuns
<1> QED
  BY <1>1, <1>2, PTL DEF Spec

(* The table has every line of the file once and in order, for files and    *)
(* buffers of every size and wherever the chunks end (5,6. File/main.c:26).  *)
THEOREM TablesAreRight == Spec => []TableIsTheFile
<1>1. FileInv => TableIsTheFile
  <2> SUFFICES ASSUME FileInv, mode # "scan", ~shrunk
        PROVE  /\ \A i, j \in DOMAIN table : i < j => table[i].offset < table[j].offset
               /\ ToSet(table) = {l \in LinesOf(file) :
                                    program = "read" \/ l.offset + l.len < Len(file)}
    BY DEF TableIsTheFile
  <2>1. /\ file \in Seq(Nat) /\ HasLines(file, table, LastBreak)
        /\ program \in {"read", "mmap"}
    BY DEF FileInv
  <2>2. Len(file) \in Nat
    BY <2>1, LenProperties
  <2>3. LastBreak \in {Len(file), Len(file) + 1}
        /\ (LastBreak = Len(file) + 1 <=> program = "read")
    BY <2>1, <2>2 DEF LastBreak
  <2> DEFINE n == LastBreak
  <2> HIDE DEF n
  <2>4. n \in {Len(file), Len(file) + 1} /\ HasLines(file, table, n)
        /\ (n = Len(file) + 1 <=> program = "read")
    BY <2>1, <2>3 DEF n
  <2>5. /\ \A i, j \in DOMAIN table : i < j => table[i].offset < table[j].offset
        /\ ToSet(table) = {l \in LinesOf(file) :
                             n = Len(file) + 1 \/ l.offset + l.len < Len(file)}
    BY <2>1, <2>4, TableHasTheLines
  <2> QED
    BY <2>4, <2>5
<1> QED
  BY <1>1, FileInvariant, PTL

(* Every character of a line that is printed is put out once and in order:  *)
(* in one line by "7. mmap", a line for every chunk by "5,6. File"          *)
(* (puts, 5,6. File/main.c:61), for lines and buffers of every size.        *)
THEOREM LinesArePrinted == Spec => []PrintsTheLine
<1>1. FileInv => PrintsTheLine
  <2> SUFFICES ASSUME FileInv, mode = "print", ~shrunk
               PROVE  PrintsTheLine
    BY DEF PrintsTheLine
  <2> DEFINE l == Head(todo)
             text == LineText(l)
  <2>1. file \in Seq(Nat) /\ PrintInv
    BY DEF FileInv
  <2>2. FitsIn(todo) /\ todo # <<>>
    BY <2>1 DEF PrintInv
  <2>3. l.offset \in Nat /\ l.len \in Nat /\ l.offset + l.len <= Len(file)
    BY <2>1, <2>2, FirstFits
  <2>4. Len(text) = l.len
    BY <2>1, <2>3, TextIs
  <2>5. IF program = "mmap" THEN Mapped(l) ELSE Pieced(l)
    BY <2>1 DEF PrintInv
  <2>6. program = "mmap" => \/ shown = <<>> /\ left = Len(text)
                            \/ shown = <<text>> /\ left = 0
    BY <2>4, <2>5 DEF Mapped
  <2>7. program # "mmap" => /\ AreFirstPieces(shown, text)
                            /\ left = 0 => Len(text) <= PieceEnd(Len(shown))
    BY <2>4, <2>5 DEF Pieced
  <2> QED
    BY <2>6, <2>7 DEF PrintsTheLine
<1> QED
  BY <1>1, FileInvariant, PTL
-----------------------------------------------------------------------------
(* The lines that are typed, and those that are accepted.                   *)

(* The lines that end among the first n characters of s.                    *)
Fits(s, n) == {l \in Acceptable(s) : l.offset + l.len < n}

(* The characters of k parts of a line.                                     *)
Parts(k) == k * (LineSize - 1)

(* None of them has LineSize - 1 characters or a multiple.                   *)
NoExactFit(s, n) ==
  \A b, e \in 0..n : IsLine(s, b, e) =>
    \A k \in 1..(e - 1 - b) : e - 1 - b # Parts(k)

(* The lines that end among the first n characters of s, and no others, are *)
(* accepted.                                                                *)
Answers(a, s, n) ==
  /\ Len(a) = Cardinality(Fits(s, n))
  /\ \A l \in Fits(s, n) :
       a[Cardinality({m \in Fits(s, n) : m.offset <= l.offset})]
         = SubSeq(s, l.offset + 1, l.offset + l.len)

LEMMA FitsAre ==
  ASSUME NEW s \in Seq(Nat), NEW n \in Nat, n <= Len(s)
  PROVE  /\ \A l \in Fits(s, n) : \E b, e \in 0..n :
              /\ IsLine(s, b, e) /\ l = [offset |-> b, len |-> e - 1 - b]
              /\ e - 1 - b \in 1..(LineSize - 2)
         /\ \A b, e \in 0..n : IsLine(s, b, e) /\ e - 1 - b \in 1..(LineSize - 2) =>
              [offset |-> b, len |-> e - 1 - b] \in Fits(s, n)
<1>1. Len(s) \in Nat
  BY LenProperties
<1>2. ASSUME NEW l \in Fits(s, n)
      PROVE  \E b, e \in 0..n :
                /\ IsLine(s, b, e) /\ l = [offset |-> b, len |-> e - 1 - b]
                /\ e - 1 - b \in 1..(LineSize - 2)
  <2>1. l \in LinesOf(s) /\ l.offset + l.len < n /\ l.len \in 1..(LineSize - 2)
    BY DEF Fits, Acceptable
  <2>2. PICK b \in LineStarts(s) : l = [offset |-> b, len |-> LineEnd(s, b) - 1 - b]
    BY <2>1 DEF LinesOf
  <2> DEFINE e == LineEnd(s, b)
  <2>3. e \in Nat /\ b \in Nat /\ b < e /\ IsLine(s, b, e)
    BY LineEndIs
  <2>4. l = [offset |-> b, len |-> e - 1 - b]
    BY <2>2
  <2> HIDE DEF e
  <2>5. b + (e - 1 - b) < n /\ e - 1 - b \in 1..(LineSize - 2)
    BY <2>1, <2>4
  <2>6. b \in 0..n /\ e \in 0..n
    BY <2>3, <2>5
  <2> QED
    BY <2>3, <2>4, <2>5, <2>6
<1>3. ASSUME NEW b \in 0..n, NEW e \in 0..n, IsLine(s, b, e),
             e - 1 - b \in 1..(LineSize - 2)
      PROVE  [offset |-> b, len |-> e - 1 - b] \in Fits(s, n)
  <2> DEFINE l == [offset |-> b, len |-> e - 1 - b]
  <2>1. b \in LineStarts(s) /\ b < e
    BY <1>3 DEF IsLine
  <2>2. e = LineEnd(s, b)
    BY <1>3, <2>1, LineEndIs
  <2>3. l \in LinesOf(s)
    BY <2>1, <2>2 DEF LinesOf
  <2>4. l.offset = b /\ l.len = e - 1 - b
    OBVIOUS
  <2> HIDE DEF l
  <2>5. l.offset + l.len < n /\ l.offset + l.len < Len(s) /\ l.len \in 1..(LineSize - 2)
    BY <1>1, <1>3, <2>4
  <2>6. l \in Fits(s, n)
    BY <2>3, <2>5 DEF Fits, Acceptable
  <2> QED
    BY <2>6 DEF l
<1> QED
  BY <1>2, <1>3

LEMMA FitsAreFinite ==
  ASSUME NEW s \in Seq(Nat)
  PROVE  /\ IsFiniteSet(Acceptable(s))
         /\ \A n : Fits(s, n) \subseteq Acceptable(s) /\ IsFiniteSet(Fits(s, n))
<1> DEFINE f == [b \in LineStarts(s) |-> [offset |-> b, len |-> LineEnd(s, b) - 1 - b]]
<1>1. Len(s) \in Nat /\ \A b \in LineStarts(s) : b \in Nat /\ b <= Len(s)
  <2>1. /\ Len(s) \in Nat /\ LineStarts(s) \subseteq Nat
        /\ \A k \in LineStarts(s) : k # 0 => k \in Breaks(s)
        /\ \A k \in Breaks(s) : k <= Len(s)
    BY StartsAreNumbers, LenProperties
  <2> QED
    BY <2>1
<1>2. LineStarts(s) \in SUBSET (0..Len(s)) /\ IsFiniteSet(0..Len(s))
  BY <1>1, FS_Interval
<1>3. IsFiniteSet(LineStarts(s))
  BY <1>2, FS_Subset
<1>4. f \in Surjection(LineStarts(s), LinesOf(s))
  BY DEF LinesOf, Surjection
<1> HIDE DEF f
<1>5. IsFiniteSet(LinesOf(s))
  BY <1>3, <1>4, FS_Surjection
<1>6. Acceptable(s) \in SUBSET LinesOf(s)
  BY DEF Acceptable
<1>7. IsFiniteSet(Acceptable(s))
  BY <1>5, <1>6, FS_Subset
<1>8. \A n : Fits(s, n) \in SUBSET Acceptable(s)
  BY DEF Fits
<1> QED
  BY <1>7, <1>8, FS_Subset

(* Nothing comes to an end where there is no break.                         *)
LEMMA FitsStay ==
  ASSUME NEW s \in Seq(Nat), NEW n \in Nat, NEW m \in Nat, n <= m, m <= Len(s),
         \A k \in Breaks(s) : ~(n < k /\ k <= m)
  PROVE  Fits(s, m) = Fits(s, n)
<1>1. Len(s) \in Nat /\ n <= Len(s)
  BY LenProperties
<1>2. ASSUME NEW l \in Fits(s, m)
      PROVE  l \in Fits(s, n)
  <2>1. PICK b, e \in 0..m : /\ IsLine(s, b, e) /\ l = [offset |-> b, len |-> e - 1 - b]
                             /\ e - 1 - b \in 1..(LineSize - 2)
    BY FitsAre
  <2>2. e \in Breaks(s) /\ b < e
    BY <1>1, <2>1 DEF IsLine
  <2>3. b \in 0..n /\ e \in 0..n
    BY <2>2
  <2> QED
    BY <1>1, <2>1, <2>3, FitsAre
<1>3. ASSUME NEW l \in Fits(s, n)
      PROVE  l \in Fits(s, m)
  <2>1. PICK b, e \in 0..n : /\ IsLine(s, b, e) /\ l = [offset |-> b, len |-> e - 1 - b]
                             /\ e - 1 - b \in 1..(LineSize - 2)
    BY <1>1, FitsAre
  <2>2. b \in 0..m /\ e \in 0..m
    OBVIOUS
  <2> QED
    BY <2>1, <2>2, FitsAre
<1> QED
  BY <1>2, <1>3

LEMMA OpenLineEnds ==
  ASSUME NEW s \in Seq(Nat), NEW n \in Nat, NEW o \in Nat, Opens(s, o, n),
         n < Len(s), s[n + 1] = NL
  PROVE  /\ IsLine(s, o, n + 1)
         /\ \A b \in 0..(n + 1) : IsLine(s, b, n + 1) => b = o
         /\ \A b, e \in 0..n : IsLine(s, b, e) => b < o
<1>1. Len(s) \in Nat /\ o <= n /\ n <= Len(s) /\ o \in LineStarts(s)
  BY LenProperties DEF Opens
<1>2. /\ Breaks(s) \subseteq Nat \ {0}
      /\ \A k \in LineStarts(s) : k \in Nat /\ (k # 0 => k \in Breaks(s))
      /\ \A k \in Breaks(s) : k <= Len(s)
  BY StartsAreNumbers
<1>3. n + 1 \in Breaks(s)
  <2>1. n + 1 \in DOMAIN s
    BY <1>1, LenProperties
  <2> QED
    BY <2>1 DEF Breaks
<1>4. \A k \in Breaks(s) : ~(o < k /\ k < n + 1)
  BY <1>2 DEF Opens
<1>5. IsLine(s, o, n + 1)
  BY <1>1, <1>3, <1>4 DEF IsLine
<1>6. ASSUME NEW b \in 0..(n + 1), IsLine(s, b, n + 1)
      PROVE  b = o
  <2>1. b < n + 1 /\ b \in LineStarts(s) /\ \A k \in Breaks(s) : ~(b < k /\ k < n + 1)
    BY <1>6 DEF IsLine
  <2>2. ~(b < o)
    BY <1>1, <1>2, <2>1
  <2>3. ~(o < b)
    BY <1>1, <1>2, <1>4, <2>1, SMTT(30)
  <2> QED
    BY <2>2, <2>3
<1>7. ASSUME NEW b \in 0..n, NEW e \in 0..n, IsLine(s, b, e)
      PROVE  b < o
  <2>1. e \in Breaks(s) /\ b < e
    BY <1>1, <1>7 DEF IsLine
  <2>2. e <= o
    BY <2>1 DEF Opens
  <2> QED
    BY <2>1, <2>2
<1> QED
  BY <1>5, <1>6, <1>7

(* With the break the line is one that fits, or not.                        *)
LEMMA FitsGrow ==
  ASSUME NEW s \in Seq(Nat), NEW n \in Nat, NEW o \in Nat, Opens(s, o, n),
         n < Len(s), s[n + 1] = NL, NEW l, l = [offset |-> o, len |-> n - o]
  PROVE  /\ n - o \notin 1..(LineSize - 2) => Fits(s, n + 1) = Fits(s, n)
         /\ n - o \in 1..(LineSize - 2) => Fits(s, n + 1) = Fits(s, n) \cup {l}
         /\ \A m \in Fits(s, n) : m.offset < o
<1>1. Len(s) \in Nat /\ o <= n /\ n <= Len(s) /\ n + 1 <= Len(s)
  BY LenProperties DEF Opens
<1>2. /\ IsLine(s, o, n + 1)
      /\ \A b \in 0..(n + 1) : IsLine(s, b, n + 1) => b = o
      /\ \A b, e \in 0..n : IsLine(s, b, e) => b < o
  BY OpenLineEnds
<1>3. l = [offset |-> o, len |-> (n + 1) - 1 - o] /\ (n + 1) - 1 - o = n - o
  BY <1>1
<1>4. ASSUME NEW m \in Fits(s, n + 1), m \notin Fits(s, n)
      PROVE  m = l /\ n - o \in 1..(LineSize - 2)
  <2>1. PICK b, e \in 0..(n + 1) :
                 /\ IsLine(s, b, e) /\ m = [offset |-> b, len |-> e - 1 - b]
                 /\ e - 1 - b \in 1..(LineSize - 2)
    BY <1>1, FitsAre
  <2>2. ~(b \in 0..n /\ e \in 0..n)
    BY <1>1, <1>4, <2>1, FitsAre
  <2>3. b < e
    BY <2>1 DEF IsLine
  <2>4. e = n + 1
    BY <2>2, <2>3
  <2>5. b = o
    BY <1>2, <2>1, <2>4
  <2> QED
    BY <1>3, <2>1, <2>4, <2>5
<1>5. ASSUME NEW m \in Fits(s, n)
      PROVE  m \in Fits(s, n + 1) /\ m.offset < o
  <2>1. PICK b, e \in 0..n :
                 /\ IsLine(s, b, e) /\ m = [offset |-> b, len |-> e - 1 - b]
                 /\ e - 1 - b \in 1..(LineSize - 2)
    BY <1>1, FitsAre
  <2>2. b \in 0..(n + 1) /\ e \in 0..(n + 1) /\ m.offset = b
    BY <2>1
  <2> QED
    BY <1>1, <1>2, <2>1, <2>2, FitsAre, SMTT(30)
<1>6. ASSUME n - o \in 1..(LineSize - 2)
      PROVE  l \in Fits(s, n + 1)
  <2>1. o \in 0..(n + 1) /\ n + 1 \in 0..(n + 1) /\ (n + 1) - 1 - o \in 1..(LineSize - 2)
    BY <1>1, <1>3, <1>6
  <2> QED
    BY <1>1, <1>2, <1>3, <2>1, FitsAre
<1> QED
  BY <1>4, <1>5, <1>6

(* Another line is accepted as it comes to an end.                          *)
LEMMA AnswerAdded ==
  ASSUME NEW a \in Seq(Seq(Nat)), NEW s \in Seq(Nat), NEW n \in Nat, NEW o \in Nat,
         Opens(s, o, n), n < Len(s), s[n + 1] = NL, n - o \in 1..(LineSize - 2),
         Answers(a, s, n)
  PROVE  Answers(Append(a, SubSeq(s, o + 1, n)), s, n + 1)
<1> DEFINE l == [offset |-> o, len |-> n - o]
           F == Fits(s, n)
           G == Fits(s, n + 1)
           text == SubSeq(s, o + 1, n)
           b == Append(a, text)
<1>1. Len(s) \in Nat /\ o <= n /\ n <= Len(s) /\ Len(a) \in Nat
  BY LenProperties DEF Opens
<1>2. G = F \cup {l} /\ \A m \in F : m.offset < o
  <2>1. l = [offset |-> o, len |-> n - o]
    OBVIOUS
  <2> HIDE DEF l
  <2> QED
    BY <2>1, FitsGrow
<1>3. IsFiniteSet(F) /\ IsFiniteSet(G)
  BY FitsAreFinite
<1>4. l.offset = o /\ o + l.len = n
  BY <1>1
<1>5. \A m \in F : m.offset \in Nat
  <2> TAKE m \in F
  <2>1. PICK c, e \in 0..n : /\ IsLine(s, c, e) /\ m = [offset |-> c, len |-> e - 1 - c]
                             /\ e - 1 - c \in 1..(LineSize - 2)
    BY <1>1, FitsAre
  <2> QED
    BY <2>1
<1>6. Len(a) = Cardinality(F)
      /\ \A m \in F : a[Cardinality({k \in F : k.offset <= m.offset})]
                        = SubSeq(s, m.offset + 1, m.offset + m.len)
  BY DEF Answers
<1>7. text \in Seq(Nat)
  BY <1>1, PieceIs DEF Opens
<1> HIDE DEF l, F, G, text
<1>8. /\ b \in Seq(Seq(Nat)) /\ Len(b) = Len(a) + 1 /\ b[Len(a) + 1] = text
      /\ \A i \in 1..Len(a) : b[i] = a[i]
  BY <1>7, AppendProperties
<1> HIDE DEF b
<1>9. l \notin F
  BY <1>1, <1>2, <1>4
<1>10. Cardinality(G) = Cardinality(F) + 1
  BY <1>2, <1>3, <1>9, FS_AddElement
<1>11. ASSUME NEW m \in G
       PROVE  b[Cardinality({k \in G : k.offset <= m.offset})]
                = SubSeq(s, m.offset + 1, m.offset + m.len)
  <2>1. CASE m = l
    <3>1. {k \in G : k.offset <= m.offset} = G
      BY <1>1, <1>2, <1>4, <1>5, <2>1
    <3>2. Cardinality({k \in G : k.offset <= m.offset}) = Len(a) + 1
      BY <1>6, <1>10, <3>1
    <3>3. SubSeq(s, m.offset + 1, m.offset + m.len) = text
      BY <1>4, <2>1 DEF text
    <3> QED
      BY <1>8, <3>2, <3>3
  <2>2. CASE m # l
    <3> DEFINE below == {k \in F : k.offset <= m.offset}
    <3>1. m \in F
      BY <1>2, <2>2
    <3>2. {k \in G : k.offset <= m.offset} = below
      BY <1>1, <1>2, <1>4, <1>5, <3>1
    <3>3. below \in SUBSET F /\ m \in below
      BY <1>5, <3>1
    <3>4. a[Cardinality(below)] = SubSeq(s, m.offset + 1, m.offset + m.len)
      BY <1>6, <3>1
    <3> HIDE DEF below
    <3>5. IsFiniteSet(below) /\ Cardinality(below) <= Cardinality(F)
      BY <1>3, <3>3, FS_Subset
    <3>6. Cardinality(below) \in Nat /\ Cardinality(below) # 0
      BY <3>3, <3>5, FS_CardinalityType, FS_EmptySet
    <3>7. Cardinality(below) \in 1..Len(a)
      BY <1>1, <1>6, <3>5, <3>6
    <3> QED
      BY <1>8, <3>2, <3>4, <3>7
  <2> QED
    BY <2>1, <2>2
<1> QED
  BY <1>6, <1>8, <1>10, <1>11 DEF Answers, b, text, G

(* What is typed behind the n-th character changes nothing up to there.     *)
LEMMA LinesStayAs ==
  ASSUME NEW s \in Seq(Nat), NEW c \in Nat, NEW n \in Nat, n <= Len(s),
         NEW t, t = Append(s, c)
  PROVE  /\ t \in Seq(Nat) /\ Len(t) = Len(s) + 1 /\ \A i \in 1..Len(s) : t[i] = s[i]
         /\ \A b, e \in 0..n : IsLine(t, b, e) <=> IsLine(s, b, e)
         /\ \A o \in 0..n : Opens(s, o, n) => Opens(t, o, n)
<1>1. /\ t \in Seq(Nat) /\ Len(t) = Len(s) + 1 /\ t[Len(s) + 1] = c
      /\ \A i \in 1..Len(s) : t[i] = s[i]
  BY AppendProperties
<1>2. Len(s) \in Nat /\ DOMAIN s = 1..Len(s) /\ DOMAIN t = 1..Len(t)
  BY <1>1, LenProperties
<1>3. \A k \in 0..n : (k \in Breaks(t) <=> k \in Breaks(s))
  BY <1>1, <1>2 DEF Breaks
<1>4. \A k \in Breaks(s) \cup Breaks(t) : k \in Nat
  BY <1>2 DEF Breaks
<1>5. \A k \in 0..n : (k \in LineStarts(t) <=> k \in LineStarts(s))
  BY <1>3 DEF LineStarts
<1>6. ASSUME NEW b \in 0..n, NEW e \in 0..n
      PROVE  IsLine(t, b, e) <=> IsLine(s, b, e)
  <2>1. e # Len(s) + 1 /\ e # Len(t) + 1
    BY <1>1, <1>2
  <2>2. (\A k \in Breaks(s) : ~(b < k /\ k < e)) <=> \A k \in Breaks(t) : ~(b < k /\ k < e)
    BY <1>3, <1>4
  <2> QED
    BY <1>3, <1>5, <2>1, <2>2 DEF IsLine
<1>7. ASSUME NEW o \in 0..n, Opens(s, o, n)
      PROVE  Opens(t, o, n)
  BY <1>1, <1>2, <1>3, <1>4, <1>5, <1>7 DEF Opens
<1> QED
  BY <1>1, <1>6, <1>7

LEMMA PieceStaysAs ==
  ASSUME NEW s \in Seq(Nat), NEW t \in Seq(Nat),
         Len(t) = Len(s) + 1, \A i \in 1..Len(s) : t[i] = s[i],
         NEW x \in Nat, NEW y \in Nat, x <= y, y <= Len(s)
  PROVE  SubSeq(s, x + 1, y) = SubSeq(t, x + 1, y)
<1>1. Len(s) \in Nat /\ y <= Len(t)
  BY LenProperties
<1>2. /\ SubSeq(s, x + 1, y) \in Seq(Nat) /\ Len(SubSeq(s, x + 1, y)) = y - x
      /\ \A i \in 1..(y - x) : SubSeq(s, x + 1, y)[i] = s[x + i]
  BY PieceIs
<1>3. /\ SubSeq(t, x + 1, y) \in Seq(Nat) /\ Len(SubSeq(t, x + 1, y)) = y - x
      /\ \A i \in 1..(y - x) : SubSeq(t, x + 1, y)[i] = t[x + i]
  BY <1>1, PieceIs
<1>4. \A i \in 1..(y - x) : SubSeq(s, x + 1, y)[i] = SubSeq(t, x + 1, y)[i]
  <2>1. TAKE i \in 1..(y - x)
  <2>2. x + i \in 1..Len(s)
    BY <1>1
  <2>3. t[x + i] = s[x + i]
    BY <2>2
  <2> QED
    BY <1>2, <1>3, <2>3
<1> QED
  BY <1>2, <1>3, <1>4, SeqEqual

LEMMA FitsStayAs ==
  ASSUME NEW s \in Seq(Nat), NEW c \in Nat, NEW n \in Nat, n <= Len(s),
         NEW t, t = Append(s, c)
  PROVE  /\ Fits(t, n) = Fits(s, n)
         /\ NoExactFit(t, n) <=> NoExactFit(s, n)
         /\ \A a : Answers(a, s, n) => Answers(a, t, n)
<1>1. /\ t \in Seq(Nat) /\ Len(t) = Len(s) + 1 /\ \A i \in 1..Len(s) : t[i] = s[i]
      /\ \A b, e \in 0..n : IsLine(t, b, e) <=> IsLine(s, b, e)
  BY LinesStayAs, ZenonT(30)
<1>2. Len(s) \in Nat /\ n <= Len(t)
  BY <1>1, LenProperties
<1>3. ASSUME NEW l \in Fits(s, n)
      PROVE  /\ l \in Fits(t, n)
             /\ SubSeq(s, l.offset + 1, l.offset + l.len)
                  = SubSeq(t, l.offset + 1, l.offset + l.len)
  <2>1. PICK b, e \in 0..n : /\ IsLine(s, b, e) /\ l = [offset |-> b, len |-> e - 1 - b]
                             /\ e - 1 - b \in 1..(LineSize - 2)
    BY FitsAre
  <2>2. l \in Fits(t, n)
    BY <1>1, <1>2, <2>1, FitsAre
  <2> DEFINE x == l.offset
             y == l.offset + l.len
  <2>3. x \in Nat /\ y \in Nat /\ x <= y /\ y <= n
    <3>1. x = b /\ y = b + (e - 1 - b)
      BY <2>1, Zenon
    <3>2. b \in 0..n /\ e \in 0..n /\ e - 1 - b \in 1..(LineSize - 2) /\ n \in Nat
      BY <2>1
    <3> HIDE DEF x, y
    <3> QED BY ONLY <3>1, <3>2
  <2> HIDE DEF x, y
  <2>4. y <= Len(s)
    BY ONLY <1>2, <2>3, n \in Nat, n <= Len(s)
  <2>5. SubSeq(s, x + 1, y) = SubSeq(t, x + 1, y)
    BY ONLY <1>1, <2>3, <2>4, s \in Seq(Nat), PieceStaysAs
  <2> QED
    BY ONLY <2>2, <2>5 DEF x, y
<1>4. ASSUME NEW l \in Fits(t, n)
      PROVE  l \in Fits(s, n)
  <2>1. PICK b, e \in 0..n : /\ IsLine(t, b, e) /\ l = [offset |-> b, len |-> e - 1 - b]
                             /\ e - 1 - b \in 1..(LineSize - 2)
    BY <1>1, <1>2, FitsAre
  <2> QED
    BY <1>1, <2>1, FitsAre
<1>5. Fits(t, n) = Fits(s, n)
  BY <1>3, <1>4
<1>6. NoExactFit(t, n) <=> NoExactFit(s, n)
  BY <1>1 DEF NoExactFit
<1>7. ASSUME NEW a, Answers(a, s, n)
      PROVE  Answers(a, t, n)
  BY <1>3, <1>5, <1>7 DEF Answers
<1> QED
  BY <1>5, <1>6, <1>7

(* What is read so far is a beginning of what is to be accepted.            *)
LEMMA AnswersBegin ==
  ASSUME NEW a \in Seq(Seq(Nat)), NEW s \in Seq(Nat), NEW n \in Nat, n <= Len(s),
         Answers(a, s, n)
  PROVE  /\ \A l \in Acceptable(s) : Place(s, l) <= Len(a) =>
              a[Place(s, l)] = SubSeq(s, l.offset + 1, l.offset + l.len)
         /\ Len(a) <= Cardinality(Acceptable(s))
         /\ n = Len(s) => Len(a) = Cardinality(Acceptable(s))
<1> DEFINE F == Fits(s, n)
           A == Acceptable(s)
<1>1. Len(s) \in Nat
  BY LenProperties
<1>2. IsFiniteSet(A) /\ IsFiniteSet(F) /\ F \in SUBSET A
  BY FitsAreFinite
<1>3. Cardinality(F) <= Cardinality(A) /\ Cardinality(F) \in Nat /\ Cardinality(A) \in Nat
  BY <1>2, FS_Subset, FS_CardinalityType
<1>4. Len(a) = Cardinality(F)
  BY DEF Answers
<1>5. n = Len(s) => F = A
  BY DEF Fits, Acceptable
<1>6. A = Fits(s, Len(s))
  BY DEF Fits, Acceptable
<1>7. ASSUME NEW l \in A
      PROVE  l.offset \in Nat /\ l.len \in Nat
             /\ IsLine(s, l.offset, l.offset + l.len + 1)
             /\ l.offset + l.len + 1 \in Breaks(s)
  <2>4. l \in Fits(s, Len(s)) /\ Len(s) <= Len(s)
    BY <1>1, <1>6
  <2>1. PICK b, e \in 0..Len(s) :
                 /\ IsLine(s, b, e) /\ l = [offset |-> b, len |-> e - 1 - b]
                 /\ e - 1 - b \in 1..(LineSize - 2)
    BY <1>1, <2>4, FitsAre
  <2>2. l.offset = b /\ l.len = e - 1 - b /\ b + (e - 1 - b) + 1 = e
    BY <2>1
  <2>3. e \in Breaks(s)
    BY <1>1, <2>1 DEF IsLine
  <2> QED
    BY <2>1, <2>2, <2>3
(* A line that begins earlier ends earlier.                                 *)
<1>8. ASSUME NEW l \in A, NEW m \in A, m.offset <= l.offset
      PROVE  m.offset + m.len <= l.offset + l.len
  <2> DEFINE b == l.offset
             e == l.offset + l.len + 1
             c == m.offset
             f == m.offset + m.len + 1
  <2>1. /\ b \in Nat /\ e \in Nat /\ c \in Nat /\ f \in Nat /\ c <= b
        /\ IsLine(s, b, e) /\ IsLine(s, c, f) /\ e \in Breaks(s) /\ b < e
    <3>1. /\ b \in Nat /\ l.len \in Nat /\ IsLine(s, b, e) /\ e \in Breaks(s)
      BY <1>7
    <3>2. /\ c \in Nat /\ m.len \in Nat /\ IsLine(s, c, f)
      BY <1>7
    <3> QED
      BY <1>8, <3>1, <3>2, SMTT(30)
  <2> HIDE DEF b, e, c, f
  <2>2. ~(c < e /\ e < f)
    BY <2>1 DEF IsLine
  <2>3. f <= e
    BY <2>1, <2>2
  <2> QED
    BY <1>7, <2>3 DEF e, f
<1>9. ASSUME NEW l \in A, Place(s, l) <= Len(a)
      PROVE  a[Place(s, l)] = SubSeq(s, l.offset + 1, l.offset + l.len)
  <2> DEFINE P == {m \in A : m.offset <= l.offset}
  <2>1. Place(s, l) = Cardinality(P)
    BY DEF Place
  <2>2. CASE l \in F
    <3>1. \A m \in A : m.offset <= l.offset => m \in F
      <4> TAKE m \in A
      <4> HAVE m.offset <= l.offset
      <4>1. m.offset + m.len <= l.offset + l.len
        BY <1>8
      <4>2. l.offset + l.len < n
        BY <2>2 DEF Fits
      <4>3. m.offset + m.len < n
        BY <1>7, <4>1, <4>2, SMTT(30)
      <4> QED
        BY <4>3 DEF Fits
    <3>2. P = {m \in F : m.offset <= l.offset}
      BY <1>2, <3>1
    <3> QED
      BY <2>1, <2>2, <3>2 DEF Answers
  <2>3. CASE l \notin F
    <3>1. \A m \in F : m.offset <= l.offset
      <4> TAKE m \in F
      <4>1. m \in A /\ m.offset + m.len < n
        BY <1>2 DEF Fits
      <4>2. ~(l.offset + l.len < n)
        BY <2>3 DEF Fits
      <4>3. l.offset <= m.offset => l.offset + l.len <= m.offset + m.len
        BY <1>8, <4>1
      <4> QED
        BY <1>7, <4>1, <4>2, <4>3
    <3>2. F \cup {l} \in SUBSET P /\ P \in SUBSET A
      BY <1>2, <1>7, <3>1
    <3>3. IsFiniteSet(P) /\ IsFiniteSet(F \cup {l})
          /\ Cardinality(F \cup {l}) = Cardinality(F) + 1
      BY <1>2, <2>3, <3>2, FS_Subset, FS_AddElement
    <3>4. Cardinality(F \cup {l}) <= Cardinality(P)
      BY <3>2, <3>3, FS_Subset
    <3>5. Cardinality(P) \in Nat
      BY <3>3, FS_CardinalityType
    <3> QED
      BY <1>3, <1>4, <1>9, <2>1, <3>3, <3>4, <3>5
  <2> QED
    BY <2>2, <2>3
<1> QED
  BY <1>3, <1>4, <1>5, <1>9

(* The line that is open behind n characters is known to be too long, and   *)
(* the earlier ones are accepted.                                           *)
Known(s, n, long, k, a) ==
  NoExactFit(s, n) => (long <=> k > 0) /\ Answers(a, s, n)

(* The last characters of the first m are l, which is len characters and    *)
(* those behind the n-th.                                                   *)
EndsWith(s, m, l) == \A i \in 1..Len(l) : l[i] = s[m - Len(l) + i]

Longer(l, len, n, m) == Len(l) = len + (m - n)

(* Of the line that begins at o k parts went by, and there are len more     *)
(* characters up to the n-th.                                               *)
InParts(o, n, k, len) == n - o = Parts(k) + len

NoBreak(s, n, m) == \A j \in (n + 1)..m : s[j] # NL

(* What Returned makes of tooLong and accepted.                             *)
Judged(l, long, long2, a, b) ==
  /\ long \in BOOLEAN /\ long2 \in BOOLEAN
  /\ l = <<NL>> => long2 = long /\ b = a
  /\ l # <<NL>> /\ (long \/ l[Len(l)] # NL) => (long2 <=> l[Len(l)] # NL) /\ b = a
  /\ l # <<NL>> /\ ~long /\ l[Len(l)] = NL => ~long2 /\ b = Append(a, Front(l))

(* Characters without a break belong to the line that is open.              *)
LEMMA LineStaysOpen ==
  ASSUME NEW s \in Seq(Nat), NEW n \in Nat, NEW o \in Nat, NEW m \in Nat,
         Opens(s, o, n), n <= m, m <= Len(s), NoBreak(s, n, m)
  PROVE  /\ Opens(s, o, m) /\ Fits(s, m) = Fits(s, n)
         /\ \A a : Answers(a, s, n) => Answers(a, s, m)
<1>1. Len(s) \in Nat /\ \A k \in Breaks(s) : k \in Nat /\ s[k] = NL
  BY LenProperties, StartsAreNumbers
<1>2. \A k \in Breaks(s) : ~(n < k /\ k <= m)
  BY <1>1 DEF NoBreak
<1>3. Opens(s, o, m)
  BY <1>1, <1>2 DEF Opens
<1>4. Fits(s, m) = Fits(s, n)
  BY <1>2, FitsStay
<1> QED
  BY <1>3, <1>4 DEF Answers

LEMMA PartsAre ==
  /\ LineSize \in Nat /\ LineSize > 1 /\ Parts(0) = 0
  /\ \A k \in Nat : /\ Parts(k) \in Nat /\ k <= Parts(k)
                    /\ Parts(k + 1) = Parts(k) + (LineSize - 1)
                    /\ k > 0 => Parts(k) >= LineSize - 1
<1>1. LineSize \in Nat /\ LineSize \notin 0..1
  BY FileAssumption
<1>2. LineSize > 1
  BY <1>1
<1> DEFINE L == LineSize - 1
<1>3. L \in Nat /\ L > 0
  BY <1>1, <1>2
<1> HIDE DEF L
<1>4. ASSUME NEW k \in Nat
      PROVE  /\ k * L \in Nat /\ k <= k * L /\ (k + 1) * L = k * L + L
             /\ k > 0 => k * L >= L
  BY <1>3
<1>5. 0 * L = 0
  BY <1>3
<1> QED
  BY <1>1, <1>2, <1>4, <1>5 DEF Parts, L

LEMMA NoExactFitBefore ==
  ASSUME NEW s, NEW n \in Nat, NEW m \in Nat, n <= m, NoExactFit(s, m)
  PROVE  NoExactFit(s, n)
<1>1. \A b \in 0..n : b \in 0..m
  OBVIOUS
<1> QED
  BY <1>1 DEF NoExactFit

LEMMA FrontIs ==
  ASSUME NEW l \in Seq(Nat), Len(l) > 0
  PROVE  LET u == SubSeq(l, 1, Len(l) - 1)
             q == Len(l) - 1
         IN  u \in Seq(Nat) /\ Len(u) = q /\ \A i \in 1..q : u[i] = l[i]
<1> DEFINE q == Len(l) - 1
<1>1. Len(l) \in Nat /\ q \in Nat /\ 0 <= q /\ q <= Len(l)
  BY LenProperties
<1> HIDE DEF q
<1>2. /\ SubSeq(l, 0 + 1, q) \in Seq(Nat) /\ Len(SubSeq(l, 0 + 1, q)) = q - 0
      /\ \A i \in 1..(q - 0) : SubSeq(l, 0 + 1, q)[i] = l[0 + i]
  BY <1>1, PieceIs
<1>3. 0 + 1 = 1 /\ q - 0 = q /\ \A i \in 1..q : 0 + i = i
  BY <1>1
<1>4. /\ SubSeq(l, 1, q) \in Seq(Nat) /\ Len(SubSeq(l, 1, q)) = q
      /\ \A i \in 1..q : SubSeq(l, 1, q)[i] = l[i]
  BY <1>2, <1>3
<1> QED
  BY <1>4 DEF q

LEMMA FitLength ==
  ASSUME NEW size \in Nat, NEW x \in 1..(size - 1), x # 1
  PROVE  x - 1 \in 1..(size - 2)
  OBVIOUS

LEMMA BetweenIs ==
  ASSUME NEW n \in Nat, NEW m \in Nat, NEW j \in (n + 1)..(m - 1)
  PROVE  j - n \in 1..(m - n - 1) /\ n + (j - n) = j
  OBVIOUS

LEMMA StillUpTo ==
  ASSUME NEW n \in Nat, NEW m \in Nat, n < m, NEW o \in 0..n
  PROVE  o \in 0..m /\ o \in Nat /\ n <= m
  OBVIOUS

LEMMA PartLength ==
  ASSUME NEW m \in Nat, NEW n \in Nat, NEW o \in Nat, NEW x \in Nat, NEW y \in Nat,
         NEW kl \in Nat, n - o = kl + y, x = y + (m - n)
  PROVE  m - o = kl + x /\ o <= m
  OBVIOUS

(* read_line returns l, which ends with the m-th character; ln is what it   *)
(* had of the line before, and what there was of it earlier went by in k    *)
(* parts.  The line is accepted if it fits, and passed over otherwise.      *)
LEMMA LineReturned ==
  ASSUME NEW s \in Seq(Nat), NEW n \in Nat, NEW m \in Nat, n < m, m <= Len(s),
         NEW o \in Nat, NEW k \in Nat, NEW ln \in Seq(Nat), NEW l \in Seq(Nat),
         NEW a \in Seq(Seq(Nat)), NEW b, NEW long, NEW long2,
         Opens(s, o, n), InParts(o, n, k, Len(ln)),
         Longer(l, Len(ln), n, m), EndsWith(s, m, l), NoBreak(s, n, m - 1),
         Len(l) <= LineSize - 1, s[m] = NL \/ Len(l) = LineSize - 1,
         Known(s, n, long, k, a), Judged(l, long, long2, a, b)
  PROVE  \E o2, k2 \in 0..m :
           /\ Opens(s, o2, m) /\ InParts(o2, m, k2, 0) /\ Known(s, m, long2, k2, b)
<1> DEFINE kl == Parts(k)
<1>1. Len(s) \in Nat /\ Len(l) \in Nat /\ Len(ln) \in Nat /\ o <= n /\ n <= Len(s)
  BY LenProperties DEF Opens
<1>2. /\ LineSize \in Nat /\ LineSize > 1 /\ kl \in Nat /\ k <= kl
      /\ Parts(k + 1) = kl + (LineSize - 1) /\ (k > 0 => kl >= LineSize - 1)
  BY PartsAre
<1>3. n - o = kl + Len(ln) /\ Len(l) = Len(ln) + (m - n)
  BY DEF InParts, Longer
<1> HIDE DEF kl
<1>10. m - o = kl + Len(l) /\ o <= m
  BY <1>1, <1>2, <1>3, PartLength
<1>4. NoExactFit(s, m) => NoExactFit(s, n)
  BY NoExactFitBefore
<1>5. Len(l) \in 1..(LineSize - 1) /\ l[Len(l)] = s[m]
  <2>1. Len(l) \in 1..(LineSize - 1)
    BY <1>1, <1>2, <1>3
  <2>2. m - Len(l) + Len(l) = m
    BY <1>1
  <2> QED
    <3>1. Len(l) \in 1..Len(l)
      BY <1>1, <2>1
    <3>2. l[Len(l)] = s[m - Len(l) + Len(l)]
      BY <3>1 DEF EndsWith
    <3> QED
      BY <2>1, <2>2, <3>2
<1>8. CASE s[m] # NL
  <2>1. Len(l) = LineSize - 1
    BY <1>8
  <2>2. NoBreak(s, n, m)
    <3>1. \A j \in (n + 1)..m : j = m \/ j \in (n + 1)..(m - 1)
      OBVIOUS
    <3> QED
      BY <1>8, <3>1 DEF NoBreak
  <2>3. Opens(s, o, m) /\ \A c : Answers(c, s, n) => Answers(c, s, m)
    BY <1>1, <2>2, LineStaysOpen
  <2>4. InParts(o, m, k + 1, 0) /\ o \in 0..m /\ k + 1 \in 0..m
    <3>4. m - o = kl + (LineSize - 1)
      BY <1>10, <2>1
    <3>3. Parts(k + 1) \in Nat
      BY PartsAre
    <3>5. m - o = Parts(k + 1)
      BY <1>2, <3>4
    <3>1. m - o = Parts(k + 1) + 0
      BY <3>3, <3>5
    <3>2. kl < m
      BY <1>2, <1>10, <2>1
    <3> QED
      BY <1>2, <1>10, <3>1, <3>2 DEF InParts
  <2>5. l # <<NL>>
    <3>1. l = <<NL>> => Len(l) = 1 /\ l[1] = NL
      OBVIOUS
    <3> QED
      BY <1>5, <1>8, <3>1
  <2>8. long2 \in BOOLEAN
    BY DEF Judged
  <2>6. long2 /\ b = a
    BY <1>5, <1>8, <2>5, <2>8 DEF Judged
  <2>7. Known(s, m, long2, k + 1, b)
    <3>1. k + 1 > 0
      OBVIOUS
    <3> QED
      BY <1>4, <2>3, <2>6, <3>1 DEF Known
  <2> QED
    BY <2>3, <2>4, <2>7
<1>9. CASE s[m] = NL
  <2> DEFINE p == m - 1
  <2>1. p \in Nat /\ n <= p /\ p < Len(s) /\ p + 1 = m
    BY <1>1
  <2> HIDE DEF p
  <2>2. s[p + 1] = NL /\ NoBreak(s, n, p)
    BY <1>9, <2>1 DEF p
  <2>3. Opens(s, m, m)
    BY <2>1, <2>2, LineOpens
  <2>4. Opens(s, o, p) /\ \A c : Answers(c, s, n) => Answers(c, s, p)
    BY <1>1, <2>1, <2>2, LineStaysOpen, SMTT(30)
  <2>5. IsLine(s, o, m)
    BY <2>1, <2>2, <2>4, OpenLineEnds
  <2>6. p - o = kl + (Len(l) - 1) /\ p - o \in Nat /\ o \in 0..m
    BY <1>1, <1>2, <1>5, <1>10, <2>1
  <2>7. Parts(0) = 0 /\ m - m = 0
    BY PartsAre
  <2>8. ASSUME NoExactFit(s, m)
        PROVE  ~long2 /\ Answers(b, s, m)
    <3>1. (long <=> k > 0) /\ Answers(a, s, p)
      BY <1>4, <2>4, <2>8 DEF Known
    <3>2. \A j \in 1..(p - o) : p - o # Parts(j)
      <4>1. m \in 0..m /\ m - 1 - o = p - o
        BY <2>1
      <4> QED
        BY <2>5, <2>6, <2>8, <4>1 DEF NoExactFit
    <3> DEFINE line2 == [offset |-> o, len |-> p - o]
    <3>3. line2 = [offset |-> o, len |-> p - o]
      OBVIOUS
    <3> HIDE DEF line2
    <3>4. p - o \notin 1..(LineSize - 2) => Fits(s, p + 1) = Fits(s, p)
      BY <2>1, <2>2, <2>4, <3>3, FitsGrow
    <3>5. p - o \notin 1..(LineSize - 2) => Answers(a, s, m)
      BY <2>1, <3>1, <3>4 DEF Answers
    <3>6. CASE Len(l) = 1
      <4>1. p - o = Parts(k)
        BY <1>2, <2>6, <3>6 DEF kl
      <4>2. k = 0
        <5>1. k \notin 1..(p - o)
          BY <3>2, <4>1
        <5> QED
          BY <1>2, <2>6, <3>6, <5>1
      <4>3. p - o = 0
        BY <2>7, <4>1, <4>2
      <4>4. l = <<NL>>
        <5>1. l[1] = NL
          BY <1>5, <1>9, <3>6
        <5>2. <<NL>> \in Seq(Nat) /\ Len(<<NL>>) = 1 /\ <<NL>>[1] = NL
          BY DEF NL
        <5>3. \A i \in 1..Len(l) : l[i] = <<NL>>[i]
          <6> TAKE i \in 1..Len(l)
          <6>1. i = 1
            BY <3>6
          <6> QED
            BY <5>1, <5>2, <6>1
        <5> QED
          BY <3>6, <5>2, <5>3, SeqEqual
      <4>5. p - o \notin 1..(LineSize - 2)
        BY <4>3
      <4> QED
        BY <3>1, <3>5, <4>2, <4>4, <4>5 DEF Judged
    <3>7. CASE Len(l) # 1
      <4>1. l # <<NL>>
        <5>1. l = <<NL>> => Len(l) = 1
          OBVIOUS
        <5> QED
          BY <3>7, <5>1
      <4>2. CASE k > 0
        <5>1. p - o \notin 1..(LineSize - 2)
          BY <1>2, <1>5, <2>6, <4>2
        <5>2. long2 = FALSE /\ b = a
          BY <1>5, <1>9, <3>1, <4>1, <4>2 DEF Judged
        <5> QED
          BY <3>5, <5>1, <5>2
      <4>3. CASE k = 0
        <5>1. kl = 0
          BY <2>7, <4>3 DEF kl
        <5>2. p - o = Len(l) - 1 /\ p - o \in 1..(LineSize - 2)
          <6>1. p - o = Len(l) - 1
            BY <1>1, <2>6, <5>1
          <6>2. Len(l) - 1 \in 1..(LineSize - 2)
            BY <1>2, <1>5, <3>7, FitLength
          <6> QED
            BY <6>1, <6>2
        <5>3. ~long2 /\ b = Append(a, Front(l))
          BY <1>5, <1>9, <3>1, <4>1, <4>3 DEF Judged
        <5>4. Front(l) = SubSeq(s, o + 1, p)
          <6> DEFINE u == SubSeq(l, 1, Len(l) - 1)
                     w == SubSeq(s, o + 1, p)
                     q == Len(l) - 1
          <6>1. q \in Nat /\ q <= Len(l) /\ q = p - o
            BY <1>1, <1>5, <5>2
          <6>3. u \in Seq(Nat) /\ Len(u) = q /\ \A i \in 1..q : u[i] = l[i]
            BY <1>5, FrontIs, SMTT(30)
          <6>4. w \in Seq(Nat) /\ Len(w) = p - o /\ \A i \in 1..(p - o) : w[i] = s[o + i]
            <7>1. o <= p /\ p <= Len(s)
              BY <1>1, <2>1, <2>6
            <7>2. s \in Seq(Nat) /\ o \in Nat /\ p \in Nat
              BY <1>1, <2>1
            <7>3. SubSeq(s, o + 1, p) \in Seq(Nat) /\ Len(SubSeq(s, o + 1, p)) = p - o
              BY ONLY <7>1, <7>2, PieceIs
            <7>4. \A i \in 1..(p - o) : SubSeq(s, o + 1, p)[i] = s[o + i]
              BY ONLY <7>1, <7>2, PieceIs
            <7> QED
              BY ONLY <7>3, <7>4 DEF w
          <6>5. \A i \in 1..q : l[i] = s[o + i]
            <7> TAKE i \in 1..q
            <7>1. i \in 1..Len(l) /\ m - Len(l) + i = o + i
              <8>1. m = p + 1 /\ Len(l) = q + 1 /\ q = p - o /\ i <= q
                BY <1>1, <2>1, <6>1
              <8> HIDE DEF q
              <8> QED
                BY <1>1, <2>1, <6>1, <8>1
            <7> QED
              BY <7>1 DEF EndsWith
          <6>6. Front(l) = u
            BY DEF Front
          <6> HIDE DEF u, w, q
          <6>7. Len(u) = Len(w) /\ \A i \in 1..Len(u) : u[i] = w[i]
            BY <6>1, <6>3, <6>4, <6>5
          <6>8. u = w
            BY <6>3, <6>4, <6>7, SeqEqual
          <6> QED
            BY <6>6, <6>8 DEF w
        <5>5. Answers(Append(a, SubSeq(s, o + 1, p)), s, p + 1)
          BY <2>1, <2>2, <2>4, <3>1, <5>2, AnswerAdded
        <5> QED
          BY <2>1, <5>3, <5>4, <5>5
      <4> QED
        BY <4>2, <4>3
    <3> QED
      BY <3>6, <3>7
  <2>9. m \in 0..m /\ 0 \in 0..m
    OBVIOUS
  <2>10. InParts(m, m, 0, 0)
    BY <2>7 DEF InParts
  <2>11. Known(s, m, long2, 0, b)
    BY <2>8 DEF Known
  <2> QED
    BY <2>3, <2>9, <2>10, <2>11
<1> QED
  BY <1>8, <1>9
-----------------------------------------------------------------------------
(* read_line has come to the n-th character of s: what it has of a line is  *)
(* the end of what there is of that line, the rest went by in k parts.      *)
ReadLine(s, n) ==
  /\ \E o, k \in 0..n : /\ Opens(s, o, n) /\ InParts(o, n, k, Len(line))
                        /\ Known(s, n, tooLong, k, accepted)
  /\ Len(line) < LineSize - 1 /\ EndsWith(s, n, line)

(* What is in the buffer comes next.                                        *)
ToCome(s, n) == \A i \in 1..Len(buf) : n + i <= Len(s) /\ buf[i] = s[n + i]

(* The break that the end of the input counts for is read, too.             *)
ComeTo(n) ==
  \/ n = taken - Len(buf)
  \/ n = Len(typed) + 1 /\ closed /\ taken = Len(typed) /\ buf = <<>> /\ line = <<>>

InputTypes ==
  /\ typed \in Seq(Nat) /\ closed \in BOOLEAN /\ taken \in 0..Len(typed)
  /\ buf \in Seq(Nat) /\ line \in Seq(Nat) /\ tooLong \in BOOLEAN
  /\ accepted \in Seq(Seq(Nat)) /\ (mode \in {"scan", "read"} => ~last)

(* Until the program ends read_line is at some place of the input, and the  *)
(* lines before it are answered; after that nothing is accepted any more.   *)
InputInv ==
  /\ InputTypes
  /\ \E n \in 0..Len(InputText) :
       /\ NoExactFit(InputText, n) => Answers(accepted, InputText, n)
       /\ last \/ (ReadLine(InputText, n) /\ ToCome(InputText, n) /\ ComeTo(n))

LEMMA InputTextIs ==
  ASSUME InputTypes
  PROVE  /\ InputText \in Seq(Nat) /\ Len(typed) \in Nat /\ Len(typed) <= Len(InputText)
         /\ \A i \in 1..Len(typed) : InputText[i] = typed[i]
         /\ ~closed => InputText = typed
         /\ closed => /\ Len(InputText) = Len(typed) + 1
                      /\ InputText[Len(typed) + 1] = NL
<1>1. typed \in Seq(Nat) /\ Len(typed) \in Nat /\ NL \in Nat
  BY LenProperties DEF InputTypes, NL
<1>2. CASE closed
  <2>1. InputText = Append(typed, NL)
    BY <1>2 DEF InputText
  <2>2. /\ Append(typed, NL) \in Seq(Nat) /\ Len(Append(typed, NL)) = Len(typed) + 1
        /\ Append(typed, NL)[Len(typed) + 1] = NL
        /\ \A i \in 1..Len(typed) : Append(typed, NL)[i] = typed[i]
    BY <1>1, AppendProperties
  <2> QED
    BY <1>1, <1>2, <2>1, <2>2
<1>3. CASE ~closed
  BY <1>1, <1>3 DEF InputText
<1> QED
  BY <1>2, <1>3

LEMMA PrintLinesDoes ==
  ASSUME NEW ls, NEW quits \in BOOLEAN, PrintLines(ls, quits)
  PROVE  last' = quits /\ (mode' \in {"scan", "read"} => ~last')
<1>1. CASE ls = <<>>
  BY <1>1 DEF PrintLines
<1>2. CASE ls # <<>>
  BY <1>2 DEF PrintLines
<1> QED
  BY <1>1, <1>2

LEMMA ReturnedDoes ==
  ASSUME InputTypes, NEW l \in Seq(Nat), Len(l) > 0, Returned(l)
  PROVE  /\ line' = <<>> /\ (mode' \in {"scan", "read"} => ~last')
         /\ tooLong' \in BOOLEAN /\ accepted' \in Seq(Seq(Nat))
         /\ Judged(l, tooLong, tooLong', accepted, accepted')
<1>1. line' = <<>>
  BY DEF Returned
<1>2. tooLong \in BOOLEAN /\ accepted \in Seq(Seq(Nat))
  BY DEF InputTypes
<1>3. CASE l = <<NL>> \/ Refused(l)
  <2>1. /\ tooLong' = (IF l = <<NL>> THEN tooLong ELSE Last(l) # NL)
        /\ PrintLines(<<>>, FALSE) /\ accepted' = accepted
    BY <1>3 DEF Returned
  <2>2. mode' \in {"scan", "read"} => ~last'
    BY <2>1, PrintLinesDoes
  <2>3. tooLong' \in BOOLEAN
    BY <1>2, <2>1
  <2>4. CASE l = <<NL>>
    <3>1. tooLong' = tooLong
      BY <2>1, <2>4
    <3>2. Judged(l, tooLong, tooLong', accepted, accepted')
      BY <1>2, <2>1, <2>3, <2>4, <3>1 DEF Judged
    <3> QED
      BY <1>1, <1>2, <2>1, <2>2, <2>3, <3>2
  <2>5. CASE l # <<NL>>
    <3>1. (tooLong' <=> l[Len(l)] # NL) /\ (tooLong \/ l[Len(l)] # NL)
      BY <1>3, <2>1, <2>5 DEF Refused, Last
    <3>2. Judged(l, tooLong, tooLong', accepted, accepted')
      BY <1>2, <2>1, <2>3, <2>5, <3>1 DEF Judged
    <3> QED
      BY <1>1, <1>2, <2>1, <2>2, <2>3, <3>2
  <2> QED
    BY <2>4, <2>5
<1>4. CASE ~(l = <<NL>> \/ Refused(l))
  <2>1. /\ tooLong' = FALSE /\ accepted' = Append(accepted, Front(l))
        /\ Answer(Front(l))
    BY <1>4 DEF Returned
  <2>2. mode' \in {"scan", "read"} => ~last'
    <3> DEFINE n == Number(Front(l))
    <3>1. IF n \in DOMAIN table THEN PrintLines(<<table[n]>>, FALSE)
                                ELSE PrintLines(<<>>, n = 0)
      BY <2>1 DEF Answer
    <3> HIDE DEF n
    <3>2. CASE n \in DOMAIN table
      BY <3>1, <3>2, PrintLinesDoes
    <3>3. CASE n \notin DOMAIN table
      <4>1. PrintLines(<<>>, n = 0) /\ (n = 0) \in BOOLEAN
        BY <3>1, <3>3
      <4> QED
        BY <4>1, PrintLinesDoes
    <3> QED
      BY <3>2, <3>3
  <2>3. l # <<NL>> /\ ~tooLong /\ l[Len(l)] = NL
    BY <1>4 DEF Refused, Last
  <2>4. Judged(l, tooLong, tooLong', accepted, accepted')
    BY <1>2, <2>1, <2>3 DEF Judged
  <2>5. Front(l) \in Seq(Nat)
    BY FrontIs DEF Front
  <2>6. accepted' \in Seq(Seq(Nat))
    BY <1>2, <2>1, <2>5, AppendProperties
  <2> QED
    BY <1>1, <2>1, <2>2, <2>4, <2>6
<1> QED
  BY <1>3, <1>4

(* A step keeps the invariant that has come to some place rightly.          *)
LEMMA PlaceReached ==
  ASSUME InputTypes', NEW m \in Nat, m <= Len(InputText)',
         (ReadLine(InputText, m) /\ ToCome(InputText, m) /\ ComeTo(m))'
  PROVE  InputInv'
<1>1. InputText' \in Seq(Nat)
  <2>1. CASE closed'
    <3>1. InputText' = Append(typed', NL) /\ NL \in Nat /\ typed' \in Seq(Nat)
      BY <2>1 DEF InputText, NL, InputTypes
    <3> QED
      BY <3>1, AppendProperties
  <2>2. CASE ~closed'
    BY <2>2 DEF InputText, InputTypes
  <2> QED
    BY <2>1, <2>2
<1>2. m \in 0..Len(InputText)'
  BY <1>1, LenProperties
<1>3. (NoExactFit(InputText, m) => Answers(accepted, InputText, m))'
  BY DEF ReadLine, Known
<1> QED
  BY <1>2, <1>3 DEF InputInv

(* Steps that leave the input alone.                                        *)
LEMMA InputStays ==
  ASSUME InputInv, UNCHANGED <<typed, closed, taken, buf, line, tooLong, accepted>>,
         last => last', mode' \in {"scan", "read"} => ~last'
  PROVE  InputInv'
<1>1. InputText' = InputText
  BY DEF InputText
<1>2. InputTypes'
  BY DEF InputInv, InputTypes
<1>3. PICK n \in 0..Len(InputText) :
        /\ NoExactFit(InputText, n) => Answers(accepted, InputText, n)
        /\ last \/ (ReadLine(InputText, n) /\ ToCome(InputText, n) /\ ComeTo(n))
  BY DEF InputInv
<1>4. (NoExactFit(InputText, n) => Answers(accepted, InputText, n))'
  BY <1>1, <1>3 DEF NoExactFit, Answers
<1>5. (last \/ (ReadLine(InputText, n) /\ ToCome(InputText, n) /\ ComeTo(n)))'
  BY <1>1, <1>3 DEF ReadLine, ToCome, ComeTo, Known
<1> QED
  BY <1>1, <1>2, <1>3, <1>4, <1>5 DEF InputInv

(* The invariant while read_line runs.                                      *)
LEMMA PlaceNow ==
  ASSUME InputInv, mode = "read"
  PROVE  /\ InputTypes /\ ~last
         /\ \E n \in 0..Len(InputText) :
              ReadLine(InputText, n) /\ ToCome(InputText, n) /\ ComeTo(n)
  BY DEF InputInv, InputTypes

(* Something is typed, or the end of the input.                             *)
LEMMA InputGrows ==
  ASSUME InputInv, mode = "read", NEW c \in Nat, InputText' = Append(InputText, c),
         ~closed, InputTypes', Len(typed)' \in Nat,
         UNCHANGED <<taken, buf, line, tooLong, accepted>>
  PROVE  InputInv'
<1>1. PICK n \in 0..Len(InputText) :
        InputTypes /\ ReadLine(InputText, n) /\ ToCome(InputText, n) /\ ComeTo(n)
  BY PlaceNow
<1> DEFINE s == InputText
           t == InputText'
<1>2. s \in Seq(Nat) /\ Len(s) \in Nat
  BY <1>1, InputTextIs, LenProperties
<1>3. t = Append(s, c) /\ n \in Nat /\ n <= Len(s)
  BY <1>2
<1> HIDE DEF s, t
<1>4. /\ t \in Seq(Nat) /\ Len(t) = Len(s) + 1 /\ \A i \in 1..Len(s) : t[i] = s[i]
      /\ \A o \in 0..n : Opens(s, o, n) => Opens(t, o, n)
  <2>1. t \in Seq(Nat) /\ Len(t) = Len(s) + 1 /\ \A i \in 1..Len(s) : t[i] = s[i]
    BY <1>2, <1>3, AppendProperties
  <2>2. \A o \in 0..n : Opens(s, o, n) => Opens(t, o, n)
    BY <1>2, <1>3, LinesStayAs
  <2> QED
    BY <2>1, <2>2
<1>5. /\ NoExactFit(t, n) <=> NoExactFit(s, n)
      /\ \A a : Answers(a, s, n) => Answers(a, t, n)
  BY <1>2, <1>3, FitsStayAs
<1>6. line \in Seq(Nat) /\ buf \in Seq(Nat) /\ Len(line) \in Nat /\ Len(buf) \in Nat
  BY <1>1, LenProperties DEF InputTypes
<1>7. ReadLine(s, n) /\ ToCome(s, n)
  BY <1>1 DEF s
<1>8. PICK o, k \in 0..n : /\ Opens(s, o, n) /\ InParts(o, n, k, Len(line))
                           /\ Known(s, n, tooLong, k, accepted)
  BY <1>7 DEF ReadLine
<1>9. Len(line) <= n
  <2>1. Parts(k) \in Nat /\ n - o = Parts(k) + Len(line)
    BY <1>8, PartsAre DEF InParts
  <2> QED
    BY <1>3, <1>6, <2>1
<1>10. EndsWith(t, n, line)
  <2>1. \A i \in 1..Len(line) : n - Len(line) + i \in 1..Len(s)
    BY <1>2, <1>3, <1>6, <1>9, SMTT(30)
  <2>2. EndsWith(s, n, line)
    BY <1>7 DEF ReadLine
  <2> QED
    BY <1>4, <2>1, <2>2 DEF EndsWith
<1>11. Known(t, n, tooLong, k, accepted)
  BY <1>5, <1>8 DEF Known
<1>12. ReadLine(t, n)
  BY <1>4, <1>7, <1>8, <1>10, <1>11 DEF ReadLine
<1>13. ToCome(t, n)
  <2> SUFFICES ASSUME NEW i \in 1..Len(buf)
               PROVE  n + i <= Len(t) /\ buf[i] = t[n + i]
    BY DEF ToCome
  <2>1. n + i <= Len(s) /\ buf[i] = s[n + i]
    BY <1>7 DEF ToCome
  <2>2. n + i \in 1..Len(s)
    BY <1>2, <1>3, <1>6, <2>1
  <2> QED
    BY <1>2, <1>4, <2>1, <2>2
<1>14. n = taken - Len(buf)
  BY <1>1 DEF ComeTo
<1>15. /\ ReadLine(InputText, n)' /\ ToCome(InputText, n)' /\ ComeTo(n)'
  <2>1. ReadLine(InputText, n)'
    BY <1>12 DEF ReadLine, t
  <2>2. ToCome(InputText, n)'
    BY <1>13 DEF ToCome, t
  <2>3. ComeTo(n)'
    BY <1>14 DEF ComeTo
  <2> QED
    BY <2>1, <2>2, <2>3
<1>16. n <= Len(InputText)'
  BY <1>2, <1>3, <1>4 DEF t
<1> QED
  BY <1>3, <1>15, <1>16, PlaceReached

LEMMA TypeKeeps ==
  ASSUME InputInv, Type
  PROVE  InputInv'
<1>1. mode = "read" /\ ~closed /\ closed' = closed /\ UNCHANGED mode /\ UNCHANGED last
      /\ UNCHANGED <<taken, buf, line, tooLong, accepted>>
  BY DEF Type, InSelect, reader, printer
<1>2. PICK c \in Key : typed' = Append(typed, c)
  BY DEF Type
<1>3. c \in Nat
  BY FileAssumption
<1>4. InputTypes /\ ~last
  BY <1>1, PlaceNow
<1>5. InputText' = Append(InputText, c)
  BY <1>1, <1>2 DEF InputText
<1>6. typed' \in Seq(Nat) /\ Len(typed') = Len(typed) + 1 /\ Len(typed) \in Nat
      /\ Len(typed') \in Nat
  BY <1>2, <1>3, <1>4, AppendProperties, LenProperties DEF InputTypes
<1>7. taken \in 0..Len(typed')
  BY <1>4, <1>6 DEF InputTypes
<1>8. InputTypes'
  BY <1>1, <1>4, <1>6, <1>7 DEF InputTypes
<1> QED
  BY <1>1, <1>3, <1>5, <1>6, <1>8, InputGrows

LEMMA CloseInputKeeps ==
  ASSUME InputInv, CloseInput
  PROVE  InputInv'
<1>1. mode = "read" /\ ~closed /\ closed' /\ UNCHANGED mode /\ UNCHANGED last
      /\ UNCHANGED <<typed, taken, buf, line, tooLong, accepted>>
  BY DEF CloseInput, InSelect, reader, printer
<1>2. closed' \in BOOLEAN
  BY DEF CloseInput
<1>4. InputTypes /\ ~last
  BY <1>1, PlaceNow
<1>5. InputText' = Append(InputText, NL) /\ NL \in Nat
  BY <1>1 DEF InputText, NL
<1>6. Len(typed') \in Nat
  BY <1>1, <1>4, LenProperties DEF InputTypes
<1>8. InputTypes'
  BY <1>1, <1>2, <1>4 DEF InputTypes
<1> QED
  BY <1>1, <1>5, <1>6, <1>8, InputGrows

LEMMA SelectInputKeeps ==
  ASSUME InputInv, SelectInput
  PROVE  InputInv'
<1>1. /\ mode = "read" /\ buf = <<>> /\ Available > 0
      /\ buf' = SubSeq(typed, taken + 1, Len(typed)) /\ taken' = Len(typed)
      /\ UNCHANGED <<typed, closed, mode, line, tooLong, accepted, last>>
  BY DEF SelectInput, InSelect, input, printer
<1>2. PICK n \in 0..Len(InputText) :
        InputTypes /\ ReadLine(InputText, n) /\ ToCome(InputText, n) /\ ComeTo(n)
  BY <1>1, PlaceNow
<1>3. /\ InputText \in Seq(Nat) /\ Len(typed) \in Nat /\ Len(typed) <= Len(InputText)
      /\ \A i \in 1..Len(typed) : InputText[i] = typed[i]
  BY <1>2, InputTextIs
<1>4. taken \in Nat /\ taken < Len(typed) /\ typed \in Seq(Nat)
  BY <1>1, <1>2, <1>3 DEF Available, InputTypes
<1>5. n = taken
  <2>1. Len(buf) = 0
    BY <1>1, EmptySeq
  <2> QED
    BY <1>2, <1>4, <2>1 DEF ComeTo
<1>6. /\ buf' \in Seq(Nat) /\ Len(buf') = Len(typed) - taken
      /\ \A i \in 1..(Len(typed) - taken) : buf'[i] = typed[taken + i]
  <2> DEFINE b == Len(typed)
  <2>1. b \in Nat /\ taken <= b /\ b <= Len(typed)
    BY <1>3, <1>4
  <2>2. buf' = SubSeq(typed, taken + 1, b)
    BY <1>1
  <2> HIDE DEF b
  <2>3. /\ buf' \in Seq(Nat) /\ Len(buf') = b - taken
        /\ \A i \in 1..(b - taken) : buf'[i] = typed[taken + i]
    BY <1>4, <2>1, <2>2, PieceIs
  <2> QED
    BY <2>3 DEF b
<1>7. InputTypes'
  <2>1. taken' \in 0..Len(typed')
    BY <1>1, <1>3
  <2> QED
    BY <1>1, <1>2, <1>6, <2>1 DEF InputTypes
<1>8. InputText' = InputText
  BY <1>1 DEF InputText
<1>9. ReadLine(InputText, n)'
  BY <1>1, <1>2, <1>8 DEF ReadLine
<1>10. ToCome(InputText, n)'
  <2>1. ASSUME NEW i \in 1..Len(buf')
        PROVE  n + i <= Len(InputText) /\ buf'[i] = InputText[n + i]
    <3>1. i \in 1..(Len(typed) - taken)
      BY <1>6
    <3>2. n + i \in 1..Len(typed)
      BY <1>3, <1>4, <1>5, <3>1
    <3>3. n + i <= Len(InputText)
      BY <1>3, <3>2, LenProperties
    <3> QED
      BY <1>3, <1>5, <1>6, <3>1, <3>2, <3>3
  <2> QED
    BY <1>8, <2>1 DEF ToCome
<1>11. ComeTo(n)'
  BY <1>1, <1>3, <1>4, <1>5, <1>6 DEF ComeTo
<1>12. n \in Nat /\ n <= Len(InputText)'
  BY <1>3, <1>8, LenProperties
<1> QED
  BY <1>7, <1>9, <1>10, <1>11, <1>12, PlaceReached

(* The program ends.                                                        *)
LEMMA InputEnds ==
  ASSUME InputInv, last', InputTypes', UNCHANGED <<typed, closed, accepted>>
  PROVE  InputInv'
<1>1. InputText' = InputText
  BY DEF InputText
<1>3. PICK n \in 0..Len(InputText) :
        NoExactFit(InputText, n) => Answers(accepted, InputText, n)
  BY DEF InputInv
<1>4. (NoExactFit(InputText, n) => Answers(accepted, InputText, n))'
  BY <1>1, <1>3 DEF NoExactFit, Answers
<1> QED
  BY <1>1, <1>3, <1>4 DEF InputInv

LEMMA SelectTimerKeeps ==
  ASSUME InputInv, SelectTimer
  PROVE  InputInv'
<1>1. /\ PrintLines(table, TRUE) /\ taken' = Len(typed) /\ line' = <<>>
      /\ tooLong' = FALSE /\ UNCHANGED <<typed, closed, buf, accepted>>
  BY DEF SelectTimer, input
<1>2. last' /\ (mode' \in {"scan", "read"} => ~last')
  BY <1>1, PrintLinesDoes
<1>3. InputTypes /\ Len(typed) \in Nat
  BY LenProperties DEF InputInv, InputTypes
<1>4. taken' \in 0..Len(typed') /\ line' \in Seq(Nat) /\ tooLong' \in BOOLEAN
  <2>1. taken' \in 0..Len(typed')
    BY <1>1, <1>3
  <2>2. line' \in Seq(Nat)
    BY <1>1
  <2>3. tooLong' \in BOOLEAN
    BY <1>1
  <2> QED
    BY <2>1, <2>2, <2>3
<1>5. InputTypes'
  BY <1>1, <1>2, <1>3, <1>4 DEF InputTypes
<1> QED
  BY <1>1, <1>2, <1>5, InputEnds

(* read_line returns l, which ends with the m-th character of the input.    *)
LEMMA LineAnswered ==
  ASSUME InputTypes, InputText' = InputText, NEW n \in Nat, NEW m \in Nat, n < m,
         m <= Len(InputText), ReadLine(InputText, n),
         NEW l \in Seq(Nat), Len(l) > 0, Returned(l),
         Longer(l, Len(line), n, m), EndsWith(InputText, m, l),
         NoBreak(InputText, n, m - 1),
         Len(l) <= LineSize - 1, InputText[m] = NL \/ Len(l) = LineSize - 1
  PROVE  /\ ReadLine(InputText, m)'
         /\ line' = <<>> /\ (mode' \in {"scan", "read"} => ~last')
         /\ tooLong' \in BOOLEAN /\ accepted' \in Seq(Seq(Nat))
<1> DEFINE s == InputText
           ln == line
           a == accepted
           b == accepted'
           long == tooLong
           long2 == tooLong'
<1>1. /\ line' = <<>> /\ (mode' \in {"scan", "read"} => ~last')
      /\ long2 \in BOOLEAN /\ b \in Seq(Seq(Nat))
      /\ Judged(l, long, long2, a, b)
  BY ReturnedDoes
<1>2. PICK o, k \in 0..n : /\ Opens(s, o, n) /\ InParts(o, n, k, Len(ln))
                           /\ Known(s, n, long, k, a)
  BY DEF ReadLine
<1>3. ln \in Seq(Nat) /\ a \in Seq(Seq(Nat)) /\ long \in BOOLEAN
  BY DEF InputTypes
<1>4. s \in Seq(Nat) /\ o \in Nat /\ k \in Nat
  BY InputTextIs
<1>5. /\ m <= Len(s) /\ Longer(l, Len(ln), n, m) /\ EndsWith(s, m, l)
      /\ NoBreak(s, n, m - 1) /\ (s[m] = NL \/ Len(l) = LineSize - 1)
  OBVIOUS
<1>6. \E o2, k2 \in 0..m :
        /\ Opens(s, o2, m) /\ InParts(o2, m, k2, 0) /\ Known(s, m, long2, k2, b)
  <2> HIDE DEF s, ln, a, b, long, long2
  <2> QED
    BY <1>1, <1>2, <1>3, <1>4, <1>5, LineReturned
<1>7. Len(line') = 0 /\ 0 < LineSize - 1
  <2>1. Len(line') = 0
    BY <1>1
  <2> QED
    BY <2>1, PartsAre
<1>8. EndsWith(s, m, line')
  BY <1>7 DEF EndsWith
<1>9. ReadLine(InputText, m)'
  BY <1>6, <1>7, <1>8 DEF ReadLine
<1> QED
  BY <1>1, <1>9

LEMMA SelectEndOfFileKeeps ==
  ASSUME InputInv, SelectEndOfFile
  PROVE  InputInv'
<1>1. /\ mode = "read" /\ buf = <<>> /\ Available = 0 /\ closed
      /\ UNCHANGED <<typed, closed, taken, buf>>
  BY DEF SelectEndOfFile, InSelect, input
<1>2. PICK n \in 0..Len(InputText) :
        InputTypes /\ ReadLine(InputText, n) /\ ToCome(InputText, n) /\ ComeTo(n)
  BY <1>1, PlaceNow
<1>3. /\ InputText \in Seq(Nat) /\ Len(typed) \in Nat
      /\ Len(InputText) = Len(typed) + 1 /\ InputText[Len(typed) + 1] = NL
  BY <1>1, <1>2, InputTextIs
<1>4. InputText' = InputText
  BY <1>1 DEF InputText
<1>5. CASE line = <<>>
  <2>1. PrintLines(<<>>, TRUE) /\ UNCHANGED <<line, tooLong, accepted>>
    BY <1>5 DEF SelectEndOfFile
  <2>2. last' /\ (mode' \in {"scan", "read"} => ~last')
    BY <2>1, PrintLinesDoes
  <2>3. InputTypes'
    BY <1>1, <1>2, <2>1, <2>2 DEF InputTypes
  <2> QED
    BY <1>1, <2>1, <2>2, <2>3, InputEnds
<1>6. CASE line # <<>>
  <2> DEFINE l == Append(line, NL)
  <2>1. Returned(l)
    BY <1>6 DEF SelectEndOfFile
  <2>2. taken = Len(typed)
    BY <1>1, <1>2, <1>3 DEF Available, InputTypes
  <2>3. n = Len(typed)
    <3>1. Len(buf) = 0
      BY <1>1
    <3> QED
      BY <1>2, <1>3, <1>6, <2>2, <3>1 DEF ComeTo
  <2>4. line \in Seq(Nat) /\ Len(line) \in Nat
    BY <1>2, LenProperties DEF InputTypes
  <2>5. /\ l \in Seq(Nat) /\ Len(l) = Len(line) + 1 /\ l[Len(line) + 1] = NL
        /\ \A i \in 1..Len(line) : l[i] = line[i]
    BY <2>4, AppendProperties DEF NL
  <2> HIDE DEF l
  <2> DEFINE s == InputText
             m == n + 1
  <2>6. s \in Seq(Nat) /\ n \in Nat /\ m \in Nat /\ n < m /\ m = Len(s) /\ m <= Len(s)
        /\ s[m] = NL /\ m = n + 1 /\ m - 1 = n /\ m - n = 1
    BY <1>3, <2>3
  <2>7. ReadLine(s, n)
    BY <1>2
  <2> HIDE DEF s, m
  <2>8. EndsWith(s, m, l)
    <3>1. EndsWith(s, n, line)
      BY <2>7 DEF ReadLine
    <3>2. ASSUME NEW i \in 1..Len(l)
          PROVE  l[i] = s[m - Len(l) + i]
      <4>1. CASE i = Len(line) + 1
        <5>1. m - Len(l) + i = m
          BY <2>4, <2>5, <2>6, <4>1
        <5> QED
          BY <2>5, <2>6, <4>1, <5>1
      <4>2. CASE i # Len(line) + 1
        <5>1. i \in 1..Len(line) /\ m - Len(l) + i = n - Len(line) + i
          BY <2>4, <2>5, <2>6, <4>2
        <5> QED
          BY <2>5, <3>1, <5>1 DEF EndsWith
      <4> QED
        BY <4>1, <4>2
    <3> QED
      BY <3>2 DEF EndsWith
  <2>9. Longer(l, Len(line), n, m) /\ NoBreak(s, n, m - 1)
    <3>1. NoBreak(s, n, n)
      BY <2>6 DEF NoBreak
    <3> QED
      BY <2>5, <2>6, <3>1 DEF Longer
  <2>10. Len(l) > 0 /\ Len(l) <= LineSize - 1
    <3>1. Len(line) < LineSize - 1
      BY <2>7 DEF ReadLine
    <3>2. LineSize \in Nat
      BY PartsAre
    <3> QED
      BY <2>4, <2>5, <3>1, <3>2
  <2>11. /\ ReadLine(InputText, m)' /\ line' = <<>>
         /\ (mode' \in {"scan", "read"} => ~last')
         /\ tooLong' \in BOOLEAN /\ accepted' \in Seq(Seq(Nat))
    <3>1. /\ ReadLine(InputText, n) /\ m <= Len(InputText) /\ EndsWith(InputText, m, l)
          /\ NoBreak(InputText, n, m - 1) /\ InputText[m] = NL
      BY <2>6, <2>7, <2>8, <2>9 DEF s
    <3> QED
      BY <1>2, <1>4, <2>1, <2>5, <2>6, <2>9, <2>10, <3>1, LineAnswered
  <2>12. buf' = <<>> /\ Len(buf') = 0 /\ taken' = Len(typed') /\ closed'
    BY <1>1, <2>2
  <2>13. ToCome(InputText, m)'
    BY <2>12 DEF ToCome
  <2>14. ComeTo(m)'
    BY <1>1, <2>3, <2>6, <2>11, <2>12 DEF ComeTo
  <2>15. InputTypes'
    <3>1. line' \in Seq(Nat)
      BY <2>11
    <3> QED
      BY <1>1, <1>2, <2>11, <3>1 DEF InputTypes
  <2>16. m <= Len(InputText)'
    BY <1>4, <2>6 DEF s
  <2> QED
    BY <2>6, <2>11, <2>13, <2>14, <2>15, <2>16, PlaceReached
<1> QED
  BY <1>5, <1>6

(* What buf_consume_line takes of the buffer.                               *)
LEMMA ConsumedIs ==
  ASSUME InputTypes, buf # <<>>, Len(line) < LineSize - 1
  PROVE  /\ Consumed \in 1..Len(buf) /\ Len(buf) \in Nat /\ Len(line) \in Nat
         /\ Consumed <= LineSize - 1 - Len(line)
         /\ \A i \in 1..(Consumed - 1) : buf[i] # NL
         /\ \/ buf[Consumed] = NL \/ Consumed = Len(buf)
            \/ Consumed = LineSize - 1 - Len(line)
<1>1. buf \in Seq(Nat) /\ Len(buf) \in Nat /\ Len(line) \in Nat
  BY LenProperties DEF InputTypes
<1>2. Len(buf) > 0 /\ LineSize \in Nat
  <2>1. Len(buf) # 0
    BY <1>1, EmptySeq
  <2> QED
    BY <1>1, <2>1, PartsAre
<1> DEFINE most == Least(Len(buf), LineSize - 1 - Len(line))
           breaks == {i \in 1..most : buf[i] = NL}
<1>3. /\ most \in Nat /\ most > 0 /\ most <= Len(buf) /\ most <= LineSize - 1 - Len(line)
      /\ (most = Len(buf) \/ most = LineSize - 1 - Len(line))
  BY <1>1, <1>2 DEF Least
<1>4. Consumed = IF breaks = {} THEN most
                 ELSE CHOOSE i \in breaks : \A j \in breaks : i <= j
  BY DEF Consumed
<1> HIDE DEF most
<1>5. CASE breaks = {}
  <2>1. Consumed = most
    BY <1>4, <1>5
  <2>2. \A i \in 1..(most - 1) : i \in 1..most /\ buf[i] # NL
    BY <1>3, <1>5
  <2> QED
    BY <1>1, <1>3, <2>1, <2>2
<1>6. CASE breaks # {}
  <2>1. breaks \in SUBSET Nat
    BY <1>3
  <2>2. \E i \in breaks : \A j \in breaks : i <= j
    BY <1>6, <2>1, LeastNat
  <2> DEFINE c == CHOOSE i \in breaks : \A j \in breaks : i <= j
  <2>3. Consumed = c
    BY <1>4, <1>6
  <2>4. c \in breaks /\ \A j \in breaks : c <= j
    BY <2>2
  <2> HIDE DEF c
  <2>5. c \in 1..most /\ buf[c] = NL
    BY <2>4
  <2>6. ASSUME NEW i \in 1..(c - 1)
        PROVE  buf[i] # NL
    <3>1. i \in 1..most /\ ~(c <= i)
      BY <1>3, <2>5
    <3> QED
      BY <2>4, <3>1
  <2>7. c \in 1..Len(buf) /\ c <= LineSize - 1 - Len(line)
    BY <1>1, <1>2, <1>3, <2>5
  <2> QED
    BY <1>1, <2>3, <2>5, <2>6, <2>7
<1> QED
  BY <1>5, <1>6

(* The line with the characters that are taken.                             *)
LEMMA LineWithConsumed ==
  ASSUME InputTypes, NEW c \in 1..Len(buf), NEW l, l = line \o SubSeq(buf, 1, c)
  PROVE  /\ l \in Seq(Nat) /\ Len(l) = Len(line) + c
         /\ \A i \in 1..Len(line) : l[i] = line[i]
         /\ \A i \in 1..c : l[Len(line) + i] = buf[i]
<1>1. buf \in Seq(Nat) /\ Len(buf) \in Nat /\ line \in Seq(Nat) /\ Len(line) \in Nat
  BY LenProperties DEF InputTypes
<1>2. c \in 1..Len(buf) /\ c \in 0..Len(buf) /\ c \in Nat
  BY <1>1
<1> DEFINE u == SubSeq(buf, 1, c)
<1>4. u \in Seq(Nat) /\ Len(u) = c /\ \A i \in 1..c : u[i] = buf[i]
  BY <1>1, <1>2, SeqFirst
<1>5. l = line \o u
  OBVIOUS
<1> HIDE DEF u
<1> DEFINE w == line \o u
<1>6. /\ w \in Seq(Nat) /\ Len(w) = Len(line) + Len(u)
      /\ \A i \in 1..(Len(line) + Len(u)) :
           w[i] = IF i <= Len(line) THEN line[i] ELSE u[i - Len(line)]
  BY <1>1, <1>4, ConcatProperties
<1>7. \A i \in 1..Len(line) : i \in 1..(Len(line) + Len(u)) /\ i <= Len(line)
  BY <1>1, <1>2, <1>4
<1>9. l = w
  BY <1>5
<1> HIDE DEF w
<1>8. ASSUME NEW i \in 1..c
      PROVE  w[Len(line) + i] = buf[i]
  <2>1. Len(line) + i \in 1..(Len(line) + Len(u)) /\ ~(Len(line) + i <= Len(line))
        /\ Len(line) + i - Len(line) = i
    BY <1>1, <1>2, <1>4
  <2>2. w[Len(line) + i] = u[i]
    BY <1>6, <2>1, SMTT(30)
  <2> QED
    BY <1>4, <2>2
<1>10. \A i \in 1..Len(line) : w[i] = line[i]
  BY <1>6, <1>7
<1> QED
  BY <1>4, <1>6, <1>8, <1>9, <1>10

LEMMA ConsumeKeeps ==
  ASSUME InputInv, Consume
  PROVE  InputInv'
<1> DEFINE c == Consumed
           l == line \o SubSeq(buf, 1, c)
           s == InputText
<1>1. /\ mode = "read" /\ buf # <<>> /\ UNCHANGED <<typed, closed, taken>>
      /\ buf' = SubSeq(buf, c + 1, Len(buf))
      /\ IF Last(l) = NL \/ Len(l) = LineSize - 1
         THEN Returned(l)
         ELSE line' = l /\ UNCHANGED <<mode, tooLong, accepted, last>>
  BY DEF Consume, input, printer
<1>2. PICK n \in 0..Len(InputText) :
        InputTypes /\ ReadLine(InputText, n) /\ ToCome(InputText, n) /\ ComeTo(n)
  BY <1>1, PlaceNow
<1>3. ~last
  BY <1>1, PlaceNow
<1>4. Len(line) < LineSize - 1
  BY <1>2 DEF ReadLine
<1>5. /\ c \in 1..Len(buf) /\ Len(buf) \in Nat /\ Len(line) \in Nat
      /\ c <= LineSize - 1 - Len(line) /\ \A i \in 1..(c - 1) : buf[i] # NL
      /\ \/ buf[c] = NL \/ c = Len(buf) \/ c = LineSize - 1 - Len(line)
  BY <1>1, <1>2, <1>4, ConsumedIs
<1> HIDE DEF c
<1>6. l = line \o SubSeq(buf, 1, c)
  OBVIOUS
<1> HIDE DEF l
<1>7. /\ l \in Seq(Nat) /\ Len(l) = Len(line) + c
      /\ \A i \in 1..Len(line) : l[i] = line[i]
      /\ \A i \in 1..c : l[Len(line) + i] = buf[i]
  BY <1>2, <1>5, <1>6, LineWithConsumed, ZenonT(30)
<1>8. /\ InputText' = InputText
  BY <1>1 DEF InputText
<1>9. s \in Seq(Nat) /\ Len(s) \in Nat /\ Len(typed) \in Nat /\ Len(typed) <= Len(s)
  BY <1>2, InputTextIs, LenProperties
<1>10. n = taken - Len(buf) /\ n \in Nat
  BY <1>1, <1>2, <1>9 DEF ComeTo
<1>11. ReadLine(s, n) /\ \A i \in 1..Len(buf) : n + i <= Len(s) /\ buf[i] = s[n + i]
  BY <1>2 DEF ToCome
<1> HIDE DEF s
<1>23. n + c \in Nat /\ c \in Nat
  BY <1>5, <1>10
<1>24. PICK m \in Nat : m = n + c
  BY <1>23
<1>12. /\ m \in Nat /\ n < m /\ m <= Len(s) /\ m = n + c /\ m - n = c /\ s[m] = buf[c]
  BY <1>5, <1>10, <1>11, <1>23, <1>24
<1>13. \A i \in 1..(m - n - 1) : s[n + i] # NL
  <2> TAKE i \in 1..(m - n - 1)
  <2>1. i \in 1..(c - 1) /\ i \in 1..Len(buf)
    BY <1>5, <1>12
  <2> QED
    BY <1>5, <1>11, <2>1
<1>14. NoBreak(s, n, m - 1)
  <2> SUFFICES ASSUME NEW j \in (n + 1)..(m - 1)
               PROVE  s[j] # NL
    BY DEF NoBreak
  <2>1. j - n \in 1..(m - n - 1) /\ n + (j - n) = j
    BY <1>10, <1>12, BetweenIs
  <2>2. s[n + (j - n)] # NL
    BY <1>13, <2>1
  <2> QED
    BY <2>1, <2>2
<1>15. Longer(l, Len(line), n, m)
  BY <1>7, <1>12 DEF Longer
<1>16. EndsWith(s, m, l)
  <2> SUFFICES ASSUME NEW i \in 1..Len(l)
               PROVE  l[i] = s[m - Len(l) + i]
    BY DEF EndsWith
  <2>1. m - Len(l) + i = n - Len(line) + i
    <3>1. Len(l) = Len(line) + c /\ m = n + c
      BY <1>7, <1>12
    <3> QED
      BY <1>5, <1>10, <1>23, <3>1
  <2>2. CASE i <= Len(line)
    <3>1. EndsWith(s, n, line) /\ i \in 1..Len(line)
      BY <1>5, <1>11, <2>2 DEF ReadLine
    <3>2. line[i] = s[n - Len(line) + i]
      BY <3>1 DEF EndsWith
    <3> QED
      BY <1>7, <2>1, <3>1, <3>2
  <2>3. CASE ~(i <= Len(line))
    <3> DEFINE j == i - Len(line)
    <3>1. j \in 1..c /\ j \in 1..Len(buf) /\ Len(line) + j = i
          /\ n - Len(line) + i = n + j
      <4>1. i \in 1..(Len(line) + c)
        BY <1>7
      <4> QED
        BY <1>5, <1>10, <1>23, <2>3, <4>1, SMTT(30)
    <3> HIDE DEF j
    <3>2. l[Len(line) + j] = buf[j] /\ buf[j] = s[n + j]
      BY <1>7, <1>11, <3>1
    <3>3. l[i] = buf[j]
      BY <3>1, <3>2
    <3> QED
      BY <2>1, <3>1, <3>2, <3>3
  <2> QED
    BY <2>2, <2>3
<1>17. Len(l) > 0 /\ Len(l) <= LineSize - 1 /\ Last(l) = s[m]
  <2>1. Len(l) > 0 /\ Len(l) <= LineSize - 1
    <3>1. LineSize \in Nat
      BY PartsAre
    <3> QED
      BY <1>5, <1>7, <3>1
  <2>2. Last(l) = l[Len(line) + c] /\ c \in 1..c
    BY <1>5, <1>7 DEF Last
  <2> QED
    BY <1>7, <1>12, <2>1, <2>2
<1>18. /\ buf' \in Seq(Nat) /\ Len(buf') = Len(buf) - c
       /\ \A i \in 1..(Len(buf) - c) : buf'[i] = buf[c + i]
  <2>1. c \in 0..Len(buf) /\ buf \in Seq(Nat)
    BY <1>2, <1>5 DEF InputTypes
  <2> QED
    BY <1>1, <2>1, SeqRest
<1>19. ToCome(InputText, m)'
  <2> SUFFICES ASSUME NEW i \in 1..Len(buf')
               PROVE  m + i <= Len(s) /\ buf'[i] = s[m + i]
    BY <1>8 DEF ToCome, s
  <2>1. i \in 1..(Len(buf) - c) /\ c + i \in 1..Len(buf) /\ m + i = n + (c + i)
    <3>1. i \in 1..(Len(buf) - c)
      BY <1>18
    <3> QED
      BY <1>5, <1>10, <1>12, <1>23, <3>1
  <2>2. n + (c + i) <= Len(s) /\ buf[c + i] = s[n + (c + i)]
    BY <1>11, <2>1
  <2> QED
    BY <1>18, <2>1, <2>2
<1>20. ComeTo(m)'
  <2>1. taken \in Nat
    BY <1>2, <1>9 DEF InputTypes
  <2>2. m = taken - (Len(buf) - c)
    BY <1>5, <1>10, <1>12, <2>1
  <2> QED
    BY <1>1, <1>18, <2>2 DEF ComeTo
<1>21. CASE Last(l) = NL \/ Len(l) = LineSize - 1
  <2>1. Returned(l)
    BY <1>1, <1>21
  <2>2. /\ m <= Len(InputText) /\ ReadLine(InputText, n) /\ EndsWith(InputText, m, l)
        /\ NoBreak(InputText, n, m - 1)
        /\ (InputText[m] = NL \/ Len(l) = LineSize - 1)
    BY <1>11, <1>12, <1>14, <1>16, <1>17, <1>21 DEF s
  <2>3. /\ ReadLine(InputText, m)' /\ line' = <<>>
        /\ (mode' \in {"scan", "read"} => ~last')
        /\ tooLong' \in BOOLEAN /\ accepted' \in Seq(Seq(Nat))
    BY <1>2, <1>7, <1>8, <1>10, <1>12, <1>15, <1>17, <2>1, <2>2, LineAnswered
  <2>4. InputTypes'
    <3>1. line' \in Seq(Nat)
      BY <2>3
    <3> QED
      BY <1>1, <1>2, <1>18, <2>3, <3>1 DEF InputTypes
  <2>5. m <= Len(InputText)'
    BY <1>8, <2>2
  <2> QED
    BY <1>12, <1>19, <1>20, <2>3, <2>4, <2>5, PlaceReached
<1>22. CASE ~(Last(l) = NL \/ Len(l) = LineSize - 1)
  <2>1. line' = l /\ UNCHANGED <<mode, tooLong, accepted, last>>
    BY <1>1, <1>22
  <2>2. NoBreak(s, n, m)
    <3>1. \A j \in (n + 1)..m : j = m \/ j \in (n + 1)..(m - 1)
      BY <1>10, <1>12
    <3> QED
      BY <1>14, <1>17, <1>22, <3>1 DEF NoBreak
  <2>3. PICK o, k \in 0..n : /\ Opens(s, o, n) /\ InParts(o, n, k, Len(line))
                             /\ Known(s, n, tooLong, k, accepted)
    BY <1>11 DEF ReadLine
  <2>4. o \in Nat /\ k \in Nat /\ n <= m /\ Parts(k) \in Nat
    <3>1. o \in Nat /\ k \in Nat /\ n <= m
      BY <1>10, <1>12, <2>3, StillUpTo
    <3> QED
      BY <3>1, PartsAre
  <2>5. Opens(s, o, m) /\ \A a : Answers(a, s, n) => Answers(a, s, m)
    BY <1>9, <1>10, <1>12, <2>2, <2>3, <2>4, LineStaysOpen
  <2>6. InParts(o, m, k, Len(l))
    <3>1. n - o = Parts(k) + Len(line) /\ Len(l) = Len(line) + (m - n)
      BY <1>7, <1>12, <2>3 DEF InParts
    <3>2. Len(l) \in Nat
      BY <1>7, LenProperties
    <3> DEFINE kl == Parts(k)
               x == Len(l)
               y == Len(line)
    <3>4. /\ n - o = kl + y /\ x = y + (m - n) /\ kl \in Nat /\ x \in Nat /\ y \in Nat
          /\ n \in Nat /\ o \in Nat
      BY <1>5, <1>10, <2>4, <3>1, <3>2
    <3> HIDE DEF kl, x, y
    <3>5. m - o = kl + x
      BY <3>4, PartLength
    <3>3. m - o = Parts(k) + Len(l)
      BY <3>5 DEF kl, x
    <3> QED
      BY <3>3 DEF InParts
  <2>7. Known(s, m, tooLong, k, accepted)
    <3>1. NoExactFit(s, m) => NoExactFit(s, n)
      BY <1>10, <1>12, <2>4, NoExactFitBefore
    <3> QED
      BY <2>3, <2>5, <3>1 DEF Known
  <2>8. Len(l) < LineSize - 1
    <3>1. LineSize \in Nat /\ Len(l) \in Nat
      BY <1>7, PartsAre, LenProperties
    <3> QED
      BY <1>17, <1>22, <3>1
  <2>9. o \in 0..m /\ k \in 0..m
    BY <1>10, <1>12, <2>3, StillUpTo
  <2>10. ReadLine(InputText, m)'
    BY <1>8, <1>16, <2>1, <2>5, <2>6, <2>7, <2>8, <2>9 DEF ReadLine, s
  <2>11. InputTypes'
    BY <1>1, <1>2, <1>7, <1>18, <2>1 DEF InputTypes
  <2>12. m <= Len(InputText)'
    BY <1>8, <1>12 DEF s
  <2> QED
    BY <1>12, <1>19, <1>20, <2>10, <2>11, <2>12, PlaceReached
<1> QED
  BY <1>21, <1>22

LEMMA InputStepKeeps ==
  ASSUME InputInv, FileNext
  PROVE  InputInv'
<1>1. mode \in {"scan", "read"} => ~last
  BY DEF InputInv, InputTypes
<1>2. CASE ScanRead
  <2>1. UNCHANGED <<typed, closed, taken, buf, line, tooLong, accepted, last>> /\ ~last
    BY <1>1, <1>2 DEF ScanRead, input, reader, printer
  <2> QED
    BY <2>1, InputStays
<1>3. CASE ScanMapping
  <2>1. UNCHANGED <<typed, closed, taken, buf, line, tooLong, accepted, last>> /\ ~last
    BY <1>1, <1>3 DEF ScanMapping, input, reader, printer
  <2> QED
    BY <2>1, InputStays
<1>4. CASE PrintChunk
  <2>1. /\ UNCHANGED <<typed, closed, taken, buf, line, tooLong, accepted, last>>
        /\ UNCHANGED mode
    BY <1>4 DEF PrintChunk, input, reader
  <2> QED
    BY <1>1, <2>1, InputStays
<1>5. CASE PrintMapping
  <2>1. /\ UNCHANGED <<typed, closed, taken, buf, line, tooLong, accepted, last>>
        /\ UNCHANGED mode
    BY <1>5 DEF PrintMapping, input, reader
  <2> QED
    BY <1>1, <2>1, InputStays
<1>6. CASE LinePrinted
  <2>1. /\ UNCHANGED <<typed, closed, taken, buf, line, tooLong, accepted>>
        /\ PrintLines(Tail(todo), last)
    BY <1>6 DEF LinePrinted, input, reader
  <2>2. last' = last
    BY <2>1 DEF PrintLines
  <2>3. mode' \in {"scan", "read"} => ~last'
    <3>1. CASE Tail(todo) = <<>>
      BY <2>1, <2>2, <3>1 DEF PrintLines
    <3>2. CASE Tail(todo) # <<>>
      BY <2>1, <3>2 DEF PrintLines
    <3> QED
      BY <3>1, <3>2
  <2> QED
    BY <2>1, <2>2, <2>3, InputStays
<1>7. CASE Expire
  <2>1. /\ UNCHANGED <<typed, closed, taken, buf, line, tooLong, accepted, last>>
        /\ UNCHANGED mode
    BY <1>7 DEF Expire, input, printer
  <2> QED
    BY <1>1, <2>1, InputStays
<1>8. CASE Shrink
  <2>1. /\ UNCHANGED <<typed, closed, taken, buf, line, tooLong, accepted, last>>
        /\ UNCHANGED mode
    BY <1>8 DEF Shrink, input, reader, printer
  <2> QED
    BY <1>1, <2>1, InputStays
<1> QED
  BY <1>2, <1>3, <1>4, <1>5, <1>6, <1>7, <1>8, TypeKeeps, CloseInputKeeps,
     SelectInputKeeps, SelectTimerKeeps, SelectEndOfFileKeeps, ConsumeKeeps
  DEF FileNext, FileStep

LEMMA InputBegins ==
  ASSUME FileInit \/ NoFile
  PROVE  InputInv
<1>1. /\ typed = <<>> /\ taken = 0 /\ buf = <<>> /\ line = <<>> /\ tooLong = FALSE
      /\ accepted = <<>> /\ closed \in BOOLEAN /\ last \in BOOLEAN
      /\ (mode \in {"scan", "read"} => ~last) /\ (closed => last)
  <2>1. CASE FileInit
    BY <2>1 DEF FileInit
  <2>2. CASE NoFile
    BY <2>2 DEF NoFile
  <2> QED
    BY <2>1, <2>2
<1>2. /\ typed \in Seq(Nat) /\ Len(typed) = 0 /\ buf \in Seq(Nat) /\ Len(buf) = 0
      /\ line \in Seq(Nat) /\ Len(line) = 0 /\ accepted \in Seq(Seq(Nat))
      /\ Len(accepted) = 0
  BY <1>1
<1>3. InputTypes
  <2>1. taken \in 0..Len(typed)
    BY <1>1, <1>2
  <2>2. tooLong \in BOOLEAN
    BY <1>1
  <2> QED
    BY <1>1, <1>2, <2>1, <2>2 DEF InputTypes
<1> DEFINE s == InputText
<1>4. s \in Seq(Nat) /\ Len(s) \in Nat /\ 0 \in 0..Len(s) /\ 0 <= Len(s)
  BY <1>3, InputTextIs, LenProperties
<1> HIDE DEF s
<1>5. Fits(s, 0) = {}
  <2>1. \A l \in Fits(s, 0) : FALSE
    <3> TAKE l \in Fits(s, 0)
    <3>1. PICK b, e \in 0..0 : /\ IsLine(s, b, e) /\ l = [offset |-> b, len |-> e - 1 - b]
                               /\ e - 1 - b \in 1..(LineSize - 2)
      BY <1>4, FitsAre
    <3>2. b < e
      BY <3>1 DEF IsLine
    <3> QED
      BY <3>2
  <2> QED
    BY <2>1
<1>6. Answers(accepted, s, 0)
  BY <1>2, <1>5, FS_EmptySet DEF Answers
<1>7. Opens(s, 0, 0)
  BY <1>4, NothingScanned
<1>8. InParts(0, 0, 0, Len(line))
  BY <1>2, PartsAre DEF InParts
<1>9. Known(s, 0, tooLong, 0, accepted)
  <2>1. ~tooLong
    BY <1>1
  <2> QED
    BY <1>6, <2>1 DEF Known
<1>10. Len(line) < LineSize - 1
  BY <1>2, PartsAre
<1>11. EndsWith(s, 0, line)
  BY <1>2 DEF EndsWith
<1>12. ReadLine(s, 0)
  <2>1. 0 \in 0..0
    OBVIOUS
  <2> QED
    BY <1>7, <1>8, <1>9, <1>10, <1>11, <2>1 DEF ReadLine
<1>13. ToCome(s, 0) /\ ComeTo(0)
  <2>1. ToCome(s, 0)
    BY <1>2 DEF ToCome
  <2>2. 0 = taken - Len(buf)
    <3>1. Len(buf) = 0
      BY <1>2
    <3>2. taken = 0
      BY <1>1
    <3>3. 0 - 0 = 0
      OBVIOUS
    <3> QED
      BY <3>1, <3>2, <3>3
  <2> QED
    BY <2>1, <2>2 DEF ComeTo
<1> QED
  BY <1>3, <1>4, <1>6, <1>12, <1>13 DEF InputInv, s

(* read_line's place in the input, and that everything before it is         *)
(* answered (5,6. File/read_line.c, main.c:84-108).                         *)
THEOREM InputInvariant == Spec => []InputInv
<1>1. Init => InputInv
  BY InputBegins DEF Init
<1>2. InputInv /\ [Next]_vars => InputInv'
  <2> SUFFICES ASSUME InputInv, [Next]_vars
               PROVE  InputInv'
    OBVIOUS
  <2>1. CASE FileRuns
    BY <2>1, InputStepKeeps DEF FileRuns
  <2>2. CASE UNCHANGED fileVars
    <3>1. UNCHANGED <<typed, closed, taken, buf, line, tooLong, accepted, last, mode>>
      BY <2>2 DEF fileVars, input, reader, printer
    <3>2. mode \in {"scan", "read"} => ~last
      BY DEF InputInv, InputTypes
    <3> QED
      BY <3>1, <3>2, InputStays
  <2> QED
    BY <2>1, <2>2 DEF Next, vars, LoadRuns, PipeRuns, SocketRuns, LifeRuns
<1> QED
  BY <1>1, <1>2, PTL DEF Spec

LEMMA NoFitAtAll ==
  ASSUME NEW s \in Seq(Nat), NEW n \in 0..Len(s),
         ~\E l \in LinesOf(s) : \E k \in 1..l.len : l.len = k * (LineSize - 1)
  PROVE  NoExactFit(s, n)
<1>1. Len(s) \in Nat
  BY LenProperties
<1> SUFFICES ASSUME NEW b \in 0..n, NEW e \in 0..n, IsLine(s, b, e),
                    NEW k \in 1..(e - 1 - b), e - 1 - b = Parts(k)
             PROVE  FALSE
  BY DEF NoExactFit
<1> DEFINE l == [offset |-> b, len |-> e - 1 - b]
<1>2. b \in LineStarts(s) /\ e \in Nat
  BY <1>1 DEF IsLine
<1>3. e = LineEnd(s, b)
  BY <1>2, LineEndIs
<1>4. l \in LinesOf(s)
  BY <1>2, <1>3 DEF LinesOf
<1>5. l.len = e - 1 - b
  OBVIOUS
<1> HIDE DEF l
<1>6. k \in 1..l.len /\ l.len = k * (LineSize - 1)
  BY <1>5 DEF Parts
<1> QED
  BY <1>4, <1>6

(* Every line that is not empty and fits is accepted, in order, and no      *)
(* other, for input and buffers of every length and however the characters  *)
(* come in (5,6. File/main.c:89).                                           *)
THEOREM InputIsAnswered == Spec => []InputAnswered
<1>1. InputInv => InputAnswered
  <2> SUFFICES ASSUME InputInv, ~HasExactFit
               PROVE  InputAnswered
    BY DEF InputAnswered
  <2> DEFINE s == InputText
  <2>1. PICK n \in 0..Len(InputText) :
          /\ NoExactFit(InputText, n) => Answers(accepted, InputText, n)
          /\ last \/ (ReadLine(InputText, n) /\ ToCome(InputText, n) /\ ComeTo(n))
    BY DEF InputInv
  <2>2. InputTypes
    BY DEF InputInv
  <2>3. s \in Seq(Nat) /\ accepted \in Seq(Seq(Nat)) /\ Len(s) \in Nat
    BY <2>2, InputTextIs, LenProperties DEF InputTypes
  <2>4. n \in Nat /\ n <= Len(s)
    BY <2>3
  <2>5. ~\E l \in LinesOf(s) : \E k \in 1..l.len : l.len = k * (LineSize - 1)
    BY DEF HasExactFit
  <2> HIDE DEF s
  <2>6. NoExactFit(s, n)
    BY <2>3, <2>4, <2>5, NoFitAtAll
  <2>7. Answers(accepted, s, n)
    BY <2>1, <2>6 DEF s
  <2>8. /\ \A l \in Acceptable(s) : Place(s, l) <= Len(accepted) =>
             accepted[Place(s, l)] = SubSeq(s, l.offset + 1, l.offset + l.len)
        /\ Len(accepted) <= Cardinality(Acceptable(s))
        /\ n = Len(s) => Len(accepted) = Cardinality(Acceptable(s))
    BY <2>3, <2>4, <2>7, AnswersBegin
  <2>9. WaitsForInput => n = Len(s)
    <3> SUFFICES ASSUME WaitsForInput
                 PROVE  n = Len(s)
      OBVIOUS
    <3>1. mode = "read" /\ buf = <<>> /\ Len(typed) - taken = 0 /\ ~closed
      BY DEF WaitsForInput, InSelect, Available
    <3>2. ~last /\ taken \in Nat /\ Len(typed) \in Nat /\ s = typed
      BY <2>2, <3>1, InputTextIs DEF InputTypes, s
    <3>3. n = taken - Len(buf) /\ Len(buf) = 0
      BY <2>1, <3>1, <3>2 DEF ComeTo
    <3> QED
      BY <3>1, <3>2, <3>3
  <2> QED
    BY <2>8, <2>9 DEF InputAnswered, s
<1> QED
  BY <1>1, InputInvariant, PTL
=============================================================================
