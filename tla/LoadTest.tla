------------------------------ MODULE LoadTest ------------------------------
(***************************************************************************)
(* One client of 512-tcp-clients/main.c and the echo service it talks to:  *)
(* it sends its buffer, reads as many bytes back and compares, with every  *)
(* byte one higher in each round.  The other clients are processes of      *)
(* their own.  The service is not part of the repository; it answers as    *)
(* many bytes, in pieces, and not always those that were sent.             *)
(***************************************************************************)
EXTENDS Naturals, Sequences

CONSTANTS Rounds,     \* REPEATS_COUNT, 10000
          BlockSize,  \* BUF_SIZE, 256
          ByteLimit   \* 256, where a char comes round

ASSUME LoadAssumption == {Rounds, BlockSize, ByteLimit} \subseteq Nat \ {0}

VARIABLES job,        \* "write", "read", "end", or "alarm" for "ERROR"
          round,      \* rounds completed
          due,        \* bytes still to be read in this round
          cells,      \* recv_buf
          echo,       \* bytes of the answer that are not yet read
          split,      \* history: this round's answer came in pieces
          wrong,      \* history: it is not what was sent
          hungUp      \* the service has closed the connection

loadVars == <<job, round, due, cells, echo, split, wrong, hungUp>>

Cell == 1..BlockSize
Byte == 0..(ByteLimit - 1)

Pattern(r) == [j \in Cell |-> (j - 1 + r) % ByteLimit]

(* recv_buf is not initialised.                                             *)
LoadInit ==
  /\ job = "write" /\ round = 0 /\ due = 0
  /\ cells \in [Cell -> Byte]
  /\ echo = <<>> /\ split = FALSE /\ wrong = FALSE /\ hungUp = FALSE

(* The socket blocks and no signal is handled: write takes it all.  When the *)
(* connection is closed it may fail, or what it takes is lost.              *)
SendBlock ==
  /\ job = "write"
  /\ \/ /\ hungUp
        /\ job' = "end"
        /\ UNCHANGED <<due, echo, split, wrong>>
     \/ /\ job' = "read" /\ due' = BlockSize
        /\ IF hungUp THEN echo' = <<>> ELSE echo' \in [Cell -> Byte]
        /\ split' = FALSE /\ wrong' = (~hungUp /\ echo' # Pattern(round))
  /\ UNCHANGED <<round, cells, hungUp>>

(* Mutant of Stored: the bytes of a piece go behind the piece before it, but *)
(* one cell too far.                                                        *)
StoredShifted(n) ==
  [j \in Cell |-> IF j \in 2..(n + 1) THEN echo[j - 1] ELSE cells[j]]

(* The n bytes of a piece go to the front of recv_buf: the pointer is not   *)
(* moved on.                                                                *)
Stored(n) == [j \in Cell |-> IF j <= n THEN echo[j] ELSE cells[j]]

ReadPiece ==
  /\ job = "read" /\ due > 0
  /\ \E n \in 1..Len(echo) :
       /\ cells' = Stored(n)
       /\ echo' = SubSeq(echo, n + 1, Len(echo))
       /\ due' = due - n
       /\ split' = (n < BlockSize)
  /\ UNCHANGED <<job, round, wrong, hungUp>>

Compare ==
  /\ job = "read" /\ due = 0
  /\ IF cells = Pattern(round)
     THEN /\ round' = round + 1
          /\ job' = IF round' = Rounds THEN "end" ELSE "write"
     ELSE /\ job' = "alarm"
          /\ UNCHANGED round
  /\ UNCHANGED <<due, cells, echo, split, wrong, hungUp>>

(* The service closes the connection and the rest of its answer is lost.    *)
HangUp ==
  /\ ~hungUp
  /\ hungUp' = TRUE /\ echo' = <<>>
  /\ UNCHANGED <<job, round, due, cells, split, wrong>>

(* read fails when the connection was reset.  Otherwise it returns 0, and   *)
(* the loop goes round with nothing changed: that is no step.               *)
ReadFails ==
  /\ job = "read" /\ due > 0 /\ hungUp
  /\ job' = "end"
  /\ UNCHANGED <<round, due, cells, echo, split, wrong, hungUp>>

LoadNext == SendBlock \/ ReadPiece \/ Compare \/ HangUp \/ ReadFails
-----------------------------------------------------------------------------
(* As long as the answers come in one piece, "ERROR" is printed of a wrong  *)
(* one, and no round is completed with one: nothing an earlier round left   *)
(* in the buffers, or found there, misleads the comparison.  An answer in   *)
(* pieces can be taken for wrong (main.c:87).                               *)
AlarmsAreRight ==
  ~split => /\ job = "alarm" => wrong
            /\ job = "write" \/ round = Rounds => ~wrong
=============================================================================
