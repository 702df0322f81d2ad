-------------------------------- MODULE Pipe --------------------------------
(***************************************************************************)
(* The parent, the writer and the reader of "25. Pipe" and "27. Empty      *)
(* lines", and the ends of the pipe that each of them holds.  In 25 one    *)
(* message goes through, small enough to be written and read in whole, and *)
(* the reader reads once; in 27 the children are grep and wc, which keep   *)
(* one end as standard output or input and wc reads to the end of file;    *)
(* what grep writes fits in the pipe.                                      *)
(***************************************************************************)
EXTENDS Naturals

CONSTANTS PipeFaults  \* of "interrupt", "fork" and "cloexec"

Child == {"writer", "reader"}

Process == Child \cup {"parent"}

VARIABLES example,    \* 25 or 27
          stage,      \* where each process is; the parent's names the child
                      \* it is about to fork
          ends,       \* the ends of the pipe each process has open
          cloexec,    \* the ends that exec closes
          full,       \* the message is in the pipe
          printed,    \* what the reader's output is about
          cut         \* history: a read or write was interrupted

pipeVars == <<example, stage, ends, cloexec, full, printed, cut>>

(* In 27 fcntl may fail to set the flag, and main goes on.                  *)
PipeInit ==
  /\ example \in {25, 27}
  /\ stage = [p \in Process |-> IF p = "parent" THEN "writer" ELSE "none"]
  /\ ends = [p \in Process |-> IF p = "parent" THEN {"r", "w"} ELSE {}]
  /\ cloexec \in (IF example = 25 THEN {{}}
                  ELSE IF "cloexec" \in PipeFaults THEN SUBSET {"r", "w"}
                  ELSE {{"r", "w"}})
  /\ full = FALSE /\ printed = "nothing" /\ cut = FALSE

Goes(p, to) == stage' = [stage EXCEPT ![p] = to]

Open(end) == \E p \in Process : end \in ends[p]

(* The reader is started only if the writer was.                            *)
Fork(p) ==
  /\ stage["parent"] = p
  /\ \E failed \in {FALSE} \cup (IF "fork" \in PipeFaults THEN {TRUE} ELSE {}) :
       LET next == IF p = "writer" /\ ~failed THEN "reader" ELSE "close"
       IN  IF failed
           THEN Goes("parent", next) /\ UNCHANGED ends
           ELSE /\ stage' = [stage EXCEPT !["parent"] = next, ![p] = "begin"]
                /\ ends' = [ends EXCEPT ![p] = ends["parent"]]
  /\ UNCHANGED <<example, cloexec, full, printed, cut>>

(* Mutant of ParentCloses: the parent keeps the end it does not write to.   *)
ParentClosesOne ==
  /\ stage["parent"] = "close"
  /\ ends' = [ends EXCEPT !["parent"] = {"w"}]
  /\ Goes("parent", "wait")
  /\ UNCHANGED <<example, cloexec, full, printed, cut>>

ParentCloses ==
  /\ stage["parent"] = "close"
  /\ ends' = [ends EXCEPT !["parent"] = {}]
  /\ Goes("parent", "wait")
  /\ UNCHANGED <<example, cloexec, full, printed, cut>>

(* waitpid for the children that were started.                              *)
ParentEnds ==
  /\ stage["parent"] = "wait"
  /\ \A c \in Child : stage[c] \in {"none", "end"}
  /\ Goes("parent", "end")
  /\ UNCHANGED <<example, ends, cloexec, full, printed, cut>>

(* Mutant of Kept: the children take each other's end.                      *)
KeptSwapped(p) == IF p = "writer" THEN {"r"} ELSE {"w"}

(* What a child keeps of the pipe: 25 closes the other end, 27 duplicates   *)
(* its own and loses what is closed on exec.                                *)
Kept(p) == (IF p = "writer" THEN {"w"} ELSE {"r"})
           \cup (IF example = 25 THEN {} ELSE {"r", "w"} \ cloexec)

Begin(p) ==
  /\ stage[p] = "begin"
  /\ ends' = [ends EXCEPT ![p] = Kept(p)]
  /\ Goes(p, "transfer")
  /\ UNCHANGED <<example, cloexec, full, printed, cut>>

(* The child has done its part; its ends are closed.                        *)
Ends(p) == /\ Goes(p, "end")
           /\ ends' = [ends EXCEPT ![p] = {}]

(* Without a reader the write fails or kills.                               *)
Write ==
  /\ stage["writer"] = "transfer"
  /\ full' = ("w" \in ends["writer"] /\ Open("r"))
  /\ Ends("writer")
  /\ UNCHANGED <<example, cloexec, printed, cut>>

(* Only 25 looks at the end of a message: read returns it or, when nobody   *)
(* can write any more, nothing, and the empty buffer is printed.  wc waits  *)
(* until nobody can write.                                                  *)
Read ==
  /\ stage["reader"] = "transfer"
  /\ (full /\ example = 25) \/ ~Open("w") \/ "r" \notin ends["reader"]
  /\ printed' = IF full /\ "r" \in ends["reader"] THEN "message" ELSE "no message"
  /\ Ends("reader")
  /\ UNCHANGED <<example, cloexec, full, cut>>

(* An interrupted call of 25 counts as a success: nothing was transferred.  *)
Interrupt(p) ==
  /\ "interrupt" \in PipeFaults /\ example = 25
  /\ stage[p] = "transfer"
  /\ printed' = IF p = "reader" THEN "no message" ELSE printed
  /\ cut' = TRUE
  /\ Ends(p)
  /\ UNCHANGED <<example, cloexec, full>>

ParentStep == Fork("writer") \/ Fork("reader") \/ ParentCloses \/ ParentEnds

WriterStep == Begin("writer") \/ Write

ReaderStep == Begin("reader") \/ Read

PipeNext == ParentStep \/ WriterStep \/ ReaderStep \/ \E p \in Child : Interrupt(p)

(* Each process runs on when it is not blocked; nobody need interrupt it.   *)
PipeFairness == /\ WF_pipeVars(ParentStep)
                /\ WF_pipeVars(WriterStep) /\ WF_pipeVars(ReaderStep)
-----------------------------------------------------------------------------
(* Properties                                                               *)

(* A reader that prints has the message, unless a call was interrupted, for *)
(* which 25 has a loop that never comes round: it asks for the error to be  *)
(* none of EAGAIN and EINTR and then calls the rest a success (main.c:28).  *)
ReaderGetsMessage ==
  stage["reader"] = "end" /\ ~cut => printed = "message"

(* All three processes end: nobody waits for an end of the pipe that nobody *)
(* is going to close.  In 27 this takes the close-on-exec flag of the end   *)
(* for writing, else wc keeps that end open itself and waits for ever.      *)
EverybodyEnds ==
  <>[](\/ stage["parent"] = "end" /\ \A c \in Child : stage[c] \in {"none", "end"}
       \/ example = 27 /\ "w" \notin cloexec)
=============================================================================
