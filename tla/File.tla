-------------------------------- MODULE File --------------------------------
(***************************************************************************)
(* The programs "5,6. File" and "7. mmap": scan a file into a table of     *)
(* lines, then print the lines whose numbers are typed; when nothing is    *)
(* typed for five seconds print all of them and quit.  They differ in how  *)
(* the file is read; read_line.c and line_list.c are the same.  A digit is *)
(* its value; a string that is no number has the effect of a number        *)
(* without a line.                                                         *)
(***************************************************************************)
EXTENDS Naturals, FiniteSets, SequencesExt

CONSTANTS Char,       \* characters of the file, NL among them
          Key,        \* characters that are typed, NL among them
          FileSize,   \* most characters the file has
          TypedSize,  \* most characters that are typed
          ChunkSize,  \* BUF_SIZE of main.c, 1024
          LineSize    \* the size input_valid_line gives read_line, 22

NUL == 0
NL  == 10

(* The chunks of scan_file and print_line are not empty, and a line has     *)
(* room for more than its break.                                            *)
ASSUME FileAssumption ==
  /\ NL \in Char \cap Key /\ Char \cup Key \subseteq Nat
  /\ {FileSize, TypedSize} \subseteq Nat
  /\ {ChunkSize, LineSize} \subseteq Nat \ 0..1

VARIABLES program,    \* "read" or "mmap"
          file,       \* the characters of the file
          shrunk,     \* the file was cut off by somebody else
          mode,       \* "scan", "read", "print" or "quit"
          table,      \* the list of lines
          curr,       \* scan_file: offset of the line that is being read
          newLine,    \* scan_file: the next character begins a line
          at,         \* where the file is read next, 0 while it is not read
          typed,      \* all that was typed so far
          closed,     \* nothing more will be typed
          taken,      \* how much of it the program has read
          buf,        \* what it has read and not yet used
          line,       \* read_line: the line so far
          expired,    \* read_line: its timer has run out
          tooLong,    \* input_valid_line: a part of the line was refused
          accepted,   \* history: lines input_valid_line returned
          todo,       \* the lines that are to be printed, the current one first
          left,       \* print_line: characters of it that are not printed
          shown,      \* print_line: the lines it has put out for it
          last        \* printing ends the program

input    == <<typed, closed>>
reader   == <<taken, buf, line, expired, tooLong, accepted>>
scanner  == <<table, curr, newLine>>
printer  == <<todo, left, shown, last>>
fileVars == <<program, file, shrunk, mode, scanner, at, input, reader, printer>>

Least(a, b) == IF a < b THEN a ELSE b

FileInit ==
  /\ program \in {"read", "mmap"}
  /\ file \in BoundedSeq(Char, FileSize)
  /\ shrunk = FALSE
  /\ mode = "scan"
  /\ table = <<>> /\ curr = 0 /\ newLine = (program = "read") /\ at = 0
  /\ typed = <<>> /\ closed = FALSE
  /\ taken = 0 /\ buf = <<>> /\ line = <<>> /\ expired = FALSE
  /\ tooLong = FALSE /\ accepted = <<>>
  /\ todo = <<>> /\ left = 0 /\ shown = <<>> /\ last = FALSE
-----------------------------------------------------------------------------
(* scan_file.  t is the table with curr and new_line; the chunk was read at *)
(* offset pos and i of its characters are looked at.                        *)

Scanned == [table |-> table, curr |-> curr, newLine |-> newLine, pos |-> at, i |-> 0]

(* A line begins at start and the next character is its break.              *)
EndLine(t, start, len) == [t EXCEPT !.table = Append(@, [offset |-> start, len |-> len])]

(* Mutant of ScanChar: a line's offset is counted from its chunk.           *)
ScanCharInChunk(t, c) ==
  LET start == IF t.newLine THEN t.i ELSE t.curr
      next  == [t EXCEPT !.curr = start, !.newLine = (c = NL), !.i = @ + 1]
  IN  IF c = NL THEN EndLine(next, start, t.pos + t.i - start) ELSE next

(* One turn of the loop over the chunk.                                     *)
ScanChar(t, c) ==
  LET start == IF t.newLine THEN t.pos + t.i ELSE t.curr
      next  == [t EXCEPT !.curr = start, !.newLine = (c = NL), !.i = @ + 1]
  IN  IF c = NL THEN EndLine(next, start, t.pos + t.i - start) ELSE next

ScanChunk(chunk) == FoldLeft(ScanChar, Scanned, chunk)

(* read returns what there is, up to a buffer; the end of the file counts   *)
(* as a line break.                                                         *)
ScanRead ==
  /\ mode = "scan" /\ program = "read"
  /\ LET chunk == SubSeq(file, at + 1, Least(at + ChunkSize, Len(file)))
         t     == ScanChunk(IF chunk = <<>> THEN <<NL>> ELSE chunk)
     IN  /\ table' = t.table /\ curr' = t.curr /\ newLine' = t.newLine
         /\ at' = IF chunk = <<>> THEN 0 ELSE at + Len(chunk)
         /\ mode' = IF chunk = <<>> THEN "read" ELSE "scan"
  /\ UNCHANGED <<program, file, shrunk, input, reader, printer>>

(* The mapped file is scanned in one go; a line without a break is left out.*)
MappedChar(t, c) ==
  LET next == [t EXCEPT !.i = @ + 1]
  IN  IF c = NL THEN EndLine([next EXCEPT !.curr = t.i + 1], t.curr, t.i - t.curr)
                ELSE next

ScanMapping ==
  /\ mode = "scan" /\ program = "mmap"
  /\ LET t == FoldLeft(MappedChar, Scanned, file)
     IN  table' = t.table /\ curr' = t.curr
  /\ mode' = "read"
  /\ UNCHANGED <<program, file, shrunk, newLine, at, input, reader, printer>>
-----------------------------------------------------------------------------
(* main, once input_valid_line has returned a line, and print_line          *)

Number(digits) == FoldLeft(LAMBDA n, d : 10 * n + d, 0, digits)

(* Printing the lines ls begins, or there is nothing to print.  print_line   *)
(* seeks first, so where the file was read before does not matter.          *)
PrintLines(ls, ends) ==
  /\ todo' = ls /\ last' = ends
  /\ shown' = <<>>
  /\ IF ls = <<>>
     THEN /\ mode' = (IF ends THEN "quit" ELSE "read")
          /\ left' = 0 /\ at' = 0
     ELSE /\ mode' = "print"
          /\ left' = Head(ls).len
          /\ at' = Head(ls).offset

(* A number of a line prints it, 0 quits, any other asks again.             *)
Answer(digits) ==
  LET n == Number(digits)
  IN  IF n \in DOMAIN table THEN PrintLines(<<table[n]>>, FALSE)
                            ELSE PrintLines(<<>>, n = 0)

(* Mutant of Shown: the characters behind the line are shown, too.          *)
ShownAll(chunk) == chunk

(* Of what was read only the line's characters are shown.                   *)
Shown(chunk) == SubSeq(chunk, 1, Least(left, Len(chunk)))

(* puts shows a string as a line, with a break behind it: what comes before *)
(* the first NUL.                                                           *)
Put(chars) == LET nul == SelectInSeq(chars, LAMBDA c : c = NUL)
              IN  IF nul = 0 THEN chars ELSE SubSeq(chars, 1, nul - 1)

(* One turn of print_line's loop: every chunk becomes a line.  An end of    *)
(* the file, which comes only if the file was cut off, leaves count_left as *)
(* it is; the empty line put out each time is not kept.                     *)
PrintChunk ==
  /\ mode = "print" /\ program = "read" /\ left > 0
  /\ LET chunk == SubSeq(file, at + 1, Least(at + ChunkSize - 1, Len(file)))
     IN  /\ shown' = IF chunk = <<>> THEN shown ELSE Append(shown, Put(Shown(chunk)))
         /\ left' = left - Least(left, Len(chunk))
         /\ at' = at + Len(chunk)
  /\ UNCHANGED <<program, file, shrunk, mode, scanner, input, reader, todo, last>>

(* The mapping is written in one go, NULs and all, and a break behind it;   *)
(* so is an empty line, of which the loop above puts out nothing.           *)
PrintMapping ==
  /\ mode = "print" /\ program = "mmap" /\ shown = <<>>
  /\ shown' = <<SubSeq(file, at + 1, at + left)>>
  /\ left' = 0
  /\ UNCHANGED <<program, file, shrunk, mode, scanner, at, input, reader, todo, last>>

(* print_lines goes on with the next line.                                  *)
LinePrinted ==
  /\ mode = "print" /\ left = 0
  /\ program = "read" \/ shown # <<>>
  /\ PrintLines(Tail(todo), last)
  /\ UNCHANGED <<program, file, shrunk, scanner, input, reader>>
-----------------------------------------------------------------------------
(* read_line and input_valid_line                                           *)

InSelect == mode = "read" /\ buf = <<>>

Available == Len(typed) - taken

(* Mutant of TimedOut: the timer is not in the set given to select.         *)
TimedOutNever == FALSE

TimedOut == expired

(* The timer has run out when select returns: what was read in the same     *)
(* turn never gets into the buffer, and the line that was begun is gone; all *)
(* lines are printed and main ends.                                         *)
SelectTimer ==
  /\ InSelect /\ TimedOut
  /\ taken' = Len(typed)
  /\ line' = <<>> /\ tooLong' = FALSE /\ expired' = FALSE
  /\ PrintLines(table, TRUE)
  /\ UNCHANGED <<program, file, shrunk, scanner, input, buf, accepted>>

SelectInput ==
  /\ InSelect /\ ~TimedOut /\ Available > 0
  /\ buf' = SubSeq(typed, taken + 1, Len(typed))
  /\ taken' = Len(typed)
  /\ UNCHANGED <<program, file, shrunk, mode, scanner, at, input, line, expired,
                 tooLong, accepted, printer>>

(* Mutant of Refused: that a part of the line was refused is forgotten.     *)
RefusedForgotten(l) == Last(l) # NL

(* A line without a break at its end is a part of a line too long; an empty *)
(* line changes nothing.                                                    *)
Refused(l) == tooLong \/ Last(l) # NL

(* read_line returns l: input_valid_line passes it over, takes it for a     *)
(* part of a long line, refuses the end of such a line, or accepts it.  The *)
(* next call begins with a new timer.                                       *)
Returned(l) ==
  /\ line' = <<>> /\ expired' = FALSE
  /\ IF l = <<NL>> \/ Refused(l)
     THEN /\ tooLong' = (IF l = <<NL>> THEN tooLong ELSE Last(l) # NL)
          /\ PrintLines(<<>>, FALSE)
          /\ UNCHANGED accepted
     ELSE /\ tooLong' = FALSE
          /\ accepted' = Append(accepted, Front(l))
          /\ Answer(Front(l))

(* End of file: a line that was begun is ended, otherwise the program ends. *)
SelectEndOfFile ==
  /\ InSelect /\ ~TimedOut /\ Available = 0 /\ closed
  /\ IF line # <<>>
     THEN Returned(Append(line, NL))
     ELSE /\ PrintLines(<<>>, TRUE)
          /\ UNCHANGED <<line, expired, tooLong, accepted>>
  /\ UNCHANGED <<program, file, shrunk, scanner, input, taken, buf>>

(* buf_consume_line: up to a line break, the end of the buffer or the room. *)
Consumed ==
  LET most == Least(Len(buf), LineSize - 1 - Len(line))
      breaks == {i \in 1..most : buf[i] = NL}
  IN  IF breaks = {} THEN most ELSE CHOOSE i \in breaks : \A j \in breaks : i <= j

Consume ==
  /\ mode = "read" /\ buf # <<>>
  /\ LET l == line \o SubSeq(buf, 1, Consumed)
     IN  IF Last(l) = NL \/ Len(l) = LineSize - 1
         THEN Returned(l)
         ELSE /\ line' = l
              /\ UNCHANGED <<mode, at, expired, tooLong, accepted, printer>>
  /\ buf' = SubSeq(buf, Consumed + 1, Len(buf))
  /\ UNCHANGED <<program, file, shrunk, scanner, input, taken>>
-----------------------------------------------------------------------------
(* The world around; the program looks at it in select only, and what       *)
(* happens earlier is as if it happened then.  What is typed once the timer *)
(* has run out is lost, as the program ends.                                *)

Type ==
  /\ InSelect /\ ~expired /\ ~closed /\ Len(typed) < TypedSize
  /\ \E c \in Key : typed' = Append(typed, c)
  /\ UNCHANGED <<program, file, shrunk, mode, scanner, at, closed, reader, printer>>

CloseInput ==
  /\ InSelect /\ ~expired /\ ~closed
  /\ closed' = TRUE
  /\ UNCHANGED <<program, file, shrunk, mode, scanner, at, typed, reader, printer>>

Expire ==
  /\ InSelect /\ ~expired
  /\ expired' = TRUE
  /\ UNCHANGED <<program, file, shrunk, mode, scanner, at, input, taken, buf, line,
                 tooLong, accepted, printer>>

(* Somebody else cuts the file off.  When does not matter before a line is  *)
(* printed; what a mapping of a file cut off shows is left out.             *)
Shrink ==
  /\ program = "read" /\ mode = "print" /\ ~shrunk /\ file # <<>>
  /\ file' = Front(file)
  /\ shrunk' = TRUE
  /\ UNCHANGED <<program, mode, scanner, at, input, reader, printer>>

FileStep == \/ ScanRead \/ ScanMapping
            \/ PrintChunk \/ PrintMapping \/ LinePrinted
            \/ SelectTimer \/ SelectInput \/ SelectEndOfFile \/ Consume

FileNext == FileStep \/ Type \/ CloseInput \/ Expire \/ Shrink

(* The program runs on, and five seconds pass.                              *)
FileFairness == WF_fileVars(FileStep) /\ WF_fileVars(Expire)
-----------------------------------------------------------------------------
(* Properties                                                               *)

Breaks(s) == {i \in DOMAIN s : s[i] = NL}

(* Where the lines of s begin and end: behind a break or at the start, and  *)
(* at the next break or the end.                                            *)
LineStarts(s) == {0} \cup Breaks(s)

LineEnd(s, start) ==
  LET ends == {i \in Breaks(s) : i > start} \cup {Len(s) + 1}
  IN  CHOOSE e \in ends : \A f \in ends : e <= f

LinesOf(s) == {[offset |-> b, len |-> LineEnd(s, b) - 1 - b] : b \in LineStarts(s)}

(* The table has every line of the file once and in order, wherever the     *)
(* chunks end.  The last line of "7. mmap" is only there if it has a break. *)
TableIsTheFile ==
  mode # "scan" /\ ~shrunk =>
    /\ \A i, j \in DOMAIN table : i < j => table[i].offset < table[j].offset
    /\ ToSet(table) = {l \in LinesOf(file) :
                         program = "read" \/ l.offset + l.len < Len(file)}

(* Every character of the line that is printed is put out, once and in      *)
(* order, and none of another line, whatever the chunks: by "7. mmap" as    *)
(* one line, by "5,6. File" in pieces of ChunkSize - 1 characters, each on  *)
(* a line of its own (puts, main.c:61) and up to its first NUL.  So a text  *)
(* line shorter than ChunkSize is shown as it is, a longer one with breaks  *)
(* that are not in the file, and an empty one by "7. mmap" only.            *)
LineText(l) == SubSeq(file, l.offset + 1, l.offset + l.len)

PieceEnd(i) == i * (ChunkSize - 1)

Piece(text, i) == SubSeq(text, PieceEnd(i - 1) + 1, Least(PieceEnd(i), Len(text)))

(* lines are the first pieces of the text, and only the last of its pieces  *)
(* can be shorter than the others.                                          *)
AreFirstPieces(lines, text) ==
  \A i \in DOMAIN lines : PieceEnd(i - 1) < Len(text) /\ lines[i] = Put(Piece(text, i))

PrintsTheLine ==
  mode = "print" /\ ~shrunk =>
    LET text == LineText(Head(todo))
    IN  IF program = "mmap"
        THEN \/ shown = <<>> /\ left = Len(text)
             \/ shown = <<text>> /\ left = 0
        ELSE /\ AreFirstPieces(shown, text)
             /\ left = 0 => Len(text) <= PieceEnd(Len(shown))

(* Every line that is not empty and fits in LineSize - 2 characters is      *)
(* accepted, in order, and no other (comment at main.c:89), however the     *)
(* characters come in and whenever the timer runs out.  It is not so behind *)
(* a line of LineSize - 1 characters or a multiple: the break that is left  *)
(* of it is taken for an empty line, and the line behind it is refused.     *)
InputText == IF closed THEN Append(typed, NL) ELSE typed

(* The lines of s that are to be accepted, and which one of them l is.      *)
Acceptable(s) == {l \in LinesOf(s) : /\ l.offset + l.len < Len(s)
                                     /\ l.len \in 1..(LineSize - 2)}

Place(s, l) == Cardinality({m \in Acceptable(s) : m.offset <= l.offset})

HasExactFit == \E l \in LinesOf(InputText) :
                 \E k \in 1..l.len : l.len = k * (LineSize - 1)

WaitsForInput == InSelect /\ Available = 0 /\ ~closed

InputAnswered ==
  ~HasExactFit =>
    /\ \A l \in Acceptable(InputText) : Place(InputText, l) <= Len(accepted) =>
         accepted[Place(InputText, l)]
           = SubSeq(InputText, l.offset + 1, l.offset + l.len)
    /\ Len(accepted) <= Cardinality(Acceptable(InputText))
    /\ WaitsForInput => Len(accepted) = Cardinality(Acceptable(InputText))

(* When no more is typed the program ends: neither the input nor printing   *)
(* keeps it for ever, unless the file was cut off (main.c:52 goes round).   *)
ProgramEnds == <>[](mode = "quit" \/ shrunk)
=============================================================================
