------------------------------- MODULE Codec -------------------------------
(***************************************************************************)
(* The bytes of "34-35. Port forwarding/pump.c": encode, encode_command,   *)
(* decode and recv_from_tunnel for one connection and one direction of the *)
(* tunnel, escapes included.  Forwarder models the rest of the pump and    *)
(* counts a byte of data as one byte of the tunnel.  A buffer is a         *)
(* sequence here (see RoundBuffer); the kernel carries any piece of the    *)
(* sender's tunnel buffer into the receiver's.                             *)
(***************************************************************************)
EXTENDS Naturals, SequencesExt

CONSTANTS Byte,       \* the byte values told apart
          Commands,   \* how many commands are ever sent
          TextSize,   \* most bytes the application sends
          BufSize,    \* capacity of a connection's buffers
          TunnelSize  \* capacity of the tunnel's buffers

END_BYTE == 126

ESC_BYTE == 127

(* A frame with one escaped byte fits; identifier 0 marks a command.        *)
ASSUME CodecAssumption ==
  /\ {0, END_BYTE, ESC_BYTE} \subseteq Byte /\ Byte \subseteq 0..255
  /\ {Commands, TextSize} \subseteq Nat
  /\ BufSize \in Nat \ {0}
  /\ TunnelSize \in Nat /\ TunnelSize >= 5

VARIABLES id,         \* the connection's identifier
          text,       \* what the application sends
          fed,        \* how many of its bytes are read
          src,        \* in_buf of the connection at the sending node
          out,        \* out_buf of the sender's tunnel
          in,         \* in_buf of the receiver's tunnel
          sendingTo,  \* the receiver's unfinished data frame, 0 for none
          dst,        \* out_buf of the connection at the receiving node
          got,        \* history: bytes written to the receiving application
          ordered,    \* history: commands encoded
          obeyed,     \* history: commands handled
          status,     \* why the receiving process has ended, or "runs"
          overrun     \* history: decode went past the end of its buffer

connection == <<id, text, fed, src>>
receiver   == <<sendingTo, dst, obeyed, status, overrun>>

vars == <<connection, out, in, receiver, got, ordered>>

Init == /\ id \in Byte \ {0}
        /\ text \in BoundedSeq(Byte, TextSize)
        /\ fed = 0 /\ sendingTo = 0
        /\ src = <<>> /\ out = <<>> /\ in = <<>> /\ dst = <<>>
        /\ got = <<>> /\ ordered = <<>> /\ obeyed = <<>>
        /\ status = "runs"
        /\ overrun = FALSE

Room(buffer, capacity) == capacity - Len(buffer)

Drop(n, buffer) == SubSeq(buffer, n + 1, Len(buffer))
-----------------------------------------------------------------------------
(* encode and encode_command                                                *)

Special(b) == b \in {END_BYTE, ESC_BYTE}

(* Mutants of EscapedByte: END is not escaped; ESC is not.                  *)
EscapedByteNotEnd(b) == IF b = ESC_BYTE THEN <<ESC_BYTE, b>> ELSE <<b>>

EscapedByteNotEsc(b) == IF b = END_BYTE THEN <<ESC_BYTE, b>> ELSE <<b>>

EscapedByte(b) == IF Special(b) THEN <<ESC_BYTE, b>> ELSE <<b>>

(* Mutant of Takes: the last byte of the room is left.                      *)
TakesLess(e, code) == ~e.full /\ Len(code) < e.rem

Takes(e, code) == ~e.full /\ Len(code) <= e.rem

(* One turn of the loop of encode; e is what it has done so far.            *)
EncodeByte(e, b) ==
  LET code == EscapedByte(b)
  IN  IF Takes(e, code)
      THEN [e EXCEPT !.bytes = @ \o code, !.rem = @ - Len(code), !.taken = @ + 1]
      ELSE [e EXCEPT !.full = TRUE]

(* Mutant of Encoded: the END that closes the frame has no room set aside.  *)
EncodedNoEnd(buffer, room) ==
  FoldLeft(EncodeByte,
           [bytes |-> <<>>, rem |-> room - 2, taken |-> 0, full |-> FALSE], buffer)

Encoded(buffer, room) ==
  FoldLeft(EncodeByte,
           [bytes |-> <<>>, rem |-> room - 3, taken |-> 0, full |-> FALSE], buffer)

(* The test looks for an ESC first and not for an END: with four bytes of   *)
(* room and an END first the frame has no data.                             *)
EncodeRefuses(buffer, room) ==
  room < 4 \/ (Head(buffer) = ESC_BYTE /\ room < 5)

Encode ==
  /\ src # <<>> /\ ~EncodeRefuses(src, Room(out, TunnelSize))
  /\ LET e == Encoded(src, Room(out, TunnelSize))
     IN  /\ out' = out \o <<END_BYTE, id>> \o e.bytes \o <<END_BYTE>>
         /\ src' = Drop(e.taken, src)
  /\ UNCHANGED <<id, text, fed, in, receiver, got, ordered>>

CommandSize == 5

(* Command codes are 1 to 5, the argument is any connection's identifier.   *)
Command == [cmd : {1}, arg : Byte \ {0}]

EncodeCommand ==
  /\ Len(ordered) < Commands
  /\ Room(out, TunnelSize) >= CommandSize
  /\ \E c \in Command :
       /\ out' = out \o <<END_BYTE, 0, c.cmd, c.arg, END_BYTE>>
       /\ ordered' = Append(ordered, c)
  /\ UNCHANGED <<connection, in, receiver, got>>
-----------------------------------------------------------------------------
(* decode                                                                   *)

Put(d, b) == [d EXCEPT !.bytes = Append(@, b), !.used = @ + 1, !.mode = "plain"]

(* The loop of decode, one byte at a time; d is what it has done so far.    *)
(* A full destination stops it before it looks at the next byte, but not    *)
(* between an escape and the byte behind it.                                *)
DecodeByte(d, b) ==
  CASE d.mode = "escaped" -> Put(d, b)
    [] d.mode = "end" \/ (d.mode = "plain" /\ Len(d.bytes) = d.free) -> d
    [] d.mode = "plain" /\ Len(d.bytes) < d.free /\ b = END_BYTE
         -> [d EXCEPT !.used = @ + 1, !.mode = "end"]
    [] d.mode = "plain" /\ Len(d.bytes) < d.free /\ b = ESC_BYTE
         -> [d EXCEPT !.used = @ + 1, !.mode = "escaped"]
    [] OTHER -> Put(d, b)

Walk(buffer, free) ==
  FoldLeft(DecodeByte,
           [bytes |-> <<>>, used |-> 0, mode |-> "plain", free |-> free], buffer)

(* An escape is the last byte there is: the iterator has run out, its count *)
(* of bytes left passes zero, and nothing but a full destination or an END  *)
(* among the cells behind the buffer ends the loop.                         *)
Strays(d) == UNION {[1..k -> Byte] : k \in 1..(d.free - Len(d.bytes))}

Decodings(buffer, free) ==
  LET d == Walk(buffer, free)
  IN  IF d.mode # "escaped"
      THEN {[bytes |-> d.bytes, used |-> d.used, end |-> d.mode = "end", over |-> FALSE]}
      ELSE {[bytes |-> d.bytes \o s, used |-> d.used, over |-> TRUE,
             end |-> Len(d.bytes \o s) < free] : s \in Strays(d)}
-----------------------------------------------------------------------------
(* recv_from_tunnel.  r is the part of the receiver's state it works on.    *)

Now == [in |-> in, dst |-> dst, to |-> sendingTo, obeyed |-> obeyed,
        status |-> status, over |-> overrun, returned |-> FALSE]

(* decode, the clamped advance of the tunnel, and where the frame goes on.  *)
AfterDecode(r, to) ==
  {[r EXCEPT !.in = Drop(d.used, @), !.dst = @ \o d.bytes, !.over = @ \/ d.over,
             !.to = IF d.end THEN 0 ELSE to, !.returned = ~d.end]
     : d \in Decodings(r.in, Room(r.dst, BufSize))}

Continued(r) == IF r.to = 0 THEN {r} ELSE AfterDecode(r, r.to)

(* A decision needs an END, an identifier and one byte more, and the code   *)
(* asks for one more than that; a command is waited for in full.            *)
MinFrame == 4

(* Mutant of CommandAt: the argument is looked for one byte too early.      *)
CommandAtEarly(bytes) == [cmd |-> bytes[3], arg |-> bytes[3]]

CommandAt(bytes) == [cmd |-> bytes[3], arg |-> bytes[4]]

NextFrame(r) ==
  IF r.returned \/ Len(r.in) < MinFrame THEN {r}
  ELSE IF r.in[1] # END_BYTE THEN {[r EXCEPT !.status = "starting byte"]}
  ELSE IF r.in[2] = 0
       THEN IF Len(r.in) < CommandSize THEN {r}
            ELSE {[r EXCEPT !.obeyed = Append(@, CommandAt(r.in)),
                            !.in = Drop(CommandSize, @)]}
  ELSE IF r.in[2] # id THEN {[r EXCEPT !.status = "closed connection"]}
  ELSE AfterDecode([r EXCEPT !.in = Drop(2, @)], id)

Receive ==
  /\ status = "runs" /\ in # <<>>
  /\ \E c \in Continued(Now) : \E r \in NextFrame(c) :
       /\ in' = r.in /\ dst' = r.dst /\ sendingTo' = r.to
       /\ obeyed' = r.obeyed /\ status' = r.status /\ overrun' = r.over
  /\ UNCHANGED <<connection, out, got, ordered>>
-----------------------------------------------------------------------------
(* The kernel and the applications                                          *)

Feed ==
  /\ \E n \in 1..Room(src, BufSize) :
       /\ fed + n <= Len(text)
       /\ src' = src \o SubSeq(text, fed + 1, fed + n)
       /\ fed' = fed + n
  /\ UNCHANGED <<id, text, out, in, receiver, got, ordered>>

Carry ==
  /\ \E n \in 1..Len(out) :
       /\ n <= Room(in, TunnelSize)
       /\ in' = in \o SubSeq(out, 1, n)
       /\ out' = Drop(n, out)
  /\ UNCHANGED <<connection, receiver, got, ordered>>

Drain ==
  /\ \E n \in 1..Len(dst) :
       /\ got' = got \o SubSeq(dst, 1, n)
       /\ dst' = Drop(n, dst)
  /\ UNCHANGED <<connection, out, in, sendingTo, ordered, obeyed, status, overrun>>

Next == Feed \/ Encode \/ EncodeCommand \/ Carry \/ Receive \/ Drain

Spec == Init /\ [][Next]_vars
-----------------------------------------------------------------------------
(* Properties                                                               *)

(* Neither a frame nor what it is decoded to is ever longer than the room   *)
(* that was there for it: the iterators of pump.c never check that.         *)
TypeOK ==
  /\ id \in Byte /\ sendingTo \in {0, id}
  /\ {Len(src), Len(dst)} \subseteq 0..BufSize
  /\ {Len(out), Len(in)} \subseteq 0..TunnelSize
  /\ fed \in 0..Len(text)
  /\ status \in {"runs", "starting byte", "closed connection"}

(* What the tunnel's bytes mean, by the definition of the framing alone:    *)
(* between frames, at the identifier, at the bytes of a command, in data,   *)
(* behind an escape.  Frames are commands or the connection's own data.     *)
ReadByte(m, b) ==
  CASE m.at = "gap"  -> [m EXCEPT !.at = IF b = END_BYTE THEN "id" ELSE "broken"]
    [] m.at = "id"   -> [m EXCEPT !.at = IF b = 0 THEN "cmd"
                                         ELSE IF b = m.id THEN "data" ELSE "broken"]
    [] m.at = "cmd"  -> [m EXCEPT !.at = "arg", !.code = b]
    [] m.at = "arg"  -> [m EXCEPT !.at = "close",
                                  !.cmds = Append(@, [cmd |-> m.code, arg |-> b])]
    [] m.at = "close" -> [m EXCEPT !.at = IF b = END_BYTE THEN "gap" ELSE "broken"]
    [] m.at = "esc"  -> [m EXCEPT !.at = "data", !.data = Append(@, b)]
    [] m.at = "data" -> CASE b = END_BYTE -> [m EXCEPT !.at = "gap"]
                          [] b = ESC_BYTE -> [m EXCEPT !.at = "esc"]
                          [] OTHER        -> [m EXCEPT !.data = Append(@, b)]
    [] m.at = "broken" -> m

Meaning ==
  FoldLeft(ReadByte,
           [at |-> IF sendingTo = 0 THEN "gap" ELSE "data", id |-> id, code |-> 0,
            data |-> <<>>, cmds |-> <<>>], in \o out)

(* No byte is lost, doubled or changed, however the bytes of a text fall    *)
(* into frames, escapes and pieces: received, decoded, in the tunnel and    *)
(* not yet encoded are together what was read - as long as no piece ended   *)
(* between an escape and the byte behind it when decode came to it.         *)
NothingLost ==
  ~overrun => got \o dst \o Meaning.data \o src = SubSeq(text, 1, fed)

(* Until then the receiver knows where it stands and the tunnel ends with   *)
(* the end of a frame, although 126 and 127 are data bytes, identifiers and *)
(* arguments, too: the exit for a wrong starting byte is never taken.       *)
FramesInStep ==
  ~overrun => status = "runs" /\ Meaning.at = "gap"

(* Until then a command is handled once and with its own argument, wherever *)
(* the pieces end and whatever data lies around it.                         *)
CommandsIntact == ~overrun => obeyed \o Meaning.cmds = ordered

(* encode takes as many bytes as the room allows, and it refuses only when  *)
(* not one byte would fit (the comment at pump.c:60).  When it does not     *)
(* refuse it takes at least one, but for one case, in which it writes a     *)
(* frame without data although the comment says otherwise (pump.c:79): a    *)
(* byte to be escaped is looked for as ESC only.                            *)
Code(bytes) == FlattenSeq([i \in DOMAIN bytes |-> EscapedByte(bytes[i])])

Fits(n) == Len(Code(SubSeq(src, 1, n))) + 3 <= Room(out, TunnelSize)

EncodesMost ==
  [][LET room  == Room(out, TunnelSize)
         taken == Len(src) - Len(src')
     IN  /\ Encode => /\ \A n \in 1..Len(src) : Fits(n) => n <= taken
                      /\ taken = 0 => room = 4 /\ Head(src) = END_BYTE
         /\ src # <<>> /\ EncodeRefuses(src, room) => ~Fits(1)]_vars
=============================================================================
