-------------------------- MODULE ForwarderProofs --------------------------
(***************************************************************************)
(* Proofs about the port forwarder: what its memory holds, that the nodes  *)
(* stay in step about where a frame begins, which connection a frame in    *)
(* progress is for, that the command queue has room for what a round       *)
(* reports and answers, and what the controller never reports.             *)
(***************************************************************************)
EXTENDS Forwarder, SequenceLemmas, FiniteSetTheorems, TLAPS

(* The commands that are ever sent: CLOSE_DST_TO_SRC is not among them.     *)
Cmd == {"NEW", "CLOSE", "CLOSE_SRC_TO_DST", "ACK"}

(* The bytes of applications and those of the tunnel.                       *)
Data == {"data"} \X Node \X Session \X Nat

Byte == {END} \cup ({"id"} \X (0..MaxId)) \cup ({"cmd"} \X Cmd \X Session)
        \cup ({"arg"} \X Id) \cup Data

LEMMA Bytes ==
  /\ END \in Byte /\ END \notin Data /\ Data \subseteq Byte
  /\ \A i \in 0..MaxId : IdByte(i) \in Byte /\ IdByte(i)[2] = i /\ IdByte(i) # END
  /\ \A n \in Node, s \in Session, k \in Nat : DataByte(n, s, k) \in Data
<1>1. END \notin Data
  BY DEF END, Data
<1>2. \A i \in 0..MaxId : IdByte(i) \in Byte /\ IdByte(i)[2] = i /\ IdByte(i) # END
  BY DEF Byte, IdByte, END
<1>3. \A n \in Node, s \in Session, k \in Nat : DataByte(n, s, k) \in Data
  BY DEF Data, DataByte
<1> QED
  BY <1>1, <1>2, <1>3 DEF Byte

LEMMA Constants ==
  /\ MaxId \in Nat /\ Sessions \in Nat /\ BufSize \in Nat /\ TunnelSize \in Nat
  /\ WireSize \in Nat /\ QueueSize \in Nat
  /\ MaxId > 0 /\ Sessions > 0 /\ BufSize > 0 /\ TunnelSize > 0 /\ WireSize > 0
  /\ QueueSize > 0 /\ Uploads \in Nat /\ Downloads \in Nat
BY ForwarderAssumption

LEMMA Nodes ==
  ASSUME NEW n \in Node
  PROVE  Other(n) \in Node /\ Other(n) # n /\ Other(Other(n)) = n
         /\ \A m \in Node : m = n \/ m = Other(n)
BY DEF Node, Other
-----------------------------------------------------------------------------
(* The receiver's reading of a stream of frames, as an automaton            *)

Expecting == {"start", "id", "cmd", "arg", "last", "data"}

Accepts(p, b, q) ==
  \/ p = "start" /\ b = END /\ q = "id"
  \/ p = "id" /\ q = "data" /\ \E i \in Id : b = IdByte(i)
  \/ p = "id" /\ q = "cmd" /\ b = IdByte(0)
  \/ p = "cmd" /\ q = "arg" /\ b \in {"cmd"} \X Cmd \X Session
  \/ p = "arg" /\ q = "last" /\ b \in {"arg"} \X Id
  \/ p = "last" /\ q = "start" /\ b = END
  \/ p = "data" /\ q = "data" /\ b \in Data
  \/ p = "data" /\ q = "start" /\ b = END

(* The bytes take a receiver that expects p to one that expects q.          *)
Run(bytes, st) == \A i \in 1..Len(bytes) : Accepts(st[i - 1], bytes[i], st[i])

Parses(bytes, p, q) ==
  \E st \in [0..Len(bytes) -> Expecting] :
    st[0] = p /\ st[Len(bytes)] = q /\ Run(bytes, st)

LEMMA ParsesNothing ==
  ASSUME NEW p \in Expecting
  PROVE  Parses(<<>>, p, p)
<1>1. Len(<<>>) = 0 /\ 1..0 = {}
  BY EmptySeq
<1>2. [i \in 0..0 |-> p] \in [0..0 -> Expecting] /\ [i \in 0..0 |-> p][0] = p
  OBVIOUS
<1> QED
  BY <1>1, <1>2 DEF Parses, Run

LEMMA ParsesOne ==
  ASSUME NEW p \in Expecting, NEW q \in Expecting, NEW b, Accepts(p, b, q)
  PROVE  Parses(<<b>>, p, q)
<1> DEFINE st == [i \in 0..1 |-> IF i = 0 THEN p ELSE q]
<1>1. Len(<<b>>) = 1 /\ <<b>>[1] = b
  OBVIOUS
<1>2. st \in [0..1 -> Expecting] /\ st[0] = p /\ st[1] = q
  OBVIOUS
<1> HIDE DEF st
<1>3. \A i \in 1..1 : i = 1 /\ i - 1 = 0
  OBVIOUS
<1>4. Run(<<b>>, st)
  BY <1>1, <1>2, <1>3 DEF Run
<1> QED
  BY <1>1, <1>2, <1>4 DEF Parses

LEMMA ParsesConcat ==
  ASSUME NEW S, NEW s \in Seq(S), NEW t \in Seq(S), NEW p, NEW q, NEW r,
         Parses(s, p, q), Parses(t, q, r)
  PROVE  Parses(s \o t, p, r)
<1> DEFINE k == Len(s)
           m == Len(t)
<1>1. k \in Nat /\ m \in Nat
  OBVIOUS
<1>2. PICK a \in [0..k -> Expecting] : a[0] = p /\ a[k] = q /\ Run(s, a)
  BY DEF Parses
<1>3. PICK b \in [0..m -> Expecting] : b[0] = q /\ b[m] = r /\ Run(t, b)
  BY DEF Parses
<1>4. /\ Len(s \o t) = k + m
      /\ \A i \in 1..(k + m) : (s \o t)[i] = IF i <= k THEN s[i] ELSE t[i - k]
  BY ConcatProperties
<1> DEFINE u == s \o t
           c == [i \in 0..(k + m) |-> IF i <= k THEN a[i] ELSE b[i - k]]
<1>5. c \in [0..(k + m) -> Expecting]
  <2>1. ASSUME NEW i \in 0..(k + m)
        PROVE  (i <= k => i \in 0..k) /\ (~(i <= k) => i - k \in 0..m)
    BY <1>1
  <2> QED
    BY <2>1
<1>6. c[0] = p /\ c[k + m] = r
  <2>1. CASE m = 0
    BY <1>1, <1>2, <1>3, <2>1
  <2>2. CASE m # 0
    BY <1>1, <1>2, <1>3, <2>2
  <2> QED
    BY <2>1, <2>2
<1>7. ASSUME NEW i \in 1..(k + m)
      PROVE  Accepts(c[i - 1], u[i], c[i])
  <2>1. i \in 0..(k + m) /\ i - 1 \in 0..(k + m)
    BY <1>1
  <2>2. CASE i <= k
    <3>1. i \in 1..k /\ i - 1 <= k
      BY <1>1, <2>2
    <3>2. c[i - 1] = a[i - 1] /\ c[i] = a[i] /\ u[i] = s[i]
      BY <1>4, <2>1, <2>2, <3>1
    <3>3. Accepts(a[i - 1], s[i], a[i])
      BY <1>2, <3>1 DEF Run
    <3> QED
      BY <3>2, <3>3
  <2>3. CASE i = k + 1
    <3>1. 1 \in 1..m /\ i - k = 1 /\ i - 1 = k /\ ~(i <= k)
      BY <1>1, <2>3
    <3>2. c[i - 1] = q /\ c[i] = b[1] /\ u[i] = t[1]
      BY <1>2, <1>4, <2>1, <3>1
    <3>3. Accepts(b[1 - 1], t[1], b[1])
      BY <1>3, <3>1 DEF Run
    <3>4. b[1 - 1] = q
      BY <1>3
    <3> QED
      BY <3>2, <3>3, <3>4
  <2>4. CASE i > k + 1
    <3>1. i - k \in 1..m /\ ~(i - 1 <= k) /\ ~(i <= k) /\ (i - 1) - k = (i - k) - 1
      BY <1>1, <2>4
    <3>2. c[i - 1] = b[(i - k) - 1] /\ c[i] = b[i - k] /\ u[i] = t[i - k]
      BY <1>4, <2>1, <3>1
    <3>3. Accepts(b[(i - k) - 1], t[i - k], b[i - k])
      BY <1>3, <3>1 DEF Run
    <3> QED
      BY <3>2, <3>3
  <2> QED
    BY <1>1, <2>2, <2>3, <2>4
<1> HIDE DEF c, u
<1>8. c \in [0..Len(u) -> Expecting] /\ c[Len(u)] = r /\ Run(u, c)
  BY <1>4, <1>5, <1>6, <1>7 DEF Run, u
<1>9. Parses(u, p, r)
  BY <1>6, <1>8 DEF Parses
<1> QED
  BY <1>9 DEF u

LEMMA ParsesSplit ==
  ASSUME NEW S, NEW s \in Seq(S), NEW t \in Seq(S), NEW p, NEW r, Parses(s \o t, p, r)
  PROVE  \E q \in Expecting : Parses(s, p, q) /\ Parses(t, q, r)
<1> DEFINE k == Len(s)
           m == Len(t)
           u == s \o t
<1>1. k \in Nat /\ m \in Nat
  OBVIOUS
<1>2. /\ Len(u) = k + m
      /\ \A i \in 1..(k + m) : u[i] = IF i <= k THEN s[i] ELSE t[i - k]
  BY ConcatProperties
<1>3. PICK c \in [0..Len(u) -> Expecting] : c[0] = p /\ c[Len(u)] = r /\ Run(u, c)
  BY DEF Parses
<1> HIDE DEF u
<1>4. \A i \in 1..(k + m) : Accepts(c[i - 1], u[i], c[i])
  BY <1>2, <1>3 DEF Run
<1> DEFINE a == [i \in 0..k |-> c[i]]
           b == [i \in 0..m |-> c[k + i]]
<1>5. a \in [0..k -> Expecting] /\ a[0] = p /\ a[k] = c[k] /\ c[k] \in Expecting
  BY <1>1, <1>2, <1>3
<1>6. b \in [0..m -> Expecting] /\ b[0] = c[k] /\ b[m] = r
  BY <1>1, <1>2, <1>3
<1>7. ASSUME NEW i \in 1..k
      PROVE  Accepts(a[i - 1], s[i], a[i])
  <2>1. i \in 1..(k + m) /\ i <= k /\ i \in 0..k /\ i - 1 \in 0..k
    BY <1>1
  <2>2. u[i] = s[i] /\ a[i] = c[i] /\ a[i - 1] = c[i - 1]
    BY <1>2, <2>1
  <2>3. Accepts(c[i - 1], u[i], c[i])
    BY <1>4, <2>1
  <2> QED
    BY <2>2, <2>3
<1>8. ASSUME NEW i \in 1..m
      PROVE  Accepts(b[i - 1], t[i], b[i])
  <2>1. k + i \in 1..(k + m) /\ ~(k + i <= k) /\ i \in 0..m /\ i - 1 \in 0..m
        /\ (k + i) - k = i /\ (k + i) - 1 = k + (i - 1)
    BY <1>1
  <2>2. u[k + i] = t[i] /\ b[i] = c[k + i] /\ b[i - 1] = c[(k + i) - 1]
    BY <1>2, <2>1
  <2>3. Accepts(c[(k + i) - 1], u[k + i], c[k + i])
    BY <1>4, <2>1
  <2> QED
    BY <2>2, <2>3
<1> HIDE DEF a, b
<1>9. Parses(s, p, c[k])
  BY <1>5, <1>7 DEF Parses, Run
<1>10. Parses(t, c[k], r)
  BY <1>6, <1>8 DEF Parses, Run
<1> QED
  BY <1>5, <1>9, <1>10

LEMMA ParsesData ==
  ASSUME NEW bytes \in Seq(Data)
  PROVE  Parses(bytes, "data", "data")
<1> DEFINE st == [i \in 0..Len(bytes) |-> "data"]
<1>1. Len(bytes) \in Nat
  OBVIOUS
<1>2. st \in [0..Len(bytes) -> Expecting] /\ st[0] = "data" /\ st[Len(bytes)] = "data"
  BY <1>1 DEF Expecting
<1>3. ASSUME NEW i \in 1..Len(bytes)
      PROVE  Accepts(st[i - 1], bytes[i], st[i])
  <2>1. st[i - 1] = "data" /\ st[i] = "data"
    BY <1>1
  <2>2. bytes[i] \in Data
    BY ElementOfSeq
  <2> HIDE DEF st
  <2> QED
    BY <2>1, <2>2 DEF Accepts
<1> HIDE DEF st
<1> QED
  BY <1>2, <1>3 DEF Parses, Run

LEMMA DataFrameParses ==
  ASSUME NEW i \in Id, NEW bytes \in Seq(Data)
  PROVE  Parses(DataFrame(i, bytes), "start", "start") /\ DataFrame(i, bytes) \in Seq(Byte)
         /\ Len(DataFrame(i, bytes)) = Len(bytes) + 3
<1> DEFINE head == <<END>> \o <<IdByte(i)>>
           body == head \o bytes
<1>1. END \in Byte /\ IdByte(i) \in Byte /\ bytes \in Seq(Byte)
  <2>1. i \in 0..MaxId
    BY Constants DEF Id
  <2>2. bytes \in Seq(Byte)
    BY Bytes
  <2> QED
    BY <2>1, <2>2, Bytes
<1>2. <<END>> \in Seq(Byte) /\ <<IdByte(i)>> \in Seq(Byte)
  BY <1>1
<1>3. Parses(<<END>>, "start", "id") /\ Parses(<<IdByte(i)>>, "id", "data")
      /\ Parses(<<END>>, "data", "start")
  <2>1. /\ Accepts("start", END, "id") /\ Accepts("id", IdByte(i), "data")
        /\ Accepts("data", END, "start")
    BY DEF Accepts
  <2> QED
    BY <2>1, ParsesOne DEF Expecting
<1>4. head \in Seq(Byte) /\ Len(head) = 2 /\ Parses(head, "start", "data")
  <2>1. Len(<<END>>) = 1 /\ Len(<<IdByte(i)>>) = 1
    OBVIOUS
  <2>2. head \in Seq(Byte) /\ Len(head) = 2
    BY <1>2, <2>1, ConcatProperties
  <2> QED
    BY <1>2, <1>3, <2>2, ParsesConcat
<1> HIDE DEF head
<1>5. body \in Seq(Byte) /\ Len(body) = Len(bytes) + 2 /\ Parses(body, "start", "data")
  <2>1. body \in Seq(Byte) /\ Len(body) = Len(bytes) + 2
    <3>1. Len(bytes) \in Nat
      OBVIOUS
    <3>2. body \in Seq(Byte) /\ Len(body) = Len(head) + Len(bytes)
      BY <1>1, <1>4, ConcatProperties
    <3> QED
      BY <1>4, <3>1, <3>2
  <2>2. Parses(bytes, "data", "data")
    BY ParsesData
  <2> QED
    BY <1>1, <1>4, <2>1, <2>2, ParsesConcat
<1> HIDE DEF body
<1>6. DataFrame(i, bytes) = body \o <<END>>
  <2>1. <<END, IdByte(i)>> = head
    BY DEF head
  <2> QED
    BY <2>1 DEF DataFrame, body
<1>7. Parses(body \o <<END>>, "start", "start")
  BY <1>2, <1>3, <1>5, ParsesConcat
<1>8. body \o <<END>> \in Seq(Byte) /\ Len(body \o <<END>>) = Len(bytes) + 3
  <2>1. Len(<<END>>) = 1 /\ Len(bytes) \in Nat
    OBVIOUS
  <2> QED
    BY <1>2, <1>5, <2>1, ConcatProperties
<1> QED
  BY <1>6, <1>7, <1>8

Commands == [cmd : Cmd, id : Id, session : Session]

LEMMA CommandFrameParses ==
  ASSUME NEW c \in Commands
  PROVE  Parses(CommandFrame(c), "start", "start") /\ CommandFrame(c) \in Seq(Byte)
         /\ Len(CommandFrame(c)) = CommandSize
<1> DEFINE f == CommandFrame(c)
           cmd == <<"cmd", c.cmd, c.session>>
           arg == <<"arg", c.id>>
           st == [i \in 0..5 |-> CASE i = 1 -> "id" [] i = 2 -> "cmd" [] i = 3 -> "arg"
                                   [] i = 4 -> "last" [] OTHER -> "start"]
<1>1. cmd \in {"cmd"} \X Cmd \X Session /\ arg \in {"arg"} \X Id
  BY DEF Commands
<1>2. END \in Byte /\ IdByte(0) \in Byte /\ cmd \in Byte /\ arg \in Byte
  <2>1. 0 \in 0..MaxId
    BY Constants
  <2> QED
    BY <1>1, <2>1, Bytes DEF Byte
<1> HIDE DEF cmd, arg
<1>3. f = <<END, IdByte(0), cmd, arg, END>>
  BY DEF CommandFrame, cmd, arg
<1>4. f \in Seq(Byte) /\ Len(f) = 5
  BY <1>2, <1>3
<1>5. f[1] = END /\ f[2] = IdByte(0) /\ f[3] = cmd /\ f[4] = arg /\ f[5] = END
  BY <1>3
<1>6. st[0] = "start" /\ st[1] = "id" /\ st[2] = "cmd" /\ st[3] = "arg" /\ st[4] = "last"
      /\ st[5] = "start" /\ st \in [0..5 -> Expecting]
  BY DEF Expecting
<1> HIDE DEF f, st
<1>7. ASSUME NEW i \in 1..5
      PROVE  Accepts(st[i - 1], f[i], st[i])
  <2>1. CASE i = 1
    BY <1>5, <1>6, <2>1 DEF Accepts
  <2>2. CASE i = 2
    BY <1>5, <1>6, <2>2 DEF Accepts
  <2>3. CASE i = 3
    BY <1>1, <1>5, <1>6, <2>3 DEF Accepts
  <2>4. CASE i = 4
    BY <1>1, <1>5, <1>6, <2>4 DEF Accepts
  <2>5. CASE i = 5
    BY <1>5, <1>6, <2>5 DEF Accepts
  <2> QED
    BY <2>1, <2>2, <2>3, <2>4, <2>5
<1>8. Parses(f, "start", "start")
  BY <1>4, <1>6, <1>7 DEF Parses, Run
<1> QED
  BY <1>4, <1>8 DEF f, CommandSize

(* The rest of a stream, from where the receiver stands then.               *)
LEMMA RunRest ==
  ASSUME NEW s \in Seq(Byte), NEW st \in [0..Len(s) -> Expecting], Run(s, st),
         NEW m \in 0..Len(s)
  PROVE  Parses(SubSeq(s, m + 1, Len(s)), st[m], st[Len(s)])
<1> DEFINE t == SubSeq(s, m + 1, Len(s))
           k == Len(s) - m
           u == [i \in 0..k |-> st[m + i]]
<1>1. Len(s) \in Nat /\ m \in Nat /\ m <= Len(s) /\ k \in Nat
  OBVIOUS
<1>2. t \in Seq(Byte) /\ Len(t) = k /\ \A i \in 1..k : t[i] = s[m + i]
  BY SeqRest
<1>3. u \in [0..k -> Expecting] /\ u[0] = st[m] /\ u[k] = st[Len(s)]
  BY <1>1
<1>4. ASSUME NEW i \in 1..k
      PROVE  Accepts(u[i - 1], t[i], u[i])
  <2>1. m + i \in 1..Len(s) /\ i \in 0..k /\ i - 1 \in 0..k /\ (m + i) - 1 = m + (i - 1)
    BY <1>1
  <2>2. Accepts(st[(m + i) - 1], s[m + i], st[m + i])
    BY <2>1 DEF Run
  <2>3. u[i - 1] = st[(m + i) - 1] /\ u[i] = st[m + i] /\ t[i] = s[m + i]
    BY <1>2, <2>1
  <2> QED
    BY <2>2, <2>3
<1> HIDE DEF t, k, u
<1>5. Parses(t, st[m], st[Len(s)])
  BY <1>2, <1>3, <1>4 DEF Parses, Run
<1> QED
  BY <1>5 DEF t

(* Inside a frame of data everything before its END is data.                *)
LEMMA DataRun ==
  ASSUME NEW s \in Seq(Byte), NEW q, Parses(s, "data", q), NEW m \in 0..Len(s),
         \A i \in 1..m : s[i] # END
  PROVE  /\ \A i \in 1..m : s[i] \in Data
         /\ SubSeq(s, 1, m) \in Seq(Data)
         /\ Parses(SubSeq(s, m + 1, Len(s)), "data", q)
<1>1. Len(s) \in Nat /\ m \in Nat /\ m <= Len(s)
  OBVIOUS
<1>2. PICK st \in [0..Len(s) -> Expecting] : st[0] = "data" /\ st[Len(s)] = q /\ Run(s, st)
  BY DEF Parses
<1> DEFINE T == {i \in 0..m : st[i] = "data"}
<1>3. 0 \in T
  BY <1>1, <1>2
<1>4. ASSUME NEW i \in 0..(m - 1), i \in T
      PROVE  i + 1 \in T /\ s[i + 1] \in Data
  <2>1. i + 1 \in 1..m /\ i + 1 \in 1..Len(s) /\ (i + 1) - 1 = i /\ i + 1 \in 0..m
    BY <1>1
  <2>2. Accepts(st[i], s[i + 1], st[i + 1]) /\ st[i] = "data" /\ s[i + 1] # END
    <3>1. Accepts(st[(i + 1) - 1], s[i + 1], st[i + 1])
      BY <1>2, <2>1 DEF Run
    <3> QED
      BY <1>4, <2>1, <3>1
  <2>3. st[i + 1] = "data" /\ s[i + 1] \in Data
    BY <2>2 DEF Accepts
  <2> QED
    BY <2>1, <2>3
<1>5. \A i \in 0..m : i \in T
  <2> HIDE DEF T
  <2>1. \A i \in 0..(m - 1) : i \in T => i + 1 \in T
    BY <1>4
  <2> QED
    BY <1>1, <1>3, <2>1, InductionTo
<1>6. ASSUME NEW i \in 1..m
      PROVE  s[i] \in Data
  <2>1. i - 1 \in 0..(m - 1) /\ i - 1 \in 0..m /\ (i - 1) + 1 = i
    BY <1>1
  <2>2. i - 1 \in T
    BY <1>5, <2>1
  <2>3. s[(i - 1) + 1] \in Data
    BY <1>4, <2>1, <2>2
  <2> QED
    BY <2>1, <2>3
<1>7. st[m] = "data"
  <2>1. m \in 0..m
    BY <1>1
  <2> QED
    BY <1>5, <2>1
<1>8. SubSeq(s, 1, m) \in Seq(Data)
  <2>1. Len(SubSeq(s, 1, m)) = m /\ \A i \in 1..m : SubSeq(s, 1, m)[i] = s[i]
    BY SeqFirst
  <2>2. SubSeq(s, 1, m) \in Seq(Byte)
    BY SeqFirst
  <2> DEFINE t == SubSeq(s, 1, m)
  <2> HIDE DEF t
  <2>3. t \in Seq(Byte) /\ Len(t) = m /\ \A i \in 1..m : t[i] \in Data
    BY <1>6, <2>1, <2>2 DEF t
  <2>4. t \in Seq(Data)
    BY <1>1, <2>3
  <2> QED
    BY <2>4 DEF t
<1>9. Parses(SubSeq(s, m + 1, Len(s)), "data", q)
  BY <1>2, <1>7, RunRest
<1> QED
  BY <1>6, <1>8, <1>9

(* What stands at the beginning of a frame.                                 *)
LEMMA FrameHead ==
  ASSUME NEW s \in Seq(Byte), NEW q, Parses(s, "start", q), Len(s) > 3
  PROVE  /\ s[1] = END
         /\ \E i \in 0..MaxId :
              /\ s[2] = IdByte(i)
              /\ i # 0 => i \in Id /\ Parses(SubSeq(s, 3, Len(s)), "data", q)
              /\ i = 0 => /\ s[3] \in {"cmd"} \X Cmd \X Session /\ s[4] \in {"arg"} \X Id
                          /\ Len(s) >= CommandSize =>
                               Parses(SubSeq(s, CommandSize + 1, Len(s)), "start", q)
<1>1. Len(s) \in Nat
  OBVIOUS
<1>2. PICK st \in [0..Len(s) -> Expecting] : st[0] = "start" /\ st[Len(s)] = q /\ Run(s, st)
  BY DEF Parses
<1>3. \A i \in 1..Len(s) : Accepts(st[i - 1], s[i], st[i])
  BY <1>2 DEF Run
<1>4. 1 \in 1..Len(s) /\ 2 \in 1..Len(s) /\ 3 \in 1..Len(s) /\ 4 \in 1..Len(s)
  BY <1>1
<1>5. Accepts(st[0], s[1], st[1]) /\ Accepts(st[1], s[2], st[2])
      /\ Accepts(st[2], s[3], st[3]) /\ Accepts(st[3], s[4], st[4])
  <2>1. 1 - 1 = 0 /\ 2 - 1 = 1 /\ 3 - 1 = 2 /\ 4 - 1 = 3
    OBVIOUS
  <2>2. Accepts(st[1 - 1], s[1], st[1]) /\ Accepts(st[2 - 1], s[2], st[2])
        /\ Accepts(st[3 - 1], s[3], st[3]) /\ Accepts(st[4 - 1], s[4], st[4])
    BY <1>3, <1>4
  <2> QED
    BY <2>1, <2>2
<1>6. s[1] = END /\ st[1] = "id"
  BY <1>2, <1>5 DEF Accepts
<1>7. CASE st[2] = "data"
  <2>1. PICK i \in Id : s[2] = IdByte(i)
    BY <1>5, <1>6, <1>7 DEF Accepts
  <2>2. i \in 0..MaxId /\ i # 0
    BY Constants DEF Id
  <2>3. Parses(SubSeq(s, 2 + 1, Len(s)), st[2], q)
    <3>1. 2 \in 0..Len(s)
      BY <1>1
    <3> QED
      BY <1>2, <3>1, RunRest
  <2>4. Parses(SubSeq(s, 3, Len(s)), "data", q)
    BY <1>7, <2>3
  <2> QED
    BY <1>6, <2>1, <2>2, <2>4
<1>8. CASE st[2] # "data"
  <2>1. s[2] = IdByte(0) /\ st[2] = "cmd"
    BY <1>5, <1>6, <1>8 DEF Accepts
  <2>2. s[3] \in {"cmd"} \X Cmd \X Session /\ st[3] = "arg"
    BY <1>5, <2>1 DEF Accepts
  <2>3. s[4] \in {"arg"} \X Id /\ st[4] = "last"
    BY <1>5, <2>2 DEF Accepts
  <2>4. ASSUME Len(s) >= CommandSize
        PROVE  Parses(SubSeq(s, CommandSize + 1, Len(s)), "start", q)
    <3>1. 5 \in 1..Len(s) /\ 5 - 1 = 4 /\ 5 \in 0..Len(s)
      BY <1>1, <2>4 DEF CommandSize
    <3>2. Accepts(st[5 - 1], s[5], st[5])
      BY <1>3, <3>1
    <3>3. st[5] = "start"
      BY <2>3, <3>1, <3>2 DEF Accepts
    <3>4. Parses(SubSeq(s, 5 + 1, Len(s)), st[5], q)
      BY <1>2, <3>1, RunRest
    <3> QED
      BY <3>3, <3>4 DEF CommandSize
  <2>5. 0 \in 0..MaxId
    BY Constants
  <2> QED
    BY <1>6, <2>1, <2>2, <2>3, <2>4, <2>5
<1> QED
  BY <1>7, <1>8

(* END ends a frame of data.                                                *)
LEMMA FrameEnd ==
  ASSUME NEW s \in Seq(Byte), NEW q, Parses(s, "data", q), NEW m \in 0..(Len(s) - 1),
         \A i \in 1..m : s[i] # END, s[m + 1] = END
  PROVE  Parses(SubSeq(s, (m + 1) + 1, Len(s)), "start", q)
<1> DEFINE t == SubSeq(s, m + 1, Len(s))
<1>1. Len(s) \in Nat /\ m \in Nat /\ m \in 0..Len(s) /\ m + 1 \in 0..Len(s)
  OBVIOUS
<1>2. Parses(t, "data", q)
  BY <1>1, DataRun
<1>3. t \in Seq(Byte) /\ Len(t) = Len(s) - m /\ \A i \in 1..(Len(s) - m) : t[i] = s[m + i]
  BY <1>1, SeqRest
<1> HIDE DEF t
<1>4. Len(t) \in Nat /\ 1 \in 1..Len(t) /\ 1 \in 0..Len(t) /\ t[1] = END
  <2>1. 1 \in 1..(Len(s) - m)
    BY <1>1
  <2> QED
    BY <1>3, <2>1
<1>5. PICK st \in [0..Len(t) -> Expecting] : st[0] = "data" /\ st[Len(t)] = q /\ Run(t, st)
  BY <1>2 DEF Parses
<1>6. st[1] = "start"
  <2>1. Accepts(st[1 - 1], t[1], st[1])
    BY <1>4, <1>5 DEF Run
  <2> QED
    BY <1>4, <1>5, <2>1, Bytes DEF Accepts
<1>7. Parses(SubSeq(t, 1 + 1, Len(t)), "start", q)
  <2>1. Parses(SubSeq(t, 1 + 1, Len(t)), st[1], st[Len(t)])
    BY <1>3, <1>4, <1>5, RunRest
  <2> QED
    BY <1>5, <1>6, <2>1
<1>8. SubSeq(t, 1 + 1, Len(t)) = SubSeq(s, (m + 1) + 1, Len(s))
  <2> DEFINE a == SubSeq(t, 1 + 1, Len(t))
             b == SubSeq(s, (m + 1) + 1, Len(s))
  <2>1. a \in Seq(Byte) /\ Len(a) = Len(t) - 1 /\ \A i \in 1..(Len(t) - 1) : a[i] = t[1 + i]
    BY <1>3, <1>4, SeqRest
  <2>2. /\ b \in Seq(Byte) /\ Len(b) = Len(s) - (m + 1)
        /\ \A i \in 1..(Len(s) - (m + 1)) : b[i] = s[(m + 1) + i]
    BY <1>1, SeqRest
  <2> HIDE DEF a, b
  <2>3. Len(a) = Len(b) /\ Len(a) \in Nat
    BY <1>1, <1>3, <2>1, <2>2
  <2>4. ASSUME NEW i \in 1..Len(a)
        PROVE  a[i] = b[i]
    <3>1. 1 + i \in 1..(Len(s) - m) /\ m + (1 + i) = (m + 1) + i /\ i \in 1..(Len(t) - 1)
          /\ i \in 1..(Len(s) - (m + 1))
      BY <1>1, <1>3, <2>1
    <3>2. a[i] = t[1 + i]
      BY <2>1, <3>1
    <3>3. t[1 + i] = s[m + (1 + i)]
      BY <1>3, <3>1
    <3>4. b[i] = s[(m + 1) + i]
      BY <2>2, <3>1
    <3> QED
      BY <3>1, <3>2, <3>3, <3>4
  <2>5. a = b
    BY <2>1, <2>2, <2>3, <2>4, SeqEqual
  <2> QED
    BY <2>5 DEF a, b
<1> QED
  BY <1>7, <1>8

(* The first END of a buffer.                                               *)
LEMMA FirstEnd ==
  ASSUME NEW s \in Seq(Byte)
  PROVE  /\ EndAt(s) \in 1..(Len(s) + 1)
         /\ \A i \in 1..Len(s) : i < EndAt(s) => s[i] # END
         /\ EndAt(s) <= Len(s) => s[EndAt(s)] = END
<1> DEFINE E == {i \in DOMAIN s : s[i] = END} \cup {Len(s) + 1}
<1>1. Len(s) \in Nat /\ DOMAIN s = 1..Len(s)
  OBVIOUS
<1>2. E \in SUBSET Nat /\ E # {} /\ \A i \in E : i \in 1..(Len(s) + 1)
  BY <1>1
<1>3. EndAt(s) \in E /\ \A i \in E : EndAt(s) <= i
  <2> HIDE DEF E
  <2>1. \E n \in E : \A i \in E : n <= i
    BY <1>2, LeastNat
  <2>2. EndAt(s) = CHOOSE n \in E : \A i \in E : n =< i
    BY DEF EndAt, Min, E
  <2> QED
    BY <2>1, <2>2
<1> DEFINE e == EndAt(s)
<1>4. e \in 1..(Len(s) + 1)
  BY <1>2, <1>3
<1>5. ASSUME NEW i \in 1..Len(s), i < e
      PROVE  s[i] # END
  <2>1. i \notin E
    BY <1>2, <1>3, <1>4, <1>5
  <2> QED
    BY <1>1, <2>1
<1>6. e <= Len(s) => s[e] = END
  BY <1>1, <1>3
<1> QED
  BY <1>4, <1>5, <1>6
-----------------------------------------------------------------------------
(* The inductive invariant                                                  *)

Phase == {"enter", "poll", "sort", "state", "recv", "cmds", "data"} \cup Ended

Record(I, A, B) ==
  [id : I, state : SUBSET Flag, in : SUBSET Flag, out : SUBSET Flag,
   inBuf : Seq(A), outBuf : Seq(B), events : SUBSET Event]

(* A direction for writing ends by a failed write, which leaves bytes in    *)
(* the buffer for good, or because the other node asked for it.             *)
OutputEndsRightly(c) ==
  /\ "EOF" \notin c.state
  /\ "EOF" \in c.out => c.outBuf # <<>>
  /\ "CLOSED" \in c.out => "EOF" \in c.out \/ "DELETE" \in c.out

Connections ==
  {c \in Record(Id \cup {NoId}, Data, Data) :
     /\ Len(c.inBuf) <= BufSize /\ Len(c.outBuf) <= BufSize
     /\ OutputEndsRightly(c)}

Tunnels ==
  {c \in Record({0}, Byte, Byte) :
     /\ Len(c.inBuf) <= TunnelSize /\ Len(c.outBuf) <= TunnelSize
     /\ "DELETE" \notin c.state}

Wires == {w \in Seq(Byte) : Len(w) <= WireSize}

Queues == {q \in Seq(Commands) : Len(q) <= QueueSize}

Stacks == {f \in Seq(Id) : Len(f) <= MaxId}

MemoryInv ==
  /\ phase \in [Node -> Phase]
  /\ conns \in [Node -> [Session -> Connections \cup {NoConn}]]
  /\ tun \in [Node -> Tunnels]
  /\ wire \in [Node -> Wires]
  /\ freeIds \in Stacks
  /\ queue \in [Node -> Queues]
  /\ sendingTo \in [Node -> 0..MaxId]
  /\ current \in [Node -> 0..MaxId]
  /\ sorted \in [Node -> [Id -> 0..Sessions]]
  /\ visited \in [Node -> Nat]
  /\ signalled \in [Node -> BOOLEAN]
  /\ accepted \in 0..Sessions
  /\ sent \in [Node -> [Session -> Nat]]
  /\ got \in [Node -> [Session -> Seq(Data)]]

(* update's array points at connections that are there and have names, and  *)
(* only while update runs through it.                                       *)
ArrayRight(n) ==
  \A i \in Id : sorted[n][i] # NoSession =>
    /\ phase[n] \in {"state", "recv", "cmds", "data"}
    /\ conns[n][sorted[n][i]] # NoConn
    /\ conns[n][sorted[n][i]].id \in Id

ArrayInv == \A n \in Node : ArrayRight(n)

(* What is on its way to n begins where n has left off, and a node that     *)
(* runs puts whole frames behind it.                                        *)
Expected(n) == IF sendingTo[n] = 0 THEN "start" ELSE "data"

Flows(n, m) ==
  \E p, q, r \in Expecting :
    /\ Parses(tun[n].inBuf, Expected(n), p)
    /\ Parses(wire[m], p, q)
    /\ Parses(tun[m].outBuf, q, r)
    /\ IsRunning(m) => r = "start"

FrameInv == \A n \in Node : IsRunning(n) => Flows(n, Other(n))

ServerInv ==
  /\ \A s \in Live("server") : conns["server"][s].id \in Id
  /\ ServerIdsUnique

BadStart == "starting byte"

NoBadStart == \A n \in Node : phase[n] # BadStart

Inv == MemoryInv /\ ArrayInv /\ FrameInv /\ ServerInv /\ NoBadStart
-----------------------------------------------------------------------------
(* What the manager and the controller do to one connection                 *)

LEMMA NoConnIsNone ==
  NoConn \notin Connections /\ NoConn \notin Tunnels
<1>1. DOMAIN NoConn = {"id"}
  BY DEF NoConn
<1>2. \A I, A, B : \A c \in Record(I, A, B) : "state" \in DOMAIN c
  BY DEF Record
<1> QED
  BY <1>1, <1>2 DEF Connections, Tunnels

(* A record is made of its fields.                                          *)
LEMMA Fields ==
  ASSUME NEW I, NEW A, NEW B, NEW i \in I, NEW st \in SUBSET Flag,
         NEW in \in SUBSET Flag, NEW out \in SUBSET Flag, NEW a \in Seq(A),
         NEW b \in Seq(B), NEW ev \in SUBSET Event
  PROVE  [id |-> i, state |-> st, in |-> in, out |-> out, inBuf |-> a, outBuf |-> b,
          events |-> ev] \in Record(I, A, B)
BY DEF Record

LEMMA RecordFields ==
  ASSUME NEW I, NEW A, NEW B, NEW c \in Record(I, A, B)
  PROVE  /\ c = [id |-> c.id, state |-> c.state, in |-> c.in, out |-> c.out,
                 inBuf |-> c.inBuf, outBuf |-> c.outBuf, events |-> c.events]
         /\ c.id \in I /\ c.state \in SUBSET Flag /\ c.in \in SUBSET Flag
         /\ c.out \in SUBSET Flag /\ c.inBuf \in Seq(A) /\ c.outBuf \in Seq(B)
         /\ c.events \in SUBSET Event
BY DEF Record

LEMMA CloseSocketsKeeps ==
  ASSUME NEW I, NEW A, NEW B, NEW c \in Record(I, A, B)
  PROVE  /\ CloseSockets(c) \in Record(I, A, B)
         /\ CloseSockets(c).id = c.id
         /\ CloseSockets(c).inBuf = c.inBuf /\ CloseSockets(c).outBuf = c.outBuf
         /\ CloseSockets(c).state \subseteq c.state \cup {"CLOSED"}
         /\ c.state \subseteq CloseSockets(c).state
<1>1. \A f \in SUBSET Flag : f \cup {"CLOSED"} \in SUBSET Flag /\ CloseDirection(f) \in SUBSET Flag
  BY DEF Flag, CloseDirection
<1>2. /\ c.id \in I /\ c.state \in SUBSET Flag /\ c.in \in SUBSET Flag
      /\ c.out \in SUBSET Flag /\ c.inBuf \in Seq(A) /\ c.outBuf \in Seq(B)
      /\ c.events \in SUBSET Event
  BY RecordFields
<1>3. CASE "CLOSED" \in c.state
  BY <1>3 DEF CloseSockets
<1>4. CASE "CLOSED" \notin c.state /\ ShouldCloseSocket(c)
  <2> DEFINE d == [id |-> c.id, state |-> c.state \cup {"CLOSED"}, in |-> c.in \cup {"CLOSED"},
                   out |-> c.out \cup {"CLOSED"}, inBuf |-> c.inBuf, outBuf |-> c.outBuf,
                   events |-> {}]
  <2>1. CloseSockets(c) = d
    BY <1>4 DEF CloseSockets, Record
  <2>2. d \in Record(I, A, B)
    BY <1>1, <1>2 DEF Record
  <2> QED
    BY <2>1, <2>2
<1>5. CASE "CLOSED" \notin c.state /\ ~ShouldCloseSocket(c)
  <2> DEFINE d == [id |-> c.id, state |-> c.state, in |-> CloseDirection(c.in),
                   out |-> CloseDirection(c.out), inBuf |-> c.inBuf, outBuf |-> c.outBuf,
                   events |-> c.events]
  <2>1. CloseSockets(c) = d
    BY <1>5 DEF CloseSockets, Record
  <2>2. d \in Record(I, A, B)
    BY <1>1, <1>2 DEF Record
  <2> QED
    BY <2>1, <2>2
<1> QED
  BY <1>3, <1>4, <1>5

LEMMA CloseSocketsEndsRightly ==
  ASSUME NEW c \in Connections
  PROVE  OutputEndsRightly(CloseSockets(c)) \/ ShouldDelete(CloseSockets(c))
<1> DEFINE d == CloseSockets(c)
<1>1. c \in Record(Id \cup {NoId}, Data, Data) /\ OutputEndsRightly(c)
  BY DEF Connections
<1>2. d.outBuf = c.outBuf /\ d.state \subseteq c.state \cup {"CLOSED"}
  BY <1>1, CloseSocketsKeeps
<1>3. CASE "CLOSED" \in c.state
  BY <1>1, <1>3 DEF CloseSockets
<1>4. CASE "CLOSED" \notin c.state /\ ShouldCloseSocket(c)
  <2>1. d.out = c.out \cup {"CLOSED"} /\ d.state = c.state \cup {"CLOSED"}
    BY <1>1, <1>4 DEF CloseSockets, Record
  <2>2. CASE "DELETE" \in c.state
    BY <2>1, <2>2 DEF ShouldDelete
  <2>3. CASE "DELETE" \notin c.state
    <3>1. "EOF" \in c.out \/ "DELETE" \in c.out
      BY <1>1, <1>4, <2>3 DEF ShouldCloseSocket, ShouldClose, IsAlive, OutputEndsRightly
    <3> QED
      BY <1>1, <1>2, <2>1, <3>1 DEF OutputEndsRightly
  <2> QED
    BY <2>2, <2>3
<1>5. CASE "CLOSED" \notin c.state /\ ~ShouldCloseSocket(c)
  <2>1. d.out = CloseDirection(c.out) /\ d.state = c.state
    BY <1>1, <1>5 DEF CloseSockets, Record
  <2> QED
    BY <1>1, <1>2, <2>1 DEF OutputEndsRightly, CloseDirection, ShouldClose
<1> QED
  BY <1>3, <1>4, <1>5

LEMMA SettleKeeps ==
  ASSUME NEW c \in Connections \cup {NoConn}
  PROVE  /\ Settle(c) \in Connections \cup {NoConn}
         /\ Settle(c) # NoConn => c # NoConn /\ Settle(c).id = c.id
<1> DEFINE d == CloseSockets(c)
<1>1. CASE c = NoConn
  BY <1>1 DEF Settle
<1>2. CASE c # NoConn
  <2>1. c \in Connections /\ c \in Record(Id \cup {NoId}, Data, Data)
        /\ Len(c.inBuf) <= BufSize /\ Len(c.outBuf) <= BufSize
    BY <1>2 DEF Connections
  <2>2. /\ d \in Record(Id \cup {NoId}, Data, Data) /\ d.id = c.id
        /\ d.inBuf = c.inBuf /\ d.outBuf = c.outBuf
    BY <2>1, CloseSocketsKeeps
  <2>3. OutputEndsRightly(d) \/ ShouldDelete(d)
    BY <2>1, CloseSocketsEndsRightly
  <2> HIDE DEF d
  <2>4. ~ShouldDelete(d) => d \in Connections
    BY <2>1, <2>2, <2>3 DEF Connections
  <2>5. Settle(c) = IF ShouldDelete(d) THEN NoConn ELSE d
    BY <1>2 DEF Settle, d
  <2> QED
    BY <1>2, <2>2, <2>4, <2>5
<1> QED
  BY <1>1, <1>2

LEMMA WatchOutputKeeps ==
  ASSUME NEW I, NEW A, NEW B, NEW c \in Record(I, A, B)
  PROVE  /\ WatchOutput(c) \in Record(I, A, B)
         /\ WatchOutput(c).id = c.id /\ WatchOutput(c).state = c.state
         /\ WatchOutput(c).out = c.out
         /\ WatchOutput(c).inBuf = c.inBuf /\ WatchOutput(c).outBuf = c.outBuf
<1>1. c.events \cup {"OUT"} \in SUBSET Event
  BY DEF Record, Event
<1> QED
  BY <1>1 DEF WatchOutput, Record

LEMMA BeforePollKeeps ==
  ASSUME NEW c \in Connections \cup {NoConn}
  PROVE  /\ BeforePoll(c) \in Connections \cup {NoConn}
         /\ BeforePoll(c) # NoConn => c # NoConn /\ BeforePoll(c).id = c.id
<1> DEFINE d == Settle(c)
<1>1. d \in Connections \cup {NoConn} /\ (d # NoConn => c # NoConn /\ d.id = c.id)
  BY SettleKeeps
<1> HIDE DEF d
<1>2. BeforePoll(c) = IF d = NoConn THEN NoConn ELSE WatchOutput(d)
  BY DEF BeforePoll, d
<1>3. CASE d # NoConn
  <2>1. d \in Connections /\ d \in Record(Id \cup {NoId}, Data, Data)
        /\ Len(d.inBuf) <= BufSize /\ Len(d.outBuf) <= BufSize /\ OutputEndsRightly(d)
    BY <1>1, <1>3 DEF Connections
  <2> DEFINE e == WatchOutput(d)
  <2>2. /\ e \in Record(Id \cup {NoId}, Data, Data) /\ e.id = d.id /\ e.state = d.state
        /\ e.out = d.out /\ e.inBuf = d.inBuf /\ e.outBuf = d.outBuf
    BY <2>1, WatchOutputKeeps
  <2> HIDE DEF e
  <2>3. e \in Connections
    BY <2>1, <2>2 DEF Connections, OutputEndsRightly
  <2> QED
    BY <1>1, <1>2, <1>3, <2>2, <2>3 DEF e
<1> QED
  BY <1>1, <1>2, <1>3

Received(c, bytes, r, capacity) == Receive(c, bytes, r = EndOfFile, capacity)

Transmitted(c, w) == Transmit(c, Moved(w), w = EndOfFile)

LEMMA ReceivedKeeps ==
  ASSUME NEW I, NEW A, NEW B, NEW c \in Record(I, A, B), NEW bytes \in Seq(A),
         NEW r \in Int, NEW capacity \in Nat
  PROVE  LET d == Received(c, bytes, r, capacity)
         IN  /\ d \in Record(I, A, B)
             /\ d.id = c.id /\ d.state = c.state /\ d.out = c.out /\ d.outBuf = c.outBuf
             /\ IF ~IsAlive(c.in) \/ IsStopped(c.state) THEN d.inBuf = c.inBuf
                ELSE d.inBuf = c.inBuf \o bytes
<1>1. /\ c.id \in I /\ c.state \in SUBSET Flag /\ c.in \in SUBSET Flag
      /\ c.out \in SUBSET Flag /\ c.inBuf \in Seq(A) /\ c.outBuf \in Seq(B)
      /\ c.events \in SUBSET Event
  BY RecordFields
<1>2. CASE ~IsAlive(c.in) \/ IsStopped(c.state)
  <2>1. Received(c, bytes, r, capacity) = c
    BY <1>2 DEF Receive, Received
  <2> QED
    BY <1>2, <2>1
<1>3. CASE ~(~IsAlive(c.in) \/ IsStopped(c.state))
  <2> DEFINE buf == c.inBuf \o bytes
             flags == IF r = EndOfFile THEN c.in \cup {"EOF"} ELSE c.in
             ev == IF Len(buf) = capacity \/ ~IsAlive(flags)
                   THEN c.events \ {"IN"} ELSE c.events \cup {"IN"}
             d == [id |-> c.id, state |-> c.state, in |-> flags, out |-> c.out,
                   inBuf |-> buf, outBuf |-> c.outBuf, events |-> ev]
  <2>1. buf \in Seq(A)
    BY <1>1, ConcatProperties
  <2>2. flags \in SUBSET Flag /\ ev \in SUBSET Event
    BY <1>1 DEF Flag, Event
  <2>3. Received(c, bytes, r, capacity) = [c EXCEPT !.inBuf = buf, !.in = flags, !.events = ev]
    BY <1>3 DEF Receive, Received
  <2> HIDE DEF buf, flags, ev
  <2>4. Received(c, bytes, r, capacity) = d
    BY <2>3 DEF Record
  <2>5. d \in Record(I, A, B)
    BY <1>1, <2>1, <2>2 DEF Record
  <2> QED
    BY <1>3, <2>4, <2>5 DEF buf
<1> QED
  BY <1>2, <1>3

LEMMA TransmittedKeeps ==
  ASSUME NEW I, NEW A, NEW B, NEW c \in Record(I, A, B), NEW w \in Int,
         Moved(w) \in 0..Len(c.outBuf)
  PROVE  LET d == Transmitted(c, w)
         IN  /\ d \in Record(I, A, B)
             /\ d.id = c.id /\ d.state = c.state /\ d.in = c.in /\ d.inBuf = c.inBuf
             /\ IF ~IsAlive(c.out) \/ IsStopped(c.state)
                THEN d.outBuf = c.outBuf /\ d.out = c.out
                ELSE /\ d.outBuf = SubSeq(c.outBuf, Moved(w) + 1, Len(c.outBuf))
                     /\ w = EndOfFile => d.out = c.out \cup {"EOF"}
                     /\ w # EndOfFile => d.out = c.out
<1>1. /\ c.id \in I /\ c.state \in SUBSET Flag /\ c.in \in SUBSET Flag
      /\ c.out \in SUBSET Flag /\ c.inBuf \in Seq(A) /\ c.outBuf \in Seq(B)
      /\ c.events \in SUBSET Event
  BY RecordFields
<1>2. CASE ~IsAlive(c.out) \/ IsStopped(c.state)
  <2>1. Transmitted(c, w) = c
    BY <1>2 DEF Transmit, Transmitted
  <2> QED
    BY <1>2, <2>1
<1>3. CASE ~(~IsAlive(c.out) \/ IsStopped(c.state))
  <2> DEFINE buf == SubSeq(c.outBuf, Moved(w) + 1, Len(c.outBuf))
             flags == IF w = EndOfFile THEN c.out \cup {"EOF"} ELSE c.out
             ev == IF buf = <<>> \/ ~IsAlive(flags)
                   THEN c.events \ {"OUT"} ELSE c.events \cup {"OUT"}
             d == [id |-> c.id, state |-> c.state, in |-> c.in, out |-> flags,
                   inBuf |-> c.inBuf, outBuf |-> buf, events |-> ev]
  <2>1. buf \in Seq(B)
    BY <1>1, SeqRest
  <2>2. flags \in SUBSET Flag /\ ev \in SUBSET Event
    BY <1>1 DEF Flag, Event
  <2>3. Transmitted(c, w) = [c EXCEPT !.outBuf = buf, !.out = flags, !.events = ev]
    BY <1>3 DEF Transmit, Transmitted
  <2> HIDE DEF buf, flags, ev
  <2>4. Transmitted(c, w) = d
    BY <2>3 DEF Record
  <2>5. d \in Record(I, A, B)
    BY <1>1, <2>1, <2>2 DEF Record
  <2> QED
    BY <1>3, <2>4, <2>5, SMTT(30) DEF buf, flags
<1> QED
  BY <1>2, <1>3

Joined(s, t) == s \o t

Rest(s, k) == SubSeq(s, k + 1, Len(s))

(* One poll serves a connection: what readv returned is behind its input,   *)
(* what writev took is gone from its output.                                *)
LEMMA ServeKeeps ==
  ASSUME NEW I, NEW A, NEW B, NEW c \in Record(I, A, B), NEW capacity \in Nat,
         NEW r \in Int, NEW w \in Int, NEW bytes \in Seq(A),
         CanReceive(c, capacity) \/ bytes = <<>>,
         Moved(w) \in 0..Len(c.outBuf), CanTransmit(c) \/ w = 0
  PROVE  LET d == Serve(c, bytes, r, w, capacity)
         IN  /\ d \in Record(I, A, B)
             /\ d.id = c.id /\ d.state = c.state
             /\ d.inBuf = Joined(c.inBuf, bytes)
             /\ d.outBuf = Rest(c.outBuf, Moved(w))
             /\ d.out = c.out \/ (w = EndOfFile /\ d.out = c.out \cup {"EOF"})
<1>1. c.state \in SUBSET Flag /\ c.inBuf \in Seq(A) /\ c.outBuf \in Seq(B)
  BY RecordFields
<1>2. Moved(0) = 0 /\ 0 # EndOfFile
  BY DEF Moved, EndOfFile
<1>3. c.inBuf \o <<>> = c.inBuf
  BY <1>1, ConcatEmptySeq
<1>4. SubSeq(c.outBuf, 0 + 1, Len(c.outBuf)) = c.outBuf
  BY <1>1, SubSeqFull
<1>5. CASE ~IsAlive(c.state)
  <2>1. Serve(c, bytes, r, w, capacity) = c
    BY <1>5 DEF Serve
  <2>2. bytes = <<>> /\ w = 0
    BY <1>5 DEF CanReceive, CanTransmit
  <2> QED
    BY <1>2, <1>3, <1>4, <2>1, <2>2 DEF Joined, Rest
<1>6. CASE IsAlive(c.state)
  <2> DEFINE d == Received(c, bytes, r, capacity)
             e == Transmitted(d, w)
  <2>1. /\ d \in Record(I, A, B)
        /\ d.id = c.id /\ d.state = c.state /\ d.out = c.out /\ d.outBuf = c.outBuf
        /\ IF ~IsAlive(c.in) \/ IsStopped(c.state) THEN d.inBuf = c.inBuf
           ELSE d.inBuf = c.inBuf \o bytes
    BY ReceivedKeeps
  <2>2. d.inBuf = c.inBuf \o bytes
    BY <1>3, <2>1 DEF CanReceive
  <2> HIDE DEF d
  <2>3. /\ e \in Record(I, A, B)
        /\ e.id = d.id /\ e.state = d.state /\ e.in = d.in /\ e.inBuf = d.inBuf
        /\ IF ~IsAlive(d.out) \/ IsStopped(d.state)
           THEN e.outBuf = d.outBuf /\ e.out = d.out
           ELSE /\ e.outBuf = SubSeq(d.outBuf, Moved(w) + 1, Len(d.outBuf))
                /\ w = EndOfFile => e.out = d.out \cup {"EOF"}
                /\ w # EndOfFile => e.out = d.out
    <3>1. Moved(w) \in 0..Len(d.outBuf)
      BY <2>1
    <3> QED
      BY <2>1, <3>1, TransmittedKeeps, SMTT(30)
  <2> HIDE DEF e
  <2>4. /\ e.outBuf = SubSeq(c.outBuf, Moved(w) + 1, Len(c.outBuf))
        /\ e.out = c.out \/ (w = EndOfFile /\ e.out = c.out \cup {"EOF"})
    <3>1. CASE CanTransmit(c)
      <4>1. IsAlive(c.out) /\ ~IsStopped(c.state)
        BY <3>1 DEF CanTransmit
      <4> QED
        BY <2>1, <2>3, <4>1
    <3>2. CASE w = 0
      BY <1>2, <1>4, <2>1, <2>3, <3>2
    <3> QED
      BY <3>1, <3>2
  <2>5. Serve(c, bytes, r, w, capacity) = e
    BY <1>6 DEF Serve, Received, Transmitted, d, e
  <2> QED
    BY <2>1, <2>2, <2>3, <2>4, <2>5 DEF Joined, Rest
<1> QED
  BY <1>5, <1>6

LEMMA ServeConnection ==
  ASSUME NEW c \in Connections, NEW r \in Int, NEW w \in Int, NEW bytes \in Seq(Data),
         CanReceive(c, BufSize) \/ bytes = <<>>, Len(c.inBuf) + Len(bytes) <= BufSize,
         Moved(w) \in 0..Len(c.outBuf), CanTransmit(c) \/ w = 0
  PROVE  /\ Serve(c, bytes, r, w, BufSize) \in Connections
         /\ Serve(c, bytes, r, w, BufSize).id = c.id
<1> DEFINE d == Serve(c, bytes, r, w, BufSize)
<1>1. /\ c \in Record(Id \cup {NoId}, Data, Data) /\ OutputEndsRightly(c)
      /\ Len(c.inBuf) <= BufSize /\ Len(c.outBuf) <= BufSize /\ BufSize \in Nat
  BY Constants DEF Connections
<1>2. c.inBuf \in Seq(Data) /\ c.outBuf \in Seq(Data) /\ c.out \in SUBSET Flag
  BY <1>1, RecordFields
<1>3. /\ d \in Record(Id \cup {NoId}, Data, Data)
      /\ d.id = c.id /\ d.state = c.state
      /\ d.inBuf = c.inBuf \o bytes
      /\ d.outBuf = SubSeq(c.outBuf, Moved(w) + 1, Len(c.outBuf))
      /\ d.out = c.out \/ (w = EndOfFile /\ d.out = c.out \cup {"EOF"})
  <2>1. d \in Record(Id \cup {NoId}, Data, Data)
    BY <1>1, ServeKeeps
  <2>2. d.id = c.id /\ d.state = c.state
    BY <1>1, ServeKeeps
  <2>3. d.inBuf = Joined(c.inBuf, bytes) /\ d.outBuf = Rest(c.outBuf, Moved(w))
    BY <1>1, ServeKeeps
  <2>5. d.out = c.out \/ (w = EndOfFile /\ d.out = c.out \cup {"EOF"})
    BY <1>1, ServeKeeps
  <2> HIDE DEF d
  <2> QED
    BY <2>1, <2>2, <2>3, <2>5 DEF Joined, Rest
<1> HIDE DEF d
<1>4. Len(d.inBuf) <= BufSize
  BY <1>1, <1>2, <1>3, ConcatProperties
<1>5. Len(d.outBuf) <= BufSize
  <2>1. Len(d.outBuf) = Len(c.outBuf) - Moved(w) /\ Len(c.outBuf) \in Nat
    BY <1>2, <1>3, SeqRest, SMTT(30)
  <2> QED
    BY <1>1, <2>1
<1>6. OutputEndsRightly(d)
  <2>1. CASE w = 0
    <3>1. Moved(w) = 0 /\ w # EndOfFile
      BY <2>1 DEF Moved, EndOfFile
    <3>2. d.outBuf = c.outBuf /\ d.out = c.out
      BY <1>2, <1>3, <3>1, SubSeqFull
    <3> QED
      BY <1>1, <1>3, <3>2 DEF OutputEndsRightly
  <2>2. CASE w = EndOfFile
    <3>1. Moved(w) = 0 /\ w # 0
      BY <2>2 DEF Moved, EndOfFile
    <3>2. d.outBuf = c.outBuf /\ c.outBuf # <<>>
      BY <1>2, <1>3, <3>1, SubSeqFull DEF CanTransmit
    <3> QED
      BY <1>1, <1>3, <3>2 DEF OutputEndsRightly
  <2>3. CASE w # 0 /\ w # EndOfFile
    <3>1. "EOF" \notin c.out /\ "CLOSED" \notin c.out /\ d.out = c.out
      BY <1>3, <2>3 DEF CanTransmit, IsAlive
    <3> QED
      BY <1>1, <1>3, <3>1 DEF OutputEndsRightly
  <2> QED
    BY <2>1, <2>2, <2>3
<1>7. d \in Connections
  BY <1>3, <1>4, <1>5, <1>6 DEF Connections
<1> QED
  BY <1>3, <1>7 DEF d

LEMMA ServeTunnel ==
  ASSUME NEW c \in Tunnels, NEW r \in Int, NEW w \in Int, NEW bytes \in Seq(Byte),
         CanReceive(c, TunnelSize) \/ bytes = <<>>, Len(c.inBuf) + Len(bytes) <= TunnelSize,
         Moved(w) \in 0..Len(c.outBuf), CanTransmit(c) \/ w = 0
  PROVE  LET d == Serve(c, bytes, r, w, TunnelSize)
         IN  /\ d \in Tunnels
             /\ d.inBuf = Joined(c.inBuf, bytes)
             /\ d.outBuf = Rest(c.outBuf, Moved(w))
<1> DEFINE d == Serve(c, bytes, r, w, TunnelSize)
<1>1. /\ c \in Record({0}, Byte, Byte) /\ "DELETE" \notin c.state
      /\ Len(c.inBuf) <= TunnelSize /\ Len(c.outBuf) <= TunnelSize /\ TunnelSize \in Nat
  BY Constants DEF Tunnels
<1>2. c.inBuf \in Seq(Byte) /\ c.outBuf \in Seq(Byte)
  BY <1>1, RecordFields
<1>3. /\ d \in Record({0}, Byte, Byte)
      /\ d.state = c.state
      /\ d.inBuf = c.inBuf \o bytes
      /\ d.outBuf = SubSeq(c.outBuf, Moved(w) + 1, Len(c.outBuf))
  <2>1. d \in Record({0}, Byte, Byte)
    BY <1>1, ServeKeeps
  <2>2. d.state = c.state /\ d.inBuf = Joined(c.inBuf, bytes) /\ d.outBuf = Rest(c.outBuf, Moved(w))
    BY <1>1, ServeKeeps
  <2> HIDE DEF d
  <2> QED
    BY <2>1, <2>2 DEF Joined, Rest
<1> HIDE DEF d
<1>4. Len(d.inBuf) <= TunnelSize
  BY <1>1, <1>2, <1>3, ConcatProperties
<1>5. Len(d.outBuf) <= TunnelSize
  <2>1. Len(d.outBuf) = Len(c.outBuf) - Moved(w) /\ Len(c.outBuf) \in Nat
    BY <1>2, <1>3, SeqRest
  <2> QED
    BY <1>1, <2>1
<1>6. d \in Tunnels
  BY <1>1, <1>3, <1>4, <1>5 DEF Tunnels
<1> QED
  BY <1>3, <1>6 DEF d, Joined, Rest

(* The tunnel's connection is never deleted.                                *)
LEMMA SettleTunnel ==
  ASSUME NEW c \in Tunnels
  PROVE  Settle(c) \in Tunnels /\ Settle(c).inBuf = c.inBuf /\ Settle(c).outBuf = c.outBuf
<1> DEFINE d == CloseSockets(c)
<1>1. /\ c \in Record({0}, Byte, Byte) /\ "DELETE" \notin c.state
      /\ Len(c.inBuf) <= TunnelSize /\ Len(c.outBuf) <= TunnelSize
  BY DEF Tunnels
<1>2. /\ d \in Record({0}, Byte, Byte) /\ d.inBuf = c.inBuf /\ d.outBuf = c.outBuf
      /\ d.state \subseteq c.state \cup {"CLOSED"}
  BY <1>1, CloseSocketsKeeps
<1>3. Settle(c) = d
  BY <1>1, <1>2, NoConnIsNone DEF Settle, ShouldDelete
<1>4. d \in Tunnels
  BY <1>1, <1>2 DEF Tunnels
<1> QED
  BY <1>2, <1>3, <1>4

LEMMA BeforePollTunnel ==
  ASSUME NEW c \in Tunnels
  PROVE  /\ BeforePoll(c) \in Tunnels
         /\ BeforePoll(c).inBuf = c.inBuf /\ BeforePoll(c).outBuf = c.outBuf
<1> DEFINE d == Settle(c)
           e == WatchOutput(d)
<1>1. d \in Tunnels /\ d.inBuf = c.inBuf /\ d.outBuf = c.outBuf
  BY SettleTunnel
<1> HIDE DEF d
<1>2. d \in Record({0}, Byte, Byte)
  BY <1>1 DEF Tunnels
<1>3. e \in Record({0}, Byte, Byte) /\ e.state = d.state /\ e.inBuf = d.inBuf /\ e.outBuf = d.outBuf
  BY <1>2, WatchOutputKeeps
<1>4. BeforePoll(c) = e
  BY <1>1, NoConnIsNone DEF BeforePoll, d
<1> HIDE DEF e
<1>5. e \in Tunnels
  BY <1>1, <1>3 DEF Tunnels
<1> QED
  BY <1>1, <1>3, <1>4, <1>5

(* What Reports and Report rest on: a connection is never reported for a    *)
(* direction it can not write to any more.                                  *)
LEMMA NextReportIsSent ==
  ASSUME NEW c \in Connections, NextReport(c) # "none"
  PROVE  NextReport(c) \in {"NEW", "CLOSE", "CLOSE_SRC_TO_DST"}
<1>1. OutputEndsRightly(c)
  BY DEF Connections
<1>2. ~ShouldCloseOut(c)
  BY <1>1 DEF OutputEndsRightly, ShouldCloseOut
<1> QED
  BY <1>2 DEF NextReport

LEMMA AfterReportKeeps ==
  ASSUME NEW c \in Connections, NEW cmd \in {"NEW", "CLOSE", "CLOSE_SRC_TO_DST"}
  PROVE  AfterReport(c, cmd) \in Connections /\ AfterReport(c, cmd).id = c.id
<1>1. /\ c \in Record(Id \cup {NoId}, Data, Data) /\ OutputEndsRightly(c)
      /\ Len(c.inBuf) <= BufSize /\ Len(c.outBuf) <= BufSize
  BY DEF Connections
<1>2. /\ c.state \cup {"DELETE"} \in SUBSET Flag /\ c.in \cup {"DELETE"} \in SUBSET Flag
      /\ (c.state \ {"NEW"}) \cup {"STOPPED"} \in SUBSET Flag
  BY <1>1, RecordFields DEF Flag
<1> DEFINE d == AfterReport(c, cmd)
<1>3. CASE cmd = "NEW"
  <2>1. d = [c EXCEPT !.state = (@ \ {"NEW"}) \cup {"STOPPED"}]
    BY <1>3 DEF AfterReport
  <2>2. /\ d \in Record(Id \cup {NoId}, Data, Data) /\ d.id = c.id /\ d.out = c.out
        /\ d.state = (c.state \ {"NEW"}) \cup {"STOPPED"}
        /\ d.inBuf = c.inBuf /\ d.outBuf = c.outBuf
    BY <1>1, <1>2, <2>1 DEF Record
  <2> HIDE DEF d
  <2>3. OutputEndsRightly(d)
    BY <1>1, <2>2 DEF OutputEndsRightly
  <2>4. d \in Connections
    BY <1>1, <2>2, <2>3 DEF Connections
  <2> QED
    BY <2>2, <2>4 DEF d
<1>4. CASE cmd = "CLOSE"
  <2>1. d = [c EXCEPT !.state = @ \cup {"DELETE"}]
    BY <1>4 DEF AfterReport
  <2>2. /\ d \in Record(Id \cup {NoId}, Data, Data) /\ d.id = c.id /\ d.out = c.out
        /\ d.state = c.state \cup {"DELETE"}
        /\ d.inBuf = c.inBuf /\ d.outBuf = c.outBuf
    BY <1>1, <1>2, <2>1 DEF Record
  <2> HIDE DEF d
  <2>3. OutputEndsRightly(d)
    BY <1>1, <2>2 DEF OutputEndsRightly
  <2>4. d \in Connections
    BY <1>1, <2>2, <2>3 DEF Connections
  <2> QED
    BY <2>2, <2>4 DEF d
<1>5. CASE cmd = "CLOSE_SRC_TO_DST"
  <2>1. d = [c EXCEPT !.in = @ \cup {"DELETE"}]
    BY <1>5 DEF AfterReport
  <2>2. /\ d \in Record(Id \cup {NoId}, Data, Data) /\ d.id = c.id /\ d.out = c.out
        /\ d.state = c.state
        /\ d.inBuf = c.inBuf /\ d.outBuf = c.outBuf
    BY <1>1, <1>2, <2>1 DEF Record
  <2> HIDE DEF d
  <2>3. OutputEndsRightly(d)
    BY <1>1, <2>2 DEF OutputEndsRightly
  <2>4. d \in Connections
    BY <1>1, <2>2, <2>3 DEF Connections
  <2> QED
    BY <2>2, <2>4 DEF d
<1> QED
  BY <1>3, <1>4, <1>5

LEMMA ObeyKeeps ==
  ASSUME NEW c \in Connections, NEW cmd \in Cmd, cmd # "NEW"
  PROVE  Obey(c, cmd) \in Connections /\ Obey(c, cmd).id = c.id
<1>1. /\ c \in Record(Id \cup {NoId}, Data, Data) /\ OutputEndsRightly(c)
      /\ Len(c.inBuf) <= BufSize /\ Len(c.outBuf) <= BufSize
  BY DEF Connections
<1>2. \A f \in SUBSET Flag : f \cup {"DELETE"} \in SUBSET Flag /\ f \ {"STOPPED"} \in SUBSET Flag
  BY DEF Flag
<1> DEFINE d == Obey(c, cmd)
<1>3. CASE cmd = "CLOSE"
  <2>1. d = [c EXCEPT !.state = @ \cup {"DELETE"}]
    BY <1>3 DEF Obey
  <2>2. /\ d \in Record(Id \cup {NoId}, Data, Data) /\ d.id = c.id /\ d.out = c.out
        /\ d.state = c.state \cup {"DELETE"}
        /\ d.inBuf = c.inBuf /\ d.outBuf = c.outBuf
    BY <1>1, <1>2, <2>1 DEF Record
  <2> HIDE DEF d
  <2>3. OutputEndsRightly(d)
    BY <1>1, <2>2 DEF OutputEndsRightly
  <2>4. d \in Connections
    BY <1>1, <2>2, <2>3 DEF Connections
  <2> QED
    BY <2>2, <2>4 DEF d
<1>4. CASE cmd = "CLOSE_SRC_TO_DST"
  <2>1. d = [c EXCEPT !.out = @ \cup {"DELETE"}]
    BY <1>4 DEF Obey
  <2>2. /\ d \in Record(Id \cup {NoId}, Data, Data) /\ d.id = c.id
        /\ d.out = c.out \cup {"DELETE"} /\ d.state = c.state
        /\ d.inBuf = c.inBuf /\ d.outBuf = c.outBuf
    BY <1>1, <1>2, <2>1 DEF Record
  <2> HIDE DEF d
  <2>3. OutputEndsRightly(d)
    BY <1>1, <2>2 DEF OutputEndsRightly
  <2>4. d \in Connections
    BY <1>1, <2>2, <2>3 DEF Connections
  <2> QED
    BY <2>2, <2>4 DEF d
<1>5. CASE cmd = "ACK"
  <2>1. d = [c EXCEPT !.state = @ \ {"STOPPED"}]
    BY <1>5 DEF Obey
  <2>2. /\ d \in Record(Id \cup {NoId}, Data, Data) /\ d.id = c.id /\ d.out = c.out
        /\ d.state = c.state \ {"STOPPED"}
        /\ d.inBuf = c.inBuf /\ d.outBuf = c.outBuf
    BY <1>1, <1>2, <2>1 DEF Record
  <2> HIDE DEF d
  <2>3. OutputEndsRightly(d)
    BY <1>1, <2>2 DEF OutputEndsRightly
  <2>4. d \in Connections
    BY <1>1, <2>2, <2>3 DEF Connections
  <2> QED
    BY <2>2, <2>4 DEF d
<1> QED
  BY <1>3, <1>4, <1>5 DEF Cmd

LEMMA MakeConnectionIsOne ==
  ASSUME NEW i \in Id \cup {NoId}, NEW st \in SUBSET {"NEW"}
  PROVE  MakeConnection(i, st) \in Connections /\ MakeConnection(i, st).id = i
<1> DEFINE d == MakeConnection(i, st)
<1>1. <<>> \in Seq(Data) /\ Len(<<>>) = 0
  BY EmptySeq
<1>2. st \in SUBSET Flag /\ {} \in SUBSET Flag /\ {"IN"} \in SUBSET Event
  BY DEF Flag, Event
<1>3. /\ d \in Record(Id \cup {NoId}, Data, Data) /\ d.id = i /\ d.out = {} /\ d.state = st
      /\ d.inBuf = <<>> /\ d.outBuf = <<>>
  BY <1>1, <1>2 DEF MakeConnection, Record
<1> HIDE DEF d
<1>4. d \in Connections
  BY <1>1, <1>3, Constants DEF Connections, OutputEndsRightly
<1> QED
  BY <1>3, <1>4 DEF d

(* Bytes come out of the tunnel into the output, and from the input into    *)
(* the tunnel.                                                              *)
LEMMA GainKeeps ==
  ASSUME NEW c \in Connections, NEW bytes \in Seq(Data), Len(c.outBuf) + Len(bytes) <= BufSize
  PROVE  LET d == [c EXCEPT !.outBuf = @ \o bytes]
         IN  d \in Connections /\ d.id = c.id
<1> DEFINE buf == c.outBuf \o bytes
           d == [c EXCEPT !.outBuf = buf]
<1>1. /\ c \in Record(Id \cup {NoId}, Data, Data) /\ OutputEndsRightly(c)
      /\ Len(c.inBuf) <= BufSize /\ Len(c.outBuf) <= BufSize
  BY DEF Connections
<1>2. c.outBuf \in Seq(Data)
  BY <1>1, RecordFields
<1>3. /\ buf \in Seq(Data) /\ Len(buf) = Len(c.outBuf) + Len(bytes)
      /\ c.outBuf # <<>> => buf # <<>>
  <2>1. buf \in Seq(Data) /\ Len(buf) = Len(c.outBuf) + Len(bytes)
    BY <1>2, ConcatProperties
  <2>2. ASSUME c.outBuf # <<>>
        PROVE  buf # <<>>
    <3>1. Len(c.outBuf) > 0 /\ Len(c.outBuf) \in Nat /\ Len(bytes) \in Nat
      BY <1>2, <2>2, EmptySeq
    <3>2. Len(buf) # 0
      BY <2>1, <3>1
    <3> QED
      BY <3>2, EmptySeq
  <2> QED
    BY <2>1, <2>2
<1> HIDE DEF buf
<1>4. /\ d \in Record(Id \cup {NoId}, Data, Data) /\ d.id = c.id /\ d.out = c.out
      /\ d.state = c.state /\ d.inBuf = c.inBuf /\ d.outBuf = buf
  BY <1>1, <1>3 DEF Record
<1>5. OutputEndsRightly(d)
  BY <1>1, <1>3, <1>4 DEF OutputEndsRightly
<1>6. d \in Connections
  <2> HIDE DEF d
  <2> QED
    BY <1>1, <1>3, <1>4, <1>5 DEF Connections
<1> QED
  BY <1>4, <1>6 DEF buf

LEMMA DropKeeps ==
  ASSUME NEW c \in Connections, NEW m \in 0..Len(c.inBuf)
  PROVE  LET d == [c EXCEPT !.inBuf = SubSeq(c.inBuf, m + 1, Len(c.inBuf))]
         IN  d \in Connections /\ d.id = c.id
<1> DEFINE buf == SubSeq(c.inBuf, m + 1, Len(c.inBuf))
           d == [c EXCEPT !.inBuf = buf]
<1>1. /\ c \in Record(Id \cup {NoId}, Data, Data) /\ OutputEndsRightly(c)
      /\ Len(c.inBuf) <= BufSize /\ Len(c.outBuf) <= BufSize
  BY DEF Connections
<1>2. c.inBuf \in Seq(Data) /\ Len(c.inBuf) \in Nat
  BY <1>1, RecordFields
<1>3. buf \in Seq(Data) /\ Len(buf) = Len(c.inBuf) - m
  BY <1>2, SeqRest
<1>4. Len(buf) <= BufSize
  BY <1>1, <1>2, <1>3, Constants
<1> HIDE DEF buf
<1>5. /\ d \in Record(Id \cup {NoId}, Data, Data) /\ d.id = c.id /\ d.out = c.out
      /\ d.state = c.state /\ d.inBuf = buf /\ d.outBuf = c.outBuf
  BY <1>1, <1>3 DEF Record
<1>6. OutputEndsRightly(d)
  BY <1>1, <1>5 DEF OutputEndsRightly
<1>7. d \in Connections
  <2> HIDE DEF d
  <2> QED
    BY <1>1, <1>4, <1>5, <1>6 DEF Connections
<1> QED
  BY <1>5, <1>7 DEF buf
-----------------------------------------------------------------------------
(* What a step leaves as it was                                             *)

LEMMA ArrayKept ==
  ASSUME NEW n \in Node, MemoryInv, ArrayRight(n),
         \A i \in Id : sorted'[n][i] = sorted[n][i] \/ sorted'[n][i] = NoSession,
         phase'[n] = phase[n] \/ phase'[n] \in {"state", "recv", "cmds", "data"},
         \A s \in Session : conns[n][s] # NoConn /\ conns[n][s].id \in Id =>
                              conns'[n][s] # NoConn /\ conns'[n][s].id \in Id
  PROVE  ArrayRight(n)'
<1> SUFFICES ASSUME NEW i \in Id, sorted'[n][i] # NoSession
             PROVE  /\ phase'[n] \in {"state", "recv", "cmds", "data"}
                    /\ conns'[n][sorted'[n][i]] # NoConn
                    /\ conns'[n][sorted'[n][i]].id \in Id
  BY DEF ArrayRight
<1>1. sorted[n][i] \in 0..Sessions /\ sorted'[n][i] = sorted[n][i]
  BY DEF MemoryInv
<1>2. sorted[n][i] \in Session
  BY <1>1, Constants DEF Session, NoSession
<1>3. /\ phase[n] \in {"state", "recv", "cmds", "data"}
      /\ conns[n][sorted[n][i]] # NoConn /\ conns[n][sorted[n][i]].id \in Id
  BY <1>1 DEF ArrayRight
<1> QED
  BY <1>1, <1>2, <1>3

LEMMA ArrayEmpty ==
  ASSUME NEW n \in Node, sorted'[n] = [i \in Id |-> NoSession]
  PROVE  ArrayRight(n)'
BY DEF ArrayRight

(* A connection of the server that is there after a step was there before   *)
(* it, by the same name.                                                    *)
LEMMA ServerKept ==
  ASSUME ServerInv,
         \A s \in Session : conns'["server"][s] # NoConn =>
           conns["server"][s] # NoConn /\ conns'["server"][s].id = conns["server"][s].id
  PROVE  ServerInv'
BY DEF ServerInv, ServerIdsUnique, Live

LEMMA FlowsKept ==
  ASSUME NEW n \in Node, NEW m \in Node, Flows(n, m),
         tun'[n].inBuf = tun[n].inBuf, tun'[m].outBuf = tun[m].outBuf,
         wire'[m] = wire[m], sendingTo'[n] = sendingTo[n],
         IsRunning(m)' => IsRunning(m)
  PROVE  Flows(n, m)'
BY DEF Flows, Expected

(* A step that touches neither the tunnel nor what the receivers expect.    *)
LEMMA FramesKept ==
  ASSUME FrameInv, tun' = tun, wire' = wire, sendingTo' = sendingTo,
         \A n \in Node : IsRunning(n)' => IsRunning(n)
  PROVE  FrameInv'
<1> SUFFICES ASSUME NEW n \in Node, IsRunning(n)'
             PROVE  Flows(n, Other(n))'
  BY DEF FrameInv
<1>1. Other(n) \in Node /\ IsRunning(n)
  BY Nodes
<1>2. Flows(n, Other(n))
  BY <1>1 DEF FrameInv
<1> QED
  BY <1>1, <1>2, FlowsKept

LEMMA TunnelsMade ==
  ASSUME NEW st \in SUBSET {"CLOSED"}
  PROVE  /\ MakeConnection(0, st) \in Tunnels
         /\ MakeConnection(0, st).inBuf = <<>> /\ MakeConnection(0, st).outBuf = <<>>
<1> DEFINE d == MakeConnection(0, st)
<1>1. <<>> \in Seq(Byte) /\ Len(<<>>) = 0
  BY EmptySeq
<1>2. st \in SUBSET Flag /\ {} \in SUBSET Flag /\ {"IN"} \in SUBSET Event
  BY DEF Flag, Event
<1>3. /\ d \in Record({0}, Byte, Byte) /\ d.state = st /\ d.inBuf = <<>> /\ d.outBuf = <<>>
  BY <1>1, <1>2 DEF MakeConnection, Record
<1> HIDE DEF d
<1>4. d \in Tunnels
  BY <1>1, <1>3, Constants DEF Tunnels
<1> QED
  BY <1>3, <1>4 DEF d
-----------------------------------------------------------------------------
(* The steps                                                                *)

LEMMA InitInv == Init => Inv
<1> SUFFICES ASSUME Init
             PROVE  Inv
  OBVIOUS
<1>1. MakeConnection(0, {}) \in Tunnels
      /\ MakeConnection(0, {}).inBuf = <<>> /\ MakeConnection(0, {}).outBuf = <<>>
  BY TunnelsMade
<1>2. <<>> \in Seq(Byte) /\ <<>> \in Seq(Commands) /\ <<>> \in Seq(Data) /\ Len(<<>>) = 0
  BY EmptySeq
<1>3. MemoryInv
  <2>1. phase \in [Node -> Phase]
    BY DEF Init, Phase
  <2>2. conns \in [Node -> [Session -> Connections \cup {NoConn}]]
    BY DEF Init
  <2>3. tun \in [Node -> Tunnels]
    BY <1>1 DEF Init
  <2>4. wire \in [Node -> Wires] /\ queue \in [Node -> Queues]
    <3>1. <<>> \in Wires /\ <<>> \in Queues
      BY <1>2, Constants DEF Wires, Queues
    <3> QED
      BY <3>1 DEF Init
  <2>5. freeIds \in Stacks
    <3>1. freeIds = [i \in 1..MaxId |-> MaxId + 1 - i] /\ MaxId \in Nat
      BY Constants DEF Init, Id
    <3>2. \A i \in 1..MaxId : MaxId + 1 - i \in Id
      BY <3>1 DEF Id
    <3>3. freeIds \in [1..MaxId -> Id]
      BY <3>1, <3>2
    <3>4. freeIds \in Seq(Id) /\ Len(freeIds) = MaxId
      BY <3>1, <3>3
    <3> QED
      BY <3>1, <3>4 DEF Stacks
  <2>6. /\ sendingTo \in [Node -> 0..MaxId] /\ current \in [Node -> 0..MaxId]
        /\ visited \in [Node -> Nat] /\ signalled \in [Node -> BOOLEAN]
        /\ accepted \in 0..Sessions
    BY Constants DEF Init
  <2>7. sorted \in [Node -> [Id -> 0..Sessions]]
    BY Constants DEF Init, NoSession
  <2>8. sent \in [Node -> [Session -> Nat]]
    BY DEF Init
  <2>9. got \in [Node -> [Session -> Seq(Data)]]
    BY <1>2 DEF Init
  <2> QED
    BY <2>1, <2>2, <2>3, <2>4, <2>5, <2>6, <2>7, <2>8, <2>9 DEF MemoryInv
<1>4. ArrayInv
  BY DEF ArrayInv, ArrayRight, Init
<1>5. FrameInv
  <2> SUFFICES ASSUME NEW n \in Node
               PROVE  Flows(n, Other(n))
    BY DEF FrameInv
  <2>1. Other(n) \in Node
    BY Nodes
  <2>2. tun[n].inBuf = <<>> /\ wire[Other(n)] = <<>> /\ tun[Other(n)].outBuf = <<>>
        /\ Expected(n) = "start"
    BY <1>1, <2>1 DEF Init, Expected
  <2>3. "start" \in Expecting
    BY DEF Expecting
  <2>4. Parses(<<>>, "start", "start")
    BY <2>3, ParsesNothing
  <2> QED
    BY <2>2, <2>3, <2>4 DEF Flows
<1>6. ServerInv
  BY DEF Init, ServerInv, ServerIdsUnique, Live, Node
<1>7. NoBadStart
  <2>1. \A n \in Node : phase[n] = "enter"
    BY DEF Init
  <2>2. "enter" # BadStart
    BY Zenon DEF BadStart
  <2> QED
    BY <2>1, <2>2 DEF NoBadStart
<1> QED
  BY <1>3, <1>4, <1>5, <1>6, <1>7 DEF Inv

(* A process ends: the other one still reads whole frames, as many as the   *)
(* kernel delivers.                                                         *)
LEMMA EndKeeps ==
  ASSUME Inv, NEW n \in Node, NEW why \in Ended, why # BadStart, End(n, why)
  PROVE  Inv'
<1>1. MakeConnection(0, {"CLOSED"}) \in Tunnels
      /\ MakeConnection(0, {"CLOSED"}).inBuf = <<>>
      /\ MakeConnection(0, {"CLOSED"}).outBuf = <<>>
  BY TunnelsMade
<1>2. MemoryInv
  BY DEF Inv
<1>3. MemoryInv'
  <2>1. phase' \in [Node -> Phase]
    BY <1>2 DEF MemoryInv, End, Goto, Phase
  <2>2. conns' \in [Node -> [Session -> Connections \cup {NoConn}]]
    BY <1>2 DEF MemoryInv, End
  <2>3. tun' \in [Node -> Tunnels]
    BY <1>1, <1>2 DEF MemoryInv, End
  <2>4. wire' \in [Node -> Wires] /\ queue' \in [Node -> Queues]
    <3>1. <<>> \in Wires /\ <<>> \in Queues
      <4>1. <<>> \in Seq(Byte) /\ <<>> \in Seq(Commands) /\ Len(<<>>) = 0
        BY EmptySeq
      <4> QED
        BY <4>1, Constants DEF Wires, Queues
    <3>2. PICK bytes \in {wire[n], <<>>} : wire' = [wire EXCEPT ![n] = bytes]
      BY DEF End
    <3>3. bytes \in Wires
      BY <1>2, <3>1 DEF MemoryInv
    <3> QED
      BY <1>2, <3>1, <3>2, <3>3 DEF MemoryInv, End
  <2>5. sendingTo' \in [Node -> 0..MaxId] /\ visited' \in [Node -> Nat]
    <3>1. 0 \in 0..MaxId
      BY Constants
    <3>2. sendingTo' = [sendingTo EXCEPT ![n] = 0] /\ visited' = [visited EXCEPT ![n] = 0]
      BY DEF End
    <3>3. sendingTo \in [Node -> 0..MaxId] /\ visited \in [Node -> Nat]
      BY <1>2 DEF MemoryInv
    <3> QED
      BY <3>1, <3>2, <3>3
  <2>6. sorted' \in [Node -> [Id -> 0..Sessions]]
    <3>1. [i \in Id |-> NoSession] \in [Id -> 0..Sessions]
      BY Constants DEF NoSession
    <3>2. sorted' = [sorted EXCEPT ![n] = [i \in Id |-> NoSession]]
      BY DEF End
    <3>3. sorted \in [Node -> [Id -> 0..Sessions]]
      BY <1>2 DEF MemoryInv
    <3> QED
      BY <3>1, <3>2, <3>3
  <2>7. UNCHANGED <<current, freeIds, signalled, accepted, sent, got>>
    BY DEF End, history
  <2> QED
    BY <1>2, <2>1, <2>2, <2>3, <2>4, <2>5, <2>6, <2>7 DEF MemoryInv
<1>4. ArrayInv'
  <2> SUFFICES ASSUME NEW k \in Node
               PROVE  ArrayRight(k)'
    BY DEF ArrayInv
  <2>1. CASE k = n
    <3>1. sorted'[n] = [i \in Id |-> NoSession]
      BY <1>2 DEF MemoryInv, End
    <3> QED
      BY <2>1, <3>1, ArrayEmpty
  <2>2. CASE k # n
    <3>1. sorted'[k] = sorted[k] /\ phase'[k] = phase[k] /\ conns'[k] = conns[k]
      BY <1>2, <2>2 DEF MemoryInv, End, Goto
    <3>2. ArrayRight(k)
      BY DEF Inv, ArrayInv
    <3> QED
      BY <1>2, <3>1, <3>2, ArrayKept
  <2> QED
    BY <2>1, <2>2
<1>5. FrameInv'
  <2> SUFFICES ASSUME NEW k \in Node, IsRunning(k)'
               PROVE  Flows(k, Other(k))'
    BY DEF FrameInv
  <2>1. phase'[n] = why /\ ~IsRunning(n)'
    BY <1>2 DEF MemoryInv, End, Goto, IsRunning
  <2>2. k # n /\ Other(k) = n /\ phase'[k] = phase[k]
    BY <1>2, <2>1, Nodes DEF MemoryInv, End, Goto
  <2>3. Flows(k, n)
    BY <2>2 DEF Inv, FrameInv, IsRunning
  <2>4. PICK p \in Expecting, q \in Expecting, r \in Expecting :
          Parses(tun[k].inBuf, Expected(k), p) /\ Parses(wire[n], p, q)
    BY <2>3 DEF Flows
  <2>5. tun'[k] = tun[k] /\ sendingTo'[k] = sendingTo[k] /\ tun'[n].outBuf = <<>>
    BY <1>1, <1>2, <2>2 DEF MemoryInv, End
  <2>6. Parses(tun'[k].inBuf, Expected(k)', p)
    BY <2>4, <2>5 DEF Expected
  <2>7. \E u \in Expecting : Parses(wire'[n], p, u) /\ Parses(tun'[n].outBuf, u, u)
    <3>1. wire'[n] = wire[n] \/ wire'[n] = <<>>
      BY <1>2 DEF MemoryInv, End
    <3>2. CASE wire'[n] = wire[n]
      BY <2>4, <2>5, <3>2, ParsesNothing
    <3>3. CASE wire'[n] = <<>>
      BY <2>4, <2>5, <3>3, ParsesNothing
    <3> QED
      BY <3>1, <3>2, <3>3
  <2> QED
    BY <2>1, <2>2, <2>4, <2>6, <2>7 DEF Flows
<1>6. ServerInv'
  <2>1. ServerInv
    BY DEF Inv
  <2>2. \A s \in Session : conns'["server"][s] # NoConn => conns'["server"][s] = conns["server"][s]
    BY <1>2 DEF MemoryInv, End, Node
  <2> QED
    BY <2>1, <2>2, ServerKept
<1>7. NoBadStart'
  BY <1>2 DEF Inv, NoBadStart, MemoryInv, End, Goto
<1> QED
  BY <1>3, <1>4, <1>5, <1>6, <1>7 DEF Inv

Running == {"enter", "poll", "sort", "state", "recv", "cmds", "data"}

LEMMA RunningOnes ==
  /\ \A p \in Running : p \notin Ended /\ p # BadStart /\ p \in Phase
  /\ BadStart \in Ended
BY Zenon DEF Running, Ended, BadStart, Phase

(* update() goes on to its next part.                                       *)
LEMMA GoOnKeeps ==
  ASSUME Inv, NEW n \in Node, NEW p \in {"recv", "cmds", "data"}, Goto(n, p),
         phase[n] \in {"state", "recv", "cmds"},
         UNCHANGED <<conns, tun, kernel, freeIds, pump, local, history>>
  PROVE  Inv'
<1>1. MemoryInv /\ p \in Running /\ phase[n] \in Running
  BY DEF Inv, Running
<1>2. UNCHANGED <<conns, tun, wire, signalled, accepted, freeIds, queue, sendingTo, current,
                  sorted, visited, sent, got>>
  BY DEF kernel, pump, local, history
<1>3. phase' = [phase EXCEPT ![n] = p] /\ phase' \in [Node -> Phase]
  BY <1>1, RunningOnes DEF Goto, MemoryInv
<1>4. MemoryInv'
  BY <1>1, <1>2, <1>3 DEF MemoryInv
<1>5. ArrayInv'
  <2> SUFFICES ASSUME NEW k \in Node
               PROVE  ArrayRight(k)'
    BY DEF ArrayInv
  <2>1. ArrayRight(k)
    BY DEF Inv, ArrayInv
  <2>2. phase'[k] = phase[k] \/ phase'[k] \in {"state", "recv", "cmds", "data"}
    BY <1>1, <1>3 DEF MemoryInv
  <2> QED
    BY <1>1, <1>2, <2>1, <2>2, ArrayKept
<1>6. FrameInv'
  <2>1. \A k \in Node : IsRunning(k)' => IsRunning(k)
    BY <1>1, <1>3, RunningOnes DEF MemoryInv, IsRunning
  <2> QED
    BY <1>2, <2>1, FramesKept DEF Inv
<1>7. ServerInv'
  BY <1>2, ServerKept DEF Inv
<1>8. NoBadStart'
  BY <1>1, <1>3, RunningOnes DEF Inv, NoBadStart, MemoryInv
<1> QED
  BY <1>4, <1>5, <1>6, <1>7, <1>8 DEF Inv

(* update() returns and is called again.                                    *)
LEMMA ReturnKeeps ==
  ASSUME Inv, NEW n \in Node, UpdateReturns(n), phase[n] \in Running,
         UNCHANGED <<conns, tun, kernel, freeIds, sendingTo, sent, got>>,
         queue' \in [Node -> Queues], current' \in [Node -> 0..MaxId]
  PROVE  Inv'
<1>1. MemoryInv /\ "enter" \in Running
  BY DEF Inv, Running
<1>2. UNCHANGED <<conns, tun, wire, signalled, accepted, freeIds, sendingTo, sent, got>>
  BY DEF kernel
<1>3. phase' = [phase EXCEPT ![n] = "enter"] /\ phase' \in [Node -> Phase]
  BY <1>1, RunningOnes DEF UpdateReturns, Goto, MemoryInv
<1>4. sorted' = [sorted EXCEPT ![n] = [i \in Id |-> NoSession]]
      /\ sorted' \in [Node -> [Id -> 0..Sessions]]
  <2>1. [i \in Id |-> NoSession] \in [Id -> 0..Sessions]
    BY Constants DEF NoSession
  <2>2. sorted' = [sorted EXCEPT ![n] = [i \in Id |-> NoSession]]
    BY DEF UpdateReturns
  <2>3. sorted \in [Node -> [Id -> 0..Sessions]]
    BY <1>1 DEF MemoryInv
  <2> QED
    BY <2>1, <2>2, <2>3
<1>5. visited' \in [Node -> Nat]
  BY <1>1 DEF UpdateReturns, MemoryInv
<1>6. MemoryInv'
  BY <1>1, <1>2, <1>3, <1>4, <1>5 DEF MemoryInv
<1>7. ArrayInv'
  <2> SUFFICES ASSUME NEW k \in Node
               PROVE  ArrayRight(k)'
    BY DEF ArrayInv
  <2>1. CASE k = n
    <3>1. sorted'[n] = [i \in Id |-> NoSession]
      BY <1>1, <1>4 DEF MemoryInv
    <3> QED
      BY <2>1, <3>1, ArrayEmpty
  <2>2. CASE k # n
    <3>1. sorted'[k] = sorted[k] /\ phase'[k] = phase[k] /\ conns'[k] = conns[k]
      BY <1>1, <1>2, <1>3, <1>4, <2>2 DEF MemoryInv
    <3>2. ArrayRight(k)
      BY DEF Inv, ArrayInv
    <3> QED
      BY <1>1, <3>1, <3>2, ArrayKept
  <2> QED
    BY <2>1, <2>2
<1>8. FrameInv'
  <2>1. \A k \in Node : IsRunning(k)' => IsRunning(k)
    BY <1>1, <1>3, RunningOnes DEF MemoryInv, IsRunning
  <2> QED
    BY <1>2, <2>1, FramesKept DEF Inv
<1>9. ServerInv'
  BY <1>2, ServerKept DEF Inv
<1>10. NoBadStart'
  BY <1>1, <1>3, RunningOnes DEF Inv, NoBadStart, MemoryInv
<1> QED
  BY <1>6, <1>7, <1>8, <1>9, <1>10 DEF Inv

LEMMA SignalKeeps ==
  ASSUME Inv, NEW n \in Node, Signal(n)
  PROVE  Inv'
<1>1. MemoryInv
  BY DEF Inv
<1>2. UNCHANGED <<phase, conns, tun, wire, accepted, freeIds, queue, sendingTo, current,
                  sorted, visited, sent, got>>
  BY DEF Signal, pump, local, history
<1>3. signalled' \in [Node -> BOOLEAN]
  <2>1. signalled' = [signalled EXCEPT ![n] = TRUE] /\ signalled \in [Node -> BOOLEAN]
    BY <1>1 DEF Signal, MemoryInv
  <2> QED
    BY <2>1, Zenon
<1>4. MemoryInv'
  BY <1>1, <1>2, <1>3 DEF MemoryInv
<1>5. ArrayInv'
  BY <1>2 DEF Inv, ArrayInv, ArrayRight
<1>6. FrameInv'
  BY <1>2, FramesKept DEF Inv, IsRunning
<1>7. ServerInv'
  BY <1>2, ServerKept DEF Inv
<1>8. NoBadStart'
  BY <1>2 DEF Inv, NoBadStart
<1> QED
  BY <1>4, <1>5, <1>6, <1>7, <1>8 DEF Inv

LEMMA EnterPollKeeps ==
  ASSUME Inv, NEW n \in Node, EnterPoll(n)
  PROVE  Inv'
<1>1. MemoryInv /\ phase[n] = "enter" /\ "enter" \in Running /\ "poll" \in Running
  BY DEF Inv, EnterPoll, Running
<1>2. UNCHANGED <<wire, signalled, accepted, freeIds, queue, sendingTo, current,
                  sorted, visited, sent, got>>
  BY DEF EnterPoll, kernel, pump, local, history
<1>3. phase' = [phase EXCEPT ![n] = "poll"] /\ phase' \in [Node -> Phase]
  BY <1>1, RunningOnes DEF EnterPoll, Goto, MemoryInv
<1>4. conns' = [conns EXCEPT ![n] = [s \in Session |-> BeforePoll(conns[n][s])]]
      /\ conns' \in [Node -> [Session -> Connections \cup {NoConn}]]
  <2>1. \A s \in Session : BeforePoll(conns[n][s]) \in Connections \cup {NoConn}
    BY <1>1, BeforePollKeeps DEF MemoryInv
  <2>2. conns' = [conns EXCEPT ![n] = [s \in Session |-> BeforePoll(conns[n][s])]]
    BY DEF EnterPoll
  <2> QED
    BY <1>1, <2>1, <2>2 DEF MemoryInv
<1>5. tun' = [tun EXCEPT ![n] = BeforePoll(tun[n])]
  BY DEF EnterPoll
<1>6. /\ BeforePoll(tun[n]) \in Tunnels
      /\ BeforePoll(tun[n]).inBuf = tun[n].inBuf /\ BeforePoll(tun[n]).outBuf = tun[n].outBuf
  BY <1>1, BeforePollTunnel DEF MemoryInv
<1>7. /\ tun' \in [Node -> Tunnels]
      /\ \A k \in Node : tun'[k].inBuf = tun[k].inBuf /\ tun'[k].outBuf = tun[k].outBuf
  BY <1>1, <1>5, <1>6 DEF MemoryInv
<1>8. MemoryInv'
  BY <1>1, <1>2, <1>3, <1>4, <1>7 DEF MemoryInv
<1>9. ArrayInv'
  <2> SUFFICES ASSUME NEW k \in Node
               PROVE  ArrayRight(k)'
    BY DEF ArrayInv
  <2>1. ArrayRight(k)
    BY DEF Inv, ArrayInv
  <2>2. CASE k = n
    <3>1. \A i \in Id : sorted[n][i] = NoSession
      BY <1>1, <2>1, <2>2 DEF ArrayRight
    <3> QED
      BY <1>2, <2>2, <3>1 DEF ArrayRight
  <2>3. CASE k # n
    <3>1. sorted'[k] = sorted[k] /\ phase'[k] = phase[k] /\ conns'[k] = conns[k]
      BY <1>1, <1>2, <1>3, <1>4, <2>3 DEF MemoryInv
    <3> QED
      BY <1>1, <2>1, <3>1, ArrayKept
  <2> QED
    BY <2>2, <2>3
<1>10. FrameInv'
  <2> SUFFICES ASSUME NEW k \in Node, IsRunning(k)'
               PROVE  Flows(k, Other(k))'
    BY DEF FrameInv
  <2>1. \A j \in Node : IsRunning(j)' => IsRunning(j)
    BY <1>1, <1>3, RunningOnes DEF MemoryInv, IsRunning
  <2>2. Other(k) \in Node /\ Flows(k, Other(k))
    BY <2>1, Nodes DEF Inv, FrameInv
  <2> QED
    BY <1>2, <1>7, <2>1, <2>2, FlowsKept
<1>11. ServerInv'
  <2>1. ServerInv
    BY DEF Inv
  <2>2. ASSUME NEW s \in Session, conns'["server"][s] # NoConn
        PROVE  conns["server"][s] # NoConn /\ conns'["server"][s].id = conns["server"][s].id
    <3>1. CASE n = "server"
      <4>1. conns'["server"][s] = BeforePoll(conns["server"][s])
        BY <1>1, <1>4, <3>1 DEF MemoryInv
      <4>2. conns["server"][s] \in Connections \cup {NoConn}
        BY <1>1, <3>1 DEF MemoryInv
      <4> QED
        BY <2>2, <4>1, <4>2, BeforePollKeeps
    <3>2. CASE n # "server"
      BY <1>1, <1>4, <2>2, <3>2 DEF MemoryInv, Node
    <3> QED
      BY <3>1, <3>2
  <2> QED
    BY <2>1, <2>2, ServerKept
<1>12. NoBadStart'
  BY <1>1, <1>3, RunningOnes DEF Inv, NoBadStart, MemoryInv
<1> QED
  BY <1>8, <1>9, <1>10, <1>11, <1>12 DEF Inv

(* poll returns: what the kernel may have moved.                            *)
LEMMA MovedIs ==
  ASSUME NEW r \in Int, r >= EndOfFile
  PROVE  Moved(r) \in Nat /\ (r = EndOfFile => Moved(r) = 0) /\ (r # EndOfFile => Moved(r) = r)
BY DEF Moved, EndOfFile

LEMMA LeastIs ==
  ASSUME NEW a \in Int, NEW b \in Int
  PROVE  Least(a, b) \in {a, b} /\ Least(a, b) <= a /\ Least(a, b) <= b
BY DEF Least

LEMMA ReadBounds ==
  ASSUME MemoryInv, NEW n \in Node, NEW s \in Session, conns[n][s] # NoConn,
         NEW r \in ReadResults(n, s)
  PROVE  /\ r \in Int /\ Moved(r) \in Nat /\ Arriving(n, s, r) \in Seq(Data)
         /\ CanReceive(conns[n][s], BufSize) \/ Arriving(n, s, r) = <<>>
         /\ Len(conns[n][s].inBuf) + Len(Arriving(n, s, r)) <= BufSize
<1> DEFINE c == conns[n][s]
<1>1. c \in Connections /\ sent[n][s] \in Nat
  BY DEF MemoryInv
<1>2. Len(c.inBuf) \in Nat /\ Len(c.inBuf) <= BufSize
  <2>1. c \in Record(Id \cup {NoId}, Data, Data) /\ Len(c.inBuf) <= BufSize
    BY <1>1 DEF Connections
  <2> QED
    BY <2>1, RecordFields
<1> HIDE DEF c
<1>3. Units(n) \in Nat /\ BufSize \in Nat
  BY Constants DEF Units
<1>4. /\ r \in Int /\ Moved(r) \in Nat
      /\ CanReceive(c, BufSize) \/ r = 0
      /\ Len(c.inBuf) + Moved(r) <= BufSize
  <2>1. CASE CanReceive(c, BufSize)
    <3>1. Len(c.inBuf) < BufSize
      BY <2>1 DEF CanReceive
    <3>2. r \in EndOfFile..Least(BufSize - Len(c.inBuf), Units(n) - sent[n][s])
      BY <2>1 DEF ReadResults, c
    <3>3. Least(BufSize - Len(c.inBuf), Units(n) - sent[n][s]) \in Int
          /\ Least(BufSize - Len(c.inBuf), Units(n) - sent[n][s]) <= BufSize - Len(c.inBuf)
      BY <1>1, <1>2, <1>3, LeastIs
    <3>4. r \in Int /\ r >= -1 /\ r <= BufSize - Len(c.inBuf)
      BY <1>2, <1>3, <3>2, <3>3 DEF EndOfFile
    <3>5. Moved(r) \in Nat /\ (Moved(r) = 0 \/ Moved(r) = r)
      BY <3>4, MovedIs DEF EndOfFile
    <3>6. Len(c.inBuf) + Moved(r) <= BufSize
      BY <1>2, <1>3, <3>1, <3>4, <3>5
    <3> QED
      BY <2>1, <3>4, <3>5, <3>6
  <2>2. CASE ~CanReceive(c, BufSize)
    <3>1. r = 0
      BY <2>2 DEF ReadResults, c
    <3> QED
      BY <1>2, <1>3, <3>1 DEF Moved, EndOfFile
  <2> QED
    BY <2>1, <2>2
<1>5. Arriving(n, s, r) \in Seq(Data) /\ Len(Arriving(n, s, r)) = Moved(r)
  <2>1. \A i \in 1..Moved(r) : DataByte(n, s, sent[n][s] + i) \in Data
    <3>1. \A i \in 1..Moved(r) : sent[n][s] + i \in Nat
      BY <1>1, <1>4
    <3> QED
      BY <3>1, Bytes
  <2>2. Arriving(n, s, r) = [i \in 1..Moved(r) |-> DataByte(n, s, sent[n][s] + i)]
    BY DEF Arriving
  <2>3. Arriving(n, s, r) \in [1..Moved(r) -> Data]
    BY <2>1, <2>2
  <2> HIDE <2>2
  <2> QED
    BY <1>4, <2>3
<1>6. r = 0 => Arriving(n, s, r) = <<>>
  <2>1. r = 0 => Moved(r) = 0
    BY DEF Moved, EndOfFile
  <2> QED
    BY <1>5, <2>1, EmptySeq
<1> QED
  BY <1>4, <1>5, <1>6 DEF c

LEMMA WriteBounds ==
  ASSUME MemoryInv, NEW n \in Node, NEW s \in Session, conns[n][s] # NoConn,
         NEW w \in WriteResults(n, s)
  PROVE  /\ w \in Int /\ Moved(w) \in 0..Len(conns[n][s].outBuf)
         /\ CanTransmit(conns[n][s]) \/ w = 0
<1> DEFINE c == conns[n][s]
<1>1. c \in Connections
  BY DEF MemoryInv
<1>2. Len(c.outBuf) \in Nat
  <2>1. c \in Record(Id \cup {NoId}, Data, Data)
    BY <1>1 DEF Connections
  <2> QED
    BY <2>1, RecordFields
<1> HIDE DEF c
<1>3. CASE CanTransmit(c)
  <2>1. w \in EndOfFile..Len(c.outBuf)
    <3>1. w \in (IF "write" \in Faults THEN EndOfFile ELSE 0)..Len(c.outBuf)
      BY <1>3 DEF WriteResults, c
    <3> QED
      BY <1>2, <3>1 DEF EndOfFile
  <2> QED
    BY <1>2, <1>3, <2>1 DEF Moved, EndOfFile, c
<1>4. CASE ~CanTransmit(c)
  <2>1. w = 0
    BY <1>4 DEF WriteResults, c
  <2> QED
    BY <1>2, <2>1 DEF Moved, EndOfFile, c
<1> QED
  BY <1>3, <1>4

LEMMA TunnelReadBounds ==
  ASSUME MemoryInv, NEW n \in Node, NEW r \in TunnelReads(n)
  PROVE  /\ r \in Int /\ Moved(r) \in 0..Len(wire[Other(n)])
         /\ CanReceive(tun[n], TunnelSize) \/ r = 0
         /\ Len(tun[n].inBuf) + Moved(r) <= TunnelSize
<1> DEFINE c == tun[n]
           l == Len(wire[Other(n)])
<1>1. c \in Tunnels /\ wire[Other(n)] \in Wires
  BY Nodes DEF MemoryInv
<1>2. Len(c.inBuf) \in Nat /\ Len(c.inBuf) <= TunnelSize
  <2>1. c \in Record({0}, Byte, Byte) /\ Len(c.inBuf) <= TunnelSize
    BY <1>1 DEF Tunnels
  <2> QED
    BY <2>1, RecordFields
<1>3. l \in Nat /\ TunnelSize \in Nat
  BY <1>1, Constants DEF Wires
<1> HIDE DEF c, l
<1>4. CASE CanReceive(c, TunnelSize)
  <2> DEFINE room == Least(TunnelSize - Len(c.inBuf), l)
  <2>1. Len(c.inBuf) < TunnelSize
    BY <1>4 DEF CanReceive
  <2>2. room \in Nat /\ room <= l /\ room <= TunnelSize - Len(c.inBuf)
    <3>1. TunnelSize - Len(c.inBuf) \in Nat
      BY <1>2, <1>3, <2>1
    <3> QED
      BY <1>3, <3>1, LeastIs
  <2>3. r \in {0} \cup {Least(k, room) : k \in Chunks} \cup {EndOfFile}
    BY <1>4 DEF TunnelReads, c, l
  <2> HIDE DEF room
  <2>4. r = 0 \/ r = EndOfFile \/ \E k \in Chunks : r = Least(k, room)
    BY <2>3
  <2>5. (r \in Nat /\ r <= room) \/ r = EndOfFile
    <3>1. ASSUME NEW k \in Chunks, r = Least(k, room)
          PROVE  r \in Nat /\ r <= room
      <4>1. k \in Nat
        BY ForwarderAssumption
      <4> QED
        BY <2>2, <3>1, <4>1 DEF Least
    <3> QED
      BY <2>2, <2>4, <3>1
  <2> QED
    BY <1>2, <1>3, <1>4, <2>1, <2>2, <2>5 DEF Moved, EndOfFile, c, l
<1>5. CASE ~CanReceive(c, TunnelSize)
  <2>1. r = 0
    BY <1>5 DEF TunnelReads, c
  <2> QED
    BY <1>2, <1>3, <2>1 DEF Moved, EndOfFile, c, l
<1> QED
  BY <1>4, <1>5

LEMMA TunnelWriteBounds ==
  ASSUME MemoryInv, NEW n \in Node, NEW w \in TunnelWrites(n)
  PROVE  /\ w \in Int /\ Moved(w) \in 0..Len(tun[n].outBuf)
         /\ CanTransmit(tun[n]) \/ w = 0
         /\ Len(wire[n]) + Moved(w) <= WireSize
<1> DEFINE c == tun[n]
           l == Len(wire[n])
<1>1. c \in Tunnels /\ wire[n] \in Wires
  BY DEF MemoryInv
<1>2. Len(c.outBuf) \in Nat
  <2>1. c \in Record({0}, Byte, Byte)
    BY <1>1 DEF Tunnels
  <2> QED
    BY <2>1, RecordFields
<1>3. l \in Nat /\ l <= WireSize /\ WireSize \in Nat
  BY <1>1, Constants DEF Wires
<1> HIDE DEF c, l
<1> DEFINE room == Least(Len(c.outBuf), WireSize - l)
<1>4. room \in Nat /\ room <= Len(c.outBuf) /\ room <= WireSize - l
  <2>1. WireSize - l \in Nat
    BY <1>3
  <2> QED
    BY <1>2, <2>1, LeastIs
<1>5. CASE CanTransmit(c) /\ IsRunning(Other(n))
  <2>1. w \in {0} \cup {Least(k, room) : k \in Chunks}
    BY <1>5 DEF TunnelWrites, c, l
  <2> HIDE DEF room
  <2>2. w = 0 \/ \E k \in Chunks : w = Least(k, room)
    BY <2>1
  <2>3. w \in Nat /\ w <= room
    <3>1. ASSUME NEW k \in Chunks, w = Least(k, room)
          PROVE  w \in Nat /\ w <= room
      <4>1. k \in Nat
        BY ForwarderAssumption
      <4> QED
        BY <1>4, <3>1, <4>1 DEF Least
    <3> QED
      BY <1>4, <2>2, <3>1
  <2>4. Moved(w) = w
    BY <2>3, MovedIs DEF EndOfFile
  <2>5. l + Moved(w) <= WireSize /\ Moved(w) \in 0..Len(c.outBuf)
    BY <1>2, <1>3, <1>4, <2>3, <2>4
  <2> QED
    BY <1>5, <2>3, <2>5 DEF c, l
<1>6. CASE ~(CanTransmit(c) /\ IsRunning(Other(n)))
  <2>1. w = 0 \/ (CanTransmit(c) /\ w = EndOfFile)
    BY <1>6 DEF TunnelWrites, c
  <2> QED
    BY <1>2, <1>3, <2>1 DEF Moved, EndOfFile, c, l
<1> QED
  BY <1>5, <1>6

(* Bytes move on from one buffer to the next.                               *)
LEMMA ShiftParses ==
  ASSUME NEW s \in Seq(Byte), NEW t \in Seq(Byte), NEW k \in 0..Len(t), NEW p, NEW q, NEW r,
         Parses(s, p, q), Parses(t, q, r)
  PROVE  \E u \in Expecting : /\ Parses(s \o SubSeq(t, 1, k), p, u)
                              /\ Parses(SubSeq(t, k + 1, Len(t)), u, r)
<1> DEFINE a == SubSeq(t, 1, k)
           b == SubSeq(t, k + 1, Len(t))
<1>1. a \in Seq(Byte) /\ b \in Seq(Byte) /\ a \o b = t
  BY SeqFirst, SeqRest, SeqSplit
<1> HIDE DEF a, b
<1>2. Parses(a \o b, q, r)
  BY <1>1
<1>3. PICK u \in Expecting : Parses(a, q, u) /\ Parses(b, u, r)
  BY <1>1, <1>2, ParsesSplit
<1>4. Parses(s \o a, p, u)
  BY <1>1, <1>3, ParsesConcat
<1> QED
  BY <1>3, <1>4 DEF a, b

LEMMA PollReturnsKeeps ==
  ASSUME Inv, NEW n \in Node, PollReturns(n)
  PROVE  Inv'
<1> DEFINE m == Other(n)
<1>1. MemoryInv /\ phase[n] = "poll" /\ "poll" \in Running /\ "sort" \in Running
  BY DEF Inv, PollReturns, Running
<1>2. m \in Node /\ m # n /\ Other(m) = n /\ \A k \in Node : k = n \/ k = m
  BY Nodes
<1> HIDE DEF m
<1>3. PICK read \in [Live(n) -> EndOfFile..BufSize],
           write \in [Live(n) -> EndOfFile..BufSize],
           r \in TunnelReads(n), w \in TunnelWrites(n),
           new \in {0} \cup (IF n = "client" /\ accepted < Sessions THEN {1} ELSE {}) :
       /\ \A s \in Live(n) : read[s] \in ReadResults(n, s)
                             /\ write[s] \in WriteResults(n, s)
       /\ \/ new = 1 \/ r # 0 \/ w # 0
          \/ \E s \in Live(n) : read[s] # 0 \/ write[s] # 0 \/ IsBusy(n, s)
       /\ accepted' = accepted + new
       /\ conns' = [conns EXCEPT ![n] =
            [s \in Session |->
               IF s \in Live(n)
               THEN Settle(Serve(conns[n][s], Arriving(n, s, read[s]),
                                 read[s], write[s], BufSize))
               ELSE IF new = 1 /\ s = accepted'
               THEN MakeConnection(NoId, {"NEW"})
               ELSE conns[n][s]]]
       /\ tun' = [tun EXCEPT ![n] =
            Settle(Serve(tun[n], SubSeq(wire[Other(n)], 1, Moved(r)), r, w, TunnelSize))]
       /\ wire' = [wire EXCEPT
            ![n] = @ \o SubSeq(tun[n].outBuf, 1, Moved(w)),
            ![Other(n)] = SubSeq(@, Moved(r) + 1, Len(@))]
       /\ sent' = [sent EXCEPT ![n] =
            [s \in Session |-> IF s \in Live(n) THEN sent[n][s] + Moved(read[s])
                                                ELSE sent[n][s]]]
       /\ got' = [got EXCEPT ![n] =
            [s \in Session |-> IF s \in Live(n)
                               THEN got[n][s] \o SubSeq(conns[n][s].outBuf, 1, Moved(write[s]))
                               ELSE got[n][s]]]
  BY DEF PollReturns
<1>4. UNCHANGED <<signalled, freeIds, queue, sendingTo, current, sorted, visited>>
  BY DEF PollReturns, pump, local
<1>5. phase' = [phase EXCEPT ![n] = "sort"] /\ phase' \in [Node -> Phase]
  BY <1>1, RunningOnes DEF PollReturns, Goto, MemoryInv
(* The connections.                                                         *)
<1>6. ASSUME NEW s \in Session, s \in Live(n)
      PROVE  LET d == Settle(Serve(conns[n][s], Arriving(n, s, read[s]),
                                   read[s], write[s], BufSize))
             IN  d \in Connections \cup {NoConn} /\ (d # NoConn => d.id = conns[n][s].id)
  <2> DEFINE c == conns[n][s]
             e == Serve(c, Arriving(n, s, read[s]), read[s], write[s], BufSize)
  <2>1. c # NoConn /\ c \in Connections
    BY <1>1, <1>6 DEF Live, MemoryInv
  <2>2. read[s] \in ReadResults(n, s) /\ write[s] \in WriteResults(n, s)
    BY <1>3, <1>6
  <2>3. /\ read[s] \in Int /\ Arriving(n, s, read[s]) \in Seq(Data)
        /\ CanReceive(c, BufSize) \/ Arriving(n, s, read[s]) = <<>>
        /\ Len(c.inBuf) + Len(Arriving(n, s, read[s])) <= BufSize
    BY <1>1, <2>1, <2>2, ReadBounds
  <2>4. /\ write[s] \in Int /\ Moved(write[s]) \in 0..Len(c.outBuf)
        /\ CanTransmit(c) \/ write[s] = 0
    BY <1>1, <2>1, <2>2, WriteBounds
  <2>5. e \in Connections /\ e.id = c.id
    <3> HIDE DEF c
    <3> QED
      BY <2>1, <2>3, <2>4, ServeConnection
  <2> HIDE DEF e
  <2>6. Settle(e) \in Connections \cup {NoConn} /\ (Settle(e) # NoConn => Settle(e).id = e.id)
    BY <2>5, SettleKeeps
  <2> QED
    BY <2>5, <2>6 DEF e
<1>7. MakeConnection(NoId, {"NEW"}) \in Connections
  <2>1. NoId \in Id \cup {NoId} /\ {"NEW"} \in SUBSET {"NEW"}
    OBVIOUS
  <2> QED
    BY <2>1, MakeConnectionIsOne
<1>8. conns' \in [Node -> [Session -> Connections \cup {NoConn}]]
  <2> DEFINE new_conns == [s \in Session |->
               IF s \in Live(n)
               THEN Settle(Serve(conns[n][s], Arriving(n, s, read[s]),
                                 read[s], write[s], BufSize))
               ELSE IF new = 1 /\ s = accepted'
               THEN MakeConnection(NoId, {"NEW"})
               ELSE conns[n][s]]
  <2>1. \A s \in Session : conns[n][s] \in Connections \cup {NoConn}
    BY <1>1 DEF MemoryInv
  <2>2. new_conns \in [Session -> Connections \cup {NoConn}]
    BY <1>6, <1>7, <2>1
  <2>3. conns' = [conns EXCEPT ![n] = new_conns]
    BY <1>3
  <2> HIDE DEF new_conns
  <2> QED
    BY <1>1, <2>2, <2>3 DEF MemoryInv
(* The tunnel.                                                              *)
<1>9. /\ tun[n] \in Tunnels /\ tun[n].inBuf \in Seq(Byte) /\ tun[n].outBuf \in Seq(Byte)
      /\ tun[m].inBuf \in Seq(Byte) /\ tun[m].outBuf \in Seq(Byte)
      /\ wire[n] \in Seq(Byte) /\ wire[m] \in Seq(Byte) /\ Len(wire[n]) \in Nat
      /\ Len(wire[m]) \in Nat /\ Len(wire[m]) <= WireSize
  <2>1. tun[n] \in Tunnels /\ tun[m] \in Tunnels /\ wire[n] \in Wires /\ wire[m] \in Wires
    BY <1>1, <1>2 DEF MemoryInv
  <2>2. tun[n] \in Record({0}, Byte, Byte) /\ tun[m] \in Record({0}, Byte, Byte)
    BY <2>1 DEF Tunnels
  <2>3. /\ tun[n].inBuf \in Seq(Byte) /\ tun[n].outBuf \in Seq(Byte)
        /\ tun[m].inBuf \in Seq(Byte) /\ tun[m].outBuf \in Seq(Byte)
    BY <2>2, RecordFields
  <2>4. wire[n] \in Seq(Byte) /\ wire[m] \in Seq(Byte) /\ Len(wire[m]) <= WireSize
    BY <2>1 DEF Wires
  <2> QED
    BY <2>1, <2>3, <2>4
<1>10. /\ r \in Int /\ Moved(r) \in 0..Len(wire[m])
       /\ CanReceive(tun[n], TunnelSize) \/ r = 0
       /\ Len(tun[n].inBuf) + Moved(r) <= TunnelSize
  BY <1>1, TunnelReadBounds DEF m
<1>11. /\ w \in Int /\ Moved(w) \in 0..Len(tun[n].outBuf)
       /\ CanTransmit(tun[n]) \/ w = 0
       /\ Len(wire[n]) + Moved(w) <= WireSize
  BY <1>1, TunnelWriteBounds
<1> DEFINE bytes == SubSeq(wire[m], 1, Moved(r))
           out == SubSeq(tun[n].outBuf, 1, Moved(w))
           served == Settle(Serve(tun[n], bytes, r, w, TunnelSize))
<1>12. bytes \in Seq(Byte) /\ Len(bytes) = Moved(r) /\ (r = 0 => bytes = <<>>)
       /\ out \in Seq(Byte) /\ Len(out) = Moved(w)
  <2>1. bytes \in Seq(Byte) /\ Len(bytes) = Moved(r)
    BY <1>9, <1>10, SeqFirst
  <2>2. out \in Seq(Byte) /\ Len(out) = Moved(w)
    BY <1>9, <1>11, SeqFirst
  <2>3. r = 0 => Moved(r) = 0
    BY DEF Moved, EndOfFile
  <2> HIDE DEF bytes, out
  <2> QED
    BY <2>1, <2>2, <2>3, EmptySeq
<1>13. served \in Tunnels /\ served.inBuf = Joined(tun[n].inBuf, bytes)
       /\ served.outBuf = Rest(tun[n].outBuf, Moved(w))
  <2> DEFINE d == Serve(tun[n], bytes, r, w, TunnelSize)
  <2> HIDE DEF bytes
  <2>1. /\ d \in Tunnels
        /\ d.inBuf = Joined(tun[n].inBuf, bytes)
        /\ d.outBuf = Rest(tun[n].outBuf, Moved(w))
    <3>1. CanReceive(tun[n], TunnelSize) \/ bytes = <<>>
      BY <1>10, <1>12
    <3>2. Len(tun[n].inBuf) + Len(bytes) <= TunnelSize
      BY <1>10, <1>12
    <3>3. bytes \in Seq(Byte) /\ tun[n] \in Tunnels /\ r \in Int /\ w \in Int
          /\ Moved(w) \in 0..Len(tun[n].outBuf) /\ (CanTransmit(tun[n]) \/ w = 0)
      BY <1>9, <1>10, <1>11, <1>12
    <3>4. d \in Tunnels
      BY <3>1, <3>2, <3>3, ServeTunnel
    <3>5. d.inBuf = Joined(tun[n].inBuf, bytes)
      BY <3>1, <3>2, <3>3, ServeTunnel
    <3>6. d.outBuf = Rest(tun[n].outBuf, Moved(w))
      BY <3>1, <3>2, <3>3, ServeTunnel
    <3> QED
      BY <3>4, <3>5, <3>6
  <2> HIDE DEF d
  <2>2. Settle(d) \in Tunnels /\ Settle(d).inBuf = d.inBuf /\ Settle(d).outBuf = d.outBuf
    BY <2>1, SettleTunnel
  <2> QED
    BY <2>1, <2>2 DEF d
<1> HIDE DEF bytes, out, served
<1>14. tun' = [tun EXCEPT ![n] = served] /\ tun' \in [Node -> Tunnels]
  BY <1>1, <1>3, <1>13 DEF bytes, served, m, MemoryInv
<1>15. /\ wire'[n] = wire[n] \o out /\ wire'[m] = SubSeq(wire[m], Moved(r) + 1, Len(wire[m]))
       /\ wire' \in [Node -> Wires]
  <2>1. wire' = [wire EXCEPT ![n] = wire[n] \o out,
                             ![m] = SubSeq(wire[m], Moved(r) + 1, Len(wire[m]))]
    BY <1>1, <1>2, <1>3 DEF out, m, MemoryInv
  <2>2. wire[n] \o out \in Wires
    BY <1>9, <1>11, <1>12, ConcatProperties, ZenonT(30) DEF Wires
  <2>3. SubSeq(wire[m], Moved(r) + 1, Len(wire[m])) \in Wires
    <3>1. SubSeq(wire[m], Moved(r) + 1, Len(wire[m])) \in Seq(Byte)
          /\ Len(SubSeq(wire[m], Moved(r) + 1, Len(wire[m]))) = Len(wire[m]) - Moved(r)
      BY <1>9, <1>10, SeqRest
    <3>2. Len(wire[m]) - Moved(r) <= WireSize
      BY <1>9, <1>10, Constants
    <3> QED
      BY <3>1, <3>2 DEF Wires
  <2> QED
    BY <1>1, <1>2, <2>1, <2>2, <2>3 DEF MemoryInv
<1>16. accepted' \in 0..Sessions
  <2>1. new = 0 \/ (new = 1 /\ accepted < Sessions)
    BY <1>3
  <2>2. accepted \in 0..Sessions
    BY <1>1 DEF MemoryInv
  <2> QED
    BY <1>3, <2>1, <2>2, Constants
<1>17. sent' \in [Node -> [Session -> Nat]]
  <2>1. \A s \in Session : sent[n][s] \in Nat
    BY <1>1 DEF MemoryInv
  <2>2. ASSUME NEW s \in Session, s \in Live(n)
        PROVE  sent[n][s] + Moved(read[s]) \in Nat
    <3>1. conns[n][s] # NoConn /\ read[s] \in ReadResults(n, s)
      BY <1>3, <2>2 DEF Live
    <3>2. Moved(read[s]) \in Nat
      BY <1>1, <3>1, ReadBounds
    <3> QED
      BY <2>1, <3>2
  <2> DEFINE new_sent == [s \in Session |-> IF s \in Live(n) THEN sent[n][s] + Moved(read[s])
                                                            ELSE sent[n][s]]
  <2>3. new_sent \in [Session -> Nat]
    BY <2>1, <2>2
  <2>4. sent' = [sent EXCEPT ![n] = new_sent]
    BY <1>3
  <2> HIDE DEF new_sent
  <2> QED
    BY <1>1, <2>3, <2>4 DEF MemoryInv
<1>18. got' \in [Node -> [Session -> Seq(Data)]]
  <2>1. \A s \in Session : got[n][s] \in Seq(Data)
    BY <1>1 DEF MemoryInv
  <2>2. ASSUME NEW s \in Session, s \in Live(n)
        PROVE  got[n][s] \o SubSeq(conns[n][s].outBuf, 1, Moved(write[s])) \in Seq(Data)
    <3>1. conns[n][s] # NoConn /\ write[s] \in WriteResults(n, s)
      BY <1>3, <2>2 DEF Live
    <3>2. Moved(write[s]) \in 0..Len(conns[n][s].outBuf)
      BY <1>1, <3>1, WriteBounds
    <3>3. conns[n][s] \in Record(Id \cup {NoId}, Data, Data)
      BY <1>1, <3>1 DEF MemoryInv, Connections
    <3>4. conns[n][s].outBuf \in Seq(Data)
      BY <3>3, RecordFields
    <3>5. SubSeq(conns[n][s].outBuf, 1, Moved(write[s])) \in Seq(Data)
      BY <3>2, <3>4, SeqFirst
    <3> QED
      BY <2>1, <3>5, ConcatProperties
  <2> DEFINE new_got == [s \in Session |-> IF s \in Live(n)
                               THEN got[n][s] \o SubSeq(conns[n][s].outBuf, 1, Moved(write[s]))
                               ELSE got[n][s]]
  <2>3. new_got \in [Session -> Seq(Data)]
    BY <2>1, <2>2
  <2>4. got' = [got EXCEPT ![n] = new_got]
    BY <1>3
  <2> HIDE DEF new_got
  <2> QED
    BY <1>1, <2>3, <2>4 DEF MemoryInv
<1>19. MemoryInv'
  BY <1>1, <1>4, <1>5, <1>8, <1>14, <1>15, <1>16, <1>17, <1>18 DEF MemoryInv
(* The rest.                                                                *)
<1>20. ArrayInv'
  <2> SUFFICES ASSUME NEW k \in Node
               PROVE  ArrayRight(k)'
    BY DEF ArrayInv
  <2>1. ArrayRight(k)
    BY DEF Inv, ArrayInv
  <2>2. CASE k = n
    <3>1. \A i \in Id : sorted[n][i] = NoSession
      BY <1>1, <2>1, <2>2 DEF ArrayRight
    <3> QED
      BY <1>4, <2>2, <3>1 DEF ArrayRight
  <2>3. CASE k # n
    <3>1. sorted'[k] = sorted[k] /\ phase'[k] = phase[k] /\ conns'[k] = conns[k]
      BY <1>1, <1>3, <1>4, <1>5, <2>3 DEF MemoryInv
    <3> QED
      BY <1>1, <2>1, <3>1, ArrayKept
  <2> QED
    BY <2>2, <2>3
<1>21. FrameInv'
  <2>1. \A j \in Node : IsRunning(j)' => IsRunning(j)
    BY <1>1, <1>5, RunningOnes DEF MemoryInv, IsRunning
  <2>2. tun'[m] = tun[m] /\ tun'[n] = served /\ sendingTo' = sendingTo
    BY <1>1, <1>2, <1>4, <1>14 DEF MemoryInv
  <2>3. ASSUME IsRunning(n)'
        PROVE  Flows(n, m)'
    <3>1. Flows(n, m)
      BY <2>1, <2>3 DEF Inv, FrameInv, m
    <3>2. PICK p \in Expecting, q \in Expecting, x \in Expecting :
            /\ Parses(tun[n].inBuf, Expected(n), p) /\ Parses(wire[m], p, q)
            /\ Parses(tun[m].outBuf, q, x) /\ (IsRunning(m) => x = "start")
      BY <3>1 DEF Flows
    <3>3. PICK u \in Expecting :
            /\ Parses(tun[n].inBuf \o SubSeq(wire[m], 1, Moved(r)), Expected(n), u)
            /\ Parses(SubSeq(wire[m], Moved(r) + 1, Len(wire[m])), u, q)
      BY <1>9, <1>10, <3>2, ShiftParses
    <3>4. Parses(tun'[n].inBuf, Expected(n)', u)
      BY <1>13, <2>2, <3>3 DEF Joined, bytes, Expected
    <3>5. Parses(wire'[m], u, q) /\ Parses(tun'[m].outBuf, q, x) /\ (IsRunning(m)' => x = "start")
      BY <1>2, <1>15, <2>1, <2>2, <3>2, <3>3
    <3> QED
      BY <3>2, <3>4, <3>5 DEF Flows
  <2>4. ASSUME IsRunning(m)'
        PROVE  Flows(m, n)'
    <3>1. Flows(m, n)
      BY <1>2, <2>1, <2>4 DEF Inv, FrameInv
    <3>2. PICK p \in Expecting, q \in Expecting, x \in Expecting :
            /\ Parses(tun[m].inBuf, Expected(m), p) /\ Parses(wire[n], p, q)
            /\ Parses(tun[n].outBuf, q, x) /\ (IsRunning(n) => x = "start")
      BY <3>1 DEF Flows
    <3>3. PICK u \in Expecting :
            /\ Parses(wire[n] \o SubSeq(tun[n].outBuf, 1, Moved(w)), p, u)
            /\ Parses(SubSeq(tun[n].outBuf, Moved(w) + 1, Len(tun[n].outBuf)), u, x)
      BY <1>9, <1>11, <3>2, ShiftParses
    <3>4. Parses(tun'[m].inBuf, Expected(m)', p)
      BY <2>2, <3>2 DEF Expected
    <3>5. Parses(wire'[n], p, u)
      BY <1>15, <3>3 DEF out
    <3>6. Parses(tun'[n].outBuf, u, x) /\ (IsRunning(n)' => x = "start")
      BY <1>13, <2>1, <2>2, <3>2, <3>3 DEF Rest
    <3> QED
      BY <3>2, <3>3, <3>4, <3>5, <3>6 DEF Flows
  <2> SUFFICES ASSUME NEW k \in Node, IsRunning(k)'
               PROVE  Flows(k, Other(k))'
    BY DEF FrameInv
  <2> QED
    BY <1>2, <2>3, <2>4 DEF m
<1>22. ServerInv'
  <2>1. ServerInv
    BY DEF Inv
  <2>2. ASSUME NEW s \in Session, conns'["server"][s] # NoConn
        PROVE  conns["server"][s] # NoConn /\ conns'["server"][s].id = conns["server"][s].id
    <3>1. CASE n = "server"
      <4>1. new = 0
        BY <1>3, <3>1
      <4>2. CASE s \in Live(n)
        <5>1. conns'["server"][s] = Settle(Serve(conns[n][s], Arriving(n, s, read[s]),
                                                 read[s], write[s], BufSize))
          BY <1>1, <1>3, <3>1, <4>2 DEF MemoryInv
        <5> QED
          BY <1>6, <2>2, <3>1, <4>2, <5>1 DEF Live
      <4>3. CASE s \notin Live(n)
        <5>1. conns'["server"][s] = conns["server"][s]
          BY <1>1, <1>3, <3>1, <4>1, <4>3 DEF MemoryInv
        <5> QED
          BY <2>2, <5>1
      <4> QED
        BY <4>2, <4>3
    <3>2. CASE n # "server"
      BY <1>1, <1>3, <2>2, <3>2 DEF MemoryInv, Node
    <3> QED
      BY <3>1, <3>2
  <2> QED
    BY <2>1, <2>2, ServerKept
<1>23. NoBadStart'
  BY <1>1, <1>5, RunningOnes DEF Inv, NoBadStart, MemoryInv
<1> QED
  BY <1>19, <1>20, <1>21, <1>22, <1>23 DEF Inv
-----------------------------------------------------------------------------
(* sort_connections                                                         *)

LEMMA MaxOfSessions ==
  ASSUME NEW T \in SUBSET Session, T # {}
  PROVE  Max(T) \in T
<1> DEFINE U == {Sessions - t : t \in T}
<1>1. Sessions \in Nat /\ \A t \in T : t \in 1..Sessions
  BY Constants DEF Session
<1>2. U \in SUBSET Nat /\ U # {}
  BY <1>1
<1>3. PICK u \in U : \A v \in U : u <= v
  BY <1>2, LeastNat
<1>4. PICK x \in T : u = Sessions - x
  BY <1>3
<1>5. \A y \in T : x >= y
  <2> SUFFICES ASSUME NEW y \in T
               PROVE  x >= y
    OBVIOUS
  <2>1. Sessions - y \in U
    OBVIOUS
  <2>2. u <= Sessions - y
    BY <1>3, <2>1
  <2> QED
    BY <1>1, <1>4, <2>2
<1> QED
  BY <1>5 DEF Max

LEMMA MinOfNats ==
  ASSUME NEW T \in SUBSET Nat, T # {}
  PROVE  Min(T) \in T /\ \A t \in T : Min(T) <= t
<1>1. PICK x \in T : \A y \in T : x <= y
  BY LeastNat
<1> QED
  BY <1>1 DEF Min

(* The identifiers popped are on the stack.                                 *)
LEMMA RankIs ==
  ASSUME NEW n \in Node, NEW s \in Session, s \in Nameless(n)
  PROVE  Rank(n, s) \in Nat /\ Rank(n, s) > 0
<1> DEFINE T == {t \in Nameless(n) : t <= s}
<1>1. s \in Nat /\ Sessions \in Nat
  BY Constants DEF Session
<1>2. T \subseteq 1..Sessions /\ s \in T
  BY <1>1 DEF Nameless, Live, Session
<1>3. IsFiniteSet(1..Sessions)
  BY <1>1, FS_Interval
<1>4. IsFiniteSet(T)
  BY <1>2, <1>3, FS_Subset
<1>5. Cardinality(T) \in Nat /\ Cardinality(T) # 0
  BY <1>2, <1>4, FS_CardinalityType, FS_EmptySet
<1> QED
  BY <1>5 DEF Rank

LEMMA WithIdKeeps ==
  ASSUME MemoryInv, NEW n \in Node, NEW s \in Session
  PROVE  /\ WithId(n, s) \in Connections \cup {NoConn}
         /\ WithId(n, s) = NoConn <=> conns[n][s] = NoConn
         /\ s \notin Nameless(n) => WithId(n, s) = conns[n][s]
<1> DEFINE c == conns[n][s]
<1>1. c \in Connections \cup {NoConn} /\ freeIds \in Stacks
  BY DEF MemoryInv
<1>2. CASE ~Named(n, s)
  <2>1. WithId(n, s) = c
    BY <1>2 DEF WithId
  <2> QED
    BY <1>1, <2>1
<1>3. CASE Named(n, s)
  <2> DEFINE i == freeIds[Len(freeIds) + 1 - Rank(n, s)]
             d == [c EXCEPT !.id = i]
  <2>1. s \in Nameless(n) /\ c # NoConn /\ c \in Connections /\ Rank(n, s) <= Len(freeIds)
    BY <1>1, <1>3 DEF Named, Nameless, Live
  <2>2. freeIds \in Seq(Id) /\ Len(freeIds) \in Nat
    BY <1>1 DEF Stacks
  <2>3. i \in Id
    <3>1. Rank(n, s) \in Nat /\ Rank(n, s) > 0
      BY <2>1, RankIs
    <3>2. Len(freeIds) + 1 - Rank(n, s) \in 1..Len(freeIds)
      BY <2>1, <2>2, <3>1
    <3> QED
      BY <2>2, <3>2, ElementOfSeq
  <2>4. WithId(n, s) = d
    BY <1>3 DEF WithId
  <2> HIDE DEF c, i
  <2>5. /\ c \in Record(Id \cup {NoId}, Data, Data) /\ OutputEndsRightly(c)
        /\ Len(c.inBuf) <= BufSize /\ Len(c.outBuf) <= BufSize
    BY <2>1 DEF Connections
  <2>6. /\ d \in Record(Id \cup {NoId}, Data, Data) /\ d.out = c.out
        /\ d.state = c.state /\ d.inBuf = c.inBuf /\ d.outBuf = c.outBuf
    BY <2>3, <2>5 DEF Record
  <2>7. d \in Connections
    <3>1. OutputEndsRightly(d)
      BY <2>5, <2>6 DEF OutputEndsRightly
    <3> HIDE DEF d
    <3> QED
      BY <2>5, <2>6, <3>1 DEF Connections
  <2> QED
    BY <2>1, <2>4, <2>7, NoConnIsNone DEF c
<1> QED
  BY <1>2, <1>3

LEMMA SortKeeps ==
  ASSUME Inv, NEW n \in Node, SortConnections(n)
  PROVE  Inv'
<1>1. MemoryInv /\ phase[n] = "sort" /\ "sort" \in Running /\ "state" \in Running
  BY DEF Inv, SortConnections, Running
<1>2. UNCHANGED <<tun, wire, signalled, accepted, queue, sendingTo, current, visited, sent, got>>
  BY DEF SortConnections, kernel, pump, history
<1>3. phase' = [phase EXCEPT ![n] = "state"] /\ phase' \in [Node -> Phase]
  BY <1>1, RunningOnes DEF SortConnections, Goto, MemoryInv
<1>4. conns' = [conns EXCEPT ![n] = [s \in Session |-> WithId(n, s)]]
      /\ conns' \in [Node -> [Session -> Connections \cup {NoConn}]]
  <2>1. \A s \in Session : WithId(n, s) \in Connections \cup {NoConn}
    BY <1>1, WithIdKeeps
  <2>2. conns' = [conns EXCEPT ![n] = [s \in Session |-> WithId(n, s)]]
    BY DEF SortConnections
  <2> QED
    BY <1>1, <2>1, <2>2 DEF MemoryInv
<1>5. freeIds' \in Stacks
  <2> DEFINE k == Cardinality({s \in Session : Named(n, s)})
             l == Len(freeIds) - k
  <2>1. freeIds \in Seq(Id) /\ Len(freeIds) \in Nat /\ Len(freeIds) <= MaxId
    BY <1>1 DEF MemoryInv, Stacks
  <2>2. k \in Nat
    <3>1. IsFiniteSet(1..Sessions)
      BY Constants, FS_Interval
    <3>2. {s \in Session : Named(n, s)} \subseteq 1..Sessions
      BY DEF Session
    <3> QED
      BY <3>1, <3>2, FS_Subset, FS_CardinalityType
  <2>3. freeIds' = SubSeq(freeIds, 1, l)
    BY DEF SortConnections
  <2> HIDE DEF k
  <2>4. CASE l >= 0
    <3>1. l \in 0..Len(freeIds)
      BY <2>1, <2>2, <2>4
    <3>2. SubSeq(freeIds, 1, l) \in Seq(Id) /\ Len(SubSeq(freeIds, 1, l)) = l
      BY <2>1, <3>1, SeqFirst
    <3> QED
      BY <2>1, <2>3, <3>1, <3>2, Constants DEF Stacks
  <2>5. CASE l < 0
    <3>1. l \in Int /\ ~(1 <= l)
      BY <2>1, <2>2, <2>5
    <3>2. SubSeq(freeIds, 1, l) \in Seq(Id) /\ Len(SubSeq(freeIds, 1, l)) = 0
      BY <2>1, <3>1, SubSeqProperties
    <3> QED
      BY <2>3, <3>2, Constants DEF Stacks
  <2> QED
    BY <2>1, <2>2, <2>4, <2>5
<1>6. ASSUME NEW i \in Id, Carriers(n, i) # {}
      PROVE  Max(Carriers(n, i)) \in Carriers(n, i)
  BY <1>6, MaxOfSessions DEF Carriers, Live
<1> DEFINE array == [i \in Id |-> IF Carriers(n, i) = {} THEN NoSession ELSE Max(Carriers(n, i))]
<1>7. sorted' = [sorted EXCEPT ![n] = array] /\ array \in [Id -> 0..Sessions]
      /\ sorted' \in [Node -> [Id -> 0..Sessions]]
  <2>1. \A i \in Id : Carriers(n, i) \subseteq 0..Sessions /\ NoSession \in 0..Sessions
    BY Constants DEF Carriers, Live, Session, NoSession
  <2>2. array \in [Id -> 0..Sessions]
    BY <1>6, <2>1
  <2>3. sorted' = [sorted EXCEPT ![n] = array]
    BY DEF SortConnections
  <2> QED
    BY <1>1, <2>2, <2>3 DEF MemoryInv
<1>8. MemoryInv'
  BY <1>1, <1>2, <1>3, <1>4, <1>5, <1>7 DEF MemoryInv
<1>9. ArrayInv'
  <2> SUFFICES ASSUME NEW k \in Node
               PROVE  ArrayRight(k)'
    BY DEF ArrayInv
  <2>1. ArrayRight(k)
    BY DEF Inv, ArrayInv
  <2>2. CASE k = n
    <3> SUFFICES ASSUME NEW i \in Id, sorted'[n][i] # NoSession
                 PROVE  /\ phase'[n] \in {"state", "recv", "cmds", "data"}
                        /\ conns'[n][sorted'[n][i]] # NoConn
                        /\ conns'[n][sorted'[n][i]].id \in Id
      BY <2>2 DEF ArrayRight
    <3> DEFINE s == sorted'[n][i]
    <3>1. s = array[i]
      BY <1>1, <1>7 DEF MemoryInv
    <3>2. Carriers(n, i) # {} /\ s = Max(Carriers(n, i))
      BY <3>1
    <3> HIDE DEF s, array
    <3>3. s \in Carriers(n, i)
      BY <1>6, <3>2
    <3>4. s \in Session /\ conns[n][s] # NoConn /\ WithId(n, s).id = i
      BY <3>3 DEF Carriers, Live
    <3>5. conns'[n][s] = WithId(n, s)
      BY <1>1, <1>4, <3>4 DEF MemoryInv
    <3>6. phase'[n] = "state"
      BY <1>1, <1>3 DEF MemoryInv
    <3> QED
      BY <1>1, <3>4, <3>5, <3>6, WithIdKeeps DEF s
  <2>3. CASE k # n
    <3>1. sorted'[k] = sorted[k] /\ phase'[k] = phase[k] /\ conns'[k] = conns[k]
      BY <1>1, <1>3, <1>4, <1>7, <2>3 DEF MemoryInv
    <3> QED
      BY <1>1, <2>1, <3>1, ArrayKept
  <2> QED
    BY <2>2, <2>3
<1>10. FrameInv'
  <2>1. \A k \in Node : IsRunning(k)' => IsRunning(k)
    BY <1>1, <1>3, RunningOnes DEF MemoryInv, IsRunning
  <2> QED
    BY <1>2, <2>1, FramesKept DEF Inv
<1>11. ServerInv'
  <2>1. ServerInv
    BY DEF Inv
  <2>2. ASSUME NEW s \in Session, conns'["server"][s] # NoConn
        PROVE  conns["server"][s] # NoConn /\ conns'["server"][s].id = conns["server"][s].id
    <3>1. CASE n = "server"
      <4>1. conns'["server"][s] = WithId(n, s)
        BY <1>1, <1>4, <3>1 DEF MemoryInv
      <4>2. conns["server"][s] # NoConn
        BY <1>1, <2>2, <3>1, <4>1, WithIdKeeps
      <4>3. conns["server"][s].id \in Id
        BY <2>1, <4>2 DEF ServerInv, Live
      <4>4. NoId \notin Id
        BY Constants DEF Id, NoId
      <4>5. s \notin Nameless(n)
        BY <3>1, <4>3, <4>4 DEF Nameless
      <4> QED
        BY <1>1, <3>1, <4>1, <4>2, <4>5, WithIdKeeps
    <3>2. CASE n # "server"
      BY <1>1, <1>4, <2>2, <3>2 DEF MemoryInv, Node
    <3> QED
      BY <3>1, <3>2
  <2> QED
    BY <2>1, <2>2, ServerKept
<1>12. NoBadStart'
  BY <1>1, <1>3, RunningOnes DEF Inv, NoBadStart, MemoryInv
<1> QED
  BY <1>8, <1>9, <1>10, <1>11, <1>12 DEF Inv
-----------------------------------------------------------------------------
(* handle_state_changes                                                     *)

LEMMA QueueKeeps ==
  ASSUME NEW q \in Queues
  PROVE  /\ \A c \in Commands : Len(q) < QueueSize => Append(q, c) \in Queues
         /\ q # <<>> => Tail(q) \in Queues /\ Head(q) \in Commands
<1>1. q \in Seq(Commands) /\ Len(q) \in Nat /\ Len(q) <= QueueSize /\ QueueSize \in Nat
  BY Constants DEF Queues
<1>2. ASSUME NEW c \in Commands, Len(q) < QueueSize
      PROVE  Append(q, c) \in Queues
  <2>1. Append(q, c) \in Seq(Commands) /\ Len(Append(q, c)) = Len(q) + 1
    BY <1>1, AppendProperties
  <2> QED
    BY <1>1, <1>2, <2>1 DEF Queues
<1>3. ASSUME q # <<>>
      PROVE  Tail(q) \in Queues /\ Head(q) \in Commands
  <2>1. Head(q) \in Commands /\ Tail(q) \in Seq(Commands) /\ Len(Tail(q)) = Len(q) - 1
    BY <1>1, <1>3, HeadTailProperties
  <2> QED
    BY <1>1, <2>1 DEF Queues
<1> QED
  BY <1>2, <1>3

LEMMA StackKeeps ==
  ASSUME NEW f \in Stacks, NEW i \in Id
  PROVE  Pushed(f, i) \in Stacks
<1>1. f \in Seq(Id) /\ Len(f) \in Nat /\ Len(f) <= MaxId /\ MaxId \in Nat
  BY Constants DEF Stacks
<1>2. Append(f, i) \in Seq(Id) /\ Len(Append(f, i)) = Len(f) + 1
  BY <1>1, AppendProperties
<1> QED
  BY <1>1, <1>2 DEF Pushed, Stacks

LEMMA ShutdownKeeps ==
  ASSUME Inv, NEW n \in Node, StateShutdown(n)
  PROVE  Inv'
<1>1. "stopped" \in Ended /\ "stopped" # BadStart
  BY Zenon DEF Ended, BadStart
<1> QED
  BY <1>1, EndKeeps DEF StateShutdown

(* Where the array points.                                                  *)
LEMMA ArrayPoints ==
  ASSUME Inv, NEW n \in Node, NEW i \in Id, sorted[n][i] # NoSession
  PROVE  /\ sorted[n][i] \in Session
         /\ conns[n][sorted[n][i]] \in Connections /\ conns[n][sorted[n][i]] # NoConn
         /\ conns[n][sorted[n][i]].id \in Id
<1>1. MemoryInv /\ ArrayRight(n)
  BY DEF Inv, ArrayInv
<1>2. sorted[n][i] \in 0..Sessions
  BY <1>1 DEF MemoryInv
<1>3. sorted[n][i] \in Session
  BY <1>2, Constants DEF Session, NoSession
<1>4. conns[n][sorted[n][i]] # NoConn /\ conns[n][sorted[n][i]].id \in Id
  BY <1>1 DEF ArrayRight
<1>5. conns[n][sorted[n][i]] \in Connections
  BY <1>1, <1>3, <1>4 DEF MemoryInv
<1> QED
  BY <1>3, <1>4, <1>5

(* One connection is changed and stays what it is.                          *)
LEMMA ChangeKeeps ==
  ASSUME Inv, NEW n \in Node, NEW s \in Session, NEW c \in Connections, conns[n][s] # NoConn,
         c.id = conns[n][s].id, conns' = [conns EXCEPT ![n][s] = c]
  PROVE  /\ conns' \in [Node -> [Session -> Connections \cup {NoConn}]]
         /\ \A k \in Node, t \in Session :
              /\ conns'[k][t] = NoConn <=> conns[k][t] = NoConn
              /\ conns[k][t] # NoConn => conns'[k][t].id = conns[k][t].id
         /\ ServerInv'
<1>1. conns \in [Node -> [Session -> Connections \cup {NoConn}]]
  BY DEF Inv, MemoryInv
<1>2. conns' \in [Node -> [Session -> Connections \cup {NoConn}]]
  BY <1>1
<1>3. ASSUME NEW k \in Node, NEW t \in Session
      PROVE  /\ conns'[k][t] = NoConn <=> conns[k][t] = NoConn
             /\ conns[k][t] # NoConn => conns'[k][t].id = conns[k][t].id
  <2>1. CASE k = n /\ t = s
    <3>1. conns'[k][t] = c
      BY <1>1, <2>1
    <3> QED
      BY <2>1, <3>1, NoConnIsNone
  <2>2. CASE ~(k = n /\ t = s)
    <3>1. conns'[k][t] = conns[k][t]
      BY <1>1, <2>2
    <3> QED
      BY <3>1
  <2> QED
    BY <2>1, <2>2
<1>4. ServerInv'
  <2>1. "server" \in Node
    BY DEF Node
  <2> QED
    BY <1>3, <2>1, ServerKept DEF Inv
<1> QED
  BY <1>2, <1>3, <1>4

LEMMA ReportKeeps ==
  ASSUME Inv, NEW n \in Node, Report(n)
  PROVE  Inv'
<1>1. MemoryInv /\ phase[n] = "state"
  BY DEF Inv, Report
<1>2. UNCHANGED <<phase, tun, wire, signalled, accepted, sendingTo, current, visited, sent, got>>
  BY DEF Report, kernel
<1> DEFINE i == Min(Reports(n))
           s == sorted[n][i]
           c == conns[n][s]
           cmd == NextReport(c)
<1>3. i \in Id /\ sorted[n][i] # NoSession /\ cmd # "none"
  <2>1. Reports(n) \subseteq Id /\ Id \subseteq Nat
    BY DEF Reports, Id
  <2>2. Reports(n) # {}
    BY DEF Report
  <2>3. i \in Reports(n)
    BY <2>1, <2>2, MinOfNats
  <2> QED
    BY <2>3 DEF Reports, Indexed
<1>4. /\ queue' = [queue EXCEPT ![n] = Append(@, Command(cmd, c, s))]
      /\ Len(queue[n]) < QueueSize
      /\ conns' = [conns EXCEPT ![n][s] = AfterReport(c, cmd)]
      /\ \/ /\ freeIds' = freeIds \/ freeIds' = Pushed(freeIds, i)
            /\ sorted' = [sorted EXCEPT ![n][i] = NoSession]
         \/ freeIds' = freeIds /\ sorted' = sorted
  BY DEF Report, Queued, HasRoom, Freed
<1> HIDE DEF i
<1>5. s \in Session /\ c \in Connections /\ c # NoConn /\ c.id \in Id
  BY <1>3, ArrayPoints
<1> HIDE DEF s, c
<1>6. cmd \in {"NEW", "CLOSE", "CLOSE_SRC_TO_DST"}
  BY <1>3, <1>5, NextReportIsSent
<1> HIDE DEF cmd
<1>7. AfterReport(c, cmd) \in Connections /\ AfterReport(c, cmd).id = c.id
  BY <1>5, <1>6, AfterReportKeeps
<1>8. /\ conns' \in [Node -> [Session -> Connections \cup {NoConn}]]
      /\ \A k \in Node, t \in Session :
           /\ conns'[k][t] = NoConn <=> conns[k][t] = NoConn
           /\ conns[k][t] # NoConn => conns'[k][t].id = conns[k][t].id
      /\ ServerInv'
  <2>1. conns[n][s] # NoConn /\ AfterReport(c, cmd).id = conns[n][s].id
    BY <1>5, <1>7 DEF c
  <2> QED
    BY <1>4, <1>5, <1>7, <2>1, ChangeKeeps
<1>9. queue' \in [Node -> Queues]
  <2>1. Command(cmd, c, s) \in Commands
    BY <1>5, <1>6 DEF Command, Commands, Cmd
  <2>2. queue[n] \in Queues
    BY <1>1 DEF MemoryInv
  <2>3. Append(queue[n], Command(cmd, c, s)) \in Queues
    BY <1>4, <2>1, <2>2, QueueKeeps
  <2> QED
    BY <1>1, <1>4, <2>3 DEF MemoryInv
<1>10. freeIds' \in Stacks
  BY <1>1, <1>3, <1>4, StackKeeps DEF MemoryInv
<1>11. /\ sorted' \in [Node -> [Id -> 0..Sessions]]
       /\ \A k \in Node, j \in Id : sorted'[k][j] = sorted[k][j] \/ sorted'[k][j] = NoSession
  <2>1. NoSession \in 0..Sessions
    BY Constants DEF NoSession
  <2>2. sorted \in [Node -> [Id -> 0..Sessions]]
    BY <1>1 DEF MemoryInv
  <2>3. CASE sorted' = sorted
    BY <2>2, <2>3
  <2>4. CASE sorted' = [sorted EXCEPT ![n][i] = NoSession]
    BY <1>3, <2>1, <2>2, <2>4
  <2> QED
    BY <1>4, <2>3, <2>4
<1>12. MemoryInv'
  BY <1>1, <1>2, <1>8, <1>9, <1>10, <1>11 DEF MemoryInv
<1>13. ArrayInv'
  <2> SUFFICES ASSUME NEW k \in Node
               PROVE  ArrayRight(k)'
    BY DEF ArrayInv
  <2>1. ArrayRight(k)
    BY DEF Inv, ArrayInv
  <2> QED
    BY <1>1, <1>2, <1>8, <1>11, <2>1, ArrayKept
<1>14. FrameInv'
  BY <1>2, FramesKept DEF Inv, IsRunning
<1>15. NoBadStart'
  BY <1>2 DEF Inv, NoBadStart
<1> QED
  BY <1>8, <1>12, <1>13, <1>14, <1>15 DEF Inv
-----------------------------------------------------------------------------
(* recv_from_tunnel                                                         *)

LEMMA Decoding ==
  ASSUME NEW buf \in Seq(Byte), NEW q, Parses(buf, "data", q), NEW free \in Nat
  PROVE  LET m    == Decodable(buf, free)
             used == IF EndReached(buf, free) THEN m + 1 ELSE m
             rest == SubSeq(buf, used + 1, Len(buf))
         IN  /\ SubSeq(buf, 1, m) \in Seq(Data) /\ Len(SubSeq(buf, 1, m)) <= free
             /\ rest \in Seq(Byte) /\ Len(rest) <= Len(buf)
             /\ EndReached(buf, free) => Parses(rest, "start", q)
             /\ ~EndReached(buf, free) => Parses(rest, "data", q)
<1> DEFINE e == EndAt(buf)
           m == Decodable(buf, free)
<1>1. Len(buf) \in Nat /\ e \in 1..(Len(buf) + 1)
      /\ (\A i \in 1..Len(buf) : i < e => buf[i] # END) /\ (e <= Len(buf) => buf[e] = END)
  BY FirstEnd
<1>2. m \in {e - 1, free} /\ m <= e - 1 /\ m <= free /\ m \in 0..Len(buf)
  <2>1. e - 1 \in Nat
    BY <1>1
  <2>2. m \in {e - 1, free} /\ m <= e - 1 /\ m <= free
    BY <2>1, LeastIs DEF Decodable
  <2> QED
    BY <1>1, <2>1, <2>2
<1> HIDE DEF e, m
<1>3. \A i \in 1..m : buf[i] # END
  BY <1>1, <1>2
<1>4. SubSeq(buf, 1, m) \in Seq(Data) /\ Parses(SubSeq(buf, m + 1, Len(buf)), "data", q)
  BY <1>2, <1>3, DataRun
<1>5. Len(SubSeq(buf, 1, m)) = m
  BY <1>2, SeqFirst
<1>6. CASE EndReached(buf, free)
  <2>1. e <= Len(buf) /\ e - 1 < free
    BY <1>6 DEF EndReached, e
  <2>2. m = e - 1 /\ m \in 0..(Len(buf) - 1) /\ buf[m + 1] = END /\ m + 1 \in 0..Len(buf)
    BY <1>1, <1>2, <2>1
  <2>3. Parses(SubSeq(buf, (m + 1) + 1, Len(buf)), "start", q)
    BY <1>3, <2>2, FrameEnd
  <2>4. SubSeq(buf, (m + 1) + 1, Len(buf)) \in Seq(Byte)
        /\ Len(SubSeq(buf, (m + 1) + 1, Len(buf))) = Len(buf) - (m + 1)
    BY <2>2, SeqRest
  <2>5. Len(SubSeq(buf, (m + 1) + 1, Len(buf))) <= Len(buf)
    BY <1>1, <2>2, <2>4
  <2> QED
    BY <1>2, <1>4, <1>5, <1>6, <2>3, <2>4, <2>5 DEF m
<1>7. CASE ~EndReached(buf, free)
  <2>1. SubSeq(buf, m + 1, Len(buf)) \in Seq(Byte)
        /\ Len(SubSeq(buf, m + 1, Len(buf))) = Len(buf) - m
    BY <1>2, SeqRest
  <2>2. Len(SubSeq(buf, m + 1, Len(buf))) <= Len(buf)
    BY <1>1, <1>2, <2>1
  <2> QED
    BY <1>2, <1>4, <1>5, <1>7, <2>1, <2>2 DEF m
<1> QED
  BY <1>6, <1>7

LEMMA TunnelFields ==
  ASSUME MemoryInv, NEW n \in Node
  PROVE  /\ tun[n] \in Tunnels /\ tun[n] \in Record({0}, Byte, Byte)
         /\ tun[n].inBuf \in Seq(Byte) /\ tun[n].outBuf \in Seq(Byte)
         /\ Len(tun[n].inBuf) \in Nat /\ Len(tun[n].outBuf) \in Nat
         /\ Len(tun[n].inBuf) <= TunnelSize /\ Len(tun[n].outBuf) <= TunnelSize
<1>1. tun[n] \in Tunnels
  BY DEF MemoryInv
<1>2. /\ tun[n] \in Record({0}, Byte, Byte)
      /\ Len(tun[n].inBuf) <= TunnelSize /\ Len(tun[n].outBuf) <= TunnelSize
  BY <1>1 DEF Tunnels
<1>3. tun[n].inBuf \in Seq(Byte) /\ tun[n].outBuf \in Seq(Byte)
  BY <1>2, RecordFields
<1> QED
  BY <1>1, <1>2, <1>3

(* The receiver takes bytes out of the tunnel.                              *)
LEMMA TakeKeeps ==
  ASSUME Inv, NEW n \in Node, NEW t \in Seq(Byte), Len(t) <= Len(tun[n].inBuf),
         tun' = [tun EXCEPT ![n].inBuf = t], wire' = wire, IsRunning(n),
         \A k \in Node : k # n => sendingTo'[k] = sendingTo[k],
         \A k \in Node : IsRunning(k)' => IsRunning(k),
         \A q \in Expecting :
           Parses(tun[n].inBuf, Expected(n), q) => Parses(t, Expected(n)', q)
  PROVE  tun' \in [Node -> Tunnels] /\ FrameInv'
<1>1. MemoryInv
  BY DEF Inv
<1>2. /\ tun[n] \in Tunnels /\ tun[n] \in Record({0}, Byte, Byte) /\ "DELETE" \notin tun[n].state
      /\ Len(tun[n].inBuf) \in Nat /\ Len(tun[n].inBuf) <= TunnelSize
      /\ Len(tun[n].outBuf) <= TunnelSize /\ TunnelSize \in Nat /\ Len(t) \in Nat
  BY <1>1, TunnelFields, Constants DEF Tunnels
<1> DEFINE d == [tun[n] EXCEPT !.inBuf = t]
<1>3. /\ d \in Record({0}, Byte, Byte) /\ d.state = tun[n].state
      /\ d.inBuf = t /\ d.outBuf = tun[n].outBuf
  BY <1>2 DEF Record
<1>4. tun' = [tun EXCEPT ![n] = d]
  BY <1>1 DEF MemoryInv
<1> HIDE DEF d
<1>5. d \in Tunnels
  BY <1>2, <1>3 DEF Tunnels
<1>6. tun' \in [Node -> Tunnels] /\ tun'[n] = d /\ \A k \in Node : k # n => tun'[k] = tun[k]
  BY <1>1, <1>4, <1>5 DEF MemoryInv
<1>7. ASSUME NEW k \in Node, IsRunning(k)'
      PROVE  Flows(k, Other(k))'
  <2>1. Other(k) \in Node /\ Other(k) # k /\ IsRunning(k)
    BY <1>7, Nodes
  <2>2. Flows(k, Other(k))
    BY <2>1 DEF Inv, FrameInv
  <2>3. CASE k = n
    <3>1. PICK p \in Expecting, q \in Expecting, r \in Expecting :
            /\ Parses(tun[n].inBuf, Expected(n), p) /\ Parses(wire[Other(n)], p, q)
            /\ Parses(tun[Other(n)].outBuf, q, r) /\ (IsRunning(Other(n)) => r = "start")
      BY <2>2, <2>3 DEF Flows
    <3>2. Parses(tun'[n].inBuf, Expected(n)', p)
      BY <1>3, <1>6, <3>1
    <3>3. /\ Parses(wire'[Other(n)], p, q) /\ Parses(tun'[Other(n)].outBuf, q, r)
          /\ (IsRunning(Other(n))' => r = "start")
      BY <1>6, <2>1, <2>3, <3>1
    <3> QED
      BY <2>3, <3>1, <3>2, <3>3 DEF Flows
  <2>4. CASE k # n
    <3>1. Other(k) = n
      BY <2>1, <2>4, Nodes
    <3>2. tun'[k].inBuf = tun[k].inBuf /\ tun'[n].outBuf = tun[n].outBuf
          /\ sendingTo'[k] = sendingTo[k]
      BY <1>3, <1>6, <2>4
    <3> QED
      BY <2>1, <2>2, <3>1, <3>2, FlowsKept
  <2> QED
    BY <2>3, <2>4
<1> QED
  BY <1>6, <1>7 DEF FrameInv

LEMMA DecodedKeeps ==
  ASSUME Inv, NEW n \in Node, NEW s \in Session, conns[n][s] \in Connections,
         conns[n][s] # NoConn, NEW buf \in Seq(Byte), NEW q, Parses(buf, "data", q),
         Decoded(n, s, buf)
  PROVE  /\ BufSize - Len(conns[n][s].outBuf) \in Nat
         /\ conns' \in [Node -> [Session -> Connections \cup {NoConn}]]
         /\ \A k \in Node, t \in Session :
              /\ conns'[k][t] = NoConn <=> conns[k][t] = NoConn
              /\ conns[k][t] # NoConn => conns'[k][t].id = conns[k][t].id
         /\ ServerInv'
<1> DEFINE c == conns[n][s]
           free == BufSize - Len(c.outBuf)
           bytes == SubSeq(buf, 1, Decodable(buf, free))
           d == [c EXCEPT !.outBuf = @ \o bytes]
<1>1. Len(c.outBuf) \in Nat /\ Len(c.outBuf) <= BufSize
  <2>1. c \in Record(Id \cup {NoId}, Data, Data) /\ Len(c.outBuf) <= BufSize
    BY DEF Connections
  <2> QED
    BY <2>1, RecordFields
<1>2. free \in Nat
  BY <1>1, Constants
<1>3. bytes \in Seq(Data) /\ Len(bytes) <= free
  BY <1>2, Decoding
<1>4. conns' = [conns EXCEPT ![n][s] = d]
  BY DEF Decoded, Inv, MemoryInv
<1>5. Len(c.outBuf) + Len(bytes) <= BufSize
  <2> HIDE DEF bytes
  <2>1. Len(bytes) \in Nat
    BY <1>3
  <2> QED
    BY <1>1, <1>3, <2>1, Constants
<1>6. d \in Connections /\ d.id = c.id
  <2> HIDE DEF bytes, c, free
  <2>1. c \in Connections
    BY DEF c
  <2> QED
    BY <1>3, <1>5, <2>1, GainKeeps
<1> HIDE DEF d
<1> QED
  BY <1>2, <1>4, <1>6, ChangeKeeps

(* What is read for n, up to some state of the receiver.                    *)
LEMMA InputParses ==
  ASSUME Inv, NEW n \in Node, IsRunning(n)
  PROVE  \E q \in Expecting : Parses(tun[n].inBuf, Expected(n), q)
BY DEF Inv, FrameInv, Flows

LEMMA ContinueKeeps ==
  ASSUME Inv, NEW n \in Node, ContinueFrame(n)
  PROVE  Inv'
<1> DEFINE buf == TunnelIn(n)
           s == sorted[n][sendingTo[n]]
           free == BufSize - Len(conns[n][s].outBuf)
           m == Decodable(buf, free)
           used == IF EndReached(buf, free) THEN m + 1 ELSE m
           rest == SubSeq(buf, used + 1, Len(buf))
<1>1. /\ MemoryInv /\ phase[n] = "recv" /\ sendingTo[n] # 0 /\ s # NoSession
      /\ "recv" \in Running /\ "cmds" \in Running
  BY DEF Inv, ContinueFrame, Receiving, Running
<1>2. UNCHANGED <<wire, signalled, accepted, freeIds, queue, current, sorted, visited, sent, got>>
  BY DEF ContinueFrame, kernel, local, history
<1>3. sendingTo[n] \in Id /\ IsRunning(n) /\ Expected(n) = "data"
  <2>1. sendingTo[n] \in 0..MaxId
    BY <1>1 DEF MemoryInv
  <2> QED
    BY <1>1, <2>1, RunningOnes, Constants DEF Id, IsRunning, Expected
<1>4. s \in Session /\ conns[n][s] \in Connections /\ conns[n][s] # NoConn
  BY <1>1, <1>3, ArrayPoints
<1>5. /\ Decoded(n, s, buf)
      /\ \/ EndReached(buf, free) /\ sendingTo' = [sendingTo EXCEPT ![n] = 0] /\ phase' = phase
         \/ ~EndReached(buf, free) /\ sendingTo' = sendingTo
            /\ phase' = [phase EXCEPT ![n] = "cmds"]
  BY DEF ContinueFrame, Goto
<1>6. buf \in Seq(Byte)
  BY <1>1, TunnelFields DEF TunnelIn
<1>7. PICK q \in Expecting : Parses(buf, "data", q)
  BY <1>3, InputParses DEF TunnelIn
<1> HIDE DEF s
<1>8. /\ free \in Nat
      /\ conns' \in [Node -> [Session -> Connections \cup {NoConn}]]
      /\ \A k \in Node, t \in Session :
           /\ conns'[k][t] = NoConn <=> conns[k][t] = NoConn
           /\ conns[k][t] # NoConn => conns'[k][t].id = conns[k][t].id
      /\ ServerInv'
  <2> HIDE DEF buf
  <2> QED
    BY <1>4, <1>5, <1>6, <1>7, DecodedKeeps
<1>9. tun' = [tun EXCEPT ![n].inBuf = rest]
  BY <1>5 DEF Decoded
<1> HIDE DEF buf, free
<1>10. ASSUME NEW p \in Expecting, Parses(buf, "data", p)
       PROVE  /\ rest \in Seq(Byte) /\ Len(rest) <= Len(buf)
              /\ EndReached(buf, free) => Parses(rest, "start", p)
              /\ ~EndReached(buf, free) => Parses(rest, "data", p)
  BY <1>6, <1>8, <1>10, Decoding
<1> HIDE DEF used, m, rest
<1>11. /\ sendingTo' \in [Node -> 0..MaxId] /\ \A k \in Node : k # n => sendingTo'[k] = sendingTo[k]
       /\ EndReached(buf, free) => Expected(n)' = "start"
       /\ ~EndReached(buf, free) => Expected(n)' = "data"
  <2>1. 0 \in 0..MaxId /\ sendingTo \in [Node -> 0..MaxId]
    BY <1>1, Constants DEF MemoryInv
  <2> QED
    BY <1>1, <1>5, <2>1 DEF Expected
<1>12. /\ phase' \in [Node -> Phase]
       /\ \A k \in Node : phase'[k] = phase[k] \/ phase'[k] = "cmds"
  BY <1>1, <1>5, RunningOnes DEF MemoryInv
<1>13. \A k \in Node : IsRunning(k)' => IsRunning(k)
  <2>1. phase \in [Node -> Phase]
    BY <1>1 DEF MemoryInv
  <2> QED
    BY <1>1, <1>3, <1>5, <2>1 DEF IsRunning
<1>14. tun' \in [Node -> Tunnels] /\ FrameInv'
  <2>1. rest \in Seq(Byte) /\ Len(rest) <= Len(tun[n].inBuf)
    BY <1>7, <1>10 DEF buf, TunnelIn
  <2>2. \A p \in Expecting : Parses(tun[n].inBuf, Expected(n), p) => Parses(rest, Expected(n)', p)
    BY <1>3, <1>10, <1>11 DEF buf, TunnelIn
  <2> QED
    BY <1>2, <1>3, <1>9, <1>11, <1>13, <2>1, <2>2, TakeKeeps
<1>15. MemoryInv'
  BY <1>1, <1>2, <1>8, <1>11, <1>12, <1>14 DEF MemoryInv
<1>16. ArrayInv'
  <2> SUFFICES ASSUME NEW k \in Node
               PROVE  ArrayRight(k)'
    BY DEF ArrayInv
  <2>1. ArrayRight(k)
    BY DEF Inv, ArrayInv
  <2> QED
    BY <1>1, <1>2, <1>8, <1>12, <2>1, ArrayKept
<1>17. NoBadStart'
  BY <1>1, <1>12, RunningOnes DEF Inv, NoBadStart
<1> QED
  BY <1>8, <1>14, <1>15, <1>16, <1>17 DEF Inv

(* The receiver finds the beginning of a frame where it looks for one.      *)
LEMMA HeadIs ==
  ASSUME Inv, NEW n \in Node, FrameAvailable(n)
  PROVE  /\ WellStarted(n) /\ FrameId(n) \in 0..MaxId /\ IsRunning(n)
         /\ \A q \in Expecting : Parses(tun[n].inBuf, Expected(n), q) =>
              /\ FrameId(n) # 0 =>
                   Parses(SubSeq(tun[n].inBuf, 3, Len(tun[n].inBuf)), "data", q)
              /\ FrameId(n) = 0 =>
                   /\ tun[n].inBuf[3] \in {"cmd"} \X Cmd \X Session
                   /\ tun[n].inBuf[4] \in {"arg"} \X Id
                   /\ Len(tun[n].inBuf) >= CommandSize =>
                        Parses(SubSeq(tun[n].inBuf, CommandSize + 1, Len(tun[n].inBuf)),
                               "start", q)
<1> DEFINE buf == tun[n].inBuf
<1>1. phase[n] = "recv" /\ "recv" \in Running /\ sendingTo[n] = 0 /\ Len(buf) > 3
  BY DEF FrameAvailable, Receiving, TunnelIn, Running
<1>2. IsRunning(n) /\ Expected(n) = "start"
  BY <1>1, RunningOnes DEF IsRunning, Expected
<1>3. buf \in Seq(Byte)
  BY TunnelFields DEF Inv
<1>4. PICK q0 \in Expecting : Parses(buf, "start", q0)
  BY <1>2, InputParses
<1> HIDE DEF buf
<1>5. ASSUME NEW q \in Expecting, Parses(buf, "start", q)
      PROVE  /\ buf[1] = END /\ buf[2][2] \in 0..MaxId
             /\ buf[2][2] # 0 => Parses(SubSeq(buf, 3, Len(buf)), "data", q)
             /\ buf[2][2] = 0 =>
                   /\ buf[3] \in {"cmd"} \X Cmd \X Session
                   /\ buf[4] \in {"arg"} \X Id
                   /\ Len(buf) >= CommandSize =>
                        Parses(SubSeq(buf, CommandSize + 1, Len(buf)), "start", q)
  <2>1. buf[1] = END
    BY <1>1, <1>3, <1>5, FrameHead
  <2>2. PICK i \in 0..MaxId :
              /\ buf[2] = IdByte(i)
              /\ i # 0 => i \in Id /\ Parses(SubSeq(buf, 3, Len(buf)), "data", q)
              /\ i = 0 => /\ buf[3] \in {"cmd"} \X Cmd \X Session /\ buf[4] \in {"arg"} \X Id
                          /\ Len(buf) >= CommandSize =>
                               Parses(SubSeq(buf, CommandSize + 1, Len(buf)), "start", q)
    BY <1>1, <1>3, <1>5, FrameHead
  <2>3. buf[2][2] = i
    BY <2>2, Bytes
  <2> QED
    BY <2>1, <2>2, <2>3
<1>6. WellStarted(n) /\ FrameId(n) = buf[2][2] /\ FrameId(n) \in 0..MaxId
  BY <1>4, <1>5 DEF WellStarted, FrameId, TunnelIn, buf
<1> QED
  BY <1>2, <1>5, <1>6 DEF buf

LEMMA FailsKeeps ==
  ASSUME Inv, NEW n \in Node, ReceiveFails(n)
  PROVE  Inv'
<1>1. ~(FrameAvailable(n) /\ ~WellStarted(n))
  BY HeadIs
<1>2. Failure(n) # "none" /\ End(n, Failure(n))
  BY Zenon DEF ReceiveFails
<1> DEFINE nullp == Receiving(n) /\ sendingTo[n] # 0 /\ sorted[n][sendingTo[n]] = NoSession
           bad == FrameAvailable(n) /\ ~WellStarted(n)
           gone == FrameAvailable(n) /\ WellStarted(n) /\ FrameId(n) # 0
                   /\ sorted[n][FrameId(n)] = NoSession
<1>3. Failure(n) = "null pointer" \/ Failure(n) = "closed connection"
  <2>1. Failure(n) = CASE nullp -> "null pointer" [] bad -> "starting byte"
                       [] gone -> "closed connection" [] OTHER -> "none"
    BY Zenon DEF Failure
  <2>2. ~bad
    BY <1>1
  <2> HIDE DEF nullp, bad, gone
  <2> QED
    BY <1>2, <2>1, <2>2, Zenon
<1>4. Failure(n) \in Ended /\ Failure(n) # BadStart
  BY <1>3, Zenon DEF Ended, BadStart
<1> QED
  BY <1>2, <1>4, EndKeeps

LEMMA ReceiveDataKeeps ==
  ASSUME Inv, NEW n \in Node, ReceiveData(n)
  PROVE  Inv'
<1> DEFINE buf == TunnelIn(n)
           body == SubSeq(buf, 3, Len(buf))
           s == sorted[n][FrameId(n)]
           free == BufSize - Len(conns[n][s].outBuf)
           m == Decodable(body, free)
           used == IF EndReached(body, free) THEN m + 1 ELSE m
           rest == SubSeq(body, used + 1, Len(body))
<1>1. /\ MemoryInv /\ phase[n] = "recv" /\ sendingTo[n] = 0 /\ s # NoSession
      /\ "recv" \in Running /\ "cmds" \in Running /\ FrameAvailable(n) /\ FrameId(n) # 0
      /\ Len(buf) > 3
  BY DEF Inv, ReceiveData, FrameAvailable, Receiving, Running
<1>2. UNCHANGED <<wire, signalled, accepted, freeIds, queue, current, sorted, visited, sent, got>>
  BY DEF ReceiveData, kernel, local, history
<1>3. FrameId(n) \in Id /\ IsRunning(n) /\ Expected(n) = "start"
  <2>1. FrameId(n) \in 0..MaxId /\ IsRunning(n)
    BY <1>1, HeadIs
  <2> QED
    BY <1>1, <2>1, Constants DEF Id, Expected
<1>4. s \in Session /\ conns[n][s] \in Connections /\ conns[n][s] # NoConn
  BY <1>1, <1>3, ArrayPoints
<1>5. /\ Decoded(n, s, body)
      /\ \/ EndReached(body, free) /\ sendingTo' = sendingTo
         \/ ~EndReached(body, free) /\ sendingTo' = [sendingTo EXCEPT ![n] = FrameId(n)]
      /\ phase' = [phase EXCEPT ![n] = "cmds"]
  BY DEF ReceiveData, Goto
<1>6. buf \in Seq(Byte) /\ body \in Seq(Byte) /\ Len(body) <= Len(buf)
  <2>1. buf \in Seq(Byte)
    BY <1>1, TunnelFields DEF TunnelIn
  <2>2. SubSeq(buf, 2 + 1, Len(buf)) \in Seq(Byte) /\ Len(SubSeq(buf, 2 + 1, Len(buf))) = Len(buf) - 2
    <3> HIDE DEF buf
    <3>1. 2 \in 0..Len(buf)
      BY <1>1, <2>1
    <3> QED
      BY <2>1, <3>1, SeqRest
  <2>3. body \in Seq(Byte) /\ Len(body) = Len(buf) - 2
    BY <2>2
  <2> HIDE DEF body, buf
  <2> QED
    BY <2>1, <2>3
<1>7. ASSUME NEW p \in Expecting, Parses(buf, Expected(n), p)
      PROVE  Parses(body, "data", p)
  BY <1>1, <1>7, HeadIs DEF TunnelIn
<1>8. PICK q \in Expecting : Parses(body, "data", q)
  BY <1>3, <1>7, InputParses DEF TunnelIn
<1> HIDE DEF s
<1>9. /\ free \in Nat
      /\ conns' \in [Node -> [Session -> Connections \cup {NoConn}]]
      /\ \A k \in Node, t \in Session :
           /\ conns'[k][t] = NoConn <=> conns[k][t] = NoConn
           /\ conns[k][t] # NoConn => conns'[k][t].id = conns[k][t].id
      /\ ServerInv'
  <2> HIDE DEF body
  <2> QED
    BY <1>4, <1>5, <1>6, <1>8, DecodedKeeps
<1>10. tun' = [tun EXCEPT ![n].inBuf = rest]
  BY <1>5 DEF Decoded
<1> HIDE DEF body, free
<1>11. ASSUME NEW p \in Expecting, Parses(body, "data", p)
       PROVE  /\ rest \in Seq(Byte) /\ Len(rest) <= Len(body)
              /\ EndReached(body, free) => Parses(rest, "start", p)
              /\ ~EndReached(body, free) => Parses(rest, "data", p)
  BY <1>6, <1>9, <1>11, Decoding
<1> HIDE DEF used, m, rest
<1>12. /\ sendingTo' \in [Node -> 0..MaxId] /\ \A k \in Node : k # n => sendingTo'[k] = sendingTo[k]
       /\ EndReached(body, free) => Expected(n)' = "start"
       /\ ~EndReached(body, free) => Expected(n)' = "data"
  <2>1. FrameId(n) \in 0..MaxId /\ sendingTo \in [Node -> 0..MaxId]
    BY <1>1, <1>3, Constants DEF MemoryInv, Id
  <2> QED
    BY <1>1, <1>5, <2>1 DEF Expected
<1>13. /\ phase' \in [Node -> Phase]
       /\ \A k \in Node : phase'[k] = phase[k] \/ phase'[k] = "cmds"
  BY <1>1, <1>5, RunningOnes DEF MemoryInv
<1>14. \A k \in Node : IsRunning(k)' => IsRunning(k)
  <2>1. phase \in [Node -> Phase]
    BY <1>1 DEF MemoryInv
  <2> QED
    BY <1>1, <1>3, <1>5, <2>1 DEF IsRunning
<1>15. tun' \in [Node -> Tunnels] /\ FrameInv'
  <2>1. Len(tun[n].inBuf) \in Nat /\ Len(body) \in Nat
    BY <1>1, <1>6, TunnelFields
  <2>2. rest \in Seq(Byte) /\ Len(rest) <= Len(body)
    BY <1>8, <1>11
  <2>3. Len(rest) <= Len(tun[n].inBuf)
    BY <1>6, <2>1, <2>2 DEF buf, TunnelIn
  <2>4. \A p \in Expecting : Parses(tun[n].inBuf, Expected(n), p) => Parses(rest, Expected(n)', p)
    BY <1>7, <1>11, <1>12 DEF buf, TunnelIn
  <2> QED
    BY <1>2, <1>3, <1>10, <1>12, <1>14, <2>2, <2>3, <2>4, TakeKeeps
<1>16. MemoryInv'
  BY <1>1, <1>2, <1>9, <1>12, <1>13, <1>15 DEF MemoryInv
<1>17. ArrayInv'
  <2> SUFFICES ASSUME NEW k \in Node
               PROVE  ArrayRight(k)'
    BY DEF ArrayInv
  <2>1. ArrayRight(k)
    BY DEF Inv, ArrayInv
  <2> QED
    BY <1>1, <1>2, <1>9, <1>13, <2>1, ArrayKept
<1>18. NoBadStart'
  BY <1>1, <1>13, RunningOnes DEF Inv, NoBadStart
<1> QED
  BY <1>9, <1>15, <1>16, <1>17, <1>18 DEF Inv

(* The server takes a new connection: the one with its identifier.          *)
LEMMA ConnectKeeps ==
  ASSUME Inv, NEW n \in Node, NEW i \in Id, NEW s \in Session, ~IsKnown(n, i),
         conns' = [conns EXCEPT ![n][s] = MakeConnection(i, {})]
  PROVE  /\ conns' \in [Node -> [Session -> Connections \cup {NoConn}]]
         /\ \A k \in Node, t \in Session :
              conns[k][t] # NoConn /\ conns[k][t].id \in Id =>
                conns'[k][t] # NoConn /\ conns'[k][t].id \in Id
         /\ ServerInv'
<1> DEFINE c == MakeConnection(i, {})
<1>1. conns \in [Node -> [Session -> Connections \cup {NoConn}]]
  BY DEF Inv, MemoryInv
<1>2. c \in Connections /\ c.id = i /\ c # NoConn
  BY MakeConnectionIsOne, NoConnIsNone
<1> HIDE DEF c
<1>3. conns' \in [Node -> [Session -> Connections \cup {NoConn}]]
  BY <1>1, <1>2 DEF c
<1>4. /\ conns'[n][s] = c
      /\ \A k \in Node, t \in Session : k # n \/ t # s => conns'[k][t] = conns[k][t]
  BY <1>1 DEF c
<1>5. \A k \in Node, t \in Session :
        conns[k][t] # NoConn /\ conns[k][t].id \in Id =>
          conns'[k][t] # NoConn /\ conns'[k][t].id \in Id
  BY <1>2, <1>4
<1>6. ServerInv'
  <2>1. "server" \in Node
    BY DEF Node
  <2>2. ServerInv
    BY DEF Inv
  <2>3. CASE n # "server"
    BY <1>4, <2>1, <2>2, <2>3, ServerKept
  <2>4. CASE n = "server"
    <3>1. ASSUME NEW t \in Session, t # s, conns'["server"][t] # NoConn
          PROVE  conns'["server"][t].id \in Id /\ conns'["server"][t].id # i
      <4>1. conns'["server"][t] = conns["server"][t]
        BY <1>4, <2>1, <3>1
      <4>2. t \in Live("server")
        BY <3>1, <4>1 DEF Live
      <4>3. conns["server"][t].id # i
        BY <2>4, <4>2 DEF IsKnown, Holders
      <4> QED
        BY <2>2, <4>1, <4>2, <4>3 DEF ServerInv
    <3>2. conns'["server"][s].id = i
      BY <1>2, <1>4, <2>4
    <3>3. \A t \in Live("server")' : conns'["server"][t].id \in Id
      BY <3>1, <3>2 DEF Live
    <3>4. ASSUME NEW t \in Session, NEW u \in Session, conns'["server"][t] # NoConn,
                 conns'["server"][u] # NoConn, conns'["server"][t].id = conns'["server"][u].id
          PROVE  t = u
      <4>1. CASE t = s \/ u = s
        BY <3>1, <3>2, <3>4, <4>1
      <4>2. CASE t # s /\ u # s
        <5>1. conns'["server"][t] = conns["server"][t] /\ conns'["server"][u] = conns["server"][u]
          BY <1>4, <2>1, <4>2
        <5>2. t \in Live("server") /\ u \in Live("server")
          BY <3>4, <5>1 DEF Live
        <5> QED
          BY <2>2, <3>4, <5>1, <5>2 DEF ServerInv, ServerIdsUnique
      <4> QED
        BY <4>1, <4>2
    <3>5. ServerIdsUnique'
      BY <3>4 DEF ServerIdsUnique, Live
    <3> QED
      BY <3>3, <3>5 DEF ServerInv
  <2> QED
    BY <2>3, <2>4
<1> QED
  BY <1>3, <1>5, <1>6

LEMMA AnswerKeeps ==
  ASSUME Inv, NEW n \in Node, NEW c \in Commands, Answered(n, c)
  PROVE  queue' \in [Node -> Queues]
<1>1. queue \in [Node -> Queues]
  BY DEF Inv, MemoryInv
<1>2. CASE HasRoom(n)
  <2>1. Append(queue[n], c) \in Queues
    BY <1>1, <1>2, QueueKeeps DEF HasRoom
  <2> QED
    BY <1>1, <1>2, <2>1 DEF Answered, Queued
<1>3. CASE ~HasRoom(n)
  BY <1>1, <1>3 DEF Answered
<1> QED
  BY <1>2, <1>3

(* on_command                                                               *)
LEMMA OnCommandKeeps ==
  ASSUME Inv, NEW n \in Node, NEW cmd \in Cmd, NEW i \in Id, NEW s \in Session,
         OnCommand(n, cmd, i, s)
  PROVE  /\ conns' \in [Node -> [Session -> Connections \cup {NoConn}]]
         /\ \A k \in Node, t \in Session :
              conns[k][t] # NoConn /\ conns[k][t].id \in Id =>
                conns'[k][t] # NoConn /\ conns'[k][t].id \in Id
         /\ ServerInv' /\ queue' \in [Node -> Queues] /\ freeIds' \in Stacks
<1>1. MemoryInv
  BY DEF Inv
<1>2. CASE UNCHANGED <<conns, freeIds, queue>>
  <2>1. ServerInv'
    BY <1>2, ServerKept DEF Inv
  <2> QED
    BY <1>1, <1>2, <2>1 DEF MemoryInv
<1>3. CASE cmd = "NEW" /\ ~IsKnown(n, i)
  <2>1. ConnectToService(n, i, s) /\ freeIds' = freeIds
    BY <1>3 DEF OnCommand, OnNew
  <2>2. freeIds' \in Stacks
    BY <1>1, <2>1 DEF MemoryInv
  <2>3. CASE /\ conns' = [conns EXCEPT ![n][s] = MakeConnection(i, {})]
             /\ Answered(n, [cmd |-> "ACK", id |-> i, session |-> s])
    <3>1. [cmd |-> "ACK", id |-> i, session |-> s] \in Commands
      BY DEF Commands, Cmd
    <3>2. queue' \in [Node -> Queues]
      BY <2>3, <3>1, AnswerKeeps
    <3>3. /\ conns' \in [Node -> [Session -> Connections \cup {NoConn}]]
          /\ \A k \in Node, t \in Session :
               conns[k][t] # NoConn /\ conns[k][t].id \in Id =>
                 conns'[k][t] # NoConn /\ conns'[k][t].id \in Id
          /\ ServerInv'
      BY <1>3, <2>3, ConnectKeeps
    <3> QED
      BY <2>2, <3>2, <3>3
  <2>4. CASE /\ conns' = conns
             /\ Answered(n, [cmd |-> "CLOSE", id |-> i, session |-> s])
    <3>1. [cmd |-> "CLOSE", id |-> i, session |-> s] \in Commands
      BY DEF Commands, Cmd
    <3>2. queue' \in [Node -> Queues]
      BY <2>4, <3>1, AnswerKeeps
    <3>3. ServerInv'
      BY <2>4, ServerKept DEF Inv
    <3> QED
      BY <1>1, <2>2, <2>4, <3>2, <3>3 DEF MemoryInv
  <2> QED
    BY <2>1, <2>3, <2>4 DEF ConnectToService
<1>4. CASE cmd # "NEW" /\ IsKnown(n, i)
  <2> DEFINE u == Target(n, i)
  <2>1. /\ conns' = [conns EXCEPT ![n][u] = Obey(@, cmd)]
        /\ freeIds' = freeIds \/ freeIds' = Pushed(freeIds, i)
        /\ queue' = queue
    BY <1>4 DEF OnCommand, OnOther, Freed
  <2>2. u \in Session /\ conns[n][u] # NoConn
    <3>1. Holders(n, i) \subseteq Nat /\ Holders(n, i) # {}
      BY <1>4, Constants DEF Holders, Live, Session, IsKnown
    <3>2. u \in Holders(n, i)
      BY <3>1, MinOfNats DEF Target
    <3> QED
      BY <3>2 DEF Holders, Live
  <2> HIDE DEF u
  <2>3. conns[n][u] \in Connections
    BY <1>1, <2>2 DEF MemoryInv
  <2>4. Obey(conns[n][u], cmd) \in Connections /\ Obey(conns[n][u], cmd).id = conns[n][u].id
    BY <1>4, <2>3, ObeyKeeps
  <2> DEFINE d == Obey(conns[n][u], cmd)
  <2>5. conns' = [conns EXCEPT ![n][u] = d]
    BY <1>1, <2>1, <2>2 DEF MemoryInv
  <2> HIDE DEF d
  <2>6. /\ conns' \in [Node -> [Session -> Connections \cup {NoConn}]]
        /\ \A k \in Node, t \in Session :
             /\ conns'[k][t] = NoConn <=> conns[k][t] = NoConn
             /\ conns[k][t] # NoConn => conns'[k][t].id = conns[k][t].id
        /\ ServerInv'
    <3>1. d \in Connections /\ d.id = conns[n][u].id
      BY <2>4 DEF d
    <3> QED
      BY <2>2, <2>5, <3>1, ChangeKeeps
  <2>7. freeIds' \in Stacks
    BY <1>1, <2>1, StackKeeps DEF MemoryInv
  <2>8. queue' \in [Node -> Queues]
    BY <1>1, <2>1 DEF MemoryInv
  <2> QED
    BY <2>6, <2>7, <2>8
<1>5. (cmd = "NEW" /\ ~IsKnown(n, i)) \/ (cmd # "NEW" /\ IsKnown(n, i))
      \/ UNCHANGED <<conns, freeIds, queue>>
  BY DEF OnCommand, OnNew, OnOther
<1> QED
  BY <1>2, <1>3, <1>4, <1>5

LEMMA ReceiveCommandKeeps ==
  ASSUME Inv, NEW n \in Node, ReceiveCommand(n)
  PROVE  Inv'
<1> DEFINE buf == tun[n].inBuf
           rest == SubSeq(buf, CommandSize + 1, Len(buf))
<1>1. /\ MemoryInv /\ phase[n] = "recv" /\ sendingTo[n] = 0 /\ FrameAvailable(n)
      /\ FrameId(n) = 0 /\ Len(buf) >= CommandSize
      /\ "recv" \in Running /\ "cmds" \in Running
  BY DEF Inv, ReceiveCommand, FrameAvailable, Receiving, TunnelIn, Running
<1>2. UNCHANGED <<wire, signalled, accepted, sendingTo, current, sorted, visited, sent, got>>
  BY DEF ReceiveCommand, kernel, local
<1>3. /\ OnCommand(n, buf[3][2], buf[4][2], buf[3][3])
      /\ tun' = [tun EXCEPT ![n].inBuf = rest]
      /\ phase' = [phase EXCEPT ![n] = "cmds"]
  BY <1>1 DEF ReceiveCommand, TunnelIn, Goto, MemoryInv
<1>4. IsRunning(n) /\ Expected(n) = "start"
  <2>1. IsRunning(n)
    BY <1>1, HeadIs
  <2> QED
    BY <1>1, <2>1 DEF Expected
<1>5. PICK q0 \in Expecting : Parses(buf, Expected(n), q0)
  BY <1>4, InputParses
<1>6. buf[3][2] \in Cmd /\ buf[3][3] \in Session /\ buf[4][2] \in Id
  <2>1. buf[3] \in {"cmd"} \X Cmd \X Session /\ buf[4] \in {"arg"} \X Id
    BY <1>1, <1>5, HeadIs
  <2> QED
    BY <2>1
<1>7. buf \in Seq(Byte) /\ rest \in Seq(Byte) /\ Len(rest) <= Len(buf)
  <2>1. buf \in Seq(Byte)
    BY <1>1, TunnelFields
  <2> HIDE DEF buf
  <2>2. CommandSize \in 0..Len(buf) /\ Len(buf) \in Nat
    BY <1>1, <2>1 DEF CommandSize
  <2>3. rest \in Seq(Byte) /\ Len(rest) = Len(buf) - CommandSize
    BY <2>1, <2>2, SeqRest
  <2> QED
    BY <2>1, <2>2, <2>3 DEF CommandSize
<1>8. \A q \in Expecting : Parses(buf, Expected(n), q) => Parses(rest, Expected(n)', q)
  <2>1. Expected(n)' = "start"
    BY <1>2, <1>4 DEF Expected
  <2> QED
    BY <1>1, <2>1, HeadIs
<1>9. /\ conns' \in [Node -> [Session -> Connections \cup {NoConn}]]
      /\ \A k \in Node, t \in Session :
           conns[k][t] # NoConn /\ conns[k][t].id \in Id =>
             conns'[k][t] # NoConn /\ conns'[k][t].id \in Id
      /\ ServerInv' /\ queue' \in [Node -> Queues] /\ freeIds' \in Stacks
  <2> HIDE DEF buf
  <2> DEFINE cmd == buf[3][2]
             i == buf[4][2]
             s == buf[3][3]
  <2>1. cmd \in Cmd /\ i \in Id /\ s \in Session /\ OnCommand(n, cmd, i, s)
    BY <1>3, <1>6
  <2> HIDE DEF cmd, i, s
  <2> QED
    BY <2>1, OnCommandKeeps
<1> HIDE DEF rest
<1>10. /\ phase' \in [Node -> Phase]
       /\ \A k \in Node : phase'[k] = phase[k] \/ phase'[k] = "cmds"
  BY <1>1, <1>3, RunningOnes DEF MemoryInv
<1>11. \A k \in Node : IsRunning(k)' => IsRunning(k)
  <2>1. phase \in [Node -> Phase]
    BY <1>1 DEF MemoryInv
  <2> QED
    BY <1>3, <1>4, <2>1 DEF IsRunning
<1>12. tun' \in [Node -> Tunnels] /\ FrameInv'
  BY <1>2, <1>3, <1>4, <1>7, <1>8, <1>11, TakeKeeps
<1>13. MemoryInv'
  BY <1>1, <1>2, <1>9, <1>10, <1>12 DEF MemoryInv
<1>14. ArrayInv'
  <2> SUFFICES ASSUME NEW k \in Node
               PROVE  ArrayRight(k)'
    BY DEF ArrayInv
  <2>1. ArrayRight(k)
    BY DEF Inv, ArrayInv
  <2> QED
    BY <1>1, <1>2, <1>9, <1>10, <2>1, ArrayKept
<1>15. NoBadStart'
  BY <1>1, <1>10, RunningOnes DEF Inv, NoBadStart
<1> QED
  BY <1>9, <1>12, <1>13, <1>14, <1>15 DEF Inv
-----------------------------------------------------------------------------
(* pump_transfer                                                            *)

(* Whole frames go into the tunnel's buffer.                                *)
LEMMA PutKeeps ==
  ASSUME Inv, NEW n \in Node, NEW f \in Seq(Byte), Parses(f, "start", "start"),
         Len(tun[n].outBuf) + Len(f) <= TunnelSize, IsRunning(n), Put(n, f),
         UNCHANGED <<phase, wire, sendingTo>>
  PROVE  tun' \in [Node -> Tunnels] /\ FrameInv'
<1> DEFINE old == tun[n].outBuf
           new == old \o f
           d == [tun[n] EXCEPT !.outBuf = new]
<1>1. MemoryInv
  BY DEF Inv
<1>2. /\ tun[n] \in Tunnels /\ tun[n] \in Record({0}, Byte, Byte) /\ "DELETE" \notin tun[n].state
      /\ Len(tun[n].inBuf) <= TunnelSize /\ old \in Seq(Byte)
  BY <1>1, TunnelFields DEF Tunnels
<1>3. new \in Seq(Byte) /\ Len(new) <= TunnelSize
  <2>1. new \in Seq(Byte) /\ Len(new) = Len(old) + Len(f)
    BY <1>2, ConcatProperties
  <2> QED
    BY <2>1
<1>4. ASSUME NEW p, Parses(old, p, "start")
      PROVE  Parses(new, p, "start")
  <2> HIDE DEF old
  <2> QED
    BY <1>2, <1>4, ParsesConcat
<1> HIDE DEF new
<1>5. /\ d \in Record({0}, Byte, Byte) /\ d.state = tun[n].state
      /\ d.inBuf = tun[n].inBuf /\ d.outBuf = new
  BY <1>2, <1>3 DEF Record
<1>6. tun' = [tun EXCEPT ![n] = d]
  BY <1>1 DEF MemoryInv, Put, new
<1> HIDE DEF d
<1>7. d \in Tunnels
  BY <1>2, <1>3, <1>5 DEF Tunnels
<1>8. tun' \in [Node -> Tunnels] /\ tun'[n] = d /\ \A k \in Node : k # n => tun'[k] = tun[k]
  BY <1>1, <1>6, <1>7 DEF MemoryInv
<1>9. ASSUME NEW k \in Node, IsRunning(k)'
      PROVE  Flows(k, Other(k))'
  <2>1. Other(k) \in Node /\ Other(k) # k /\ IsRunning(k)
    BY <1>9, Nodes DEF IsRunning
  <2>2. Flows(k, Other(k))
    BY <2>1 DEF Inv, FrameInv
  <2>3. CASE k = n
    <3>1. tun'[k].inBuf = tun[k].inBuf /\ tun'[Other(k)].outBuf = tun[Other(k)].outBuf
      BY <1>5, <1>8, <2>1, <2>3
    <3>2. wire'[Other(k)] = wire[Other(k)] /\ sendingTo'[k] = sendingTo[k]
          /\ (IsRunning(Other(k))' => IsRunning(Other(k)))
      BY DEF IsRunning
    <3> QED
      BY <2>1, <2>2, <3>1, <3>2, FlowsKept
  <2>4. CASE k # n
    <3>1. Other(k) = n
      BY <2>1, <2>4, Nodes
    <3>2. PICK p \in Expecting, q \in Expecting, r \in Expecting :
            /\ Parses(tun[k].inBuf, Expected(k), p) /\ Parses(wire[n], p, q)
            /\ Parses(tun[n].outBuf, q, r) /\ (IsRunning(n) => r = "start")
      BY <2>2, <3>1 DEF Flows
    <3>3. tun'[k].inBuf = tun[k].inBuf /\ tun'[n].outBuf = new
          /\ wire'[n] = wire[n] /\ Expected(k)' = Expected(k)
      BY <1>5, <1>8, <2>4 DEF Expected
    <3>4. r = "start" /\ Parses(new, q, "start")
      BY <1>4, <3>2
    <3>5. /\ Parses(tun'[k].inBuf, Expected(k)', p) /\ Parses(wire'[n], p, q)
          /\ Parses(tun'[n].outBuf, q, r)
      BY <3>2, <3>3, <3>4
    <3> QED
      BY <3>1, <3>4, <3>5 DEF Flows
  <2> QED
    BY <2>3, <2>4
<1> QED
  BY <1>8, <1>9 DEF FrameInv

LEMMA SendCommandKeeps ==
  ASSUME Inv, NEW n \in Node, SendCommand(n)
  PROVE  Inv'
<1> DEFINE c == Head(queue[n])
           f == CommandFrame(c)
<1>1. MemoryInv /\ phase[n] = "cmds" /\ "cmds" \in Running /\ queue[n] # <<>>
  BY DEF Inv, SendCommand, Running
<1>2. UNCHANGED <<phase, conns, wire, signalled, accepted, freeIds, sendingTo, current,
                  sorted, visited, sent, got>>
  BY DEF SendCommand, kernel, local, history
<1>3. /\ TunnelRoom(n) >= CommandSize /\ Put(n, f)
      /\ queue' = [queue EXCEPT ![n] = Tail(@)]
  BY DEF SendCommand
<1>4. c \in Commands /\ queue' \in [Node -> Queues]
  <2>1. queue[n] \in Queues /\ queue \in [Node -> Queues]
    BY <1>1 DEF MemoryInv
  <2>2. c \in Commands /\ Tail(queue[n]) \in Queues
    BY <1>1, <2>1, QueueKeeps
  <2> QED
    BY <1>3, <2>1, <2>2
<1> HIDE DEF c
<1>5. Parses(f, "start", "start") /\ f \in Seq(Byte) /\ Len(f) = CommandSize
  BY <1>4, CommandFrameParses
<1> HIDE DEF f
<1>6. Len(tun[n].outBuf) + Len(f) <= TunnelSize
  BY <1>1, <1>3, <1>5, TunnelFields, Constants DEF TunnelRoom, CommandSize
<1>7. IsRunning(n)
  BY <1>1, RunningOnes DEF IsRunning
<1>8. tun' \in [Node -> Tunnels] /\ FrameInv'
  BY <1>2, <1>3, <1>5, <1>6, <1>7, PutKeeps
<1>9. MemoryInv'
  BY <1>1, <1>2, <1>4, <1>8 DEF MemoryInv
<1>10. ArrayInv'
  BY <1>2 DEF Inv, ArrayInv, ArrayRight
<1>11. ServerInv'
  BY <1>2, ServerKept DEF Inv
<1>12. NoBadStart'
  BY <1>2 DEF Inv, NoBadStart
<1> QED
  BY <1>8, <1>9, <1>10, <1>11, <1>12 DEF Inv

(* The identifier visited in a turn of the round is one.                    *)
LEMMA TurnIs ==
  ASSUME MemoryInv, NEW n \in Node, NEW i \in Nat
  PROVE  Turn(n, i) \in Id
<1>1. current[n] + i \in Nat
  BY DEF MemoryInv
<1>2. (current[n] + i) % MaxId \in 0..(MaxId - 1)
  BY <1>1, Constants
<1> QED
  BY <1>2, Constants DEF Turn, Id

LEMMA TurnsAre ==
  ASSUME MemoryInv, NEW n \in Node, Turns(n) # {}
  PROVE  /\ Min(Turns(n)) \in Nat
         /\ HasData(n, Min(Turns(n)))
<1>1. Turns(n) \subseteq Nat
  BY Constants DEF MemoryInv, Turns
<1>2. Min(Turns(n)) \in Turns(n)
  BY <1>1, MinOfNats
<1> QED
  BY <1>1, <1>2 DEF Turns

LEMMA EncodeDataKeeps ==
  ASSUME Inv, NEW n \in Node, EncodeData(n)
  PROVE  Inv'
<1> DEFINE i == Min(Turns(n))
           s == sorted[n][Turn(n, i)]
           c == conns[n][s]
           buf == c.inBuf
           m == Least(Len(buf), TunnelRoom(n) - 3)
           f == DataFrame(c.id, SubSeq(buf, 1, m))
           d == [c EXCEPT !.inBuf = SubSeq(buf, m + 1, Len(buf))]
<1>1. MemoryInv /\ phase[n] = "data" /\ "data" \in Running /\ Turns(n) # {}
  BY DEF Inv, EncodeData, Running
<1>2. UNCHANGED <<phase, wire, signalled, accepted, freeIds, queue, sendingTo, current,
                  sorted, sent, got>>
  BY DEF EncodeData, kernel, pump, history
<1>3. /\ TunnelRoom(n) >= 4 /\ Put(n, f)
      /\ conns' = [conns EXCEPT ![n][s].inBuf = SubSeq(buf, m + 1, Len(buf))]
      /\ visited' = [visited EXCEPT ![n] = i + 1]
  BY DEF EncodeData
<1>4. i \in Nat /\ sorted[n][Turn(n, i)] # NoSession
  BY <1>1, TurnsAre DEF HasData
<1> HIDE DEF i
<1>5. s \in Session /\ c \in Connections /\ c # NoConn /\ c.id \in Id
  <2>1. Turn(n, i) \in Id
    BY <1>1, <1>4, TurnIs
  <2> QED
    BY <1>4, <2>1, ArrayPoints
<1>6. conns' = [conns EXCEPT ![n][s] = d]
  BY <1>1, <1>3 DEF MemoryInv
<1> HIDE DEF s
<1>7. c.inBuf \in Seq(Data) /\ Len(c.inBuf) \in Nat
  <2>1. c \in Record(Id \cup {NoId}, Data, Data)
    BY <1>5 DEF Connections
  <2> QED
    BY <2>1, RecordFields
<1>8. m \in 0..Len(buf) /\ m <= TunnelRoom(n) - 3
  <2>1. TunnelRoom(n) \in Int
    BY <1>1, TunnelFields, Constants DEF TunnelRoom
  <2>2. Len(buf) \in Int /\ TunnelRoom(n) - 3 \in Int
    BY <1>7, <2>1
  <2> HIDE DEF buf
  <2>3. m \in {Len(buf), TunnelRoom(n) - 3} /\ m <= Len(buf) /\ m <= TunnelRoom(n) - 3
    BY <2>2, LeastIs
  <2> HIDE DEF m
  <2>4. Len(buf) \in Nat
    BY <1>7 DEF buf
  <2> QED
    BY <1>3, <2>1, <2>3, <2>4
<1> HIDE DEF m
<1>9. d \in Connections /\ d.id = c.id
  <2> HIDE DEF c
  <2> QED
    BY <1>5, <1>8, DropKeeps
<1>10. SubSeq(buf, 1, m) \in Seq(Data) /\ Len(SubSeq(buf, 1, m)) = m
  BY <1>7, <1>8, SeqFirst
<1>11. Parses(f, "start", "start") /\ f \in Seq(Byte) /\ Len(f) = m + 3
  <2> DEFINE bytes == SubSeq(buf, 1, m)
             id == c.id
  <2>1. bytes \in Seq(Data) /\ Len(bytes) = m /\ id \in Id
    BY <1>5, <1>10
  <2> HIDE DEF bytes, id
  <2>2. /\ Parses(DataFrame(id, bytes), "start", "start") /\ DataFrame(id, bytes) \in Seq(Byte)
        /\ Len(DataFrame(id, bytes)) = Len(bytes) + 3
    BY <2>1, DataFrameParses
  <2>3. f = DataFrame(id, bytes)
    BY DEF id, bytes
  <2> QED
    BY <2>1, <2>2, <2>3
<1> HIDE DEF f, d
<1>12. Len(tun[n].outBuf) + Len(f) <= TunnelSize
  <2>1. Len(tun[n].outBuf) \in Nat /\ TunnelSize \in Nat /\ m \in Nat
    BY <1>1, <1>7, <1>8, TunnelFields, Constants
  <2>2. TunnelRoom(n) = TunnelSize - Len(tun[n].outBuf)
    BY DEF TunnelRoom
  <2>3. Len(f) = m + 3 /\ m <= TunnelRoom(n) - 3
    BY <1>8, <1>11
  <2> DEFINE used == Len(tun[n].outBuf)
             more == Len(f)
             room == TunnelRoom(n)
  <2>4. used \in Nat /\ room = TunnelSize - used /\ more = m + 3 /\ m <= room - 3
    BY <2>1, <2>2, <2>3
  <2> HIDE DEF used, more, room
  <2>5. used + more <= TunnelSize
    BY <2>1, <2>4
  <2> QED
    BY <2>5 DEF used, more
<1>13. IsRunning(n)
  BY <1>1, RunningOnes DEF IsRunning
<1>14. tun' \in [Node -> Tunnels] /\ FrameInv'
  BY <1>2, <1>3, <1>11, <1>12, <1>13, PutKeeps
<1>15. /\ conns' \in [Node -> [Session -> Connections \cup {NoConn}]]
       /\ \A k \in Node, t \in Session :
            /\ conns'[k][t] = NoConn <=> conns[k][t] = NoConn
            /\ conns[k][t] # NoConn => conns'[k][t].id = conns[k][t].id
       /\ ServerInv'
  <2>1. conns[n][s] # NoConn /\ d.id = conns[n][s].id
    BY <1>5, <1>9 DEF c
  <2> QED
    BY <1>5, <1>6, <1>9, <2>1, ChangeKeeps
<1>16. visited' \in [Node -> Nat]
  BY <1>1, <1>3, <1>4 DEF MemoryInv
<1>17. MemoryInv'
  BY <1>1, <1>2, <1>14, <1>15, <1>16 DEF MemoryInv
<1>18. ArrayInv'
  <2> SUFFICES ASSUME NEW k \in Node
               PROVE  ArrayRight(k)'
    BY DEF ArrayInv
  <2>1. ArrayRight(k)
    BY DEF Inv, ArrayInv
  <2> QED
    BY <1>1, <1>2, <1>15, <2>1, ArrayKept
<1>19. NoBadStart'
  BY <1>2 DEF Inv, NoBadStart
<1> QED
  BY <1>14, <1>15, <1>17, <1>18, <1>19 DEF Inv
-----------------------------------------------------------------------------
(* update() as a whole, and what follows                                    *)

LEMMA StateChangesKeep ==
  ASSUME Inv, NEW n \in Node, StateChanges(n)
  PROVE  Inv'
<1>1. MemoryInv
  BY DEF Inv
<1>2. CASE StateShutdown(n)
  BY <1>2, ShutdownKeeps
<1>3. CASE Report(n)
  BY <1>3, ReportKeeps
<1>4. CASE StateAgain(n)
  <2>1. phase[n] \in Running
    BY <1>4 DEF StateAgain, Running
  <2>2. queue' \in [Node -> Queues] /\ current' \in [Node -> 0..MaxId]
    BY <1>1, <1>4 DEF StateAgain, pump, MemoryInv
  <2>3. UpdateReturns(n) /\ UNCHANGED <<conns, tun, kernel, freeIds, sendingTo, sent, got>>
    BY <1>4 DEF StateAgain, pump, history
  <2> QED
    BY <2>1, <2>2, <2>3, ReturnKeeps
<1>5. CASE StateOk(n)
  <2>1. /\ phase[n] \in {"state", "recv", "cmds"} /\ Goto(n, "recv")
        /\ UNCHANGED <<conns, tun, kernel, freeIds, pump, local, history>>
    BY <1>5 DEF StateOk
  <2> QED
    BY <2>1, GoOnKeeps
<1> QED
  BY <1>2, <1>3, <1>4, <1>5 DEF StateChanges

LEMMA RecvKeeps ==
  ASSUME Inv, NEW n \in Node, Recv(n)
  PROVE  Inv'
<1>1. CASE ReceiveNothing(n)
  <2>1. /\ phase[n] \in {"state", "recv", "cmds"} /\ Goto(n, "cmds")
        /\ UNCHANGED <<conns, tun, kernel, freeIds, pump, local, history>>
    BY <1>1 DEF ReceiveNothing
  <2> QED
    BY <2>1, GoOnKeeps
<1> QED
  BY <1>1, ContinueKeeps, FailsKeeps, ReceiveCommandKeeps, ReceiveDataKeeps DEF Recv

LEMMA TransferKeeps ==
  ASSUME Inv, NEW n \in Node, Transfer(n)
  PROVE  Inv'
<1>1. MemoryInv
  BY DEF Inv
<1>2. CASE SendCommand(n)
  BY <1>2, SendCommandKeeps
<1>3. CASE LoseCommand(n)
  <2>1. phase[n] \in Running
    BY <1>3 DEF LoseCommand, Running
  <2>2. queue' \in [Node -> Queues]
    <3>1. queue[n] \in Queues /\ queue \in [Node -> Queues]
      BY <1>1 DEF MemoryInv
    <3>2. queue[n] # <<>> /\ queue' = [queue EXCEPT ![n] = Tail(@)]
      BY <1>3 DEF LoseCommand
    <3>3. Tail(queue[n]) \in Queues
      BY <3>1, <3>2, QueueKeeps
    <3> QED
      BY <3>1, <3>2, <3>3
  <2>3. current' \in [Node -> 0..MaxId]
    BY <1>1, <1>3 DEF LoseCommand, MemoryInv
  <2>4. UpdateReturns(n) /\ UNCHANGED <<conns, tun, kernel, freeIds, sendingTo, sent, got>>
    BY <1>3 DEF LoseCommand
  <2> QED
    BY <2>1, <2>2, <2>3, <2>4, ReturnKeeps
<1>4. CASE CommandsSent(n)
  <2>1. /\ phase[n] \in {"state", "recv", "cmds"} /\ Goto(n, "data")
        /\ UNCHANGED <<conns, tun, kernel, freeIds, pump, local, history>>
    BY <1>4 DEF CommandsSent
  <2> QED
    BY <2>1, GoOnKeeps
<1>5. CASE EncodeData(n)
  BY <1>5, EncodeDataKeeps
<1>6. CASE EncodeRefused(n)
  <2>1. phase[n] \in Running /\ Turns(n) # {}
    BY <1>6 DEF EncodeRefused, Running
  <2>2. queue' \in [Node -> Queues]
    BY <1>1, <1>6 DEF EncodeRefused, MemoryInv
  <2>3. current' \in [Node -> 0..MaxId]
    <3>1. Turn(n, Min(Turns(n))) \in 0..MaxId
      <4>1. Min(Turns(n)) \in Nat
        BY <1>1, <2>1, TurnsAre
      <4>2. Turn(n, Min(Turns(n))) \in Id
        BY <1>1, <4>1, TurnIs
      <4> QED
        BY <4>2, Constants DEF Id
    <3>2. current' = [current EXCEPT ![n] = Turn(n, Min(Turns(n)))]
      BY <1>6 DEF EncodeRefused
    <3> QED
      BY <1>1, <3>1, <3>2 DEF MemoryInv
  <2>4. UpdateReturns(n) /\ UNCHANGED <<conns, tun, kernel, freeIds, sendingTo, sent, got>>
    BY <1>6 DEF EncodeRefused, history
  <2> QED
    BY <2>1, <2>2, <2>3, <2>4, ReturnKeeps
<1>7. CASE RoundDone(n)
  <2>1. phase[n] \in Running
    BY <1>7 DEF RoundDone, Running
  <2>2. queue' \in [Node -> Queues] /\ current' \in [Node -> 0..MaxId]
    BY <1>1, <1>7 DEF RoundDone, pump, MemoryInv
  <2>3. UpdateReturns(n) /\ UNCHANGED <<conns, tun, kernel, freeIds, sendingTo, sent, got>>
    BY <1>7 DEF RoundDone, pump, history
  <2> QED
    BY <2>1, <2>2, <2>3, ReturnKeeps
<1> QED
  BY <1>2, <1>3, <1>4, <1>5, <1>6, <1>7 DEF Transfer

LEMMA NextKeeps == Inv /\ [Next]_vars => Inv'
<1> SUFFICES ASSUME Inv, [Next]_vars
             PROVE  Inv'
  OBVIOUS
<1>1. CASE UNCHANGED vars
  <2>1. UNCHANGED <<phase, conns, tun, wire, signalled, accepted, freeIds, queue, sendingTo,
                    current, sorted, visited, sent, got>>
    BY <1>1 DEF vars, kernel, pump, local, history
  <2>2. MemoryInv'
    BY <2>1 DEF Inv, MemoryInv
  <2>3. ArrayInv'
    BY <2>1 DEF Inv, ArrayInv, ArrayRight
  <2>4. FrameInv'
    BY <2>1, FramesKept DEF Inv, IsRunning
  <2>5. ServerInv' /\ NoBadStart'
    BY <2>1, ServerKept DEF Inv, NoBadStart
  <2> QED
    BY <2>2, <2>3, <2>4, <2>5 DEF Inv
<1>2. ASSUME NEW n \in Node, Update(n)
      PROVE  Inv'
  BY <1>2, EnterPollKeeps, SortKeeps, StateChangesKeep, RecvKeeps, TransferKeeps DEF Update
<1>3. ASSUME NEW n \in Node, PollReturnsUser(n)
      PROVE  Inv'
  <2>1. "stopped" \in Ended /\ "stopped" # BadStart
    BY Zenon DEF Ended, BadStart
  <2> QED
    BY <1>3, <2>1, EndKeeps DEF PollReturnsUser
<1> QED
  BY <1>1, <1>2, <1>3, PollReturnsKeeps, SignalKeeps DEF Next

(* The forwarder's memory is always as Inv says: types and bounds, an array *)
(* that points at live connections, whole frames on their way between the   *)
(* nodes, and different identifiers at the server.                          *)
THEOREM ForwarderInvariant == Spec => []Inv
<1> QED
  BY InitInv, NextKeeps, PTL DEF Spec

(* No buffer, no queue, no stack of the forwarder ever holds more than its  *)
(* capacity, whatever the two processes and the kernel do.                  *)
THEOREM BuffersHold == Spec => []TypeOK
<1>1. Inv => TypeOK
  <2> SUFFICES ASSUME Inv
               PROVE  TypeOK
    OBVIOUS
  <2>1. MemoryInv
    BY DEF Inv
  <2>2. ASSUME NEW I \in SUBSET (NoId..MaxId), NEW A, NEW B, NEW c \in Record(I, A, B)
        PROVE  IsConnection(c)
    <3>1. /\ c.id \in I /\ c.state \in SUBSET Flag /\ c.in \in SUBSET Flag
          /\ c.out \in SUBSET Flag /\ c.events \in SUBSET Event
      BY <2>2, RecordFields
    <3> QED
      BY <3>1 DEF IsConnection
  <2>3. ASSUME NEW n \in Node, NEW s \in Live(n)
        PROVE  /\ IsConnection(conns[n][s])
               /\ Len(conns[n][s].inBuf) <= BufSize /\ Len(conns[n][s].outBuf) <= BufSize
    <3>1. conns[n][s] \in Connections
      BY <2>1 DEF MemoryInv, Live
    <3>2. Id \cup {NoId} \in SUBSET (NoId..MaxId)
      BY Constants DEF Id, NoId
    <3> DEFINE c == conns[n][s]
    <3> HIDE DEF c
    <3>3. /\ c \in Record(Id \cup {NoId}, Data, Data)
          /\ Len(c.inBuf) <= BufSize /\ Len(c.outBuf) <= BufSize
      BY <3>1 DEF Connections, c
    <3>4. IsConnection(c)
      BY <2>2, <3>2, <3>3
    <3> QED
      BY <3>3, <3>4 DEF c
  <2>4. ASSUME NEW n \in Node
        PROVE  /\ IsConnection(tun[n])
               /\ Len(tun[n].inBuf) <= TunnelSize /\ Len(tun[n].outBuf) <= TunnelSize
               /\ Len(wire[n]) <= WireSize /\ Len(queue[n]) <= QueueSize
               /\ sendingTo[n] \in 0..MaxId /\ current[n] \in 0..MaxId
    <3>1. {0} \in SUBSET (NoId..MaxId)
      BY Constants DEF NoId
    <3>2. tun[n] \in Record({0}, Byte, Byte)
      BY <2>1, TunnelFields
    <3>3. IsConnection(tun[n])
      BY <2>2, <3>1, <3>2
    <3>4. Len(wire[n]) <= WireSize /\ Len(queue[n]) <= QueueSize
      BY <2>1 DEF MemoryInv, Wires, Queues
    <3> QED
      BY <2>1, <3>3, <3>4, TunnelFields DEF MemoryInv
  <2>5. freeIds \in Seq(Id) /\ Len(freeIds) <= MaxId
    BY <2>1 DEF MemoryInv, Stacks
  <2> QED
    BY <2>3, <2>4, <2>5 DEF TypeOK
<1> QED
  BY <1>1, ForwarderInvariant, PTL

(* The server never has two connections with one identifier: it refuses NEW *)
(* for an identifier in use, and every other step leaves identifiers alone. *)
THEOREM ServerNamesDiffer == Spec => []ServerIdsUnique
<1>1. Inv => ServerIdsUnique
  BY DEF Inv, ServerInv
<1> QED
  BY <1>1, ForwarderInvariant, PTL

(* handle_state_changes never reports that writing has failed: such a       *)
(* connection still has data in its buffer, and should_close_out asks for   *)
(* an empty one.                                                            *)
THEOREM FailedWritesAreKept == Spec => []FailedWritesStayUnreported
<1>1. Inv => FailedWritesStayUnreported
  <2> SUFFICES ASSUME Inv, NEW n \in Node, NEW i \in DOMAIN queue[n]
               PROVE  queue[n][i].cmd # "CLOSE_DST_TO_SRC"
    BY DEF FailedWritesStayUnreported
  <2>1. queue[n] \in Seq(Commands)
    BY DEF Inv, MemoryInv, Queues
  <2>2. queue[n][i] \in Commands
    BY <2>1
  <2> QED
    BY <2>2 DEF Commands, Cmd
<1> QED
  BY <1>1, ForwarderInvariant, PTL

(* The exit for a wrong starting byte (pump.c:207) is never taken, even     *)
(* when commands were lost, connections are gone or the peer has ended:     *)
(* what a node reads next is always the beginning of a whole frame, or the  *)
(* rest of the one it is in the middle of.                                  *)
THEOREM FramesBeginRightly == Spec => []NoBadStart
<1>1. Inv => NoBadStart
  BY DEF Inv
<1> QED
  BY <1>1, ForwarderInvariant, PTL
-----------------------------------------------------------------------------
(* What a sequence of bytes carries, and in which order                     *)

CmdBytes == {"cmd"} \X Cmd \X Session

Arg(i) == <<"arg", i>>

Args == {"arg"} \X Id

Carries(L, b) == \E k \in 1..Len(L) : L[k] = b

Before(L, a, b) == \E j, k \in 1..Len(L) : j < k /\ L[j] = a /\ L[k] = b

(* A command comes before its argument.                                     *)
Tells(L, b, i) == \E k \in 1..Len(L) : k < Len(L) /\ L[k] = b /\ L[k + 1] = Arg(i)

LEMMA ConcatIs ==
  ASSUME NEW S, NEW a \in Seq(S), NEW b \in Seq(S)
  PROVE  /\ a \o b \in Seq(S) /\ Len(a \o b) = Len(a) + Len(b)
         /\ Len(a) \in Nat /\ Len(b) \in Nat
         /\ \A k \in 1..Len(a) : (a \o b)[k] = a[k]
         /\ \A k \in 1..Len(b) : (a \o b)[Len(a) + k] = b[k]
         /\ \A k \in 1..Len(a \o b) : k > Len(a) => k - Len(a) \in 1..Len(b)
                                        /\ (a \o b)[k] = b[k - Len(a)]
<1>1. a \o b \in Seq(S) /\ Len(a \o b) = Len(a) + Len(b)
      /\ \A k \in 1..(Len(a) + Len(b)) :
           (a \o b)[k] = IF k <= Len(a) THEN a[k] ELSE b[k - Len(a)]
  BY ConcatProperties
<1>2. Len(a) \in Nat /\ Len(b) \in Nat
  BY LenProperties
<1>3. ASSUME NEW k \in 1..Len(b)
      PROVE  (a \o b)[Len(a) + k] = b[k]
  <2>1. Len(a) + k \in 1..(Len(a) + Len(b)) /\ ~(Len(a) + k <= Len(a)) /\ (Len(a) + k) - Len(a) = k
    BY <1>2
  <2> QED
    BY <1>1, <2>1
<1>4. \A k \in 1..Len(a) : (a \o b)[k] = a[k]
  BY <1>1, <1>2
<1>5. \A k \in 1..Len(a \o b) : k > Len(a) => k - Len(a) \in 1..Len(b)
                                        /\ (a \o b)[k] = b[k - Len(a)]
  BY <1>1, <1>2
<1> QED
  BY <1>1, <1>2, <1>3, <1>4, <1>5

LEMMA CarriesConcat ==
  ASSUME NEW S, NEW a \in Seq(S), NEW b \in Seq(S), NEW x
  PROVE  Carries(a \o b, x) <=> Carries(a, x) \/ Carries(b, x)
<1> DEFINE c == a \o b
<1>1. /\ Len(c) = Len(a) + Len(b) /\ Len(a) \in Nat /\ Len(b) \in Nat
      /\ \A k \in 1..Len(a) : c[k] = a[k]
      /\ \A k \in 1..Len(b) : c[Len(a) + k] = b[k]
      /\ \A k \in 1..Len(c) : k > Len(a) => k - Len(a) \in 1..Len(b) /\ c[k] = b[k - Len(a)]
  BY ConcatIs
<1> HIDE DEF c
<1>2. ASSUME Carries(a, x) PROVE Carries(c, x)
  <2>1. PICK k \in 1..Len(a) : a[k] = x
    BY <1>2 DEF Carries
  <2>2. k \in 1..Len(c) /\ c[k] = x
    BY <1>1, <2>1
  <2> QED
    BY <2>2 DEF Carries
<1>3. ASSUME Carries(b, x) PROVE Carries(c, x)
  <2>1. PICK k \in 1..Len(b) : b[k] = x
    BY <1>3 DEF Carries
  <2>2. Len(a) + k \in 1..Len(c) /\ c[Len(a) + k] = x
    BY <1>1, <2>1
  <2> QED
    BY <2>2 DEF Carries
<1>4. ASSUME Carries(c, x) PROVE Carries(a, x) \/ Carries(b, x)
  <2>1. PICK k \in 1..Len(c) : c[k] = x
    BY <1>4 DEF Carries
  <2>2. CASE k <= Len(a)
    <3>1. k \in 1..Len(a) /\ a[k] = x
      BY <1>1, <2>1, <2>2
    <3> QED
      BY <3>1 DEF Carries
  <2>3. CASE ~(k <= Len(a))
    <3>1. k - Len(a) \in 1..Len(b) /\ b[k - Len(a)] = x
      BY <1>1, <2>1, <2>3
    <3> QED
      BY <3>1 DEF Carries
  <2> QED
    BY <2>2, <2>3
<1> QED
  BY <1>2, <1>3, <1>4 DEF c

LEMMA BeforeConcat ==
  ASSUME NEW S, NEW a \in Seq(S), NEW b \in Seq(S), NEW x, NEW y
  PROVE  Before(a \o b, x, y) <=>
           Before(a, x, y) \/ Before(b, x, y) \/ (Carries(a, x) /\ Carries(b, y))
<1> DEFINE c == a \o b
<1>1. /\ Len(c) = Len(a) + Len(b) /\ Len(a) \in Nat /\ Len(b) \in Nat
      /\ \A k \in 1..Len(a) : c[k] = a[k]
      /\ \A k \in 1..Len(b) : c[Len(a) + k] = b[k]
      /\ \A k \in 1..Len(c) : k > Len(a) => k - Len(a) \in 1..Len(b) /\ c[k] = b[k - Len(a)]
  BY ConcatIs
<1> HIDE DEF c
<1>2. ASSUME Before(a, x, y) PROVE Before(c, x, y)
  <2>1. PICK j \in 1..Len(a), k \in 1..Len(a) : j < k /\ a[j] = x /\ a[k] = y
    BY <1>2 DEF Before
  <2>2. j \in 1..Len(c) /\ k \in 1..Len(c) /\ c[j] = x /\ c[k] = y
    BY <1>1, <2>1
  <2> QED
    BY <2>1, <2>2 DEF Before
<1>3. ASSUME Before(b, x, y) PROVE Before(c, x, y)
  <2>1. PICK j \in 1..Len(b), k \in 1..Len(b) : j < k /\ b[j] = x /\ b[k] = y
    BY <1>3 DEF Before
  <2>2. /\ Len(a) + j \in 1..Len(c) /\ Len(a) + k \in 1..Len(c) /\ Len(a) + j < Len(a) + k
        /\ c[Len(a) + j] = x /\ c[Len(a) + k] = y
    BY <1>1, <2>1
  <2> QED
    BY <2>2 DEF Before
<1>4. ASSUME Carries(a, x), Carries(b, y) PROVE Before(c, x, y)
  <2>1. PICK j \in 1..Len(a) : a[j] = x
    BY <1>4 DEF Carries
  <2>2. PICK k \in 1..Len(b) : b[k] = y
    BY <1>4 DEF Carries
  <2>3. /\ j \in 1..Len(c) /\ Len(a) + k \in 1..Len(c) /\ j < Len(a) + k
        /\ c[j] = x /\ c[Len(a) + k] = y
    BY <1>1, <2>1, <2>2
  <2> QED
    BY <2>3 DEF Before
<1>5. ASSUME Before(c, x, y)
      PROVE  Before(a, x, y) \/ Before(b, x, y) \/ (Carries(a, x) /\ Carries(b, y))
  <2>1. PICK j \in 1..Len(c), k \in 1..Len(c) : j < k /\ c[j] = x /\ c[k] = y
    BY <1>5 DEF Before
  <2>2. CASE k <= Len(a)
    <3>1. j \in 1..Len(a) /\ k \in 1..Len(a) /\ a[j] = x /\ a[k] = y
      BY <1>1, <2>1, <2>2
    <3> QED
      BY <2>1, <3>1 DEF Before
  <2>3. CASE ~(k <= Len(a)) /\ j <= Len(a)
    <3>1. j \in 1..Len(a) /\ a[j] = x /\ k - Len(a) \in 1..Len(b) /\ b[k - Len(a)] = y
      BY <1>1, <2>1, <2>3
    <3> QED
      BY <3>1 DEF Carries
  <2>4. CASE ~(j <= Len(a))
    <3>1. /\ j - Len(a) \in 1..Len(b) /\ b[j - Len(a)] = x
          /\ k - Len(a) \in 1..Len(b) /\ b[k - Len(a)] = y /\ j - Len(a) < k - Len(a)
      BY <1>1, <2>1, <2>4
    <3> QED
      BY <3>1 DEF Before
  <2> QED
    BY <2>2, <2>3, <2>4
<1> QED
  BY <1>2, <1>3, <1>4, <1>5 DEF c

LEMMA TellsConcat ==
  ASSUME NEW S, NEW a \in Seq(S), NEW b \in Seq(S), NEW x, NEW i
  PROVE  /\ Tells(a, x, i) \/ Tells(b, x, i) => Tells(a \o b, x, i)
         /\ Tells(a \o b, x, i) =>
              \/ Tells(a, x, i) \/ Tells(b, x, i)
              \/ Len(a) > 0 /\ Len(b) > 0 /\ a[Len(a)] = x /\ b[1] = Arg(i)
<1> DEFINE c == a \o b
<1>1. /\ Len(c) = Len(a) + Len(b) /\ Len(a) \in Nat /\ Len(b) \in Nat
      /\ \A k \in 1..Len(a) : c[k] = a[k]
      /\ \A k \in 1..Len(b) : c[Len(a) + k] = b[k]
      /\ \A k \in 1..Len(c) : k > Len(a) => k - Len(a) \in 1..Len(b) /\ c[k] = b[k - Len(a)]
  BY ConcatIs
<1> HIDE DEF c
<1>2. ASSUME Tells(a, x, i) PROVE Tells(c, x, i)
  <2>1. PICK k \in 1..Len(a) : k < Len(a) /\ a[k] = x /\ a[k + 1] = Arg(i)
    BY <1>2 DEF Tells
  <2>2. k + 1 \in 1..Len(a) /\ k \in 1..Len(c) /\ k < Len(c)
    BY <1>1, <2>1
  <2>3. c[k] = x /\ c[k + 1] = Arg(i)
    BY <1>1, <2>1, <2>2
  <2> QED
    BY <2>2, <2>3 DEF Tells
<1>3. ASSUME Tells(b, x, i) PROVE Tells(c, x, i)
  <2>1. PICK k \in 1..Len(b) : k < Len(b) /\ b[k] = x /\ b[k + 1] = Arg(i)
    BY <1>3 DEF Tells
  <2>2. k + 1 \in 1..Len(b) /\ Len(a) + k \in 1..Len(c) /\ Len(a) + k < Len(c)
        /\ (Len(a) + k) + 1 = Len(a) + (k + 1)
    BY <1>1, <2>1
  <2>3. c[Len(a) + k] = x /\ c[(Len(a) + k) + 1] = Arg(i)
    BY <1>1, <2>1, <2>2
  <2> QED
    BY <2>2, <2>3 DEF Tells
<1>4. ASSUME Tells(c, x, i)
      PROVE  \/ Tells(a, x, i) \/ Tells(b, x, i)
             \/ Len(a) > 0 /\ Len(b) > 0 /\ a[Len(a)] = x /\ b[1] = Arg(i)
  <2>1. PICK k \in 1..Len(c) : k < Len(c) /\ c[k] = x /\ c[k + 1] = Arg(i)
    BY <1>4 DEF Tells
  <2>2. CASE k < Len(a)
    <3>1. k \in 1..Len(a) /\ k + 1 \in 1..Len(a)
      BY <1>1, <2>1, <2>2
    <3>2. a[k] = x /\ a[k + 1] = Arg(i)
      BY <1>1, <2>1, <3>1
    <3> QED
      BY <2>2, <3>1, <3>2 DEF Tells
  <2>3. CASE k = Len(a)
    <3>1. Len(a) > 0 /\ Len(b) > 0 /\ k \in 1..Len(a) /\ 1 \in 1..Len(b)
      BY <1>1, <2>1, <2>3
    <3>2. a[k] = x /\ c[Len(a) + 1] = b[1]
      BY <1>1, <2>1, <3>1
    <3> QED
      BY <2>1, <2>3, <3>1, <3>2
  <2>4. CASE k > Len(a)
    <3> DEFINE j == k - Len(a)
    <3>1. j \in 1..Len(b) /\ j < Len(b) /\ j + 1 = (k + 1) - Len(a) /\ k + 1 \in 1..Len(c)
          /\ k + 1 > Len(a)
      BY <1>1, <2>1, <2>4
    <3>2. b[j] = x
      BY <1>1, <2>1, <2>4
    <3>3. b[(k + 1) - Len(a)] = Arg(i)
      BY <1>1, <2>1, <3>1
    <3> HIDE DEF j
    <3>4. b[j + 1] = Arg(i)
      BY <3>1, <3>3
    <3> QED
      BY <3>1, <3>2, <3>4 DEF Tells
  <2> QED
    BY <1>1, <2>1, <2>2, <2>3, <2>4
<1> QED
  BY <1>2, <1>3, <1>4 DEF c
-----------------------------------------------------------------------------
(* What the nodes remember of a connection                                  *)

(* Its face: what commands are about.                                       *)
SameFace(c, d) ==
  /\ d.id = c.id
  /\ "NEW" \in d.state <=> "NEW" \in c.state
  /\ "DELETE" \in d.state <=> "DELETE" \in c.state
  /\ "DELETE" \in d.in <=> "DELETE" \in c.in
  /\ "DELETE" \in d.out <=> "DELETE" \in c.out

(* Bytes may be written to it, or still wait to be.                         *)
Writable(c) == "DELETE" \notin c.state /\ (IsAlive(c.out) \/ c.outBuf # <<>>)

EndsBoth(c) == "CLOSED" \in c.state => "CLOSED" \in c.in /\ "CLOSED" \in c.out

(* Until it has an identifier nobody else knows of it.                      *)
Unnamed(c) ==
  c.id = NoId => /\ c.state = {"NEW"} /\ c.out = {} /\ c.outBuf = <<>>
                 /\ "DELETE" \notin c.in

Sound(c) == EndsBoth(c) /\ Unnamed(c)

(* The connection is served, closed, filled or emptied, and no more.        *)
Carried(c, d) ==
  /\ SameFace(c, d)
  /\ Sound(c) => Sound(d)
  /\ Writable(c) => Writable(d)

LEMMA CarriedSame == \A c : Carried(c, c)
BY DEF Carried, SameFace

LEMMA ConnectionFields ==
  ASSUME NEW c \in Connections
  PROVE  /\ c.id \in Id \cup {NoId} /\ c.state \in SUBSET Flag /\ c.in \in SUBSET Flag
         /\ c.out \in SUBSET Flag /\ c.inBuf \in Seq(Data) /\ c.outBuf \in Seq(Data)
         /\ Len(c.inBuf) \in Nat /\ Len(c.outBuf) \in Nat
         /\ Len(c.inBuf) <= BufSize /\ Len(c.outBuf) <= BufSize
         /\ c \in Record(Id \cup {NoId}, Data, Data) /\ OutputEndsRightly(c)
<1>1. c \in Record(Id \cup {NoId}, Data, Data) /\ OutputEndsRightly(c)
      /\ Len(c.inBuf) <= BufSize /\ Len(c.outBuf) <= BufSize
  BY DEF Connections
<1>2. /\ c.id \in Id \cup {NoId} /\ c.state \in SUBSET Flag /\ c.in \in SUBSET Flag
      /\ c.out \in SUBSET Flag /\ c.inBuf \in Seq(Data) /\ c.outBuf \in Seq(Data)
  BY <1>1, RecordFields
<1> QED
  BY <1>1, <1>2

LEMMA ClosingFlags ==
  ASSUME NEW c \in Connections
  PROVE  LET d == CloseSockets(c)
         IN  /\ c.in \subseteq d.in /\ d.in \subseteq c.in \cup {"CLOSED"}
             /\ c.out \subseteq d.out /\ d.out \subseteq c.out \cup {"CLOSED"}
             /\ "CLOSED" \in d.state /\ "CLOSED" \notin c.state => "CLOSED" \in d.in \cap d.out
             /\ "DELETE" \in c.state => "CLOSED" \in d.state
             /\ "DELETE" \notin c.state /\ IsAlive(c.out) => d.out = c.out /\ d.state = c.state
<1> DEFINE d == CloseSockets(c)
<1>1. c \in Record(Id \cup {NoId}, Data, Data) /\ "EOF" \notin c.state
  BY ConnectionFields DEF OutputEndsRightly
<1>2. CASE "CLOSED" \in c.state
  <2>1. d = c
    BY <1>2 DEF CloseSockets
  <2> QED
    BY <1>2, <2>1
<1>3. CASE "CLOSED" \notin c.state /\ ShouldCloseSocket(c)
  <2>1. /\ d.out = c.out \cup {"CLOSED"} /\ d.state = c.state \cup {"CLOSED"}
        /\ d.in = c.in \cup {"CLOSED"}
    BY <1>1, <1>3 DEF CloseSockets, Record
  <2>2. ~("DELETE" \notin c.state /\ IsAlive(c.out))
    BY <1>1, <1>3 DEF ShouldCloseSocket, ShouldClose
  <2> QED
    BY <1>3, <2>1, <2>2
<1>4. CASE "CLOSED" \notin c.state /\ ~ShouldCloseSocket(c)
  <2>1. /\ d.out = CloseDirection(c.out) /\ d.in = CloseDirection(c.in) /\ d.state = c.state
    BY <1>1, <1>4 DEF CloseSockets, Record
  <2>2. "DELETE" \notin c.state
    BY <1>4 DEF ShouldCloseSocket, ShouldClose
  <2>3. IsAlive(c.out) => CloseDirection(c.out) = c.out
    BY DEF IsAlive, CloseDirection, ShouldClose
  <2>4. \A f : f \subseteq CloseDirection(f) /\ CloseDirection(f) \subseteq f \cup {"CLOSED"}
    BY DEF CloseDirection
  <2> QED
    BY <1>4, <2>1, <2>2, <2>3, <2>4
<1> QED
  BY <1>2, <1>3, <1>4

LEMMA SettleCarries ==
  ASSUME NEW c \in Connections, c # NoConn
  PROVE  /\ "DELETE" \in c.state => Settle(c) = NoConn
         /\ "DELETE" \notin c.state => Settle(c) # NoConn /\ Carried(c, Settle(c))
<1> DEFINE d == CloseSockets(c)
<1>1. /\ c \in Record(Id \cup {NoId}, Data, Data)
      /\ d \in Record(Id \cup {NoId}, Data, Data) /\ d.id = c.id
      /\ d.inBuf = c.inBuf /\ d.outBuf = c.outBuf
      /\ d.state \subseteq c.state \cup {"CLOSED"} /\ c.state \subseteq d.state
  <2>1. c \in Record(Id \cup {NoId}, Data, Data)
    BY ConnectionFields
  <2> QED
    BY <2>1, CloseSocketsKeeps
<1>2. /\ c.in \subseteq d.in /\ d.in \subseteq c.in \cup {"CLOSED"}
      /\ c.out \subseteq d.out /\ d.out \subseteq c.out \cup {"CLOSED"}
      /\ "CLOSED" \in d.state /\ "CLOSED" \notin c.state => "CLOSED" \in d.in \cap d.out
      /\ "DELETE" \in c.state => "CLOSED" \in d.state
      /\ "DELETE" \notin c.state /\ IsAlive(c.out) => d.out = c.out /\ d.state = c.state
  BY ClosingFlags
<1>3. Settle(c) = IF ShouldDelete(d) THEN NoConn ELSE d
  BY DEF Settle
<1>4. d # NoConn
  <2>1. \A I, A, B : NoConn \notin Record(I, A, B)
    <3>1. DOMAIN NoConn = {"id"}
      BY DEF NoConn
    <3>2. \A I, A, B : \A e \in Record(I, A, B) : "state" \in DOMAIN e
      BY DEF Record
    <3> QED
      BY <3>1, <3>2
  <2> QED
    BY <1>1, <2>1
<1> HIDE DEF d
<1>5. CASE "DELETE" \in c.state
  BY <1>1, <1>2, <1>3, <1>5 DEF ShouldDelete
<1>6. CASE "DELETE" \notin c.state
  <2>1. Settle(c) = d
    BY <1>1, <1>3, <1>6 DEF ShouldDelete
  <2>2. SameFace(c, d)
    BY <1>1, <1>2 DEF SameFace
  <2>3. Writable(c) => Writable(d)
    BY <1>1, <1>2, <1>6 DEF Writable
  <2>4. EndsBoth(c) => EndsBoth(d)
    BY <1>1, <1>2 DEF EndsBoth
  <2>5. Unnamed(c) => Unnamed(d)
    <3> SUFFICES ASSUME c.id = NoId, c.state = {"NEW"}, c.out = {}, c.outBuf = <<>>,
                        "DELETE" \notin c.in
                 PROVE  d.state = {"NEW"} /\ d.out = {} /\ d.outBuf = <<>>
                        /\ "DELETE" \notin d.in
      BY <1>1 DEF Unnamed
    <3>1. IsAlive(c.out)
      BY DEF IsAlive
    <3> QED
      BY <1>1, <1>2, <1>6, <3>1
  <2> QED
    BY <1>4, <1>6, <2>1, <2>2, <2>3, <2>4, <2>5 DEF Carried, Sound
<1> QED
  BY <1>5, <1>6

LEMMA CarriedOn ==
  ASSUME NEW c, NEW d, NEW e, Carried(c, d), Carried(d, e)
  PROVE  Carried(c, e)
BY DEF Carried, SameFace

LEMMA BeforePollCarries ==
  ASSUME NEW c \in Connections, c # NoConn
  PROVE  /\ "DELETE" \in c.state => BeforePoll(c) = NoConn
         /\ "DELETE" \notin c.state => BeforePoll(c) # NoConn /\ Carried(c, BeforePoll(c))
<1> DEFINE d == Settle(c)
           e == WatchOutput(d)
<1>1. /\ "DELETE" \in c.state => d = NoConn
      /\ "DELETE" \notin c.state => d # NoConn /\ Carried(c, d)
      /\ d \in Connections \cup {NoConn}
  BY SettleCarries, SettleKeeps
<1>2. BeforePoll(c) = IF d = NoConn THEN NoConn ELSE e
  BY DEF BeforePoll
<1> HIDE DEF d
<1>3. CASE "DELETE" \in c.state
  BY <1>1, <1>2, <1>3
<1>4. CASE "DELETE" \notin c.state
  <2>1. d \in Connections /\ d \in Record(Id \cup {NoId}, Data, Data)
    BY <1>1, <1>4, ConnectionFields
  <2>2. /\ e.id = d.id /\ e.state = d.state /\ e.out = d.out
        /\ e.inBuf = d.inBuf /\ e.outBuf = d.outBuf
    BY <2>1, WatchOutputKeeps
  <2>3. e.in = d.in
    BY <2>1 DEF WatchOutput, Record
  <2>4. e # NoConn
    <3>1. BeforePoll(c) \in Connections \cup {NoConn}
      BY BeforePollKeeps
    <3>2. "state" \in DOMAIN e
      BY <2>1 DEF WatchOutput, Record
    <3>3. DOMAIN NoConn = {"id"}
      BY DEF NoConn
    <3> QED
      BY <3>2, <3>3
  <2> HIDE DEF e
  <2>5. Carried(d, e)
    BY <2>2, <2>3 DEF Carried, SameFace, Sound, EndsBoth, Unnamed, Writable
  <2>6. Carried(c, e)
    BY <1>1, <1>4, <2>5, CarriedOn
  <2> QED
    BY <1>1, <1>2, <1>4, <2>4, <2>6
<1> QED
  BY <1>3, <1>4

LEMMA ServedInput ==
  ASSUME NEW c \in Connections, NEW r \in Int, NEW w \in Int, NEW bytes
  PROVE  LET d == Serve(c, bytes, r, w, BufSize)
         IN  c.in \subseteq d.in /\ d.in \subseteq c.in \cup {"EOF"}
<1> DEFINE d == Serve(c, bytes, r, w, BufSize)
           e == Received(c, bytes, r, BufSize)
<1>1. "in" \in DOMAIN c /\ c \in Record(Id \cup {NoId}, Data, Data)
  BY ConnectionFields DEF Record
<1>2. c.in \subseteq e.in /\ e.in \subseteq c.in \cup {"EOF"} /\ "in" \in DOMAIN e
  <2>1. CASE ~IsAlive(c.in) \/ IsStopped(c.state)
    BY <1>1, <2>1 DEF Received, Receive
  <2>2. CASE ~(~IsAlive(c.in) \/ IsStopped(c.state))
    <3> DEFINE buf == c.inBuf \o bytes
               flags == IF r = EndOfFile THEN c.in \cup {"EOF"} ELSE c.in
               ev == IF Len(buf) = BufSize \/ ~IsAlive(flags)
                     THEN c.events \ {"IN"} ELSE c.events \cup {"IN"}
    <3>1. e = [c EXCEPT !.inBuf = buf, !.in = flags, !.events = ev]
      BY <2>2 DEF Received, Receive
    <3> HIDE DEF buf, flags, ev, e
    <3>2. e.in = flags /\ "in" \in DOMAIN e
      BY <1>1, <3>1 DEF Record
    <3> QED
      BY <3>2 DEF flags
  <2> QED
    BY <2>1, <2>2
<1>3. Transmitted(e, w).in = e.in
  <2> HIDE DEF e
  <2> DEFINE buf == SubSeq(e.outBuf, Moved(w) + 1, Len(e.outBuf))
             flags == IF w = EndOfFile THEN e.out \cup {"EOF"} ELSE e.out
             ev == IF buf = <<>> \/ ~IsAlive(flags)
                   THEN e.events \ {"OUT"} ELSE e.events \cup {"OUT"}
  <2>1. CASE ~IsAlive(e.out) \/ IsStopped(e.state)
    BY <2>1 DEF Transmitted, Transmit
  <2>2. CASE ~(~IsAlive(e.out) \/ IsStopped(e.state))
    <3>1. Transmitted(e, w) = [e EXCEPT !.outBuf = buf, !.out = flags, !.events = ev]
      BY <2>2 DEF Transmit, Transmitted
    <3> HIDE DEF buf, flags, ev
    <3> QED
      BY <1>2, <3>1
  <2> QED
    BY <2>1, <2>2
<1>4. CASE ~IsAlive(c.state)
  BY <1>4 DEF Serve
<1>5. CASE IsAlive(c.state)
  <2>1. d = Transmitted(e, w)
    BY <1>5 DEF Serve, Received, Transmitted
  <2> QED
    BY <1>2, <1>3, <2>1
<1> QED
  BY <1>4, <1>5

LEMMA ServeCarries ==
  ASSUME NEW c \in Connections, NEW r \in Int, NEW w \in Int, NEW bytes \in Seq(Data),
         CanReceive(c, BufSize) \/ bytes = <<>>, Len(c.inBuf) + Len(bytes) <= BufSize,
         Moved(w) \in 0..Len(c.outBuf), CanTransmit(c) \/ w = 0
  PROVE  Carried(c, Serve(c, bytes, r, w, BufSize))
<1> DEFINE d == Serve(c, bytes, r, w, BufSize)
<1>1. /\ c \in Record(Id \cup {NoId}, Data, Data) /\ BufSize \in Nat
      /\ c.inBuf \in Seq(Data) /\ c.outBuf \in Seq(Data)
  BY ConnectionFields, Constants
<1>2. /\ d.id = c.id /\ d.state = c.state
      /\ d.outBuf = Rest(c.outBuf, Moved(w))
      /\ d.out = c.out \/ (w = EndOfFile /\ d.out = c.out \cup {"EOF"})
  <2>1. d.id = c.id /\ d.state = c.state
    BY <1>1, ServeKeeps
  <2>2. d.outBuf = Rest(c.outBuf, Moved(w))
    BY <1>1, ServeKeeps
  <2>3. d.out = c.out \/ (w = EndOfFile /\ d.out = c.out \cup {"EOF"})
    BY <1>1, ServeKeeps
  <2> HIDE DEF d
  <2> QED
    BY <2>1, <2>2, <2>3
<1>3. c.in \subseteq d.in /\ d.in \subseteq c.in \cup {"EOF"}
  BY ServedInput
<1> HIDE DEF d
<1>4. Moved(0) = 0 /\ Moved(EndOfFile) = 0 /\ EndOfFile # 0
  BY DEF Moved, EndOfFile
<1>5. SubSeq(c.outBuf, 0 + 1, Len(c.outBuf)) = c.outBuf
  BY <1>1, SubSeqFull
<1>6. w = 0 \/ w = EndOfFile => d.outBuf = c.outBuf
  BY <1>2, <1>4, <1>5 DEF Rest
<1>7. SameFace(c, d)
  BY <1>2, <1>3 DEF SameFace
<1>8. Writable(c) => Writable(d)
  <2> SUFFICES ASSUME Writable(c)
               PROVE  Writable(d)
    OBVIOUS
  <2>1. CASE w = EndOfFile
    <3>1. c.outBuf # <<>>
      BY <1>4, <2>1 DEF CanTransmit
    <3> QED
      BY <1>2, <1>6, <2>1, <3>1 DEF Writable
  <2>2. CASE w = 0
    <3>1. d.out = c.out
      BY <1>2, <1>4, <2>2
    <3> QED
      BY <1>2, <1>6, <2>2, <3>1 DEF Writable
  <2>3. CASE w # 0 /\ w # EndOfFile
    <3>1. IsAlive(c.out) /\ d.out = c.out
      BY <1>2, <2>3 DEF CanTransmit
    <3> QED
      BY <1>2, <3>1 DEF Writable
  <2> QED
    BY <2>1, <2>2, <2>3
<1>9. EndsBoth(c) => EndsBoth(d)
  BY <1>2, <1>3 DEF EndsBoth
<1>10. Unnamed(c) => Unnamed(d)
  <2> SUFFICES ASSUME c.id = NoId, c.state = {"NEW"}, c.out = {}, c.outBuf = <<>>,
                      "DELETE" \notin c.in
               PROVE  d.state = {"NEW"} /\ d.out = {} /\ d.outBuf = <<>> /\ "DELETE" \notin d.in
    BY <1>2 DEF Unnamed
  <2>1. w = 0
    BY DEF CanTransmit
  <2> QED
    BY <1>2, <1>3, <1>4, <1>6, <2>1
<1>11. Carried(c, d)
  BY <1>7, <1>8, <1>9, <1>10 DEF Carried, Sound
<1> QED
  BY <1>11 DEF d

LEMMA GainCarries ==
  ASSUME NEW c \in Connections, NEW bytes \in Seq(Data)
  PROVE  LET d == [c EXCEPT !.outBuf = @ \o bytes]
         IN  /\ d.id = c.id /\ d.state = c.state /\ d.in = c.in /\ d.out = c.out
             /\ d.inBuf = c.inBuf /\ d.outBuf = c.outBuf \o bytes
             /\ c.id # NoId => Carried(c, d)
<1> DEFINE buf == c.outBuf \o bytes
           d == [c EXCEPT !.outBuf = buf]
<1>1. c \in Record(Id \cup {NoId}, Data, Data) /\ c.outBuf \in Seq(Data)
  BY ConnectionFields
<1>2. c.outBuf # <<>> => buf # <<>>
  <2>1. Len(buf) = Len(c.outBuf) + Len(bytes) /\ Len(c.outBuf) \in Nat /\ Len(bytes) \in Nat
        /\ buf \in Seq(Data)
    BY <1>1, ConcatProperties
  <2> HIDE DEF buf
  <2> QED
    BY <1>1, <2>1, EmptySeq
<1> HIDE DEF buf
<1>3. /\ d.id = c.id /\ d.state = c.state /\ d.in = c.in /\ d.out = c.out
      /\ d.inBuf = c.inBuf /\ d.outBuf = buf
  BY <1>1 DEF Record
<1> HIDE DEF d
<1>4. c.id # NoId => Carried(c, d)
  BY <1>2, <1>3 DEF Carried, SameFace, Sound, EndsBoth, Unnamed, Writable
<1> QED
  BY <1>3, <1>4 DEF d, buf

LEMMA DropCarries ==
  ASSUME NEW c \in Connections, NEW buf
  PROVE  LET d == [c EXCEPT !.inBuf = buf]
         IN  /\ d.id = c.id /\ d.state = c.state /\ d.in = c.in /\ d.out = c.out
             /\ d.inBuf = buf /\ d.outBuf = c.outBuf
             /\ Carried(c, d)
<1> DEFINE d == [c EXCEPT !.inBuf = buf]
<1>1. c \in Record(Id \cup {NoId}, Data, Data)
  BY ConnectionFields
<1>2. /\ d.id = c.id /\ d.state = c.state /\ d.in = c.in /\ d.out = c.out
      /\ d.inBuf = buf /\ d.outBuf = c.outBuf
  BY <1>1 DEF Record
<1> HIDE DEF d
<1>3. Carried(c, d)
  BY <1>2 DEF Carried, SameFace, Sound, EndsBoth, Unnamed, Writable
<1> QED
  BY <1>2, <1>3 DEF d

LEMMA ReportFields ==
  ASSUME NEW c \in Connections
  PROVE  /\ LET d == AfterReport(c, "NEW")
            IN  /\ d.id = c.id /\ d.state = (c.state \ {"NEW"}) \cup {"STOPPED"}
                /\ d.in = c.in /\ d.out = c.out /\ d.inBuf = c.inBuf /\ d.outBuf = c.outBuf
         /\ LET d == AfterReport(c, "CLOSE")
            IN  /\ d.id = c.id /\ d.state = c.state \cup {"DELETE"}
                /\ d.in = c.in /\ d.out = c.out /\ d.inBuf = c.inBuf /\ d.outBuf = c.outBuf
         /\ LET d == AfterReport(c, "CLOSE_SRC_TO_DST")
            IN  /\ d.id = c.id /\ d.state = c.state /\ d.in = c.in \cup {"DELETE"}
                /\ d.out = c.out /\ d.inBuf = c.inBuf /\ d.outBuf = c.outBuf
<1>1. c \in Record(Id \cup {NoId}, Data, Data)
  BY ConnectionFields
<1>2. /\ AfterReport(c, "NEW") = [c EXCEPT !.state = (c.state \ {"NEW"}) \cup {"STOPPED"}]
      /\ AfterReport(c, "CLOSE") = [c EXCEPT !.state = c.state \cup {"DELETE"}]
      /\ AfterReport(c, "CLOSE_SRC_TO_DST") = [c EXCEPT !.in = c.in \cup {"DELETE"}]
  BY DEF AfterReport
<1> QED
  BY <1>1, <1>2 DEF Record

LEMMA ObeyFields ==
  ASSUME NEW c \in Connections
  PROVE  /\ LET d == Obey(c, "ACK")
            IN  /\ d.id = c.id /\ d.state = c.state \ {"STOPPED"}
                /\ d.in = c.in /\ d.out = c.out /\ d.inBuf = c.inBuf /\ d.outBuf = c.outBuf
         /\ LET d == Obey(c, "CLOSE")
            IN  /\ d.id = c.id /\ d.state = c.state \cup {"DELETE"}
                /\ d.in = c.in /\ d.out = c.out /\ d.inBuf = c.inBuf /\ d.outBuf = c.outBuf
         /\ LET d == Obey(c, "CLOSE_SRC_TO_DST")
            IN  /\ d.id = c.id /\ d.state = c.state /\ d.in = c.in
                /\ d.out = c.out \cup {"DELETE"} /\ d.inBuf = c.inBuf /\ d.outBuf = c.outBuf
<1>1. c \in Record(Id \cup {NoId}, Data, Data)
  BY ConnectionFields
<1>2. /\ Obey(c, "ACK") = [c EXCEPT !.state = c.state \ {"STOPPED"}]
      /\ Obey(c, "CLOSE") = [c EXCEPT !.state = c.state \cup {"DELETE"}]
      /\ Obey(c, "CLOSE_SRC_TO_DST") = [c EXCEPT !.out = c.out \cup {"DELETE"}]
  BY DEF Obey
<1> QED
  BY <1>1, <1>2 DEF Record

LEMMA MadeFields ==
  \A i, st : LET c == MakeConnection(i, st)
             IN  /\ c.id = i /\ c.state = st /\ c.in = {} /\ c.out = {}
                 /\ c.inBuf = <<>> /\ c.outBuf = <<>>
BY DEF MakeConnection

LEMMA WithIdFields ==
  ASSUME MemoryInv, NEW n \in Node, NEW s \in Session, conns[n][s] # NoConn
  PROVE  LET c == conns[n][s]
             d == WithId(n, s)
         IN  /\ d.state = c.state /\ d.in = c.in /\ d.out = c.out
             /\ d.inBuf = c.inBuf /\ d.outBuf = c.outBuf
             /\ d.id = c.id \/ (c.id = NoId /\ d.id \in Id)
<1> DEFINE c == conns[n][s]
           d == WithId(n, s)
           i == freeIds[Len(freeIds) + 1 - Rank(n, s)]
<1>1. c \in Connections /\ c \in Record(Id \cup {NoId}, Data, Data)
  <2>1. c \in Connections
    BY DEF MemoryInv
  <2> QED
    BY <2>1, ConnectionFields
<1>2. CASE ~Named(n, s)
  <2>1. d = c
    BY <1>2 DEF WithId
  <2> QED
    BY <2>1
<1>3. CASE Named(n, s)
  <2>1. d = [c EXCEPT !.id = i]
    BY <1>3 DEF WithId
  <2>2. c.id = NoId
    BY <1>3 DEF Named, Nameless
  <2>3. i \in Id
    <3>1. Rank(n, s) \in Nat /\ Rank(n, s) > 0 /\ Rank(n, s) <= Len(freeIds)
      BY <1>3, RankIs DEF Named
    <3>2. freeIds \in Seq(Id) /\ Len(freeIds) \in Nat
      BY DEF MemoryInv, Stacks
    <3>3. Len(freeIds) + 1 - Rank(n, s) \in 1..Len(freeIds)
      BY <3>1, <3>2
    <3> QED
      BY <3>2, <3>3, ElementOfSeq
  <2> HIDE DEF i, c
  <2> QED
    BY <1>1, <2>1, <2>2, <2>3 DEF Record, c
<1> QED
  BY <1>2, <1>3
-----------------------------------------------------------------------------
(* The connection a frame in progress is for                                *)

(* Of the connections with an identifier the array holds the last one.      *)
Latest(n, i) == Max(Holders(n, i))

AllSound(n) == \A s \in Live(n) : Sound(conns[n][s])

PollClean(n) ==
  phase[n] \in {"poll", "sort"} => \A s \in Live(n) : "DELETE" \notin conns[n][s].state

ArrayLast(n) ==
  phase[n] \in {"state", "recv"} =>
    \A i \in Id : sorted[n][i] # NoSession =>
      /\ Holders(n, i) # {} /\ sorted[n][i] = Latest(n, i)
      /\ "DELETE" \notin conns[n][sorted[n][i]].state

(* A frame in progress is for the last connection with its identifier, the  *)
(* one the next round will find, too: it is not deleted, for it is never    *)
(* both closed for writing and empty.                                       *)
TargetThere(n) ==
  sendingTo[n] # 0 =>
    /\ Holders(n, sendingTo[n]) # {}
    /\ Writable(conns[n][Latest(n, sendingTo[n])])
    /\ phase[n] \in {"state", "recv"} => sorted[n][sendingTo[n]] = Latest(n, sendingTo[n])

NodeRight(n) == AllSound(n) /\ PollClean(n) /\ ArrayLast(n) /\ TargetThere(n)

TargetInv == \A n \in Node : NodeRight(n)

LEMMA MaxIs ==
  ASSUME NEW T \in SUBSET Session
  PROVE  /\ T # {} => Max(T) \in T /\ \A t \in T : t <= Max(T)
         /\ \A x \in T : (\A t \in T : t <= x) => Max(T) = x
<1>1. Session \subseteq Nat
  BY Constants DEF Session
<1>2. ASSUME NEW x \in T, \A t \in T : t <= x
      PROVE  Max(T) = x
  <2>1. x \in T /\ \A y \in T : x >= y
    BY <1>1, <1>2
  <2>2. Max(T) \in T /\ \A y \in T : Max(T) >= y
    BY <2>1, Zenon DEF Max
  <2>3. Max(T) >= x /\ x >= Max(T) /\ x \in Nat /\ Max(T) \in Nat
    BY <1>1, <2>1, <2>2
  <2> QED
    BY <2>3
<1>3. ASSUME T # {}
      PROVE  Max(T) \in T /\ \A t \in T : t <= Max(T)
  <2> DEFINE U == {Sessions - t : t \in T}
  <2>1. Sessions \in Nat /\ \A t \in T : t \in 1..Sessions
    BY Constants DEF Session
  <2>2. U \in SUBSET Nat /\ U # {}
    BY <1>3, <2>1
  <2>3. PICK u \in U : \A v \in U : u <= v
    BY <2>2, LeastNat
  <2>4. PICK x \in T : u = Sessions - x
    BY <2>3
  <2>5. \A y \in T : y <= x
    <3> SUFFICES ASSUME NEW y \in T
                 PROVE  y <= x
      OBVIOUS
    <3>1. Sessions - y \in U
      OBVIOUS
    <3>2. u <= Sessions - y
      BY <2>3, <3>1
    <3> QED
      BY <2>1, <2>4, <3>2
  <2> QED
    BY <1>2, <2>5
<1> QED
  BY <1>2, <1>3

LEMMA LatestIs ==
  ASSUME NEW n \in Node, NEW i, Holders(n, i) # {}
  PROVE  /\ Latest(n, i) \in Session /\ conns[n][Latest(n, i)] # NoConn
         /\ conns[n][Latest(n, i)].id = i
         /\ \A s \in Session : conns[n][s] # NoConn /\ conns[n][s].id = i => s <= Latest(n, i)
<1>1. Holders(n, i) \in SUBSET Session
  BY DEF Holders, Live
<1>2. Latest(n, i) \in Holders(n, i) /\ \A t \in Holders(n, i) : t <= Latest(n, i)
  BY <1>1, MaxIs DEF Latest
<1> QED
  BY <1>2 DEF Holders, Live

LEMMA LatestOne ==
  ASSUME NEW n \in Node, NEW i, NEW x \in Session, conns[n][x] # NoConn, conns[n][x].id = i,
         \A s \in Session : conns[n][s] # NoConn /\ conns[n][s].id = i => s <= x
  PROVE  Holders(n, i) # {} /\ Latest(n, i) = x
<1>1. Holders(n, i) \in SUBSET Session /\ x \in Holders(n, i)
      /\ \A t \in Holders(n, i) : t <= x
  BY DEF Holders, Live
<1> QED
  BY <1>1, MaxIs DEF Latest

(* A node that does nothing keeps what it has.                              *)
LEMMA NodeRightKept ==
  ASSUME NEW n \in Node, NodeRight(n), phase'[n] = phase[n], conns'[n] = conns[n],
         sendingTo'[n] = sendingTo[n], sorted'[n] = sorted[n]
  PROVE  NodeRight(n)'
<1>1. Live(n)' = Live(n)
  BY DEF Live
<1>2. \A i : Holders(n, i)' = Holders(n, i)
  BY <1>1 DEF Holders
<1>3. \A i : Latest(n, i)' = Latest(n, i)
  BY <1>2 DEF Latest
<1> QED
  BY <1>1, <1>2, <1>3 DEF NodeRight, AllSound, PollClean, ArrayLast, TargetThere

LEMMA NodesRight ==
  ASSUME TargetInv, MemoryInv, NEW n \in Node, NodeRight(n)',
         \A k \in Node : k # n => /\ phase'[k] = phase[k] /\ conns'[k] = conns[k]
                                  /\ sendingTo'[k] = sendingTo[k] /\ sorted'[k] = sorted[k]
  PROVE  TargetInv'
<1> SUFFICES ASSUME NEW k \in Node, k # n
             PROVE  NodeRight(k)'
  BY DEF TargetInv
<1> QED
  BY NodeRightKept DEF TargetInv

(* Connections come without a name, are carried on, or go when they are     *)
(* deleted.                                                                 *)
Passed(c, d) ==
  IF c = NoConn THEN d \in {NoConn, MakeConnection(NoId, {"NEW"})}
  ELSE (d # NoConn /\ Carried(c, d)) \/ (d = NoConn /\ "DELETE" \in c.state)

LEMMA PassedOn ==
  ASSUME NEW n \in Node, \A s \in Session : Passed(conns[n][s], conns'[n][s])
  PROVE  /\ AllSound(n) => AllSound(n)'
         /\ \A i \in Id : Holders(n, i) # {} /\ "DELETE" \notin conns[n][Latest(n, i)].state =>
              /\ Holders(n, i)' # {} /\ Latest(n, i)' = Latest(n, i)
              /\ Carried(conns[n][Latest(n, i)], conns'[n][Latest(n, i)])
<1> DEFINE fresh == MakeConnection(NoId, {"NEW"})
<1>1. fresh.id = NoId /\ Sound(fresh) /\ NoId \notin Id
  BY MadeFields, Constants DEF Sound, EndsBoth, Unnamed, Id, NoId
<1> HIDE DEF fresh
<1>2. \A s \in Session : Passed(conns[n][s], conns'[n][s])
  OBVIOUS
<1>3. ASSUME AllSound(n), NEW s \in Live(n)'
      PROVE  Sound(conns'[n][s])
  <2>1. s \in Session /\ conns'[n][s] # NoConn
    BY <1>3 DEF Live
  <2>2. CASE conns[n][s] = NoConn
    <3>1. conns'[n][s] = fresh
      BY <1>2, <2>1, <2>2 DEF Passed, fresh
    <3> QED
      BY <1>1, <3>1
  <2>3. CASE conns[n][s] # NoConn
    <3>1. Carried(conns[n][s], conns'[n][s]) /\ Sound(conns[n][s])
      BY <1>2, <1>3, <2>1, <2>3 DEF Passed, AllSound, Live
    <3> QED
      BY <3>1 DEF Carried
  <2> QED
    BY <2>2, <2>3
<1>4. ASSUME NEW i \in Id, Holders(n, i) # {}, "DELETE" \notin conns[n][Latest(n, i)].state
      PROVE  /\ Holders(n, i)' # {} /\ Latest(n, i)' = Latest(n, i)
             /\ Carried(conns[n][Latest(n, i)], conns'[n][Latest(n, i)])
  <2> DEFINE x == Latest(n, i)
  <2>1. /\ x \in Session /\ conns[n][x] # NoConn /\ conns[n][x].id = i
        /\ \A s \in Session : conns[n][s] # NoConn /\ conns[n][s].id = i => s <= x
    BY <1>4, LatestIs
  <2>2. "DELETE" \notin conns[n][x].state
    BY <1>4
  <2> HIDE DEF x
  <2>3. conns'[n][x] # NoConn /\ Carried(conns[n][x], conns'[n][x])
    BY <1>2, <2>1, <2>2 DEF Passed
  <2>4. conns'[n][x].id = i
    BY <2>1, <2>3 DEF Carried, SameFace
  <2>5. ASSUME NEW s \in Session, conns'[n][s] # NoConn, conns'[n][s].id = i
        PROVE  s <= x
    <3>1. conns[n][s] # NoConn
      BY <1>1, <1>2, <2>5 DEF Passed, fresh
    <3>2. conns[n][s].id = i
      BY <1>2, <2>5, <3>1 DEF Passed, Carried, SameFace
    <3> QED
      BY <2>1, <3>1, <3>2
  <2>6. Holders(n, i)' \in SUBSET Session /\ x \in Holders(n, i)'
        /\ \A t \in Holders(n, i)' : t <= x
    BY <2>1, <2>3, <2>4, <2>5 DEF Holders, Live
  <2>7. Latest(n, i)' = x
    BY <2>6, MaxIs DEF Latest
  <2> QED
    BY <2>3, <2>6, <2>7 DEF x
<1> QED
  BY <1>3, <1>4 DEF AllSound

LEMMA PassedKeeps ==
  ASSUME MemoryInv, NEW n \in Node, NodeRight(n),
         \A s \in Session : Passed(conns[n][s], conns'[n][s]),
         sendingTo'[n] \in {0, sendingTo[n]}, PollClean(n)',
         phase'[n] \in {"state", "recv"} =>
           phase[n] \in {"state", "recv"} /\ sorted'[n] = sorted[n]
  PROVE  NodeRight(n)'
<1>1. /\ AllSound(n)'
      /\ \A i \in Id : Holders(n, i) # {} /\ "DELETE" \notin conns[n][Latest(n, i)].state =>
              /\ Holders(n, i)' # {} /\ Latest(n, i)' = Latest(n, i)
              /\ Carried(conns[n][Latest(n, i)], conns'[n][Latest(n, i)])
  BY PassedOn DEF NodeRight
<1>2. ArrayLast(n)'
  <2> SUFFICES ASSUME phase'[n] \in {"state", "recv"}, NEW i \in Id, sorted'[n][i] # NoSession
               PROVE  /\ Holders(n, i)' # {} /\ sorted'[n][i] = Latest(n, i)'
                      /\ "DELETE" \notin conns'[n][sorted'[n][i]].state
    BY DEF ArrayLast
  <2>1. /\ Holders(n, i) # {} /\ sorted[n][i] = Latest(n, i)
        /\ "DELETE" \notin conns[n][sorted[n][i]].state /\ sorted'[n] = sorted[n]
    BY DEF NodeRight, ArrayLast
  <2> QED
    BY <1>1, <2>1 DEF Carried, SameFace
<1>3. TargetThere(n)'
  <2> SUFFICES ASSUME sendingTo'[n] # 0
               PROVE  TargetThere(n)'
    BY DEF TargetThere
  <2>1. PICK i \in Id : sendingTo[n] = i /\ sendingTo'[n] = i
    BY Constants DEF MemoryInv, Id
  <2>2. /\ Holders(n, i) # {} /\ Writable(conns[n][Latest(n, i)])
        /\ phase[n] \in {"state", "recv"} => sorted[n][i] = Latest(n, i)
    BY <2>1, Constants DEF NodeRight, TargetThere, Id
  <2>3. "DELETE" \notin conns[n][Latest(n, i)].state
    BY <2>2 DEF Writable
  <2>4. /\ Holders(n, i)' # {} /\ Latest(n, i)' = Latest(n, i)
        /\ Carried(conns[n][Latest(n, i)], conns'[n][Latest(n, i)])
    BY <1>1, <2>2, <2>3
  <2>5. Writable(conns'[n][Latest(n, i)'])
    BY <2>2, <2>4 DEF Carried
  <2>6. phase'[n] \in {"state", "recv"} => sorted'[n][i] = Latest(n, i)'
    BY <2>2, <2>4
  <2> QED
    BY <2>1, <2>4, <2>5, <2>6 DEF TargetThere
<1> QED
  BY <1>1, <1>2, <1>3 DEF NodeRight

LEMMA NothingPassed ==
  ASSUME NEW n \in Node, conns'[n] = conns[n]
  PROVE  \A s \in Session : Passed(conns[n][s], conns'[n][s])
BY CarriedSame DEF Passed

LEMMA OnePassed ==
  ASSUME MemoryInv, NEW n \in Node, NEW s \in Session, NEW d, conns[n][s] # NoConn, d # NoConn,
         Carried(conns[n][s], d), conns' = [conns EXCEPT ![n][s] = d]
  PROVE  /\ \A t \in Session : Passed(conns[n][t], conns'[n][t])
         /\ \A k \in Node : k # n => conns'[k] = conns[k]
         /\ conns'[n][s] = d /\ \A t \in Session : t # s => conns'[n][t] = conns[n][t]
<1>1. conns \in [Node -> [Session -> Connections \cup {NoConn}]]
  BY DEF MemoryInv
<1>2. /\ \A k \in Node : k # n => conns'[k] = conns[k]
      /\ conns'[n][s] = d /\ \A t \in Session : t # s => conns'[n][t] = conns[n][t]
  BY <1>1
<1>3. \A t \in Session : Passed(conns[n][t], conns'[n][t])
  BY <1>2, CarriedSame DEF Passed
<1> QED
  BY <1>2, <1>3

LEMMA EnterPollPasses ==
  ASSUME MemoryInv, NEW n \in Node, EnterPoll(n)
  PROVE  /\ \A s \in Session : Passed(conns[n][s], conns'[n][s])
         /\ \A s \in Live(n)' : s \in Live(n) /\ "DELETE" \notin conns[n][s].state
                                /\ "DELETE" \notin conns'[n][s].state
<1>1. \A s \in Session : conns'[n][s] = BeforePoll(conns[n][s])
                         /\ conns[n][s] \in Connections \cup {NoConn}
  BY DEF EnterPoll, MemoryInv
<1>2. BeforePoll(NoConn) = NoConn
  BY DEF BeforePoll, Settle
<1>3. ASSUME NEW s \in Session, conns[n][s] # NoConn
      PROVE  /\ "DELETE" \in conns[n][s].state => conns'[n][s] = NoConn
             /\ "DELETE" \notin conns[n][s].state => conns'[n][s] # NoConn
                                                  /\ Carried(conns[n][s], conns'[n][s])
  <2> DEFINE c == conns[n][s]
  <2>1. c \in Connections /\ c # NoConn /\ conns'[n][s] = BeforePoll(c)
    BY <1>1, <1>3
  <2> HIDE DEF c
  <2>2. /\ "DELETE" \in c.state => BeforePoll(c) = NoConn
        /\ "DELETE" \notin c.state => BeforePoll(c) # NoConn /\ Carried(c, BeforePoll(c))
    BY <2>1, BeforePollCarries
  <2> QED
    BY <2>1, <2>2 DEF c
<1>4. \A s \in Session : Passed(conns[n][s], conns'[n][s])
  BY <1>1, <1>2, <1>3 DEF Passed
<1>5. ASSUME NEW s \in Live(n)'
      PROVE  s \in Live(n) /\ "DELETE" \notin conns[n][s].state
                                /\ "DELETE" \notin conns'[n][s].state
  <2>1. s \in Session /\ conns'[n][s] # NoConn
    BY <1>5 DEF Live
  <2>2. conns[n][s] # NoConn
    BY <1>1, <1>2, <2>1
  <2> QED
    BY <1>3, <2>1, <2>2 DEF Live, Carried, SameFace
<1> QED
  BY <1>4, <1>5

LEMMA EnterPollRight ==
  ASSUME Inv, TargetInv, NEW n \in Node, EnterPoll(n)
  PROVE  TargetInv'
<1>1. MemoryInv /\ NodeRight(n)
  BY DEF Inv, TargetInv
<1>2. /\ phase'[n] = "poll" /\ sendingTo' = sendingTo /\ sorted' = sorted
      /\ \A k \in Node : k # n => phase'[k] = phase[k] /\ conns'[k] = conns[k]
  BY <1>1 DEF EnterPoll, Goto, MemoryInv, pump, local
<1>3. PollClean(n)'
  BY <1>1, EnterPollPasses DEF PollClean
<1>4. NodeRight(n)'
  BY <1>1, <1>2, <1>3, EnterPollPasses, PassedKeeps
<1> QED
  BY <1>1, <1>2, <1>4, NodesRight

(* What poll does to the connections: those that were there are served, and *)
(* one may be accepted.                                                     *)
LEMMA PollReturnsPasses ==
  ASSUME MemoryInv, NEW n \in Node, PollReturns(n), PollClean(n)
  PROVE  /\ \A s \in Live(n) : s \in Live(n)' /\ Carried(conns[n][s], conns'[n][s])
         /\ \A s \in Session : conns[n][s] = NoConn =>
              \/ conns'[n][s] = NoConn
              \/ /\ n = "client" /\ s = accepted + 1 /\ accepted' = accepted + 1
                 /\ conns'[n][s] = MakeConnection(NoId, {"NEW"})
         /\ accepted' \in {accepted, accepted + 1}
         /\ \A s \in Session : Passed(conns[n][s], conns'[n][s])
         /\ PollClean(n)'
<1>1. phase[n] = "poll" /\ phase' = [phase EXCEPT ![n] = "sort"]
  BY DEF PollReturns, Goto
<1>2. PICK read \in [Live(n) -> EndOfFile..BufSize],
           write \in [Live(n) -> EndOfFile..BufSize],
           r \in TunnelReads(n), w \in TunnelWrites(n),
           new \in {0} \cup (IF n = "client" /\ accepted < Sessions THEN {1} ELSE {}) :
       /\ \A s \in Live(n) : read[s] \in ReadResults(n, s)
                             /\ write[s] \in WriteResults(n, s)
       /\ \/ new = 1 \/ r # 0 \/ w # 0
          \/ \E s \in Live(n) : read[s] # 0 \/ write[s] # 0 \/ IsBusy(n, s)
       /\ accepted' = accepted + new
       /\ conns' = [conns EXCEPT ![n] =
            [s \in Session |->
               IF s \in Live(n)
               THEN Settle(Serve(conns[n][s], Arriving(n, s, read[s]),
                                 read[s], write[s], BufSize))
               ELSE IF new = 1 /\ s = accepted'
               THEN MakeConnection(NoId, {"NEW"})
               ELSE conns[n][s]]]
       /\ tun' = [tun EXCEPT ![n] =
            Settle(Serve(tun[n], SubSeq(wire[Other(n)], 1, Moved(r)), r, w, TunnelSize))]
       /\ wire' = [wire EXCEPT
            ![n] = @ \o SubSeq(tun[n].outBuf, 1, Moved(w)),
            ![Other(n)] = SubSeq(@, Moved(r) + 1, Len(@))]
       /\ sent' = [sent EXCEPT ![n] =
            [s \in Session |-> IF s \in Live(n) THEN sent[n][s] + Moved(read[s])
                                                ELSE sent[n][s]]]
       /\ got' = [got EXCEPT ![n] =
            [s \in Session |-> IF s \in Live(n)
                               THEN got[n][s] \o SubSeq(conns[n][s].outBuf, 1, Moved(write[s]))
                               ELSE got[n][s]]]
  BY DEF PollReturns
<1>3. /\ \A s \in Session : s \in Live(n) =>
           conns'[n][s] = Settle(Serve(conns[n][s], Arriving(n, s, read[s]),
                                       read[s], write[s], BufSize))
      /\ \A s \in Session : s \notin Live(n) =>
           conns'[n][s] = IF new = 1 /\ s = accepted'
                          THEN MakeConnection(NoId, {"NEW"}) ELSE conns[n][s]
  BY <1>2 DEF MemoryInv
<1>4. ASSUME NEW s \in Session, s \in Live(n)
      PROVE  /\ conns'[n][s] # NoConn /\ Carried(conns[n][s], conns'[n][s])
             /\ "DELETE" \notin conns'[n][s].state
  <2> DEFINE c == conns[n][s]
             e == Serve(c, Arriving(n, s, read[s]), read[s], write[s], BufSize)
  <2>1. c # NoConn /\ c \in Connections /\ "DELETE" \notin c.state
    BY <1>1, <1>4 DEF Live, MemoryInv, PollClean
  <2>2. read[s] \in ReadResults(n, s) /\ write[s] \in WriteResults(n, s)
    BY <1>2, <1>4
  <2>3. /\ read[s] \in Int /\ Arriving(n, s, read[s]) \in Seq(Data)
        /\ CanReceive(c, BufSize) \/ Arriving(n, s, read[s]) = <<>>
        /\ Len(c.inBuf) + Len(Arriving(n, s, read[s])) <= BufSize
    BY <2>1, <2>2, ReadBounds
  <2>4. /\ write[s] \in Int /\ Moved(write[s]) \in 0..Len(c.outBuf)
        /\ CanTransmit(c) \/ write[s] = 0
    BY <2>1, <2>2, WriteBounds
  <2>5. e \in Connections /\ Carried(c, e)
    <3> HIDE DEF c
    <3>1. e \in Connections
      BY <2>1, <2>3, <2>4, ServeConnection
    <3>2. Carried(c, e)
      BY <2>1, <2>3, <2>4, ServeCarries
    <3> QED
      BY <3>1, <3>2
  <2>6. conns'[n][s] = Settle(e)
    BY <1>3, <1>4
  <2> HIDE DEF e, c
  <2>7. "DELETE" \notin e.state
    BY <2>1, <2>5 DEF Carried, SameFace
  <2>8. Settle(e) # NoConn /\ Carried(e, Settle(e))
    BY <2>5, <2>7, NoConnIsNone, SettleCarries
  <2>9. Carried(c, Settle(e))
    BY <2>5, <2>8, CarriedOn
  <2>10. "DELETE" \notin Settle(e).state
    BY <2>7, <2>8 DEF Carried, SameFace
  <2> QED
    BY <2>6, <2>8, <2>9, <2>10 DEF c
<1>5. ASSUME NEW s \in Session, conns[n][s] = NoConn
      PROVE  \/ conns'[n][s] = NoConn
             \/ /\ n = "client" /\ s = accepted + 1 /\ accepted' = accepted + 1
                /\ conns'[n][s] = MakeConnection(NoId, {"NEW"})
  <2>1. s \notin Live(n)
    BY <1>5 DEF Live
  <2>2. new = 1 => n = "client" /\ accepted' = accepted + 1
    BY <1>2
  <2> QED
    BY <1>3, <1>5, <2>1, <2>2
<1>6. \A s \in Session : Passed(conns[n][s], conns'[n][s])
  BY <1>4, <1>5 DEF Passed, Live
<1>7. accepted' \in {accepted, accepted + 1}
  <2>1. new \in {0, 1} /\ accepted \in Nat
    BY <1>2 DEF MemoryInv
  <2> QED
    BY <1>2, <2>1
<1>8. PollClean(n)'
  <2> SUFFICES ASSUME NEW s \in Live(n)'
               PROVE  "DELETE" \notin conns'[n][s].state
    BY DEF PollClean
  <2>1. s \in Session /\ conns'[n][s] # NoConn
    BY DEF Live
  <2>2. MakeConnection(NoId, {"NEW"}).state = {"NEW"}
    BY MadeFields
  <2> QED
    BY <1>4, <1>5, <2>1, <2>2 DEF Live
<1> QED
  BY <1>4, <1>5, <1>6, <1>7, <1>8 DEF Live

LEMMA PollReturnsRight ==
  ASSUME Inv, TargetInv, NEW n \in Node, PollReturns(n)
  PROVE  TargetInv'
<1>1. MemoryInv /\ NodeRight(n)
  BY DEF Inv, TargetInv
<1>2. /\ phase'[n] = "sort" /\ sendingTo' = sendingTo /\ sorted' = sorted
      /\ \A k \in Node : k # n => phase'[k] = phase[k] /\ conns'[k] = conns[k]
  BY <1>1 DEF PollReturns, Goto, MemoryInv, pump, local
<1>3. PollClean(n)' /\ \A s \in Session : Passed(conns[n][s], conns'[n][s])
  BY <1>1, PollReturnsPasses DEF NodeRight
<1>4. NodeRight(n)'
  BY <1>1, <1>2, <1>3, PassedKeeps
<1> QED
  BY <1>1, <1>2, <1>4, NodesRight

(* Identifiers: a connection that has one keeps it.                         *)
LEMMA SortGives ==
  ASSUME MemoryInv, NEW n \in Node, SortConnections(n)
  PROVE  /\ \A s \in Session : conns'[n][s] = WithId(n, s)
                               /\ (conns'[n][s] = NoConn <=> conns[n][s] = NoConn)
         /\ \A i \in Id : sorted'[n][i] # NoSession \/ Holders(n, i)' # {} =>
              Holders(n, i)' # {} /\ sorted'[n][i] = Latest(n, i)'
         /\ phase'[n] = "state" /\ sendingTo' = sendingTo
         /\ \A k \in Node : k # n => phase'[k] = phase[k] /\ conns'[k] = conns[k]
                                     /\ sorted'[k] = sorted[k]
<1>1. /\ \A s \in Session : conns'[n][s] = WithId(n, s)
      /\ \A i \in Id : sorted'[n][i] = IF Carriers(n, i) = {} THEN NoSession ELSE Max(Carriers(n, i))
      /\ phase'[n] = "state" /\ sendingTo' = sendingTo
      /\ \A k \in Node : k # n => phase'[k] = phase[k] /\ conns'[k] = conns[k]
                                  /\ sorted'[k] = sorted[k]
  BY DEF SortConnections, Goto, pump, MemoryInv
<1>2. \A s \in Session : conns'[n][s] = NoConn <=> conns[n][s] = NoConn
  BY <1>1, WithIdKeeps
<1>3. \A i : Holders(n, i)' = Carriers(n, i)
  BY <1>1, <1>2 DEF Holders, Carriers, Live
<1>4. \A i \in Id : sorted'[n][i] # NoSession \/ Holders(n, i)' # {} =>
              Holders(n, i)' # {} /\ sorted'[n][i] = Latest(n, i)'
  BY <1>1, <1>3 DEF Latest
<1> QED
  BY <1>1, <1>2, <1>4

LEMMA SortRight ==
  ASSUME Inv, TargetInv, NEW n \in Node, SortConnections(n)
  PROVE  TargetInv'
<1>1. MemoryInv /\ NodeRight(n) /\ phase[n] = "sort"
  BY DEF Inv, TargetInv, SortConnections
<1>2. /\ \A s \in Session : conns'[n][s] = WithId(n, s)
                            /\ (conns'[n][s] = NoConn <=> conns[n][s] = NoConn)
      /\ \A i \in Id : sorted'[n][i] # NoSession \/ Holders(n, i)' # {} =>
           Holders(n, i)' # {} /\ sorted'[n][i] = Latest(n, i)'
      /\ phase'[n] = "state" /\ sendingTo' = sendingTo
      /\ \A k \in Node : k # n => phase'[k] = phase[k] /\ conns'[k] = conns[k]
                                  /\ sorted'[k] = sorted[k]
  BY <1>1, SortGives
<1>3. ASSUME NEW s \in Session, conns[n][s] # NoConn
      PROVE  /\ conns'[n][s].state = conns[n][s].state /\ conns'[n][s].in = conns[n][s].in
             /\ conns'[n][s].out = conns[n][s].out /\ conns'[n][s].outBuf = conns[n][s].outBuf
             /\ conns'[n][s].id = conns[n][s].id \/ (conns[n][s].id = NoId /\ conns'[n][s].id \in Id)
             /\ Sound(conns[n][s]) /\ "DELETE" \notin conns[n][s].state
  BY <1>1, <1>2, <1>3, WithIdFields DEF NodeRight, AllSound, PollClean, Live
<1>4. NoId \notin Id
  BY Constants DEF Id, NoId
<1>5. AllSound(n)'
  <2> SUFFICES ASSUME NEW s \in Live(n)'
               PROVE  Sound(conns'[n][s])
    BY DEF AllSound
  <2>1. s \in Session /\ conns[n][s] # NoConn
    BY <1>2 DEF Live
  <2> QED
    BY <1>3, <1>4, <2>1 DEF Sound, EndsBoth, Unnamed
<1>6. ArrayLast(n)'
  <2> SUFFICES ASSUME NEW i \in Id, sorted'[n][i] # NoSession
               PROVE  /\ Holders(n, i)' # {} /\ sorted'[n][i] = Latest(n, i)'
                      /\ "DELETE" \notin conns'[n][sorted'[n][i]].state
    BY DEF ArrayLast
  <2> DEFINE x == Max(Holders(n, i)')
  <2>1. Holders(n, i)' # {} /\ sorted'[n][i] = x
    BY <1>2 DEF Latest
  <2>2. Holders(n, i)' \in SUBSET Session
    BY DEF Holders, Live
  <2>3. x \in Holders(n, i)'
    BY <2>1, <2>2, MaxIs
  <2>4. x \in Session /\ conns[n][x] # NoConn
    BY <1>2, <2>3 DEF Holders, Live
  <2> HIDE DEF x
  <2>5. "DELETE" \notin conns'[n][x].state
    BY <1>3, <2>4
  <2> QED
    BY <2>1, <2>5 DEF Latest, x
<1>7. TargetThere(n)'
  <2> SUFFICES ASSUME sendingTo'[n] # 0
               PROVE  TargetThere(n)'
    BY DEF TargetThere
  <2>1. PICK i \in Id : sendingTo[n] = i /\ sendingTo'[n] = i
    BY <1>1, <1>2, Constants DEF MemoryInv, Id
  <2>2. Holders(n, i) # {} /\ Writable(conns[n][Latest(n, i)])
    BY <1>1, <2>1, Constants DEF NodeRight, TargetThere, Id
  <2> DEFINE y == Latest(n, i)
             x == Max(Holders(n, i)')
  <2>3. /\ y \in Session /\ conns[n][y] # NoConn /\ conns[n][y].id = i
        /\ \A s \in Session : conns[n][s] # NoConn /\ conns[n][s].id = i => s <= y
    BY <2>2, LatestIs
  <2> HIDE DEF y
  <2>4. y \in Holders(n, i)'
    BY <1>2, <1>3, <1>4, <2>3 DEF Holders, Live
  <2>5. Holders(n, i)' \in SUBSET Session
    BY DEF Holders, Live
  <2>6. x \in Holders(n, i)' /\ y <= x
    BY <2>4, <2>5, MaxIs
  <2> HIDE DEF x
  <2>7. x \in Session /\ conns[n][x] # NoConn /\ conns'[n][x].id = i
    BY <1>2, <2>6 DEF Holders, Live
  <2>8. Writable(conns'[n][x])
    <3>1. CASE conns[n][x].id = i
      <4>1. x = y
        BY <2>3, <2>6, <2>7, <3>1, Constants DEF Session
      <4> QED
        BY <1>3, <2>2, <2>7, <4>1 DEF Writable, y
    <3>2. CASE conns[n][x].id # i
      <4>1. conns[n][x].id = NoId /\ Unnamed(conns[n][x])
        BY <1>3, <2>7, <3>2 DEF Sound
      <4> QED
        BY <1>3, <2>7, <4>1 DEF Unnamed, Writable, IsAlive
    <3> QED
      BY <3>1, <3>2
  <2>9. Latest(n, i)' = x /\ Holders(n, i)' # {} /\ sorted'[n][i] = x
    BY <1>2, <2>6 DEF Latest, x
  <2> QED
    BY <2>1, <2>8, <2>9 DEF TargetThere
<1>8. PollClean(n)'
  BY <1>2 DEF PollClean
<1>9. NodeRight(n)'
  BY <1>5, <1>6, <1>7, <1>8 DEF NodeRight
<1> QED
  BY <1>1, <1>2, <1>9, NodesRight

(* One report: what it is about and what it changes.                        *)
LEMMA ReportGives ==
  ASSUME Inv, NEW n \in Node, NodeRight(n), Report(n)
  PROVE  \E i \in Id, s \in Session :
           LET c   == conns[n][s]
               cmd == NextReport(c)
           IN  /\ s = sorted[n][i] /\ s = Latest(n, i) /\ c \in Connections /\ c # NoConn
               /\ c.id = i /\ "DELETE" \notin c.state
               /\ cmd \in {"NEW", "CLOSE", "CLOSE_SRC_TO_DST"}
               /\ AfterReport(c, cmd) \in Connections
               /\ conns' = [conns EXCEPT ![n][s] = AfterReport(c, cmd)]
               /\ queue' = [queue EXCEPT ![n] = Append(@, Command(cmd, c, s))]
               /\ Len(queue[n]) < QueueSize /\ i = Min(Reports(n))
               /\ cmd = "CLOSE" => /\ Freed(n, i)
                                   /\ sorted' = [sorted EXCEPT ![n][i] = NoSession]
                                   /\ closedBy' = [closedBy EXCEPT ![s] = @ \cup {n}]
               /\ cmd # "CLOSE" => UNCHANGED <<freeIds, sorted, closedBy>>
               /\ \A k \in Node, j \in Id : k # n \/ j # i => sorted'[k][j] = sorted[k][j]
<1> DEFINE i == Min(Reports(n))
           s == sorted[n][i]
           c == conns[n][s]
           cmd == NextReport(c)
<1>1. MemoryInv /\ phase[n] = "state"
  BY DEF Inv, Report
<1>2. i \in Id /\ sorted[n][i] # NoSession /\ cmd # "none"
  <2>1. Reports(n) \subseteq Id /\ Id \subseteq Nat
    BY DEF Reports, Id
  <2>2. Reports(n) # {}
    BY DEF Report
  <2>3. i \in Reports(n)
    BY <2>1, <2>2, MinOfNats
  <2> QED
    BY <2>3 DEF Reports, Indexed
<1>3. /\ queue' = [queue EXCEPT ![n] = Append(@, Command(cmd, c, s))]
      /\ Len(queue[n]) < QueueSize
      /\ conns' = [conns EXCEPT ![n][s] = AfterReport(c, cmd)]
      /\ cmd = "CLOSE" => /\ Freed(n, i)
                          /\ sorted' = [sorted EXCEPT ![n][i] = NoSession]
                          /\ closedBy' = [closedBy EXCEPT ![s] = @ \cup {n}]
      /\ cmd # "CLOSE" => UNCHANGED <<freeIds, sorted, closedBy>>
  BY DEF Report, Queued, HasRoom
<1>4. i = Min(Reports(n))
  OBVIOUS
<1> HIDE DEF i
<1>5. s \in Session /\ c \in Connections /\ c # NoConn
  BY <1>2, ArrayPoints
<1>6. Holders(n, i) # {} /\ s = Latest(n, i) /\ "DELETE" \notin c.state
  BY <1>1, <1>2 DEF NodeRight, ArrayLast
<1>7. c.id = i
  BY <1>6, LatestIs
<1>8. s = sorted[n][i]
  OBVIOUS
<1> HIDE DEF s, c
<1>9. cmd \in {"NEW", "CLOSE", "CLOSE_SRC_TO_DST"}
  BY <1>2, <1>5, NextReportIsSent
<1> HIDE DEF cmd
<1>10. AfterReport(c, cmd) \in Connections
  BY <1>5, <1>9, AfterReportKeeps
<1>11. \A k \in Node, j \in Id : k # n \/ j # i => sorted'[k][j] = sorted[k][j]
  <2>1. CASE cmd = "CLOSE"
    BY <1>1, <1>3, <2>1 DEF MemoryInv
  <2>2. CASE cmd # "CLOSE"
    BY <1>3, <2>2
  <2> QED
    BY <2>1, <2>2
<1> QED
  BY <1>2, <1>3, <1>4, <1>5, <1>6, <1>7, <1>8, <1>9, <1>10, <1>11 DEF c, cmd

LEMMA ReportRight ==
  ASSUME Inv, TargetInv, NEW n \in Node, Report(n)
  PROVE  TargetInv'
<1>1. MemoryInv /\ NodeRight(n) /\ phase[n] = "state"
  BY DEF Inv, TargetInv, Report
<1>2. PICK i \in Id, s \in Session :
           LET c   == conns[n][s]
               cmd == NextReport(c)
           IN  /\ s = sorted[n][i] /\ s = Latest(n, i) /\ c \in Connections /\ c # NoConn
               /\ c.id = i /\ "DELETE" \notin c.state
               /\ cmd \in {"NEW", "CLOSE", "CLOSE_SRC_TO_DST"}
               /\ AfterReport(c, cmd) \in Connections
               /\ conns' = [conns EXCEPT ![n][s] = AfterReport(c, cmd)]
               /\ queue' = [queue EXCEPT ![n] = Append(@, Command(cmd, c, s))]
               /\ Len(queue[n]) < QueueSize /\ i = Min(Reports(n))
               /\ cmd = "CLOSE" => /\ Freed(n, i)
                                   /\ sorted' = [sorted EXCEPT ![n][i] = NoSession]
                                   /\ closedBy' = [closedBy EXCEPT ![s] = @ \cup {n}]
               /\ cmd # "CLOSE" => UNCHANGED <<freeIds, sorted, closedBy>>
               /\ \A k \in Node, j \in Id : k # n \/ j # i => sorted'[k][j] = sorted[k][j]
  BY <1>1, ReportGives
<1> DEFINE c == conns[n][s]
           cmd == NextReport(c)
           d == AfterReport(c, cmd)
<1>3. cmd \in {"NEW", "CLOSE", "CLOSE_SRC_TO_DST"} /\ c \in Connections /\ c # NoConn
  BY <1>2
<1>4. Sound(c)
  BY <1>1, <1>2 DEF NodeRight, AllSound, Live
<1>5. phase' = phase /\ sendingTo' = sendingTo
  BY DEF Report
<1>6. /\ conns'[n][s] = d /\ \A t \in Session : t # s => conns'[n][t] = conns[n][t]
      /\ \A k \in Node : k # n => conns'[k] = conns[k]
  BY <1>1, <1>2 DEF MemoryInv
<1>7. d.id = i /\ d # NoConn
  <2>1. d \in Connections
    BY <1>2
  <2>2. d.id = c.id
    <3> HIDE DEF c, cmd
    <3> QED
      BY <1>3, AfterReportKeeps DEF d
  <2> QED
    BY <1>2, <2>1, <2>2, NoConnIsNone
<1>8. NoId \notin Id /\ \A t \in Session : conns[n][t] \in Connections \cup {NoConn}
  BY <1>1, Constants DEF Id, NoId, MemoryInv
<1>9. /\ cmd # "CLOSE" => "DELETE" \notin d.state /\ (Writable(c) => Writable(d))
      /\ cmd = "CLOSE" => ~Writable(c)
      /\ Sound(d)
  <2>1. c.id = i /\ "DELETE" \notin c.state
    BY <1>2
  <2> HIDE DEF c, cmd
  <2>2. CASE cmd = "NEW"
    <3>1. /\ d.id = c.id /\ d.state = (c.state \ {"NEW"}) \cup {"STOPPED"}
                /\ d.in = c.in /\ d.out = c.out /\ d.inBuf = c.inBuf /\ d.outBuf = c.outBuf
      BY <1>3, <2>2, ReportFields
    <3> HIDE DEF d
    <3> QED
      BY <1>4, <1>8, <2>1, <2>2, <3>1 DEF Sound, EndsBoth, Unnamed, Writable
  <2>3. CASE cmd = "CLOSE_SRC_TO_DST"
    <3>1. /\ d.id = c.id /\ d.state = c.state /\ d.in = c.in \cup {"DELETE"}
                /\ d.out = c.out /\ d.inBuf = c.inBuf /\ d.outBuf = c.outBuf
      BY <1>3, <2>3, ReportFields
    <3> HIDE DEF d
    <3> QED
      BY <1>4, <1>8, <2>1, <2>3, <3>1 DEF Sound, EndsBoth, Unnamed, Writable
  <2>4. CASE cmd = "CLOSE"
    <3>1. /\ d.id = c.id /\ d.state = c.state \cup {"DELETE"}
                /\ d.in = c.in /\ d.out = c.out /\ d.inBuf = c.inBuf /\ d.outBuf = c.outBuf
      BY <1>3, <2>4, ReportFields
    <3> HIDE DEF d
    <3>2. c.outBuf = <<>> /\ "CLOSED" \in c.state
      BY <2>4 DEF cmd, NextReport, ShouldCloseConnection
    <3>3. ~IsAlive(c.out)
      BY <1>4, <3>2 DEF Sound, EndsBoth, IsAlive
    <3> QED
      BY <1>4, <1>8, <2>1, <2>4, <3>1, <3>2, <3>3 DEF Sound, EndsBoth, Unnamed, Writable
  <2> QED
    BY <1>3, <2>2, <2>3, <2>4
<1>10. /\ \A t \in Session : conns'[n][t] = NoConn <=> conns[n][t] = NoConn
       /\ \A t \in Session : conns[n][t] # NoConn => conns'[n][t].id = conns[n][t].id
  BY <1>2, <1>6, <1>7
<1>11. \A j : Holders(n, j)' = Holders(n, j) /\ Latest(n, j)' = Latest(n, j)
  <2>1. \A j : Holders(n, j)' = Holders(n, j)
    BY <1>10 DEF Holders, Live
  <2> QED
    BY <2>1 DEF Latest
<1>12. /\ cmd = "CLOSE" => sorted'[n][i] = NoSession
       /\ cmd # "CLOSE" => sorted' = sorted
       /\ \A k \in Node, j \in Id : k # n \/ j # i => sorted'[k][j] = sorted[k][j]
  BY <1>1, <1>2 DEF MemoryInv
<1>13. s = sorted[n][i] /\ s = Latest(n, i) /\ c.id = i
  BY <1>2
<1> HIDE DEF c, cmd, d
<1>14. AllSound(n)'
  BY <1>1, <1>6, <1>9, <1>10 DEF NodeRight, AllSound, Live
<1>15. ArrayLast(n)'
  <2> SUFFICES ASSUME NEW j \in Id, sorted'[n][j] # NoSession
               PROVE  /\ Holders(n, j)' # {} /\ sorted'[n][j] = Latest(n, j)'
                      /\ "DELETE" \notin conns'[n][sorted'[n][j]].state
    BY DEF ArrayLast
  <2>1. sorted'[n][j] = sorted[n][j] /\ (j = i => cmd # "CLOSE")
    BY <1>12
  <2>2. /\ Holders(n, j) # {} /\ sorted[n][j] = Latest(n, j)
        /\ "DELETE" \notin conns[n][sorted[n][j]].state
    BY <1>1, <2>1 DEF NodeRight, ArrayLast
  <2>3. sorted[n][j] \in Session /\ conns[n][sorted[n][j]].id = j
    BY <2>2, LatestIs
  <2>4. CASE j = i
    BY <1>6, <1>9, <1>11, <1>13, <2>1, <2>2, <2>4
  <2>5. CASE j # i
    <3>1. sorted[n][j] # s
      BY <1>13, <2>3, <2>5 DEF c
    <3> QED
      BY <1>6, <1>11, <2>1, <2>2, <2>3, <3>1
  <2> QED
    BY <2>4, <2>5
<1>16. TargetThere(n)'
  <2> SUFFICES ASSUME sendingTo'[n] # 0
               PROVE  TargetThere(n)'
    BY DEF TargetThere
  <2>1. PICK j \in Id : sendingTo[n] = j /\ sendingTo'[n] = j
    BY <1>1, <1>5, Constants DEF MemoryInv, Id
  <2>2. Holders(n, j) # {} /\ Writable(conns[n][Latest(n, j)]) /\ sorted[n][j] = Latest(n, j)
    BY <1>1, <2>1, Constants DEF NodeRight, TargetThere, Id
  <2>3. Latest(n, j) \in Session /\ conns[n][Latest(n, j)].id = j
    BY <2>2, LatestIs
  <2>4. CASE j = i
    <3>1. cmd # "CLOSE" /\ Writable(d)
      BY <1>9, <1>13, <2>2, <2>4 DEF c
    <3> QED
      BY <1>6, <1>11, <1>12, <1>13, <2>1, <2>2, <2>4, <3>1 DEF TargetThere
  <2>5. CASE j # i
    <3>1. Latest(n, j) # s
      BY <1>13, <2>3, <2>5 DEF c
    <3> QED
      BY <1>6, <1>11, <1>12, <2>1, <2>2, <2>3, <2>5, <3>1 DEF TargetThere
  <2> QED
    BY <2>4, <2>5
<1>17. PollClean(n)'
  BY <1>1, <1>5 DEF PollClean
<1>18. NodeRight(n)'
  BY <1>14, <1>15, <1>16, <1>17 DEF NodeRight
<1>19. \A k \in Node : k # n => sorted'[k] = sorted[k]
  <2>1. CASE cmd = "CLOSE"
    BY <1>1, <1>2, <2>1 DEF MemoryInv, cmd, c
  <2>2. CASE cmd # "CLOSE"
    BY <1>12, <2>2
  <2> QED
    BY <2>1, <2>2
<1> QED
  BY <1>1, <1>5, <1>6, <1>18, <1>19, NodesRight

(* decode gives the connection the bytes of the frame, up to its end or the *)
(* end of the connection's buffer.                                          *)
LEMMA DecodedPasses ==
  ASSUME Inv, NEW n \in Node, NEW s \in Session, conns[n][s] # NoConn, conns[n][s].id \in Id,
         NEW buf \in Seq(Byte), NEW q, Parses(buf, "data", q), Decoded(n, s, buf)
  PROVE  LET free  == BufSize - Len(conns[n][s].outBuf)
             bytes == SubSeq(buf, 1, Decodable(buf, free))
         IN  /\ free \in Nat /\ bytes \in Seq(Data)
             /\ conns'[n][s].outBuf = conns[n][s].outBuf \o bytes
             /\ conns'[n][s].id = conns[n][s].id /\ conns'[n][s].state = conns[n][s].state
             /\ conns'[n][s].in = conns[n][s].in /\ conns'[n][s].out = conns[n][s].out
             /\ conns'[n][s].inBuf = conns[n][s].inBuf
             /\ conns'[n][s] # NoConn
             /\ \A t \in Session : Passed(conns[n][t], conns'[n][t])
             /\ \A t \in Session : t # s => conns'[n][t] = conns[n][t]
             /\ \A k \in Node : k # n => conns'[k] = conns[k]
<1> DEFINE c == conns[n][s]
           free == BufSize - Len(c.outBuf)
           bytes == SubSeq(buf, 1, Decodable(buf, free))
           d == [c EXCEPT !.outBuf = @ \o bytes]
<1>1. MemoryInv /\ c \in Connections
  BY DEF Inv, MemoryInv
<1>2. free \in Nat
  BY <1>1, DecodedKeeps
<1>3. bytes \in Seq(Data)
  BY <1>2, Decoding
<1>4. conns' = [conns EXCEPT ![n][s] = d]
  BY <1>1 DEF Decoded, MemoryInv
<1>5. c # NoConn /\ c.id # NoId
  BY Constants DEF Id, NoId
<1> HIDE DEF c, bytes
<1>6. /\ d.id = c.id /\ d.state = c.state /\ d.in = c.in /\ d.out = c.out
      /\ d.inBuf = c.inBuf /\ d.outBuf = c.outBuf \o bytes
      /\ Carried(c, d)
  BY <1>1, <1>3, <1>5, GainCarries
<1>7. d # NoConn
  <2>1. "state" \in DOMAIN d
    BY <1>1 DEF Connections, Record
  <2>2. DOMAIN NoConn = {"id"}
    BY DEF NoConn
  <2> QED
    BY <2>1, <2>2
<1> HIDE DEF d
<1>8. Carried(conns[n][s], d)
  BY <1>6 DEF c
<1>9. /\ \A t \in Session : Passed(conns[n][t], conns'[n][t])
      /\ \A k \in Node : k # n => conns'[k] = conns[k]
      /\ conns'[n][s] = d /\ \A t \in Session : t # s => conns'[n][t] = conns[n][t]
  BY <1>1, <1>4, <1>7, <1>8, OnePassed
<1> QED
  BY <1>2, <1>3, <1>6, <1>7, <1>9 DEF c, bytes

LEMMA ContinueRight ==
  ASSUME Inv, TargetInv, NEW n \in Node, ContinueFrame(n)
  PROVE  TargetInv'
<1> DEFINE buf == TunnelIn(n)
           s == sorted[n][sendingTo[n]]
<1>1. /\ MemoryInv /\ phase[n] = "recv" /\ sendingTo[n] # 0 /\ s # NoSession
      /\ NodeRight(n) /\ Decoded(n, s, buf)
  BY DEF Inv, ContinueFrame, Receiving, TargetInv
<1>2. sendingTo[n] \in Id /\ Expected(n) = "data" /\ IsRunning(n)
  BY <1>1, Constants, RunningOnes DEF MemoryInv, Id, Expected, IsRunning, Running
<1>3. s \in Session /\ conns[n][s] # NoConn /\ conns[n][s].id \in Id
  BY <1>1, <1>2, ArrayPoints
<1>4. buf \in Seq(Byte)
  BY <1>1, TunnelFields DEF TunnelIn
<1>5. PICK q \in Expecting : Parses(buf, "data", q)
  BY <1>2, InputParses DEF TunnelIn
<1>6. /\ sendingTo'[n] \in {0, sendingTo[n]} /\ phase'[n] \in {"recv", "cmds"}
      /\ sorted' = sorted
      /\ \A k \in Node : k # n => phase'[k] = phase[k] /\ sendingTo'[k] = sendingTo[k]
  BY <1>1 DEF ContinueFrame, Goto, MemoryInv, local
<1> HIDE DEF s, buf
<1>7. /\ \A t \in Session : Passed(conns[n][t], conns'[n][t])
      /\ \A k \in Node : k # n => conns'[k] = conns[k]
  BY <1>1, <1>3, <1>4, <1>5, DecodedPasses
<1>8. PollClean(n)'
  BY <1>6 DEF PollClean
<1>9. NodeRight(n)'
  BY <1>1, <1>6, <1>7, <1>8, PassedKeeps
<1> QED
  BY <1>1, <1>6, <1>7, <1>9, NodesRight

LEMMA ReceiveDataRight ==
  ASSUME Inv, TargetInv, NEW n \in Node, ReceiveData(n)
  PROVE  TargetInv'
<1> DEFINE buf == TunnelIn(n)
           body == SubSeq(buf, 3, Len(buf))
           s == sorted[n][FrameId(n)]
           free == BufSize - Len(conns[n][s].outBuf)
           m == Decodable(body, free)
           bytes == SubSeq(body, 1, m)
<1>1. /\ MemoryInv /\ phase[n] = "recv" /\ sendingTo[n] = 0 /\ s # NoSession
      /\ FrameAvailable(n) /\ FrameId(n) # 0 /\ NodeRight(n) /\ Len(buf) > 3
      /\ Decoded(n, s, body)
  BY DEF Inv, ReceiveData, FrameAvailable, Receiving, TargetInv
<1>2. FrameId(n) \in Id /\ IsRunning(n)
  <2>1. FrameId(n) \in 0..MaxId /\ IsRunning(n)
    BY <1>1, HeadIs
  <2> QED
    BY <1>1, <2>1, Constants DEF Id
<1>3. s \in Session /\ conns[n][s] # NoConn /\ conns[n][s].id \in Id
  BY <1>1, <1>2, ArrayPoints
<1>4. body \in Seq(Byte) /\ Len(body) > 0
  <2>1. buf \in Seq(Byte) /\ Len(buf) \in Nat
    BY <1>1, TunnelFields DEF TunnelIn
  <2> HIDE DEF buf
  <2>2. 2 \in 0..Len(buf)
    BY <1>1, <2>1
  <2>3. SubSeq(buf, 2 + 1, Len(buf)) \in Seq(Byte) /\ Len(SubSeq(buf, 2 + 1, Len(buf))) = Len(buf) - 2
    BY <2>1, <2>2, SeqRest
  <2>4. body \in Seq(Byte) /\ Len(body) = Len(buf) - 2
    BY <2>3
  <2> HIDE DEF body
  <2> QED
    BY <1>1, <2>1, <2>4
<1>5. PICK q \in Expecting : Parses(body, "data", q)
  <2>1. PICK q \in Expecting : Parses(tun[n].inBuf, Expected(n), q)
    BY <1>2, InputParses
  <2>2. Parses(body, "data", q)
    BY <1>1, <2>1, HeadIs DEF TunnelIn
  <2> QED
    BY <2>2
<1>6. PICK i \in Id : i = FrameId(n) /\ s = sorted[n][i]
  BY <1>2
<1>7. /\ sendingTo'[n] = 0 \/ (~EndReached(body, free) /\ sendingTo'[n] = i)
      /\ phase'[n] = "cmds" /\ sorted' = sorted
      /\ \A k \in Node : k # n => phase'[k] = phase[k] /\ sendingTo'[k] = sendingTo[k]
  BY <1>1, <1>6 DEF ReceiveData, Goto, MemoryInv, local
<1>8. Holders(n, i) # {} /\ s = Latest(n, i) /\ "DELETE" \notin conns[n][s].state
  BY <1>1, <1>6 DEF NodeRight, ArrayLast
<1> HIDE DEF s, body
<1>9. /\ free \in Nat /\ bytes \in Seq(Data)
      /\ conns'[n][s].outBuf = conns[n][s].outBuf \o bytes
      /\ conns'[n][s].state = conns[n][s].state
      /\ \A t \in Session : Passed(conns[n][t], conns'[n][t])
      /\ \A k \in Node : k # n => conns'[k] = conns[k]
  BY <1>1, <1>3, <1>4, <1>5, DecodedPasses
<1>10. Len(conns[n][s].outBuf) \in Nat /\ conns[n][s].outBuf \in Seq(Data)
  <2>1. conns[n][s] \in Connections
    BY <1>1, <1>3 DEF MemoryInv
  <2> QED
    BY <2>1, ConnectionFields
<1>11. /\ AllSound(n)' /\ Holders(n, i)' # {} /\ Latest(n, i)' = Latest(n, i)
  BY <1>1, <1>8, <1>9, PassedOn DEF NodeRight
<1>12. ASSUME ~EndReached(body, free)
       PROVE  conns'[n][s].outBuf # <<>>
  <2>1. m \in 0..Len(body) /\ m \in {free, Len(body)}
    <3>1. Len(body) \in Nat /\ EndAt(body) \in 1..(Len(body) + 1)
      BY <1>4, FirstEnd
    <3> DEFINE e == EndAt(body)
    <3>2. m \in {e - 1, free} /\ m <= e - 1 /\ m <= free
      BY <1>9, <3>1, LeastIs DEF Decodable
    <3>3. e > Len(body) \/ e - 1 >= free
      BY <1>9, <1>12, <3>1 DEF EndReached
    <3> HIDE DEF e, m, free
    <3> QED
      BY <1>9, <3>1, <3>2, <3>3 DEF e
  <2>2. Len(bytes) = m
    BY <1>4, <2>1, SeqFirst
  <2> DEFINE old == conns[n][s].outBuf
             out == old \o bytes
  <2>3. Len(out) = Len(old) + Len(bytes) /\ out \in Seq(Data)
    BY <1>9, <1>10, ConcatProperties
  <2>4. Len(out) > 0
    <3>1. BufSize \in Nat /\ BufSize > 0 /\ Len(old) \in Nat /\ Len(body) \in Nat
      BY <1>4, <1>10, Constants
    <3>2. free = BufSize - Len(old)
      OBVIOUS
    <3> HIDE DEF m, free, bytes, out, old
    <3> QED
      BY <1>4, <2>1, <2>2, <2>3, <3>1, <3>2
  <2> HIDE DEF out, bytes, old, m, free
  <2>5. out # <<>>
    <3>1. out \in Seq(Data) /\ Len(out) > 0
      BY <2>3, <2>4
    <3>2. Len(<<>>) = 0
      BY EmptySeq
    <3> QED
      BY ONLY <3>1, <3>2
  <2>6. conns'[n][s].outBuf = out
    BY <1>9 DEF out, old, bytes, m, free
  <2> HIDE DEF out
  <2> QED
    BY <2>5, <2>6
<1>13. TargetThere(n)'
  <2>1. CASE sendingTo'[n] = 0
    BY <2>1 DEF TargetThere
  <2>2. CASE ~EndReached(body, free) /\ sendingTo'[n] = i
    <3>1. Writable(conns'[n][s])
      BY <1>8, <1>9, <1>12, <2>2 DEF Writable
    <3> QED
      BY <1>7, <1>8, <1>11, <2>2, <3>1 DEF TargetThere
  <2> QED
    BY <1>7, <2>1, <2>2
<1>14. NodeRight(n)'
  BY <1>7, <1>11, <1>13 DEF NodeRight, PollClean, ArrayLast
<1> QED
  BY <1>1, <1>7, <1>9, <1>14, NodesRight

LEMMA EncodeDataRight ==
  ASSUME Inv, TargetInv, NEW n \in Node, EncodeData(n)
  PROVE  TargetInv'
<1> DEFINE i == Min(Turns(n))
           s == sorted[n][Turn(n, i)]
           c == conns[n][s]
           m == Least(Len(c.inBuf), TunnelRoom(n) - 3)
           rest == SubSeq(c.inBuf, m + 1, Len(c.inBuf))
           d == [c EXCEPT !.inBuf = rest]
<1>1. /\ MemoryInv /\ NodeRight(n) /\ phase[n] = "data" /\ Turns(n) # {}
      /\ phase' = phase /\ sendingTo' = sendingTo /\ sorted' = sorted
      /\ conns' = [conns EXCEPT ![n][s].inBuf = rest]
  BY DEF Inv, TargetInv, EncodeData, pump
<1>2. s \in Session /\ c \in Connections /\ c # NoConn
  <2>1. i \in Nat /\ sorted[n][Turn(n, i)] # NoSession
    BY <1>1, TurnsAre DEF HasData
  <2> HIDE DEF i
  <2>2. Turn(n, i) \in Id
    BY <1>1, <2>1, TurnIs
  <2> QED
    BY <2>1, <2>2, ArrayPoints
<1>3. conns' = [conns EXCEPT ![n][s] = d]
  BY <1>1 DEF MemoryInv
<1> HIDE DEF s, rest, c
<1>4. Carried(c, d)
  BY <1>2, DropCarries
<1>5. d # NoConn
  <2>1. "state" \in DOMAIN d
    BY <1>2 DEF Connections, Record
  <2>2. DOMAIN NoConn = {"id"}
    BY DEF NoConn
  <2> QED
    BY <2>1, <2>2
<1> HIDE DEF d
<1>6. Carried(conns[n][s], d) /\ conns[n][s] # NoConn
  BY <1>2, <1>4 DEF c
<1>7. /\ \A t \in Session : Passed(conns[n][t], conns'[n][t])
      /\ \A k \in Node : k # n => conns'[k] = conns[k]
  BY <1>1, <1>2, <1>3, <1>5, <1>6, OnePassed
<1>8. PollClean(n)'
  BY <1>1 DEF PollClean
<1>9. NodeRight(n)'
  BY <1>1, <1>7, <1>8, PassedKeeps
<1> QED
  BY <1>1, <1>7, <1>9, NodesRight

LEMMA EndRight ==
  ASSUME Inv, TargetInv, NEW n \in Node, NEW why \in Ended, End(n, why)
  PROVE  TargetInv'
<1>1. MemoryInv
  BY DEF Inv
<1>2. /\ phase'[n] = why /\ conns'[n] = [s \in Session |-> NoConn] /\ sendingTo'[n] = 0
      /\ \A k \in Node : k # n => /\ phase'[k] = phase[k] /\ conns'[k] = conns[k]
                                  /\ sendingTo'[k] = sendingTo[k] /\ sorted'[k] = sorted[k]
  BY <1>1 DEF End, Goto, MemoryInv
<1>3. why \notin {"poll", "sort", "state", "recv"}
  BY DEF Ended
<1>4. Live(n)' = {}
  BY <1>2 DEF Live
<1>5. NodeRight(n)'
  BY <1>2, <1>3, <1>4 DEF NodeRight, AllSound, PollClean, ArrayLast, TargetThere
<1> QED
  BY <1>1, <1>2, <1>5, NodesRight

(* A step that leaves the connections and the frame in progress alone.      *)
LEMMA QuietRight ==
  ASSUME Inv, TargetInv, NEW n \in Node, conns' = conns, sendingTo' = sendingTo,
         \A k \in Node : k # n => phase'[k] = phase[k] /\ sorted'[k] = sorted[k],
         phase'[n] \notin {"poll", "sort"} \/ phase'[n] = phase[n],
         phase'[n] \in {"state", "recv"} =>
           phase[n] \in {"state", "recv"} /\ sorted'[n] = sorted[n]
  PROVE  TargetInv'
<1>1. MemoryInv /\ NodeRight(n)
  BY DEF Inv, TargetInv
<1>2. \A t \in Session : Passed(conns[n][t], conns'[n][t])
  BY NothingPassed
<1>3. PollClean(n)'
  BY <1>1 DEF NodeRight, PollClean, Live
<1>4. NodeRight(n)'
  BY <1>1, <1>2, <1>3, PassedKeeps
<1> QED
  BY <1>1, <1>4, NodesRight

LEMMA TargetIs ==
  ASSUME NEW n \in Node, NEW i, IsKnown(n, i)
  PROVE  /\ Target(n, i) \in Session /\ conns[n][Target(n, i)] # NoConn
         /\ conns[n][Target(n, i)].id = i
<1>1. Holders(n, i) \subseteq Nat /\ Holders(n, i) # {}
  BY Constants DEF Holders, Live, Session, IsKnown
<1>2. Target(n, i) \in Holders(n, i)
  BY <1>1, MinOfNats DEF Target
<1> QED
  BY <1>2 DEF Holders, Live

(* What a command is about and what it does.                                *)
LEMMA CommandGives ==
  ASSUME Inv, NEW n \in Node, ReceiveCommand(n)
  PROVE  \E cmd \in Cmd, i \in Id, s \in Session :
           /\ tun[n].inBuf[3][2] = cmd /\ tun[n].inBuf[4][2] = i /\ tun[n].inBuf[3][3] = s
           /\ tun[n].inBuf[3] = <<"cmd", cmd, s>> /\ tun[n].inBuf[4] = <<"arg", i>>
           /\ \/ /\ cmd = "NEW" /\ ~IsKnown(n, i) /\ freeIds' = freeIds
                 /\ conns' = [conns EXCEPT ![n][s] = MakeConnection(i, {})]
                 /\ Answered(n, [cmd |-> "ACK", id |-> i, session |-> s])
                 /\ closedBy' = closedBy
              \/ /\ cmd = "NEW" /\ ~IsKnown(n, i) /\ freeIds' = freeIds
                 /\ "connect" \in Faults
                 /\ Answered(n, [cmd |-> "CLOSE", id |-> i, session |-> s])
                 /\ closedBy' = [closedBy EXCEPT ![s] = @ \cup {n}]
                 /\ conns' = conns
              \/ /\ cmd # "NEW" /\ IsKnown(n, i)
                 /\ conns' = [conns EXCEPT ![n][Target(n, i)] = Obey(@, cmd)]
                 /\ IF cmd = "CLOSE" THEN Freed(n, i) ELSE UNCHANGED freeIds
                 /\ UNCHANGED <<queue, closedBy>>
              \/ /\ cmd = "NEW" <=> IsKnown(n, i)
                 /\ UNCHANGED <<conns, freeIds, queue, closedBy>>
<1> DEFINE buf == tun[n].inBuf
<1>1. /\ FrameAvailable(n) /\ FrameId(n) = 0 /\ MemoryInv
      /\ OnCommand(n, buf[3][2], buf[4][2], buf[3][3])
  BY DEF ReceiveCommand, TunnelIn, Inv
<1>2. PICK q0 \in Expecting : Parses(buf, Expected(n), q0)
  BY <1>1, HeadIs, InputParses
<1>3. buf[3] \in {"cmd"} \X Cmd \X Session /\ buf[4] \in {"arg"} \X Id
  BY <1>1, <1>2, HeadIs
<1> HIDE DEF buf
<1>4. PICK cmd \in Cmd, s \in Session : buf[3] = <<"cmd", cmd, s>>
  BY <1>3
<1>5. PICK i \in Id : buf[4] = <<"arg", i>>
  BY <1>3
<1>6. buf[3][2] = cmd /\ buf[3][3] = s /\ buf[4][2] = i
  BY <1>4, <1>5
<1>7. OnCommand(n, cmd, i, s)
  BY <1>1, <1>6
<1>8. CASE cmd = "NEW" /\ ~IsKnown(n, i)
  <2>1. ConnectToService(n, i, s) /\ freeIds' = freeIds
    BY <1>7, <1>8 DEF OnCommand, OnNew
  <2> QED
    BY <1>4, <1>5, <1>6, <1>8, <2>1 DEF ConnectToService, buf
<1>9. CASE cmd # "NEW" /\ IsKnown(n, i)
  <2>1. /\ conns' = [conns EXCEPT ![n][Target(n, i)] = Obey(@, cmd)]
        /\ IF cmd = "CLOSE" THEN Freed(n, i) ELSE UNCHANGED freeIds
        /\ UNCHANGED <<queue, closedBy>>
    BY <1>7, <1>9 DEF OnCommand, OnOther
  <2> QED
    BY <1>4, <1>5, <1>6, <1>9, <2>1 DEF buf
<1>10. CASE cmd = "NEW" <=> IsKnown(n, i)
  <2>1. UNCHANGED <<conns, freeIds, queue, closedBy>>
    BY <1>7, <1>10 DEF OnCommand, OnOther, OnNew
  <2> QED
    BY <1>4, <1>5, <1>6, <1>10, <2>1 DEF buf
<1> QED
  BY <1>8, <1>9, <1>10

(* The other node has no part in it.                                        *)
LEMMA CommandElsewhere ==
  ASSUME Inv, NEW n \in Node, ReceiveCommand(n)
  PROVE  \A k \in Node : k # n => conns'[k] = conns[k] /\ queue'[k] = queue[k]
<1>1. PICK cmd \in Cmd, i \in Id, s \in Session :
           /\ tun[n].inBuf[3][2] = cmd /\ tun[n].inBuf[4][2] = i /\ tun[n].inBuf[3][3] = s
           /\ tun[n].inBuf[3] = <<"cmd", cmd, s>> /\ tun[n].inBuf[4] = <<"arg", i>>
           /\ \/ /\ cmd = "NEW" /\ ~IsKnown(n, i) /\ freeIds' = freeIds
                 /\ conns' = [conns EXCEPT ![n][s] = MakeConnection(i, {})]
                 /\ Answered(n, [cmd |-> "ACK", id |-> i, session |-> s])
                 /\ closedBy' = closedBy
              \/ /\ cmd = "NEW" /\ ~IsKnown(n, i) /\ freeIds' = freeIds
                 /\ "connect" \in Faults
                 /\ Answered(n, [cmd |-> "CLOSE", id |-> i, session |-> s])
                 /\ closedBy' = [closedBy EXCEPT ![s] = @ \cup {n}]
                 /\ conns' = conns
              \/ /\ cmd # "NEW" /\ IsKnown(n, i)
                 /\ conns' = [conns EXCEPT ![n][Target(n, i)] = Obey(@, cmd)]
                 /\ IF cmd = "CLOSE" THEN Freed(n, i) ELSE UNCHANGED freeIds
                 /\ UNCHANGED <<queue, closedBy>>
              \/ /\ cmd = "NEW" <=> IsKnown(n, i)
                 /\ UNCHANGED <<conns, freeIds, queue, closedBy>>
  BY CommandGives
<1>2. MemoryInv
  BY DEF Inv
<1>3. \A f : Answered(n, f) => \A k \in Node : k # n => queue'[k] = queue[k]
  BY <1>2 DEF Answered, Queued, MemoryInv
<1>4. CASE conns' = [conns EXCEPT ![n][s] = MakeConnection(i, {})]
           /\ Answered(n, [cmd |-> "ACK", id |-> i, session |-> s])
  BY <1>2, <1>3, <1>4 DEF MemoryInv
<1>5. CASE conns' = conns /\ Answered(n, [cmd |-> "CLOSE", id |-> i, session |-> s])
  BY <1>3, <1>5
<1>6. CASE conns' = [conns EXCEPT ![n][Target(n, i)] = Obey(@, cmd)] /\ queue' = queue
  BY <1>2, <1>6 DEF MemoryInv
<1>7. CASE conns' = conns /\ queue' = queue
  BY <1>7
<1> QED
  BY <1>1, <1>4, <1>5, <1>6, <1>7

LEMMA ReceiveCommandRight ==
  ASSUME Inv, TargetInv, NEW n \in Node, ReceiveCommand(n)
  PROVE  TargetInv'
<1>1. MemoryInv /\ NodeRight(n) /\ sendingTo[n] = 0
  BY DEF Inv, TargetInv, ReceiveCommand, FrameAvailable
<1>2. /\ phase'[n] = "cmds" /\ sendingTo' = sendingTo /\ sorted' = sorted
      /\ \A k \in Node : k # n => phase'[k] = phase[k]
  BY <1>1 DEF ReceiveCommand, Goto, MemoryInv, local
<1>3. PICK cmd \in Cmd, i \in Id, s \in Session :
           /\ tun[n].inBuf[3][2] = cmd /\ tun[n].inBuf[4][2] = i /\ tun[n].inBuf[3][3] = s
           /\ tun[n].inBuf[3] = <<"cmd", cmd, s>> /\ tun[n].inBuf[4] = <<"arg", i>>
           /\ \/ /\ cmd = "NEW" /\ ~IsKnown(n, i) /\ freeIds' = freeIds
                 /\ conns' = [conns EXCEPT ![n][s] = MakeConnection(i, {})]
                 /\ Answered(n, [cmd |-> "ACK", id |-> i, session |-> s])
                 /\ closedBy' = closedBy
              \/ /\ cmd = "NEW" /\ ~IsKnown(n, i) /\ freeIds' = freeIds
                 /\ "connect" \in Faults
                 /\ Answered(n, [cmd |-> "CLOSE", id |-> i, session |-> s])
                 /\ closedBy' = [closedBy EXCEPT ![s] = @ \cup {n}]
                 /\ conns' = conns
              \/ /\ cmd # "NEW" /\ IsKnown(n, i)
                 /\ conns' = [conns EXCEPT ![n][Target(n, i)] = Obey(@, cmd)]
                 /\ IF cmd = "CLOSE" THEN Freed(n, i) ELSE UNCHANGED freeIds
                 /\ UNCHANGED <<queue, closedBy>>
              \/ /\ cmd = "NEW" <=> IsKnown(n, i)
                 /\ UNCHANGED <<conns, freeIds, queue, closedBy>>
  BY CommandGives
<1>4. NoId \notin Id
  BY Constants DEF Id, NoId
<1>5. \A k \in Node : k # n => conns'[k] = conns[k]
  BY <1>1, <1>3 DEF MemoryInv
<1>6. AllSound(n)'
  <2>0. \/ conns' = conns
        \/ conns' = [conns EXCEPT ![n][s] = MakeConnection(i, {})]
        \/ /\ cmd # "NEW" /\ IsKnown(n, i)
           /\ conns' = [conns EXCEPT ![n][Target(n, i)] = Obey(@, cmd)]
    BY <1>3
  <2>1. CASE conns' = conns
    BY <1>1, <2>1 DEF NodeRight, AllSound, Live
  <2>2. CASE conns' = [conns EXCEPT ![n][s] = MakeConnection(i, {})]
    <3> DEFINE d == MakeConnection(i, {})
    <3>1. conns'[n][s] = d /\ \A t \in Session : t # s => conns'[n][t] = conns[n][t]
      BY <1>1, <2>2 DEF MemoryInv
    <3>2. Sound(d)
      <4>1. d.id = i /\ d.state = {}
        BY MadeFields
      <4> HIDE DEF d
      <4> QED
        BY <1>4, <4>1 DEF Sound, EndsBoth, Unnamed
    <3> HIDE DEF d
    <3> QED
      BY <1>1, <3>1, <3>2 DEF NodeRight, AllSound, Live
  <2>3. CASE /\ cmd # "NEW" /\ IsKnown(n, i)
             /\ conns' = [conns EXCEPT ![n][Target(n, i)] = Obey(@, cmd)]
    <3> DEFINE u == Target(n, i)
               c == conns[n][u]
               d == Obey(c, cmd)
    <3>1. u \in Session /\ c # NoConn /\ c.id = i
      BY <2>3, TargetIs
    <3>2. c \in Connections /\ Sound(c)
      BY <1>1, <3>1 DEF MemoryInv, NodeRight, AllSound, Live
    <3> HIDE DEF u
    <3>3. conns'[n][u] = d /\ \A t \in Session : t # u => conns'[n][t] = conns[n][t]
      BY <1>1, <2>3, <3>1 DEF MemoryInv, u
    <3> HIDE DEF c
    <3>4. cmd \in {"ACK", "CLOSE", "CLOSE_SRC_TO_DST"}
      BY <2>3 DEF Cmd
    <3>5. d.id = c.id /\ d.in = c.in /\ c.out \subseteq d.out /\ ("CLOSED" \in d.state => "CLOSED" \in c.state)
      <4>1. CASE cmd = "ACK"
        BY <3>2, <4>1, ObeyFields
      <4>2. CASE cmd = "CLOSE"
        BY <3>2, <4>2, ObeyFields
      <4>3. CASE cmd = "CLOSE_SRC_TO_DST"
        BY <3>2, <4>3, ObeyFields
      <4> QED
        BY <3>4, <4>1, <4>2, <4>3
    <3> HIDE DEF d
    <3>6. Sound(d)
      BY <1>4, <3>1, <3>2, <3>5 DEF Sound, EndsBoth, Unnamed
    <3> QED
      BY <1>1, <3>3, <3>6 DEF NodeRight, AllSound, Live
  <2> QED
    BY <2>0, <2>1, <2>2, <2>3
<1>7. NodeRight(n)'
  BY <1>1, <1>2, <1>6 DEF NodeRight, PollClean, ArrayLast, TargetThere
<1> QED
  BY <1>1, <1>2, <1>5, <1>7, NodesRight

LEMMA InitRight == Init => TargetInv
<1> SUFFICES ASSUME Init, NEW n \in Node
             PROVE  NodeRight(n)
  BY DEF TargetInv
<1>1. phase[n] = "enter" /\ sendingTo[n] = 0 /\ Live(n) = {}
  BY DEF Init, Live
<1> QED
  BY <1>1 DEF NodeRight, AllSound, PollClean, ArrayLast, TargetThere

(* The receiver always has a connection for the frame in progress.          *)
LEMMA NoNullPointer ==
  ASSUME Inv, TargetInv, NEW n \in Node
  PROVE  Failure(n) # "null pointer"
<1> DEFINE nullp == Receiving(n) /\ sendingTo[n] # 0 /\ sorted[n][sendingTo[n]] = NoSession
           bad == FrameAvailable(n) /\ ~WellStarted(n)
           gone == FrameAvailable(n) /\ WellStarted(n) /\ FrameId(n) # 0
                   /\ sorted[n][FrameId(n)] = NoSession
<1>1. ASSUME nullp PROVE FALSE
  <2>1. phase[n] = "recv" /\ MemoryInv /\ NodeRight(n)
    BY <1>1 DEF Receiving, Inv, TargetInv
  <2>2. PICK i \in Id : sendingTo[n] = i
    BY <1>1, <2>1, Constants DEF MemoryInv, Id
  <2>3. Holders(n, i) # {} /\ sorted[n][i] = Latest(n, i) /\ sorted[n][i] = NoSession
    BY <1>1, <2>1, <2>2 DEF NodeRight, TargetThere
  <2>4. Latest(n, i) \in Session
    BY <2>3, LatestIs
  <2> QED
    BY <2>3, <2>4, Constants DEF Session, NoSession
<1>2. Failure(n) = CASE nullp -> "null pointer" [] bad -> "starting byte"
                     [] gone -> "closed connection" [] OTHER -> "none"
  BY Zenon DEF Failure
<1>3. ~nullp
  BY <1>1
<1> HIDE DEF nullp, bad, gone
<1>4. CASE bad /\ gone
  <2>1. FALSE
    BY <1>4 DEF bad, gone
  <2> QED
    BY <2>1
<1>5. CASE bad /\ ~gone
  BY <1>2, <1>3, <1>5
<1>6. CASE ~bad /\ gone
  BY <1>2, <1>3, <1>6
<1>7. CASE ~bad /\ ~gone
  BY <1>2, <1>3, <1>7
<1> QED
  BY <1>4, <1>5, <1>6, <1>7

LEMMA FailsRight ==
  ASSUME Inv, TargetInv, NEW n \in Node, ReceiveFails(n)
  PROVE  TargetInv' /\ Failure(n) = "closed connection"
<1>1. ~(FrameAvailable(n) /\ ~WellStarted(n))
  BY HeadIs
<1>2. Failure(n) # "none" /\ End(n, Failure(n)) /\ Failure(n) # "null pointer"
  BY NoNullPointer, Zenon DEF ReceiveFails
<1> DEFINE nullp == Receiving(n) /\ sendingTo[n] # 0 /\ sorted[n][sendingTo[n]] = NoSession
           bad == FrameAvailable(n) /\ ~WellStarted(n)
           gone == FrameAvailable(n) /\ WellStarted(n) /\ FrameId(n) # 0
                   /\ sorted[n][FrameId(n)] = NoSession
<1>3. Failure(n) = "closed connection"
  <2>1. Failure(n) = CASE nullp -> "null pointer" [] bad -> "starting byte"
                       [] gone -> "closed connection" [] OTHER -> "none"
    BY Zenon DEF Failure
  <2>2. ~bad
    BY <1>1
  <2> HIDE DEF nullp, bad, gone
  <2> QED
    BY <1>2, <2>1, <2>2, Zenon
<1>4. Failure(n) \in Ended
  BY <1>3, Zenon DEF Ended
<1> QED
  BY <1>2, <1>3, <1>4, EndRight

LEMMA NextRight == Inv /\ TargetInv /\ [Next]_vars => TargetInv'
<1> SUFFICES ASSUME Inv, TargetInv, [Next]_vars
             PROVE  TargetInv'
  OBVIOUS
<1>1. MemoryInv
  BY DEF Inv
<1>2. CASE UNCHANGED vars
  <2>1. UNCHANGED <<phase, conns, sendingTo, sorted>>
    BY <1>2 DEF vars, pump, local
  <2>2. \A n \in Node : NodeRight(n)'
    BY <2>1, NodeRightKept DEF TargetInv
  <2> QED
    BY <2>2 DEF TargetInv
<1>3. ASSUME NEW n \in Node, StateChanges(n)
      PROVE  TargetInv'
  <2>1. CASE StateShutdown(n)
    <3>1. "stopped" \in Ended
      BY Zenon DEF Ended
    <3> QED
      BY <2>1, <3>1, EndRight DEF StateShutdown
  <2>2. CASE StateAgain(n)
    BY <1>1, <2>2, QuietRight DEF StateAgain, UpdateReturns, Goto, MemoryInv, pump
  <2>3. CASE StateOk(n)
    BY <1>1, <2>3, QuietRight DEF StateOk, Goto, MemoryInv, pump, local
  <2> QED
    BY <1>3, <2>1, <2>2, <2>3, ReportRight DEF StateChanges
<1>4. ASSUME NEW n \in Node, Recv(n)
      PROVE  TargetInv'
  <2>1. CASE ReceiveNothing(n)
    BY <1>1, <2>1, QuietRight DEF ReceiveNothing, Goto, MemoryInv, pump, local
  <2> QED
    BY <1>4, <2>1, ContinueRight, FailsRight, ReceiveCommandRight, ReceiveDataRight DEF Recv
<1>5. ASSUME NEW n \in Node, Transfer(n)
      PROVE  TargetInv'
  <2>1. CASE SendCommand(n)
    BY <1>1, <2>1, QuietRight DEF SendCommand, local
  <2>2. CASE LoseCommand(n)
    BY <1>1, <2>2, QuietRight DEF LoseCommand, UpdateReturns, Goto, MemoryInv
  <2>3. CASE CommandsSent(n)
    BY <1>1, <2>3, QuietRight DEF CommandsSent, Goto, MemoryInv, pump, local
  <2>4. CASE EncodeRefused(n)
    BY <1>1, <2>4, QuietRight DEF EncodeRefused, UpdateReturns, Goto, MemoryInv
  <2>5. CASE RoundDone(n)
    BY <1>1, <2>5, QuietRight DEF RoundDone, UpdateReturns, Goto, MemoryInv, pump
  <2> QED
    BY <1>5, <2>1, <2>2, <2>3, <2>4, <2>5, EncodeDataRight DEF Transfer
<1>6. ASSUME NEW n \in Node, PollReturnsUser(n)
      PROVE  TargetInv'
  <2>1. "stopped" \in Ended
    BY Zenon DEF Ended
  <2> QED
    BY <1>6, <2>1, EndRight DEF PollReturnsUser
<1>7. ASSUME NEW n \in Node, Signal(n)
      PROVE  TargetInv'
  BY <1>7, QuietRight DEF Signal, pump, local
<1>8. ASSUME NEW n \in Node, Update(n)
      PROVE  TargetInv'
  BY <1>3, <1>4, <1>5, <1>8, EnterPollRight, SortRight DEF Update
<1> QED
  BY <1>2, <1>6, <1>7, <1>8, PollReturnsRight DEF Next

(* The connection that a frame in progress is for is the last one with its  *)
(* identifier, in every round, and it is never deleted under the frame.     *)
THEOREM FrameKeepsItsConnection == Spec => [](Inv /\ TargetInv)
<1>1. Init => Inv /\ TargetInv
  BY InitInv, InitRight
<1>2. Inv /\ TargetInv /\ [Next]_vars => (Inv /\ TargetInv)'
  BY NextKeeps, NextRight
<1> QED
  BY <1>1, <1>2, PTL DEF Spec

NullPointer == "null pointer"

NoNull == \A n \in Node : phase[n] # NullPointer

LEMMA NextNoNull == Inv /\ TargetInv /\ NoNull /\ [Next]_vars => NoNull'
<1> SUFFICES ASSUME Inv, TargetInv, NoNull, [Next]_vars
             PROVE  NoNull'
  OBVIOUS
<1>1. phase \in [Node -> Phase]
  BY DEF Inv, MemoryInv
<1>2. \A p : p # NullPointer => \A n \in Node : Goto(n, p) => NoNull'
  BY <1>1 DEF Goto, NoNull
<1>3. phase' = phase => NoNull'
  BY DEF NoNull
<1>4. \A p \in Running \cup {"stopped", "closed connection"} : p # NullPointer
  BY Zenon DEF Running, NullPointer
<1>5. \A p \in Running \cup {"stopped", "closed connection"} :
        \A n \in Node : Goto(n, p) => NoNull'
  BY <1>2, <1>4
<1>6. /\ "enter" \in Running /\ "poll" \in Running /\ "sort" \in Running /\ "state" \in Running
      /\ "recv" \in Running /\ "cmds" \in Running /\ "data" \in Running
  BY DEF Running
<1>7. CASE UNCHANGED vars
  BY <1>3, <1>7 DEF vars
<1>8. ASSUME NEW n \in Node, StateChanges(n)
      PROVE  NoNull'
  <2>1. Goto(n, "stopped") \/ phase' = phase \/ Goto(n, "enter") \/ Goto(n, "recv")
    BY <1>8 DEF StateChanges, StateShutdown, End, Report, StateAgain, UpdateReturns, StateOk
  <2> QED
    BY <1>3, <1>5, <1>6, <2>1
<1>9. ASSUME NEW n \in Node, Recv(n)
      PROVE  NoNull'
  <2>1. CASE ReceiveFails(n)
    <3>1. Goto(n, "closed connection")
      BY <2>1, FailsRight DEF ReceiveFails, End
    <3> QED
      BY <1>5, <3>1
  <2>2. CASE ~ReceiveFails(n)
    <3>1. phase' = phase \/ Goto(n, "cmds")
      BY <1>9, <2>2 DEF Recv, ContinueFrame, ReceiveCommand, ReceiveData, ReceiveNothing
    <3> QED
      BY <1>3, <1>5, <1>6, <3>1
  <2> QED
    BY <2>1, <2>2
<1>10. ASSUME NEW n \in Node, Transfer(n)
       PROVE  NoNull'
  <2>1. phase' = phase \/ Goto(n, "enter") \/ Goto(n, "data")
    BY <1>10 DEF Transfer, SendCommand, LoseCommand, CommandsSent, EncodeData, EncodeRefused,
                 RoundDone, UpdateReturns
  <2> QED
    BY <1>3, <1>5, <1>6, <2>1
<1>11. ASSUME NEW n \in Node, PollReturnsUser(n) \/ Signal(n) \/ PollReturns(n)
       PROVE  NoNull'
  <2>1. phase' = phase \/ Goto(n, "stopped") \/ Goto(n, "sort")
    BY <1>11 DEF PollReturnsUser, End, Signal, PollReturns
  <2> QED
    BY <1>3, <1>5, <1>6, <2>1
<1>12. ASSUME NEW n \in Node, Update(n)
       PROVE  NoNull'
  <2>1. CASE EnterPoll(n)
    BY <1>5, <1>6, <2>1 DEF EnterPoll
  <2>2. CASE SortConnections(n)
    BY <1>5, <1>6, <2>2 DEF SortConnections
  <2> QED
    BY <1>8, <1>9, <1>10, <1>12, <2>1, <2>2 DEF Update
<1> QED
  BY <1>7, <1>11, <1>12 DEF Next

(* The two nodes stay in step about where a frame begins: what a node reads *)
(* next is the beginning of a frame or the rest of the one it is in, and it *)
(* has the connection that one is for, however many rounds the frame takes  *)
(* and whatever happens to the connection in between (pump.c:193, 207).     *)
THEOREM FramesStayInStep == Spec => []FramesInStep
<1>1. Init => NoNull
  <2>1. "enter" # NullPointer
    BY Zenon DEF NullPointer
  <2> QED
    BY <2>1 DEF Init, NoNull
<1>2. Inv /\ TargetInv /\ NoNull /\ [Next]_vars => NoNull'
  BY NextNoNull
<1>3. Inv /\ NoNull => FramesInStep
  BY DEF Inv, NoBadStart, BadStart, NoNull, NullPointer, FramesInStep
<1> QED
  BY <1>1, <1>2, <1>3, FrameKeepsItsConnection, PTL DEF Spec
-----------------------------------------------------------------------------
(* The room for commands                                                    *)

(* Identifiers whose connection the other node has not been told about.     *)
Untold(n) == {i \in Id : sorted[n][i] # NoSession /\ "NEW" \in Indexed(n, i).state}

(* In a round every identifier costs at most two commands: NEW, and one of  *)
(* the two about its end.                                                   *)
QueueRight(n) ==
  /\ phase[n] \in {"enter", "poll", "sort", "data"} => queue[n] = <<>>
  /\ phase[n] = "state" =>
       Len(queue[n]) + Cardinality(Untold(n)) + Cardinality(Reports(n)) <= 2 * MaxId
  /\ phase[n] = "recv" => Len(queue[n]) <= 2 * MaxId

QueueInv == ~lost => \A n \in Node : QueueRight(n)

Roomy == QueueSize >= 2 * (MaxId + 1)

LEMMA IdSets ==
  ASSUME NEW U \in SUBSET Id
  PROVE  /\ Cardinality(U) \in Nat /\ Cardinality(U) <= MaxId
         /\ \A T \in SUBSET U : Cardinality(T) \in Nat /\ Cardinality(T) <= Cardinality(U)
         /\ \A T \in SUBSET U : \A x \in U : x \notin T => Cardinality(T) + 1 <= Cardinality(U)
<1>1. IsFiniteSet(Id) /\ Cardinality(Id) = MaxId
  <2>1. MaxId \in Nat /\ ~(1 > MaxId) /\ MaxId - 1 + 1 = MaxId
    BY Constants
  <2> QED
    BY <2>1, FS_Interval DEF Id
<1>2. IsFiniteSet(U) /\ Cardinality(U) <= MaxId /\ Cardinality(U) \in Nat
  BY <1>1, FS_Subset, FS_CardinalityType
<1>3. ASSUME NEW T \in SUBSET U
      PROVE  IsFiniteSet(T) /\ Cardinality(T) \in Nat /\ Cardinality(T) <= Cardinality(U)
  BY <1>2, FS_Subset, FS_CardinalityType
<1>4. ASSUME NEW T \in SUBSET U, NEW x \in U, x \notin T
      PROVE  Cardinality(T) + 1 <= Cardinality(U)
  <2> DEFINE V == U \ {x}
  <2>1. IsFiniteSet(V) /\ Cardinality(V) = Cardinality(U) - 1
    BY <1>2, FS_RemoveElement
  <2>2. T \in SUBSET V
    BY <1>4
  <2> HIDE DEF V
  <2>3. Cardinality(T) <= Cardinality(V)
    BY <2>1, <2>2, FS_Subset
  <2> QED
    BY <1>2, <1>3, <2>1, <2>3
<1> QED
  BY <1>2, <1>3, <1>4

LEMMA QueueRightKept ==
  ASSUME NEW n \in Node, QueueRight(n), phase'[n] = phase[n], conns'[n] = conns[n],
         queue'[n] = queue[n], sorted'[n] = sorted[n]
  PROVE  QueueRight(n)'
<1>1. Untold(n)' = Untold(n) /\ Reports(n)' = Reports(n)
  BY DEF Untold, Reports, Indexed
<1> QED
  BY <1>1 DEF QueueRight

LEMMA QueuesRight ==
  ASSUME QueueInv, ~lost, NEW n \in Node, QueueRight(n)',
         \A k \in Node : k # n => /\ phase'[k] = phase[k] /\ conns'[k] = conns[k]
                                  /\ queue'[k] = queue[k] /\ sorted'[k] = sorted[k]
  PROVE  QueueInv'
<1> SUFFICES ASSUME NEW k \in Node, k # n
             PROVE  QueueRight(k)'
  BY DEF QueueInv
<1> QED
  BY QueueRightKept DEF QueueInv

(* Each report uses up what it was counted for.                             *)
LEMMA ReportCounts ==
  ASSUME Inv, TargetInv, NEW n \in Node, Report(n)
  PROVE  /\ Untold(n)' \subseteq Untold(n) /\ Reports(n)' \subseteq Reports(n)
         /\ \E i \in Id : \/ i \in Untold(n) /\ i \notin Untold(n)'
                          \/ i \in Reports(n) /\ i \notin Reports(n)'
         /\ queue'[n] \in Seq(Commands) /\ Len(queue'[n]) = Len(queue[n]) + 1
<1>1. MemoryInv /\ NodeRight(n) /\ phase[n] = "state"
  BY DEF Inv, TargetInv, Report
<1>2. PICK i \in Id, s \in Session :
           LET c   == conns[n][s]
               cmd == NextReport(c)
           IN  /\ s = sorted[n][i] /\ s = Latest(n, i) /\ c \in Connections /\ c # NoConn
               /\ c.id = i /\ "DELETE" \notin c.state
               /\ cmd \in {"NEW", "CLOSE", "CLOSE_SRC_TO_DST"}
               /\ AfterReport(c, cmd) \in Connections
               /\ conns' = [conns EXCEPT ![n][s] = AfterReport(c, cmd)]
               /\ queue' = [queue EXCEPT ![n] = Append(@, Command(cmd, c, s))]
               /\ Len(queue[n]) < QueueSize /\ i = Min(Reports(n))
               /\ cmd = "CLOSE" => /\ Freed(n, i)
                                   /\ sorted' = [sorted EXCEPT ![n][i] = NoSession]
                                   /\ closedBy' = [closedBy EXCEPT ![s] = @ \cup {n}]
               /\ cmd # "CLOSE" => UNCHANGED <<freeIds, sorted, closedBy>>
               /\ \A k \in Node, j \in Id : k # n \/ j # i => sorted'[k][j] = sorted[k][j]
  BY <1>1, ReportGives
<1> DEFINE c == conns[n][s]
           cmd == NextReport(c)
           d == AfterReport(c, cmd)
<1>3. cmd \in {"NEW", "CLOSE", "CLOSE_SRC_TO_DST"} /\ c \in Connections /\ c.id = i
  BY <1>2
<1>4. s = sorted[n][i] /\ conns'[n][s] = d /\ \A t \in Session : t # s => conns'[n][t] = conns[n][t]
  BY <1>1, <1>2 DEF MemoryInv
<1>5. /\ cmd = "CLOSE" => sorted'[n][i] = NoSession
      /\ cmd # "CLOSE" => sorted'[n][i] = sorted[n][i]
      /\ \A j \in Id : j # i => sorted'[n][j] = sorted[n][j]
  <2>1. /\ cmd = "CLOSE" => sorted'[n][i] = NoSession
        /\ cmd # "CLOSE" => sorted' = sorted
        /\ \A k \in Node, j \in Id : k # n \/ j # i => sorted'[k][j] = sorted[k][j]
    BY <1>1, <1>2 DEF MemoryInv
  <2> HIDE DEF cmd
  <2> QED
    BY <2>1
<1>6. queue'[n] \in Seq(Commands) /\ Len(queue'[n]) = Len(queue[n]) + 1
  <2> DEFINE f == Command(cmd, c, s)
  <2>1. queue[n] \in Seq(Commands)
    BY <1>1 DEF MemoryInv, Queues
  <2>2. f \in Commands
    <3>1. cmd \in Cmd
      BY <1>3 DEF Cmd
    <3> HIDE DEF cmd, c
    <3> QED
      BY <1>3, <3>1 DEF Command, Commands
  <2>3. queue'[n] = Append(queue[n], f)
    BY <1>1, <1>2 DEF MemoryInv
  <2> HIDE DEF f
  <2> QED
    BY <2>1, <2>2, <2>3
<1>7. \A j \in Id : j # i /\ sorted[n][j] # NoSession =>
        sorted'[n][j] = sorted[n][j] /\ conns'[n][sorted[n][j]] = conns[n][sorted[n][j]]
  <2> SUFFICES ASSUME NEW j \in Id, j # i, sorted[n][j] # NoSession
               PROVE  conns'[n][sorted[n][j]] = conns[n][sorted[n][j]]
    BY <1>5
  <2>1. Holders(n, j) # {} /\ sorted[n][j] = Latest(n, j)
    BY <1>1 DEF NodeRight, ArrayLast
  <2>2. sorted[n][j] \in Session /\ conns[n][sorted[n][j]].id = j
    BY <2>1, LatestIs
  <2> QED
    BY <1>3, <1>4, <2>2
<1>8. cmd # "none" /\ s # NoSession
  BY <1>3, Constants DEF Session, NoSession
<1>9. i \in Reports(n)
  BY <1>4, <1>8 DEF Reports, Indexed
<1>10. cmd = "NEW" => "NEW" \in c.state
  BY DEF NextReport, IsNewConnection
<1>11. cmd # "NEW" => "NEW" \notin c.state
  BY <1>8 DEF NextReport, IsNewConnection
<1>12. /\ cmd = "NEW" => "NEW" \notin d.state
       /\ cmd = "CLOSE_SRC_TO_DST" => "NEW" \notin d.state /\ NextReport(d) = "none"
  <2>1. ASSUME cmd = "NEW" PROVE "NEW" \notin d.state
    <3> HIDE DEF c
    <3>1. d.state = (c.state \ {"NEW"}) \cup {"STOPPED"}
      BY <1>3, <2>1, ReportFields
    <3> QED
      BY <3>1
  <2>2. ASSUME cmd = "CLOSE_SRC_TO_DST"
        PROVE  "NEW" \notin d.state /\ NextReport(d) = "none"
    <3>1. ~ShouldCloseConnection(c) /\ "NEW" \notin c.state
      BY <1>11, <2>2 DEF NextReport
    <3>2. d \in Connections
      BY <1>2
    <3> HIDE DEF c
    <3>3. /\ d.id = c.id /\ d.state = c.state /\ d.in = c.in \cup {"DELETE"}
          /\ d.out = c.out /\ d.inBuf = c.inBuf /\ d.outBuf = c.outBuf
      BY <1>3, <2>2, ReportFields
    <3> HIDE DEF d
    <3>4. ~IsNewConnection(d) /\ ~ShouldCloseConnection(d) /\ ~ShouldCloseIn(d)
      BY <3>1, <3>3 DEF IsNewConnection, ShouldCloseConnection, ShouldCloseIn
    <3>5. ~ShouldCloseOut(d)
      BY <3>2 DEF Connections, OutputEndsRightly, ShouldCloseOut
    <3> QED
      BY <3>1, <3>3, <3>4, <3>5 DEF NextReport
  <2> QED
    BY <2>1, <2>2
<1>13. \A j \in Id : j # i => /\ j \in Untold(n)' <=> j \in Untold(n)
                              /\ j \in Reports(n)' <=> j \in Reports(n)
  BY <1>5, <1>7 DEF Untold, Reports, Indexed
<1>14. i \in Untold(n) <=> "NEW" \in c.state
  BY <1>4, <1>8 DEF Untold, Indexed
<1> HIDE DEF c, cmd, d
<1>15. CASE cmd = "NEW"
  <2>1. i \notin Untold(n)'
    BY <1>4, <1>5, <1>12, <1>15 DEF Untold, Indexed
  <2>2. Untold(n)' \subseteq Untold(n) /\ Reports(n)' \subseteq Reports(n) /\ i \in Untold(n)
    BY <1>9, <1>10, <1>13, <1>14, <1>15, <2>1 DEF Untold, Reports
  <2> QED
    BY <1>6, <2>1, <2>2
<1>16. CASE cmd = "CLOSE"
  <2>1. i \notin Untold(n)' /\ i \notin Reports(n)'
    BY <1>5, <1>16 DEF Untold, Reports
  <2>2. Untold(n)' \subseteq Untold(n) /\ Reports(n)' \subseteq Reports(n)
    BY <1>13, <2>1 DEF Untold, Reports
  <2> QED
    BY <1>6, <1>9, <2>1, <2>2
<1>17. CASE cmd = "CLOSE_SRC_TO_DST"
  <2>1. i \notin Untold(n)' /\ i \notin Reports(n)'
    BY <1>4, <1>5, <1>12, <1>17 DEF Untold, Reports, Indexed
  <2>2. Untold(n)' \subseteq Untold(n) /\ Reports(n)' \subseteq Reports(n)
    BY <1>13, <2>1 DEF Untold, Reports
  <2> QED
    BY <1>6, <1>9, <2>1, <2>2
<1> QED
  BY <1>3, <1>15, <1>16, <1>17

LEMMA ReportRoom ==
  ASSUME Inv, TargetInv, NEW n \in Node, Report(n), QueueRight(n)
  PROVE  QueueRight(n)'
<1> DEFINE a == Cardinality(Untold(n))
           b == Cardinality(Reports(n))
           c == Cardinality(Untold(n)')
           d == Cardinality(Reports(n)')
<1>1. /\ Untold(n)' \subseteq Untold(n) /\ Reports(n)' \subseteq Reports(n)
      /\ Len(queue'[n]) = Len(queue[n]) + 1
  BY ReportCounts
<1>2. Untold(n) \in SUBSET Id /\ Reports(n) \in SUBSET Id
  BY DEF Untold, Reports
<1>3. a \in Nat /\ b \in Nat /\ c \in Nat /\ d \in Nat /\ c <= a /\ d <= b
  BY <1>1, <1>2, IdSets
<1>4. c + 1 <= a \/ d + 1 <= b
  <2>1. PICK i \in Id : \/ i \in Untold(n) /\ i \notin Untold(n)'
                        \/ i \in Reports(n) /\ i \notin Reports(n)'
    BY ReportCounts
  <2>2. CASE i \in Untold(n) /\ i \notin Untold(n)'
    BY <1>1, <1>2, <2>2, IdSets
  <2>3. CASE i \in Reports(n) /\ i \notin Reports(n)'
    BY <1>1, <1>2, <2>3, IdSets
  <2> QED
    BY <2>1, <2>2, <2>3
<1>5. phase[n] = "state" /\ phase' = phase
  BY DEF Report
<1>6. Len(queue[n]) + a + b <= 2 * MaxId /\ Len(queue[n]) \in Nat
  <2>1. queue[n] \in Seq(Commands)
    BY DEF Inv, MemoryInv, Queues
  <2> QED
    BY <1>5, <2>1 DEF QueueRight
<1> HIDE DEF a, b, c, d
<1>7. Len(queue'[n]) + c + d <= 2 * MaxId
  BY <1>1, <1>3, <1>4, <1>6, Constants
<1> QED
  BY <1>5, <1>7 DEF QueueRight, c, d

(* While nothing is lost there is room.                                     *)
LEMMA RoomIs ==
  ASSUME Inv, Roomy, NEW n \in Node, QueueRight(n)
  PROVE  /\ phase[n] = "state" /\ Reports(n) # {} => HasRoom(n)
         /\ phase[n] = "recv" => HasRoom(n)
<1>1. Len(queue[n]) \in Nat /\ MaxId \in Nat /\ QueueSize \in Nat
  <2>1. queue[n] \in Seq(Commands)
    BY DEF Inv, MemoryInv, Queues
  <2> QED
    BY <2>1, Constants
<1>2. ASSUME phase[n] = "state" PROVE HasRoom(n)
  <2> DEFINE a == Cardinality(Untold(n))
             b == Cardinality(Reports(n))
  <2>1. Untold(n) \in SUBSET Id /\ Reports(n) \in SUBSET Id
    BY DEF Untold, Reports
  <2>2. a \in Nat /\ b \in Nat
    BY <2>1, IdSets
  <2>3. Len(queue[n]) + a + b <= 2 * MaxId
    BY <1>2 DEF QueueRight
  <2> HIDE DEF a, b
  <2> QED
    BY <1>1, <2>2, <2>3 DEF HasRoom, Roomy
<1>3. ASSUME phase[n] = "recv" PROVE HasRoom(n)
  BY <1>1, <1>3 DEF QueueRight, HasRoom, Roomy
<1> QED
  BY <1>2, <1>3

LEMMA SortRoom ==
  ASSUME Inv, NEW n \in Node, SortConnections(n), QueueRight(n)
  PROVE  QueueRight(n)'
<1>1. phase'[n] = "state" /\ queue'[n] = <<>>
  BY DEF SortConnections, Goto, Inv, MemoryInv, pump, QueueRight
<1>2. Untold(n)' \in SUBSET Id /\ Reports(n)' \in SUBSET Id
  BY DEF Untold, Reports
<1>3. /\ Cardinality(Untold(n)') \in Nat /\ Cardinality(Untold(n)') <= MaxId
      /\ Cardinality(Reports(n)') \in Nat /\ Cardinality(Reports(n)') <= MaxId
  BY <1>2, IdSets
<1>4. Len(queue'[n]) = 0
  BY <1>1, EmptySeq
<1>5. Len(queue'[n]) + Cardinality(Untold(n)') + Cardinality(Reports(n)') <= 2 * MaxId
  BY <1>3, <1>4, Constants
<1> QED
  BY <1>1, <1>5 DEF QueueRight

LEMMA QueueNext ==
  ASSUME Inv, TargetInv, Roomy, QueueInv, [Next]_vars
  PROVE  QueueInv'
<1> SUFFICES ASSUME ~lost'
             PROVE  QueueInv'
  BY DEF QueueInv
<1>1. MemoryInv /\ phase \in [Node -> Phase]
  BY DEF Inv, MemoryInv
<1>2. CASE UNCHANGED vars
  <2>1. UNCHANGED <<phase, conns, queue, sorted, lost>>
    BY <1>2 DEF vars, pump, local, history
  <2>2. \A n \in Node : QueueRight(n)'
    BY <2>1, QueueRightKept DEF QueueInv
  <2> QED
    BY <2>2 DEF QueueInv
<1>3. ASSUME NEW n \in Node, Update(n) \/ PollReturns(n) \/ PollReturnsUser(n) \/ Signal(n),
             ~LoseCommand(n)
      PROVE  QueueInv'
  <2>1. CASE EnterPoll(n)
    <3>1. /\ phase[n] = "enter" /\ phase' = [phase EXCEPT ![n] = "poll"] /\ queue' = queue
          /\ sorted' = sorted /\ lost' = lost /\ \A k \in Node : k # n => conns'[k] = conns[k]
      BY <1>1, <2>1 DEF EnterPoll, Goto, pump, local, history, MemoryInv
    <3>2. QueueRight(n)'
      BY <1>1, <3>1 DEF QueueInv, QueueRight
    <3> QED
      BY <1>1, <3>1, <3>2, QueuesRight
  <2>2. CASE PollReturns(n)
    <3>1. /\ phase[n] = "poll" /\ phase' = [phase EXCEPT ![n] = "sort"] /\ queue' = queue
          /\ sorted' = sorted /\ lost' = lost /\ \A k \in Node : k # n => conns'[k] = conns[k]
      BY <1>1, <2>2 DEF PollReturns, Goto, pump, local, history, MemoryInv
    <3>2. QueueRight(n)'
      BY <1>1, <3>1 DEF QueueInv, QueueRight
    <3> QED
      BY <1>1, <3>1, <3>2, QueuesRight
  <2>3. CASE SortConnections(n)
    <3>1. /\ queue' = queue /\ lost' = lost
          /\ \A k \in Node : k # n => /\ phase'[k] = phase[k] /\ conns'[k] = conns[k]
                                      /\ sorted'[k] = sorted[k]
      BY <1>1, <2>3 DEF SortConnections, Goto, pump, history, MemoryInv
    <3>2. QueueRight(n)'
      BY <2>3, <3>1, SortRoom DEF QueueInv
    <3> QED
      BY <3>1, <3>2, QueuesRight
  <2>4. CASE Report(n)
    <3>1. lost' = lost /\ phase' = phase
      BY <2>4 DEF Report
    <3>2. QueueRight(n)'
      BY <2>4, <3>1, ReportRoom DEF QueueInv
    <3>3. \A k \in Node : k # n => /\ conns'[k] = conns[k] /\ queue'[k] = queue[k]
                                   /\ sorted'[k] = sorted[k]
      BY <1>1, <2>4 DEF Report, Queued, MemoryInv
    <3> QED
      BY <3>1, <3>2, <3>3, QueuesRight
  <2>5. CASE StateAgain(n)
    <3>1. lost' = lost /\ phase[n] = "state" /\ Reports(n) # {} /\ ~HasRoom(n)
      BY <2>5 DEF StateAgain, history
    <3> QED
      BY <3>1, RoomIs DEF QueueInv
  <2>6. CASE StateOk(n)
    <3>1. /\ phase[n] = "state" /\ phase' = [phase EXCEPT ![n] = "recv"] /\ queue' = queue
          /\ sorted' = sorted /\ lost' = lost /\ conns' = conns
      BY <2>6 DEF StateOk, Goto, pump, local, history
    <3>2. Len(queue[n]) <= 2 * MaxId
      <4> DEFINE a == Cardinality(Untold(n))
                 b == Cardinality(Reports(n))
      <4>1. Untold(n) \in SUBSET Id /\ Reports(n) \in SUBSET Id
        BY DEF Untold, Reports
      <4>2. a \in Nat /\ b \in Nat
        BY <4>1, IdSets
      <4>3. Len(queue[n]) + a + b <= 2 * MaxId
        BY <3>1 DEF QueueInv, QueueRight
      <4>4. Len(queue[n]) \in Nat /\ MaxId \in Nat
        <5>1. queue[n] \in Seq(Commands)
          BY <1>1 DEF MemoryInv, Queues
        <5> QED
          BY <5>1, Constants
      <4> HIDE DEF a, b
      <4> QED
        BY <4>2, <4>3, <4>4
    <3>3. QueueRight(n)'
      BY <1>1, <3>1, <3>2 DEF QueueRight
    <3> QED
      BY <1>1, <3>1, <3>3, QueuesRight
  <2>7. CASE ContinueFrame(n)
    <3>1. /\ phase[n] = "recv" /\ phase'[n] \in {"recv", "cmds"} /\ queue' = queue
          /\ sorted' = sorted /\ lost' = lost
          /\ \A k \in Node : k # n => phase'[k] = phase[k] /\ conns'[k] = conns[k]
      BY <1>1, <2>7 DEF ContinueFrame, Receiving, Decoded, Goto, local, history, MemoryInv
    <3>2. QueueRight(n)'
      BY <3>1 DEF QueueInv, QueueRight
    <3> QED
      BY <3>1, <3>2, QueuesRight
  <2>8. CASE ReceiveCommand(n)
    <3>1. /\ phase' = [phase EXCEPT ![n] = "cmds"] /\ sorted' = sorted /\ lost' = lost
      BY <2>8 DEF ReceiveCommand, Goto, local
    <3>2. \A k \in Node : k # n => conns'[k] = conns[k] /\ queue'[k] = queue[k]
      BY <2>8, CommandElsewhere
    <3>3. QueueRight(n)'
      BY <1>1, <3>1 DEF QueueRight
    <3> QED
      BY <1>1, <3>1, <3>2, <3>3, QueuesRight
  <2>9. CASE ReceiveData(n)
    <3>1. /\ phase' = [phase EXCEPT ![n] = "cmds"] /\ sorted' = sorted /\ lost' = lost
          /\ queue' = queue /\ \A k \in Node : k # n => conns'[k] = conns[k]
      BY <1>1, <2>9 DEF ReceiveData, Decoded, Goto, local, history, MemoryInv
    <3>2. QueueRight(n)'
      BY <1>1, <3>1 DEF QueueRight
    <3> QED
      BY <1>1, <3>1, <3>2, QueuesRight
  <2>10. CASE ReceiveNothing(n) \/ SendCommand(n)
    <3>1. /\ phase'[n] = "cmds" /\ sorted' = sorted /\ lost' = lost /\ conns' = conns
          /\ \A k \in Node : k # n => phase'[k] = phase[k] /\ queue'[k] = queue[k]
      BY <1>1, <2>10 DEF ReceiveNothing, SendCommand, Goto, pump, local, history, MemoryInv
    <3>2. QueueRight(n)'
      BY <3>1 DEF QueueRight
    <3> QED
      BY <3>1, <3>2, QueuesRight
  <2>11. CASE CommandsSent(n)
    <3>1. /\ phase' = [phase EXCEPT ![n] = "data"] /\ queue[n] = <<>> /\ queue' = queue
          /\ sorted' = sorted /\ lost' = lost /\ conns' = conns
      BY <2>11 DEF CommandsSent, Goto, pump, local, history
    <3>2. QueueRight(n)'
      BY <1>1, <3>1 DEF QueueRight
    <3> QED
      BY <1>1, <3>1, <3>2, QueuesRight
  <2>12. CASE EncodeData(n)
    <3>1. /\ phase[n] = "data" /\ phase' = phase /\ queue' = queue /\ sorted' = sorted
          /\ lost' = lost /\ \A k \in Node : k # n => conns'[k] = conns[k]
      BY <1>1, <2>12 DEF EncodeData, pump, history, MemoryInv
    <3>2. QueueRight(n)'
      BY <3>1 DEF QueueInv, QueueRight
    <3> QED
      BY <3>1, <3>2, QueuesRight
  <2>13. CASE EncodeRefused(n) \/ RoundDone(n)
    <3>1. /\ phase[n] = "data" /\ phase' = [phase EXCEPT ![n] = "enter"] /\ queue' = queue
          /\ lost' = lost /\ conns' = conns /\ \A k \in Node : k # n => sorted'[k] = sorted[k]
      BY <1>1, <2>13 DEF EncodeRefused, RoundDone, UpdateReturns, Goto, pump, history, MemoryInv
    <3>2. QueueRight(n)'
      BY <1>1, <3>1 DEF QueueInv, QueueRight
    <3> QED
      BY <1>1, <3>1, <3>2, QueuesRight
  <2>14. CASE Signal(n)
    <3>1. UNCHANGED <<phase, conns, queue, sorted, lost>>
      BY <2>14 DEF Signal, pump, local, history
    <3>2. QueueRight(n)'
      BY <3>1, QueueRightKept DEF QueueInv
    <3> QED
      BY <3>1, <3>2, QueuesRight
  <2>15. ASSUME NEW why \in Ended, End(n, why)
         PROVE  QueueInv'
    <3>1. /\ phase'[n] = why /\ lost' = lost
          /\ \A k \in Node : k # n => /\ phase'[k] = phase[k] /\ conns'[k] = conns[k]
                                      /\ queue'[k] = queue[k] /\ sorted'[k] = sorted[k]
      BY <1>1, <2>15 DEF End, Goto, history, MemoryInv
    <3>2. why \notin {"enter", "poll", "sort", "data", "state", "recv"}
      BY DEF Ended
    <3>3. QueueRight(n)'
      BY <3>1, <3>2 DEF QueueRight
    <3> QED
      BY <3>1, <3>3, QueuesRight
  <2>16. CASE ReceiveFails(n)
    <3>1. "closed connection" \in Ended
      BY Zenon DEF Ended
    <3> QED
      BY <2>15, <2>16, <3>1, FailsRight DEF ReceiveFails
  <2>17. CASE StateShutdown(n) \/ PollReturnsUser(n)
    <3>1. "stopped" \in Ended
      BY Zenon DEF Ended
    <3> QED
      BY <2>15, <2>17, <3>1 DEF StateShutdown, PollReturnsUser
  <2> QED
    BY <1>3, <2>1, <2>2, <2>3, <2>4, <2>5, <2>6, <2>7, <2>8, <2>9, <2>10, <2>11, <2>12, <2>13,
       <2>14, <2>16, <2>17 DEF Update, StateChanges, Recv, Transfer
<1>4. ASSUME NEW n \in Node, LoseCommand(n)
      PROVE  QueueInv'
  BY <1>4 DEF LoseCommand
<1> QED
  BY <1>2, <1>3, <1>4 DEF Next

(* A queue of 2 * (MaxId + 1) commands is enough (controller.c:11): as long *)
(* as no command was lost, every report and every answer finds room.  In a  *)
(* round an identifier costs at most NEW and one command about its end, and *)
(* at most one command is answered.                                         *)
THEOREM RoomForCommands == Spec => []QueueSuffices
<1>1. Init => QueueInv
  <2> SUFFICES ASSUME Init, NEW n \in Node
               PROVE  QueueRight(n)
    BY DEF QueueInv
  <2> QED
    BY DEF Init, QueueRight
<1>2. CASE Roomy
  <2>1. Inv /\ TargetInv /\ QueueInv /\ [Next]_vars => QueueInv'
    BY <1>2, QueueNext
  <2>2. Inv /\ QueueInv => QueueSuffices
    BY <1>2, RoomIs DEF QueueInv, QueueSuffices, FrameAvailable, Receiving
  <2> QED
    BY <1>1, <2>1, <2>2, FrameKeepsItsConnection, PTL DEF Spec
<1>3. CASE ~Roomy
  <2>1. QueueSuffices
    BY <1>3 DEF Roomy, QueueSuffices
  <2> QED
    BY <2>1, PTL
<1> QED
  BY <1>2, <1>3
=============================================================================
