---------------------------- MODULE CodecProofs ----------------------------
(***************************************************************************)
(* Proofs about the bytes of pump.c: what encode writes is read back as    *)
(* what was encoded, wherever the kernel cuts it, as long as no piece ends *)
(* behind an escape when decode comes to it.                               *)
(***************************************************************************)
EXTENDS Codec, SequenceLemmas, TLAPS
-----------------------------------------------------------------------------
(* The reader of the tunnel's bytes                                         *)

Octet == 0..255

ReadCommand == [cmd : Octet, arg : Octet]

ReadState ==
  [at : {"gap", "id", "cmd", "arg", "close", "data", "esc", "broken"},
   id : Octet, code : Octet, data : Seq(Octet), cmds : Seq(ReadCommand)]

Read(m, bytes) == FoldLeft(ReadByte, m, bytes)

LEMMA ReadByteIs ==
  ASSUME NEW m \in ReadState, NEW b \in Octet
  PROVE  ReadByte(m, b) \in ReadState
<1>1. /\ Append(m.data, b) \in Seq(Octet)
      /\ Append(m.cmds, [cmd |-> m.code, arg |-> b]) \in Seq(ReadCommand)
  <2>1. m.data \in Seq(Octet) /\ m.cmds \in Seq(ReadCommand)
        /\ [cmd |-> m.code, arg |-> b] \in ReadCommand
    BY DEF ReadState, ReadCommand
  <2> QED
    BY <2>1, AppendProperties
<1>2. m.at \in {"gap", "id", "cmd", "arg", "close", "data", "esc", "broken"}
  BY DEF ReadState
<1>3. CASE m.at = "gap"
  BY <1>3 DEF ReadState, ReadByte
<1>4. CASE m.at = "id"
  BY <1>4 DEF ReadState, ReadByte
<1>5. CASE m.at = "cmd"
  BY <1>5 DEF ReadState, ReadByte
<1>6. CASE m.at = "arg"
  BY <1>1, <1>6 DEF ReadState, ReadByte
<1>7. CASE m.at = "close"
  BY <1>7 DEF ReadState, ReadByte
<1>8. CASE m.at = "data"
  BY <1>1, <1>8 DEF ReadState, ReadByte
<1>9. CASE m.at = "esc"
  BY <1>1, <1>9 DEF ReadState, ReadByte
<1>10. CASE m.at = "broken"
  BY <1>10 DEF ReadState, ReadByte
<1> QED
  BY <1>2, <1>3, <1>4, <1>5, <1>6, <1>7, <1>8, <1>9, <1>10

(* One byte of a command's frame.                                           *)
LEMMA FrameByte ==
  ASSUME NEW m \in ReadState, NEW b \in Octet
  PROVE  /\ m.at = "gap" =>
              ReadByte(m, b) = [m EXCEPT !.at = IF b = END_BYTE THEN "id" ELSE "broken"]
         /\ m.at = "id" /\ b = 0 => ReadByte(m, b) = [m EXCEPT !.at = "cmd"]
         /\ m.at = "cmd" => ReadByte(m, b) = [m EXCEPT !.at = "arg", !.code = b]
         /\ m.at = "arg" =>
              ReadByte(m, b) = [m EXCEPT !.at = "close",
                                 !.cmds = Append(@, [cmd |-> m.code, arg |-> b])]
         /\ m.at = "close" =>
              ReadByte(m, b) = [m EXCEPT !.at = IF b = END_BYTE THEN "gap" ELSE "broken"]
<1>1. ASSUME m.at = "gap"
      PROVE  ReadByte(m, b) = [m EXCEPT !.at = IF b = END_BYTE THEN "id" ELSE "broken"]
  BY <1>1 DEF ReadByte, ReadState
<1>2. ASSUME m.at = "id", b = 0
      PROVE  ReadByte(m, b) = [m EXCEPT !.at = "cmd"]
  BY <1>2 DEF ReadByte, ReadState
<1>3. ASSUME m.at = "cmd"
      PROVE  ReadByte(m, b) = [m EXCEPT !.at = "arg", !.code = b]
  BY <1>3 DEF ReadByte, ReadState
<1>4. ASSUME m.at = "arg"
      PROVE  ReadByte(m, b) = [m EXCEPT !.at = "close",
                                !.cmds = Append(@, [cmd |-> m.code, arg |-> b])]
  BY <1>4 DEF ReadByte, ReadState
<1>5. ASSUME m.at = "close"
      PROVE  ReadByte(m, b) = [m EXCEPT !.at = IF b = END_BYTE THEN "gap" ELSE "broken"]
  BY <1>5 DEF ReadByte, ReadState
<1> QED
  BY <1>1, <1>2, <1>3, <1>4, <1>5

LEMMA ByteKeepsId ==
  ASSUME NEW m \in ReadState, NEW b \in Octet
  PROVE  ReadByte(m, b).id = m.id
<1>2. m.at \in {"gap", "id", "cmd", "arg", "close", "data", "esc", "broken"}
  BY DEF ReadState
<1>3. CASE m.at = "gap"
  BY <1>3 DEF ReadState, ReadByte
<1>4. CASE m.at = "id"
  BY <1>4 DEF ReadState, ReadByte
<1>5. CASE m.at = "cmd"
  BY <1>5 DEF ReadState, ReadByte
<1>6. CASE m.at = "arg"
  BY <1>6 DEF ReadState, ReadByte
<1>7. CASE m.at = "close"
  BY <1>7 DEF ReadState, ReadByte
<1>8. CASE m.at = "data"
  BY <1>8 DEF ReadState, ReadByte
<1>9. CASE m.at = "esc"
  BY <1>9 DEF ReadState, ReadByte
<1>10. CASE m.at = "broken"
  BY <1>10 DEF ReadState, ReadByte
<1> QED
  BY <1>2, <1>3, <1>4, <1>5, <1>6, <1>7, <1>8, <1>9, <1>10

ReadTurn == [x \in ReadState \X Octet |-> ReadByte(x[1], x[2])]

LEMMA ReadRuns ==
  ASSUME NEW m \in ReadState, NEW s \in Seq(Octet)
  PROVE  \E w : LoopRun(w, ReadState, ReadTurn, m, s) /\ w[Len(s)] = Read(m, s)
<1> DEFINE n == Len(s)
           Eq(h) == h = [t \in SUBSET DOMAIN s |->
                           IF t = {} THEN m ELSE ReadByte(h[t \ {Max(t)}], s[Max(t)])]
           h == CHOOSE g : Eq(g)
<1>1. n \in Nat /\ DOMAIN s = 1..n /\ \A i \in 1..n : s[i] \in Octet
  BY LenProperties, ElementOfSeq
<1>2. IsLoopTurn(ReadTurn, ReadState, Octet)
  BY ReadByteIs DEF ReadTurn, IsLoopTurn, LoopTurn
<1>3. \A q \in ReadState : \A b \in Octet : LoopTurn(ReadTurn, q, b) = ReadByte(q, b)
  BY DEF ReadTurn, LoopTurn
<1>4. PICK g : g \in [SUBSET (1..n) -> ReadState] /\ Recursion(g, ReadTurn, m, s)
  BY <1>2, RecursionExists
<1>5. \A t \in SUBSET (1..n) : t # {} => Max(t) \in 1..n /\ t \ {Max(t)} \in SUBSET (1..n)
  BY <1>1, MaxOfPart
<1>6. Eq(g)
  <2>1. ASSUME NEW t \in SUBSET (1..n), t # {}
        PROVE  g[t] = ReadByte(g[t \ {Max(t)}], s[Max(t)])
    <3>1. g[t \ {Max(t)}] \in ReadState /\ s[Max(t)] \in Octet
      BY <1>1, <1>4, <1>5, <2>1
    <3>2. g[t] = LoopTurn(ReadTurn, g[t \ {Max(t)}], s[Max(t)])
      BY <1>4, <2>1 DEF Recursion
    <3> QED
      BY <1>3, <3>1, <3>2
  <2>2. \A t \in SUBSET (1..n) :
          g[t] = IF t = {} THEN m ELSE ReadByte(g[t \ {Max(t)}], s[Max(t)])
    BY <1>4, <2>1 DEF Recursion
  <2> QED
    BY <1>1, <1>4, <2>2
<1>7. Eq(h)
  BY <1>6
<1>8. Read(m, s) = h[1..n]
  BY <1>1 DEF Read, FoldLeft, MapThenFoldSet
<1> HIDE DEF h
<1>9. \A t \in SUBSET (1..n) : h[t] = IF t = {} THEN m ELSE ReadByte(h[t \ {Max(t)}], s[Max(t)])
  BY <1>1, <1>7
<1>10. h[{}] = m
  BY <1>9
<1>11. ASSUME NEW t \in SUBSET (1..n), t # {}, h[t \ {Max(t)}] \in ReadState
       PROVE  h[t] = LoopTurn(ReadTurn, h[t \ {Max(t)}], s[Max(t)])
  BY <1>1, <1>3, <1>5, <1>9, <1>11
<1>12. Solution(h, ReadState, ReadTurn, m, s)
  BY <1>10, <1>11 DEF Solution
<1>13. \E w : LoopRun(w, ReadState, ReadTurn, m, s) /\ w[n] = h[1..n]
  <2> HIDE DEF n
  <2>1. Solution(h, ReadState, ReadTurn, m, s)
    BY <1>12
  <2>2. \E w : LoopRun(w, ReadState, ReadTurn, m, s) /\ w[Len(s)] = h[1..Len(s)]
    BY ONLY m \in ReadState, s \in Seq(Octet), <1>2, <2>1, RunOf
  <2> QED
    BY <2>2 DEF n
<1> QED
  BY <1>8, <1>13

LEMMA ReadNothing ==
  ASSUME NEW m \in ReadState
  PROVE  Read(m, <<>>) = m
<1>1. <<>> \in Seq(Octet)
  OBVIOUS
<1>2. PICK w : LoopRun(w, ReadState, ReadTurn, m, <<>>) /\ w[Len(<<>>)] = Read(m, <<>>)
  BY <1>1, ReadRuns
<1> QED
  BY <1>2, RunOverNothing

LEMMA ReadMore ==
  ASSUME NEW m \in ReadState, NEW s \in Seq(Octet), NEW b \in Octet
  PROVE  /\ Read(m, s) \in ReadState
         /\ Read(m, Append(s, b)) = ReadByte(Read(m, s), b)
<1>1. Append(s, b) \in Seq(Octet)
  BY AppendProperties
<1>2. PICK v : LoopRun(v, ReadState, ReadTurn, m, s) /\ v[Len(s)] = Read(m, s)
  BY ReadRuns
<1>3. PICK w : /\ LoopRun(w, ReadState, ReadTurn, m, Append(s, b))
               /\ w[Len(Append(s, b))] = Read(m, Append(s, b))
  BY <1>1, ReadRuns
<1>4. /\ v[Len(s)] \in ReadState
      /\ w[Len(Append(s, b))] = LoopTurn(ReadTurn, v[Len(s)], b)
  <2>1. v[Len(s)] \in ReadState
    BY <1>2, <1>3, RunsAgree
  <2>2. w[Len(Append(s, b))] = LoopTurn(ReadTurn, v[Len(s)], b)
    BY <1>2, <1>3, RunsAgree
  <2> QED
    BY <2>1, <2>2
<1> QED
  BY <1>2, <1>3, <1>4 DEF ReadTurn, LoopTurn

LEMMA ReadIs ==
  ASSUME NEW m \in ReadState, NEW s \in Seq(Octet)
  PROVE  Read(m, s) \in ReadState
<1>1. 0 \in Octet
  BY DEF Octet
<1> QED
  BY <1>1, ReadMore

LEMMA AppendOne ==
  ASSUME NEW A, NEW b \in A
  PROVE  <<b>> \in Seq(A) /\ Append(<<>>, b) = <<b>>
  OBVIOUS

LEMMA AppendConcat ==
  ASSUME NEW A, NEW s \in Seq(A), NEW t \in Seq(A), NEW b \in A
  PROVE  s \o Append(t, b) = Append(s \o t, b)
<1>1. <<b>> \in Seq(A) /\ s \o t \in Seq(A)
  BY ConcatProperties
<1>2. Append(t, b) = t \o <<b>> /\ Append(s \o t, b) = (s \o t) \o <<b>>
  BY <1>1, AppendIsConcat
<1>3. (s \o t) \o <<b>> = s \o (t \o <<b>>)
  BY <1>1, ConcatAssociative
<1> QED
  BY <1>2, <1>3

LEMMA ReadByteAlone ==
  ASSUME NEW m \in ReadState, NEW b \in Octet
  PROVE  Read(m, <<b>>) = ReadByte(m, b)
<1>1. <<>> \in Seq(Octet) /\ Append(<<>>, b) = <<b>>
  BY AppendOne
<1>2. Read(m, Append(<<>>, b)) = ReadByte(Read(m, <<>>), b)
  BY <1>1, ReadMore
<1>3. Read(m, <<>>) = m
  BY ReadNothing
<1> QED
  BY <1>1, <1>2, <1>3

(* Reading on is reading both.                                              *)
LEMMA ReadConcat ==
  ASSUME NEW m \in ReadState, NEW s \in Seq(Octet), NEW t \in Seq(Octet)
  PROVE  Read(m, s \o t) = Read(Read(m, s), t)
<1> DEFINE T == {u \in Seq(Octet) : Read(m, s \o u) = Read(Read(m, s), u)}
<1>1. <<>> \in T
  <2>1. s \o <<>> = s /\ <<>> \in Seq(Octet)
    BY ConcatEmptySeq
  <2>2. Read(Read(m, s), <<>>) = Read(m, s)
    BY ReadIs, ReadNothing
  <2> QED
    BY <2>1, <2>2
<1>2. ASSUME NEW u \in Seq(Octet), NEW b \in Octet, u \in T
      PROVE  Append(u, b) \in T
  <2>1. s \o Append(u, b) = Append(s \o u, b) /\ s \o u \in Seq(Octet)
        /\ Append(u, b) \in Seq(Octet)
    BY AppendConcat, AppendProperties, ConcatProperties
  <2>2. Read(m, Append(s \o u, b)) = ReadByte(Read(m, s \o u), b)
    BY <2>1, ReadMore
  <2>3. Read(m, s) \in ReadState
    BY ReadIs
  <2>4. Read(Read(m, s), Append(u, b)) = ReadByte(Read(Read(m, s), u), b)
    BY <2>3, ReadMore
  <2> QED
    BY <1>2, <2>1, <2>2, <2>4
<1> HIDE DEF T
<1>3. t \in T
  BY <1>1, <1>2, SeqInduction
<1> QED
  BY <1>3 DEF T

(* p has read data X and commands C more than q, and stands where q stands. *)
Ahead(p, q, X, C) ==
  /\ p.at = q.at /\ p.id = q.id /\ (q.at = "arg" => p.code = q.code)
  /\ p.data = X \o q.data /\ p.cmds = C \o q.cmds

LEMMA ReadByteAhead ==
  ASSUME NEW p \in ReadState, NEW q \in ReadState, NEW b \in Octet,
         NEW X \in Seq(Octet), NEW C \in Seq(ReadCommand), Ahead(p, q, X, C)
  PROVE  Ahead(ReadByte(p, b), ReadByte(q, b), X, C)
<1>1. q.at \in {"gap", "id", "cmd", "arg", "close", "data", "esc", "broken"}
  BY DEF ReadState
<1>2. X \o Append(q.data, b) = Append(X \o q.data, b)
  <2>1. q.data \in Seq(Octet)
    BY DEF ReadState
  <2> QED
    BY <2>1, AppendConcat
<1>3. C \o Append(q.cmds, [cmd |-> q.code, arg |-> b])
        = Append(C \o q.cmds, [cmd |-> q.code, arg |-> b])
  <2>1. q.cmds \in Seq(ReadCommand) /\ [cmd |-> q.code, arg |-> b] \in ReadCommand
    BY DEF ReadState, ReadCommand
  <2> QED
    BY <2>1, AppendConcat
<1>4. CASE q.at = "gap"
  BY <1>4 DEF Ahead, ReadState, ReadByte
<1>5. CASE q.at = "id"
  <2>1. CASE b = 0
    BY <1>5, <2>1 DEF Ahead, ReadState, ReadByte
  <2>2. CASE b # 0 /\ b = q.id
    BY <1>5, <2>2 DEF Ahead, ReadState, ReadByte
  <2>3. CASE b # 0 /\ b # q.id
    BY <1>5, <2>3 DEF Ahead, ReadState, ReadByte
  <2> QED
    BY <2>1, <2>2, <2>3
<1>6. CASE q.at = "cmd"
  BY <1>6 DEF Ahead, ReadState, ReadByte
<1>7. CASE q.at = "arg"
  BY <1>3, <1>7 DEF Ahead, ReadState, ReadByte
<1>8. CASE q.at = "close"
  BY <1>8 DEF Ahead, ReadState, ReadByte
<1>9. CASE q.at = "data"
  <2>0. END_BYTE # ESC_BYTE
    BY DEF END_BYTE, ESC_BYTE
  <2>1. CASE b = END_BYTE
    BY <1>9, <2>0, <2>1 DEF Ahead, ReadState, ReadByte
  <2>2. CASE b = ESC_BYTE
    BY <1>9, <2>0, <2>2 DEF Ahead, ReadState, ReadByte
  <2>3. CASE b # END_BYTE /\ b # ESC_BYTE
    BY <1>2, <1>9, <2>3 DEF Ahead, ReadState, ReadByte
  <2> QED
    BY <2>1, <2>2, <2>3
<1>10. CASE q.at = "esc"
  BY <1>2, <1>10 DEF Ahead, ReadState, ReadByte
<1>11. CASE q.at = "broken"
  BY <1>11 DEF Ahead, ReadState, ReadByte
<1> QED
  BY <1>1, <1>4, <1>5, <1>6, <1>7, <1>8, <1>9, <1>10, <1>11

(* What was read before changes nothing of how the rest is read.            *)
LEMMA ReadAhead ==
  ASSUME NEW p \in ReadState, NEW q \in ReadState, NEW s \in Seq(Octet),
         NEW X \in Seq(Octet), NEW C \in Seq(ReadCommand), Ahead(p, q, X, C)
  PROVE  Ahead(Read(p, s), Read(q, s), X, C)
<1> DEFINE T == {u \in Seq(Octet) : Ahead(Read(p, u), Read(q, u), X, C)}
<1>1. <<>> \in T
  <2>1. <<>> \in Seq(Octet) /\ Read(p, <<>>) = p /\ Read(q, <<>>) = q
    BY ReadNothing, EmptySeq
  <2> QED
    BY <2>1
<1>2. ASSUME NEW u \in Seq(Octet), NEW b \in Octet, u \in T
      PROVE  Append(u, b) \in T
  <2>1. Append(u, b) \in Seq(Octet)
    BY AppendProperties
  <2>2. Read(p, Append(u, b)) = ReadByte(Read(p, u), b) /\ Read(p, u) \in ReadState
    BY ReadMore
  <2>3. Read(q, Append(u, b)) = ReadByte(Read(q, u), b) /\ Read(q, u) \in ReadState
    BY ReadMore
  <2>4. Ahead(ReadByte(Read(p, u), b), ReadByte(Read(q, u), b), X, C)
    BY <1>2, <2>2, <2>3, ReadByteAhead
  <2> QED
    BY <2>1, <2>2, <2>3, <2>4
<1> HIDE DEF T
<1>3. s \in T
  BY <1>1, <1>2, SeqInduction
<1> QED
  BY <1>3 DEF T

(* The reader reads the frames of one connection.                           *)
LEMMA IdStays ==
  ASSUME NEW m \in ReadState, NEW s \in Seq(Octet)
  PROVE  Read(m, s).id = m.id
<1> DEFINE T == {u \in Seq(Octet) : Read(m, u).id = m.id}
<1>1. <<>> \in T
  BY ReadNothing, EmptySeq
<1>2. ASSUME NEW u \in Seq(Octet), NEW b \in Octet, u \in T
      PROVE  Append(u, b) \in T
  <2>1. Append(u, b) \in Seq(Octet)
    BY AppendProperties
  <2>2. Read(m, Append(u, b)) = ReadByte(Read(m, u), b) /\ Read(m, u) \in ReadState
    BY ReadMore
  <2>3. ReadByte(Read(m, u), b).id = Read(m, u).id
    BY <2>2, ByteKeepsId
  <2> QED
    BY <1>2, <2>1, <2>2, <2>3
<1> HIDE DEF T
<1>3. s \in T
  BY <1>1, <1>2, SeqInduction
<1> QED
  BY <1>3 DEF T

(* Nothing mends a broken stream.                                           *)
LEMMA BrokenStays ==
  ASSUME NEW m \in ReadState, m.at = "broken", NEW s \in Seq(Octet)
  PROVE  Read(m, s).at = "broken"
<1> DEFINE T == {u \in Seq(Octet) : Read(m, u).at = "broken"}
<1>1. <<>> \in T
  BY ReadNothing, EmptySeq
<1>2. ASSUME NEW u \in Seq(Octet), NEW b \in Octet, u \in T
      PROVE  Append(u, b) \in T
  <2>1. Append(u, b) \in Seq(Octet)
    BY AppendProperties
  <2>2. Read(m, Append(u, b)) = ReadByte(Read(m, u), b)
    BY ReadMore
  <2>3. ReadByte(Read(m, u), b).at = "broken"
    BY <1>2 DEF ReadByte
  <2> QED
    BY <2>1, <2>2, <2>3
<1> HIDE DEF T
<1>3. s \in T
  BY <1>1, <1>2, SeqInduction
<1> QED
  BY <1>3 DEF T
-----------------------------------------------------------------------------
(* encode                                                                   *)

EncodeState == [bytes : Seq(Octet), rem : Nat, taken : Nat, full : BOOLEAN]

EncodeLoop(m, bytes) == FoldLeft(EncodeByte, m, bytes)

LEMMA EscapedByteIs ==
  ASSUME NEW b \in Octet
  PROVE  EscapedByte(b) \in Seq(Octet) /\ Len(EscapedByte(b)) \in {1, 2}
<1>1. ESC_BYTE \in Octet
  BY DEF ESC_BYTE, Octet
<1> QED
  BY <1>1 DEF EscapedByte

LEMMA EncodeByteIs ==
  ASSUME NEW e \in EncodeState, NEW b \in Octet
  PROVE  EncodeByte(e, b) \in EncodeState
<1> DEFINE code == EscapedByte(b)
<1>1. code \in Seq(Octet) /\ Len(code) \in Nat
  BY EscapedByteIs
<1>2. e.bytes \in Seq(Octet) /\ e.rem \in Nat /\ e.taken \in Nat /\ e.full \in BOOLEAN
  BY DEF EncodeState
<1>3. e.bytes \o code \in Seq(Octet)
  BY <1>1, <1>2, ConcatProperties
<1>4. CASE Takes(e, code)
  <2>1. Len(code) <= e.rem
    BY <1>4 DEF Takes
  <2>2. e.rem - Len(code) \in Nat /\ e.taken + 1 \in Nat
    BY <1>1, <1>2, <2>1
  <2> HIDE DEF code
  <2> QED
    BY <1>3, <1>4, <2>2 DEF EncodeByte, EncodeState, code
<1>5. CASE ~Takes(e, code)
  BY <1>5 DEF EncodeByte, EncodeState
<1> QED
  BY <1>4, <1>5

EncodeTurn == [x \in EncodeState \X Octet |-> EncodeByte(x[1], x[2])]

LEMMA EncodeRuns ==
  ASSUME NEW m \in EncodeState, NEW s \in Seq(Octet)
  PROVE  \E w : LoopRun(w, EncodeState, EncodeTurn, m, s) /\ w[Len(s)] = EncodeLoop(m, s)
<1> DEFINE n == Len(s)
           Eq(h) == h = [t \in SUBSET DOMAIN s |->
                           IF t = {} THEN m ELSE EncodeByte(h[t \ {Max(t)}], s[Max(t)])]
           h == CHOOSE g : Eq(g)
<1>1. n \in Nat /\ DOMAIN s = 1..n /\ \A i \in 1..n : s[i] \in Octet
  BY LenProperties, ElementOfSeq
<1>2. IsLoopTurn(EncodeTurn, EncodeState, Octet)
  BY EncodeByteIs DEF EncodeTurn, IsLoopTurn, LoopTurn
<1>3. \A q \in EncodeState : \A b \in Octet : LoopTurn(EncodeTurn, q, b) = EncodeByte(q, b)
  BY DEF EncodeTurn, LoopTurn
<1>4. PICK g : g \in [SUBSET (1..n) -> EncodeState] /\ Recursion(g, EncodeTurn, m, s)
  BY <1>2, RecursionExists
<1>5. \A t \in SUBSET (1..n) : t # {} => Max(t) \in 1..n /\ t \ {Max(t)} \in SUBSET (1..n)
  BY <1>1, MaxOfPart
<1>6. Eq(g)
  <2>1. ASSUME NEW t \in SUBSET (1..n), t # {}
        PROVE  g[t] = EncodeByte(g[t \ {Max(t)}], s[Max(t)])
    <3>1. g[t \ {Max(t)}] \in EncodeState /\ s[Max(t)] \in Octet
      BY <1>1, <1>4, <1>5, <2>1
    <3>2. g[t] = LoopTurn(EncodeTurn, g[t \ {Max(t)}], s[Max(t)])
      BY <1>4, <2>1 DEF Recursion
    <3> QED
      BY <1>3, <3>1, <3>2
  <2>2. \A t \in SUBSET (1..n) :
          g[t] = IF t = {} THEN m ELSE EncodeByte(g[t \ {Max(t)}], s[Max(t)])
    BY <1>4, <2>1 DEF Recursion
  <2> QED
    BY <1>1, <1>4, <2>2
<1>7. Eq(h)
  BY <1>6
<1>8. EncodeLoop(m, s) = h[1..n]
  BY <1>1 DEF EncodeLoop, FoldLeft, MapThenFoldSet
<1> HIDE DEF h
<1>9. \A t \in SUBSET (1..n) :
        h[t] = IF t = {} THEN m ELSE EncodeByte(h[t \ {Max(t)}], s[Max(t)])
  BY <1>1, <1>7
<1>10. h[{}] = m
  BY <1>9
<1>11. ASSUME NEW t \in SUBSET (1..n), t # {}, h[t \ {Max(t)}] \in EncodeState
       PROVE  h[t] = LoopTurn(EncodeTurn, h[t \ {Max(t)}], s[Max(t)])
  BY <1>1, <1>3, <1>5, <1>9, <1>11
<1>12. Solution(h, EncodeState, EncodeTurn, m, s)
  BY <1>10, <1>11 DEF Solution
<1>13. \E w : LoopRun(w, EncodeState, EncodeTurn, m, s) /\ w[n] = h[1..n]
  <2> HIDE DEF n
  <2>1. Solution(h, EncodeState, EncodeTurn, m, s)
    BY <1>12
  <2>2. \E w : LoopRun(w, EncodeState, EncodeTurn, m, s) /\ w[Len(s)] = h[1..Len(s)]
    BY ONLY m \in EncodeState, s \in Seq(Octet), <1>2, <2>1, RunOf
  <2> QED
    BY <2>2 DEF n
<1> QED
  BY <1>8, <1>13

LEMMA EncodeNothing ==
  ASSUME NEW m \in EncodeState
  PROVE  EncodeLoop(m, <<>>) = m
<1>1. <<>> \in Seq(Octet)
  OBVIOUS
<1>2. PICK w : LoopRun(w, EncodeState, EncodeTurn, m, <<>>) /\ w[Len(<<>>)] = EncodeLoop(m, <<>>)
  BY <1>1, EncodeRuns
<1> QED
  BY <1>2, RunOverNothing

LEMMA EncodeMore ==
  ASSUME NEW m \in EncodeState, NEW s \in Seq(Octet), NEW b \in Octet
  PROVE  /\ EncodeLoop(m, s) \in EncodeState
         /\ EncodeLoop(m, Append(s, b)) = EncodeByte(EncodeLoop(m, s), b)
<1>1. Append(s, b) \in Seq(Octet)
  BY AppendProperties
<1>2. PICK v : LoopRun(v, EncodeState, EncodeTurn, m, s) /\ v[Len(s)] = EncodeLoop(m, s)
  BY EncodeRuns
<1>3. PICK w : /\ LoopRun(w, EncodeState, EncodeTurn, m, Append(s, b))
               /\ w[Len(Append(s, b))] = EncodeLoop(m, Append(s, b))
  BY <1>1, EncodeRuns
<1>4. /\ v[Len(s)] \in EncodeState
      /\ w[Len(Append(s, b))] = LoopTurn(EncodeTurn, v[Len(s)], b)
  <2>1. v[Len(s)] \in EncodeState
    BY <1>2, <1>3, RunsAgree
  <2>2. w[Len(Append(s, b))] = LoopTurn(EncodeTurn, v[Len(s)], b)
    BY <1>2, <1>3, RunsAgree
  <2> QED
    BY <2>1, <2>2
<1> QED
  BY <1>2, <1>3, <1>4 DEF EncodeTurn, LoopTurn

-----------------------------------------------------------------------------
(* decode                                                                   *)

DecodeState ==
  [bytes : Seq(Octet), used : Nat, mode : {"plain", "escaped", "end"}, free : Nat]

DecodeLoop(m, bytes) == FoldLeft(DecodeByte, m, bytes)

LEMMA PutIs ==
  ASSUME NEW d \in DecodeState, NEW b \in Octet
  PROVE  Put(d, b) \in DecodeState
<1>1. d.bytes \in Seq(Octet) /\ d.used + 1 \in Nat
  BY DEF DecodeState
<1>2. Append(d.bytes, b) \in Seq(Octet)
  BY <1>1, AppendProperties
<1> DEFINE c == Append(d.bytes, b)
<1>3. c \in Seq(Octet)
  BY <1>2
<1> HIDE DEF c
<1>4. [d EXCEPT !.bytes = c, !.used = @ + 1, !.mode = "plain"] \in DecodeState
  BY <1>1, <1>3 DEF DecodeState
<1> QED
  BY <1>4 DEF Put, c

LEMMA DecodeByteIs ==
  ASSUME NEW d \in DecodeState, NEW b \in Octet
  PROVE  DecodeByte(d, b) \in DecodeState
<1>1. d.bytes \in Seq(Octet) /\ d.used \in Nat /\ d.free \in Nat /\ Len(d.bytes) \in Nat
      /\ d.mode \in {"plain", "escaped", "end"}
  <2>1. d.bytes \in Seq(Octet) /\ d.used \in Nat /\ d.free \in Nat
        /\ d.mode \in {"plain", "escaped", "end"}
    BY DEF DecodeState
  <2> QED
    BY <2>1, LenProperties
<1>2. Put(d, b) \in DecodeState
  BY PutIs
<1>3. /\ [d EXCEPT !.used = @ + 1, !.mode = "end"] \in DecodeState
      /\ [d EXCEPT !.used = @ + 1, !.mode = "escaped"] \in DecodeState
  <2>1. d.used + 1 \in Nat
    BY <1>1
  <2>2. [d EXCEPT !.used = @ + 1, !.mode = "end"] \in DecodeState
    BY <2>1 DEF DecodeState
  <2>3. [d EXCEPT !.used = @ + 1, !.mode = "escaped"] \in DecodeState
    BY <2>1 DEF DecodeState
  <2> QED
    BY <2>2, <2>3
<1>0. END_BYTE # ESC_BYTE
  BY DEF END_BYTE, ESC_BYTE
<1>4. CASE d.mode = "escaped"
  BY <1>2, <1>4 DEF DecodeByte
<1>5. CASE d.mode = "end" \/ (d.mode = "plain" /\ Len(d.bytes) = d.free)
  BY <1>1, <1>5 DEF DecodeByte
<1>6. CASE d.mode = "plain" /\ Len(d.bytes) # d.free /\ b = END_BYTE
  BY <1>0, <1>1, <1>2, <1>3, <1>6 DEF DecodeByte
<1>7. CASE d.mode = "plain" /\ Len(d.bytes) # d.free /\ b = ESC_BYTE
  BY <1>0, <1>1, <1>2, <1>3, <1>7 DEF DecodeByte
<1>8. CASE d.mode = "plain" /\ Len(d.bytes) # d.free /\ b # END_BYTE /\ b # ESC_BYTE
  BY <1>1, <1>2, <1>8 DEF DecodeByte
<1> QED
  BY <1>1, <1>4, <1>5, <1>6, <1>7, <1>8

DecodeTurn == [x \in DecodeState \X Octet |-> DecodeByte(x[1], x[2])]

LEMMA DecodeRuns ==
  ASSUME NEW m \in DecodeState, NEW s \in Seq(Octet)
  PROVE  \E w : LoopRun(w, DecodeState, DecodeTurn, m, s) /\ w[Len(s)] = DecodeLoop(m, s)
<1> DEFINE n == Len(s)
           Eq(h) == h = [t \in SUBSET DOMAIN s |->
                           IF t = {} THEN m ELSE DecodeByte(h[t \ {Max(t)}], s[Max(t)])]
           h == CHOOSE g : Eq(g)
<1>1. n \in Nat /\ DOMAIN s = 1..n /\ \A i \in 1..n : s[i] \in Octet
  BY LenProperties, ElementOfSeq
<1>2. IsLoopTurn(DecodeTurn, DecodeState, Octet)
  BY DecodeByteIs DEF DecodeTurn, IsLoopTurn, LoopTurn
<1>3. \A q \in DecodeState : \A b \in Octet : LoopTurn(DecodeTurn, q, b) = DecodeByte(q, b)
  BY DEF DecodeTurn, LoopTurn
<1>4. PICK g : g \in [SUBSET (1..n) -> DecodeState] /\ Recursion(g, DecodeTurn, m, s)
  BY <1>2, RecursionExists
<1>5. \A t \in SUBSET (1..n) : t # {} => Max(t) \in 1..n /\ t \ {Max(t)} \in SUBSET (1..n)
  BY <1>1, MaxOfPart
<1>6. Eq(g)
  <2>1. ASSUME NEW t \in SUBSET (1..n), t # {}
        PROVE  g[t] = DecodeByte(g[t \ {Max(t)}], s[Max(t)])
    <3>1. g[t \ {Max(t)}] \in DecodeState /\ s[Max(t)] \in Octet
      BY <1>1, <1>4, <1>5, <2>1
    <3>2. g[t] = LoopTurn(DecodeTurn, g[t \ {Max(t)}], s[Max(t)])
      BY <1>4, <2>1 DEF Recursion
    <3> QED
      BY <1>3, <3>1, <3>2
  <2>2. \A t \in SUBSET (1..n) :
          g[t] = IF t = {} THEN m ELSE DecodeByte(g[t \ {Max(t)}], s[Max(t)])
    BY <1>4, <2>1 DEF Recursion
  <2> QED
    BY <1>1, <1>4, <2>2
<1>7. Eq(h)
  BY <1>6
<1>8. DecodeLoop(m, s) = h[1..n]
  BY <1>1 DEF DecodeLoop, FoldLeft, MapThenFoldSet
<1> HIDE DEF h
<1>9. \A t \in SUBSET (1..n) :
        h[t] = IF t = {} THEN m ELSE DecodeByte(h[t \ {Max(t)}], s[Max(t)])
  BY <1>1, <1>7
<1>10. h[{}] = m
  BY <1>9
<1>11. ASSUME NEW t \in SUBSET (1..n), t # {}, h[t \ {Max(t)}] \in DecodeState
       PROVE  h[t] = LoopTurn(DecodeTurn, h[t \ {Max(t)}], s[Max(t)])
  BY <1>1, <1>3, <1>5, <1>9, <1>11
<1>12. Solution(h, DecodeState, DecodeTurn, m, s)
  BY <1>10, <1>11 DEF Solution
<1>13. \E w : LoopRun(w, DecodeState, DecodeTurn, m, s) /\ w[n] = h[1..n]
  <2> HIDE DEF n
  <2>1. Solution(h, DecodeState, DecodeTurn, m, s)
    BY <1>12
  <2>2. \E w : LoopRun(w, DecodeState, DecodeTurn, m, s) /\ w[Len(s)] = h[1..Len(s)]
    BY ONLY m \in DecodeState, s \in Seq(Octet), <1>2, <2>1, RunOf
  <2> QED
    BY <2>2 DEF n
<1> QED
  BY <1>8, <1>13

LEMMA DecodeNothing ==
  ASSUME NEW m \in DecodeState
  PROVE  DecodeLoop(m, <<>>) = m
<1>1. <<>> \in Seq(Octet)
  OBVIOUS
<1>2. PICK w : LoopRun(w, DecodeState, DecodeTurn, m, <<>>) /\ w[Len(<<>>)] = DecodeLoop(m, <<>>)
  BY <1>1, DecodeRuns
<1> QED
  BY <1>2, RunOverNothing

LEMMA DecodeMore ==
  ASSUME NEW m \in DecodeState, NEW s \in Seq(Octet), NEW b \in Octet
  PROVE  /\ DecodeLoop(m, s) \in DecodeState
         /\ DecodeLoop(m, Append(s, b)) = DecodeByte(DecodeLoop(m, s), b)
<1>1. Append(s, b) \in Seq(Octet)
  BY AppendProperties
<1>2. PICK v : LoopRun(v, DecodeState, DecodeTurn, m, s) /\ v[Len(s)] = DecodeLoop(m, s)
  BY DecodeRuns
<1>3. PICK w : /\ LoopRun(w, DecodeState, DecodeTurn, m, Append(s, b))
               /\ w[Len(Append(s, b))] = DecodeLoop(m, Append(s, b))
  BY <1>1, DecodeRuns
<1>4. /\ v[Len(s)] \in DecodeState
      /\ w[Len(Append(s, b))] = LoopTurn(DecodeTurn, v[Len(s)], b)
  <2>1. v[Len(s)] \in DecodeState
    BY <1>2, <1>3, RunsAgree
  <2>2. w[Len(Append(s, b))] = LoopTurn(DecodeTurn, v[Len(s)], b)
    BY <1>2, <1>3, RunsAgree
  <2> QED
    BY <2>1, <2>2
<1> QED
  BY <1>2, <1>3, <1>4 DEF DecodeTurn, LoopTurn

-----------------------------------------------------------------------------
(* What encode writes and what decode takes, to the reader                  *)

(* The first bytes stay the first bytes.                                    *)
LEMMA PrefixOfAppend ==
  ASSUME NEW A, NEW s \in Seq(A), NEW b \in A, NEW n \in 0..Len(s)
  PROVE  SubSeq(Append(s, b), 1, n) = SubSeq(s, 1, n)
<1> DEFINE r == Append(s, b)
<1>1. r \in Seq(A) /\ Len(r) = Len(s) + 1 /\ \A i \in 1..Len(s) : r[i] = s[i]
  BY AppendProperties
<1>2. n \in Nat /\ Len(s) \in Nat /\ n <= Len(s)
  BY LenProperties
<1> HIDE DEF r
<1>3. n \in 0..Len(r)
  BY <1>1, <1>2
<1>4. /\ SubSeq(s, 1, n) \in Seq(A) /\ Len(SubSeq(s, 1, n)) = n
      /\ \A i \in 1..n : SubSeq(s, 1, n)[i] = s[i]
  BY SeqFirst
<1>5. /\ SubSeq(r, 1, n) \in Seq(A) /\ Len(SubSeq(r, 1, n)) = n
      /\ \A i \in 1..n : SubSeq(r, 1, n)[i] = r[i]
  BY <1>1, <1>3, SeqFirst
<1> DEFINE p == SubSeq(s, 1, n)
           q == SubSeq(r, 1, n)
<1>6. p \in Seq(A) /\ q \in Seq(A) /\ Len(p) = Len(q)
  BY <1>4, <1>5
<1>7. ASSUME NEW i \in 1..Len(q)
      PROVE  q[i] = p[i]
  <2>1. i \in 1..n /\ i \in 1..Len(s)
    BY <1>2, <1>5
  <2> QED
    BY <1>1, <1>4, <1>5, <2>1
<1> HIDE DEF p, q
<1>8. q = p
  BY <1>6, <1>7, SeqEqual
<1> QED
  BY <1>8 DEF p, q, r

(* The reader in state at, with the data of frames of connection i so far.  *)
Data(i, at, bytes) ==
  [at |-> at, id |-> i, code |-> 0, data |-> bytes, cmds |-> <<>>]

Places == {"gap", "id", "cmd", "arg", "close", "data", "esc", "broken"}

LEMMA DataIs ==
  ASSUME NEW i \in Octet, NEW at \in Places, NEW s \in Seq(Octet)
  PROVE  Data(i, at, s) \in ReadState
<1>1. 0 \in Octet
  BY DEF Octet
<1>2. <<>> \in Seq(ReadCommand)
  OBVIOUS
<1> QED
  BY <1>1, <1>2 DEF Data, Places, ReadState

LEMMA ReadTwo ==
  ASSUME NEW m \in ReadState, NEW b \in Octet, NEW c \in Octet
  PROVE  Read(m, <<b, c>>) = ReadByte(ReadByte(m, b), c)
<1>1. <<b>> \in Seq(Octet) /\ Append(<<b>>, c) = <<b, c>>
  <2>1. <<b>> \in Seq(Octet)
    BY AppendOne
  <2> DEFINE p == <<b>>
             q == Append(p, c)
             r == <<b, c>>
  <2>2. Len(p) = 1 /\ p[1] = b /\ r \in Seq(Octet) /\ Len(r) = 2 /\ r[1] = b /\ r[2] = c
    OBVIOUS
  <2> HIDE DEF p, r
  <2>3. q \in Seq(Octet) /\ Len(q) = 2 /\ q[1] = b /\ q[2] = c
    <3>1. p \in Seq(Octet)
      BY <2>1 DEF p
    <3>2. /\ q \in Seq(Octet) /\ Len(q) = Len(p) + 1 /\ q[Len(p) + 1] = c
          /\ \A i \in 1..Len(p) : q[i] = p[i]
      BY <3>1, AppendProperties
    <3> HIDE DEF q
    <3>3. 1 \in 1..Len(p) /\ Len(p) + 1 = 2
      BY <2>2
    <3> QED
      BY <2>2, <3>2, <3>3
  <2> HIDE DEF q
  <2>4. \A i \in 1..2 : q[i] = r[i]
    BY <2>2, <2>3
  <2>5. q = r
    BY <2>2, <2>3, <2>4, SeqEqual
  <2> QED
    BY <2>1, <2>5 DEF p, q, r
<1>2. Read(m, Append(<<b>>, c)) = ReadByte(Read(m, <<b>>), c)
  BY <1>1, ReadMore
<1>3. Read(m, <<b>>) = ReadByte(m, b)
  BY ReadByteAlone
<1> QED
  BY <1>1, <1>2, <1>3

(* A byte is read back as itself, escaped or not.                           *)
LEMMA EscapedByteReads ==
  ASSUME NEW i \in Octet, NEW s \in Seq(Octet), NEW b \in Octet
  PROVE  Read(Data(i, "data", s), EscapedByte(b)) = Data(i, "data", Append(s, b))
<1> DEFINE m == Data(i, "data", s)
           u == Append(s, b)
<1>1. m \in ReadState /\ ESC_BYTE \in Octet /\ END_BYTE # ESC_BYTE
  <2>1. m \in ReadState
    BY DataIs DEF Places
  <2>2. ESC_BYTE \in Octet /\ END_BYTE # ESC_BYTE
    BY DEF ESC_BYTE, END_BYTE, Octet
  <2> QED
    BY <2>1, <2>2
<1>2. u = Append(s, b)
  OBVIOUS
<1>3. CASE b = END_BYTE \/ b = ESC_BYTE
  <2>1. EscapedByte(b) = <<ESC_BYTE, b>>
    BY <1>3 DEF EscapedByte, Special
  <2>2. Read(m, <<ESC_BYTE, b>>) = ReadByte(ReadByte(m, ESC_BYTE), b)
    BY <1>1, ReadTwo
  <2>3. ReadByte(m, ESC_BYTE) = Data(i, "esc", s)
    BY <1>1 DEF ReadByte, Data
  <2>4. ReadByte(Data(i, "esc", s), b) = Data(i, "data", u)
    BY <1>2 DEF ReadByte, Data
  <2> QED
    BY <2>1, <2>2, <2>3, <2>4
<1>4. CASE b # END_BYTE /\ b # ESC_BYTE
  <2>1. EscapedByte(b) = <<b>>
    BY <1>4 DEF EscapedByte, Special
  <2>2. Read(m, <<b>>) = ReadByte(m, b)
    BY <1>1, ReadByteAlone
  <2>3. ReadByte(m, b) = Data(i, "data", u)
    BY <1>4 DEF ReadByte, Data
  <2> QED
    BY <2>1, <2>2, <2>3
<1> QED
  BY <1>3, <1>4

(* What encode has done after the bytes s: e is the state of its loop.      *)
EncodeHas(e, s, room, i) ==
  /\ e \in EncodeState
  /\ Len(e.bytes) + e.rem = room - 3
  /\ e.taken \in 0..Len(s) /\ (~e.full => e.taken = Len(s))
  /\ Read(Data(i, "data", <<>>), e.bytes) = Data(i, "data", SubSeq(s, 1, e.taken))

LEMMA EncodeByteKeeps ==
  ASSUME NEW e, NEW s \in Seq(Octet), NEW b \in Octet, NEW room \in Nat, NEW i \in Octet,
         EncodeHas(e, s, room, i)
  PROVE  EncodeHas(EncodeByte(e, b), Append(s, b), room, i)
<1> DEFINE code == EscapedByte(b)
           r == Append(s, b)
           f == EncodeByte(e, b)
           m == Data(i, "data", <<>>)
<1>1. /\ e \in EncodeState /\ Len(e.bytes) + e.rem = room - 3
      /\ e.taken \in 0..Len(s) /\ (~e.full => e.taken = Len(s))
      /\ Read(m, e.bytes) = Data(i, "data", SubSeq(s, 1, e.taken))
  BY DEF EncodeHas
<1>2. e.bytes \in Seq(Octet) /\ e.rem \in Nat /\ e.taken \in Nat
  BY <1>1 DEF EncodeState
<1>3. code \in Seq(Octet) /\ Len(code) \in Nat
  BY EscapedByteIs
<1>4. r \in Seq(Octet) /\ Len(r) = Len(s) + 1 /\ Len(s) \in Nat /\ Len(e.bytes) \in Nat
  BY <1>2, AppendProperties, LenProperties
<1>5. f \in EncodeState
  BY <1>1, EncodeByteIs
<1>6. m \in ReadState
  BY DataIs, EmptySeq DEF Places
<1>7. SubSeq(r, 1, e.taken) = SubSeq(s, 1, e.taken)
  BY <1>1, PrefixOfAppend
<1> HIDE DEF m, code, r
<1>8. CASE Takes(e, code)
  <2>1. ~e.full /\ e.taken = Len(s)
    BY <1>1, <1>8 DEF Takes
  <2>2. /\ f.bytes = e.bytes \o code /\ f.rem = e.rem - Len(code)
        /\ f.taken = e.taken + 1 /\ f.full = e.full
    BY <1>1, <1>8 DEF EncodeByte, EncodeState, code
  <2>3. Len(f.bytes) = Len(e.bytes) + Len(code)
    BY <1>2, <1>3, <2>2, ConcatProperties
  <2>4. Read(m, f.bytes) = Read(Read(m, e.bytes), code)
    BY <1>2, <1>3, <1>6, <2>2, ReadConcat
  <2>5. SubSeq(s, 1, e.taken) = s /\ SubSeq(r, 1, f.taken) = r
    BY <1>4, <2>1, <2>2, SubSeqFull
  <2>6. Read(Data(i, "data", s), code) = Data(i, "data", r)
    BY EscapedByteReads DEF code, r
  <2>7. Read(m, f.bytes) = Data(i, "data", SubSeq(r, 1, f.taken))
    BY <1>1, <2>4, <2>5, <2>6
  <2>8. Len(f.bytes) + f.rem = room - 3
    <3> HIDE DEF f
    <3>1. f.rem = e.rem - Len(code)
      BY <2>2
    <3> QED
      BY <1>1, <1>2, <1>3, <1>4, <2>3, <3>1
  <2>9. f.taken \in 0..Len(r) /\ f.taken = Len(r)
    BY <1>4, <2>1, <2>2
  <2> HIDE DEF f
  <2>10. EncodeHas(f, r, room, i)
    BY <1>5, <2>7, <2>8, <2>9 DEF EncodeHas, m
  <2> QED
    BY <2>10 DEF f, r
<1>9. CASE ~Takes(e, code)
  <2>1. f = [e EXCEPT !.full = TRUE]
    BY <1>9 DEF EncodeByte, code
  <2>2. f.bytes = e.bytes /\ f.rem = e.rem /\ f.taken = e.taken /\ f.full = TRUE
    BY <1>1, <2>1 DEF EncodeState
  <2>3. f.taken \in 0..Len(r)
    BY <1>1, <1>2, <1>4, <2>2
  <2>4. Read(m, f.bytes) = Data(i, "data", SubSeq(r, 1, f.taken))
    BY <1>1, <1>7, <2>2
  <2> HIDE DEF f
  <2>5. EncodeHas(f, r, room, i)
    BY <1>1, <1>5, <2>2, <2>3, <2>4 DEF EncodeHas, m
  <2> QED
    BY <2>5 DEF f, r
<1> QED
  BY <1>8, <1>9

LEMMA EncodedIs ==
  ASSUME NEW s \in Seq(Octet), NEW room \in Nat, room >= 4, NEW i \in Octet
  PROVE  EncodeHas(Encoded(s, room), s, room, i)
<1> DEFINE a == [bytes |-> <<>>, rem |-> room - 3, taken |-> 0, full |-> FALSE]
           T == {u \in Seq(Octet) : EncodeHas(EncodeLoop(a, u), u, room, i)}
<1>1. a \in EncodeState
  BY DEF EncodeState
<1>2. <<>> \in T
  <2>1. EncodeLoop(a, <<>>) = a /\ <<>> \in Seq(Octet) /\ Len(<<>>) = 0
    BY <1>1, EncodeNothing, EmptySeq
  <2>2. Data(i, "data", <<>>) \in ReadState
    BY <2>1, DataIs DEF Places
  <2>3. Read(Data(i, "data", <<>>), <<>>) = Data(i, "data", <<>>)
    BY <2>2, ReadNothing
  <2>4. SubSeq(<<>>, 1, 0) = <<>>
    BY SubSeqEmpty
  <2>5. EncodeHas(a, <<>>, room, i)
    <3>1. a.bytes = <<>> /\ a.rem = room - 3 /\ a.taken = 0 /\ a.full = FALSE
      OBVIOUS
    <3>2. Len(a.bytes) + a.rem = room - 3 /\ a.taken \in 0..Len(<<>>) /\ a.taken = Len(<<>>)
      BY <2>1, <3>1
    <3>3. Read(Data(i, "data", <<>>), a.bytes) = Data(i, "data", SubSeq(<<>>, 1, a.taken))
      BY <2>3, <2>4, <3>1
    <3> HIDE DEF a
    <3> QED
      BY <1>1, <3>2, <3>3 DEF EncodeHas
  <2> HIDE DEF a
  <2> QED
    BY <2>1, <2>5
<1> HIDE DEF a
<1>3. ASSUME NEW u \in Seq(Octet), NEW b \in Octet, u \in T
      PROVE  Append(u, b) \in T
  <2>1. Append(u, b) \in Seq(Octet)
    BY AppendProperties
  <2>2. EncodeLoop(a, Append(u, b)) = EncodeByte(EncodeLoop(a, u), b)
    BY <1>1, EncodeMore
  <2>3. EncodeHas(EncodeByte(EncodeLoop(a, u), b), Append(u, b), room, i)
    BY <1>3, EncodeByteKeeps
  <2> QED
    BY <2>1, <2>2, <2>3
<1> HIDE DEF T
<1>4. s \in T
  BY <1>2, <1>3, SeqInduction
<1>5. EncodeHas(EncodeLoop(a, s), s, room, i)
  BY <1>4 DEF T
<1> QED
  BY <1>5 DEF Encoded, EncodeLoop, a

(* What decode has done after the bytes s: d is the state of its loop.      *)
Place(mode) == CASE mode = "plain" -> "data" [] mode = "escaped" -> "esc" [] mode = "end" -> "gap"

DecodeHas(d, s, free, i) ==
  /\ d \in DecodeState /\ d.free = free
  /\ d.used \in 0..Len(s) /\ Len(d.bytes) <= free
  /\ d.mode = "escaped" => Len(d.bytes) < free /\ d.used = Len(s)
  /\ d.mode = "plain" /\ Len(d.bytes) < free => d.used = Len(s)
  /\ Read(Data(i, "data", <<>>), SubSeq(s, 1, d.used)) = Data(i, Place(d.mode), d.bytes)

LEMMA PutHas ==
  ASSUME NEW d, NEW s \in Seq(Octet), NEW b \in Octet, NEW free \in Nat, NEW i \in Octet,
         DecodeHas(d, s, free, i), d.used = Len(s), Len(d.bytes) < free,
         ReadByte(Data(i, Place(d.mode), d.bytes), b) = Data(i, "data", Append(d.bytes, b))
  PROVE  DecodeHas(Put(d, b), Append(s, b), free, i)
<1> DEFINE r == Append(s, b)
           f == Put(d, b)
           m == Data(i, "data", <<>>)
           c == Append(d.bytes, b)
<1>1. /\ d \in DecodeState /\ d.free = free
      /\ Read(m, SubSeq(s, 1, d.used)) = Data(i, Place(d.mode), d.bytes)
  BY DEF DecodeHas
<1>2. d.bytes \in Seq(Octet) /\ Len(d.bytes) \in Nat
  <2>1. d.bytes \in Seq(Octet)
    BY <1>1 DEF DecodeState
  <2> QED
    BY <2>1, LenProperties
<1>3. f \in DecodeState
  BY <1>1, PutIs
<1>4. f.bytes = c /\ f.used = d.used + 1 /\ f.mode = "plain" /\ f.free = free
  BY <1>1 DEF Put, DecodeState
<1>5. c \in Seq(Octet) /\ Len(c) = Len(d.bytes) + 1
  BY <1>2, AppendProperties
<1>6. r \in Seq(Octet) /\ Len(r) = Len(s) + 1 /\ Len(s) \in Nat
  BY AppendProperties, LenProperties
<1>7. m \in ReadState
  BY DataIs, EmptySeq DEF Places
<1>8. SubSeq(s, 1, d.used) = s /\ SubSeq(r, 1, f.used) = r
  BY <1>4, <1>6, SubSeqFull
<1>9. Read(m, r) = ReadByte(Read(m, s), b)
  BY <1>7, ReadMore
<1> HIDE DEF m, c, r
<1>10. Read(m, SubSeq(r, 1, f.used)) = Data(i, "data", c)
  BY <1>1, <1>8, <1>9 DEF c
<1> HIDE DEF f
<1>11. f.used \in 0..Len(r) /\ f.used = Len(r) /\ Len(f.bytes) <= free
  BY <1>2, <1>4, <1>5, <1>6
<1>12. Place(f.mode) = "data"
  BY <1>4 DEF Place
<1>13. DecodeHas(f, r, free, i)
  BY <1>3, <1>4, <1>10, <1>11, <1>12 DEF DecodeHas, m
<1> QED
  BY <1>13 DEF f, r

LEMMA StopHas ==
  ASSUME NEW d, NEW s \in Seq(Octet), NEW b \in Octet, NEW free \in Nat, NEW i \in Octet,
         DecodeHas(d, s, free, i), d.mode # "escaped",
         d.mode = "plain" => Len(d.bytes) = free
  PROVE  DecodeHas(d, Append(s, b), free, i)
<1> DEFINE r == Append(s, b)
<1>1. /\ d \in DecodeState /\ d.free = free
      /\ d.used \in 0..Len(s) /\ Len(d.bytes) <= free
      /\ Read(Data(i, "data", <<>>), SubSeq(s, 1, d.used)) = Data(i, Place(d.mode), d.bytes)
  BY DEF DecodeHas
<1>2. Len(r) = Len(s) + 1 /\ Len(s) \in Nat
  BY AppendProperties, LenProperties
<1>3. SubSeq(r, 1, d.used) = SubSeq(s, 1, d.used)
  BY <1>1, PrefixOfAppend
<1> HIDE DEF r
<1>4. d.used \in 0..Len(r)
  BY <1>1, <1>2
<1>5. ~(d.mode = "plain" /\ Len(d.bytes) < free)
  BY <1>1
<1>6. DecodeHas(d, r, free, i)
  BY <1>1, <1>3, <1>4, <1>5 DEF DecodeHas
<1> QED
  BY <1>6 DEF r

(* An END or an ESC is taken and changes the mode.                          *)
LEMMA MarkHas ==
  ASSUME NEW d, NEW s \in Seq(Octet), NEW b \in Octet, NEW free \in Nat, NEW i \in Octet,
         NEW mode \in {"escaped", "end"},
         DecodeHas(d, s, free, i), d.mode = "plain", Len(d.bytes) < free,
         b = IF mode = "end" THEN END_BYTE ELSE ESC_BYTE
  PROVE  DecodeHas([d EXCEPT !.used = @ + 1, !.mode = mode], Append(s, b), free, i)
<1> DEFINE r == Append(s, b)
           f == [d EXCEPT !.used = @ + 1, !.mode = mode]
           m == Data(i, "data", <<>>)
<1>1. /\ d \in DecodeState /\ d.free = free /\ d.used = Len(s)
      /\ Read(m, SubSeq(s, 1, d.used)) = Data(i, Place(d.mode), d.bytes)
  BY DEF DecodeHas
<1>2. d.bytes \in Seq(Octet) /\ d.used + 1 \in Nat
  BY <1>1 DEF DecodeState
<1>3. f \in DecodeState
  BY <1>1, <1>2 DEF DecodeState
<1>4. f.bytes = d.bytes /\ f.used = d.used + 1 /\ f.mode = mode /\ f.free = free
  BY <1>1 DEF DecodeState
<1>6. r \in Seq(Octet) /\ Len(r) = Len(s) + 1 /\ Len(s) \in Nat
  BY AppendProperties, LenProperties
<1>7. m \in ReadState
  BY DataIs, EmptySeq DEF Places
<1>8. SubSeq(s, 1, d.used) = s /\ SubSeq(r, 1, f.used) = r
  BY <1>1, <1>4, <1>6, SubSeqFull
<1>9. Read(m, r) = ReadByte(Read(m, s), b)
  BY <1>7, ReadMore
<1>5. Place(d.mode) = "data" /\ Place(f.mode) = (IF mode = "end" THEN "gap" ELSE "esc")
  BY <1>4 DEF Place
<1>10. ReadByte(Data(i, "data", d.bytes), b)
         = Data(i, IF mode = "end" THEN "gap" ELSE "esc", d.bytes)
  <2>0. END_BYTE # ESC_BYTE
    BY DEF END_BYTE, ESC_BYTE
  <2>1. CASE mode = "end"
    BY <2>0, <2>1 DEF ReadByte, Data
  <2>2. CASE mode = "escaped"
    BY <2>0, <2>2 DEF ReadByte, Data
  <2> QED
    BY <2>1, <2>2
<1> HIDE DEF m, r, f
<1>11. Read(m, SubSeq(r, 1, f.used)) = Data(i, Place(f.mode), f.bytes)
  BY <1>1, <1>4, <1>5, <1>8, <1>9, <1>10
<1>12. f.used \in 0..Len(r) /\ f.used = Len(r) /\ Len(f.bytes) < free /\ Len(f.bytes) <= free
  <2>1. Len(f.bytes) \in Nat
    BY <1>2, <1>4, LenProperties
  <2> QED
    BY <1>1, <1>4, <1>6, <2>1
<1>13. DecodeHas(f, r, free, i)
  BY <1>3, <1>4, <1>11, <1>12 DEF DecodeHas, m
<1> QED
  BY <1>13 DEF f, r

LEMMA DecodeByteKeeps ==
  ASSUME NEW d, NEW s \in Seq(Octet), NEW b \in Octet, NEW free \in Nat, NEW i \in Octet,
         DecodeHas(d, s, free, i)
  PROVE  DecodeHas(DecodeByte(d, b), Append(s, b), free, i)
<1>1. /\ d \in DecodeState /\ d.free = free /\ Len(d.bytes) <= free
      /\ d.mode = "escaped" => Len(d.bytes) < free /\ d.used = Len(s)
      /\ d.mode = "plain" /\ Len(d.bytes) < free => d.used = Len(s)
  BY DEF DecodeHas
<1>2. d.mode \in {"plain", "escaped", "end"} /\ Len(d.bytes) \in Nat
  <2>1. d.mode \in {"plain", "escaped", "end"} /\ d.bytes \in Seq(Octet)
    BY <1>1 DEF DecodeState
  <2> QED
    BY <2>1, LenProperties
<1>3. END_BYTE # ESC_BYTE
  BY DEF END_BYTE, ESC_BYTE
<1>4. CASE d.mode = "escaped"
  <2>1. DecodeByte(d, b) = Put(d, b)
    BY <1>4 DEF DecodeByte
  <2>2. Place(d.mode) = "esc"
    BY <1>4 DEF Place
  <2>3. ReadByte(Data(i, "esc", d.bytes), b) = Data(i, "data", Append(d.bytes, b))
    BY DEF ReadByte, Data
  <2>4. DecodeHas(Put(d, b), Append(s, b), free, i)
    BY <1>1, <1>4, <2>2, <2>3, PutHas
  <2> QED
    BY <2>1, <2>4
<1>5. CASE d.mode = "end" \/ (d.mode = "plain" /\ Len(d.bytes) = free)
  <2>1. DecodeByte(d, b) = d
    BY <1>1, <1>2, <1>5 DEF DecodeByte
  <2>2. DecodeHas(d, Append(s, b), free, i)
    BY <1>5, StopHas
  <2> QED
    BY <2>1, <2>2
<1>6. CASE d.mode = "plain" /\ Len(d.bytes) < free /\ b = END_BYTE
  <2>1. DecodeByte(d, b) = [d EXCEPT !.used = @ + 1, !.mode = "end"]
    BY <1>1, <1>2, <1>3, <1>6 DEF DecodeByte
  <2>2. DecodeHas([d EXCEPT !.used = @ + 1, !.mode = "end"], Append(s, b), free, i)
    BY <1>6, MarkHas
  <2> QED
    BY <2>1, <2>2
<1>7. CASE d.mode = "plain" /\ Len(d.bytes) < free /\ b = ESC_BYTE
  <2>1. DecodeByte(d, b) = [d EXCEPT !.used = @ + 1, !.mode = "escaped"]
    BY <1>1, <1>2, <1>3, <1>7 DEF DecodeByte
  <2>2. DecodeHas([d EXCEPT !.used = @ + 1, !.mode = "escaped"], Append(s, b), free, i)
    BY <1>7, MarkHas
  <2> QED
    BY <2>1, <2>2
<1>8. CASE d.mode = "plain" /\ Len(d.bytes) < free /\ b # END_BYTE /\ b # ESC_BYTE
  <2>1. DecodeByte(d, b) = Put(d, b)
    BY <1>1, <1>2, <1>8 DEF DecodeByte
  <2>2. Place(d.mode) = "data"
    BY <1>8 DEF Place
  <2>3. ReadByte(Data(i, "data", d.bytes), b) = Data(i, "data", Append(d.bytes, b))
    BY <1>8 DEF ReadByte, Data
  <2>4. DecodeHas(Put(d, b), Append(s, b), free, i)
    BY <1>1, <1>8, <2>2, <2>3, PutHas
  <2> QED
    BY <2>1, <2>4
<1>9. Len(d.bytes) = free \/ Len(d.bytes) < free
  BY <1>1, <1>2
<1> QED
  BY <1>2, <1>4, <1>5, <1>6, <1>7, <1>8, <1>9

LEMMA WalkIs ==
  ASSUME NEW s \in Seq(Octet), NEW free \in Nat, NEW i \in Octet
  PROVE  DecodeHas(Walk(s, free), s, free, i)
<1> DEFINE a == [bytes |-> <<>>, used |-> 0, mode |-> "plain", free |-> free]
           T == {u \in Seq(Octet) : DecodeHas(DecodeLoop(a, u), u, free, i)}
<1>1. a \in DecodeState
  BY DEF DecodeState
<1>2. <<>> \in T
  <2>1. DecodeLoop(a, <<>>) = a /\ <<>> \in Seq(Octet) /\ Len(<<>>) = 0
    BY <1>1, DecodeNothing, EmptySeq
  <2>2. Data(i, "data", <<>>) \in ReadState
    BY <2>1, DataIs DEF Places
  <2>3. Read(Data(i, "data", <<>>), <<>>) = Data(i, "data", <<>>)
    BY <2>2, ReadNothing
  <2>4. SubSeq(<<>>, 1, 0) = <<>>
    BY SubSeqEmpty
  <2>5. DecodeHas(a, <<>>, free, i)
    <3>1. a.bytes = <<>> /\ a.used = 0 /\ a.mode = "plain" /\ a.free = free
      OBVIOUS
    <3>2. a.used \in 0..Len(<<>>) /\ a.used = Len(<<>>) /\ Len(a.bytes) <= free
      BY <2>1, <3>1
    <3>4. Place(a.mode) = "data"
      BY <3>1 DEF Place
    <3>3. Read(Data(i, "data", <<>>), SubSeq(<<>>, 1, a.used)) = Data(i, Place(a.mode), a.bytes)
      BY <2>3, <2>4, <3>1, <3>4
    <3> HIDE DEF a
    <3> QED
      BY <1>1, <3>1, <3>2, <3>3 DEF DecodeHas
  <2> HIDE DEF a
  <2> QED
    BY <2>1, <2>5
<1> HIDE DEF a
<1>3. ASSUME NEW u \in Seq(Octet), NEW b \in Octet, u \in T
      PROVE  Append(u, b) \in T
  <2>1. Append(u, b) \in Seq(Octet)
    BY AppendProperties
  <2>2. DecodeLoop(a, Append(u, b)) = DecodeByte(DecodeLoop(a, u), b)
    BY <1>1, DecodeMore
  <2>3. DecodeHas(DecodeByte(DecodeLoop(a, u), b), Append(u, b), free, i)
    BY <1>3, DecodeByteKeeps
  <2> QED
    BY <2>1, <2>2, <2>3
<1> HIDE DEF T
<1>4. s \in T
  BY <1>2, <1>3, SeqInduction
<1>5. DecodeHas(DecodeLoop(a, s), s, free, i)
  BY <1>4 DEF T
<1> QED
  BY <1>5 DEF Walk, DecodeLoop, a

-----------------------------------------------------------------------------
(* Whole frames                                                             *)

LEMMA BytesAre == END_BYTE \in Octet /\ ESC_BYTE \in Octet /\ 0 \in Octet /\ END_BYTE # ESC_BYTE
  BY DEF END_BYTE, ESC_BYTE, Octet

(* A frame of data, read between frames, is its data and nothing else.      *)
FrameRead(m, p, s) ==
  p.at = "gap" /\ p.id = m.id /\ p.data = m.data \o s /\ p.cmds = m.cmds

LEMMA FrameReads ==
  ASSUME NEW m \in ReadState, m.at = "gap", m.id # 0,
         NEW bytes \in Seq(Octet), NEW s \in Seq(Octet),
         Read(Data(m.id, "data", <<>>), bytes) = Data(m.id, "data", s),
         NEW p, p = Read(Read(Read(m, <<END_BYTE, m.id>>), bytes), <<END_BYTE>>)
  PROVE  p \in ReadState /\ FrameRead(m, p, s)
<1> DEFINE i == m.id
           q == Data(i, "data", <<>>)
           n == Read(m, <<END_BYTE, i>>)
           o == Read(n, bytes)
<1>1. /\ i \in Octet /\ m.data \in Seq(Octet) /\ m.cmds \in Seq(ReadCommand)
      /\ m.code \in Octet
  BY DEF ReadState
<1>2. n = [m EXCEPT !.at = "data"]
  <2>1. n = ReadByte(ReadByte(m, END_BYTE), i)
    BY <1>1, BytesAre, ReadTwo
  <2>2. ReadByte(m, END_BYTE) = [m EXCEPT !.at = "id"]
    BY DEF ReadByte
  <2>3. ReadByte([m EXCEPT !.at = "id"], i) = [m EXCEPT !.at = "data"]
    BY DEF ReadByte, ReadState
  <2> QED
    BY <2>1, <2>2, <2>3
<1>3. n \in ReadState /\ q \in ReadState
  <2>1. n \in ReadState
    BY <1>1, <1>2 DEF ReadState
  <2>2. q \in ReadState
    BY <1>1, EmptySeq, DataIs DEF Places
  <2> QED
    BY <2>1, <2>2
<1>4. Ahead(n, q, m.data, m.cmds)
  <2>1. n.at = "data" /\ n.id = i /\ n.data = m.data /\ n.cmds = m.cmds
    BY <1>2 DEF ReadState
  <2>2. q.at = "data" /\ q.id = i /\ q.data = <<>> /\ q.cmds = <<>>
    BY DEF Data
  <2>3. m.data \o <<>> = m.data /\ m.cmds \o <<>> = m.cmds
    BY <1>1, ConcatEmptySeq
  <2> HIDE DEF n, q, i
  <2> QED
    BY <2>1, <2>2, <2>3 DEF Ahead
<1> HIDE DEF n
<1>5. Ahead(o, Read(q, bytes), m.data, m.cmds) /\ o \in ReadState
  <2>1. Ahead(o, Read(q, bytes), m.data, m.cmds)
    BY <1>1, <1>3, <1>4, ReadAhead
  <2>2. o \in ReadState
    BY <1>3, ReadIs
  <2> QED
    BY <2>1, <2>2
<1>6. o.at = "data" /\ o.id = i /\ o.data = m.data \o s /\ o.cmds = m.cmds
  <2>1. Ahead(o, Data(i, "data", s), m.data, m.cmds)
    BY <1>5
  <2>2. m.cmds \o <<>> = m.cmds
    BY <1>1, ConcatEmptySeq
  <2> HIDE DEF o, i
  <2> QED
    BY <2>1, <2>2 DEF Ahead, Data
<1>7. p = ReadByte(o, END_BYTE)
  <2>1. p = Read(o, <<END_BYTE>>)
    BY DEF n
  <2> HIDE DEF o
  <2> QED
    BY <1>5, <2>1, BytesAre, ReadByteAlone
<1> HIDE DEF o
<1>8. p = [o EXCEPT !.at = "gap"]
  BY <1>6, <1>7, BytesAre DEF ReadByte
<1>9. p \in ReadState
  BY <1>5, <1>7, BytesAre, ReadByteIs
<1> QED
  BY <1>5, <1>6, <1>8, <1>9 DEF ReadState, FrameRead

(* The front of a sequence, byte by byte.                                   *)
LEMMA FrontTwo ==
  ASSUME NEW A, NEW s \in Seq(A), Len(s) >= 2
  PROVE  SubSeq(s, 1, 2) = <<s[1], s[2]>>
<1>1. 2 \in 0..Len(s) /\ 1 \in 1..Len(s) /\ 2 \in 1..Len(s)
  BY LenProperties
<1>2. s[1] \in A /\ s[2] \in A
  BY <1>1, ElementOfSeq
<1> DEFINE p == SubSeq(s, 1, 2)
           q == <<s[1], s[2]>>
<1>3. p \in Seq(A) /\ Len(p) = 2 /\ \A i \in 1..2 : p[i] = s[i]
  BY <1>1, SeqFirst
<1>4. q \in Seq(A) /\ Len(q) = 2 /\ q[1] = s[1] /\ q[2] = s[2]
  BY <1>2
<1> HIDE DEF p, q
<1>5. \A i \in 1..Len(p) : p[i] = q[i]
  BY <1>3, <1>4
<1>6. p = q
  BY <1>3, <1>4, <1>5, SeqEqual
<1> QED
  BY <1>6 DEF p, q

LEMMA FrontFive ==
  ASSUME NEW A, NEW s \in Seq(A), Len(s) >= 5
  PROVE  SubSeq(s, 1, 5) = <<s[1], s[2], s[3], s[4], s[5]>>
<1>1. 5 \in 0..Len(s) /\ \A i \in 1..5 : i \in 1..Len(s)
  BY LenProperties
<1>2. \A i \in 1..5 : s[i] \in A
  BY <1>1, ElementOfSeq
<1> DEFINE p == SubSeq(s, 1, 5)
           q == <<s[1], s[2], s[3], s[4], s[5]>>
<1>3. p \in Seq(A) /\ Len(p) = 5 /\ \A i \in 1..5 : p[i] = s[i]
  BY <1>1, SeqFirst
<1>4. /\ q \in Seq(A) /\ Len(q) = 5
      /\ q[1] = s[1] /\ q[2] = s[2] /\ q[3] = s[3] /\ q[4] = s[4] /\ q[5] = s[5]
  BY <1>2
<1> HIDE DEF p, q
<1>5. \A i \in 1..Len(p) : p[i] = q[i]
  <2>1. ASSUME NEW i \in 1..5
        PROVE  p[i] = q[i]
    <3>1. i = 1 \/ i = 2 \/ i = 3 \/ i = 4 \/ i = 5
      OBVIOUS
    <3> QED
      BY <1>3, <1>4, <3>1
  <2> QED
    BY <1>3, <2>1
<1>6. p = q
  BY <1>3, <1>4, <1>5, SeqEqual
<1> QED
  BY <1>6 DEF p, q

LEMMA ReadFive ==
  ASSUME NEW m \in ReadState, NEW s \in Seq(Octet), Len(s) = 5,
         NEW m1, m1 = ReadByte(m, s[1]), NEW m2, m2 = ReadByte(m1, s[2]),
         NEW m3, m3 = ReadByte(m2, s[3]), NEW m4, m4 = ReadByte(m3, s[4])
  PROVE  Read(m, s) = ReadByte(m4, s[5])
<1> DEFINE p(i) == SubSeq(s, 1, i)
<1>1. \A i \in 1..5 : s[i] \in Octet
  BY ElementOfSeq
<1>2. ASSUME NEW i \in 0..5
      PROVE  p(i) \in Seq(Octet) /\ Len(p(i)) = i /\ \A j \in 1..i : p(i)[j] = s[j]
  <2>1. i \in 0..Len(s)
    OBVIOUS
  <2> QED
    BY <2>1, SeqFirst
<1> HIDE DEF p
<1>3. ASSUME NEW i \in 0..4
      PROVE  Read(m, p(i + 1)) = ReadByte(Read(m, p(i)), s[i + 1])
  <2>1. i \in 0..5 /\ i + 1 \in 0..5 /\ i + 1 \in 1..5
    OBVIOUS
  <2>2. /\ p(i) \in Seq(Octet) /\ Len(p(i)) = i /\ \A j \in 1..i : p(i)[j] = s[j]
        /\ p(i + 1) \in Seq(Octet) /\ Len(p(i + 1)) = i + 1
        /\ \A j \in 1..(i + 1) : p(i + 1)[j] = s[j] 
    BY <1>2, <2>1
  <2> DEFINE q == Append(p(i), s[i + 1])
  <2>3. /\ q \in Seq(Octet) /\ Len(q) = i + 1 /\ q[i + 1] = s[i + 1]
        /\ \A j \in 1..i : q[j] = p(i)[j]
    BY <1>1, <2>1, <2>2, AppendProperties
  <2>4. Read(m, q) = ReadByte(Read(m, p(i)), s[i + 1])
    BY <1>1, <2>1, <2>2, ReadMore
  <2> HIDE DEF q
  <2>5. ASSUME NEW j \in 1..(i + 1)
        PROVE  p(i + 1)[j] = q[j]
    <3>1. j \in 1..i \/ j = i + 1
      OBVIOUS
    <3> QED
      BY <2>2, <2>3, <3>1
  <2>6. p(i + 1) = q
    BY <2>2, <2>3, <2>5, SeqEqual
  <2> QED
    BY <2>4, <2>6
<1>4. p(0) = <<>> /\ p(5) = s
  <2>1. p(0) = <<>>
    BY SubSeqEmpty DEF p
  <2>2. p(5) = s
    BY SubSeqFull DEF p
  <2> QED
    BY <2>1, <2>2
<1>5. Read(m, p(0)) = m
  BY <1>4, ReadNothing
<1>6. Read(m, p(1)) = ReadByte(m, s[1])
  <2>1. Read(m, p(0 + 1)) = ReadByte(Read(m, p(0)), s[0 + 1])
    BY <1>3
  <2> QED
    BY <1>5, <2>1
<1>7. Read(m, p(2)) = ReadByte(Read(m, p(1)), s[2])
  <2>1. Read(m, p(1 + 1)) = ReadByte(Read(m, p(1)), s[1 + 1])
    BY <1>3
  <2> QED
    BY <2>1
<1>8. Read(m, p(3)) = ReadByte(Read(m, p(2)), s[3])
  <2>1. Read(m, p(2 + 1)) = ReadByte(Read(m, p(2)), s[2 + 1])
    BY <1>3
  <2> QED
    BY <2>1
<1>9. Read(m, p(4)) = ReadByte(Read(m, p(3)), s[4])
  <2>1. Read(m, p(3 + 1)) = ReadByte(Read(m, p(3)), s[3 + 1])
    BY <1>3
  <2> QED
    BY <2>1
<1>10. Read(m, p(5)) = ReadByte(Read(m, p(4)), s[5])
  <2>1. Read(m, p(4 + 1)) = ReadByte(Read(m, p(4)), s[4 + 1])
    BY <1>3
  <2> QED
    BY <2>1
<1> QED
  BY <1>4, <1>6, <1>7, <1>8, <1>9, <1>10

(* Five bytes from an END and a zero on: a command, or no frame at all.     *)
CommandRead(m, p, s, c) ==
  /\ p.at = IF s[5] = END_BYTE THEN "gap" ELSE "broken"
  /\ p.id = m.id /\ p.data = m.data /\ p.cmds = Append(m.cmds, c)

LEMMA CommandReads ==
  ASSUME NEW m \in ReadState, m.at = "gap", NEW s \in Seq(Octet), Len(s) = 5,
         s[1] = END_BYTE, s[2] = 0,
         NEW c, c = [cmd |-> s[3], arg |-> s[4]]
  PROVE  /\ Read(m, s) \in ReadState /\ c \in ReadCommand
         /\ CommandRead(m, Read(m, s), s, c)
<1>0. \E m1, m2, m3, m4, m5 :
        /\ m1 = ReadByte(m, s[1]) /\ m2 = ReadByte(m1, s[2]) /\ m3 = ReadByte(m2, s[3])
        /\ m4 = ReadByte(m3, s[4]) /\ m5 = ReadByte(m4, s[5])
  OBVIOUS
<1>9. PICK m1, m2, m3, m4, m5 :
        /\ m1 = ReadByte(m, s[1]) /\ m2 = ReadByte(m1, s[2]) /\ m3 = ReadByte(m2, s[3])
        /\ m4 = ReadByte(m3, s[4]) /\ m5 = ReadByte(m4, s[5])
  BY <1>0
<1>1. s[1] \in Octet /\ s[2] \in Octet /\ s[3] \in Octet /\ s[4] \in Octet /\ s[5] \in Octet
  <2>1. \A i \in 1..5 : i \in 1..Len(s)
    OBVIOUS
  <2>2. \A i \in 1..5 : s[i] \in Octet
    BY <2>1, ElementOfSeq
  <2> QED
    BY <2>2
<1>2. m1 \in ReadState /\ m1.at = "id" /\ m1.id = m.id /\ m1.data = m.data /\ m1.cmds = m.cmds
  <2>1. m1 \in ReadState
    BY <1>1, <1>9, ReadByteIs
  <2>2. m1 = [m EXCEPT !.at = "id"]
    BY <1>1, <1>9, FrameByte, BytesAre
  <2> QED
    BY <2>1, <2>2 DEF ReadState
<1>3. m2 \in ReadState /\ m2.at = "cmd" /\ m2.id = m.id /\ m2.data = m.data /\ m2.cmds = m.cmds
  <2>1. m2 \in ReadState
    BY <1>1, <1>2, <1>9, ReadByteIs
  <2>2. m2 = [m1 EXCEPT !.at = "cmd"]
    BY <1>2, <1>1, <1>9, FrameByte, BytesAre
  <2> QED
    BY <1>2, <2>1, <2>2 DEF ReadState
<1>4. /\ m3 \in ReadState /\ m3.at = "arg" /\ m3.id = m.id /\ m3.data = m.data
      /\ m3.cmds = m.cmds /\ m3.code = s[3]
  <2>1. m3 \in ReadState
    BY <1>1, <1>3, <1>9, ReadByteIs
  <2>2. m3 = [m2 EXCEPT !.at = "arg", !.code = s[3]]
    BY <1>3, <1>1, <1>9, FrameByte, BytesAre
  <2> QED
    BY <1>3, <2>1, <2>2 DEF ReadState
<1>5. /\ m4 \in ReadState /\ m4.at = "close" /\ m4.id = m.id /\ m4.data = m.data
      /\ m4.cmds = Append(m.cmds, c)
  <2>1. m4 \in ReadState
    BY <1>1, <1>4, <1>9, ReadByteIs
  <2>2. m4 = [m3 EXCEPT !.at = "close", !.cmds = Append(m3.cmds, [cmd |-> m3.code, arg |-> s[4]])]
    <3>1. m3 \in ReadState /\ m3.at = "arg" /\ s[4] \in Octet
      BY <1>1, <1>4
    <3>2. ReadByte(m3, s[4])
            = [m3 EXCEPT !.at = "close", !.cmds = Append(@, [cmd |-> m3.code, arg |-> s[4]])]
      BY <3>1, FrameByte
    <3> QED
      BY <1>9, <3>2
  <2> QED
    BY <1>4, <2>1, <2>2 DEF ReadState
<1>6. /\ m5 \in ReadState /\ m5.at = IF s[5] = END_BYTE THEN "gap" ELSE "broken"
      /\ m5.id = m.id /\ m5.data = m.data /\ m5.cmds = Append(m.cmds, c)
  <2>1. m5 \in ReadState
    BY <1>1, <1>5, <1>9, ReadByteIs
  <2>2. m5 = [m4 EXCEPT !.at = IF s[5] = END_BYTE THEN "gap" ELSE "broken"]
    BY <1>1, <1>5, <1>9, FrameByte
  <2> QED
    BY <1>5, <2>1, <2>2 DEF ReadState
<1>7. Read(m, s) = m5
  BY <1>9, ReadFive
<1>8. c \in ReadCommand
  BY <1>1 DEF ReadCommand
<1> QED
  BY <1>6, <1>7, <1>8 DEF CommandRead

-----------------------------------------------------------------------------
(* The invariant                                                            *)

(* TypeOK, and whose bytes the buffers hold: the tunnel's are the data's    *)
(* and the code of a command.                                               *)
Types ==
  /\ id \in Byte /\ id # 0
  /\ text \in Seq(Octet) /\ fed \in 0..Len(text)
  /\ src \in Seq(Octet) /\ dst \in Seq(Octet) /\ got \in Seq(Octet)
  /\ out \in Seq(Octet) /\ in \in Seq(Octet)
  /\ Len(src) <= BufSize /\ Len(dst) <= BufSize
  /\ Len(out) <= TunnelSize /\ Len(in) <= TunnelSize
  /\ sendingTo \in {0, id}
  /\ ordered \in Seq(ReadCommand) /\ obeyed \in Seq(ReadCommand)
  /\ status \in {"runs", "starting byte", "closed connection"}
  /\ overrun \in BOOLEAN

(* A stream that reads as m, of which b is written, o obeyed and r not yet  *)
(* encoded, is in step.                                                     *)
InStep(m, b, o, r, t, c) == m.at = "gap" /\ b \o m.data \o r = t /\ o \o m.cmds = c

Fresh(i, to) == Data(i, IF to = 0 THEN "gap" ELSE "data", <<>>)

Streams ==
  status = "runs"
  /\ InStep(Read(Fresh(id, sendingTo), in \o out), got \o dst, obeyed, src,
            SubSeq(text, 1, fed), ordered)

Inv == Types /\ (~overrun => Streams)

LEMMA BytesConcat ==
  ASSUME NEW x \in Seq(Octet), NEW y \in Seq(Octet)
  PROVE  x \o y \in Seq(Octet) /\ Len(x \o y) = Len(x) + Len(y)
  BY ConcatProperties

LEMMA BytesAssociate ==
  ASSUME NEW x \in Seq(Octet), NEW y \in Seq(Octet), NEW z \in Seq(Octet)
  PROVE  (x \o y) \o z = x \o (y \o z)
  BY ConcatAssociative

(* The same, for the provers to take as one fact.                           *)
Associates(x, y, z) == (x \o y) \o z = x \o (y \o z)

LEMMA BytesJoin ==
  ASSUME NEW x \in Seq(Octet), NEW y \in Seq(Octet), NEW z \in Seq(Octet)
  PROVE  Associates(x, y, z)
  BY BytesAssociate DEF Associates

LEMMA MeaningIs == Meaning = Read(Fresh(id, sendingTo), in \o out)
  BY DEF Meaning, Read, Fresh, Data

LEMMA Constants ==
  /\ Byte \subseteq Octet /\ BufSize \in Nat /\ TunnelSize \in Nat /\ TunnelSize >= 5
  /\ 0 \in Octet
  BY CodecAssumption DEF Octet

LEMMA FreshIs ==
  ASSUME NEW i \in Octet, NEW to
  PROVE  Fresh(i, to) \in ReadState /\ Fresh(i, to).id = i
<1>1. <<>> \in Seq(Octet)
  BY EmptySeq
<1>2. (IF to = 0 THEN "gap" ELSE "data") \in Places
  BY DEF Places
<1>3. Fresh(i, to) \in ReadState
  BY <1>1, <1>2, DataIs DEF Fresh
<1> QED
  BY <1>3 DEF Fresh, Data

(* What Inv says is what the runs check.                                    *)
LEMMA InvMeans ==
  Inv => TypeOK /\ NothingLost /\ FramesInStep /\ CommandsIntact
<1> SUFFICES ASSUME Inv
             PROVE  TypeOK /\ NothingLost /\ FramesInStep /\ CommandsIntact
  OBVIOUS
<1>1. TypeOK
  <2>1. Len(src) \in Nat /\ Len(dst) \in Nat /\ Len(out) \in Nat /\ Len(in) \in Nat
    BY LenProperties DEF Inv, Types
  <2>2. /\ Len(src) \in 0..BufSize /\ Len(dst) \in 0..BufSize
        /\ Len(out) \in 0..TunnelSize /\ Len(in) \in 0..TunnelSize
    <3>1. Len(src) <= BufSize /\ Len(dst) <= BufSize /\ Len(out) <= TunnelSize /\ Len(in) <= TunnelSize
      BY DEF Inv, Types
    <3>2. BufSize \in Nat /\ TunnelSize \in Nat
      BY Constants
    <3> QED
      BY <2>1, <3>1, <3>2
  <2>3. {Len(src), Len(dst)} \subseteq 0..BufSize /\ {Len(out), Len(in)} \subseteq 0..TunnelSize
    BY <2>2
  <2> QED
    BY <2>3 DEF Inv, Types, TypeOK
<1>2. ~overrun => Streams
  BY DEF Inv
<1>3. NothingLost
  BY <1>2, MeaningIs DEF NothingLost, Streams, InStep
<1>4. FramesInStep
  BY <1>2, MeaningIs DEF FramesInStep, Streams, InStep
<1>5. CommandsIntact
  BY <1>2, MeaningIs DEF CommandsIntact, Streams, InStep
<1> QED
  BY <1>1, <1>3, <1>4, <1>5

LEMMA InitInv == Init => Inv
<1> SUFFICES ASSUME Init
             PROVE  Inv
  OBVIOUS
<1>1. text \in Seq(Byte)
  <2>1. text \in SeqOf(Byte, TextSize)
    BY DEF Init, BoundedSeq
  <2>2. PICK n \in 0..TextSize : text \in [1..n -> Byte]
    BY <2>1 DEF SeqOf
  <2>3. n \in Nat
    BY CodecAssumption
  <2> QED
    BY <2>2, <2>3, SeqDef
<1>2. text \in Seq(Octet) /\ 0 \in 0..Len(text)
  BY <1>1, Constants, SeqMonotonic, LenProperties
<1>3. /\ <<>> \in Seq(Octet) /\ <<>> \in Seq(ReadCommand) /\ Len(<<>>) = 0
      /\ 0 <= BufSize /\ 0 <= TunnelSize
  BY Constants, EmptySeq
<1>4. Types
  BY <1>2, <1>3 DEF Init, Types
<1>5. Streams
  <2> DEFINE m == Fresh(id, 0)
  <2>1. m \in ReadState
    BY <1>4, Constants, FreshIs DEF Types
  <2>2. m.at = "gap" /\ m.data = <<>> /\ m.cmds = <<>>
    BY DEF Fresh, Data
  <2>3. /\ <<>> \o <<>> = <<>> /\ Read(m, <<>>) = m /\ SubSeq(text, 1, 0) = <<>>
    <3>1. <<>> \o <<>> = <<>>
      BY <1>3, ConcatEmptySeq
    <3>2. Read(m, <<>>) = m
      BY <2>1, ReadNothing
    <3>3. SubSeq(text, 1, 0) = <<>>
      BY SubSeqEmpty
    <3> QED
      BY <3>1, <3>2, <3>3
  <2>4. /\ sendingTo = 0 /\ in = <<>> /\ out = <<>> /\ got = <<>> /\ dst = <<>> /\ obeyed = <<>>
        /\ src = <<>> /\ fed = 0 /\ ordered = <<>> /\ status = "runs"
    BY DEF Init
  <2> HIDE DEF m
  <2>5. InStep(m, <<>>, <<>>, <<>>, <<>>, <<>>)
    BY <2>2, <2>3 DEF InStep
  <2> QED
    BY <2>3, <2>4, <2>5 DEF Streams, m
<1> QED
  BY <1>4, <1>5 DEF Inv
-----------------------------------------------------------------------------
(* The kernel and the applications                                          *)

LEMMA FeedStep == Inv /\ Feed => Inv'
<1> SUFFICES ASSUME Inv, Feed
             PROVE  Inv'
  OBVIOUS
<1>1. PICK n \in 1..Room(src, BufSize) :
         /\ fed + n <= Len(text)
         /\ src' = src \o SubSeq(text, fed + 1, fed + n)
         /\ fed' = fed + n
  BY DEF Feed
<1>2. UNCHANGED <<id, text, out, in, sendingTo, dst, obeyed, status, overrun, got, ordered>>
  BY DEF Feed, receiver
<1>3. /\ text \in Seq(Octet) /\ src \in Seq(Octet) /\ fed \in 0..Len(text) /\ Len(src) <= BufSize
      /\ in \o out \in Seq(Octet) /\ got \o dst \in Seq(Octet) /\ id \in Octet
  BY Constants, ConcatProperties DEF Inv, Types
<1>4. /\ Len(text) \in Nat /\ Len(src) \in Nat /\ BufSize \in Nat
      /\ n \in Nat /\ n <= BufSize - Len(src) /\ n >= 1
  BY <1>3, Constants, LenProperties DEF Room
<1> DEFINE x == SubSeq(text, fed + 1, fed + n)
<1>5. x \in Seq(Octet) /\ Len(x) = n
  <2>1. \A i \in (fed + 1)..(fed + n) : i \in 1..Len(text)
    BY <1>1, <1>3, <1>4
  <2>2. \A i \in (fed + 1)..(fed + n) : text[i] \in Octet
    BY <1>3, <2>1, ElementOfSeq
  <2>3. fed + 1 \in Int /\ fed + n \in Int /\ fed + 1 <= fed + n /\ (fed + n) - (fed + 1) + 1 = n
    BY <1>3, <1>4
  <2>4. x \in Seq(Octet)
    BY <2>2, <2>3, SubSeqProperties
  <2>5. Len(x) = IF fed + 1 <= fed + n THEN (fed + n) - (fed + 1) + 1 ELSE 0
    BY <2>2, <2>3, SubSeqProperties
  <2> QED
    BY <2>3, <2>4, <2>5
<1>6. SubSeq(text, 1, fed) \o x = SubSeq(text, 1, fed')
  <2>1. fed \in (1 - 1)..Len(text) /\ fed + n \in fed..Len(text) /\ 1 \in 1..(Len(text) + 1)
    BY <1>1, <1>3, <1>4
  <2>2. SubSeq(text, 1, fed) \o SubSeq(text, fed + 1, fed + n) = SubSeq(text, 1, fed + n)
    BY <1>3, <2>1, ConcatAdjacentSubSeq
  <2> QED
    BY <1>1, <2>2
<1> HIDE DEF x
<1>7. src' \in Seq(Octet) /\ Len(src') = Len(src) + n
  BY <1>1, <1>3, <1>5, ConcatProperties DEF x
<1>8. Len(src') <= BufSize /\ fed' \in 0..Len(text)
  BY <1>1, <1>3, <1>4, <1>7
<1>9. Types'
  BY <1>2, <1>7, <1>8 DEF Inv, Types
<1>10. ASSUME Streams
       PROVE  Streams'
  <2> DEFINE m == Read(Fresh(id, sendingTo), in \o out)
             b == got \o dst
  <2>1. InStep(m, b, obeyed, src, SubSeq(text, 1, fed), ordered)
    BY <1>10 DEF Streams
  <2>2. m.data \in Seq(Octet) /\ b \o m.data \in Seq(Octet)
    <3>1. m \in ReadState
      BY <1>3, FreshIs, ReadIs
    <3> HIDE DEF m, b
    <3>2. m.data \in Seq(Octet)
      BY <3>1 DEF ReadState
    <3> QED
      BY <1>3, <3>2, ConcatProperties DEF b
  <2> HIDE DEF m, b
  <2>3. (b \o m.data) \o (src \o x) = ((b \o m.data) \o src) \o x
    <3> DEFINE y == b \o m.data
    <3>1. y \in Seq(Octet) /\ src \in Seq(Octet) /\ x \in Seq(Octet)
      BY <1>3, <1>5, <2>2
    <3> HIDE DEF y
    <3>2. (y \o src) \o x = y \o (src \o x)
      BY <3>1, BytesAssociate
    <3> QED
      BY <3>2 DEF y
  <2>4. (b \o m.data) \o src' = SubSeq(text, 1, fed')
    BY <1>1, <1>6, <2>1, <2>3 DEF InStep, x
  <2>5. InStep(m, b, obeyed, src', SubSeq(text, 1, fed'), ordered)
    BY <2>1, <2>4 DEF InStep
  <2> QED
    BY <1>2, <1>10, <2>5 DEF Streams, m, b
<1> QED
  BY <1>2, <1>9, <1>10 DEF Inv

LEMMA CarryStep == Inv /\ Carry => Inv'
<1> SUFFICES ASSUME Inv, Carry
             PROVE  Inv'
  OBVIOUS
<1>1. PICK n \in 1..Len(out) :
         /\ n <= Room(in, TunnelSize)
         /\ in' = in \o SubSeq(out, 1, n)
         /\ out' = Drop(n, out)
  BY DEF Carry
<1>2. UNCHANGED <<id, text, fed, src, sendingTo, dst, obeyed, status, overrun, got, ordered>>
  BY DEF Carry, connection, receiver
<1>3. in \in Seq(Octet) /\ out \in Seq(Octet) /\ Len(in) <= TunnelSize /\ Len(out) <= TunnelSize
  BY DEF Inv, Types
<1>4. Len(in) \in Nat /\ Len(out) \in Nat /\ TunnelSize \in Nat
  BY <1>3, Constants, LenProperties
<1>5. n \in 0..Len(out) /\ n <= TunnelSize - Len(in) /\ n \in Nat
  BY <1>1, <1>4 DEF Room
<1> DEFINE x == SubSeq(out, 1, n)
           y == Drop(n, out)
<1>6. x \in Seq(Octet) /\ Len(x) = n
  BY <1>3, <1>5, SeqFirst
<1>7. y \in Seq(Octet) /\ Len(y) = Len(out) - n
  BY <1>3, <1>5, SeqRest DEF Drop
<1>8. x \o y = out
  BY <1>3, <1>5, SeqSplit DEF Drop
<1>9. in' = in \o x /\ out' = y
  BY <1>1
<1> HIDE DEF x, y
<1>10. in' \in Seq(Octet) /\ Len(in') = Len(in) + n
  BY <1>3, <1>6, <1>9, BytesConcat
<1>11. Len(in') <= TunnelSize /\ Len(out') <= TunnelSize /\ out' \in Seq(Octet)
  BY <1>3, <1>4, <1>5, <1>7, <1>9, <1>10
<1>12. in' \o out' = in \o out
  <2>1. (in \o x) \o y = in \o (x \o y)
    BY <1>3, <1>6, <1>7, BytesAssociate
  <2> QED
    BY <1>8, <1>9, <2>1
<1>13. Types'
  BY <1>2, <1>10, <1>11 DEF Inv, Types
<1>14. ASSUME Streams
       PROVE  Streams'
  BY <1>2, <1>12, <1>14 DEF Streams
<1> QED
  BY <1>2, <1>13, <1>14 DEF Inv

LEMMA DrainStep == Inv /\ Drain => Inv'
<1> SUFFICES ASSUME Inv, Drain
             PROVE  Inv'
  OBVIOUS
<1>1. PICK n \in 1..Len(dst) :
         /\ got' = got \o SubSeq(dst, 1, n)
         /\ dst' = Drop(n, dst)
  BY DEF Drain
<1>2. UNCHANGED <<id, text, fed, src, out, in, sendingTo, obeyed, status, overrun, ordered>>
  BY DEF Drain, connection
<1>3. got \in Seq(Octet) /\ dst \in Seq(Octet) /\ Len(dst) <= BufSize
  BY DEF Inv, Types
<1>4. Len(dst) \in Nat /\ BufSize \in Nat
  BY <1>3, Constants, LenProperties
<1>5. n \in 0..Len(dst) /\ n \in Nat
  BY <1>4
<1> DEFINE x == SubSeq(dst, 1, n)
           y == Drop(n, dst)
<1>6. x \in Seq(Octet)
  BY <1>3, <1>5, SeqFirst
<1>7. y \in Seq(Octet) /\ Len(y) = Len(dst) - n
  BY <1>3, <1>5, SeqRest DEF Drop
<1>8. x \o y = dst
  BY <1>3, <1>5, SeqSplit DEF Drop
<1>9. got' = got \o x /\ dst' = y
  BY <1>1
<1> HIDE DEF x, y
<1>10. got' \in Seq(Octet) /\ dst' \in Seq(Octet) /\ Len(dst') <= BufSize
  <2>1. got' \in Seq(Octet)
    BY <1>3, <1>6, <1>9, BytesConcat
  <2> QED
    BY <1>3, <1>4, <1>5, <1>7, <1>9, <2>1
<1>12. got' \o dst' = got \o dst
  <2>1. (got \o x) \o y = got \o (x \o y)
    BY <1>3, <1>6, <1>7, BytesAssociate
  <2> QED
    BY <1>8, <1>9, <2>1
<1>13. Types'
  BY <1>2, <1>10 DEF Inv, Types
<1>14. ASSUME Streams
       PROVE  Streams'
  BY <1>2, <1>12, <1>14 DEF Streams
<1> QED
  BY <1>2, <1>13, <1>14 DEF Inv
-----------------------------------------------------------------------------
(* The sender                                                               *)

(* A frame of three parts behind what the tunnel holds.                     *)
Joined(o, a, c, z) == ((o \o a) \o c) \o z

Behind(i, w, o, a, c, z) ==
  /\ w \in Seq(Octet) /\ Len(w) = Len(o) + Len(a) + Len(c) + Len(z)
  /\ i \o w = Joined(i \o o, a, c, z)

LEMMA FrameBehind ==
  ASSUME NEW i \in Seq(Octet), NEW o \in Seq(Octet), NEW a \in Seq(Octet),
         NEW c \in Seq(Octet), NEW z \in Seq(Octet)
  PROVE  Behind(i, Joined(o, a, c, z), o, a, c, z)
<1> DEFINE oa == o \o a
<1>1. oa \in Seq(Octet) /\ Len(oa) = Len(o) + Len(a)
  BY BytesConcat
<1>2. i \o oa = (i \o o) \o a
  <2>1. Associates(i, o, a)
    BY BytesJoin
  <2> QED
    BY <2>1 DEF Associates
<1> HIDE DEF oa
<1> DEFINE oac == oa \o c
<1>3. oac \in Seq(Octet) /\ Len(oac) = Len(oa) + Len(c)
  BY <1>1, BytesConcat
<1>4. i \o oac = (i \o oa) \o c
  <2>1. oa \in Seq(Octet)
    BY <1>1
  <2>2. Associates(i, oa, c)
    BY <2>1, BytesJoin
  <2> QED
    BY <2>2 DEF Associates
<1> HIDE DEF oac
<1> DEFINE w == oac \o z
<1>5. w \in Seq(Octet) /\ Len(w) = Len(oac) + Len(z)
  BY <1>3, BytesConcat
<1>6. i \o w = (i \o oac) \o z
  <2>1. oac \in Seq(Octet)
    BY <1>3
  <2>2. Associates(i, oac, z)
    BY <2>1, BytesJoin
  <2> QED
    BY <2>2 DEF Associates
<1> HIDE DEF w
<1>7. Len(w) = Len(o) + Len(a) + Len(c) + Len(z)
  <2>1. Len(o) \in Nat /\ Len(a) \in Nat /\ Len(c) \in Nat /\ Len(z) \in Nat
    BY LenProperties
  <2> QED
    BY <1>1, <1>3, <1>5, <2>1
<1>8. i \o w = (((i \o o) \o a) \o c) \o z
  BY <1>2, <1>4, <1>6
<1> QED
  BY <1>5, <1>7, <1>8 DEF w, oac, oa, Joined, Behind

LEMMA ReadParts ==
  ASSUME NEW f \in ReadState, NEW s \in Seq(Octet), NEW a \in Seq(Octet),
         NEW c \in Seq(Octet), NEW z \in Seq(Octet)
  PROVE  Read(f, Joined(s, a, c, z)) = Read(Read(Read(Read(f, s), a), c), z)
<1> DEFINE sa == s \o a
<1>1. sa \in Seq(Octet)
  BY BytesConcat
<1>2. Read(f, sa) = Read(Read(f, s), a)
  BY ReadConcat
<1> HIDE DEF sa
<1> DEFINE sac == sa \o c
<1>3. sac \in Seq(Octet)
  BY <1>1, BytesConcat
<1>4. Read(f, sac) = Read(Read(f, sa), c)
  BY <1>1, ReadConcat
<1> HIDE DEF sac
<1>5. Read(f, sac \o z) = Read(Read(f, sac), z)
  BY <1>3, ReadConcat
<1> QED
  BY <1>2, <1>4, <1>5 DEF sa, sac, Joined

LEMMA EncodeStep == Inv /\ Encode => Inv'
<1> SUFFICES ASSUME Inv, Encode
             PROVE  Inv'
  OBVIOUS
<1> DEFINE room == Room(out, TunnelSize)
           e == Encoded(src, room)
<1>1. /\ src # <<>> /\ ~EncodeRefuses(src, room)
      /\ out' = out \o <<END_BYTE, id>> \o e.bytes \o <<END_BYTE>>
      /\ src' = Drop(e.taken, src)
  BY DEF Encode
<1>2. UNCHANGED <<id, text, fed, in, sendingTo, dst, obeyed, status, overrun, got, ordered>>
  BY DEF Encode, receiver
<1>3. /\ in \in Seq(Octet) /\ out \in Seq(Octet) /\ src \in Seq(Octet) /\ id \in Octet /\ id # 0
      /\ got \in Seq(Octet) /\ dst \in Seq(Octet)
      /\ Len(out) <= TunnelSize /\ Len(src) <= BufSize
  BY Constants DEF Inv, Types
<1>4. Len(out) \in Nat /\ Len(src) \in Nat /\ TunnelSize \in Nat /\ BufSize \in Nat
  BY <1>3, Constants, LenProperties
<1>5. room = TunnelSize - Len(out) /\ room \in Nat /\ room >= 4
  <2>1. room = TunnelSize - Len(out) /\ ~(room < 4)
    BY <1>1 DEF EncodeRefuses, Room
  <2> HIDE DEF room
  <2> QED
    BY <1>3, <1>4, <2>1
<1> HIDE DEF room
<1>6. EncodeHas(e, src, room, id)
  BY <1>3, <1>5, EncodedIs
<1> HIDE DEF e
<1>7. /\ e.bytes \in Seq(Octet) /\ e.rem \in Nat /\ Len(e.bytes) + e.rem = room - 3
      /\ e.taken \in 0..Len(src)
      /\ Read(Data(id, "data", <<>>), e.bytes) = Data(id, "data", SubSeq(src, 1, e.taken))
  BY <1>6 DEF EncodeHas, EncodeState
<1> DEFINE a == <<END_BYTE, id>>
           z == <<END_BYTE>>
           x == SubSeq(src, 1, e.taken)
           y == Drop(e.taken, src)
           code == e.bytes
<1>8. a \in Seq(Octet) /\ Len(a) = 2 /\ z \in Seq(Octet) /\ Len(z) = 1
  BY <1>3, BytesAre
<1>9. x \in Seq(Octet) /\ x \o y = src /\ y \in Seq(Octet) /\ Len(y) = Len(src) - e.taken
  <2>1. x \in Seq(Octet)
    BY <1>3, <1>7, SeqFirst
  <2>2. y \in Seq(Octet) /\ Len(y) = Len(src) - e.taken
    BY <1>3, <1>7, SeqRest DEF Drop
  <2>3. x \o y = src
    BY <1>3, <1>7, SeqSplit DEF Drop
  <2> QED
    BY <2>1, <2>2, <2>3
<1>16. code \in Seq(Octet) /\ Len(code) \in Nat /\ Len(code) + e.rem = room - 3
  BY <1>7, LenProperties
<1>10. out' = Joined(out, a, code, z) /\ src' = y
  BY <1>1 DEF Joined
<1>11. Read(Data(id, "data", <<>>), code) = Data(id, "data", x)
  BY <1>7
<1> HIDE DEF a, z, x, y, code
<1>12. /\ out' \in Seq(Octet) /\ Len(out') = Len(out) + 2 + Len(code) + 1
       /\ in \o out' = Joined(in \o out, a, code, z)
  <2>1. /\ in \in Seq(Octet) /\ out \in Seq(Octet) /\ a \in Seq(Octet)
        /\ code \in Seq(Octet) /\ z \in Seq(Octet)
    BY <1>3, <1>8, <1>16
  <2>2. Behind(in, Joined(out, a, code, z), out, a, code, z)
    BY <2>1, FrameBehind
  <2> QED
    BY <1>8, <1>10, <2>2 DEF Behind
<1>13. Len(out') <= TunnelSize /\ Len(src') <= BufSize /\ src' \in Seq(Octet)
  <2>1. Len(code) <= room - 3
    <3>1. Len(code) \in Nat /\ e.rem \in Nat /\ Len(code) + e.rem = room - 3
      BY <1>7, <1>16
    <3> DEFINE k == Len(code)
               q == e.rem
    <3> HIDE DEF k, q
    <3>2. k \in Nat /\ q \in Nat /\ k + q = room - 3
      BY <3>1 DEF k, q
    <3>3. k <= room - 3
      BY <1>5, <3>2
    <3> QED
      BY <3>3 DEF k
  <2>2. Len(out') <= TunnelSize
    <3> DEFINE k == Len(code)
               l == Len(out)
               n == Len(out')
    <3>1. k \in Nat /\ k <= room - 3 /\ l \in Nat /\ room = TunnelSize - l /\ n = l + 2 + k + 1
      BY <1>4, <1>5, <1>12, <1>16, <2>1
    <3> HIDE DEF k, l, n
    <3>2. n <= TunnelSize
      BY <1>4, <3>1
    <3> QED
      BY <3>2 DEF n
  <2>3. Len(src') <= BufSize
    BY <1>3, <1>4, <1>7, <1>9, <1>10
  <2> QED
    BY <1>9, <1>10, <2>2, <2>3
<1>14. Types'
  BY <1>2, <1>12, <1>13 DEF Inv, Types
<1>15. ASSUME Streams
       PROVE  Streams'
  <2> DEFINE s == in \o out
             f == Fresh(id, sendingTo)
             m == Read(f, s)
             b == got \o dst
             p == Read(Read(Read(m, a), code), z)
  <2>1. InStep(m, b, obeyed, src, SubSeq(text, 1, fed), ordered)
    BY <1>15 DEF Streams
  <2>2. f \in ReadState /\ f.id = id
    BY <1>3, FreshIs
  <2>3. s \in Seq(Octet) /\ b \in Seq(Octet)
    BY <1>3, BytesConcat
  <2> HIDE DEF f, s, b
  <2>4. m \in ReadState
    BY <2>2, <2>3, ReadIs
  <2>5. m.id = id
    BY <2>2, <2>3, IdStays
  <2>6. m.at = "gap"
    BY <2>1 DEF InStep
  <2>7. Read(f, in \o out') = p
    <3>1. in \o out' = Joined(s, a, code, z)
      BY <1>12 DEF s
    <3>2. Read(f, Joined(s, a, code, z)) = p
      BY <1>8, <1>16, <2>2, <2>3, ReadParts
    <3> QED
      BY <3>1, <3>2
  <2> HIDE DEF m
  <2>8. /\ p \in ReadState /\ p.at = "gap"
        /\ p.data = m.data \o x /\ p.cmds = m.cmds
    <3>1. p = Read(Read(Read(m, <<END_BYTE, m.id>>), code), <<END_BYTE>>)
      BY <2>5 DEF a, z
    <3>2. Read(Data(m.id, "data", <<>>), code) = Data(m.id, "data", x)
      BY <1>11, <2>5
    <3> HIDE DEF p
    <3>3. /\ m \in ReadState /\ m.at = "gap" /\ m.id # 0
          /\ code \in Seq(Octet) /\ x \in Seq(Octet)
      BY <1>3, <1>9, <1>16, <2>4, <2>5, <2>6
    <3>4. p \in ReadState /\ FrameRead(m, p, x)
      BY <3>1, <3>2, <3>3, FrameReads
    <3> QED
      BY <3>4 DEF FrameRead
  <2> HIDE DEF p
  <2>9. (b \o p.data) \o y = (b \o m.data) \o src
    <3>1. m.data \in Seq(Octet)
      BY <2>4 DEF ReadState
    <3>2. b \o (m.data \o x) = (b \o m.data) \o x
      <4>1. Associates(b, m.data, x)
        BY <1>9, <2>3, <3>1, BytesJoin
      <4> QED
        BY <4>1 DEF Associates
    <3> DEFINE g == b \o m.data
    <3>3. g \in Seq(Octet)
      BY <2>3, <3>1, BytesConcat
    <3> HIDE DEF g
    <3>4. (g \o x) \o y = g \o (x \o y)
      BY <1>9, <3>3, BytesAssociate
    <3> QED
      BY <1>9, <2>8, <3>2, <3>4 DEF g
  <2>10. InStep(p, b, obeyed, src', SubSeq(text, 1, fed), ordered)
    BY <1>10, <2>1, <2>8, <2>9 DEF InStep
  <2> QED
    BY <1>2, <1>15, <2>7, <2>10 DEF Streams, f, b
<1> QED
  BY <1>2, <1>14, <1>15 DEF Inv
LEMMA CommandsAppend ==
  ASSUME NEW s \in Seq(ReadCommand), NEW t \in Seq(ReadCommand), NEW c \in ReadCommand
  PROVE  s \o Append(t, c) = Append(s \o t, c)
  BY AppendConcat

(* A command behind what the tunnel holds, and at the end of the orders.      *)
LEMMA EncodeCommandStep == Inv /\ EncodeCommand => Inv'
<1> SUFFICES ASSUME Inv, EncodeCommand
             PROVE  Inv'
  OBVIOUS
<1>1. PICK c \in Command :
         /\ out' = out \o <<END_BYTE, 0, c.cmd, c.arg, END_BYTE>>
         /\ ordered' = Append(ordered, c)
  BY DEF EncodeCommand
<1>2. /\ UNCHANGED <<id, text, fed, src, in, sendingTo, dst, obeyed, status, overrun, got>>
      /\ TunnelSize - Len(out) >= 5
  BY DEF EncodeCommand, connection, receiver, Room, CommandSize
<1> DEFINE a == <<END_BYTE, 0, c.cmd, c.arg, END_BYTE>>
<1>3. /\ in \in Seq(Octet) /\ out \in Seq(Octet) /\ src \in Seq(Octet) /\ id \in Octet
      /\ got \in Seq(Octet) /\ dst \in Seq(Octet)
      /\ ordered \in Seq(ReadCommand) /\ obeyed \in Seq(ReadCommand)
  BY Constants DEF Inv, Types
<1>4. c.cmd \in Octet /\ c.arg \in Octet /\ c = [cmd |-> c.cmd, arg |-> c.arg]
  <2>1. c.cmd = 1 /\ c.arg \in Byte
    BY DEF Command
  <2>2. 1 \in Octet
    BY DEF Octet
  <2>3. c = [cmd |-> c.cmd, arg |-> c.arg]
    BY DEF Command
  <2> QED
    BY <2>1, <2>2, <2>3, Constants
<1>5. /\ a \in Seq(Octet) /\ Len(a) = 5 /\ a[1] = END_BYTE /\ a[2] = 0
      /\ a[3] = c.cmd /\ a[4] = c.arg /\ a[5] = END_BYTE
  BY <1>4, BytesAre, Constants
<1>6. out' = out \o a
  BY <1>1
<1> HIDE DEF a
<1>7. out' \in Seq(Octet) /\ Len(out') = Len(out) + 5
  <2>1. out \in Seq(Octet) /\ a \in Seq(Octet)
    BY <1>3, <1>5
  <2>2. out \o a \in Seq(Octet) /\ Len(out \o a) = Len(out) + Len(a)
    BY <2>1, BytesConcat
  <2> QED
    BY <1>5, <1>6, <2>2
<1>8. Len(out') <= TunnelSize
  <2>1. Len(out) \in Nat /\ TunnelSize \in Nat
    BY <1>3, Constants, LenProperties
  <2> QED
    BY <1>2, <1>7, <2>1
<1>9. c \in ReadCommand
  BY <1>4 DEF ReadCommand
<1>10. ordered' \in Seq(ReadCommand)
  BY <1>1, <1>3, <1>9, AppendProperties
<1>11. Types'
  BY <1>2, <1>7, <1>8, <1>10 DEF Inv, Types
<1>12. ASSUME Streams
       PROVE  Streams'
  <2> DEFINE s == in \o out
             f == Fresh(id, sendingTo)
             m == Read(f, s)
             b == got \o dst
             p == Read(m, a)
             t == SubSeq(text, 1, fed)
  <2>1. InStep(m, b, obeyed, src, t, ordered)
    BY <1>12 DEF Streams
  <2>2. f \in ReadState
    BY <1>3, FreshIs
  <2>3. s \in Seq(Octet)
    BY <1>3, BytesConcat
  <2>4. in \o out' = s \o a
    <3>2. in \in Seq(Octet) /\ out \in Seq(Octet) /\ a \in Seq(Octet)
      BY <1>3, <1>5
    <3>1. (in \o out) \o a = in \o (out \o a)
      BY <3>2, BytesAssociate
    <3> QED
      BY <1>6, <3>1
  <2> HIDE DEF f, s, b, t
  <2>5. m \in ReadState
    BY <2>2, <2>3, ReadIs
  <2>6. Read(f, in \o out') = p
    BY <1>5, <2>2, <2>3, <2>4, ReadConcat
  <2> HIDE DEF m
  <2>7. m.at = "gap" /\ b \o m.data \o src = t /\ obeyed \o m.cmds = ordered
    BY <2>1 DEF InStep
  <2>8. c = [cmd |-> a[3], arg |-> a[4]]
    BY <1>4, <1>5
  <2>9. p.at = "gap" /\ p.data = m.data /\ p.cmds = Append(m.cmds, c)
    <3>1. /\ Read(m, a).at = IF a[5] = END_BYTE THEN "gap" ELSE "broken"
          /\ Read(m, a).data = m.data
          /\ Read(m, a).cmds = Append(m.cmds, c)
      <4>1. m \in ReadState /\ m.at = "gap" /\ a \in Seq(Octet) /\ Len(a) = 5
            /\ a[1] = END_BYTE /\ a[2] = 0
        BY <1>5, <2>5, <2>7
      <4>2. CommandRead(m, Read(m, a), a, c)
        BY <2>8, <4>1, CommandReads
      <4> QED
        BY <4>2 DEF CommandRead
    <3> QED
      BY <1>5, <3>1
  <2>10. obeyed \o Append(m.cmds, c) = Append(obeyed \o m.cmds, c)
    <3>1. m.cmds \in Seq(ReadCommand)
      BY <2>5 DEF ReadState
    <3>2. obeyed \in Seq(ReadCommand)
      BY <1>3
    <3> QED
      BY <1>9, <3>1, <3>2, CommandsAppend
  <2> HIDE DEF p
  <2>11. InStep(p, b, obeyed, src, t, ordered')
    BY <1>1, <2>7, <2>9, <2>10 DEF InStep
  <2> QED
    BY <1>2, <1>12, <2>6, <2>11 DEF Streams, f, b, t
<1> QED
  BY <1>2, <1>11, <1>12 DEF Inv
-----------------------------------------------------------------------------
(* The receiver                                                             *)

(* What is read of the front is read, and the rest is read from there on.   *)
LEMMA StreamAfter ==
  ASSUME NEW f \in ReadState, NEW B \in Seq(Octet), NEW O \in Seq(Octet),
         NEW n \in 0..Len(B)
  PROVE  /\ Drop(n, B) \in Seq(Octet) /\ Len(Drop(n, B)) = Len(B) - n
         /\ Drop(n, B) \o O \in Seq(Octet)
         /\ SubSeq(B, 1, n) \in Seq(Octet)
         /\ Read(f, SubSeq(B, 1, n)) \in ReadState
         /\ Read(f, B \o O) = Read(Read(f, SubSeq(B, 1, n)), Drop(n, B) \o O)
<1> DEFINE x == SubSeq(B, 1, n)
           y == Drop(n, B)
<1>1. x \in Seq(Octet)
  BY SeqFirst
<1>2. y \in Seq(Octet) /\ Len(y) = Len(B) - n
  BY SeqRest DEF Drop
<1>3. x \o y = B
  BY SeqSplit DEF Drop
<1> HIDE DEF x, y
<1>4. y \o O \in Seq(Octet)
  BY <1>2, BytesConcat
<1>5. (x \o y) \o O = x \o (y \o O)
  BY <1>1, <1>2, BytesAssociate
<1> DEFINE z == y \o O
<1>6. z \in Seq(Octet)
  BY <1>4
<1>7. B \o O = x \o z
  BY <1>3, <1>5
<1> HIDE DEF z
<1>8. Read(f, x \o z) = Read(Read(f, x), z)
  BY <1>1, <1>6, ReadConcat
<1>9. Read(f, x) \in ReadState
  BY <1>1, ReadIs
<1> QED
  BY <1>1, <1>2, <1>4, <1>7, <1>8, <1>9 DEF x, y, z

(* What decode has made of a buffer.                                        *)
DecodingHas(d, s, free, i) ==
  /\ d.bytes \in Seq(Octet) /\ Len(d.bytes) <= free /\ d.used \in 0..Len(s)
  /\ d.end \in BOOLEAN /\ d.over \in BOOLEAN
  /\ ~d.over => Read(Data(i, "data", <<>>), SubSeq(s, 1, d.used))
                  = Data(i, IF d.end THEN "gap" ELSE "data", d.bytes)

LEMMA DecodingsAre ==
  ASSUME NEW s \in Seq(Octet), NEW free \in Nat, NEW i \in Octet,
         NEW d \in Decodings(s, free)
  PROVE  DecodingHas(d, s, free, i)
<1> DEFINE w == Walk(s, free)
<1>1. DecodeHas(w, s, free, i)
  BY WalkIs
<1>2. CASE w.mode # "escaped"
  <2>1. d = [bytes |-> w.bytes, used |-> w.used, end |-> w.mode = "end", over |-> FALSE]
    BY <1>2 DEF Decodings
  <2> HIDE DEF w
  <2>2. /\ w.bytes \in Seq(Octet) /\ Len(w.bytes) <= free /\ w.used \in 0..Len(s)
        /\ w.mode \in {"plain", "end"}
        /\ Read(Data(i, "data", <<>>), SubSeq(s, 1, w.used)) = Data(i, Place(w.mode), w.bytes)
    BY <1>1, <1>2 DEF DecodeHas, DecodeState
  <2>3. CASE w.mode = "plain"
    <3>1. Place(w.mode) = "data" /\ ~(w.mode = "end")
      BY <2>3 DEF Place
    <3>2. d = [bytes |-> w.bytes, used |-> w.used, end |-> FALSE, over |-> FALSE]
      BY <2>1, <3>1
    <3> QED
      BY <2>2, <3>1, <3>2 DEF DecodingHas
  <2>4. CASE w.mode = "end"
    <3>1. Place(w.mode) = "gap"
      BY <2>4 DEF Place
    <3>2. d = [bytes |-> w.bytes, used |-> w.used, end |-> TRUE, over |-> FALSE]
      BY <2>1, <2>4
    <3> QED
      BY <2>2, <3>1, <3>2 DEF DecodingHas
  <2> QED
    BY <2>2, <2>3, <2>4
<1>3. CASE w.mode = "escaped"
  <2>1. PICK u \in Strays(w) :
          d = [bytes |-> w.bytes \o u, used |-> w.used, over |-> TRUE,
               end |-> Len(w.bytes \o u) < free]
    BY <1>3 DEF Decodings
  <2> HIDE DEF w
  <2>2. PICK k \in 1..(w.free - Len(w.bytes)) : u \in [1..k -> Byte]
    BY <2>1 DEF Strays
  <2>3. w.bytes \in Seq(Octet) /\ w.free = free /\ w.used \in 0..Len(s) /\ Len(w.bytes) \in Nat
    BY <1>1, LenProperties DEF DecodeHas, DecodeState
  <2>4. k \in Nat /\ Len(w.bytes) + k <= free
    BY <2>3
  <2>5. u \in Seq(Octet) /\ Len(u) = k
    <3>1. u \in [1..k -> Octet]
      BY <2>2, Constants
    <3>2. u \in Seq(Octet)
      BY <2>4, <3>1, SeqDef
    <3> QED
      BY <2>4, <3>1, <3>2, LenProperties
  <2>6. w.bytes \o u \in Seq(Octet) /\ Len(w.bytes \o u) = Len(w.bytes) + k
    BY <2>3, <2>5, BytesConcat
  <2>7. d.over = TRUE /\ d.bytes = w.bytes \o u /\ d.used = w.used /\ d.end \in BOOLEAN
    BY <2>1
  <2> QED
    BY <2>3, <2>4, <2>6, <2>7 DEF DecodingHas
<1> QED
  BY <1>2, <1>3

(* The rest of the tunnel means what the whole did, less what was decoded.  *)
LEMMA DecodedStream ==
  ASSUME NEW i \in Octet, i # 0, NEW B \in Seq(Octet), NEW O \in Seq(Octet),
         NEW n \in 0..Len(B), NEW x \in Seq(Octet), NEW to, to \in {0, i},
         Read(Data(i, "data", <<>>), SubSeq(B, 1, n))
           = Data(i, IF to = 0 THEN "gap" ELSE "data", x),
         NEW m, m = Read(Data(i, "data", <<>>), B \o O),
         NEW q, q = Read(Fresh(i, to), Drop(n, B) \o O)
  PROVE  q \in ReadState /\ Ahead(m, q, x, <<>>)
<1> DEFINE at == IF to = 0 THEN "gap" ELSE "data"
           f == Data(i, "data", <<>>)
           g == Data(i, at, x)
           h == Data(i, at, <<>>)
           R == Drop(n, B) \o O
<1>1. <<>> \in Seq(Octet) /\ "data" \in Places /\ at \in Places /\ <<>> \in Seq(ReadCommand)
  BY EmptySeq DEF Places
<1>2. f \in ReadState
  BY <1>1, DataIs
<1>3. g \in ReadState /\ h \in ReadState
  <2> HIDE DEF at
  <2> QED
    BY <1>1, DataIs
<1>4. /\ R \in Seq(Octet)
      /\ Read(f, B \o O) = Read(Read(f, SubSeq(B, 1, n)), R)
  <2> HIDE DEF f
  <2> QED
    BY <1>2, StreamAfter
<1>5. m = Read(g, R) /\ q = Read(h, R)
  BY <1>4 DEF Fresh
<1>6. Ahead(g, h, x, <<>>)
  <2>1. x \o <<>> = x
    BY ConcatEmptySeq
  <2>2. <<>> \o <<>> = <<>>
    BY <1>1, ConcatEmptySeq
  <2> HIDE DEF at
  <2> QED
    BY <2>1, <2>2 DEF Ahead, Data
<1> HIDE DEF g, h, R
<1>7. Ahead(Read(g, R), Read(h, R), x, <<>>)
  BY <1>1, <1>3, <1>4, <1>6, ReadAhead
<1>8. q \in ReadState
  BY <1>3, <1>4, <1>5, ReadIs
<1> QED
  BY <1>5, <1>7, <1>8

(* The receiver's part of Inv, for the record recv_from_tunnel works on.    *)
Receivers ==
  {r \in [in : Seq(Octet), dst : Seq(Octet), to : {0, id}, obeyed : Seq(ReadCommand),
          status : {"runs", "starting byte", "closed connection"},
          over : BOOLEAN, returned : BOOLEAN]
     : Len(r.in) <= TunnelSize /\ Len(r.dst) <= BufSize}

StandsAt(r, m) ==
  /\ r.status = "runs"
  /\ InStep(Read(m, r.in \o out), got \o r.dst, r.obeyed, src, SubSeq(text, 1, fed), ordered)

Kept(r) == r \in Receivers /\ (~r.over => StandsAt(r, Fresh(id, r.to)))

(* Decoded to the end of the frame or not: the place is that of sendingTo.  *)
LEMMA AfterDecodeKeeps ==
  ASSUME Types, NEW r \in Receivers, ~r.over => StandsAt(r, Data(id, "data", <<>>)),
         NEW x \in AfterDecode(r, id)
  PROVE  Kept(x) /\ (~x.returned => x.to = 0)
<1> DEFINE free == Room(r.dst, BufSize)
<1>1. PICK d \in Decodings(r.in, free) :
        x = [r EXCEPT !.in = Drop(d.used, r.in), !.dst = r.dst \o d.bytes,
                      !.over = r.over \/ d.over,
                      !.to = IF d.end THEN 0 ELSE id, !.returned = ~d.end]
  BY DEF AfterDecode
<1>2. /\ r.in \in Seq(Octet) /\ r.dst \in Seq(Octet)
      /\ Len(r.in) <= TunnelSize /\ Len(r.dst) <= BufSize
      /\ r.over \in BOOLEAN
  BY DEF Receivers
<1>3. id \in Octet /\ id # 0 /\ out \in Seq(Octet) /\ got \in Seq(Octet) /\ src \in Seq(Octet)
  BY Constants DEF Types
<1>4. free \in Nat /\ free = BufSize - Len(r.dst) /\ Len(r.dst) \in Nat
  <2>1. Len(r.dst) \in Nat /\ BufSize \in Nat
    BY <1>2, Constants, LenProperties
  <2> QED
    BY <1>2, <2>1 DEF Room
<1> HIDE DEF free
<1>5. DecodingHas(d, r.in, free, id)
  BY <1>2, <1>3, <1>4, DecodingsAre
<1>6. /\ d.bytes \in Seq(Octet) /\ Len(d.bytes) <= free /\ d.used \in 0..Len(r.in)
      /\ d.end \in BOOLEAN /\ d.over \in BOOLEAN
  BY <1>5 DEF DecodingHas
<1> DEFINE i2 == Drop(d.used, r.in)
           d2 == r.dst \o d.bytes
           to == IF d.end THEN 0 ELSE id
<1>7. i2 \in Seq(Octet) /\ Len(i2) <= TunnelSize
  <2>1. i2 \in Seq(Octet) /\ Len(i2) = Len(r.in) - d.used
    BY <1>2, <1>6, SeqRest DEF Drop
  <2> DEFINE k == Len(r.in)
  <2>2. k \in Nat /\ d.used \in 0..k /\ k <= TunnelSize /\ TunnelSize \in Nat
    BY <1>2, <1>6, Constants, LenProperties
  <2> HIDE DEF k
  <2>3. k - d.used <= TunnelSize
    BY <2>2
  <2> QED
    BY <2>1, <2>3 DEF k
<1>8. d2 \in Seq(Octet) /\ Len(d2) <= BufSize
  <2>1. d2 \in Seq(Octet) /\ Len(d2) = Len(r.dst) + Len(d.bytes)
    BY <1>2, <1>6, BytesConcat
  <2> DEFINE k == Len(r.dst)
             l == Len(d.bytes)
  <2>2. k \in Nat /\ l \in Nat /\ l <= BufSize - k /\ BufSize \in Nat
    BY <1>4, <1>6, Constants, LenProperties
  <2> HIDE DEF k, l
  <2>3. k + l <= BufSize
    BY <2>2
  <2> QED
    BY <2>1, <2>3 DEF k, l
<1>9. to \in {0, id} /\ (d.end => to = 0) /\ (~d.end => to = id)
  OBVIOUS
<1> HIDE DEF i2, d2, to
<1>10. /\ x.in = i2 /\ x.dst = d2 /\ x.to = to /\ x.obeyed = r.obeyed /\ x.status = r.status
       /\ x.over = (r.over \/ d.over) /\ x.returned = ~d.end
  BY <1>1 DEF Receivers, i2, d2, to
<1>11. x \in Receivers
  <2>1. x \in [in : Seq(Octet), dst : Seq(Octet), to : {0, id}, obeyed : Seq(ReadCommand),
               status : {"runs", "starting byte", "closed connection"},
               over : BOOLEAN, returned : BOOLEAN]
    BY <1>1, <1>7, <1>8, <1>9 DEF Receivers, i2, d2, to
  <2> QED
    BY <1>7, <1>8, <1>10, <2>1 DEF Receivers
<1>12. ASSUME ~x.over
       PROVE  StandsAt(x, Fresh(id, x.to))
  <2>1. ~r.over /\ ~d.over
    BY <1>10, <1>12
  <2> DEFINE m == Read(Data(id, "data", <<>>), r.in \o out)
             q == Read(Fresh(id, to), i2 \o out)
             b == got \o r.dst
             t == SubSeq(text, 1, fed)
  <2>2. /\ r.status = "runs"
        /\ m.at = "gap" /\ (b \o m.data) \o src = t /\ r.obeyed \o m.cmds = ordered
    BY <2>1 DEF StandsAt, InStep
  <2>3. Read(Data(id, "data", <<>>), SubSeq(r.in, 1, d.used))
          = Data(id, IF to = 0 THEN "gap" ELSE "data", d.bytes)
    <3>1. Read(Data(id, "data", <<>>), SubSeq(r.in, 1, d.used))
            = Data(id, IF d.end THEN "gap" ELSE "data", d.bytes)
      BY <1>5, <2>1 DEF DecodingHas
    <3>2. (IF d.end THEN "gap" ELSE "data") = (IF to = 0 THEN "gap" ELSE "data")
      BY <1>3, <1>9
    <3> QED
      BY <3>1, <3>2
  <2>4. q = Read(Fresh(id, to), Drop(d.used, r.in) \o out)
    BY DEF i2
  <2>5. m = Read(Data(id, "data", <<>>), r.in \o out)
    OBVIOUS
  <2> HIDE DEF m, q
  <2>9. /\ id \in Octet /\ id # 0 /\ r.in \in Seq(Octet) /\ out \in Seq(Octet)
        /\ d.used \in 0..Len(r.in) /\ d.bytes \in Seq(Octet) /\ to \in {0, id}
    BY <1>2, <1>3, <1>6, <1>9
  <2>10. q \in ReadState /\ Ahead(m, q, d.bytes, <<>>)
    BY <2>3, <2>4, <2>5, <2>9, DecodedStream
  <2>11. q.cmds \in Seq(ReadCommand) /\ q.data \in Seq(Octet)
    BY <2>10 DEF ReadState
  <2>12. <<>> \o q.cmds = q.cmds
    BY <2>11, ConcatEmptySeq
  <2>6. m.at = q.at /\ m.data = d.bytes \o q.data /\ m.cmds = q.cmds /\ q.data \in Seq(Octet)
    BY <2>10, <2>11, <2>12 DEF Ahead
  <2>7. (got \o d2) \o q.data = b \o m.data
    <3>1. got \o (r.dst \o d.bytes) = (got \o r.dst) \o d.bytes
      <4>1. got \in Seq(Octet) /\ r.dst \in Seq(Octet) /\ d.bytes \in Seq(Octet)
        BY <1>2, <1>3, <1>6
      <4> QED
        BY <4>1, BytesAssociate
    <3>2. b \in Seq(Octet)
      BY <1>2, <1>3, BytesConcat
    <3> HIDE DEF b
    <3>3. (b \o d.bytes) \o q.data = b \o (d.bytes \o q.data)
      BY <1>6, <2>6, <3>2, BytesAssociate
    <3> QED
      BY <2>6, <3>1, <3>3 DEF b, d2
  <2>8. InStep(q, got \o d2, r.obeyed, src, t, ordered)
    BY <2>2, <2>6, <2>7 DEF InStep
  <2> QED
    BY <1>10, <2>2, <2>8 DEF StandsAt, q
<1>13. ~x.returned => x.to = 0
  BY <1>6, <1>9, <1>10
<1> QED
  BY <1>11, <1>12, <1>13 DEF Kept

(* The two bytes a frame of data begins with.                               *)
LEMMA FrontReads ==
  ASSUME NEW i \in Octet, i # 0, NEW b \in Octet, NEW c \in Octet,
         NEW p, p = Read(Data(i, "gap", <<>>), <<b, c>>)
  PROVE  /\ p \in ReadState
         /\ b # END_BYTE => p.at = "broken"
         /\ c # 0 /\ c # i => p.at = "broken"
         /\ b = END_BYTE /\ c = i => p = Data(i, "data", <<>>)
<1> DEFINE g == Data(i, "gap", <<>>)
<1>1. g \in ReadState /\ g.at = "gap" /\ g.id = i
  <2>1. <<>> \in Seq(Octet) /\ "gap" \in Places
    BY EmptySeq DEF Places
  <2> QED
    BY <2>1, DataIs DEF Data
<1>2. p = Read(g, <<b, c>>)
  OBVIOUS
<1>3. b = END_BYTE => [g EXCEPT !.at = "id"] = Data(i, "id", <<>>)
  BY DEF Data
<1>4. [Data(i, "id", <<>>) EXCEPT !.at = "data"] = Data(i, "data", <<>>)
  BY DEF Data
<1> HIDE DEF g
<1>5. \E m1, m2 : m1 = ReadByte(g, b) /\ m2 = ReadByte(m1, c)
  OBVIOUS
<1>6. PICK m1, m2 : m1 = ReadByte(g, b) /\ m2 = ReadByte(m1, c)
  BY <1>5
<1>7. p = m2
  BY <1>1, <1>2, <1>6, ReadTwo
<1>8. m1 \in ReadState /\ m2 \in ReadState
  <2>1. m1 \in ReadState
    BY <1>1, <1>6, ReadByteIs
  <2> QED
    BY <1>6, <2>1, ReadByteIs
<1>9. CASE b # END_BYTE
  <2>1. m1 = [g EXCEPT !.at = "broken"]
    BY <1>1, <1>6, <1>9 DEF ReadByte
  <2>2. m1.at = "broken"
    BY <1>1, <2>1 DEF ReadState
  <2>3. m2.at = "broken"
    BY <1>6, <2>2 DEF ReadByte
  <2> QED
    BY <1>7, <1>8, <1>9, <2>3
<1>10. CASE b = END_BYTE
  <2>1. m1 = [g EXCEPT !.at = "id"]
    BY <1>1, <1>6, <1>10 DEF ReadByte
  <2>2. m1.at = "id" /\ m1.id = i
    BY <1>1, <2>1 DEF ReadState
  <2>3. CASE c # 0 /\ c # i
    <3>1. m2 = [m1 EXCEPT !.at = "broken"]
      BY <1>6, <2>2, <2>3 DEF ReadByte
    <3>2. m2.at = "broken"
      BY <1>8, <3>1 DEF ReadState
    <3> QED
      BY <1>7, <1>8, <1>10, <2>3, <3>2
  <2>4. CASE c = i
    <3>1. m2 = [m1 EXCEPT !.at = "data"]
      BY <1>6, <2>2, <2>4 DEF ReadByte
    <3> QED
      BY <1>3, <1>4, <1>7, <1>8, <1>10, <2>1, <2>4, <3>1
  <2>5. CASE c = 0
    BY <1>7, <1>8, <1>10, <2>5
  <2> QED
    BY <2>3, <2>4, <2>5
<1> QED
  BY <1>9, <1>10

(* From the end of a frame on: what the receiver refuses means nothing, and *)
(* behind the first two bytes of a frame of data there is data.             *)
LEMMA FrontOfStream ==
  ASSUME NEW i \in Octet, i # 0, NEW B \in Seq(Octet), NEW O \in Seq(Octet), Len(B) >= 2,
         NEW m, m = Read(Data(i, "gap", <<>>), B \o O)
  PROVE  /\ B[1] # END_BYTE => m.at = "broken"
         /\ B[2] # 0 /\ B[2] # i => m.at = "broken"
         /\ B[1] = END_BYTE /\ B[2] = i
              => m = Read(Data(i, "data", <<>>), Drop(2, B) \o O)
<1> DEFINE g == Data(i, "gap", <<>>)
           p == Read(g, <<B[1], B[2]>>)
           R == Drop(2, B) \o O
<1>1. g \in ReadState
  <2>1. <<>> \in Seq(Octet) /\ "gap" \in Places
    BY EmptySeq DEF Places
  <2> QED
    BY <2>1, DataIs
<1>2. 2 \in 0..Len(B) /\ B[1] \in Octet /\ B[2] \in Octet
  <2>1. Len(B) \in Nat /\ 1 \in 1..Len(B) /\ 2 \in 1..Len(B)
    BY LenProperties
  <2> QED
    BY <2>1, ElementOfSeq
<1>3. SubSeq(B, 1, 2) = <<B[1], B[2]>>
  BY FrontTwo
<1>4. R \in Seq(Octet) /\ Read(g, B \o O) = Read(Read(g, SubSeq(B, 1, 2)), R)
  <2> HIDE DEF g
  <2> QED
    BY <1>1, <1>2, StreamAfter
<1>5. m = Read(p, R)
  BY <1>3, <1>4
<1>6. /\ p \in ReadState
      /\ B[1] # END_BYTE => p.at = "broken"
      /\ B[2] # 0 /\ B[2] # i => p.at = "broken"
      /\ B[1] = END_BYTE /\ B[2] = i => p = Data(i, "data", <<>>)
  BY <1>2, FrontReads
<1> HIDE DEF p, R
<1>7. p.at = "broken" => m.at = "broken"
  BY <1>4, <1>5, <1>6, BrokenStays
<1> QED
  BY <1>5, <1>6, <1>7 DEF R

(* Five bytes that begin like a command are one, in a stream in step.       *)
LEMMA CommandOfStream ==
  ASSUME NEW i \in Octet, NEW B \in Seq(Octet), NEW O \in Seq(Octet), Len(B) >= 5,
         B[1] = END_BYTE, B[2] = 0,
         NEW m, m = Read(Data(i, "gap", <<>>), B \o O), m.at = "gap",
         NEW q, q = Read(Data(i, "gap", <<>>), Drop(5, B) \o O),
         NEW c, c = [cmd |-> B[3], arg |-> B[4]]
  PROVE  q \in ReadState /\ c \in ReadCommand /\ Ahead(m, q, <<>>, <<c>>)
<1> DEFINE g == Data(i, "gap", <<>>)
           s == SubSeq(B, 1, 5)
           p == Read(g, s)
           R == Drop(5, B) \o O
<1>1. g \in ReadState /\ g.at = "gap" /\ g.id = i /\ g.data = <<>> /\ g.cmds = <<>>
  <2>1. <<>> \in Seq(Octet) /\ "gap" \in Places
    BY EmptySeq DEF Places
  <2> QED
    BY <2>1, DataIs DEF Data
<1>2. 5 \in 0..Len(B)
  BY LenProperties
<1>3. /\ s \in Seq(Octet) /\ Len(s) = 5 /\ s[1] = END_BYTE /\ s[2] = 0
      /\ s[3] = B[3] /\ s[4] = B[4]
  BY <1>2, SeqFirst
<1>4. m = Read(g, B \o O) /\ q = Read(g, R)
  OBVIOUS
<1> HIDE DEF g
<1>5. R \in Seq(Octet) /\ Read(g, B \o O) = Read(p, R)
  BY <1>1, <1>2, StreamAfter
<1> HIDE DEF s, R
<1>6. c = [cmd |-> s[3], arg |-> s[4]]
  BY <1>3
<1>7. p \in ReadState /\ c \in ReadCommand
  BY <1>1, <1>3, <1>6, CommandReads
<1>8. CommandRead(g, p, s, c)
  BY <1>1, <1>3, <1>6, CommandReads
<1> HIDE DEF p
<1>11. m = Read(p, R)
  BY <1>4, <1>5
<1>12. p.at # "broken"
  <2>1. p.at = "broken" => m.at = "broken"
    BY <1>5, <1>7, <1>11, BrokenStays
  <2> QED
    BY <2>1
<1>13. p.at = "gap" /\ p.id = g.id /\ p.data = g.data /\ p.cmds = Append(g.cmds, c)
  BY <1>8, <1>12 DEF CommandRead
<1>14. <<c>> \in Seq(ReadCommand) /\ Append(<<>>, c) = <<c>> /\ <<>> \in Seq(Octet)
  BY <1>7, AppendOne, EmptySeq
<1>15. Ahead(p, g, <<>>, <<c>>)
  <2>1. <<>> \o <<>> = <<>>
    BY <1>14, ConcatEmptySeq
  <2>2. <<c>> \o <<>> = <<c>>
    BY <1>14, ConcatEmptySeq
  <2> QED
    BY <1>1, <1>13, <1>14, <2>1, <2>2 DEF Ahead
<1>16. Ahead(Read(p, R), Read(g, R), <<>>, <<c>>)
  BY <1>1, <1>5, <1>7, <1>14, <1>15, ReadAhead
<1>17. q \in ReadState
  BY <1>1, <1>4, <1>5, ReadIs
<1> QED
  BY <1>4, <1>7, <1>11, <1>16, <1>17

LEMMA CommandMoves ==
  ASSUME NEW s \in Seq(ReadCommand), NEW t \in Seq(ReadCommand), NEW c \in ReadCommand
  PROVE  Append(s, c) \in Seq(ReadCommand) /\ s \o (<<c>> \o t) = Append(s, c) \o t
<1>1. <<c>> \in Seq(ReadCommand) /\ Append(s, c) = s \o <<c>> /\ Append(s, c) \in Seq(ReadCommand)
  BY AppendOne, AppendIsConcat, AppendProperties
<1> DEFINE u == <<c>>
<1> HIDE DEF u
<1>2. u \in Seq(ReadCommand) /\ Append(s, c) = s \o u
  BY <1>1 DEF u
<1>3. (s \o u) \o t = s \o (u \o t)
  BY <1>2, ConcatAssociative
<1> QED
  BY <1>1, <1>2, <1>3 DEF u

LEMMA NextFrameKeeps ==
  ASSUME Types, NEW r, Kept(r), ~r.returned => r.to = 0, NEW x \in NextFrame(r)
  PROVE  Kept(x)
<1>1. /\ r \in Receivers /\ r.in \in Seq(Octet) /\ r.dst \in Seq(Octet)
      /\ r.obeyed \in Seq(ReadCommand)
      /\ Len(r.in) <= TunnelSize /\ Len(r.dst) <= BufSize
      /\ ~r.over => StandsAt(r, Fresh(id, r.to))
  BY DEF Kept, Receivers
<1>2. id \in Octet /\ id # 0 /\ out \in Seq(Octet) /\ Len(r.in) \in Nat /\ TunnelSize \in Nat
  BY <1>1, Constants, LenProperties DEF Types
<1> DEFINE m == Read(Data(id, "gap", <<>>), r.in \o out)
           b == got \o r.dst
           t == SubSeq(text, 1, fed)
<1>3. ASSUME ~r.over, ~r.returned
      PROVE  r.status = "runs" /\ InStep(m, b, r.obeyed, src, t, ordered) /\ m.at = "gap"
  <2>1. Fresh(id, r.to) = Data(id, "gap", <<>>)
    BY <1>3 DEF Fresh
  <2> QED
    BY <1>1, <1>3, <2>1 DEF StandsAt, InStep
<1>4. m = Read(Data(id, "gap", <<>>), r.in \o out)
  OBVIOUS
<1> HIDE DEF m, b, t
<1>5. CASE r.returned \/ Len(r.in) < MinFrame
  BY <1>5 DEF NextFrame
<1>6. CASE ~(r.returned \/ Len(r.in) < MinFrame) /\ r.in[1] # END_BYTE
  <2>1. x = [r EXCEPT !.status = "starting byte"]
    BY <1>6 DEF NextFrame
  <2>2. Len(r.in) >= 2
    BY <1>2, <1>6 DEF MinFrame
  <2>3. r.over
    BY <1>1, <1>2, <1>3, <1>4, <1>6, <2>2, FrontOfStream
  <2>4. x \in Receivers /\ x.over = r.over
    BY <1>1, <2>1 DEF Receivers
  <2> QED
    BY <2>3, <2>4 DEF Kept
<1>7. CASE /\ ~(r.returned \/ Len(r.in) < MinFrame) /\ r.in[1] = END_BYTE
           /\ r.in[2] = 0 /\ Len(r.in) < CommandSize
  BY <1>7 DEF NextFrame
<1>8. CASE /\ ~(r.returned \/ Len(r.in) < MinFrame) /\ r.in[1] = END_BYTE
           /\ r.in[2] = 0 /\ ~(Len(r.in) < CommandSize)
  <2> DEFINE c == CommandAt(r.in)
             i2 == Drop(5, r.in)
             o2 == Append(r.obeyed, c)
  <2>1. x = [r EXCEPT !.obeyed = o2, !.in = i2]
    BY <1>8 DEF NextFrame, CommandSize
  <2>2. c = [cmd |-> r.in[3], arg |-> r.in[4]] /\ Len(r.in) >= 5
    BY <1>2, <1>8 DEF CommandAt, CommandSize
  <2>3. c \in ReadCommand
    <3>1. 3 \in 1..Len(r.in) /\ 4 \in 1..Len(r.in)
      BY <1>2, <2>2
    <3>2. r.in[3] \in Octet /\ r.in[4] \in Octet
      BY <1>1, <3>1, ElementOfSeq
    <3> QED
      BY <2>2, <3>2 DEF ReadCommand
  <2>4. i2 \in Seq(Octet) /\ Len(i2) <= TunnelSize
    <3>1. 5 \in 0..Len(r.in)
      BY <1>2, <2>2
    <3>2. i2 \in Seq(Octet) /\ Len(i2) = Len(r.in) - 5
      BY <1>1, <3>1, SeqRest DEF Drop
    <3> QED
      BY <1>1, <1>2, <3>2
  <2> HIDE DEF c, i2
  <2>5. o2 \in Seq(ReadCommand)
    BY <1>1, <2>3, AppendProperties
  <2> HIDE DEF o2
  <2>6. x \in Receivers
    BY <1>1, <2>1, <2>4, <2>5 DEF Receivers
  <2>7. /\ x.over = r.over /\ x.to = r.to /\ x.in = i2 /\ x.dst = r.dst /\ x.obeyed = o2
        /\ x.status = r.status
    BY <1>1, <2>1 DEF Receivers
  <2>8. ASSUME ~x.over
        PROVE  StandsAt(x, Fresh(id, x.to))
    <3> DEFINE q == Read(Data(id, "gap", <<>>), i2 \o out)
    <3>1. ~r.over /\ ~r.returned
      BY <1>8, <2>7, <2>8
    <3>2. /\ r.status = "runs" /\ m.at = "gap" /\ (b \o m.data) \o src = t
          /\ r.obeyed \o m.cmds = ordered
      BY <1>3, <3>1 DEF InStep
    <3>3. q = Read(Data(id, "gap", <<>>), Drop(5, r.in) \o out)
      BY DEF i2
    <3>4. Fresh(id, x.to) = Data(id, "gap", <<>>)
      BY <2>7, <3>1 DEF Fresh
    <3>5. q = Read(Fresh(id, x.to), x.in \o out)
      BY <2>7, <3>4
    <3> HIDE DEF q
    <3>6. q \in ReadState /\ Ahead(m, q, <<>>, <<c>>)
      BY <1>1, <1>2, <1>4, <1>8, <2>2, <3>2, <3>3, CommandOfStream
    <3>7. q.data \in Seq(Octet) /\ q.cmds \in Seq(ReadCommand)
      BY <3>6 DEF ReadState
    <3>8. <<>> \o q.data = q.data
      BY <3>7, ConcatEmptySeq
    <3>9. m.at = q.at /\ m.data = q.data /\ m.cmds = <<c>> \o q.cmds
      BY <3>6, <3>8 DEF Ahead
    <3>10. r.obeyed \o (<<c>> \o q.cmds) = o2 \o q.cmds
      BY <1>1, <2>3, <3>7, CommandMoves DEF o2
    <3>11. InStep(q, b, o2, src, t, ordered)
      BY <3>2, <3>9, <3>10 DEF InStep
    <3> QED
      BY <2>7, <3>2, <3>5, <3>11 DEF StandsAt, b, t
  <2> QED
    BY <2>6, <2>8 DEF Kept
<1>9. CASE /\ ~(r.returned \/ Len(r.in) < MinFrame) /\ r.in[1] = END_BYTE
           /\ r.in[2] # 0 /\ r.in[2] # id
  <2>1. x = [r EXCEPT !.status = "closed connection"]
    BY <1>9 DEF NextFrame
  <2>2. Len(r.in) >= 2
    BY <1>2, <1>9 DEF MinFrame
  <2>3. r.over
    BY <1>1, <1>2, <1>3, <1>4, <1>9, <2>2, FrontOfStream
  <2>4. x \in Receivers /\ x.over = r.over
    BY <1>1, <2>1 DEF Receivers
  <2> QED
    BY <2>3, <2>4 DEF Kept
<1>10. CASE /\ ~(r.returned \/ Len(r.in) < MinFrame) /\ r.in[1] = END_BYTE
            /\ r.in[2] # 0 /\ r.in[2] = id
  <2> DEFINE i2 == Drop(2, r.in)
             k == [r EXCEPT !.in = i2]
  <2>1. x \in AfterDecode(k, id)
    BY <1>10 DEF NextFrame
  <2>2. Len(r.in) >= 2
    BY <1>2, <1>10 DEF MinFrame
  <2>3. i2 \in Seq(Octet) /\ Len(i2) <= TunnelSize
    <3>1. 2 \in 0..Len(r.in)
      BY <1>2, <2>2
    <3>2. i2 \in Seq(Octet) /\ Len(i2) = Len(r.in) - 2
      BY <1>1, <3>1, SeqRest DEF Drop
    <3> QED
      BY <1>1, <1>2, <3>2
  <2>4. i2 = Drop(2, r.in)
    OBVIOUS
  <2> HIDE DEF i2
  <2>5. k \in Receivers
    BY <1>1, <2>3 DEF Receivers
  <2>6. /\ k.over = r.over /\ k.in = i2 /\ k.dst = r.dst /\ k.obeyed = r.obeyed
        /\ k.status = r.status
    BY <1>1 DEF Receivers
  <2> HIDE DEF k
  <2>7. ASSUME ~k.over
        PROVE  StandsAt(k, Data(id, "data", <<>>))
    <3>1. ~r.over /\ ~r.returned
      BY <1>10, <2>6, <2>7
    <3>2. r.status = "runs" /\ InStep(m, b, r.obeyed, src, t, ordered)
      BY <1>3, <3>1
    <3>3. m = Read(Data(id, "data", <<>>), Drop(2, r.in) \o out)
      BY <1>1, <1>2, <1>4, <1>10, <2>2, FrontOfStream
    <3> QED
      BY <2>4, <2>6, <3>2, <3>3 DEF StandsAt, b, t
  <2> QED
    BY <2>1, <2>5, <2>7, AfterDecodeKeeps
<1> QED
  BY <1>5, <1>6, <1>7, <1>8, <1>9, <1>10

LEMMA ReceiveStep == Inv /\ Receive => Inv'
<1> SUFFICES ASSUME Inv, Receive
             PROVE  Inv'
  OBVIOUS
<1>1. /\ status = "runs"
      /\ \E c \in Continued(Now) : \E r \in NextFrame(c) :
           /\ in' = r.in /\ dst' = r.dst /\ sendingTo' = r.to
           /\ obeyed' = r.obeyed /\ status' = r.status /\ overrun' = r.over
      /\ UNCHANGED <<id, text, fed, src, out, got, ordered>>
  BY DEF Receive, connection
<1>2. Types /\ (~overrun => Streams)
  BY DEF Inv
<1>3. Kept(Now) /\ Now.to = sendingTo /\ Now.returned = FALSE
  <2>1. Now \in Receivers
    BY <1>2 DEF Now, Receivers, Types
  <2>2. /\ Now.in = in /\ Now.dst = dst /\ Now.to = sendingTo /\ Now.obeyed = obeyed
        /\ Now.status = status /\ Now.over = overrun /\ Now.returned = FALSE
    BY DEF Now
  <2>3. ASSUME ~Now.over
        PROVE  StandsAt(Now, Fresh(id, Now.to))
    <3>1. Streams
      BY <1>2, <2>2, <2>3
    <3> QED
      BY <2>2, <3>1 DEF Streams, StandsAt
  <2> QED
    BY <2>1, <2>2, <2>3 DEF Kept
<1>4. PICK c \in Continued(Now) : \E r \in NextFrame(c) :
        /\ in' = r.in /\ dst' = r.dst /\ sendingTo' = r.to
        /\ obeyed' = r.obeyed /\ status' = r.status /\ overrun' = r.over
  BY <1>1
<1>5. PICK r \in NextFrame(c) :
        /\ in' = r.in /\ dst' = r.dst /\ sendingTo' = r.to
        /\ obeyed' = r.obeyed /\ status' = r.status /\ overrun' = r.over
  BY <1>4
<1>6. Kept(c) /\ (~c.returned => c.to = 0)
  <2>1. CASE sendingTo = 0
    <3>1. c = Now
      BY <1>3, <2>1 DEF Continued
    <3> QED
      BY <1>3, <2>1, <3>1
  <2>2. CASE sendingTo # 0
    <3>1. sendingTo = id
      BY <1>2, <2>2 DEF Types
    <3>2. c \in AfterDecode(Now, id)
      BY <1>3, <2>2, <3>1 DEF Continued
    <3>3. Now \in Receivers
      BY <1>3 DEF Kept
    <3>4. Fresh(id, Now.to) = Data(id, "data", <<>>)
      BY <1>3, <2>2 DEF Fresh
    <3>5. ~Now.over => StandsAt(Now, Data(id, "data", <<>>))
      BY <1>3, <3>4 DEF Kept
    <3> QED
      BY <1>2, <3>2, <3>3, <3>5, AfterDecodeKeeps
  <2> QED
    BY <2>1, <2>2
<1>7. Kept(r)
  BY <1>2, <1>5, <1>6, NextFrameKeeps
<1>8. Types'
  <2>1. /\ r.in \in Seq(Octet) /\ r.dst \in Seq(Octet) /\ r.to \in {0, id}
        /\ r.obeyed \in Seq(ReadCommand)
        /\ r.status \in {"runs", "starting byte", "closed connection"}
        /\ r.over \in BOOLEAN /\ Len(r.in) <= TunnelSize /\ Len(r.dst) <= BufSize
    BY <1>7 DEF Kept, Receivers
  <2> QED
    BY <1>1, <1>2, <1>5, <2>1 DEF Types
<1>9. ASSUME ~overrun'
      PROVE  Streams'
  <2>1. StandsAt(r, Fresh(id, r.to))
    BY <1>5, <1>7, <1>9 DEF Kept
  <2> QED
    BY <1>1, <1>5, <2>1 DEF StandsAt, Streams
<1> QED
  BY <1>8, <1>9 DEF Inv
-----------------------------------------------------------------------------
(* Whatever the kernel and the applications do, from whatever text.         *)
THEOREM CodecInvariant == Spec => []Inv
<1>1. Init => Inv
  BY InitInv
<1>2. Inv /\ [Next]_vars => Inv'
  <2> SUFFICES ASSUME Inv, [Next]_vars
               PROVE  Inv'
    OBVIOUS
  <2>1. CASE Next
    BY <2>1, FeedStep, EncodeStep, EncodeCommandStep, CarryStep, ReceiveStep, DrainStep DEF Next
  <2>2. CASE UNCHANGED vars
    BY <2>2 DEF vars, connection, receiver, Inv, Types, Streams
  <2> QED
    BY <2>1, <2>2
<1> QED
  BY <1>1, <1>2, PTL DEF Spec

(* Codec!TypeOK: pump.c's unchecked iterators never write past the room     *)
(* there was, neither into the tunnel's buffer nor into a connection's.     *)
THEOREM CodecTypeOK == Spec => []TypeOK
<1>1. Inv => TypeOK
  BY InvMeans
<1> QED
  BY <1>1, CodecInvariant, PTL

(* Codec!NothingLost: until a piece ends between an escape and the byte     *)
(* behind it, encode and decode lose, double and change no byte.            *)
THEOREM CodecNothingLost == Spec => []NothingLost
<1>1. Inv => NothingLost
  BY InvMeans
<1> QED
  BY <1>1, CodecInvariant, PTL

(* Codec!FramesInStep: until then the exit of recv_from_tunnel for a wrong  *)
(* starting byte is never taken, whatever the data.                         *)
THEOREM CodecFramesInStep == Spec => []FramesInStep
<1>1. Inv => FramesInStep
  BY InvMeans
<1> QED
  BY <1>1, CodecInvariant, PTL

(* Codec!CommandsIntact: until then every command is handled once, in       *)
(* order and with its own argument.                                         *)
THEOREM CodecCommandsIntact == Spec => []CommandsIntact
<1>1. Inv => CommandsIntact
  BY InvMeans
<1> QED
  BY <1>1, CodecInvariant, PTL
=============================================================================
