--------------------------- MODULE SequenceLemmas ---------------------------
(***************************************************************************)
(* What the proofs need of sequences over and over: a buffer is filled at  *)
(* its end and taken from at its front; the principles by which they       *)
(* reason about loops, stated for sets rather than for predicates; and     *)
(* what the fold of the community modules is: the last state of a run, the *)
(* states of a loop after each of its turns.                               *)
(***************************************************************************)
EXTENDS Integers, SequencesExt, SequenceTheorems, WellFoundedInduction, TLAPS

(* The least number principle.                                              *)
LEMMA LeastNat ==
  ASSUME NEW T \in SUBSET Nat, T # {}
  PROVE  \E n \in T : \A m \in T : n <= m
<1> DEFINE R == {p \in Nat \X Nat : p[1] < p[2]}
<1>1. IsWellFoundedOn(OpToRel(<, Nat), Nat)
  BY NatLessThanWellFounded
<1>2. OpToRel(<, Nat) = R
  BY DEF OpToRel
<1>3. IsWellFoundedOn(R, Nat)
  BY <1>1, <1>2
<1> HIDE DEF R
<1>4. PICK n \in T : \A m \in T : ~(<<m, n>> \in R)
  BY <1>3, WFMin
<1>5. ASSUME NEW m \in T
      PROVE  n <= m
  <2>1. m \in Nat /\ n \in Nat
    OBVIOUS
  <2>2. m < n => <<m, n>> \in R
    BY <2>1 DEF R
  <2> QED
    BY <1>4, <2>1, <2>2
<1> QED
  BY <1>5

(* Induction up to n: what holds at 0 and is passed on holds up to n.       *)
LEMMA InductionTo ==
  ASSUME NEW n \in Nat, NEW T, 0 \in T,
         \A i \in 0..(n - 1) : i \in T => i + 1 \in T
  PROVE  \A i \in 0..n : i \in T
<1> DEFINE U == {i \in 0..n : i \notin T}
<1> SUFFICES ASSUME U # {}
             PROVE  FALSE
  OBVIOUS
<1>1. U \in SUBSET Nat
  OBVIOUS
<1>2. PICK i \in U : \A j \in U : i <= j
  BY <1>1, LeastNat
<1>3. i \in 0..n /\ i \notin T /\ i # 0
  OBVIOUS
<1>4. i - 1 \in 0..(n - 1) /\ i - 1 \in 0..n /\ ~(i <= i - 1) /\ (i - 1) + 1 = i
  BY <1>3
<1>5. i - 1 \in T
  BY <1>2, <1>4
<1> QED
  BY <1>3, <1>4, <1>5

(* The first n bytes are taken.                                             *)
LEMMA SeqFirst ==
  ASSUME NEW S, NEW s \in Seq(S), NEW n \in 0..Len(s)
  PROVE  /\ SubSeq(s, 1, n) \in Seq(S)
         /\ Len(SubSeq(s, 1, n)) = n
         /\ \A i \in 1..n : SubSeq(s, 1, n)[i] = s[i]
<1>1. n \in Nat /\ Len(s) \in Nat /\ n <= Len(s)
  OBVIOUS
<1>2. \A i \in 1..n : s[i] \in S
  BY <1>1, ElementOfSeq
<1>3. /\ SubSeq(s, 1, n) \in Seq(S)
      /\ Len(SubSeq(s, 1, n)) = IF 1 <= n THEN n - 1 + 1 ELSE 0
  BY <1>1, <1>2, SubSeqProperties
<1> QED
  BY <1>1, <1>3, SubSeqProperties

(* The rest stays.                                                          *)
LEMMA SeqRest ==
  ASSUME NEW S, NEW s \in Seq(S), NEW n \in 0..Len(s)
  PROVE  /\ SubSeq(s, n + 1, Len(s)) \in Seq(S)
         /\ Len(SubSeq(s, n + 1, Len(s))) = Len(s) - n
         /\ \A i \in 1..(Len(s) - n) : SubSeq(s, n + 1, Len(s))[i] = s[n + i]
<1>1. n \in Nat /\ Len(s) \in Nat /\ n <= Len(s)
  OBVIOUS
<1>2. \A i \in (n + 1)..Len(s) : s[i] \in S
  BY <1>1, ElementOfSeq
<1>3. /\ SubSeq(s, n + 1, Len(s)) \in Seq(S)
      /\ Len(SubSeq(s, n + 1, Len(s))) = IF n + 1 <= Len(s) THEN Len(s) - (n + 1) + 1 ELSE 0
  BY <1>1, <1>2, SubSeqProperties
<1> QED
  BY <1>1, <1>3, SubSeqProperties

(* Both together are what there was.                                        *)
LEMMA SeqSplit ==
  ASSUME NEW S, NEW s \in Seq(S), NEW n \in 0..Len(s)
  PROVE  SubSeq(s, 1, n) \o SubSeq(s, n + 1, Len(s)) = s
<1> DEFINE a == SubSeq(s, 1, n)
           b == SubSeq(s, n + 1, Len(s))
<1>1. n \in Nat /\ Len(s) \in Nat /\ n <= Len(s)
  OBVIOUS
<1>2. a \in Seq(S) /\ Len(a) = n /\ \A i \in 1..n : a[i] = s[i]
  BY SeqFirst
<1>3. b \in Seq(S) /\ Len(b) = Len(s) - n /\ \A i \in 1..(Len(s) - n) : b[i] = s[n + i]
  BY SeqRest
<1> HIDE DEF a, b
<1>4. /\ a \o b \in Seq(S) /\ Len(a \o b) = Len(a) + Len(b)
      /\ \A i \in 1..(Len(a) + Len(b)) :
           (a \o b)[i] = IF i <= Len(a) THEN a[i] ELSE b[i - Len(a)]
  BY <1>2, <1>3, ConcatProperties
<1>5. Len(a \o b) = Len(s)
  BY <1>1, <1>2, <1>3, <1>4
<1>6. ASSUME NEW i \in 1..Len(s)
      PROVE  (a \o b)[i] = s[i]
  <2>1. CASE i <= n
    BY <1>1, <1>2, <1>3, <1>4, <2>1
  <2>2. CASE i > n
    <3>1. /\ i - n \in 1..(Len(s) - n) /\ n + (i - n) = i
          /\ i \in 1..(Len(a) + Len(b)) /\ ~(i <= Len(a)) /\ i - Len(a) = i - n
      BY <1>1, <1>2, <1>3, <2>2
    <3>2. b[i - n] = s[n + (i - n)]
      BY <1>3, <3>1
    <3>3. (a \o b)[i] = b[i - Len(a)]
      BY <1>4, <3>1
    <3> QED
      BY <3>1, <3>2, <3>3
  <2>3. i <= n \/ i > n
    BY <1>1
  <2> QED
    BY <2>1, <2>2, <2>3
<1>7. a \o b = s
  BY <1>4, <1>5, <1>6, SeqEqual
<1> QED
  BY <1>7 DEF a, b

(* What is removed from the front of a concatenation is removed from its    *)
(* first part.                                                              *)
LEMMA SeqDropConcat ==
  ASSUME NEW S, NEW s \in Seq(S), NEW t \in Seq(S), NEW n \in 0..Len(s)
  PROVE  SubSeq(s \o t, n + 1, Len(s \o t)) = SubSeq(s, n + 1, Len(s)) \o t
<1> DEFINE a == SubSeq(s, 1, n)
           b == SubSeq(s, n + 1, Len(s))
           c == s \o t
<1>1. n \in Nat /\ Len(s) \in Nat /\ n <= Len(s) /\ Len(t) \in Nat
  OBVIOUS
<1>2. b \in Seq(S) /\ Len(b) = Len(s) - n /\ \A i \in 1..(Len(s) - n) : b[i] = s[n + i]
  BY SeqRest
<1>3. /\ c \in Seq(S) /\ Len(c) = Len(s) + Len(t)
      /\ \A i \in 1..(Len(s) + Len(t)) : c[i] = IF i <= Len(s) THEN s[i] ELSE t[i - Len(s)]
  BY ConcatProperties
<1> HIDE DEF b, c
<1>4. /\ b \o t \in Seq(S) /\ Len(b \o t) = Len(b) + Len(t)
      /\ \A i \in 1..(Len(b) + Len(t)) :
           (b \o t)[i] = IF i <= Len(b) THEN b[i] ELSE t[i - Len(b)]
  BY <1>2, ConcatProperties
<1>5. n \in 0..Len(c)
  BY <1>1, <1>3
<1> DEFINE d == SubSeq(c, n + 1, Len(c))
<1>6. d \in Seq(S) /\ Len(d) = Len(c) - n /\ \A i \in 1..(Len(c) - n) : d[i] = c[n + i]
  BY <1>3, <1>5, SeqRest
<1> HIDE DEF d
<1>7. Len(d) = Len(b \o t)
  BY <1>1, <1>2, <1>3, <1>4, <1>6
<1>8. ASSUME NEW i \in 1..Len(d)
      PROVE  d[i] = (b \o t)[i]
  <2>1. /\ i \in Nat /\ n + i \in 1..(Len(s) + Len(t)) /\ i \in 1..(Len(c) - n)
        /\ i \in 1..(Len(b) + Len(t))
    BY <1>1, <1>2, <1>3, <1>6
  <2>2. d[i] = IF n + i <= Len(s) THEN s[n + i] ELSE t[n + i - Len(s)]
    BY <1>3, <1>6, <2>1, SMTT(30)
  <2>3. CASE i <= Len(s) - n
    <3>1. i \in 1..(Len(s) - n) /\ n + i <= Len(s)
      BY <1>1, <2>1, <2>3
    <3> QED
      BY <1>1, <1>2, <1>4, <2>1, <2>2, <3>1
  <2>4. CASE i > Len(s) - n
    <3>1. i - Len(b) = n + i - Len(s) /\ ~(n + i <= Len(s)) /\ ~(i <= Len(b))
      BY <1>1, <1>2, <2>1, <2>4
    <3> QED
      BY <1>4, <2>1, <2>2, <3>1
  <2> QED
    BY <1>1, <2>1, <2>3, <2>4, SMTT(30)
<1>9. d = b \o t
  BY <1>4, <1>6, <1>7, <1>8, SeqEqual
<1> QED
  BY <1>9 DEF b, c, d
-----------------------------------------------------------------------------

(* The greatest element of a set of numbers.                                *)
LEMMA MaxOfPart ==
  ASSUME NEW k \in Nat, NEW T \in SUBSET (1..k), T # {}
  PROVE  Max(T) \in T /\ \A t \in T : t <= Max(T)
<1> DEFINE U == {n \in Nat : \A t \in T : t <= n}
<1>1. T \subseteq Nat /\ U \subseteq Nat
  OBVIOUS
<1>2. k \in U
  OBVIOUS
<1>3. PICK n \in U : \A u \in U : n <= u
  BY <1>1, <1>2, LeastNat
<1>4. n \in T
  <2> SUFFICES ASSUME n \notin T
               PROVE  FALSE
    OBVIOUS
  <2>1. PICK t \in T : TRUE
    OBVIOUS
  <2>2. t \in Nat /\ t > 0 /\ t <= n /\ n \in Nat
    BY <1>3, <2>1
  <2>3. \A s \in T : s <= n - 1
    BY <1>1, <1>3, <2>2
  <2>4. n - 1 \in U
    BY <2>2, <2>3
  <2> QED
    BY <1>3, <2>2, <2>4
<1>5. \E x \in T : \A y \in T : x >= y
  BY <1>1, <1>3, <1>4
<1> QED
  BY <1>1, <1>5 DEF Max
-----------------------------------------------------------------------------
(* The folds                                                                *)

(* F is the turn of a loop: from the state it has in S, by an element of A. *)
LoopTurn(F, x, b) == F[<<x, b>>]

IsLoopTurn(F, S, A) == \A x \in S : \A b \in A : LoopTurn(F, x, b) \in S

(* What a loop over s has after each turn.                                  *)
LoopRun(w, S, F, a, s) ==
  /\ w \in [0..Len(s) -> S] /\ w[0] = a
  /\ \A i \in 1..Len(s) : w[i] = LoopTurn(F, w[i - 1], s[i])

(* The recursion of the fold of the community modules.                      *)
Recursion(h, F, a, s) ==
  \A t \in SUBSET (1..Len(s)) :
    h[t] = IF t = {} THEN a ELSE LoopTurn(F, h[t \ {Max(t)}], s[Max(t)])

LEMMA RecursionExists ==
  ASSUME NEW S, NEW A, NEW a \in S, NEW s \in Seq(A), NEW F, IsLoopTurn(F, S, A)
  PROVE  \E h : h \in [SUBSET (1..Len(s)) -> S] /\ Recursion(h, F, a, s)
<1> DEFINE n == Len(s)
           Solves(h, k) ==
             \A t \in SUBSET (1..k) :
               h[t] = IF t = {} THEN a ELSE LoopTurn(F, h[t \ {Max(t)}], s[Max(t)])
           Solved(k) == \E h \in [SUBSET (1..k) -> S] : Solves(h, k)
           T == {k \in 0..n : Solved(k)}
<1>0. n \in Nat /\ \A i \in 1..n : s[i] \in A
  BY LenProperties, ElementOfSeq
<1> HIDE DEF n
<1>1. 0 \in T
  <2> DEFINE h == [t \in SUBSET (1..0) |-> a]
  <2>1. \A t \in SUBSET (1..0) : t = {}
    <3>1. 1..0 = {}
      OBVIOUS
    <3> QED
      BY <3>1
  <2>2. h \in [SUBSET (1..0) -> S]
    OBVIOUS
  <2>3. Solves(h, 0)
    BY <2>1
  <2> HIDE DEF h, Solves
  <2>4. Solved(0)
    BY <2>2, <2>3
  <2> HIDE DEF Solved
  <2> QED
    BY <1>0, <2>4
<1>2. ASSUME NEW k \in 0..(n - 1), k \in T
      PROVE  k + 1 \in T
  <2>1. PICK h \in [SUBSET (1..k) -> S] : Solves(h, k)
    BY <1>2
  <2>2. k \in Nat /\ k + 1 \in 1..n /\ k + 1 \in 0..n /\ 1..k \subseteq 1..(k + 1)
    BY <1>0
  <2>7. s[k + 1] \in A
    BY <1>0, <2>2
  <2> DEFINE c == s[k + 1]
             g == [t \in SUBSET (1..(k + 1)) |->
                     IF k + 1 \in t THEN LoopTurn(F, h[t \ {k + 1}], c) ELSE h[t]]
  <2>3. ASSUME NEW t \in SUBSET (1..(k + 1))
        PROVE  IF k + 1 \in t THEN t \ {k + 1} \in SUBSET (1..k) /\ Max(t) = k + 1
                              ELSE t \in SUBSET (1..k)
    <3>1. CASE k + 1 \in t
      <4>1. t \ {k + 1} \in SUBSET (1..k)
        <5>1. \A x \in 1..(k + 1) : x # k + 1 => x \in 1..k
          BY <2>2
        <5> QED
          BY <5>1
      <4>2. Max(t) \in t /\ \A u \in t : u <= Max(t)
        <5> DEFINE K == k + 1
        <5>1. K \in Nat /\ t \in SUBSET (1..K) /\ t # {}
          BY <2>2, <3>1
        <5> HIDE DEF K
        <5> QED
          BY <5>1, MaxOfPart
      <4>3. Max(t) \in 1..(k + 1) /\ k + 1 <= Max(t)
        BY <3>1, <4>2
      <4> QED
        BY <2>2, <3>1, <4>1, <4>3
    <3>2. CASE k + 1 \notin t
      BY <2>2, <3>2
    <3> QED
      BY <3>1, <3>2
  <2> HIDE DEF c
  <2>4. g \in [SUBSET (1..(k + 1)) -> S]
    <3>1. ASSUME NEW t \in SUBSET (1..(k + 1))
          PROVE  g[t] \in S
      <4>1. CASE k + 1 \in t
        <5>1. h[t \ {k + 1}] \in S /\ c \in A
          BY <2>1, <2>3, <2>7, <4>1 DEF c
        <5>2. LoopTurn(F, h[t \ {k + 1}], c) \in S
          BY <5>1 DEF IsLoopTurn
        <5> QED
          BY <4>1, <5>2
      <4>2. CASE k + 1 \notin t
        BY <2>1, <2>3, <4>2
      <4> QED
        BY <4>1, <4>2
    <3> QED
      BY <3>1
  <2>5. ASSUME NEW t \in SUBSET (1..(k + 1))
        PROVE  g[t] = IF t = {} THEN a ELSE LoopTurn(F, g[t \ {Max(t)}], s[Max(t)])
    <3>1. CASE k + 1 \in t
      <4>1. Max(t) = k + 1 /\ t \ {Max(t)} \in SUBSET (1..k) /\ t # {}
            /\ k + 1 \notin t \ {Max(t)} /\ t \ {Max(t)} \in SUBSET (1..(k + 1))
        BY <2>2, <2>3, <3>1
      <4>2. g[t \ {Max(t)}] = h[t \ {Max(t)}]
        BY <4>1
      <4>3. g[t] = LoopTurn(F, h[t \ {Max(t)}], c)
        BY <3>1, <4>1
      <4> HIDE DEF g
      <4> QED
        BY <4>1, <4>2, <4>3 DEF c
    <3>2. CASE k + 1 \notin t
      <4>1. t \in SUBSET (1..k) /\ g[t] = h[t]
        BY <2>3, <3>2
      <4>2. CASE t = {}
        BY <2>1, <4>1, <4>2
      <4>3. CASE t # {}
        <5>1. t \ {Max(t)} \in SUBSET (1..k) /\ k + 1 \notin t \ {Max(t)}
              /\ t \ {Max(t)} \in SUBSET (1..(k + 1))
          BY <2>2, <3>2, <4>1
        <5>2. g[t \ {Max(t)}] = h[t \ {Max(t)}]
          BY <5>1
        <5> HIDE DEF g
        <5> QED
          BY <2>1, <4>1, <4>3, <5>2
      <4> QED
        BY <4>2, <4>3
    <3> QED
      BY <3>1, <3>2
  <2> HIDE DEF g
  <2>6. Solves(g, k + 1)
    BY <2>5
  <2> HIDE DEF Solves
  <2>8. Solved(k + 1)
    BY <2>4, <2>6
  <2> HIDE DEF Solved
  <2> QED
    BY <2>2, <2>8
<1> HIDE DEF T
<1>3. \A i \in 0..n : i \in T
  BY <1>0, <1>1, <1>2, InductionTo
<1>4. n \in T
  BY <1>0, <1>3
<1> QED
  BY <1>4 DEF T, n, Recursion

(* Whatever solves the recursion takes one turn for each element.           *)
Solution(h, S, F, a, s) ==
  /\ h[{}] = a
  /\ \A t \in SUBSET (1..Len(s)) :
       t # {} /\ h[t \ {Max(t)}] \in S => h[t] = LoopTurn(F, h[t \ {Max(t)}], s[Max(t)])

LEMMA RunOf ==
  ASSUME NEW S, NEW A, NEW a \in S, NEW s \in Seq(A), NEW F, IsLoopTurn(F, S, A), NEW h,
         Solution(h, S, F, a, s)
  PROVE  \E w : LoopRun(w, S, F, a, s) /\ w[Len(s)] = h[1..Len(s)]
<1> DEFINE n == Len(s)
           w == [i \in 0..n |-> h[1..i]]
           T == {i \in 0..n : h[1..i] \in S}
<1>0. n \in Nat /\ \A i \in 1..n : s[i] \in A
  BY LenProperties, ElementOfSeq
<1>5. \A t \in SUBSET (1..n) :
        t # {} /\ h[t \ {Max(t)}] \in S => h[t] = LoopTurn(F, h[t \ {Max(t)}], s[Max(t)])
  BY DEF Solution
<1> HIDE DEF n
<1>1. ASSUME NEW i \in 1..n, h[1..(i - 1)] \in S
      PROVE  h[1..i] = LoopTurn(F, h[1..(i - 1)], s[i])
  <2>4. i \in Nat /\ i <= n /\ i \in 1..i
    BY <1>0
  <2>1. 1..i \in SUBSET (1..n) /\ 1..i # {} /\ i \in 1..i /\ i \in Nat
    <3>1. \A x \in 1..i : x \in 1..n
      BY <1>0, <2>4
    <3> QED
      BY <2>4, <3>1
  <2>2. Max(1..i) = i
    <3>1. Max(1..i) \in 1..i /\ \A t \in 1..i : t <= Max(1..i)
      BY <2>1, MaxOfPart
    <3> QED
      BY <2>1, <3>1
  <2>3. (1..i) \ {i} = 1..(i - 1)
    BY <1>0
  <2> QED
    BY <1>1, <1>5, <2>1, <2>2, <2>3
<1>2. h[1..0] = a
  <2>1. 1..0 = {}
    OBVIOUS
  <2> QED
    BY <2>1 DEF Solution
<1>3. \A i \in 0..n : i \in T
  <2>1. 0 \in T
    BY <1>0, <1>2
  <2>2. ASSUME NEW i \in 0..(n - 1), i \in T
        PROVE  i + 1 \in T
    <3>1. i + 1 \in 1..n /\ (i + 1) - 1 = i /\ i + 1 \in 0..n
      BY <1>0
    <3>2. h[1..(i + 1)] = LoopTurn(F, h[1..i], s[i + 1])
      BY <1>1, <2>2, <3>1
    <3>3. h[1..i] \in S /\ s[i + 1] \in A
      BY <1>0, <2>2, <3>1
    <3>4. LoopTurn(F, h[1..i], s[i + 1]) \in S
      BY <3>3 DEF IsLoopTurn
    <3> QED
      BY <3>1, <3>2, <3>4
  <2>3. n \in Nat
    BY <1>0
  <2> HIDE DEF T
  <2>4. \A i \in 0..(n - 1) : i \in T => i + 1 \in T
    BY <2>2
  <2> QED
    BY ONLY <2>1, <2>3, <2>4, InductionTo
<1>4. w \in [0..n -> S] /\ w[0] = a
  BY <1>0, <1>2, <1>3
<1>6. ASSUME NEW i \in 1..n
      PROVE  w[i] = LoopTurn(F, w[i - 1], s[i])
  <2>1. i - 1 \in 0..n /\ i \in 0..n
    BY <1>0
  <2>2. h[1..(i - 1)] \in S
    BY <1>3, <2>1
  <2>3. w[i] = h[1..i] /\ w[i - 1] = h[1..(i - 1)]
    BY <2>1
  <2> QED
    BY <1>1, <2>2, <2>3
<1>7. w[n] = h[1..n]
  BY <1>0
<1> HIDE DEF w
<1>8. LoopRun(w, S, F, a, s)
  BY <1>4, <1>6 DEF LoopRun, n
<1> QED
  BY <1>7, <1>8 DEF n

(* Two runs over the same elements agree as far as the shorter one goes.    *)
LEMMA RunsAgree ==
  ASSUME NEW S, NEW A, NEW F, NEW a, NEW s \in Seq(A), NEW b \in A,
         NEW v, NEW w, LoopRun(v, S, F, a, s), LoopRun(w, S, F, a, Append(s, b))
  PROVE  /\ v[Len(s)] \in S
         /\ w[Len(Append(s, b))] = LoopTurn(F, v[Len(s)], b)
<1> DEFINE n == Len(s)
           r == Append(s, b)
           T == {i \in 0..n : v[i] = w[i]}
<1>1. n \in Nat /\ Len(r) = n + 1 /\ r[n + 1] = b /\ \A i \in 1..n : r[i] = s[i]
  BY LenProperties, AppendProperties
<1>2. /\ v \in [0..n -> S] /\ v[0] = a
      /\ \A i \in 1..n : v[i] = LoopTurn(F, v[i - 1], s[i])
  BY DEF LoopRun
<1>3. /\ w[0] = a
      /\ \A i \in 1..Len(r) : w[i] = LoopTurn(F, w[i - 1], r[i])
  BY DEF LoopRun
<1> HIDE DEF n, r
<1>4. 0 \in T
  BY <1>1, <1>2, <1>3
<1>5. ASSUME NEW i \in 0..(n - 1), i \in T
      PROVE  i + 1 \in T
  <2>1. i + 1 \in 1..n /\ i + 1 \in 0..n /\ (i + 1) - 1 = i
    BY <1>1
  <2>5. i + 1 \in 1..Len(r)
    BY <1>1, <2>1
  <2>2. v[i + 1] = LoopTurn(F, v[i], s[i + 1])
    BY <1>2, <2>1
  <2>3. w[i + 1] = LoopTurn(F, w[i], r[i + 1])
    BY <1>3, <2>1, <2>5
  <2>4. v[i] = w[i] /\ r[i + 1] = s[i + 1]
    BY <1>1, <1>5, <2>1
  <2> QED
    BY <2>1, <2>2, <2>3, <2>4
<1> HIDE DEF T
<1>6. \A i \in 0..n : i \in T
  BY <1>1, <1>4, <1>5, InductionTo
<1>7. v[n] = w[n] /\ v[n] \in S
  BY <1>1, <1>2, <1>6 DEF T
<1>8. w[n + 1] = LoopTurn(F, w[n], b)
  <2>1. n + 1 \in 1..Len(r) /\ (n + 1) - 1 = n
    BY <1>1
  <2> QED
    BY <1>1, <1>3, <2>1
<1> QED
  BY <1>1, <1>7, <1>8 DEF n, r

(* A run over nothing takes no turn.                                        *)
LEMMA RunOverNothing ==
  ASSUME NEW S, NEW F, NEW a, NEW w, LoopRun(w, S, F, a, <<>>)
  PROVE  w[Len(<<>>)] = a
<1>1. Len(<<>>) = 0
  OBVIOUS
<1> QED
  BY <1>1 DEF LoopRun

(* Induction over sequences, from the first element on.                     *)
LEMMA SeqInduction ==
  ASSUME NEW A, NEW T, <<>> \in T,
         \A s \in Seq(A) : \A b \in A : s \in T => Append(s, b) \in T
  PROVE  \A s \in Seq(A) : s \in T
<1> SUFFICES ASSUME NEW s \in Seq(A)
             PROVE  s \in T
  OBVIOUS
<1> DEFINE n == Len(s)
           p(i) == SubSeq(s, 1, i)
           U == {i \in 0..n : p(i) \in T}
<1>1. n \in Nat /\ \A i \in 1..n : s[i] \in A
  BY LenProperties, ElementOfSeq
<1>2. \A i \in 0..n : p(i) \in Seq(A) /\ Len(p(i)) = i /\ \A j \in 1..i : p(i)[j] = s[j]
  BY SeqFirst
<1> HIDE DEF n, p
<1>3. 0 \in U
  <2>1. 0 \in 0..n
    BY <1>1
  <2>2. p(0) = <<>>
    BY <1>2, <2>1, EmptySeq
  <2> QED
    BY <2>1, <2>2
<1>4. ASSUME NEW i \in 0..(n - 1), i \in U
      PROVE  i + 1 \in U
  <2>1. i \in 0..n /\ i + 1 \in 0..n /\ i + 1 \in 1..n /\ i \in Nat
    BY <1>1
  <2>2. /\ p(i) \in Seq(A) /\ Len(p(i)) = i /\ \A j \in 1..i : p(i)[j] = s[j]
        /\ p(i + 1) \in Seq(A) /\ Len(p(i + 1)) = i + 1
        /\ \A j \in 1..(i + 1) : p(i + 1)[j] = s[j]
    BY <1>2, <2>1
  <2>3. s[i + 1] \in A
    BY <1>1, <2>1
  <2> DEFINE q == Append(p(i), s[i + 1])
  <2>4. /\ q \in Seq(A) /\ Len(q) = i + 1 /\ q[i + 1] = s[i + 1]
        /\ \A j \in 1..i : q[j] = p(i)[j]
    BY <2>2, <2>3, AppendProperties
  <2>5. q \in T
    BY <1>4, <2>2, <2>3
  <2> HIDE DEF q
  <2>6. ASSUME NEW j \in 1..(i + 1)
        PROVE  p(i + 1)[j] = q[j]
    <3>1. j \in 1..i \/ j = i + 1
      BY <2>1
    <3> QED
      BY <2>2, <2>4, <3>1
  <2>7. p(i + 1) = q
    BY <2>2, <2>4, <2>6, SeqEqual
  <2> QED
    BY <2>1, <2>5, <2>7
<1> HIDE DEF U
<1>5. \A i \in 0..n : i \in U
  BY <1>1, <1>3, <1>4, InductionTo
<1>6. n \in 0..n /\ n \in U
  BY <1>1, <1>5
<1>7. p(n) \in T
  BY <1>6 DEF U
<1>8. p(n) = s
  <2>1. p(n) \in Seq(A) /\ Len(p(n)) = Len(s) /\ \A j \in 1..n : p(n)[j] = s[j]
    BY <1>2, <1>6 DEF n
  <2> QED
    BY <1>1, <2>1, SeqEqual DEF n
<1> QED
  BY <1>7, <1>8
=============================================================================
