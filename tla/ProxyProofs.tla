---------------------------- MODULE ProxyProofs ----------------------------
(***************************************************************************)
(* Proofs about the proxy: its slots, sockets and memory agree, poll is    *)
(* asked for what is needed, no descriptor is used that was given up, and  *)
(* each application gets what its own peer sent.                           *)
(***************************************************************************)
EXTENDS Proxy, SequenceLemmas, FunctionTheorems, FiniteSetTheorems, TLAPS

(* The loop of shrink_slots is well defined: after each of its turns there  *)
(* is an array.                                                             *)
Turned(s, n, f) ==
  f = [j \in 0..n |-> IF j = 0 THEN <<>>
                      ELSE IF Occupied(s[j]) THEN Append(f[j - 1], s[j])
                      ELSE f[j - 1]]

LEMMA TurnsExist ==
  ASSUME NEW S, NEW s \in Seq(S)
  PROVE  \E f : Turned(s, Len(s), f)
<1> DEFINE T == {n \in Nat : \E f : Turned(s, n, f)}
<1>1. 0 \in T
  <2>1. Turned(s, 0, [j \in 0..0 |-> <<>>])
    BY DEF Turned
  <2> QED
    BY <2>1
<1>2. ASSUME NEW n \in 0..(Len(s) - 1), n \in T
      PROVE  n + 1 \in T
  <2>1. n \in Nat
    OBVIOUS
  <2>2. PICK f : Turned(s, n, f)
    BY <1>2
  <2> DEFINE next == IF Occupied(s[n + 1]) THEN Append(f[n], s[n + 1]) ELSE f[n]
             g == [j \in 0..(n + 1) |-> IF j = n + 1 THEN next ELSE f[j]]
             h == [j \in 0..(n + 1) |-> IF j = 0 THEN <<>>
                                        ELSE IF Occupied(s[j]) THEN Append(g[j - 1], s[j])
                                        ELSE g[j - 1]]
  <2>3. ASSUME NEW j \in 0..(n + 1)
        PROVE  g[j] = h[j]
    <3>1. CASE j = n + 1
      <4>1. j # 0 /\ j - 1 = n /\ n \in 0..(n + 1) /\ n # n + 1
        BY <2>1, <3>1
      <4>2. g[j - 1] = f[n]
        BY <4>1
      <4> QED
        BY <3>1, <4>1, <4>2
    <3>2. CASE j # n + 1
      <4>1. j \in 0..n /\ (j # 0 => j - 1 \in 0..(n + 1) /\ j - 1 # n + 1)
        BY <2>1, <3>2
      <4>2. f[j] = IF j = 0 THEN <<>>
                   ELSE IF Occupied(s[j]) THEN Append(f[j - 1], s[j]) ELSE f[j - 1]
        BY <2>2, <4>1 DEF Turned
      <4>3. j # 0 => g[j - 1] = f[j - 1]
        BY <4>1
      <4> QED
        BY <3>2, <4>2, <4>3
    <3> QED
      BY <3>1, <3>2
  <2>4. g = h
    BY <2>3
  <2>5. Turned(s, n + 1, g)
    BY <2>4 DEF Turned
  <2> HIDE DEF g
  <2> QED
    BY <2>1, <2>5
<1> HIDE DEF T
<1>3. Len(s) \in Nat
  OBVIOUS
<1>4. \A n \in 0..(Len(s) - 1) : n \in T => n + 1 \in T
  BY <1>2
<1>5. \A n \in 0..Len(s) : n \in T
  BY <1>1, <1>3, <1>4, InductionTo
<1>6. Len(s) \in T
  BY <1>3, <1>5
<1> QED
  BY <1>6 DEF T

(* shrink_slots keeps the occupied slots, all of them, in their order and   *)
(* each once.                                                               *)
LEMMA CompactKeeps ==
  ASSUME NEW S, NEW s \in Seq(S)
  PROVE  /\ Compact(s) \in Seq(S) /\ Len(Compact(s)) <= Len(s)
         /\ \E from \in [1..Len(Compact(s)) -> 1..Len(s)] :
              /\ \A i \in 1..Len(Compact(s)) :
                   Compact(s)[i] = s[from[i]] /\ Occupied(s[from[i]])
              /\ \A i, j \in 1..Len(Compact(s)) : i < j => from[i] < from[j]
              /\ \A k \in 1..Len(s) :
                   Occupied(s[k]) => \E i \in 1..Len(Compact(s)) : from[i] = k
<1> DEFINE f == CHOOSE g : Turned(s, Len(s), g)
<1>1. Compact(s) = f[Len(s)]
  BY DEF Compact, Turned
<1>2. Turned(s, Len(s), f)
  BY TurnsExist
<1> HIDE DEF f
<1> DEFINE Good(n, r) ==
      /\ r \in Seq(S) /\ Len(r) <= n
      /\ \E from \in [1..Len(r) -> 1..n] :
           /\ \A i \in 1..Len(r) : r[i] = s[from[i]] /\ Occupied(s[from[i]])
           /\ \A i, j \in 1..Len(r) : i < j => from[i] < from[j]
           /\ \A k \in 1..n : Occupied(s[k]) => \E i \in 1..Len(r) : from[i] = k
<1> DEFINE T == {n \in 0..Len(s) : Good(n, f[n])}
<1>3. Len(s) \in Nat
  OBVIOUS
<1>4. 0 \in T
  <2>1. f[0] = <<>>
    BY <1>2, <1>3 DEF Turned
  <2>2. <<>> \in Seq(S) /\ Len(<<>>) = 0
    BY EmptySeq
  <2>3. [i \in 1..0 |-> 0] \in [1..Len(f[0]) -> 1..0]
    BY <2>1, <2>2
  <2>4. f[0] \in Seq(S) /\ Len(f[0]) = 0
    BY <2>1, <2>2
  <2>5. Good(0, f[0])
    BY <2>3, <2>4
  <2> QED
    BY <1>3, <2>5
<1>5. ASSUME NEW n \in 0..(Len(s) - 1), n \in T
      PROVE  n + 1 \in T
  <2>1. n \in Nat /\ n + 1 \in 1..Len(s) /\ n + 1 \in 0..Len(s) /\ n + 1 # 0 /\ (n + 1) - 1 = n
    BY <1>3
  <2> DEFINE r == f[n]
             slot == s[n + 1]
  <2>2. r \in Seq(S) /\ Len(r) <= n /\ Len(r) \in Nat /\ slot \in S
    BY <1>5, <2>1, ElementOfSeq
  <2>3. PICK from \in [1..Len(r) -> 1..n] :
           /\ \A i \in 1..Len(r) : r[i] = s[from[i]] /\ Occupied(s[from[i]])
           /\ \A i, j \in 1..Len(r) : i < j => from[i] < from[j]
           /\ \A k \in 1..n : Occupied(s[k]) => \E i \in 1..Len(r) : from[i] = k
    BY <1>5
  <2>4. f[n + 1] = IF Occupied(slot) THEN Append(r, slot) ELSE r
    BY <1>2, <2>1 DEF Turned
  <2> HIDE DEF r
  <2>5. CASE ~Occupied(slot)
    <3>1. f[n + 1] = r
      BY <2>4, <2>5
    <3>2. from \in [1..Len(r) -> 1..(n + 1)]
      BY <2>1
    <3>3. \A k \in 1..(n + 1) : Occupied(s[k]) => \E i \in 1..Len(r) : from[i] = k
      <4>1. ASSUME NEW k \in 1..(n + 1), Occupied(s[k])
            PROVE  \E i \in 1..Len(r) : from[i] = k
        <5>1. k # n + 1
          BY <2>5, <4>1
        <5>2. k \in 1..n
          BY <2>1, <5>1
        <5> QED
          BY <2>3, <4>1, <5>2
      <4> QED
        BY <4>1
    <3>4. Len(r) <= n + 1
      BY <2>1, <2>2
    <3>5. Good(n + 1, r)
      BY <2>2, <2>3, <3>2, <3>3, <3>4
    <3> QED
      BY <2>1, <3>1, <3>5, ZenonT(30)
  <2>6. CASE Occupied(slot)
    <3> DEFINE t == Append(r, slot)
               to == [i \in 1..(Len(r) + 1) |-> IF i = Len(r) + 1 THEN n + 1 ELSE from[i]]
    <3>1. /\ t \in Seq(S) /\ Len(t) = Len(r) + 1 /\ t[Len(r) + 1] = slot
          /\ \A i \in 1..Len(r) : t[i] = r[i]
      BY <2>2, AppendProperties
    <3>2. /\ \A i \in 1..Len(r) : i \in 1..(Len(r) + 1) /\ i # Len(r) + 1
          /\ \A i \in 1..(Len(r) + 1) : i # Len(r) + 1 => i \in 1..Len(r)
          /\ Len(r) + 1 \in 1..(Len(r) + 1)
      BY <2>2
    <3>3. to \in [1..(Len(r) + 1) -> 1..(n + 1)]
      <4>1. ASSUME NEW i \in 1..(Len(r) + 1)
            PROVE  to[i] \in 1..(n + 1)
        <5>1. i # Len(r) + 1 => from[i] \in 1..n
          BY <3>2
        <5> QED
          BY <2>1, <5>1
      <4> QED
        BY <4>1
    <3>4. to[Len(r) + 1] = n + 1 /\ \A i \in 1..Len(r) : to[i] = from[i]
      BY <3>2
    <3> HIDE DEF t, to
    <3>5. ASSUME NEW i \in 1..(Len(r) + 1)
          PROVE  t[i] = s[to[i]] /\ Occupied(s[to[i]])
      <4>1. CASE i = Len(r) + 1
        BY <2>6, <3>1, <3>4, <4>1
      <4>2. CASE i # Len(r) + 1
        BY <2>3, <3>1, <3>2, <3>4, <4>2
      <4> QED
        BY <4>1, <4>2
    <3>6. ASSUME NEW i \in 1..(Len(r) + 1), NEW j \in 1..(Len(r) + 1), i < j
          PROVE  to[i] < to[j]
      <4>1. i \in 1..Len(r)
        BY <2>2, <3>6
      <4>2. from[i] \in 1..n
        BY <4>1
      <4>3. CASE j = Len(r) + 1
        BY <2>1, <3>4, <4>1, <4>2, <4>3
      <4>4. CASE j # Len(r) + 1
        BY <2>3, <3>2, <3>4, <3>6, <4>1, <4>4
      <4> QED
        BY <4>3, <4>4
    <3>7. ASSUME NEW k \in 1..(n + 1), Occupied(s[k])
          PROVE  \E i \in 1..(Len(r) + 1) : to[i] = k
      <4>1. CASE k = n + 1
        BY <3>2, <3>4, <4>1
      <4>2. CASE k # n + 1
        <5>1. k \in 1..n
          BY <2>1, <4>2
        <5>2. PICK i \in 1..Len(r) : from[i] = k
          BY <2>3, <3>7, <5>1
        <5> QED
          BY <3>2, <3>4, <5>2
      <4> QED
        BY <4>1, <4>2
    <3>8. Good(n + 1, t)
      <4>1. Len(t) <= n + 1
        BY <2>1, <2>2, <3>1
      <4>2. \A i, j \in 1..Len(t) : i < j => to[i] < to[j]
        BY <3>1, <3>6
      <4>3. \A i \in 1..Len(t) : t[i] = s[to[i]] /\ Occupied(s[to[i]])
        BY <3>1, <3>5
      <4>4. \A k \in 1..(n + 1) : Occupied(s[k]) => \E i \in 1..Len(t) : to[i] = k
        BY <3>1, <3>7
      <4>5. to \in [1..Len(t) -> 1..(n + 1)] /\ t \in Seq(S)
        BY <3>1, <3>3
      <4> QED
        BY <4>1, <4>2, <4>3, <4>4, <4>5
    <3>9. f[n + 1] = t
      BY <2>4, <2>6 DEF t
    <3> QED
      BY <2>1, <3>8, <3>9, ZenonT(30)
  <2> QED
    BY <2>5, <2>6
<1> HIDE DEF T
<1>6. \A n \in 0..(Len(s) - 1) : n \in T => n + 1 \in T
  BY <1>5
<1>7. \A n \in 0..Len(s) : n \in T
  BY <1>3, <1>4, <1>6, InductionTo
<1>8. Len(s) \in T
  BY <1>3, <1>7
<1> QED
  BY <1>1, <1>8 DEF T
-----------------------------------------------------------------------------
(* The inductive invariant                                                  *)

Event == {"IN", "OUT"}

PollFds == [of : Client, watched : BOOLEAN, events : SUBSET Event]

Slot == [client : 0..Clients, fds : [Side -> PollFds]]

Byte == Side \X Client \X Nat

TypeInv ==
  /\ phase \in {"top", "checked", "blocked", "accept", "serve", "terminated"}
  /\ slots \in Seq(Slot) /\ Len(slots) <= MaxClients
  /\ active \in [Client -> [Side -> BOOLEAN]]
  /\ open \subseteq Client /\ shut \subseteq Client \X Side \X {"RD", "WR"}
  /\ accepted \in 0..Clients
  /\ buf \in [Client -> [Side -> Seq(Byte)]]
  /\ sent \in [Side -> [Client -> Nat]] /\ got \in [Side -> [Client -> Seq(Byte)]]

(* poll reported something for the first slots only: behind them is at most *)
(* the client that was added since.                                         *)
TurnInv ==
  /\ phase = "accept" =>
       /\ CanAddSlot /\ accepted < Clients
       /\ turn = IF Len(slots) = 0 THEN NoTurn ELSE [slot |-> 1, dir |-> "src"]
       /\ revents \in [1..Len(slots) -> [Side -> SUBSET Event]]
  /\ phase = "serve" =>
       \E n \in 0..Len(slots) :
         /\ revents \in [1..n -> [Side -> SUBSET Event]]
         /\ turn \in [slot : 1..n, dir : Side \cup {"end"}] \cup {NoTurn}

(* Slots are empty only behind the loop's back: those whose turn is over.   *)
EmptyInv ==
  \A i \in DOMAIN slots :
    ~Occupied(slots[i]) => phase = "serve" /\ (turn # NoTurn => i < turn.slot)

(* Each open client has one slot, with its own descriptors.                 *)
SlotInv ==
  /\ open \subseteq 1..accepted
  /\ \A i \in DOMAIN slots : Occupied(slots[i]) =>
       /\ slots[i].client \in open
       /\ \A s \in Side : slots[i].fds[s].of = slots[i].client
       /\ \A j \in DOMAIN slots : slots[j].client = slots[i].client => i = j
  /\ \A c \in open : \E i \in DOMAIN slots : slots[i].client = c

(* Nothing is left of a client that is not open.                            *)
ClosedInv ==
  \A c \in Client \ open :
    /\ \A s \in Side : ~active[c][s] /\ buf[c][s] = <<>>
    /\ \A x \in shut : x[1] # c

(* What poll is asked about a descriptor, at any time.                      *)
FlagInv ==
  \A i \in DOMAIN slots, s \in Side : Occupied(slots[i]) =>
    LET fd == slots[i].fds[s]
        c  == slots[i].client
        o  == Other(s)
    IN  /\ "IN" \in fd.events <=> active[c][s]
        /\ "OUT" \in fd.events <=> active[c][o] /\ buf[c][o] # <<>>
        /\ fd.watched <=> fd.events # {}

(* What was shut down is a direction that is over.                          *)
ShutInv ==
  \A c \in Client, s \in Side :
    /\ <<c, s, "RD">> \in shut => ~active[c][s]
    /\ <<c, s, "WR">> \in shut => ~active[c][Other(s)]

ProxyInv == /\ TypeInv /\ TurnInv /\ EmptyInv /\ SlotInv
            /\ ClosedInv /\ FlagInv /\ ShutInv

(* A direction's bytes: what was sent, what is in its buffer while it has   *)
(* one, and what has arrived.                                               *)
StreamInv ==
  \A c \in Client, s \in Side :
    LET arrived == got[Other(s)][c]
    IN  /\ Len(buf[c][s]) <= BufferSize
        /\ Len(arrived) <= sent[s][c]
        /\ \A i \in 1..Len(arrived) : arrived[i] = DataByte(s, c, i)
        /\ c > accepted => sent[s][c] = 0
        /\ c \in open =>
             /\ Len(arrived) + Len(buf[c][s]) = sent[s][c]
             /\ \A i \in 1..Len(buf[c][s]) :
                  buf[c][s][i] = DataByte(s, c, Len(arrived) + i)
-----------------------------------------------------------------------------
LEMMA Constants ==
  /\ MaxClients \in Nat /\ Clients \in Nat /\ BufferSize \in Nat
  /\ MaxClients > 0 /\ Clients > 0 /\ BufferSize > 0
BY ProxyAssumption

LEMMA Sides ==
  ASSUME NEW d \in Side
  PROVE  Other(d) \in Side /\ Other(d) # d /\ Other(Other(d)) = d
         /\ \A s \in Side : s = d \/ s = Other(d)
BY DEF Side, Other

(* A slot is not emptied before its turn is over.                           *)
LEMMA CurrentSlot ==
  ASSUME TypeInv, TurnInv, EmptyInv, SlotInv, phase = "serve", turn.dir \in Side \cup {"end"}
  PROVE  /\ turn.slot \in 1..Len(slots) /\ DOMAIN slots = 1..Len(slots)
         /\ turn \in [slot : 1..Len(slots), dir : Side \cup {"end"}]
         /\ Current \in Slot /\ Occupied(Current) /\ Current.client \in open
         /\ Current.client \in Client
         /\ \A s \in Side : Current.fds[s].of = Current.client
<1>1. slots \in Seq(Slot) /\ Len(slots) \in Nat /\ DOMAIN slots = 1..Len(slots)
  BY DEF TypeInv
<1>2. turn # NoTurn
  BY DEF NoTurn, Side
<1>3. PICK n \in 0..Len(slots) : turn \in [slot : 1..n, dir : Side \cup {"end"}]
  BY <1>2 DEF TurnInv
<1>4. turn.slot \in 1..Len(slots) /\ turn \in [slot : 1..Len(slots), dir : Side \cup {"end"}]
  BY <1>1, <1>3
<1>5. Current \in Slot
  BY <1>1, <1>4, ElementOfSeq DEF Current
<1>6. Occupied(Current)
  BY <1>1, <1>2, <1>4 DEF EmptyInv, Current
<1>7. /\ Current.client \in open
      /\ \A s \in Side : Current.fds[s].of = Current.client
  BY <1>1, <1>4, <1>6 DEF SlotInv, Current
<1> QED
  BY <1>1, <1>4, <1>5, <1>6, <1>7 DEF TypeInv
-----------------------------------------------------------------------------
(* The steps that change no slot                                            *)

LEMMA InitInv ==
  ASSUME Init
  PROVE  ProxyInv
<1>1. slots \in Seq(Slot) /\ Len(slots) = 0 /\ DOMAIN slots = {}
  BY EmptySeq DEF Init
<1>2. TypeInv
  BY <1>1, Constants, EmptySeq DEF Init, TypeInv
<1> QED
  BY <1>1, <1>2 DEF Init, ProxyInv, TurnInv, EmptyInv, SlotInv, ClosedInv, FlagInv, ShutInv

LEMMA SameSlots ==
  ASSUME ProxyInv, UNCHANGED <<slots, memory, open, accepted>>
  PROVE  SlotInv' /\ ClosedInv' /\ FlagInv' /\ ShutInv'
<1>1. SlotInv'
  BY DEF ProxyInv, SlotInv, Occupied
<1>2. ClosedInv' /\ ShutInv'
  BY DEF ProxyInv, ClosedInv, ShutInv, memory
<1>3. FlagInv'
  BY DEF ProxyInv, FlagInv, memory, Occupied
<1> QED
  BY <1>1, <1>2, <1>3

LEMMA QuietStep ==
  ASSUME ProxyInv, CheckSignal \/ CallPoll \/ Signal
  PROVE  ProxyInv'
<1>1. /\ UNCHANGED <<slots, memory, streams, open, accepted, turn, revents>>
      /\ phase' \in {"top", "checked", "blocked", "accept", "serve", "terminated"}
      /\ phase \in {"accept", "serve"} \/ phase' \in {"accept", "serve"} => phase' = phase
  BY DEF CheckSignal, CallPoll, Signal, Goto, ProxyInv, TypeInv
<1>2. TypeInv' /\ TurnInv'
  BY <1>1 DEF memory, streams, ProxyInv, TypeInv, TurnInv, CanAddSlot
<1>3. EmptyInv'
  BY <1>1 DEF ProxyInv, EmptyInv, Occupied
<1> QED
  BY <1>1, <1>2, <1>3, SameSlots DEF ProxyInv

LEMMA PollStep ==
  ASSUME ProxyInv, PollReturns
  PROVE  ProxyInv'
<1>1. PICK listening \in BOOLEAN, rev \in [DOMAIN slots -> [Side -> SUBSET Event]] :
        /\ listening => Listens /\ accepted < Clients
        /\ revents' = rev /\ turn' = FirstTurn
        /\ phase' = IF listening THEN "accept" ELSE "serve"
  BY DEF PollReturns, Goto, Event
<1>2. phase = "blocked" /\ UNCHANGED <<slots, memory, streams, open, accepted>>
  BY DEF PollReturns
<1>3. slots \in Seq(Slot) /\ DOMAIN slots = 1..Len(slots) /\ Len(slots) \in Nat
  BY DEF ProxyInv, TypeInv
<1>4. TypeInv'
  BY <1>1, <1>2 DEF ProxyInv, TypeInv, memory, streams
<1>5. turn' = IF Len(slots) = 0 THEN NoTurn ELSE [slot |-> 1, dir |-> "src"]
  BY <1>1, <1>3, EmptySeq DEF FirstTurn
<1>6. TurnInv'
  <2>1. CASE phase' = "accept"
    BY <1>1, <1>2, <1>3, <1>5, <2>1 DEF TurnInv, Listens, CanAddSlot
  <2>2. CASE phase' = "serve"
    <3>1. turn' \in [slot : 1..Len(slots), dir : Side \cup {"end"}] \cup {NoTurn}
      BY <1>3, <1>5 DEF Side
    <3>2. Len(slots) \in 0..Len(slots') /\ phase' # "accept"
      BY <1>2, <1>3, <2>2
    <3> QED
      BY <1>1, <1>3, <3>1, <3>2 DEF TurnInv
  <2> QED
    BY <1>1, <2>1, <2>2
<1>7. EmptyInv'
  BY <1>2 DEF ProxyInv, EmptyInv, Occupied
<1> QED
  BY <1>2, <1>4, <1>6, <1>7, SameSlots DEF ProxyInv

LEMMA RefuseStep ==
  ASSUME ProxyInv, RefuseClient
  PROVE  ProxyInv'
<1>1. /\ phase = "accept" /\ phase' = "serve" /\ accepted' \in {accepted, accepted + 1}
      /\ UNCHANGED <<revents, turn, slots, memory, streams, open>>
  BY DEF RefuseClient, Goto
<1>2. /\ slots \in Seq(Slot) /\ Len(slots) \in Nat
      /\ accepted \in 0..Clients /\ accepted < Clients /\ Clients \in Nat
  BY <1>1, Constants DEF ProxyInv, TypeInv, TurnInv
<1>3. accepted' \in 0..Clients /\ 1..accepted \subseteq 1..accepted'
  BY <1>1, <1>2
<1>4. TypeInv'
  BY <1>1, <1>3 DEF ProxyInv, TypeInv, memory, streams
<1>5. TurnInv'
  <2>1. /\ revents \in [1..Len(slots) -> [Side -> SUBSET Event]]
        /\ turn = IF Len(slots) = 0 THEN NoTurn ELSE [slot |-> 1, dir |-> "src"]
    BY <1>1 DEF ProxyInv, TurnInv
  <2>2. turn \in [slot : 1..Len(slots), dir : Side \cup {"end"}] \cup {NoTurn}
    BY <1>2, <2>1 DEF Side
  <2>3. Len(slots) \in 0..Len(slots')
    BY <1>1, <1>2
  <2> QED
    BY <1>1, <2>1, <2>2, <2>3 DEF TurnInv
<1>6. EmptyInv'
  BY <1>1 DEF ProxyInv, EmptyInv, Occupied
<1>7. SlotInv'
  BY <1>1, <1>3 DEF ProxyInv, SlotInv, Occupied
<1>8. ClosedInv' /\ ShutInv'
  BY <1>1 DEF ProxyInv, ClosedInv, ShutInv, memory
<1>9. FlagInv'
  BY <1>1 DEF ProxyInv, FlagInv, memory, Occupied
<1> QED
  BY <1>4, <1>5, <1>6, <1>7, <1>8, <1>9 DEF ProxyInv

LEMMA TerminateStep ==
  ASSUME ProxyInv, Terminate
  PROVE  ProxyInv'
<1>1. /\ phase = "top" /\ phase' = "terminated" /\ slots' = <<>> /\ shut' = {}
      /\ open' = open \ {slots[i].client : i \in DOMAIN slots}
      /\ active' = [c \in Client |-> [s \in Side |-> FALSE]]
      /\ buf' = [c \in Client |-> [s \in Side |-> <<>>]]
      /\ UNCHANGED <<accepted, streams>>
  BY DEF Terminate, Goto
<1>2. open' = {}
  <2>1. \A c \in open : \E i \in DOMAIN slots : slots[i].client = c
    BY DEF ProxyInv, SlotInv
  <2> QED
    BY <1>1, <2>1
<1>3. slots' \in Seq(Slot) /\ Len(slots') = 0 /\ DOMAIN slots' = {}
  BY <1>1, EmptySeq
<1>4. TypeInv'
  BY <1>1, <1>2, <1>3, Constants, EmptySeq DEF ProxyInv, TypeInv, streams
<1> QED
  BY <1>1, <1>2, <1>3, <1>4 DEF ProxyInv, TurnInv, EmptyInv, SlotInv, ClosedInv, FlagInv, ShutInv
-----------------------------------------------------------------------------
(* The steps that change a slot                                             *)

LEMMA AddStep ==
  ASSUME ProxyInv, AddClient
  PROVE  ProxyInv'
<1> DEFINE c == accepted + 1
           slot == [client |-> c, fds |-> [s \in Side |-> PollFd(c)]]
<1>1. /\ phase = "accept" /\ CanAddSlot /\ phase' = "serve" /\ accepted' = c
      /\ open' = open \cup {c}
      /\ active' = [active EXCEPT ![c] = [s \in Side |-> TRUE]]
      /\ slots' = Append(slots, slot)
      /\ UNCHANGED <<revents, turn, buf, shut, streams>>
  BY DEF AddClient, Goto
<1>2. /\ slots \in Seq(Slot) /\ Len(slots) \in Nat /\ DOMAIN slots = 1..Len(slots)
      /\ Len(slots) < MaxClients /\ MaxClients \in Nat
      /\ accepted \in Nat /\ accepted < Clients /\ Clients \in Nat
      /\ active \in [Client -> [Side -> BOOLEAN]]
      /\ open \subseteq 1..accepted
  BY <1>1, Constants DEF ProxyInv, TypeInv, TurnInv, SlotInv, CanAddSlot
<1>3. c \in Client /\ c \in 0..Clients /\ c # 0 /\ c \notin open /\ c \in 1..c /\ 1..accepted \subseteq 1..c
  BY <1>2 DEF Client
<1>4. slot \in Slot /\ slot.client = c /\ Occupied(slot)
  BY <1>3 DEF Slot, PollFds, PollFd, Event, Occupied, NoClient
<1> HIDE DEF c, slot
<1>5. /\ slots' \in Seq(Slot) /\ Len(slots') = Len(slots) + 1
      /\ slots'[Len(slots) + 1] = slot
      /\ \A i \in 1..Len(slots) : slots'[i] = slots[i]
  BY <1>1, <1>2, <1>4, AppendProperties
<1>6. /\ DOMAIN slots' = 1..(Len(slots) + 1)
      /\ \A i \in DOMAIN slots' : i = Len(slots) + 1 \/ i \in DOMAIN slots
      /\ \A i \in DOMAIN slots : i # Len(slots) + 1
      /\ Len(slots) + 1 \in DOMAIN slots'
  BY <1>2, <1>5
<1>7. \A i \in DOMAIN slots : Occupied(slots[i])
  BY <1>1 DEF ProxyInv, EmptyInv
<1>8. \A i \in DOMAIN slots : slots[i].client \in open /\ slots[i].client # c
  BY <1>3, <1>7 DEF ProxyInv, SlotInv
<1>9. TypeInv'
  <2>1. Len(slots') <= MaxClients
    BY <1>2, <1>5
  <2>2. active' \in [Client -> [Side -> BOOLEAN]]
    BY <1>1, <1>2
  <2> QED
    BY <1>1, <1>3, <1>5, <2>1, <2>2 DEF ProxyInv, TypeInv, streams
<1>10. TurnInv'
  <2>1. /\ revents \in [1..Len(slots) -> [Side -> SUBSET Event]]
        /\ turn = IF Len(slots) = 0 THEN NoTurn ELSE [slot |-> 1, dir |-> "src"]
    BY <1>1 DEF ProxyInv, TurnInv
  <2>2. turn \in [slot : 1..Len(slots), dir : Side \cup {"end"}] \cup {NoTurn}
    BY <1>2, <2>1 DEF Side
  <2>3. Len(slots) \in 0..Len(slots')
    BY <1>2, <1>5
  <2> QED
    BY <1>1, <2>1, <2>2, <2>3 DEF TurnInv
<1>11. EmptyInv'
  BY <1>4, <1>5, <1>6, <1>7 DEF EmptyInv, Occupied
<1>12. SlotInv'
  <2>1. open' \subseteq 1..accepted'
    BY <1>1, <1>2, <1>3
  <2>2. ASSUME NEW i \in DOMAIN slots'
        PROVE  /\ slots'[i].client \in open'
               /\ \A s \in Side : slots'[i].fds[s].of = slots'[i].client
               /\ \A j \in DOMAIN slots' : slots'[j].client = slots'[i].client => i = j
    <3>1. CASE i = Len(slots) + 1
      <4>1. slots'[i] = slot
        BY <1>5, <3>1
      <4>2. \A s \in Side : slot.fds[s].of = c
        BY DEF slot, PollFd
      <4> QED
        BY <1>1, <1>4, <1>5, <1>6, <1>8, <3>1, <4>1, <4>2
    <3>2. CASE i \in DOMAIN slots
      <4>1. slots'[i] = slots[i] /\ slots[i].client \in open /\ slots[i].client # c
        BY <1>2, <1>5, <1>8, <3>2
      <4>2. \A s \in Side : slots[i].fds[s].of = slots[i].client
        BY <1>7, <3>2 DEF ProxyInv, SlotInv
      <4>3. ASSUME NEW j \in DOMAIN slots', slots'[j].client = slots[i].client
            PROVE  i = j
        <5>1. j # Len(slots) + 1
          BY <1>4, <1>5, <4>1, <4>3
        <5>2. j \in DOMAIN slots /\ slots'[j] = slots[j]
          BY <1>2, <1>5, <1>6, <5>1
        <5> QED
          BY <1>7, <3>2, <4>3, <5>2 DEF ProxyInv, SlotInv
      <4> QED
        BY <1>1, <4>1, <4>2, <4>3
    <3> QED
      BY <1>6, <3>1, <3>2
  <2>3. ASSUME NEW d \in open'
        PROVE  \E i \in DOMAIN slots' : slots'[i].client = d
    <3>1. CASE d = c
      BY <1>4, <1>5, <1>6, <3>1
    <3>2. CASE d \in open
      <4>1. PICK i \in DOMAIN slots : slots[i].client = d
        BY <3>2 DEF ProxyInv, SlotInv
      <4>2. i \in DOMAIN slots' /\ slots'[i] = slots[i]
        BY <1>2, <1>5, <1>6
      <4> QED
        BY <4>1, <4>2
    <3> QED
      BY <1>1, <3>1, <3>2
  <2> QED
    BY <2>1, <2>2, <2>3 DEF SlotInv
<1>13. ClosedInv'
  <2>1. ASSUME NEW d \in Client \ open'
        PROVE  d \in Client \ open /\ active'[d] = active[d]
    BY <1>1, <1>2
  <2> QED
    BY <1>1, <2>1 DEF ProxyInv, ClosedInv
<1>14. ShutInv'
  <2>1. ASSUME NEW d \in Client, NEW s \in Side
        PROVE  /\ <<d, s, "RD">> \in shut => ~active'[d][s]
               /\ <<d, s, "WR">> \in shut => ~active'[d][Other(s)]
    <3>1. CASE d = c
      <4>1. \A x \in shut : x[1] # c
        BY <1>3 DEF ProxyInv, ClosedInv
      <4> QED
        BY <3>1, <4>1
    <3>2. CASE d # c
      BY <1>1, <1>2, <3>2 DEF ProxyInv, ShutInv
    <3> QED
      BY <3>1, <3>2
  <2> QED
    BY <1>1, <2>1 DEF ShutInv
<1>15. FlagInv'
  <2>1. ASSUME NEW i \in DOMAIN slots', NEW s \in Side
        PROVE  LET fd == slots'[i].fds[s]
                   d  == slots'[i].client
                   o  == Other(s)
               IN  /\ "IN" \in fd.events <=> active'[d][s]
                   /\ "OUT" \in fd.events <=> active'[d][o] /\ buf'[d][o] # <<>>
                   /\ fd.watched <=> fd.events # {}
    <3>1. CASE i = Len(slots) + 1
      <4>1. slots'[i] = slot /\ slot.client = c
        BY <1>4, <1>5, <3>1
      <4>2. slot.fds[s].events = {"IN"} /\ slot.fds[s].watched = TRUE
        BY DEF slot, PollFd
      <4>3. buf[c][Other(s)] = <<>>
        BY <1>3, Sides DEF ProxyInv, ClosedInv
      <4>4. active'[c][s] = TRUE
        BY <1>1, <1>2, <1>3
      <4> QED
        BY <1>1, <4>1, <4>2, <4>3, <4>4
    <3>2. CASE i \in DOMAIN slots
      <4>1. slots'[i] = slots[i] /\ Occupied(slots[i])
        BY <1>2, <1>5, <1>7, <3>2
      <4>2. active'[slots[i].client] = active[slots[i].client]
        BY <1>1, <1>2, <1>8, <3>2
      <4> QED
        BY <1>1, <3>2, <4>1, <4>2 DEF ProxyInv, FlagInv
    <3> QED
      BY <1>6, <3>1, <3>2
  <2> QED
    BY <2>1 DEF FlagInv
<1> QED
  BY <1>9, <1>10, <1>11, <1>12, <1>13, <1>14, <1>15 DEF ProxyInv

LEMMA SkipStep ==
  ASSUME ProxyInv, NEW d \in Side, SkipDirection(d)
  PROVE  ProxyInv'
<1>1. /\ phase = "serve" /\ turn.dir = d /\ NextDirection(d)
      /\ UNCHANGED <<phase, revents, slots, memory, streams, open, accepted>>
  BY DEF SkipDirection
<1>2. TurnInv' /\ turn'.slot = turn.slot /\ turn # NoTurn
  <2>1. turn # NoTurn
    BY <1>1 DEF Side, NoTurn
  <2>2. PICK n \in 0..Len(slots) :
          /\ revents \in [1..n -> [Side -> SUBSET Event]]
          /\ turn \in [slot : 1..n, dir : Side \cup {"end"}]
    BY <1>1, <2>1 DEF ProxyInv, TurnInv
  <2>3. turn' \in [slot : 1..n, dir : Side \cup {"end"}] /\ turn'.slot = turn.slot
    BY <1>1, <2>2 DEF NextDirection, Side
  <2> QED
    BY <1>1, <2>1, <2>2, <2>3 DEF TurnInv
<1>3. EmptyInv'
  BY <1>1, <1>2 DEF ProxyInv, EmptyInv, Occupied
<1>4. TypeInv'
  BY <1>1 DEF ProxyInv, TypeInv, memory, streams
<1> QED
  BY <1>1, <1>2, <1>3, <1>4, SameSlots DEF ProxyInv

LEMMA EndStep ==
  ASSUME ProxyInv, EndTurn
  PROVE  ProxyInv'
<1> DEFINE c == Current.client
           k == turn.slot
<1>1. /\ phase = "serve" /\ turn.dir = "end" /\ UNCHANGED <<phase, revents, accepted, streams>>
      /\ turn' = IF turn.slot < Len(revents)
                 THEN [slot |-> turn.slot + 1, dir |-> "src"] ELSE NoTurn
  BY DEF EndTurn
<1>2. /\ k \in 1..Len(slots) /\ DOMAIN slots = 1..Len(slots) /\ Current = slots[k]
      /\ Occupied(slots[k]) /\ c \in open /\ c \in Client /\ slots[k].client = c
      /\ slots \in Seq(Slot) /\ Len(slots) \in Nat
  BY <1>1, CurrentSlot DEF ProxyInv, TypeInv, Current
<1>3. PICK n \in 0..Len(slots) :
          /\ revents \in [1..n -> [Side -> SUBSET Event]]
          /\ turn \in [slot : 1..n, dir : Side \cup {"end"}]
  BY <1>1 DEF ProxyInv, TurnInv, NoTurn
<1>4. Len(revents) = n
  BY <1>2, <1>3, LenProperties
<1>5. /\ turn' \in [slot : 1..n, dir : Side \cup {"end"}] \cup {NoTurn}
      /\ turn' # NoTurn => turn'.slot = k + 1
  BY <1>1, <1>2, <1>3, <1>4 DEF Side
<1>6. CASE ~Finished(c)
  <2>1. UNCHANGED <<open, slots, memory>>
    BY <1>6 DEF EndTurn
  <2>2. TypeInv'
    BY <1>1, <2>1 DEF ProxyInv, TypeInv, memory, streams
  <2>3. TurnInv'
    BY <1>1, <1>3, <1>5, <2>1 DEF TurnInv
  <2>4. EmptyInv'
    <3>1. ASSUME NEW i \in DOMAIN slots, ~Occupied(slots[i])
          PROVE  i < k
      BY <1>1, <1>3, <3>1 DEF ProxyInv, EmptyInv, NoTurn
    <3> QED
      BY <1>1, <1>2, <1>5, <2>1, <3>1 DEF EmptyInv, Occupied
  <2> QED
    BY <1>1, <2>1, <2>2, <2>3, <2>4, SameSlots DEF ProxyInv
<1>7. CASE Finished(c)
  <2>1. /\ open' = open \ {c}
        /\ slots' = [slots EXCEPT ![k].client = NoClient]
        /\ active' = [active EXCEPT ![c] = [s \in Side |-> FALSE]]
        /\ buf' = [buf EXCEPT ![c] = [s \in Side |-> <<>>]]
        /\ shut' = {x \in shut : x[1] # c}
    BY <1>7 DEF EndTurn
  <2>2. slots[k] \in Slot
    BY <1>2, ElementOfSeq
  <2>3. [slots[k] EXCEPT !.client = NoClient] \in Slot
    BY <2>2, Constants DEF Slot, NoClient
  <2>4. slots' = [slots EXCEPT ![k] = [slots[k] EXCEPT !.client = NoClient]]
    BY <2>1
  <2>5. /\ slots' \in Seq(Slot) /\ Len(slots') = Len(slots)
        /\ \A i \in 1..Len(slots) : i # k => slots'[i] = slots[i]
        /\ slots'[k] = [slots[k] EXCEPT !.client = NoClient]
    BY <1>2, <2>3, <2>4, ExceptSeq
  <2>6. DOMAIN slots' = 1..Len(slots) /\ ~Occupied(slots'[k])
    BY <1>2, <2>2, <2>5 DEF Occupied, Slot
  <2>7. \A i \in 1..Len(slots) : i # k /\ Occupied(slots[i]) =>
          slots[i].client # c /\ slots[i].client \in open
    BY <1>2 DEF ProxyInv, SlotInv
  <2>8. /\ active \in [Client -> [Side -> BOOLEAN]]
        /\ \A d \in Client : d # c => active'[d] = active[d]
        /\ \A d \in Client : d # c => buf'[d] = buf[d]
        /\ buf'[c] = [s \in Side |-> <<>>]
        /\ active'[c] = [s \in Side |-> FALSE]
    BY <1>2, <2>1 DEF ProxyInv, TypeInv
  <2>9. TypeInv'
    <3>1. active' \in [Client -> [Side -> BOOLEAN]]
      BY <2>1, <2>8
    <3>2. buf' \in [Client -> [Side -> Seq(Byte)]]
      BY <2>1, EmptySeq DEF ProxyInv, TypeInv
    <3> QED
      BY <1>1, <2>1, <2>5, <3>1, <3>2 DEF ProxyInv, TypeInv, streams
  <2>10. TurnInv'
    BY <1>1, <1>3, <1>5, <2>5 DEF TurnInv
  <2>11. EmptyInv'
    <3>1. ASSUME NEW i \in DOMAIN slots, ~Occupied(slots[i])
          PROVE  i < k
      BY <1>1, <1>3, <3>1 DEF ProxyInv, EmptyInv, NoTurn
    <3> QED
      BY <1>1, <1>2, <1>5, <2>5, <2>6, <3>1 DEF EmptyInv, Occupied
  <2>12. SlotInv'
    <3>1. ASSUME NEW i \in DOMAIN slots', Occupied(slots'[i])
          PROVE  /\ i # k /\ slots'[i] = slots[i] /\ Occupied(slots[i])
                 /\ slots'[i].client \in open'
                 /\ \A s \in Side : slots'[i].fds[s].of = slots'[i].client
                 /\ \A j \in DOMAIN slots' : slots'[j].client = slots'[i].client => i = j
      <4>1. i # k /\ slots'[i] = slots[i] /\ Occupied(slots[i])
        BY <2>5, <2>6, <3>1 DEF Occupied
      <4>2. slots[i].client \in open' /\ \A s \in Side : slots[i].fds[s].of = slots[i].client
        BY <1>2, <2>1, <2>6, <2>7, <4>1 DEF ProxyInv, SlotInv
      <4>3. ASSUME NEW j \in DOMAIN slots', slots'[j].client = slots[i].client
            PROVE  i = j
        <5>1. j # k
          BY <2>6, <4>1, <4>3 DEF Occupied
        <5> QED
          BY <1>2, <2>5, <2>6, <4>1, <4>3, <5>1 DEF ProxyInv, SlotInv
      <4> QED
        BY <4>1, <4>2, <4>3
    <3>2. ASSUME NEW d \in open'
          PROVE  \E i \in DOMAIN slots' : slots'[i].client = d
      <4>1. PICK i \in DOMAIN slots : slots[i].client = d
        BY <2>1, <3>2 DEF ProxyInv, SlotInv
      <4>2. i # k
        BY <1>2, <2>1, <3>2, <4>1
      <4> QED
        BY <1>2, <2>5, <2>6, <4>1, <4>2
    <3> QED
      BY <1>1, <2>1, <3>1, <3>2 DEF ProxyInv, SlotInv
  <2>13. FlagInv'
    <3>1. ASSUME NEW i \in DOMAIN slots', Occupied(slots'[i])
          PROVE  /\ i \in DOMAIN slots /\ slots'[i] = slots[i] /\ Occupied(slots[i])
                 /\ slots[i].client \in Client /\ slots[i].client # c
      BY <1>2, <2>5, <2>6, <2>7, <3>1 DEF Occupied, ProxyInv, TypeInv
    <3>2. ASSUME NEW i \in DOMAIN slots', Occupied(slots'[i])
          PROVE  active'[slots[i].client] = active[slots[i].client]
                 /\ buf'[slots[i].client] = buf[slots[i].client]
      BY <2>8, <3>1, <3>2
    <3> QED
      BY <3>1, <3>2 DEF ProxyInv, FlagInv, Occupied
  <2>14. ShutInv' /\ ClosedInv'
    <3>1. ShutInv'
      BY <1>2, <2>1, <2>8 DEF ProxyInv, ShutInv
    <3>2. ClosedInv'
      BY <1>2, <2>1, <2>8 DEF ProxyInv, ClosedInv
    <3> QED
      BY <3>1, <3>2
  <2> QED
    BY <2>9, <2>10, <2>11, <2>12, <2>13, <2>14 DEF ProxyInv
<1> QED
  BY <1>6, <1>7

(* shrink_slots changes where the clients are and nothing else.             *)
LEMMA ShrinkStep ==
  ASSUME ProxyInv, ShrinkSlots
  PROVE  ProxyInv'
<1>1. /\ phase = "serve" /\ phase' = "top" /\ slots' = Compact(slots)
      /\ UNCHANGED <<memory, streams, open, accepted>>
  BY DEF ShrinkSlots, Shrunk, Goto
<1>2. slots \in Seq(Slot) /\ Len(slots) \in Nat /\ DOMAIN slots = 1..Len(slots)
      /\ Len(slots) <= MaxClients /\ MaxClients \in Nat
  BY Constants DEF ProxyInv, TypeInv
<1>3. slots' \in Seq(Slot) /\ Len(slots') <= Len(slots)
  BY <1>1, <1>2, CompactKeeps
<1>4. PICK from \in [1..Len(Compact(slots)) -> 1..Len(slots)] :
        /\ \A i \in 1..Len(Compact(slots)) :
             Compact(slots)[i] = slots[from[i]] /\ Occupied(slots[from[i]])
        /\ \A i, j \in 1..Len(Compact(slots)) : i < j => from[i] < from[j]
        /\ \A k \in 1..Len(slots) :
             Occupied(slots[k]) => \E i \in 1..Len(Compact(slots)) : from[i] = k
  <2>1. slots \in Seq(Slot)
    BY <1>2
  <2> QED
    BY <2>1, CompactKeeps
<1>5. /\ from \in [1..Len(slots') -> 1..Len(slots)]
      /\ \A i \in 1..Len(slots') : slots'[i] = slots[from[i]] /\ Occupied(slots[from[i]])
      /\ \A i, j \in 1..Len(slots') : i < j => from[i] < from[j]
      /\ \A k \in 1..Len(slots) :
           Occupied(slots[k]) => \E i \in 1..Len(slots') : from[i] = k
  BY <1>1, <1>4
<1>6. DOMAIN slots' = 1..Len(slots') /\ Len(slots') \in Nat
  BY <1>3
<1>7. TypeInv'
  <2>1. Len(slots') <= MaxClients
    BY <1>2, <1>3, <1>6
  <2> QED
    BY <1>1, <1>3, <2>1 DEF ProxyInv, TypeInv, memory, streams
<1>8. TurnInv'
  BY <1>1 DEF TurnInv
<1>9. EmptyInv'
  BY <1>5, <1>6 DEF EmptyInv, Occupied
<1>10. SlotInv'
  <2>1. ASSUME NEW i \in 1..Len(slots')
        PROVE  /\ slots'[i].client \in open
               /\ \A s \in Side : slots'[i].fds[s].of = slots'[i].client
    <3>1. from[i] \in DOMAIN slots /\ Occupied(slots[from[i]]) /\ slots'[i] = slots[from[i]]
      BY <1>2, <1>5
    <3> QED
      BY <3>1 DEF ProxyInv, SlotInv
  <2>2. ASSUME NEW i \in 1..Len(slots'), NEW j \in 1..Len(slots'),
               slots'[j].client = slots'[i].client
        PROVE  i = j
    <3>1. from[i] = from[j]
      <4>1. /\ from[i] \in DOMAIN slots /\ from[j] \in DOMAIN slots
            /\ Occupied(slots[from[i]])
            /\ slots[from[j]].client = slots[from[i]].client
        BY <1>2, <1>5, <2>2
      <4> QED
        BY <4>1 DEF ProxyInv, SlotInv
    <3>2. from[i] \in Nat /\ ~(i < j) /\ ~(j < i)
      BY <1>5, <3>1
    <3> QED
      BY <1>6, <3>2
  <2>3. ASSUME NEW c \in open
        PROVE  \E i \in 1..Len(slots') : slots'[i].client = c
    <3>1. PICK k \in 1..Len(slots) : slots[k].client = c
      BY <1>2 DEF ProxyInv, SlotInv
    <3>2. Occupied(slots[k])
      BY <3>1 DEF Occupied, NoClient, ProxyInv, TypeInv, Client
    <3>3. PICK i \in 1..Len(slots') : from[i] = k
      BY <1>5, <3>2
    <3> QED
      BY <1>5, <3>1, <3>3
  <2> QED
    BY <1>1, <1>6, <2>1, <2>2, <2>3 DEF ProxyInv, SlotInv
<1>11. ClosedInv' /\ ShutInv'
  BY <1>1 DEF ProxyInv, ClosedInv, ShutInv, memory
<1>12. FlagInv'
  <2>1. \A i \in DOMAIN slots' :
           from[i] \in DOMAIN slots /\ slots'[i] = slots[from[i]] /\ Occupied(slots[from[i]])
    BY <1>2, <1>5, <1>6
  <2> QED
    BY <1>1, <2>1 DEF ProxyInv, FlagInv, memory
<1> QED
  BY <1>7, <1>8, <1>9, <1>10, <1>11, <1>12 DEF ProxyInv
-----------------------------------------------------------------------------
(* transfer                                                                 *)

LEMMA BytesAreSent ==
  ASSUME TypeInv, NEW d \in Side, NEW c \in Client, NEW r \in Nat
  PROVE  /\ Bytes(d, c, r) \in Seq(Byte) /\ Len(Bytes(d, c, r)) = r
         /\ \A i \in 1..r : Bytes(d, c, r)[i] = DataByte(d, c, sent[d][c] + i)
<1>1. sent[d][c] \in Nat
  BY DEF TypeInv
<1>2. \A i \in 1..r : DataByte(d, c, sent[d][c] + i) \in Byte
  BY <1>1 DEF DataByte, Byte
<1> QED
  BY <1>2 DEF Bytes

(* r bytes are taken in and w handed on, with or without an end of the      *)
(* direction.                                                               *)
Moves(d, c, r, w) ==
  /\ r \in Nat /\ Len(buf[c][d]) + r <= BufferSize
  /\ Filled(d, r) = buf[c][d] \o Bytes(d, c, r)
  /\ w \in 0..Len(Filled(d, r))
  /\ sent' = [sent EXCEPT ![d][c] = @ + r]
  /\ buf' = [buf EXCEPT ![c][d] = Rest(d, r, w)]
  /\ got' = [got EXCEPT ![Other(d)][c] = @ \o Written(d, r, w)]

LEMMA MovesKeepTypes ==
  ASSUME TypeInv, NEW d \in Side, NEW c \in Client, NEW r \in Nat, NEW w \in Nat,
         Moves(d, c, r, w)
  PROVE  /\ buf' \in [Client -> [Side -> Seq(Byte)]]
         /\ sent' \in [Side -> [Client -> Nat]] /\ got' \in [Side -> [Client -> Seq(Byte)]]
         /\ \A b \in Client, s \in Side :
              b # c \/ s # d => /\ buf'[b][s] = buf[b][s] /\ sent'[s][b] = sent[s][b]
                               /\ got'[Other(s)][b] = got[Other(s)][b]
         /\ sent'[d][c] = sent[d][c] + r
         /\ Filled(d, r) \in Seq(Byte)
         /\ buf'[c][d] = Rest(d, r, w)
         /\ got'[Other(d)][c] = got[Other(d)][c] \o Written(d, r, w)
<1> DEFINE bytes == Filled(d, r)
           first == Written(d, r, w)
           rest  == Rest(d, r, w)
           o     == Other(d)
<1>1. /\ r \in Nat /\ w \in 0..Len(bytes)
      /\ sent' = [sent EXCEPT ![d][c] = @ + r]
      /\ buf' = [buf EXCEPT ![c][d] = rest]
      /\ got' = [got EXCEPT ![o][c] = @ \o first]
  BY DEF Moves
<1>2. /\ buf \in [Client -> [Side -> Seq(Byte)]] /\ sent \in [Side -> [Client -> Nat]]
      /\ got \in [Side -> [Client -> Seq(Byte)]]
  BY DEF TypeInv
<1>3. o \in Side
  BY Sides
<1>4. bytes \in Seq(Byte)
  BY <1>1, <1>2, BytesAreSent, ConcatProperties DEF Moves
<1>5. first \in Seq(Byte) /\ rest \in Seq(Byte)
  BY <1>1, <1>4, SeqFirst, SeqRest DEF Written, Rest
<1> HIDE DEF first, rest
<1>6. got[o][c] \o first \in Seq(Byte)
  BY <1>2, <1>3, <1>5, ConcatProperties
<1>7. buf' \in [Client -> [Side -> Seq(Byte)]]
  BY <1>1, <1>2, <1>5
<1>8. sent' \in [Side -> [Client -> Nat]]
  BY <1>1, <1>2
<1>9. got' \in [Side -> [Client -> Seq(Byte)]]
  BY <1>1, <1>2, <1>3, <1>6
<1>10. ASSUME NEW b \in Client, NEW s \in Side, b # c \/ s # d
       PROVE  /\ buf'[b][s] = buf[b][s] /\ sent'[s][b] = sent[s][b]
              /\ got'[Other(s)][b] = got[Other(s)][b]
  <2>1. Other(s) \in Side /\ (s # d => Other(s) # o)
    BY Sides DEF Side, Other
  <2>2. buf'[b][s] = buf[b][s] /\ sent'[s][b] = sent[s][b]
    BY <1>1, <1>2, <1>10
  <2>3. got'[Other(s)][b] = got[Other(s)][b]
    BY <1>1, <1>2, <1>3, <1>10, <2>1
  <2> QED
    BY <2>2, <2>3
<1>11. sent'[d][c] = sent[d][c] + r /\ buf'[c][d] = rest
  BY <1>1, <1>2
<1>12. got'[o][c] = got[o][c] \o first
  BY <1>1, <1>2, <1>3
<1> QED
  BY <1>4, <1>7, <1>8, <1>9, <1>10, <1>11, <1>12 DEF first, rest

LEMMA MovesKeepStreams ==
  ASSUME TypeInv, StreamInv, NEW d \in Side, NEW c \in open, NEW r \in Nat, NEW w \in Nat, Moves(d, c, r, w), SlotInv, UNCHANGED <<open, accepted>>
  PROVE  StreamInv'
<1> DEFINE here == buf[c][d]
           new   == Bytes(d, c, r)
           bytes == Filled(d, r)
           first == Written(d, r, w)
           rest  == Rest(d, r, w)
           o     == Other(d)
           there == got[o][c]
           seen  == there \o first
<1>1. c \in Client /\ o \in Side /\ c \in 1..accepted /\ accepted \in Nat
  BY Sides DEF TypeInv, SlotInv
<1>2. r \in Nat /\ Len(here) + r <= BufferSize /\ w \in 0..Len(bytes)
  BY DEF Moves
<1>3. /\ here \in Seq(Byte) /\ there \in Seq(Byte) /\ sent[d][c] \in Nat
      /\ Len(here) \in Nat /\ Len(there) \in Nat
  <2>1. /\ buf \in [Client -> [Side -> Seq(Byte)]] /\ sent \in [Side -> [Client -> Nat]]
        /\ got \in [Side -> [Client -> Seq(Byte)]]
    BY DEF TypeInv
  <2> QED
    BY <1>1, <2>1
<1>4. /\ new \in Seq(Byte) /\ Len(new) = r
      /\ \A i \in 1..r : new[i] = DataByte(d, c, sent[d][c] + i)
  BY <1>1, <1>2, BytesAreSent
<1>5. /\ Len(there) + Len(here) = sent[d][c]
      /\ \A i \in 1..Len(there) : there[i] = DataByte(d, c, i)
      /\ \A i \in 1..Len(here) : here[i] = DataByte(d, c, Len(there) + i)
  BY <1>1 DEF StreamInv
<1>16. bytes = here \o new
  BY DEF Moves
<1>6. /\ bytes \in Seq(Byte) /\ buf'[c][d] = rest /\ got'[o][c] = seen
      /\ sent'[d][c] = sent[d][c] + r
      /\ \A b \in Client, s \in Side :
           b # c \/ s # d => /\ buf'[b][s] = buf[b][s] /\ sent'[s][b] = sent[s][b]
                            /\ got'[Other(s)][b] = got[Other(s)][b]
  <2>1. bytes \in Seq(Byte) /\ sent'[d][c] = sent[d][c] + r
    BY <1>1, MovesKeepTypes
  <2>2. buf'[c][d] = rest /\ got'[o][c] = seen
    BY <1>1, MovesKeepTypes
  <2>3. \A b \in Client, s \in Side :
           b # c \/ s # d => /\ buf'[b][s] = buf[b][s] /\ sent'[s][b] = sent[s][b]
                            /\ got'[Other(s)][b] = got[Other(s)][b]
    BY <1>1, MovesKeepTypes
  <2> QED
    BY <2>1, <2>2, <2>3
<1>17. first = SubSeq(bytes, 1, w) /\ rest = SubSeq(bytes, w + 1, Len(bytes))
  BY DEF Written, Rest
<1> HIDE DEF here, new, there, bytes, first, rest
<1>7. /\ Len(bytes) = Len(here) + r
      /\ \A i \in 1..(Len(here) + r) :
           bytes[i] = IF i <= Len(here) THEN here[i] ELSE new[i - Len(here)]
  BY <1>3, <1>4, <1>16, ConcatProperties
<1>8. ASSUME NEW i \in 1..(Len(here) + r)
      PROVE  bytes[i] = DataByte(d, c, Len(there) + i)
  <2>1. CASE i <= Len(here)
    <3>1. i \in 1..Len(here)
      BY <1>3, <2>1
    <3> QED
      BY <1>5, <1>7, <2>1, <3>1
  <2>2. CASE ~(i <= Len(here))
    <3>1. i - Len(here) \in 1..r /\ sent[d][c] + (i - Len(here)) = Len(there) + i
      BY <1>2, <1>3, <1>5, <2>2
    <3> QED
      BY <1>4, <1>7, <2>2, <3>1
  <2> QED
    BY <2>1, <2>2
<1>9. /\ first \in Seq(Byte) /\ Len(first) = w /\ w \in Nat
      /\ \A i \in 1..w : first[i] = bytes[i]
      /\ rest \in Seq(Byte) /\ Len(rest) = Len(here) + r - w
      /\ \A i \in 1..(Len(here) + r - w) : rest[i] = bytes[w + i]
  BY <1>2, <1>6, <1>7, <1>17, SeqFirst, SeqRest
<1>10. /\ Len(seen) = Len(there) + w
       /\ \A i \in 1..(Len(there) + w) :
            seen[i] = IF i <= Len(there) THEN there[i] ELSE first[i - Len(there)]
  BY <1>3, <1>9, ConcatProperties
<1> HIDE DEF seen
<1>11. ASSUME NEW i \in 1..(Len(there) + w)
       PROVE  seen[i] = DataByte(d, c, i)
  <2>1. CASE i <= Len(there)
    <3>1. i \in 1..Len(there)
      BY <1>3, <2>1
    <3> QED
      BY <1>5, <1>10, <2>1, <3>1
  <2>2. CASE ~(i <= Len(there))
    <3>1. /\ i - Len(there) \in 1..w /\ i - Len(there) \in 1..(Len(here) + r)
          /\ Len(there) + (i - Len(there)) = i
      BY <1>2, <1>3, <1>7, <1>9, <2>2
    <3>2. seen[i] = first[i - Len(there)]
      BY <1>10, <2>2
    <3>3. first[i - Len(there)] = bytes[i - Len(there)]
      BY <1>9, <3>1
    <3>4. bytes[i - Len(there)] = DataByte(d, c, Len(there) + (i - Len(there)))
      BY <1>8, <3>1
    <3> QED
      BY <3>1, <3>2, <3>3, <3>4
  <2> QED
    BY <2>1, <2>2
<1>12. ASSUME NEW i \in 1..(Len(here) + r - w)
       PROVE  rest[i] = DataByte(d, c, Len(seen) + i)
  <2>1. w + i \in 1..(Len(here) + r) /\ Len(there) + (w + i) = Len(seen) + i
    BY <1>2, <1>3, <1>9, <1>10
  <2>2. rest[i] = bytes[w + i]
    BY <1>9
  <2> QED
    BY <1>8, <2>1, <2>2
<1>13. Len(rest) <= BufferSize /\ Len(seen) + Len(rest) = sent[d][c] + r
  <2>1. BufferSize \in Nat
    BY Constants
  <2> QED
    BY <1>2, <1>3, <1>5, <1>9, <1>10, <2>1
<1>14. Len(seen) <= sent[d][c] + r
  BY <1>2, <1>3, <1>7, <1>9, <1>10, <1>13
<1>15. ASSUME NEW b \in Client, NEW s \in Side
       PROVE  LET arrived == got'[Other(s)][b]
              IN  /\ Len(buf'[b][s]) <= BufferSize
                  /\ Len(arrived) <= sent'[s][b]
                  /\ \A i \in 1..Len(arrived) : arrived[i] = DataByte(s, b, i)
                  /\ b > accepted => sent'[s][b] = 0
                  /\ b \in open =>
                       /\ Len(arrived) + Len(buf'[b][s]) = sent'[s][b]
                       /\ \A i \in 1..Len(buf'[b][s]) :
                            buf'[b][s][i] = DataByte(s, b, Len(arrived) + i)
  <2>1. CASE b # c \/ s # d
    <3>1. LET arrived == got[Other(s)][b]
          IN  /\ Len(buf[b][s]) <= BufferSize
              /\ Len(arrived) <= sent[s][b]
              /\ \A i \in 1..Len(arrived) : arrived[i] = DataByte(s, b, i)
              /\ b > accepted => sent[s][b] = 0
              /\ b \in open =>
                   /\ Len(arrived) + Len(buf[b][s]) = sent[s][b]
                   /\ \A i \in 1..Len(buf[b][s]) :
                        buf[b][s][i] = DataByte(s, b, Len(arrived) + i)
      BY DEF StreamInv
    <3>2. /\ buf'[b][s] = buf[b][s] /\ sent'[s][b] = sent[s][b]
          /\ got'[Other(s)][b] = got[Other(s)][b]
      BY <1>6, <2>1
    <3> QED
      BY <3>1, <3>2
  <2>2. CASE b = c /\ s = d
    <3>1. ~(c > accepted)
      BY <1>1
    <3>2. Len(rest) = Len(here) + r - w /\ Len(seen) = Len(there) + w
      BY <1>9, <1>10
    <3> QED
      BY <1>6, <1>11, <1>12, <1>13, <1>14, <2>2, <3>1, <3>2
  <2> QED
    BY <2>1, <2>2
<1> QED
  BY <1>15 DEF StreamInv

(* A direction that ends asks for nothing any more; one that goes on asks   *)
(* for output as long as its buffer holds something.                        *)
Ends(d, c) ==
  /\ active' = [active EXCEPT ![c][d] = FALSE]
  /\ slots' = [slots EXCEPT ![turn.slot].fds[d] = ClearFlag(@, "IN"),
                           ![turn.slot].fds[Other(d)] = ClearFlag(@, "OUT")]
  /\ shut' = shut \cup {<<c, Other(d), "WR">>} \/ shut' = shut \cup {<<c, d, "RD">>}

GoesOn(d, c, r, w) ==
  /\ UNCHANGED <<active, shut>>
  /\ slots' = [slots EXCEPT ![turn.slot].fds[Other(d)] = AskForOutput(@, Rest(d, r, w))]

LEMMA BufferFits ==
  ASSUME TypeInv, StreamInv, NEW d \in Side, NEW c \in Client
  PROVE  buf[c][d] \in Seq(Byte) /\ Len(buf[c][d]) \in Nat /\ Len(buf[c][d]) <= BufferSize
<1>1. buf[c][d] \in Seq(Byte)
  BY DEF TypeInv
<1>2. Len(buf[c][d]) <= BufferSize
  BY DEF StreamInv
<1> QED
  BY <1>1, <1>2

LEMMA ReadFits ==
  ASSUME TypeInv, StreamInv, NEW d \in Side, NEW c \in Client, c = Current.client,
         c = Current.fds[d].of, NEW r \in ReadResults(d), r # Failed
  PROVE  r \in Nat /\ Len(buf[c][d]) + r <= BufferSize
<1> DEFINE n == Len(buf[c][d])
<1>1. n \in Nat /\ n <= BufferSize /\ BufferSize \in Nat
  BY Constants, BufferFits
<1>2. CASE r = 0
  BY <1>1, <1>2
<1>3. CASE r # 0
  <2> DEFINE left == IF c \in Talkers THEN Units - sent[d][c] ELSE 0
             room == BufferSize - n
  <2>1. r \in 1..(IF left < room THEN left ELSE room)
    BY <1>3 DEF ReadResults, Failed
  <2>2. room \in Int /\ left \in Int
    BY <1>1, ProxyAssumption DEF TypeInv
  <2>3. r \in Nat /\ r <= room
    <3> HIDE DEF left, room
    <3> QED
      BY <2>1, <2>2
  <2> HIDE DEF n
  <2>4. n + r <= BufferSize
    BY <1>1, <2>3
  <2> QED
    BY <2>3, <2>4 DEF n
<1> QED
  BY <1>2, <1>3

LEMMA TransferMoves ==
  ASSUME ProxyInv, StreamInv, NEW d \in Side, Transfer(d), NEW c, c = Current.client
  PROVE  \E r \in Nat, w \in Nat :
           Moves(d, c, r, w) /\ (Ends(d, c) \/ GoesOn(d, c, r, w))
<1> DEFINE o == Other(d)
<1>1. /\ phase = "serve" /\ turn.dir \in Side \cup {"end"}
      /\ TypeInv /\ TurnInv /\ EmptyInv /\ SlotInv
  BY DEF Transfer, ProxyInv
<1>2. c \in Client /\ c \in open /\ o \in Side /\ Current.fds[d].of = c /\ Current.fds[o].of = c
  BY <1>1, CurrentSlot, Sides
<1>3. /\ buf \in [Client -> [Side -> Seq(Byte)]] /\ sent \in [Side -> [Client -> Nat]]
      /\ got \in [Side -> [Client -> Seq(Byte)]]
  BY <1>1 DEF TypeInv
<1>4. buf[c][d] \in Seq(Byte) /\ Len(buf[c][d]) \in Nat /\ Len(buf[c][d]) <= BufferSize
  BY <1>1, <1>2, BufferFits
<1>5. ASSUME NEW r \in Nat
      PROVE  /\ Filled(d, r) \in Seq(Byte) /\ Rest(d, r, 0) = Filled(d, r)
             /\ Written(d, r, 0) = <<>>
  <2>1. Filled(d, r) \in Seq(Byte)
    BY <1>1, <1>2, <1>4, BytesAreSent, ConcatProperties DEF Filled
  <2>2. SubSeq(Filled(d, r), 1, Len(Filled(d, r))) = Filled(d, r)
    BY <2>1, SubSeqFull
  <2>3. SubSeq(Filled(d, r), 1, 0) = <<>>
    BY SubSeqEmpty
  <2> QED
    BY <2>1, <2>2, <2>3 DEF Rest, Written
<1>6. got = [got EXCEPT ![o][c] = @ \o <<>>]
  <2>1. got[o][c] \o <<>> = got[o][c]
    BY <1>2, <1>3, ConcatEmptySeq
  <2> QED
    BY <1>2, <1>3, <2>1
<1>10. \A r \in Nat : Filled(d, r) = buf[c][d] \o Bytes(d, c, r)
  BY <1>2 DEF Filled
<1>7. PICK r \in ReadResults(d) :
        \/ r = Failed /\ ReadFails(d)
        \/ /\ r # Failed
           /\ sent' = [sent EXCEPT ![d][c] = @ + r]
           /\ \E w \in WriteResults(d, Filled(d, r)) :
                \/ w = Failed /\ WriteFails(d, r)
                \/ w # Failed /\ HandOn(d, r, w)
  BY <1>2 DEF Transfer
<1>8. CASE r = Failed
  <2>1. EndDirection(d, o, "WR") /\ UNCHANGED <<buf, sent, got>>
    BY <1>7, <1>8 DEF ReadFails, streams
  <2>2. Filled(d, 0) = buf[c][d]
    <3>1. Bytes(d, c, 0) = <<>>
      BY <1>1, <1>2, BytesAreSent, EmptySeq
    <3> QED
      BY <1>2, <1>4, <3>1, ConcatEmptySeq DEF Filled
  <2>3. Rest(d, 0, 0) = buf[c][d] /\ Written(d, 0, 0) = <<>>
    BY <1>5, <2>2
  <2>4. buf' = [buf EXCEPT ![c][d] = Rest(d, 0, 0)]
    BY <1>2, <1>3, <2>1, <2>3
  <2>5. sent' = [sent EXCEPT ![d][c] = @ + 0]
    BY <1>2, <1>3, <2>1
  <2>6. got' = [got EXCEPT ![o][c] = @ \o Written(d, 0, 0)]
    BY <1>6, <2>1, <2>3
  <2>7. Len(buf[c][d]) + 0 <= BufferSize /\ 0 \in 0..Len(Filled(d, 0))
    BY <1>4, <2>2
  <2>8. Moves(d, c, 0, 0)
    BY <1>10, <2>4, <2>5, <2>6, <2>7 DEF Moves
  <2>9. Ends(d, c)
    BY <1>2, <2>1 DEF EndDirection, Ends
  <2> QED
    BY <2>8, <2>9
<1>9. CASE r # Failed
  <2>1. r \in Nat /\ Len(buf[c][d]) + r <= BufferSize
    BY <1>1, <1>2, <1>9, ReadFits
  <2>2. Filled(d, r) \in Seq(Byte) /\ Len(Filled(d, r)) \in Nat
    BY <1>5, <2>1
  <2>3. sent' = [sent EXCEPT ![d][c] = @ + r]
    BY <1>7, <1>9
  <2>4. PICK w \in WriteResults(d, Filled(d, r)) :
                \/ w = Failed /\ WriteFails(d, r)
                \/ w # Failed /\ HandOn(d, r, w)
    BY <1>7, <1>9
  <2>5. CASE w = Failed
    <3>1. /\ buf' = [buf EXCEPT ![c][d] = Filled(d, r)] /\ got' = got
          /\ EndDirection(d, d, "RD")
      BY <2>4, <2>5 DEF WriteFails
    <3>2. buf' = [buf EXCEPT ![c][d] = Rest(d, r, 0)]
      BY <1>5, <2>1, <3>1
    <3>3. got' = [got EXCEPT ![o][c] = @ \o Written(d, r, 0)]
      BY <1>5, <1>6, <2>1, <3>1
    <3>4. 0 \in 0..Len(Filled(d, r))
      BY <2>2
    <3>5. Moves(d, c, r, 0)
      BY <1>10, <2>1, <2>3, <3>2, <3>3, <3>4 DEF Moves
    <3>6. Ends(d, c)
      BY <1>2, <3>1 DEF EndDirection, Ends
    <3> QED
      BY <2>1, <3>5, <3>6
  <2>6. CASE w # Failed
    <3>1. w \in 0..Len(Filled(d, r)) /\ w \in Nat
      BY <2>2, <2>6 DEF WriteResults, Failed
    <3>2. /\ buf' = [buf EXCEPT ![c][d] = Rest(d, r, w)]
          /\ got' = [got EXCEPT ![o][c] = @ \o Written(d, r, w)]
          /\ slots' = [slots EXCEPT ![turn.slot].fds[o] = AskForOutput(@, Rest(d, r, w))]
          /\ UNCHANGED <<active, shut>>
      BY <1>2, <2>4, <2>6 DEF HandOn
    <3>3. Moves(d, c, r, w)
      BY <1>10, <2>1, <2>3, <3>1, <3>2 DEF Moves
    <3>4. GoesOn(d, c, r, w)
      BY <3>2 DEF GoesOn
    <3> QED
      BY <2>1, <3>1, <3>3, <3>4
  <2> QED
    BY <2>5, <2>6
<1> QED
  BY <1>8, <1>9

(* What a descriptor of client c asks for.                                  *)
Asks(fd, c, in, out) ==
  /\ fd \in PollFds /\ fd.of = c
  /\ "IN" \in fd.events <=> in
  /\ "OUT" \in fd.events <=> out
  /\ fd.watched <=> fd.events # {}

LEMMA FlagCleared ==
  ASSUME NEW fd \in PollFds, fd.watched <=> fd.events # {}, NEW flag \in Event
  PROVE  /\ ClearFlag(fd, flag) \in PollFds /\ ClearFlag(fd, flag).of = fd.of
         /\ ClearFlag(fd, flag).events = fd.events \ {flag}
         /\ ClearFlag(fd, flag).watched <=> ClearFlag(fd, flag).events # {}
<1>1. /\ ClearFlag(fd, flag) \in PollFds /\ ClearFlag(fd, flag).of = fd.of
      /\ ClearFlag(fd, flag).events = fd.events \ {flag}
      /\ ClearFlag(fd, flag).watched = (fd.watched /\ fd.events \ {flag} # {})
  BY DEF ClearFlag, PollFds
<1>2. fd.events \ {flag} # {} => fd.watched
  OBVIOUS
<1> QED
  BY <1>1, <1>2

LEMMA OutputAsked ==
  ASSUME NEW fd \in PollFds, fd.watched <=> fd.events # {}, NEW bytes
  PROVE  /\ AskForOutput(fd, bytes) \in PollFds /\ AskForOutput(fd, bytes).of = fd.of
         /\ "IN" \in AskForOutput(fd, bytes).events <=> "IN" \in fd.events
         /\ "OUT" \in AskForOutput(fd, bytes).events <=> bytes # <<>>
         /\ AskForOutput(fd, bytes).watched <=> AskForOutput(fd, bytes).events # {}
<1>1. CASE bytes = <<>>
  <2>1. fd.events \subseteq Event /\ "OUT" \in Event
    BY DEF PollFds, Event
  <2> QED
    BY <1>1, <2>1, FlagCleared DEF AskForOutput
<1>2. CASE bytes # <<>>
  <2>1. /\ SetFlag(fd, "OUT") \in PollFds /\ SetFlag(fd, "OUT").of = fd.of
        /\ SetFlag(fd, "OUT").events = fd.events \cup {"OUT"}
        /\ SetFlag(fd, "OUT").watched = TRUE
    BY DEF SetFlag, PollFds, Event
  <2> QED
    BY <1>2, <2>1 DEF AskForOutput
<1> QED
  BY <1>1, <1>2

(* The array after a change of one slot's descriptors.                      *)
LEMMA TransferSlots ==
  ASSUME TypeInv, NEW d \in Side, NEW c \in Client, NEW r \in Nat, NEW w \in Nat,
         NEW k \in 1..Len(slots), k = turn.slot, slots[k].client = c,
         active[c][d], Moves(d, c, r, w), Ends(d, c) \/ GoesOn(d, c, r, w),
         \A s \in Side : Asks(slots[k].fds[s], c, active[c][s],
                              active[c][Other(s)] /\ buf[c][Other(s)] # <<>>)
  PROVE  /\ slots' \in Seq(Slot) /\ Len(slots') = Len(slots)
         /\ \A i \in 1..Len(slots) : i # k => slots'[i] = slots[i]
         /\ slots'[k].client = c
         /\ \A s \in Side : Asks(slots'[k].fds[s], c, active'[c][s],
                                 active'[c][Other(s)] /\ buf'[c][Other(s)] # <<>>)
         /\ active' \in [Client -> [Side -> BOOLEAN]]
         /\ \A b \in Client : b # c => active'[b] = active[b]
         /\ \A b \in Client, s \in Side : active'[b][s] => active[b][s]
<1> DEFINE o == Other(d)
           slot == slots[k]
<1>1. /\ o \in Side /\ o # d /\ Other(o) = d /\ \A s \in Side : s = d \/ s = o
      /\ slots \in Seq(Slot) /\ active \in [Client -> [Side -> BOOLEAN]]
  BY Sides DEF TypeInv
<1>2. slot \in Slot
  BY <1>1, ElementOfSeq
<1>3. buf'[c][o] = buf[c][o] /\ buf'[c][d] = Rest(d, r, w)
  BY <1>1, MovesKeepTypes
<1>4. /\ active' \in [Client -> [Side -> BOOLEAN]]
      /\ \A b \in Client : b # c => active'[b] = active[b]
      /\ \A b \in Client, s \in Side : active'[b][s] => active[b][s]
      /\ active'[c][o] = active[c][o]
  <2>1. active' = active \/ active' = [active EXCEPT ![c][d] = FALSE]
    BY DEF Ends, GoesOn
  <2>2. CASE active' = active
    BY <1>1, <2>2
  <2>3. CASE active' = [active EXCEPT ![c][d] = FALSE]
    BY <1>1, <2>3
  <2> QED
    BY <2>1, <2>2, <2>3
<1>5. ASSUME NEW new \in Slot, slots' = [slots EXCEPT ![k] = new], new.client = c,
             \A s \in Side : Asks(new.fds[s], c, active'[c][s],
                                 active'[c][Other(s)] /\ buf'[c][Other(s)] # <<>>)
      PROVE  /\ slots' \in Seq(Slot) /\ Len(slots') = Len(slots)
             /\ \A i \in 1..Len(slots) : i # k => slots'[i] = slots[i]
             /\ slots'[k].client = c
             /\ \A s \in Side : Asks(slots'[k].fds[s], c, active'[c][s],
                                     active'[c][Other(s)] /\ buf'[c][Other(s)] # <<>>)
  <2>1. /\ slots' \in Seq(Slot) /\ Len(slots') = Len(slots) /\ slots'[k] = new
        /\ \A i \in 1..Len(slots) : i # k => slots'[i] = slots[i]
    BY <1>1, <1>5, ExceptSeq
  <2> QED
    BY <1>5, <2>1
<1>6. /\ Asks(slot.fds[d], c, active[c][d], active[c][o] /\ buf[c][o] # <<>>)
      /\ Asks(slot.fds[o], c, active[c][o], active[c][d] /\ buf[c][d] # <<>>)
  BY <1>1
<1>7. active[c][d] \in BOOLEAN /\ active[c][o] \in BOOLEAN
      /\ slot.fds \in [Side -> PollFds]
  BY <1>1, <1>2 DEF Slot
<1>8. CASE Ends(d, c)
  <2> DEFINE fd == ClearFlag(slot.fds[d], "IN")
             ofd == ClearFlag(slot.fds[o], "OUT")
             new == [slot EXCEPT !.fds = [slot.fds EXCEPT ![d] = fd, ![o] = ofd]]
  <2>1. Asks(fd, c, FALSE, active[c][o] /\ buf[c][o] # <<>>)
    <3>1. /\ slot.fds[d] \in PollFds /\ "IN" \in Event
          /\ slot.fds[d].watched <=> slot.fds[d].events # {}
      BY <1>1, <1>6, <1>7 DEF Asks, Event
    <3> QED
      BY <1>6, <3>1, FlagCleared DEF Asks
  <2>2. Asks(ofd, c, active[c][o], FALSE)
    <3>1. /\ slot.fds[o] \in PollFds /\ "OUT" \in Event
          /\ slot.fds[o].watched <=> slot.fds[o].events # {}
      BY <1>1, <1>6, <1>7 DEF Asks, Event
    <3> QED
      BY <1>6, <3>1, FlagCleared DEF Asks
  <2>3. slots' = [slots EXCEPT ![k] = new]
    BY <1>1, <1>2, <1>7, <1>8 DEF Ends
  <2>4. fd \in PollFds /\ ofd \in PollFds
    BY <2>1, <2>2 DEF Asks
  <2> HIDE DEF fd, ofd
  <2>5. new \in Slot /\ new.client = c /\ new.fds[d] = fd /\ new.fds[o] = ofd
    BY <1>1, <1>2, <1>7, <2>4 DEF Slot
  <2> HIDE DEF new
  <2>6. active'[c][d] = FALSE
    BY <1>1, <1>8 DEF Ends
  <2>7. Asks(new.fds[d], c, active'[c][d], active'[c][o] /\ buf'[c][o] # <<>>)
    BY <1>3, <1>4, <2>1, <2>5, <2>6
  <2>8. Asks(new.fds[o], c, active'[c][o], active'[c][d] /\ buf'[c][d] # <<>>)
    <3>1. (active'[c][d] /\ buf'[c][d] # <<>>) = FALSE
      BY <2>6
    <3> QED
      BY <1>4, <2>2, <2>5, <3>1
  <2>9. \A s \in Side : Asks(new.fds[s], c, active'[c][s],
                            active'[c][Other(s)] /\ buf'[c][Other(s)] # <<>>)
    BY <1>1, <2>7, <2>8
  <2> QED
    BY <1>4, <1>5, <2>3, <2>5, <2>9
<1>9. CASE GoesOn(d, c, r, w)
  <2> DEFINE rest == Rest(d, r, w)
             ofd == AskForOutput(slot.fds[o], rest)
             new == [slot EXCEPT !.fds = [slot.fds EXCEPT ![o] = ofd]]
  <2>1. Asks(ofd, c, active[c][o], rest # <<>>)
    <3>1. slot.fds[o] \in PollFds /\ (slot.fds[o].watched <=> slot.fds[o].events # {})
      BY <1>1, <1>6, <1>7 DEF Asks
    <3> QED
      BY <1>6, <3>1, OutputAsked DEF Asks
  <2>2. slots' = [slots EXCEPT ![k] = new]
    BY <1>1, <1>2, <1>7, <1>9 DEF GoesOn
  <2>3. ofd \in PollFds
    BY <2>1 DEF Asks
  <2> HIDE DEF ofd, rest
  <2>4. new \in Slot /\ new.client = c /\ new.fds[d] = slot.fds[d] /\ new.fds[o] = ofd
    BY <1>1, <1>2, <1>7, <2>3 DEF Slot
  <2> HIDE DEF new
  <2>5. active'[c][d] = TRUE /\ active'[c][o] = active[c][o] /\ active[c][d] = TRUE
    BY <1>7, <1>9 DEF GoesOn
  <2>6. Asks(new.fds[d], c, active'[c][d], active'[c][o] /\ buf'[c][o] # <<>>)
    BY <1>3, <1>6, <2>4, <2>5
  <2>7. Asks(new.fds[o], c, active'[c][o], active'[c][d] /\ buf'[c][d] # <<>>)
    <3>1. (active'[c][d] /\ buf'[c][d] # <<>>) = (rest # <<>>)
      BY <1>3, <2>5 DEF rest
    <3> QED
      BY <2>1, <2>4, <2>5, <3>1
  <2>8. \A s \in Side : Asks(new.fds[s], c, active'[c][s],
                            active'[c][Other(s)] /\ buf'[c][Other(s)] # <<>>)
    BY <1>1, <2>6, <2>7
  <2> QED
    BY <1>4, <1>5, <2>2, <2>4, <2>8
<1> QED
  BY <1>8, <1>9

LEMMA TransferStep ==
  ASSUME ProxyInv, StreamInv, NEW d \in Side, Transfer(d)
  PROVE  ProxyInv' /\ StreamInv'
<1> DEFINE c == Current.client
           k == turn.slot
           o == Other(d)
<1>1. /\ phase = "serve" /\ turn.dir = d /\ NextDirection(d)
      /\ active[c][d] /\ turn.dir \in Side \cup {"end"}
      /\ UNCHANGED <<phase, revents, open, accepted>>
  BY DEF Transfer
<1>2. TypeInv /\ TurnInv /\ EmptyInv /\ SlotInv /\ ClosedInv /\ FlagInv /\ ShutInv
  BY DEF ProxyInv
<1>3. /\ k \in 1..Len(slots) /\ DOMAIN slots = 1..Len(slots)
      /\ slots[k] \in Slot /\ Occupied(slots[k]) /\ slots[k].client = c
      /\ c \in open /\ c \in Client /\ \A s \in Side : slots[k].fds[s].of = c
  BY <1>1, <1>2, CurrentSlot DEF Current
<1>4. \A s \in Side : Asks(slots[k].fds[s], c, active[c][s],
                          active[c][Other(s)] /\ buf[c][Other(s)] # <<>>)
  <2>1. ASSUME NEW s \in Side
        PROVE  slots[k].fds[s] \in PollFds /\ slots[k].fds[s].of = c
    BY <1>3 DEF Slot
  <2> QED
    BY <1>2, <1>3, <2>1 DEF FlagInv, Asks
<1>5. PICK r \in Nat, w \in Nat : Moves(d, c, r, w) /\ (Ends(d, c) \/ GoesOn(d, c, r, w))
  BY TransferMoves
<1>6. /\ slots' \in Seq(Slot) /\ Len(slots') = Len(slots)
      /\ \A i \in 1..Len(slots) : i # k => slots'[i] = slots[i]
      /\ slots'[k].client = c
      /\ \A s \in Side : Asks(slots'[k].fds[s], c, active'[c][s],
                              active'[c][Other(s)] /\ buf'[c][Other(s)] # <<>>)
      /\ active' \in [Client -> [Side -> BOOLEAN]]
      /\ \A b \in Client : b # c => active'[b] = active[b]
      /\ \A b \in Client, s \in Side : active'[b][s] => active[b][s]
  BY <1>1, <1>2, <1>3, <1>4, <1>5, TransferSlots
<1>7. /\ buf' \in [Client -> [Side -> Seq(Byte)]]
      /\ sent' \in [Side -> [Client -> Nat]] /\ got' \in [Side -> [Client -> Seq(Byte)]]
      /\ \A b \in Client, s \in Side : b # c \/ s # d => buf'[b][s] = buf[b][s]
  BY <1>2, <1>3, <1>5, MovesKeepTypes
<1>8. StreamInv'
  BY <1>1, <1>2, <1>3, <1>5, MovesKeepStreams
<1>9. shut' = shut \/ ((shut' = shut \cup {<<c, o, "WR">>} \/ shut' = shut \cup {<<c, d, "RD">>})
                      /\ ~active'[c][d])
  <2>1. CASE Ends(d, c)
    <3>1. active' = [active EXCEPT ![c][d] = FALSE]
      BY <2>1 DEF Ends
    <3>2. ~active'[c][d]
      BY <1>2, <1>3, <3>1 DEF TypeInv
    <3> QED
      BY <2>1, <3>2 DEF Ends
  <2>2. CASE GoesOn(d, c, r, w)
    BY <2>2 DEF GoesOn
  <2> QED
    BY <1>5, <2>1, <2>2
<1>10. o \in Side /\ Other(o) = d
  BY Sides
<1> HIDE DEF c, o
<1>11. DOMAIN slots' = 1..Len(slots) /\ \A i \in 1..Len(slots) : slots'[i].client = slots[i].client
  BY <1>3, <1>6
<1>12. TypeInv'
  <2>1. Len(slots') <= MaxClients
    BY <1>2, <1>6 DEF TypeInv
  <2>2. shut' \subseteq Client \X Side \X {"RD", "WR"}
    BY <1>2, <1>3, <1>9, <1>10 DEF TypeInv
  <2>3. /\ phase' \in {"top", "checked", "blocked", "accept", "serve", "terminated"}
        /\ open' \subseteq Client /\ accepted' \in 0..Clients
    BY <1>1, <1>2 DEF TypeInv
  <2> QED
    BY <1>6, <1>7, <2>1, <2>2, <2>3 DEF TypeInv
<1>13. TurnInv' /\ turn'.slot = k /\ turn # NoTurn
  <2>1. turn # NoTurn
    BY <1>1 DEF Side, NoTurn
  <2>2. PICK n \in 0..Len(slots) :
          /\ revents \in [1..n -> [Side -> SUBSET Event]]
          /\ turn \in [slot : 1..n, dir : Side \cup {"end"}]
    BY <1>1, <1>2, <2>1 DEF TurnInv
  <2>3. turn' \in [slot : 1..n, dir : Side \cup {"end"}] /\ turn'.slot = turn.slot
    BY <1>1, <2>2 DEF NextDirection, Side
  <2> QED
    BY <1>1, <1>6, <2>1, <2>2, <2>3 DEF TurnInv
<1>14. EmptyInv'
  BY <1>1, <1>2, <1>3, <1>11, <1>13 DEF EmptyInv, Occupied
<1>15. SlotInv'
  <2>1. ASSUME NEW i \in DOMAIN slots', Occupied(slots'[i])
        PROVE  /\ slots'[i].client \in open
               /\ \A s \in Side : slots'[i].fds[s].of = slots'[i].client
               /\ \A j \in DOMAIN slots' : slots'[j].client = slots'[i].client => i = j
    <3>1. i \in DOMAIN slots /\ Occupied(slots[i]) /\ slots'[i].client = slots[i].client
      BY <1>3, <1>11, <2>1 DEF Occupied
    <3>2. /\ slots'[i].client \in open
          /\ \A j \in DOMAIN slots' : slots'[j].client = slots'[i].client => i = j
      BY <1>2, <1>3, <1>11, <3>1 DEF SlotInv
    <3>3. \A s \in Side : slots'[i].fds[s].of = slots'[i].client
      <4>1. CASE i = k
        BY <1>6, <4>1 DEF Asks
      <4>2. CASE i # k
        BY <1>2, <1>3, <1>6, <3>1, <4>2 DEF SlotInv
      <4> QED
        BY <4>1, <4>2
    <3> QED
      BY <3>2, <3>3
  <2>2. \A b \in open : \E i \in DOMAIN slots' : slots'[i].client = b
    BY <1>2, <1>3, <1>11, ZenonT(30) DEF SlotInv
  <2> QED
    BY <1>1, <1>2, <2>1, <2>2 DEF SlotInv
<1>16. ClosedInv'
  <2>1. ASSUME NEW b \in Client \ open
        PROVE  /\ \A s \in Side : ~active'[b][s] /\ buf'[b][s] = <<>>
               /\ \A x \in shut' : x[1] # b
    <3>1. b # c /\ \A s \in Side : ~active[b][s] /\ buf[b][s] = <<>>
      BY <1>2, <1>3 DEF ClosedInv
    <3>2. \A s \in Side : ~active'[b][s] /\ buf'[b][s] = <<>>
      BY <1>6, <1>7, <3>1
    <3>3. \A x \in shut' : x[1] # b
      BY <1>2, <1>9, <3>1 DEF ClosedInv
    <3> QED
      BY <3>2, <3>3
  <2> QED
    BY <1>1, <2>1 DEF ClosedInv
<1>17. FlagInv'
  <2>1. ASSUME NEW i \in DOMAIN slots', NEW s \in Side, Occupied(slots'[i])
        PROVE  LET fd == slots'[i].fds[s]
                   b  == slots'[i].client
                   x  == Other(s)
               IN  /\ "IN" \in fd.events <=> active'[b][s]
                   /\ "OUT" \in fd.events <=> active'[b][x] /\ buf'[b][x] # <<>>
                   /\ fd.watched <=> fd.events # {}
    <3>1. CASE i = k
      BY <1>6, <3>1 DEF Asks
    <3>2. CASE i # k
      <4>1. /\ i \in DOMAIN slots /\ slots'[i] = slots[i] /\ Occupied(slots[i])
            /\ slots[i].client # c /\ slots[i].client \in Client
        <5>1. i \in DOMAIN slots /\ slots'[i] = slots[i] /\ Occupied(slots[i])
          BY <1>3, <1>6, <1>11, <2>1, <3>2
        <5>2. slots[i].client \in open /\ slots[i].client # slots[k].client
          BY <1>2, <1>3, <3>2, <5>1 DEF SlotInv
        <5> QED
          BY <1>2, <1>3, <5>1, <5>2 DEF TypeInv
      <4>2. /\ active'[slots[i].client] = active[slots[i].client]
            /\ \A x \in Side : buf'[slots[i].client][x] = buf[slots[i].client][x]
        BY <1>6, <1>7, <4>1
      <4> QED
        BY <1>2, <4>1, <4>2, Sides DEF FlagInv
    <3> QED
      BY <3>1, <3>2
  <2> QED
    BY <2>1 DEF FlagInv
<1>18. ShutInv'
  <2>1. ASSUME NEW b \in Client, NEW s \in Side
        PROVE  /\ <<b, s, "RD">> \in shut' => ~active'[b][s]
               /\ <<b, s, "WR">> \in shut' => ~active'[b][Other(s)]
    <3>1. /\ <<b, s, "RD">> \in shut => ~active'[b][s]
          /\ <<b, s, "WR">> \in shut => ~active'[b][Other(s)]
      BY <1>2, <1>6, Sides DEF ShutInv
    <3>2. <<b, s, "RD">> = <<c, d, "RD">> /\ ~active'[c][d] => ~active'[b][s]
      OBVIOUS
    <3>3. <<b, s, "WR">> = <<c, o, "WR">> /\ ~active'[c][d] => ~active'[b][Other(s)]
      BY <1>10
    <3>4. <<b, s, "RD">> # <<c, o, "WR">> /\ <<b, s, "WR">> # <<c, d, "RD">>
      OBVIOUS
    <3> QED
      BY <1>9, <3>1, <3>2, <3>3, <3>4
  <2> QED
    BY <2>1 DEF ShutInv
<1> QED
  BY <1>8, <1>12, <1>13, <1>14, <1>15, <1>16, <1>17, <1>18 DEF ProxyInv
-----------------------------------------------------------------------------
(* The invariant                                                            *)

(* What the other steps leave alone of the streams.                         *)
LEMMA StreamsKept ==
  ASSUME ProxyInv, StreamInv, ProxyInv', UNCHANGED streams, accepted' >= accepted,
         \A b \in Client, s \in Side :
           buf'[b][s] = buf[b][s] \/ (b \notin open' /\ buf'[b][s] = <<>>),
         \A b \in open' : b \in open \/ b > accepted
  PROVE  StreamInv'
<1>1. sent' = sent /\ got' = got
  BY DEF streams
<1>2. /\ accepted \in Nat /\ accepted' \in Nat /\ open \subseteq 1..accepted
      /\ sent \in [Side -> [Client -> Nat]] /\ got \in [Side -> [Client -> Seq(Byte)]]
      /\ Client \subseteq Nat /\ BufferSize \in Nat
  <2>1. accepted \in Nat /\ open \subseteq 1..accepted /\ BufferSize \in Nat
    BY Constants DEF ProxyInv, TypeInv, SlotInv
  <2>2. accepted' \in Nat
    BY DEF ProxyInv, TypeInv
  <2>3. sent \in [Side -> [Client -> Nat]] /\ got \in [Side -> [Client -> Seq(Byte)]]
    BY DEF ProxyInv, TypeInv
  <2> QED
    BY <2>1, <2>2, <2>3 DEF Client
<1>3. ASSUME NEW b \in Client, NEW s \in Side
      PROVE  LET arrived == got[Other(s)][b]
             IN  /\ Len(buf'[b][s]) <= BufferSize
                 /\ Len(arrived) <= sent[s][b]
                 /\ \A i \in 1..Len(arrived) : arrived[i] = DataByte(s, b, i)
                 /\ b > accepted' => sent[s][b] = 0
                 /\ b \in open' =>
                      /\ Len(arrived) + Len(buf'[b][s]) = sent[s][b]
                      /\ \A i \in 1..Len(buf'[b][s]) :
                           buf'[b][s][i] = DataByte(s, b, Len(arrived) + i)
  <2> DEFINE arrived == got[Other(s)][b]
  <2>1. /\ Len(buf[b][s]) <= BufferSize /\ Len(arrived) <= sent[s][b]
        /\ \A i \in 1..Len(arrived) : arrived[i] = DataByte(s, b, i)
        /\ b > accepted => sent[s][b] = 0
        /\ b \in open =>
             /\ Len(arrived) + Len(buf[b][s]) = sent[s][b]
             /\ \A i \in 1..Len(buf[b][s]) :
                  buf[b][s][i] = DataByte(s, b, Len(arrived) + i)
    BY DEF StreamInv
  <2>2. arrived \in Seq(Byte) /\ Len(arrived) \in Nat /\ b \in Nat
    BY <1>2, Sides
  <2> HIDE DEF arrived
  <2>3. Len(buf'[b][s]) <= BufferSize
    <3>1. Len(<<>>) <= BufferSize
      BY <1>2, EmptySeq
    <3> QED
      BY <2>1, <3>1
  <2>4. b > accepted' => sent[s][b] = 0
    BY <1>2, <2>1, <2>2
  <2>5. ASSUME b \in open'
        PROVE  /\ Len(arrived) + Len(buf'[b][s]) = sent[s][b]
               /\ \A i \in 1..Len(buf'[b][s]) :
                    buf'[b][s][i] = DataByte(s, b, Len(arrived) + i)
    <3>1. buf'[b][s] = buf[b][s]
      BY <2>5
    <3>2. CASE b \in open
      BY <2>1, <3>1, <3>2
    <3>3. CASE b > accepted
      <4>1. buf[b][s] = <<>>
        BY <1>2, <2>2, <3>3 DEF ProxyInv, ClosedInv
      <4>2. Len(arrived) = 0 /\ sent[s][b] = 0
        BY <2>1, <2>2, <3>3
      <4>3. Len(buf'[b][s]) = 0
        BY <3>1, <4>1, EmptySeq
      <4> HIDE DEF streams
      <4> QED
        BY <4>2, <4>3
    <3> QED
      BY <2>5, <3>2, <3>3
  <2> QED
    BY <2>1, <2>3, <2>4, <2>5 DEF arrived
<1> QED
  BY <1>1, <1>3 DEF StreamInv

LEMMA InitStreams ==
  ASSUME Init
  PROVE  StreamInv
<1>1. ASSUME NEW b \in Client, NEW s \in Side
      PROVE  /\ buf[b][s] = <<>> /\ sent[s][b] = 0 /\ got[Other(s)][b] = <<>>
             /\ b \notin open
  BY Sides DEF Init
<1>2. Len(<<>>) = 0 /\ BufferSize \in Nat
  BY Constants, EmptySeq
<1>3. ASSUME NEW b \in Client, NEW s \in Side
      PROVE  LET arrived == got[Other(s)][b]
             IN  /\ Len(buf[b][s]) <= BufferSize
                 /\ Len(arrived) <= sent[s][b]
                 /\ \A i \in 1..Len(arrived) : arrived[i] = DataByte(s, b, i)
                 /\ b > accepted => sent[s][b] = 0
                 /\ b \notin open
  <2>1. buf[b][s] = <<>> /\ sent[s][b] = 0 /\ got[Other(s)][b] = <<>> /\ b \notin open
    BY <1>1
  <2>2. 1..0 = {}
    OBVIOUS
  <2> QED
    BY <1>2, <2>1, <2>2
<1> QED
  BY <1>3 DEF StreamInv

LEMMA InvariantStep ==
  ASSUME ProxyInv, StreamInv, [Next]_vars
  PROVE  ProxyInv' /\ StreamInv'
<1>1. CASE UNCHANGED vars
  <2>1. UNCHANGED <<phase, revents, turn, slots, memory, streams, open, accepted>>
    BY <1>1 DEF vars, loop
  <2>2. TypeInv' /\ TurnInv'
    BY <2>1 DEF memory, streams, ProxyInv, TypeInv, TurnInv, CanAddSlot
  <2>3. EmptyInv'
    BY <2>1 DEF ProxyInv, EmptyInv, Occupied
  <2>4. ProxyInv'
    BY <2>1, <2>2, <2>3, SameSlots DEF ProxyInv
  <2>5. StreamInv'
    BY <2>1 DEF StreamInv, streams, memory
  <2> QED
    BY <2>4, <2>5
<1>2. ASSUME NEW d \in Side, Transfer(d)
      PROVE  ProxyInv' /\ StreamInv'
  BY <1>2, TransferStep
<1>3. ASSUME ProxyInv', UNCHANGED <<streams, buf>>, accepted' >= accepted,
             \A b \in open' : b \in open \/ b > accepted
      PROVE  StreamInv'
  <2>1. \A b \in Client, s \in Side :
          buf'[b][s] = buf[b][s] \/ (b \notin open' /\ buf'[b][s] = <<>>)
    BY <1>3
  <2> QED
    BY <1>3, <2>1, StreamsKept
<1>4. accepted \in Nat /\ accepted >= accepted
  BY DEF ProxyInv, TypeInv
<1>5. CASE CheckSignal \/ CallPoll \/ Signal
  <2>1. ProxyInv'
    BY <1>5, QuietStep
  <2>2. UNCHANGED <<streams, buf, open, accepted>>
    BY <1>5 DEF CheckSignal, CallPoll, Signal, memory
  <2> QED
    BY <1>3, <1>4, <2>1, <2>2
<1>6. CASE Terminate
  <2>1. ProxyInv'
    BY <1>6, TerminateStep
  <2>2. /\ UNCHANGED <<streams, accepted>> /\ open' = {}
        /\ \A b \in Client, s \in Side : buf'[b][s] = <<>>
    <3>1. \A b \in open : \E i \in DOMAIN slots : slots[i].client = b
      BY DEF ProxyInv, SlotInv
    <3> QED
      BY <1>6, <3>1 DEF Terminate
  <2> QED
    BY <1>4, <2>1, <2>2, StreamsKept
<1>7. CASE PollReturns
  <2>1. ProxyInv'
    BY <1>7, PollStep
  <2>2. UNCHANGED <<streams, buf, open, accepted>>
    BY <1>7 DEF PollReturns, memory
  <2> QED
    BY <1>3, <1>4, <2>1, <2>2
<1>8. CASE AddClient
  <2>1. ProxyInv'
    BY <1>8, AddStep
  <2>2. UNCHANGED <<streams, buf>> /\ open' = open \cup {accepted + 1} /\ accepted' = accepted + 1
    BY <1>8 DEF AddClient
  <2>3. accepted' >= accepted /\ accepted + 1 > accepted
    BY <1>4, <2>2
  <2> QED
    BY <1>3, <2>1, <2>2, <2>3
<1>9. CASE RefuseClient
  <2>1. ProxyInv'
    BY <1>9, RefuseStep
  <2>2. UNCHANGED <<streams, buf, open>> /\ accepted' \in {accepted, accepted + 1}
    BY <1>9 DEF RefuseClient, memory
  <2>3. accepted' >= accepted
    BY <1>4, <2>2
  <2> QED
    BY <1>3, <2>1, <2>2, <2>3
<1>10. CASE EndTurn
  <2>1. ProxyInv'
    BY <1>10, EndStep
  <2>2. UNCHANGED <<streams, accepted>>
    BY <1>10 DEF EndTurn
  <2>3. CASE ~Finished(Current.client)
    <3>1. UNCHANGED <<buf, open>>
      BY <1>10, <2>3 DEF EndTurn, memory
    <3> QED
      BY <1>3, <1>4, <2>1, <2>2, <3>1
  <2>4. CASE Finished(Current.client)
    <3>1. /\ open' = open \ {Current.client}
          /\ buf' = [buf EXCEPT ![Current.client] = [s \in Side |-> <<>>]]
      BY <1>10, <2>4 DEF EndTurn
    <3>2. \A b \in Client, s \in Side :
            buf'[b][s] = buf[b][s] \/ (b \notin open' /\ buf'[b][s] = <<>>)
      <4>1. ASSUME NEW b \in Client, NEW s \in Side
            PROVE  buf'[b][s] = buf[b][s] \/ (b \notin open' /\ buf'[b][s] = <<>>)
        <5>1. buf \in [Client -> [Side -> Seq(Byte)]]
          BY DEF ProxyInv, TypeInv
        <5>2. CASE b = Current.client
          BY <3>1, <5>1, <5>2
        <5>3. CASE b # Current.client
          BY <3>1, <5>1, <5>3
        <5> QED
          BY <5>2, <5>3
      <4> QED
        BY <4>1
    <3> QED
      BY <1>4, <2>1, <2>2, <3>1, <3>2, StreamsKept
  <2> QED
    BY <2>3, <2>4
<1>11. CASE ShrinkSlots
  <2>1. ProxyInv'
    BY <1>11, ShrinkStep
  <2>2. UNCHANGED <<streams, buf, open, accepted>>
    BY <1>11 DEF ShrinkSlots, memory
  <2> QED
    BY <1>3, <1>4, <2>1, <2>2
<1>12. ASSUME NEW d \in Side, SkipDirection(d)
       PROVE  ProxyInv' /\ StreamInv'
  <2>1. ProxyInv'
    BY <1>12, SkipStep
  <2>2. UNCHANGED <<streams, buf, open, accepted>>
    BY <1>12 DEF SkipDirection, memory
  <2> QED
    BY <1>3, <1>4, <2>1, <2>2
<1> QED
  BY <1>1, <1>2, <1>5, <1>6, <1>7, <1>8, <1>9, <1>10, <1>11, <1>12 DEF Next, Run

(* The invariant holds for any number of clients, of slots and of bytes,    *)
(* and whatever faults there are.                                           *)
THEOREM ProxyInvariant == Spec => [](ProxyInv /\ StreamInv)
<1>1. Init => ProxyInv /\ StreamInv
  BY InitInv, InitStreams
<1>2. ProxyInv /\ StreamInv /\ [Next]_vars => (ProxyInv /\ StreamInv)'
  BY InvariantStep
<1> QED
  BY <1>1, <1>2, PTL DEF Spec
-----------------------------------------------------------------------------
(* What follows from it                                                     *)

LEMMA AgreeHolds ==
  ASSUME ProxyInv
  PROVE  SlotsAgree
<1>1. slots \in Seq(Slot) /\ DOMAIN slots = 1..Len(slots) /\ Len(slots) \in Nat
  BY DEF ProxyInv, TypeInv
<1>2. phase = "accept" => CanAddSlot
  BY DEF ProxyInv, TurnInv
<1>3. ASSUME phase # "serve"
      PROVE  /\ open = {slots[i].client : i \in DOMAIN slots}
             /\ Cardinality(open) = Len(slots)
             /\ \A i \in DOMAIN slots, s \in Side : slots[i].fds[s].of = slots[i].client
  <2>1. \A i \in DOMAIN slots : Occupied(slots[i])
    BY <1>3 DEF ProxyInv, EmptyInv
  <2>2. /\ \A i \in DOMAIN slots : slots[i].client \in open
        /\ \A i, j \in DOMAIN slots : slots[i].client = slots[j].client => i = j
        /\ \A c \in open : \E i \in DOMAIN slots : slots[i].client = c
        /\ \A i \in DOMAIN slots, s \in Side : slots[i].fds[s].of = slots[i].client
    BY <2>1 DEF ProxyInv, SlotInv
  <2> DEFINE f == [i \in 1..Len(slots) |-> slots[i].client]
  <2>3. /\ f \in [1..Len(slots) -> open]
        /\ \A i, j \in 1..Len(slots) : f[i] = f[j] => i = j
        /\ \A c \in open : \E i \in 1..Len(slots) : f[i] = c
    BY <1>1, <2>2
  <2> HIDE DEF f
  <2>4. f \in Bijection(1..Len(slots), open)
    BY <2>3, Fun_IsBij
  <2>5. ExistsBijection(1..Len(slots), open)
    BY <2>4 DEF ExistsBijection
  <2>6. IsFiniteSet(1..Len(slots)) /\ Cardinality(1..Len(slots)) = Len(slots)
    BY <1>1, FS_Interval, SMTT(30)
  <2>7. Cardinality(open) = Len(slots)
    BY <2>5, <2>6, FS_Bijection
  <2> QED
    BY <2>2, <2>7
<1> QED
  BY <1>2, <1>3 DEF SlotsAgree

LEMMA PollHolds ==
  ASSUME ProxyInv
  PROVE  PollAsksForWhatIsNeeded
<1>1. ASSUME phase = "blocked", NEW i \in DOMAIN slots
      PROVE  Occupied(slots[i])
  BY <1>1 DEF ProxyInv, EmptyInv
<1> QED
  BY <1>1 DEF ProxyInv, FlagInv, PollAsksForWhatIsNeeded

LEMMA DescriptorsHold ==
  ASSUME ProxyInv
  PROVE  DescriptorsAreUsable
<1> SUFFICES ASSUME phase = "serve", turn.dir \in Side, active[Current.client][turn.dir]
             PROVE  LET d == turn.dir
                        o == Other(d)
                        c == Current.client
                    IN  /\ Reads(d) => Current.fds[d].watched /\ <<c, d, "RD">> \notin shut
                        /\ Writes(d, buf[c][d]) =>
                             Current.fds[o].watched /\ <<c, o, "WR">> \notin shut
  BY DEF DescriptorsAreUsable
<1> DEFINE d == turn.dir
           o == Other(d)
           c == Current.client
<1>1. TypeInv /\ TurnInv /\ EmptyInv /\ SlotInv /\ FlagInv /\ ShutInv
  BY DEF ProxyInv
<1>2. /\ turn.slot \in DOMAIN slots /\ Current = slots[turn.slot] /\ Occupied(Current)
      /\ c \in Client
  BY <1>1, CurrentSlot DEF Current
<1>3. d \in Side /\ o \in Side /\ Other(o) = d
  BY Sides
<1>4. /\ "IN" \in Current.fds[d].events /\ Current.fds[d].watched
      /\ buf[c][d] # <<>> => Current.fds[o].watched
  BY <1>1, <1>2, <1>3 DEF FlagInv
<1>5. <<c, d, "RD">> \notin shut /\ <<c, o, "WR">> \notin shut
  BY <1>1, <1>2, <1>3 DEF ShutInv
<1> QED
  BY <1>4, <1>5 DEF Writes

(* Whatever connections come, end and fail, the slots, the open sockets and *)
(* the clients agree whenever the array is at rest: copy_slot, shrink_slots *)
(* and disconnect_client neither leak nor mix up anything (main.c:107-160). *)
THEOREM SlotsAlwaysAgree == Spec => []SlotsAgree
<1>1. ProxyInv /\ StreamInv => SlotsAgree
  BY AgreeHolds
<1> QED
  BY <1>1, ProxyInvariant, PTL

(* set_flag and clear_flag of the two directions that share a descriptor    *)
(* never spoil each other's request: what poll is given is what is needed.  *)
THEOREM PollIsAskedRightly == Spec => []PollAsksForWhatIsNeeded
<1>1. ProxyInv /\ StreamInv => PollAsksForWhatIsNeeded
  BY PollHolds
<1> QED
  BY <1>1, ProxyInvariant, PTL

(* No transfer uses a descriptor that was made negative, or whose use was   *)
(* shut down, by the transfer of the other direction before it.             *)
THEOREM DescriptorsStayUsable == Spec => []DescriptorsAreUsable
<1>1. ProxyInv /\ StreamInv => DescriptorsAreUsable
  BY DescriptorsHold
<1> QED
  BY <1>1, ProxyInvariant, PTL
-----------------------------------------------------------------------------
(* The promise of Relay                                                     *)

LEMMA StreamIsArrived ==
  ASSUME NEW c \in Client, NEW s \in Side, NEW bytes \in Seq(Byte),
         \A i \in 1..Len(bytes) : bytes[i] = DataByte(s, c, i)
  PROVE  bytes = Promise!Stream(s, c, Len(bytes))
<1>1. Len(bytes) \in Nat /\ bytes = [i \in 1..Len(bytes) |-> bytes[i]]
  OBVIOUS
<1> QED
  BY <1>1 DEF Promise!Stream

(* A step keeps the bytes that have arrived and counts on.                  *)
LEMMA StreamsGrow ==
  ASSUME ProxyInv, StreamInv, [Next]_vars, NEW c \in Client, NEW s \in Side
  PROVE  /\ sent'[s][c] >= sent[s][c]
         /\ Len(got'[Other(s)][c]) >= Len(got[Other(s)][c])
<1>1. TypeInv /\ sent[s][c] \in Nat /\ got[Other(s)][c] \in Seq(Byte)
  BY Sides DEF ProxyInv, TypeInv
<1>2. CASE UNCHANGED streams
  BY <1>1, <1>2 DEF streams
<1>3. ASSUME NEW d \in Side, Transfer(d)
      PROVE  /\ sent'[s][c] >= sent[s][c]
             /\ Len(got'[Other(s)][c]) >= Len(got[Other(s)][c])
  <2> DEFINE b == Current.client
  <2>1. /\ phase = "serve" /\ turn.dir \in Side \cup {"end"}
        /\ TurnInv /\ EmptyInv /\ SlotInv
    BY <1>3 DEF Transfer, ProxyInv
  <2>2. b \in Client
    BY <1>1, <2>1, CurrentSlot
  <2>3. PICK r \in Nat, w \in Nat : Moves(d, b, r, w)
    BY <1>3, TransferMoves
  <2> HIDE DEF b
  <2>4. c # b \/ s # d => sent'[s][c] = sent[s][c] /\ got'[Other(s)][c] = got[Other(s)][c]
    BY <1>1, <2>2, <2>3, MovesKeepTypes, SMTT(30)
  <2>5. /\ sent'[d][b] = sent[d][b] + r /\ Filled(d, r) \in Seq(Byte)
        /\ got'[Other(d)][b] = got[Other(d)][b] \o Written(d, r, w)
    <3>1. sent'[d][b] = sent[d][b] + r
      BY <1>1, <2>2, <2>3, MovesKeepTypes
    <3>2. Filled(d, r) \in Seq(Byte)
      BY <1>1, <2>2, <2>3, MovesKeepTypes
    <3>3. got'[Other(d)][b] = got[Other(d)][b] \o Written(d, r, w)
      <4>1. got \in [Side -> [Client -> Seq(Byte)]] /\ Other(d) \in Side
        BY <1>1, Sides DEF TypeInv
      <4>2. got' = [got EXCEPT ![Other(d)][b] = @ \o Written(d, r, w)]
        BY <2>3 DEF Moves
      <4> QED
        BY <2>2, <4>1, <4>2
    <3> QED
      BY <3>1, <3>2, <3>3
  <2>6. CASE c # b \/ s # d
    BY <1>1, <2>4, <2>6
  <2>7. CASE c = b /\ s = d
    <3>1. w \in 0..Len(Filled(d, r))
      BY <2>3 DEF Moves
    <3>2. Written(d, r, w) \in Seq(Byte)
      BY <2>5, <3>1, SeqFirst DEF Written
    <3>3. Len(got'[Other(s)][c]) = Len(got[Other(s)][c]) + Len(Written(d, r, w))
      <4>1. got'[Other(s)][c] = got[Other(s)][c] \o Written(d, r, w)
        BY <2>5, <2>7
      <4> QED
        BY <1>1, <3>2, <4>1, ConcatProperties
    <3>4. Len(Written(d, r, w)) \in Nat
      BY <3>2
    <3> QED
      BY <1>1, <2>5, <2>7, <3>3, <3>4
  <2> QED
    BY <2>6, <2>7
<1>4. CASE UNCHANGED vars \/ CheckSignal \/ CallPoll \/ Signal \/ PollReturns
  BY <1>2, <1>4 DEF vars, CheckSignal, CallPoll, Signal, PollReturns
<1>5. CASE Terminate \/ AddClient \/ RefuseClient
  BY <1>2, <1>5 DEF Terminate, AddClient, RefuseClient
<1>6. CASE EndTurn \/ ShrinkSlots \/ \E d \in Side : SkipDirection(d)
  BY <1>2, <1>6 DEF EndTurn, ShrinkSlots, SkipDirection
<1> QED
  BY <1>3, <1>4, <1>5, <1>6 DEF Next, Run

LEMMA PromiseInit ==
  ASSUME Init
  PROVE  Promise!Init
BY DEF Init, Promise!Init

LEMMA PromiseStep ==
  ASSUME ProxyInv, StreamInv, [Next]_vars
  PROVE  Promise!Next
<1>1. ProxyInv' /\ StreamInv'
  BY InvariantStep
<1>2. ASSUME NEW n \in Side, NEW c \in Client
      PROVE  /\ sent'[n][c] >= sent[n][c]
             /\ Len(got'[n][c]) \in Len(got[n][c])..sent'[Other(n)][c]
             /\ got'[n][c] = Promise!Stream(Other(n), c, Len(got'[n][c]))
  <2> DEFINE s == Other(n)
  <2>1. s \in Side /\ Other(s) = n
    BY Sides
  <2>2. sent'[n][c] >= sent[n][c]
    BY StreamsGrow
  <2>3. Len(got'[n][c]) >= Len(got[n][c])
    BY <2>1, StreamsGrow
  <2>4. /\ got'[n][c] \in Seq(Byte) /\ got[n][c] \in Seq(Byte)
        /\ sent'[s][c] \in Nat
    <3>1. TypeInv /\ TypeInv'
      BY <1>1 DEF ProxyInv
    <3>2. got \in [Side -> [Client -> Seq(Byte)]]
      BY <3>1 DEF TypeInv
    <3>3. sent' \in [Side -> [Client -> Nat]] /\ got' \in [Side -> [Client -> Seq(Byte)]]
      BY <3>1 DEF TypeInv
    <3> QED
      BY <2>1, <3>2, <3>3
  <2>5. /\ Len(got'[n][c]) <= sent'[s][c]
        /\ \A i \in 1..Len(got'[n][c]) : got'[n][c][i] = DataByte(s, c, i)
    <3>1. LET arrived == got'[Other(s)][c]
          IN  /\ Len(arrived) <= sent'[s][c]
              /\ \A i \in 1..Len(arrived) : arrived[i] = DataByte(s, c, i)
      BY <1>1, <2>1 DEF StreamInv
    <3> QED
      BY <2>1, <3>1
  <2> HIDE DEF s
  <2>6. Len(got'[n][c]) \in Len(got[n][c])..sent'[s][c]
    BY <2>3, <2>4, <2>5
  <2>7. got'[n][c] = Promise!Stream(s, c, Len(got'[n][c]))
    BY <2>1, <2>4, <2>5, StreamIsArrived
  <2> QED
    BY <2>2, <2>6, <2>7 DEF s
<1> QED
  BY <1>2 DEF Promise!Next

(* The proxy keeps the promise that Relay states: each application receives *)
(* the bytes of its peer, in order and none of another client's, whatever   *)
(* the two transfers of a client, full buffers, partial writes, ends of     *)
(* stream, errors and moved slots do in between.                            *)
THEOREM ProxyRelays == Spec => Relayed
<1>1. Init => Promise!Init
  BY PromiseInit
<1>2. ProxyInv /\ StreamInv /\ [Next]_vars => [Promise!Next]_<<sent, got>>
  BY PromiseStep
<1> QED
  BY <1>1, <1>2, ProxyInvariant, PTL DEF Spec, Relayed, Promise!Spec
=============================================================================
