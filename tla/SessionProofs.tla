--------------------------- MODULE SessionProofs ---------------------------
(***************************************************************************)
(* Proofs about what the two nodes of the port forwarder know about a      *)
(* session: what the commands on their way say about it, who may use its   *)
(* identifier, and which connection a command acts on.                     *)
(***************************************************************************)
EXTENDS ForwarderProofs

-----------------------------------------------------------------------------
(* The commands on their way                                                *)

Says(c, s) == <<"cmd", c, s>>

OnWay(m) == TunnelIn(Other(m)) \o wire[m] \o tun[m].outBuf

Waiting(q) == [k \in 1..Len(q) |-> Says(q[k].cmd, q[k].session)]

(* All that m has reported and answered and the other has not obeyed yet.   *)
Line(m) == OnWay(m) \o Waiting(queue[m])

Has(m, c, s) == Carries(Line(m), Says(c, s))

Ahead(m, c, s, d, t) == Before(Line(m), Says(c, s), Says(d, t))

(* The identifier that a command on its way goes with.                      *)
Meant(m, c, s, i) ==
  \/ Tells(OnWay(m), Says(c, s), i)
  \/ \E k \in 1..Len(queue[m]) : queue[m][k] = [cmd |-> c, id |-> i, session |-> s]

(* Commands about one session are sent in this order.                       *)
Order(c) == CASE c = "NEW" -> 0
              [] c = "ACK" -> 1
              [] c = "CLOSE_SRC_TO_DST" -> 2
              [] c = "CLOSE" -> 3
-----------------------------------------------------------------------------
(* What commands are about: the state of a session at one node              *)

Open(n, s) == s \in Live(n) /\ "DELETE" \notin conns[n][s].state

Fresh(n, s) == s \in Live(n) /\ "NEW" \in conns[n][s].state

(* It has told the other that it reads no more from its application, or it  *)
(* was told so by the other.                                                *)
SaidEnd(n, s) == s \in Live(n) /\ "DELETE" \in conns[n][s].in

ToldEnd(n, s) == s \in Live(n) /\ "DELETE" \in conns[n][s].out

(* Nobody but the client has heard of the session.                          *)
Early(s) == s > accepted \/ Fresh("client", s)

Namings == [Session -> Id \cup {NoId}]
-----------------------------------------------------------------------------
(* Whatever happened: at any moment a session has one identifier, at both   *)
(* nodes and in the commands about it.                                      *)

LiveNames(name) == \A n \in Node, s \in Session : s \in Live(n) => conns[n][s].id = name[s]

MeantNames(name) ==
  \A m \in Node, c \in Cmd, s \in Session, i \in Id : Meant(m, c, s, i) => i = name[s]

LateNames(name) == \A s \in Session : s > accepted => name[s] = NoId

ClientLate == \A s \in Session : s \in Live("client") => s <= accepted

EarlyUnknown ==
  \A s \in Session : Early(s) =>
    /\ \A m \in Node, c \in Cmd : ~Has(m, c, s)
    /\ s \notin Live("server") /\ closedBy[s] = {}

NewFromClient == \A s \in Session : ~Has("server", "NEW", s) /\ ~Fresh("server", s)

EndedEmpty == \A n \in Node : ~IsRunning(n) => Live(n) = {}

ClosersAre == closedBy \in [Session -> SUBSET Node]

Tidy(name) ==
  /\ LiveNames(name) /\ MeantNames(name) /\ LateNames(name)
  /\ ClientLate /\ EarlyUnknown /\ NewFromClient /\ EndedEmpty /\ ClosersAre
-----------------------------------------------------------------------------
(* Until a command gets lost or a session is closed from both ends          *)

InOrder ==
  \A n \in Node, c, d \in Cmd, s \in Session : Ahead(n, c, s, d, s) => Order(c) < Order(d)

ClosesAreKnown == \A n \in Node, s \in Session : Has(n, "CLOSE", s) => n \in closedBy[s]

ClosedAreNotOpen == \A n \in Node, s \in Session : n \in closedBy[s] => ~Open(n, s)

EndsAreSaid ==
  \A n \in Node, s \in Session :
    Open(n, s) /\ ~SaidEnd(n, s) => ~Has(n, "CLOSE_SRC_TO_DST", s)

NewIsFirst ==
  \A s \in Session : Has("client", "NEW", s) =>
    /\ s \notin Live("server") /\ "server" \notin closedBy[s]
    /\ \A c \in Cmd : ~Has("server", c, s)
    /\ IsRunning("client") => Open("client", s) /\ ~ToldEnd("client", s)

FreshNotTold == \A s \in Session : Fresh("client", s) => ~ToldEnd("client", s)

(* The client does not close a session the server still has to say          *)
(* something about.                                                         *)
CommandsFindOpen ==
  \A s \in Session, c \in Cmd : IsRunning("client") /\ Has("server", c, s) => Open("client", s)

ToldIsLast ==
  \A s \in Session : ToldEnd("client", s) =>
    ~Has("server", "ACK", s) /\ ~Has("server", "CLOSE_SRC_TO_DST", s)

OpenAtBoth ==
  \A s \in Session :
    IsRunning("client") /\ Open("server", s) /\ "client" \notin closedBy[s] => Open("client", s)

UnsaidOpenAtBoth ==
  \A s \in Session :
    IsRunning("client") /\ Open("server", s) /\ ~SaidEnd("server", s) =>
      Open("client", s) /\ ~ToldEnd("client", s)

ClientIdsUnique ==
  \A s, t \in Session :
    s \in Live("client") /\ t \in Live("client") /\ conns["client"][s].id # NoId
      /\ conns["client"][s].id = conns["client"][t].id => s = t

Agreed ==
  /\ InOrder /\ ClosesAreKnown /\ ClosedAreNotOpen /\ EndsAreSaid /\ NewIsFirst
  /\ FreshNotTold /\ CommandsFindOpen /\ ToldIsLast /\ OpenAtBoth /\ UnsaidOpenAtBoth
  /\ ClientIdsUnique /\ FreeIdsAreFree

SessionInv == \E name \in Namings : Tidy(name) /\ (Undisturbed => Agreed)
-----------------------------------------------------------------------------
(* What steps do to the commands on their way and to the sessions           *)

Fades ==
  /\ \A m \in Node, c \in Cmd, s \in Session : Has(m, c, s)' => Has(m, c, s)
  /\ \A m \in Node, c, d \in Cmd, s, t \in Session : Ahead(m, c, s, d, t)' => Ahead(m, c, s, d, t)
  /\ \A m \in Node, c \in Cmd, s \in Session, i \in Id : Meant(m, c, s, i)' => Meant(m, c, s, i)

Arrives(s) ==
  /\ s > accepted /\ s <= accepted' /\ conns'["client"][s].id = NoId
  /\ Fresh("client", s)' /\ Open("client", s)'
  /\ ~ToldEnd("client", s)' /\ ~SaidEnd("client", s)'

Lasts(n, s) ==
  /\ s \in Live(n)' => /\ s \in Live(n) /\ conns'[n][s].id = conns[n][s].id
                       /\ SaidEnd(n, s) => SaidEnd(n, s)'
  /\ Open(n, s)' => Open(n, s)
  /\ Fresh(n, s)' => Fresh(n, s)

ClientLasts(s) ==
  /\ ToldEnd("client", s)' => ToldEnd("client", s)
  /\ Open("client", s) /\ IsRunning("client")' => Open("client", s)'

Later == accepted \in Nat /\ accepted' \in Nat /\ accepted <= accepted'

LEMMA EarlyBefore ==
  ASSUME Later, \A s \in Session : Lasts("client", s) \/ Arrives(s)
  PROVE  \A s \in Session : Early(s)' => Early(s)
<1> SUFFICES ASSUME NEW s \in Session, Early(s)'
             PROVE  Early(s)
  OBVIOUS
<1>1. s \in Nat
  BY Constants DEF Session
<1>2. CASE s > accepted'
  BY <1>1, <1>2 DEF Early, Later
<1>3. CASE Fresh("client", s)'
  BY <1>3 DEF Early, Lasts, Arrives
<1> QED
  BY <1>2, <1>3 DEF Early

LEMMA TidyKept ==
  ASSUME NEW name \in Namings, Tidy(name), Later, EndedEmpty', ClosersAre',
         \A s \in Session : Lasts("client", s) \/ Arrives(s),
         \A s \in Session : \/ Lasts("server", s)
                            \/ /\ s \in Live("server")' => conns'["server"][s].id = name[s]
                               /\ ~Early(s)' /\ ~Fresh("server", s)',
         \A m \in Node, c \in Cmd, s \in Session :
           Has(m, c, s)' => Has(m, c, s) \/ (~Early(s)' /\ ~(m = "server" /\ c = "NEW")),
         \A m \in Node, c \in Cmd, s \in Session, i \in Id :
           Meant(m, c, s, i)' => Meant(m, c, s, i) \/ i = name[s],
         \A s \in Session : closedBy'[s] = closedBy[s] \/ ~Early(s)'
  PROVE  Tidy(name)'
<1>1. \A s \in Session : Early(s)' => Early(s)
  BY EarlyBefore
<1>2. \A s \in Session : s \in Nat
  BY Constants DEF Session
<1>3. "client" \in Node /\ "server" \in Node /\ \A n \in Node : n = "client" \/ n = "server"
  BY DEF Node
<1>4. LiveNames(name)'
  <2> SUFFICES ASSUME NEW n \in Node, NEW s \in Session, s \in Live(n)'
               PROVE  conns'[n][s].id = name[s]
    BY DEF LiveNames
  <2>1. CASE Lasts(n, s)
    BY <2>1 DEF Lasts, Tidy, LiveNames
  <2>2. CASE n = "client" /\ Arrives(s)
    BY <2>2, <1>2 DEF Arrives, Tidy, LateNames
  <2>3. CASE n = "server" /\ ~Lasts("server", s)
    BY <2>3
  <2> QED
    BY <1>3, <2>1, <2>2, <2>3
<1>5. MeantNames(name)'
  BY DEF MeantNames, Tidy
<1>6. LateNames(name)'
  BY <1>2 DEF LateNames, Tidy, Later
<1>7. ClientLate'
  <2> SUFFICES ASSUME NEW s \in Session, s \in Live("client")'
               PROVE  s <= accepted'
    BY DEF ClientLate
  <2>1. CASE Lasts("client", s)
    BY <2>1, <1>2 DEF Lasts, Tidy, ClientLate, Later
  <2>2. CASE Arrives(s)
    BY <2>2 DEF Arrives
  <2> QED
    BY <2>1, <2>2
<1>8. EarlyUnknown'
  <2> SUFFICES ASSUME NEW s \in Session, Early(s)'
               PROVE  /\ \A m \in Node, c \in Cmd : ~Has(m, c, s)'
                      /\ s \notin Live("server")' /\ closedBy'[s] = {}
    BY DEF EarlyUnknown
  <2>1. /\ \A m \in Node, c \in Cmd : ~Has(m, c, s)
        /\ s \notin Live("server") /\ closedBy[s] = {}
    BY <1>1 DEF Tidy, EarlyUnknown
  <2>2. \A m \in Node, c \in Cmd : ~Has(m, c, s)'
    BY <2>1
  <2>3. s \notin Live("server")'
    BY <2>1 DEF Lasts
  <2> QED
    BY <2>1, <2>2, <2>3
<1>9. NewFromClient'
  <2> SUFFICES ASSUME NEW s \in Session
               PROVE  ~Has("server", "NEW", s)' /\ ~Fresh("server", s)'
    BY DEF NewFromClient
  <2>1. ~Has("server", "NEW", s) /\ ~Fresh("server", s)
    BY DEF Tidy, NewFromClient
  <2>2. "NEW" \in Cmd
    BY DEF Cmd
  <2> QED
    BY <1>3, <2>1, <2>2 DEF Lasts
<1> QED
  BY <1>4, <1>5, <1>6, <1>7, <1>8, <1>9 DEF Tidy

LEMMA AgreedQuiet ==
  ASSUME NEW name \in Namings, Tidy(name), Agreed, Later, Fades,
         \A s \in Session : (Lasts("client", s) /\ ClientLasts(s)) \/ Arrives(s),
         \A s \in Session : Lasts("server", s),
         \A n \in Node : IsRunning(n)' => IsRunning(n),
         closedBy' = closedBy, freeIds' = freeIds, freeIds \in Seq(Id)
  PROVE  Agreed'
<1>1. "client" \in Node /\ "server" \in Node /\ \A n \in Node : n = "client" \/ n = "server"
  BY DEF Node
<1>2. {"NEW", "ACK", "CLOSE_SRC_TO_DST", "CLOSE"} \subseteq Cmd
  BY DEF Cmd
(* A session that arrives is known to nobody else.                          *)
<1>3. ASSUME NEW s \in Session, Arrives(s)
      PROVE  /\ \A m \in Node, c \in Cmd : ~Has(m, c, s) /\ ~Has(m, c, s)'
             /\ s \notin Live("server") /\ closedBy[s] = {} /\ ~Open("server", s)
  <2>1. Early(s)
    BY <1>3 DEF Early, Arrives
  <2> QED
    BY <2>1 DEF Tidy, EarlyUnknown, Fades, Open
<1>4. InOrder'
  BY DEF InOrder, Agreed, Fades
<1>5. ClosesAreKnown'
  BY <1>2 DEF ClosesAreKnown, Agreed, Fades
<1>6. ClosedAreNotOpen'
  <2> SUFFICES ASSUME NEW n \in Node, NEW s \in Session, n \in closedBy'[s]
               PROVE  ~Open(n, s)'
    BY DEF ClosedAreNotOpen
  <2>1. ~Open(n, s) /\ ~Arrives(s)
    BY <1>3 DEF Agreed, ClosedAreNotOpen
  <2> QED
    BY <1>1, <2>1 DEF Lasts
<1>7. EndsAreSaid'
  <2> SUFFICES ASSUME NEW n \in Node, NEW s \in Session, Open(n, s)', ~SaidEnd(n, s)'
               PROVE  ~Has(n, "CLOSE_SRC_TO_DST", s)'
    BY DEF EndsAreSaid
  <2>1. CASE Lasts(n, s)
    <3>1. Open(n, s) /\ ~SaidEnd(n, s)
      BY <2>1 DEF Lasts, Open
    <3> QED
      BY <1>2, <3>1 DEF Agreed, EndsAreSaid, Fades
  <2>2. CASE ~Lasts(n, s)
    <3>1. Arrives(s)
      BY <1>1, <2>2
    <3> QED
      BY <1>2, <1>3, <3>1
  <2> QED
    BY <2>1, <2>2
<1>8. NewIsFirst'
  <2> SUFFICES ASSUME NEW s \in Session, Has("client", "NEW", s)'
               PROVE  /\ s \notin Live("server")' /\ "server" \notin closedBy'[s]
                      /\ \A c \in Cmd : ~Has("server", c, s)'
                      /\ IsRunning("client")' => Open("client", s)' /\ ~ToldEnd("client", s)'
    BY DEF NewIsFirst
  <2>1. Has("client", "NEW", s)
    BY <1>1, <1>2 DEF Fades
  <2>2. /\ s \notin Live("server") /\ "server" \notin closedBy[s]
        /\ \A c \in Cmd : ~Has("server", c, s)
        /\ IsRunning("client") => Open("client", s) /\ ~ToldEnd("client", s)
    BY <2>1 DEF Agreed, NewIsFirst
  <2>3. ~Arrives(s)
    BY <1>1, <1>2, <1>3, <2>1
  <2>4. s \notin Live("server")' /\ \A c \in Cmd : ~Has("server", c, s)'
    BY <1>1, <2>2 DEF Lasts, Fades
  <2>5. IsRunning("client")' => Open("client", s)' /\ ~ToldEnd("client", s)'
    BY <1>1, <2>2, <2>3 DEF ClientLasts
  <2> QED
    BY <2>2, <2>4, <2>5
<1>9. FreshNotTold'
  BY DEF Agreed, FreshNotTold, Lasts, ClientLasts, Arrives
<1>10. CommandsFindOpen'
  <2> SUFFICES ASSUME NEW s \in Session, NEW c \in Cmd, IsRunning("client")', Has("server", c, s)'
               PROVE  Open("client", s)'
    BY DEF CommandsFindOpen
  <2>1. Open("client", s) /\ ~Arrives(s)
    BY <1>1, <1>3 DEF Agreed, CommandsFindOpen, Fades
  <2> QED
    BY <2>1 DEF ClientLasts
<1>11. ToldIsLast'
  <2> SUFFICES ASSUME NEW s \in Session, ToldEnd("client", s)'
               PROVE  ~Has("server", "ACK", s)' /\ ~Has("server", "CLOSE_SRC_TO_DST", s)'
    BY DEF ToldIsLast
  <2>1. ToldEnd("client", s)
    BY DEF ClientLasts, Arrives
  <2> QED
    BY <1>1, <1>2, <2>1 DEF Agreed, ToldIsLast, Fades
<1>12. OpenAtBoth'
  <2> SUFFICES ASSUME NEW s \in Session, IsRunning("client")', Open("server", s)',
                      "client" \notin closedBy'[s]
               PROVE  Open("client", s)'
    BY DEF OpenAtBoth
  <2>1. Open("server", s) /\ ~Arrives(s)
    BY <1>3 DEF Lasts
  <2>2. Open("client", s)
    BY <1>1, <2>1 DEF Agreed, OpenAtBoth
  <2> QED
    BY <2>1, <2>2 DEF ClientLasts
<1>13. UnsaidOpenAtBoth'
  <2> SUFFICES ASSUME NEW s \in Session, IsRunning("client")', Open("server", s)',
                      ~SaidEnd("server", s)'
               PROVE  Open("client", s)' /\ ~ToldEnd("client", s)'
    BY DEF UnsaidOpenAtBoth
  <2>1. Open("server", s) /\ ~SaidEnd("server", s) /\ ~Arrives(s)
    BY <1>3 DEF Lasts, Open
  <2>2. Open("client", s) /\ ~ToldEnd("client", s)
    BY <1>1, <2>1 DEF Agreed, UnsaidOpenAtBoth
  <2> QED
    BY <2>1, <2>2 DEF ClientLasts
<1>14. ClientIdsUnique'
  <2> SUFFICES ASSUME NEW s \in Session, NEW t \in Session, s \in Live("client")',
                      t \in Live("client")', conns'["client"][s].id # NoId,
                      conns'["client"][s].id = conns'["client"][t].id
               PROVE  s = t
    BY DEF ClientIdsUnique
  <2>1. ~Arrives(s) /\ ~Arrives(t)
    BY DEF Arrives
  <2>2. /\ s \in Live("client") /\ t \in Live("client")
        /\ conns'["client"][s].id = conns["client"][s].id
        /\ conns'["client"][t].id = conns["client"][t].id
    BY <2>1 DEF Lasts
  <2> QED
    BY <2>2 DEF Agreed, ClientIdsUnique
<1>15. FreeIdsAreFree'
  <2>1. ASSUME NEW i \in DOMAIN freeIds, NEW s \in InUse'
        PROVE  conns'["client"][s].id # freeIds[i]
    <3>1. s \in Session /\ s \in Live("client")' /\ Open("client", s)' /\ ~Arrives(s)
      BY DEF InUse, Live, Open, Arrives
    <3>2. s \in InUse /\ conns'["client"][s].id = conns["client"][s].id
      BY <3>1 DEF Lasts, InUse, Open
    <3> QED
      BY <3>2 DEF Agreed, FreeIdsAreFree
  <2>2. \A i, j \in DOMAIN freeIds : freeIds[i] = freeIds[j] => i = j
    BY DEF Agreed, FreeIdsAreFree
  <2> QED
    BY <2>1, <2>2 DEF FreeIdsAreFree
<1> QED
  BY <1>4, <1>5, <1>6, <1>7, <1>8, <1>9, <1>10, <1>11, <1>12, <1>13, <1>14, <1>15 DEF Agreed

(* One more command about s has been put behind those of n.                 *)
Reported(n, cmd, s) ==
  /\ cmd \in {"NEW", "CLOSE", "CLOSE_SRC_TO_DST"} /\ Open(n, s) /\ IsRunning(n)
  /\ \A m \in Node, c \in Cmd, t \in Session :
       Has(m, c, t)' => Has(m, c, t) \/ (m = n /\ c = cmd /\ t = s)
  /\ \A m \in Node, c, d \in Cmd, t, u \in Session :
       Ahead(m, c, t, d, u)' =>
         Ahead(m, c, t, d, u) \/ (m = n /\ d = cmd /\ u = s /\ Has(n, c, t))
  /\ \A m \in Node, t \in Session : Lasts(m, t)
  /\ \A t \in Session : /\ ToldEnd("client", t)' => ToldEnd("client", t)
                        /\ Open("client", t) => Open("client", t)' \/ (n = "client" /\ t = s /\ cmd = "CLOSE")
  /\ \A m \in Node : IsRunning(m)' <=> IsRunning(m)
  /\ cmd = "NEW" <=> Fresh(n, s)
  /\ cmd = "CLOSE_SRC_TO_DST" => ~SaidEnd(n, s) /\ SaidEnd(n, s)'
  /\ cmd = "CLOSE" => ~Open(n, s)' /\ ToldEnd(n, s)
  /\ closedBy' = IF cmd = "CLOSE" THEN [closedBy EXCEPT ![s] = @ \cup {n}] ELSE closedBy

LEMMA Orders ==
  /\ Order("NEW") = 0 /\ Order("ACK") = 1 /\ Order("CLOSE_SRC_TO_DST") = 2 /\ Order("CLOSE") = 3
BY DEF Order

LEMMA ReportedOrder ==
  ASSUME NEW name \in Namings, Tidy(name), Agreed, NEW n \in Node, NEW s \in Session, NEW cmd,
         Reported(n, cmd, s)
  PROVE  InOrder' /\ ClosesAreKnown' /\ ClosedAreNotOpen' /\ EndsAreSaid'
<1>1. n = "client" \/ n = "server"
  BY DEF Node
<1>2. {"NEW", "ACK", "CLOSE_SRC_TO_DST", "CLOSE"} \subseteq Cmd
      /\ Cmd = {"NEW", "ACK", "CLOSE_SRC_TO_DST", "CLOSE"}
  BY DEF Cmd
<1>3. closedBy \in [Session -> SUBSET Node]
  BY DEF Tidy, ClosersAre
<1>4. n \notin closedBy[s] /\ ~Has(n, "CLOSE", s) /\ Open(n, s)
  BY DEF Reported, Agreed, ClosedAreNotOpen, ClosesAreKnown
<1>5. \A t \in Session : closedBy[t] \subseteq closedBy'[t]
                         /\ (t # s \/ cmd # "CLOSE" => closedBy'[t] = closedBy[t])
                         /\ (cmd = "CLOSE" => closedBy'[s] = closedBy[s] \cup {n})
  BY <1>3 DEF Reported
<1>6. InOrder'
  <2> SUFFICES ASSUME NEW m \in Node, NEW c \in Cmd, NEW d \in Cmd, NEW t \in Session,
                      Ahead(m, c, t, d, t)'
               PROVE  Order(c) < Order(d)
    BY DEF InOrder
  <2>1. CASE Ahead(m, c, t, d, t)
    BY <2>1 DEF Agreed, InOrder
  <2>2. CASE m = n /\ d = cmd /\ t = s /\ Has(n, c, t)
    <3>1. CASE cmd = "NEW"
      <4>1. Fresh(n, s)
        BY <3>1 DEF Reported
      <4>2. n = "client"
        BY <1>1, <4>1 DEF Tidy, NewFromClient
      <4>3. Early(s)
        BY <4>1, <4>2 DEF Early
      <4> QED
        BY <2>2, <4>3 DEF Tidy, EarlyUnknown
    <3>2. CASE cmd = "CLOSE_SRC_TO_DST"
      <4>1. ~Has(n, "CLOSE_SRC_TO_DST", s)
        BY <3>2, <1>4 DEF Reported, Agreed, EndsAreSaid
      <4>2. c \in {"NEW", "ACK"}
        BY <1>2, <1>4, <2>2, <4>1
      <4> QED
        BY <2>2, <3>2, <4>2, Orders
    <3>3. CASE cmd = "CLOSE"
      <4>1. c \in {"NEW", "ACK", "CLOSE_SRC_TO_DST"}
        BY <1>2, <1>4, <2>2
      <4> QED
        BY <2>2, <3>3, <4>1, Orders
    <3> QED
      BY <3>1, <3>2, <3>3 DEF Reported
  <2> QED
    BY <2>1, <2>2 DEF Reported
<1>7. ClosesAreKnown'
  <2> SUFFICES ASSUME NEW m \in Node, NEW t \in Session, Has(m, "CLOSE", t)'
               PROVE  m \in closedBy'[t]
    BY DEF ClosesAreKnown
  <2>1. CASE Has(m, "CLOSE", t)
    BY <1>5, <2>1 DEF Agreed, ClosesAreKnown
  <2>2. CASE m = n /\ cmd = "CLOSE" /\ t = s
    BY <1>5, <2>2
  <2> QED
    BY <1>2, <2>1, <2>2 DEF Reported
<1>8. ClosedAreNotOpen'
  <2> SUFFICES ASSUME NEW m \in Node, NEW t \in Session, m \in closedBy'[t]
               PROVE  ~Open(m, t)'
    BY DEF ClosedAreNotOpen
  <2>1. CASE m \in closedBy[t]
    BY <2>1 DEF Agreed, ClosedAreNotOpen, Reported, Lasts
  <2>2. CASE m \notin closedBy[t]
    <3>1. m = n /\ t = s /\ cmd = "CLOSE"
      BY <1>5, <2>2
    <3> QED
      BY <3>1 DEF Reported
  <2> QED
    BY <2>1, <2>2
<1>9. EndsAreSaid'
  <2> SUFFICES ASSUME NEW m \in Node, NEW t \in Session, Open(m, t)', ~SaidEnd(m, t)',
                      Has(m, "CLOSE_SRC_TO_DST", t)'
               PROVE  FALSE
    BY DEF EndsAreSaid
  <2>1. Open(m, t) /\ ~SaidEnd(m, t)
    BY DEF Reported, Lasts, Open
  <2>2. ~Has(m, "CLOSE_SRC_TO_DST", t)
    BY <2>1 DEF Agreed, EndsAreSaid
  <2>3. m = n /\ t = s /\ cmd = "CLOSE_SRC_TO_DST"
    BY <1>2, <2>2 DEF Reported
  <2> QED
    BY <2>3 DEF Reported
<1> QED
  BY <1>6, <1>7, <1>8, <1>9

LEMMA PushedIs ==
  ASSUME NEW f \in Seq(Id), NEW i \in Id
  PROVE  /\ Pushed(f, i) \in Seq(Id)
         /\ \A x \in DOMAIN Pushed(f, i) : \/ x \in DOMAIN f /\ Pushed(f, i)[x] = f[x]
                                           \/ x = Len(f) + 1 /\ Pushed(f, i)[x] = i
<1>1. Len(f) \in Nat /\ DOMAIN f = 1..Len(f)
  OBVIOUS
<1>2. CASE Len(f) = MaxId
  BY <1>2 DEF Pushed
<1>3. CASE Len(f) # MaxId
  <2>1. Pushed(f, i) = Append(f, i)
    BY <1>3 DEF Pushed
  <2>2. Append(f, i) \in Seq(Id) /\ DOMAIN Append(f, i) = 1..(Len(f) + 1)
        /\ \A x \in 1..Len(f) : Append(f, i)[x] = f[x]
        /\ Append(f, i)[Len(f) + 1] = i
    OBVIOUS
  <2> QED
    BY <1>1, <2>1, <2>2
<1> QED
  BY <1>2, <1>3

(* A connection goes, and its identifier is free again.                     *)
LEMMA IdFreed ==
  ASSUME ClientIdsUnique, FreeIdsAreFree, freeIds \in Seq(Id), NEW s \in Session,
         Open("client", s), ~Open("client", s)', conns["client"][s].id \in Id,
         freeIds' = Pushed(freeIds, conns["client"][s].id),
         \A t \in Session : Lasts("client", t)
  PROVE  ClientIdsUnique' /\ FreeIdsAreFree'
<1> DEFINE i == conns["client"][s].id
<1>1. /\ Pushed(freeIds, i) \in Seq(Id)
      /\ \A x \in DOMAIN Pushed(freeIds, i) :
            \/ x \in DOMAIN freeIds /\ Pushed(freeIds, i)[x] = freeIds[x]
            \/ x = Len(freeIds) + 1 /\ Pushed(freeIds, i)[x] = i
  BY PushedIs
<1>2. s \in InUse /\ i # NoId
  BY Constants DEF InUse, Open, Id, NoId
<1>3. \A x \in DOMAIN freeIds : freeIds[x] # i
  BY <1>2 DEF FreeIdsAreFree
<1>4. \A x, y \in DOMAIN freeIds : freeIds[x] = freeIds[y] => x = y
  BY DEF FreeIdsAreFree
<1>5. \A t \in Session : t \in Live("client")' =>
        t \in Live("client") /\ conns'["client"][t].id = conns["client"][t].id
  BY DEF Lasts
<1>6. ClientIdsUnique'
  BY <1>5 DEF ClientIdsUnique
<1>7. ASSUME NEW t \in InUse'
      PROVE  t \in InUse /\ t # s /\ conns'["client"][t].id = conns["client"][t].id
             /\ conns["client"][t].id # i
  <2>1. t \in Session /\ t \in Live("client")' /\ Open("client", t)'
    BY DEF InUse, Live, Open
  <2>2. t \in InUse /\ t # s
    BY <1>5, <1>7, <2>1 DEF InUse, Lasts, Open
  <2>3. s \in Live("client") /\ t \in Live("client")
    BY <1>2, <2>2 DEF InUse
  <2> QED
    BY <1>2, <1>5, <2>1, <2>2, <2>3 DEF ClientIdsUnique
<1> HIDE DEF i
<1>8. freeIds' = Pushed(freeIds, i)
  BY DEF i
<1>9. FreeIdsAreFree'
  <2>1. \A x, y \in DOMAIN freeIds' : freeIds'[x] = freeIds'[y] => x = y
    BY <1>1, <1>3, <1>4, <1>8
  <2>2. \A x \in DOMAIN freeIds', t \in InUse' : conns'["client"][t].id # freeIds'[x]
    <3> SUFFICES ASSUME NEW x \in DOMAIN freeIds', NEW t \in InUse'
                 PROVE  conns'["client"][t].id # freeIds'[x]
      OBVIOUS
    <3>1. t \in InUse /\ conns'["client"][t].id = conns["client"][t].id
          /\ conns["client"][t].id # i
      BY <1>7
    <3>2. \A y \in DOMAIN freeIds : conns["client"][t].id # freeIds[y]
      BY <3>1 DEF FreeIdsAreFree
    <3> QED
      BY <1>1, <1>8, <3>1, <3>2
  <2> QED
    BY <2>1, <2>2 DEF FreeIdsAreFree
<1> QED
  BY <1>6, <1>9

(* No connection gets an identifier and none is given back.                 *)
LEMMA IdsKept ==
  ASSUME ClientIdsUnique, FreeIdsAreFree, freeIds' = freeIds,
         \A t \in Session : Lasts("client", t)
  PROVE  ClientIdsUnique' /\ FreeIdsAreFree'
<1>1. \A t \in Session : t \in Live("client")' =>
        t \in Live("client") /\ conns'["client"][t].id = conns["client"][t].id
  BY DEF Lasts
<1>2. ClientIdsUnique'
  BY <1>1 DEF ClientIdsUnique
<1>3. ASSUME NEW t \in InUse'
      PROVE  t \in InUse /\ conns'["client"][t].id = conns["client"][t].id
  <2>1. t \in Session /\ t \in Live("client")' /\ Open("client", t)'
    BY DEF InUse, Live, Open
  <2> QED
    BY <1>1, <1>3, <2>1 DEF InUse, Lasts, Open
<1>4. FreeIdsAreFree'
  BY <1>3 DEF FreeIdsAreFree
<1> QED
  BY <1>2, <1>4

LEMMA ClientReports ==
  ASSUME NEW name \in Namings, Tidy(name), Agreed, NEW s \in Session, NEW cmd,
         Reported("client", cmd, s), Undisturbed', freeIds \in Seq(Id),
         conns["client"][s].id \in Id,
         freeIds' = IF cmd = "CLOSE" THEN Pushed(freeIds, conns["client"][s].id) ELSE freeIds
  PROVE  Agreed'
<1> DEFINE n == "client"
<1>1. "client" \in Node /\ "server" \in Node /\ "client" # "server"
      /\ Node = {"client", "server"}
  BY DEF Node
<1>2. /\ "NEW" \in Cmd /\ "ACK" \in Cmd /\ "CLOSE" \in Cmd /\ "CLOSE_SRC_TO_DST" \in Cmd
      /\ Cmd = {"NEW", "ACK", "CLOSE_SRC_TO_DST", "CLOSE"}
  BY DEF Cmd
<1>3. closedBy \in [Session -> SUBSET Node]
  BY DEF Tidy, ClosersAre
<1>4. cmd \in {"NEW", "CLOSE", "CLOSE_SRC_TO_DST"} /\ Open(n, s) /\ IsRunning(n) /\ IsRunning(n)'
  BY <1>1 DEF Reported
<1>5. \A t \in Session : closedBy[t] \subseteq closedBy'[t]
                         /\ (t # s \/ cmd # "CLOSE" => closedBy'[t] = closedBy[t])
                         /\ (cmd = "CLOSE" => closedBy'[s] = closedBy[s] \cup {n})
  BY <1>3 DEF Reported
<1>6. \A t \in Session, m \in Node : Lasts(m, t)
  BY DEF Reported
<1>7. \A t \in Session : /\ ToldEnd("client", t)' => ToldEnd("client", t)
                         /\ Open("client", t) /\ ~(t = s /\ cmd = "CLOSE") => Open("client", t)'
  BY DEF Reported
<1>8. \A c \in Cmd, t \in Session : Has("server", c, t)' => Has("server", c, t)
  BY <1>1 DEF Reported
<1>9. cmd = "CLOSE" => ToldEnd("client", s) /\ ~Open("client", s)'
  BY DEF Reported
<1>10. InOrder' /\ ClosesAreKnown' /\ ClosedAreNotOpen' /\ EndsAreSaid'
  BY <1>1, ReportedOrder
<1>11. ClientIdsUnique' /\ FreeIdsAreFree'
  <2>1. CASE cmd = "CLOSE"
    BY <1>1, <1>4, <1>6, <1>9, <2>1, IdFreed DEF Agreed
  <2>2. CASE cmd # "CLOSE"
    BY <1>1, <1>6, <2>2, IdsKept DEF Agreed
  <2> QED
    BY <2>1, <2>2
(* The client closes what the server has nothing left to say about.         *)
<1>12. cmd = "CLOSE" => \A c \in Cmd : ~Has("server", c, s)
  <2> SUFFICES ASSUME cmd = "CLOSE"
               PROVE  \A c \in Cmd : ~Has("server", c, s)
    OBVIOUS
  <2>1. ~Has("server", "ACK", s) /\ ~Has("server", "CLOSE_SRC_TO_DST", s)
    BY <1>9 DEF Agreed, ToldIsLast
  <2>2. ~Has("server", "NEW", s)
    BY DEF Tidy, NewFromClient
  <2>3. closedBy'[s] # Node /\ "client" \in closedBy'[s]
    BY <1>5 DEF Undisturbed
  <2>4. closedBy[s] \subseteq Node /\ closedBy'[s] \subseteq Node
    BY <1>1, <1>3, <1>5
  <2>5. "server" \notin closedBy[s]
    BY <1>1, <1>5, <2>3, <2>4
  <2>6. ~Has("server", "CLOSE", s)
    BY <1>1, <2>5 DEF Agreed, ClosesAreKnown
  <2> QED
    BY <1>2, <2>1, <2>2, <2>6
<1>13. NewIsFirst'
  <2> SUFFICES ASSUME NEW t \in Session, Has("client", "NEW", t)'
               PROVE  /\ t \notin Live("server")' /\ "server" \notin closedBy'[t]
                      /\ \A c \in Cmd : ~Has("server", c, t)'
                      /\ Open("client", t)' /\ ~ToldEnd("client", t)'
    BY DEF NewIsFirst
  <2>1. CASE Has("client", "NEW", t)
    <3>1. /\ t \notin Live("server") /\ "server" \notin closedBy[t]
          /\ \A c \in Cmd : ~Has("server", c, t)
          /\ Open("client", t) /\ ~ToldEnd("client", t)
      BY <1>4, <2>1 DEF Agreed, NewIsFirst
    <3>2. ~(t = s /\ cmd = "CLOSE")
      BY <1>9, <3>1
    <3> QED
      BY <1>1, <1>5, <1>6, <1>7, <1>8, <3>1, <3>2 DEF Lasts
  <2>2. CASE ~Has("client", "NEW", t)
    <3>1. cmd = "NEW" /\ t = s
      BY <1>1, <1>2, <2>2 DEF Reported
    <3>2. Fresh("client", s)
      BY <3>1 DEF Reported
    <3>3. /\ s \notin Live("server") /\ closedBy[s] = {}
          /\ \A c \in Cmd : ~Has("server", c, s)
      BY <1>1, <3>2 DEF Tidy, EarlyUnknown, Early
    <3>4. ~ToldEnd("client", s)
      BY <3>2 DEF Agreed, FreshNotTold
    <3>5. closedBy'[s] = {}
      BY <1>5, <3>1, <3>3
    <3> QED
      BY <1>1, <1>4, <1>6, <1>7, <1>8, <3>1, <3>3, <3>4, <3>5 DEF Lasts
  <2> QED
    BY <2>1, <2>2
<1>14. FreshNotTold'
  BY <1>1, <1>6, <1>7 DEF Agreed, FreshNotTold, Lasts
<1>15. CommandsFindOpen'
  <2> SUFFICES ASSUME NEW t \in Session, NEW c \in Cmd, Has("server", c, t)'
               PROVE  Open("client", t)'
    BY DEF CommandsFindOpen
  <2>1. Has("server", c, t) /\ Open("client", t)
    BY <1>4, <1>8 DEF Agreed, CommandsFindOpen
  <2>2. ~(t = s /\ cmd = "CLOSE")
    BY <1>12, <2>1
  <2> QED
    BY <1>7, <2>1, <2>2
<1>16. ToldIsLast'
  BY <1>2, <1>7, <1>8 DEF Agreed, ToldIsLast
<1>17. OpenAtBoth'
  <2> SUFFICES ASSUME NEW t \in Session, Open("server", t)', "client" \notin closedBy'[t]
               PROVE  Open("client", t)'
    BY DEF OpenAtBoth
  <2>1. Open("server", t) /\ "client" \notin closedBy[t]
    BY <1>1, <1>5, <1>6 DEF Lasts
  <2>2. Open("client", t)
    BY <1>4, <2>1 DEF Agreed, OpenAtBoth
  <2>3. ~(t = s /\ cmd = "CLOSE")
    BY <1>5
  <2> QED
    BY <1>7, <2>2, <2>3
<1>18. UnsaidOpenAtBoth'
  <2> SUFFICES ASSUME NEW t \in Session, Open("server", t)', ~SaidEnd("server", t)'
               PROVE  Open("client", t)' /\ ~ToldEnd("client", t)'
    BY DEF UnsaidOpenAtBoth
  <2>1. Open("server", t) /\ ~SaidEnd("server", t)
    BY <1>1, <1>6 DEF Lasts, Open
  <2>2. Open("client", t) /\ ~ToldEnd("client", t)
    BY <1>4, <2>1 DEF Agreed, UnsaidOpenAtBoth
  <2> QED
    BY <1>7, <1>9, <2>2
<1> QED
  BY <1>10, <1>11, <1>13, <1>14, <1>15, <1>16, <1>17, <1>18 DEF Agreed

LEMMA ServerReports ==
  ASSUME NEW name \in Namings, Tidy(name), Agreed, NEW s \in Session, NEW cmd,
         Reported("server", cmd, s), Undisturbed', freeIds' = freeIds
  PROVE  Agreed'
<1> DEFINE n == "server"
<1>1. "client" \in Node /\ "server" \in Node /\ "client" # "server"
      /\ Node = {"client", "server"}
  BY DEF Node
<1>2. /\ "NEW" \in Cmd /\ "ACK" \in Cmd /\ "CLOSE" \in Cmd /\ "CLOSE_SRC_TO_DST" \in Cmd
      /\ Cmd = {"NEW", "ACK", "CLOSE_SRC_TO_DST", "CLOSE"}
  BY DEF Cmd
<1>3. closedBy \in [Session -> SUBSET Node]
  BY DEF Tidy, ClosersAre
<1>4. /\ cmd \in {"CLOSE", "CLOSE_SRC_TO_DST"} /\ Open(n, s) /\ s \in Live(n)
      /\ IsRunning("client")' <=> IsRunning("client")
  <2>1. cmd # "NEW"
    BY DEF Reported, Tidy, NewFromClient
  <2> QED
    BY <1>1, <2>1 DEF Reported, Open
<1>5. \A t \in Session : closedBy[t] \subseteq closedBy'[t]
                         /\ (t # s \/ cmd # "CLOSE" => closedBy'[t] = closedBy[t])
                         /\ (cmd = "CLOSE" => closedBy'[s] = closedBy[s] \cup {n})
  BY <1>3 DEF Reported
<1>6. \A t \in Session, m \in Node : Lasts(m, t)
  BY DEF Reported
<1>7. \A t \in Session : /\ ToldEnd("client", t)' => ToldEnd("client", t)
                         /\ Open("client", t) => Open("client", t)'
  BY <1>1 DEF Reported
<1>8. /\ \A c \in Cmd, t \in Session : Has("client", c, t)' => Has("client", c, t)
      /\ \A c \in Cmd, t \in Session : Has("server", c, t)' => Has("server", c, t) \/ (c = cmd /\ t = s)
  BY <1>1 DEF Reported
<1>9. InOrder' /\ ClosesAreKnown' /\ ClosedAreNotOpen' /\ EndsAreSaid'
  BY <1>1, ReportedOrder
<1>10. ClientIdsUnique' /\ FreeIdsAreFree'
  BY <1>1, <1>6, IdsKept DEF Agreed
<1>11. NewIsFirst'
  <2> SUFFICES ASSUME NEW t \in Session, Has("client", "NEW", t)'
               PROVE  /\ t \notin Live("server")' /\ "server" \notin closedBy'[t]
                      /\ \A c \in Cmd : ~Has("server", c, t)'
                      /\ IsRunning("client")' => Open("client", t)' /\ ~ToldEnd("client", t)'
    BY DEF NewIsFirst
  <2>1. Has("client", "NEW", t)
    BY <1>2, <1>8
  <2>2. /\ t \notin Live("server") /\ "server" \notin closedBy[t]
        /\ \A c \in Cmd : ~Has("server", c, t)
        /\ IsRunning("client") => Open("client", t) /\ ~ToldEnd("client", t)
    BY <2>1 DEF Agreed, NewIsFirst
  <2>3. t # s
    BY <1>4, <2>2
  <2> QED
    BY <1>1, <1>4, <1>5, <1>6, <1>7, <1>8, <2>2, <2>3 DEF Lasts
<1>12. FreshNotTold'
  BY <1>1, <1>6, <1>7 DEF Agreed, FreshNotTold, Lasts
<1>13. CommandsFindOpen'
  <2> SUFFICES ASSUME NEW t \in Session, NEW c \in Cmd, IsRunning("client")', Has("server", c, t)'
               PROVE  Open("client", t)'
    BY DEF CommandsFindOpen
  <2>1. CASE Has("server", c, t)
    BY <1>4, <1>7, <2>1 DEF Agreed, CommandsFindOpen
  <2>2. CASE c = cmd /\ t = s /\ cmd = "CLOSE_SRC_TO_DST"
    <3>1. ~SaidEnd("server", s)
      BY <2>2 DEF Reported
    <3> QED
      BY <1>4, <1>7, <2>2, <3>1 DEF Agreed, UnsaidOpenAtBoth
  <2>3. CASE c = cmd /\ t = s /\ cmd = "CLOSE"
    <3>1. closedBy'[s] # Node /\ "server" \in closedBy'[s] /\ closedBy'[s] \subseteq Node
      BY <1>1, <1>3, <1>5, <2>3 DEF Undisturbed
    <3>2. "client" \notin closedBy[s]
      BY <1>1, <1>5, <3>1
    <3> QED
      BY <1>4, <1>7, <2>3, <3>2 DEF Agreed, OpenAtBoth
  <2> QED
    BY <1>4, <1>8, <2>1, <2>2, <2>3
<1>14. ToldIsLast'
  <2> SUFFICES ASSUME NEW t \in Session, ToldEnd("client", t)', NEW c \in {"ACK", "CLOSE_SRC_TO_DST"},
                      Has("server", c, t)'
               PROVE  FALSE
    BY DEF ToldIsLast
  <2>1. ToldEnd("client", t)
    BY <1>7
  <2>2. ~Has("server", c, t)
    BY <2>1 DEF Agreed, ToldIsLast
  <2>3. c = cmd /\ t = s /\ cmd = "CLOSE_SRC_TO_DST"
    BY <1>2, <1>4, <1>8, <2>2
  <2>4. ~SaidEnd("server", s)
    BY <2>3 DEF Reported
  <2>5. IsRunning("client")
    BY <1>1, <2>1 DEF Tidy, EndedEmpty, ToldEnd
  <2> QED
    BY <1>4, <2>1, <2>3, <2>4, <2>5 DEF Agreed, UnsaidOpenAtBoth
<1>15. OpenAtBoth'
  BY <1>1, <1>4, <1>5, <1>6, <1>7 DEF Agreed, OpenAtBoth, Lasts
<1>16. UnsaidOpenAtBoth'
  <2> SUFFICES ASSUME NEW t \in Session, IsRunning("client")', Open("server", t)', ~SaidEnd("server", t)'
               PROVE  Open("client", t)' /\ ~ToldEnd("client", t)'
    BY DEF UnsaidOpenAtBoth
  <2>1. Open("server", t) /\ ~SaidEnd("server", t)
    BY <1>1, <1>6 DEF Lasts, Open
  <2>2. Open("client", t) /\ ~ToldEnd("client", t)
    BY <1>4, <2>1 DEF Agreed, UnsaidOpenAtBoth
  <2> QED
    BY <1>7, <2>2
<1> QED
  BY <1>9, <1>10, <1>11, <1>12, <1>13, <1>14, <1>15, <1>16 DEF Agreed

(* The command of n about s that has come first is gone from those of n.    *)
Came(n, cmd, s) ==
  /\ cmd \in Cmd /\ Has(n, cmd, s) /\ Fades
  /\ \A d \in Cmd, t \in Session : Has(n, d, t)' => Ahead(n, cmd, s, d, t)

LEMMA ClientObeys ==
  ASSUME NEW name \in Namings, Tidy(name), Agreed, NEW s \in Session, NEW cmd,
         Came("server", cmd, s), IsRunning("client"), freeIds \in Seq(Id),
         conns["client"][s].id \in Id, closedBy' = closedBy,
         \A n \in Node, t \in Session : Lasts(n, t),
         \A t \in Session : /\ ToldEnd("client", t)' =>
                                 ToldEnd("client", t) \/ (t = s /\ cmd = "CLOSE_SRC_TO_DST")
                            /\ Open("client", t) => Open("client", t)' \/ (t = s /\ cmd = "CLOSE"),
         IsRunning("client")',
         cmd = "CLOSE" => ~Open("client", s)',
         freeIds' = IF cmd = "CLOSE" THEN Pushed(freeIds, conns["client"][s].id) ELSE freeIds
  PROVE  Agreed'
<1>1. "client" \in Node /\ "server" \in Node /\ "client" # "server"
      /\ Node = {"client", "server"}
  BY DEF Node
<1>2. /\ "NEW" \in Cmd /\ "ACK" \in Cmd /\ "CLOSE" \in Cmd /\ "CLOSE_SRC_TO_DST" \in Cmd
      /\ Cmd = {"NEW", "ACK", "CLOSE_SRC_TO_DST", "CLOSE"}
  BY DEF Cmd
<1>3. cmd \in Cmd /\ Has("server", cmd, s) /\ Fades
  BY DEF Came
<1>4. Open("client", s)
  BY <1>3 DEF Agreed, CommandsFindOpen
<1>5. \A m \in Node, c \in Cmd, t \in Session : Has(m, c, t)' => Has(m, c, t)
  BY <1>3 DEF Fades
<1>6. \A d \in Cmd : Has("server", d, s)' => Order(cmd) < Order(d)
  BY <1>1, <1>3 DEF Came, Agreed, InOrder
<1>7. cmd = "CLOSE" => \A d \in Cmd : ~Has("server", d, s)'
  <2> SUFFICES ASSUME cmd = "CLOSE", NEW d \in Cmd, Has("server", d, s)'
               PROVE  FALSE
    OBVIOUS
  <2>1. Order("CLOSE") < Order(d)
    BY <1>6
  <2>2. d = "NEW" \/ d = "ACK" \/ d = "CLOSE_SRC_TO_DST" \/ d = "CLOSE"
    BY <1>2
  <2> QED
    BY <2>1, <2>2, Orders
<1>8. cmd = "CLOSE_SRC_TO_DST" => ~Has("server", "ACK", s)' /\ ~Has("server", "CLOSE_SRC_TO_DST", s)'
  BY <1>2, <1>6, Orders
<1>9. InOrder'
  BY <1>3 DEF InOrder, Agreed, Fades
<1>10. ClosesAreKnown'
  BY <1>2, <1>5 DEF ClosesAreKnown, Agreed
<1>11. ClosedAreNotOpen'
  BY DEF Agreed, ClosedAreNotOpen, Lasts
<1>12. EndsAreSaid'
  <2> SUFFICES ASSUME NEW n \in Node, NEW t \in Session, Open(n, t)', ~SaidEnd(n, t)'
               PROVE  ~Has(n, "CLOSE_SRC_TO_DST", t)'
    BY DEF EndsAreSaid
  <2>1. Open(n, t) /\ ~SaidEnd(n, t)
    BY DEF Lasts, Open
  <2> QED
    BY <1>2, <1>5, <2>1 DEF Agreed, EndsAreSaid
<1>13. NewIsFirst'
  <2> SUFFICES ASSUME NEW t \in Session, Has("client", "NEW", t)'
               PROVE  /\ t \notin Live("server")' /\ "server" \notin closedBy'[t]
                      /\ \A c \in Cmd : ~Has("server", c, t)'
                      /\ Open("client", t)' /\ ~ToldEnd("client", t)'
    BY DEF NewIsFirst
  <2>1. Has("client", "NEW", t)
    BY <1>1, <1>2, <1>5
  <2>2. /\ t \notin Live("server") /\ "server" \notin closedBy[t]
        /\ \A c \in Cmd : ~Has("server", c, t)
        /\ Open("client", t) /\ ~ToldEnd("client", t)
    BY <2>1 DEF Agreed, NewIsFirst
  <2>3. t # s
    BY <1>3, <2>2
  <2> QED
    BY <1>1, <1>5, <2>2, <2>3 DEF Lasts
<1>14. FreshNotTold'
  <2> SUFFICES ASSUME NEW t \in Session, Fresh("client", t)'
               PROVE  ~ToldEnd("client", t)'
    BY DEF FreshNotTold
  <2>1. Fresh("client", t)
    BY <1>1 DEF Lasts
  <2>2. Early(t) /\ ~ToldEnd("client", t)
    BY <2>1 DEF Agreed, FreshNotTold, Early
  <2>3. t # s
    BY <1>1, <1>3, <2>2 DEF Tidy, EarlyUnknown
  <2> QED
    BY <2>2, <2>3
<1>15. CommandsFindOpen'
  <2> SUFFICES ASSUME NEW t \in Session, NEW c \in Cmd, Has("server", c, t)'
               PROVE  Open("client", t)'
    BY DEF CommandsFindOpen
  <2>1. Open("client", t)
    BY <1>1, <1>5 DEF Agreed, CommandsFindOpen
  <2>2. ~(t = s /\ cmd = "CLOSE")
    BY <1>7
  <2> QED
    BY <2>1, <2>2
<1>16. ToldIsLast'
  <2> SUFFICES ASSUME NEW t \in Session, ToldEnd("client", t)'
               PROVE  ~Has("server", "ACK", t)' /\ ~Has("server", "CLOSE_SRC_TO_DST", t)'
    BY DEF ToldIsLast
  <2>1. CASE ToldEnd("client", t)
    BY <1>1, <1>2, <1>5, <2>1 DEF Agreed, ToldIsLast
  <2>2. CASE t = s /\ cmd = "CLOSE_SRC_TO_DST"
    BY <1>8, <2>2
  <2> QED
    BY <2>1, <2>2
<1>17. OpenAtBoth'
  <2> SUFFICES ASSUME NEW t \in Session, Open("server", t)', "client" \notin closedBy'[t]
               PROVE  Open("client", t)'
    BY DEF OpenAtBoth
  <2>1. Open("server", t)
    BY <1>1 DEF Lasts
  <2>2. Open("client", t)
    BY <2>1 DEF Agreed, OpenAtBoth
  <2>3. ~(t = s /\ cmd = "CLOSE")
    <3> SUFFICES ASSUME t = s, cmd = "CLOSE"
                 PROVE  FALSE
      OBVIOUS
    <3>1. "server" \in closedBy[s]
      BY <1>1, <1>3 DEF Agreed, ClosesAreKnown
    <3> QED
      BY <1>1, <2>1, <3>1 DEF Agreed, ClosedAreNotOpen
  <2> QED
    BY <2>2, <2>3
<1>18. UnsaidOpenAtBoth'
  <2> SUFFICES ASSUME NEW t \in Session, Open("server", t)', ~SaidEnd("server", t)'
               PROVE  Open("client", t)' /\ ~ToldEnd("client", t)'
    BY DEF UnsaidOpenAtBoth
  <2>1. Open("server", t) /\ ~SaidEnd("server", t)
    BY <1>1 DEF Lasts, Open
  <2>2. Open("client", t) /\ ~ToldEnd("client", t)
    BY <2>1 DEF Agreed, UnsaidOpenAtBoth
  <2>3. ~(t = s /\ cmd = "CLOSE")
    <3> SUFFICES ASSUME t = s, cmd = "CLOSE"
                 PROVE  FALSE
      OBVIOUS
    <3>1. "server" \in closedBy[s]
      BY <1>1, <1>3 DEF Agreed, ClosesAreKnown
    <3> QED
      BY <1>1, <2>1, <3>1 DEF Agreed, ClosedAreNotOpen
  <2>4. ~(t = s /\ cmd = "CLOSE_SRC_TO_DST")
    BY <1>1, <1>3, <2>1 DEF Agreed, EndsAreSaid
  <2> QED
    BY <2>2, <2>3, <2>4
<1>19. ClientIdsUnique' /\ FreeIdsAreFree'
  <2>1. CASE cmd = "CLOSE"
    BY <1>1, <1>4, <2>1, IdFreed DEF Agreed
  <2>2. CASE cmd # "CLOSE"
    BY <1>1, <2>2, IdsKept DEF Agreed
  <2> QED
    BY <2>1, <2>2
<1> QED
  BY <1>9, <1>10, <1>11, <1>12, <1>13, <1>14, <1>15, <1>16, <1>17, <1>18, <1>19 DEF Agreed

(* The server has heard of a new session and answers.                       *)
LEMMA ServerAnswers ==
  ASSUME NEW name \in Namings, Tidy(name), Agreed, NEW s \in Session,
         Has("client", "NEW", s),
         \A d \in Cmd, t \in Session : Has("client", d, t)' =>
           Ahead("client", "NEW", s, d, t) /\ Has("client", d, t),
         \A c, d \in Cmd, t, u \in Session :
           Ahead("client", c, t, d, u)' => Ahead("client", c, t, d, u),
         NEW answer \in {"ACK", "CLOSE"},
         \A c \in Cmd, t \in Session :
           Has("server", c, t)' => Has("server", c, t) \/ (c = answer /\ t = s),
         \A c, d \in Cmd, t, u \in Session :
           Ahead("server", c, t, d, u)' =>
             Ahead("server", c, t, d, u) \/ (Has("server", c, t) /\ u = s),
         \A n \in Node : IsRunning(n)' <=> IsRunning(n),
         \A t \in Session : Lasts("client", t) /\ ClientLasts(t),
         \A t \in Session : t # s => Lasts("server", t),
         answer = "CLOSE" => s \notin Live("server")',
         closedBy' = IF answer = "CLOSE" THEN [closedBy EXCEPT ![s] = @ \cup {"server"}]
                                         ELSE closedBy,
         freeIds' = freeIds
  PROVE  Agreed'
<1>1. "client" \in Node /\ "server" \in Node /\ "client" # "server"
      /\ Node = {"client", "server"}
  BY DEF Node
<1>2. /\ "NEW" \in Cmd /\ "ACK" \in Cmd /\ "CLOSE" \in Cmd /\ "CLOSE_SRC_TO_DST" \in Cmd
      /\ Cmd = {"NEW", "ACK", "CLOSE_SRC_TO_DST", "CLOSE"} /\ answer \in Cmd
  BY DEF Cmd
<1>3. closedBy \in [Session -> SUBSET Node]
  BY DEF Tidy, ClosersAre
<1>4. /\ s \notin Live("server") /\ "server" \notin closedBy[s]
      /\ \A c \in Cmd : ~Has("server", c, s)
      /\ IsRunning("client") => Open("client", s) /\ ~ToldEnd("client", s)
  BY DEF Agreed, NewIsFirst
<1>5. \A t \in Session : closedBy[t] \subseteq closedBy'[t]
                         /\ (t # s \/ answer # "CLOSE" => closedBy'[t] = closedBy[t])
                         /\ (answer = "CLOSE" => closedBy'[s] = closedBy[s] \cup {"server"})
  BY <1>3
<1>6. \A c \in Cmd, t \in Session : Has("client", c, t)' => Has("client", c, t)
  OBVIOUS
<1>7. ~Has("client", "NEW", s)'
  BY <1>1, <1>2, Orders DEF Agreed, InOrder
<1>8. IsRunning("client")' => Open("client", s)' /\ ~ToldEnd("client", s)'
  BY <1>1, <1>4 DEF ClientLasts
<1>9. InOrder'
  <2> SUFFICES ASSUME NEW n \in Node, NEW c \in Cmd, NEW d \in Cmd, NEW t \in Session,
                      Ahead(n, c, t, d, t)'
               PROVE  Ahead(n, c, t, d, t)
    BY DEF Agreed, InOrder
  <2>1. CASE n = "client"
    BY <2>1
  <2>2. CASE n = "server"
    BY <1>4, <2>2
  <2> QED
    BY <1>1, <2>1, <2>2
<1>10. ClosesAreKnown'
  <2> SUFFICES ASSUME NEW n \in Node, NEW t \in Session, Has(n, "CLOSE", t)'
               PROVE  n \in closedBy'[t]
    BY DEF ClosesAreKnown
  <2>1. CASE Has(n, "CLOSE", t)
    BY <1>5, <2>1 DEF Agreed, ClosesAreKnown
  <2>2. CASE ~Has(n, "CLOSE", t)
    <3>1. n = "server" /\ answer = "CLOSE" /\ t = s
      BY <1>1, <1>2, <2>2
    <3> QED
      BY <1>5, <3>1
  <2> QED
    BY <2>1, <2>2
<1>11. ClosedAreNotOpen'
  <2> SUFFICES ASSUME NEW n \in Node, NEW t \in Session, n \in closedBy'[t], Open(n, t)'
               PROVE  FALSE
    BY DEF ClosedAreNotOpen
  <2>1. CASE n = "server" /\ t = s
    <3>1. answer = "CLOSE"
      BY <1>4, <1>5, <2>1
    <3> QED
      BY <2>1, <3>1 DEF Open
  <2>2. CASE ~(n = "server" /\ t = s)
    <3>1. n \in closedBy[t] /\ Open(n, t)
      BY <1>1, <1>5, <2>2 DEF Lasts
    <3> QED
      BY <3>1 DEF Agreed, ClosedAreNotOpen
  <2> QED
    BY <2>1, <2>2
<1>12. EndsAreSaid'
  <2> SUFFICES ASSUME NEW n \in Node, NEW t \in Session, Open(n, t)', ~SaidEnd(n, t)',
                      Has(n, "CLOSE_SRC_TO_DST", t)'
               PROVE  FALSE
    BY DEF EndsAreSaid
  <2>1. Has(n, "CLOSE_SRC_TO_DST", t)
    BY <1>1, <1>2
  <2>2. ~(n = "server" /\ t = s)
    BY <1>2, <1>4, <2>1
  <2>3. Open(n, t) /\ ~SaidEnd(n, t)
    BY <1>1, <2>2 DEF Lasts, Open
  <2> QED
    BY <2>1, <2>3 DEF Agreed, EndsAreSaid
<1>13. NewIsFirst'
  <2> SUFFICES ASSUME NEW t \in Session, Has("client", "NEW", t)'
               PROVE  /\ t \notin Live("server")' /\ "server" \notin closedBy'[t]
                      /\ \A c \in Cmd : ~Has("server", c, t)'
                      /\ IsRunning("client")' => Open("client", t)' /\ ~ToldEnd("client", t)'
    BY DEF NewIsFirst
  <2>1. Has("client", "NEW", t) /\ t # s
    BY <1>2, <1>6, <1>7
  <2>2. /\ t \notin Live("server") /\ "server" \notin closedBy[t]
        /\ \A c \in Cmd : ~Has("server", c, t)
        /\ IsRunning("client") => Open("client", t) /\ ~ToldEnd("client", t)
    BY <2>1 DEF Agreed, NewIsFirst
  <2> QED
    BY <1>1, <1>5, <2>1, <2>2 DEF Lasts, ClientLasts
<1>14. FreshNotTold'
  BY DEF Agreed, FreshNotTold, Lasts, ClientLasts
<1>15. CommandsFindOpen'
  <2> SUFFICES ASSUME NEW t \in Session, NEW c \in Cmd, IsRunning("client")', Has("server", c, t)'
               PROVE  Open("client", t)'
    BY DEF CommandsFindOpen
  <2>1. CASE t = s
    BY <1>8, <2>1
  <2>2. CASE t # s
    BY <1>1, <2>2 DEF Agreed, CommandsFindOpen, ClientLasts
  <2> QED
    BY <2>1, <2>2
<1>16. ToldIsLast'
  <2> SUFFICES ASSUME NEW t \in Session, ToldEnd("client", t)'
               PROVE  ~Has("server", "ACK", t)' /\ ~Has("server", "CLOSE_SRC_TO_DST", t)'
    BY DEF ToldIsLast
  <2>1. ToldEnd("client", t) /\ t \in Live("client")
    BY DEF ClientLasts, ToldEnd
  <2>2. IsRunning("client")
    BY <1>1, <2>1 DEF Tidy, EndedEmpty
  <2>3. t # s
    BY <1>4, <2>1, <2>2
  <2> QED
    BY <1>2, <2>1, <2>3 DEF Agreed, ToldIsLast
<1>17. OpenAtBoth'
  <2> SUFFICES ASSUME NEW t \in Session, IsRunning("client")', Open("server", t)',
                      "client" \notin closedBy'[t]
               PROVE  Open("client", t)'
    BY DEF OpenAtBoth
  <2>1. CASE t = s
    BY <1>8, <2>1
  <2>2. CASE t # s
    BY <1>1, <1>5, <2>2 DEF Agreed, OpenAtBoth, Lasts, ClientLasts
  <2> QED
    BY <2>1, <2>2
<1>18. UnsaidOpenAtBoth'
  <2> SUFFICES ASSUME NEW t \in Session, IsRunning("client")', Open("server", t)', ~SaidEnd("server", t)'
               PROVE  Open("client", t)' /\ ~ToldEnd("client", t)'
    BY DEF UnsaidOpenAtBoth
  <2>1. CASE t = s
    BY <1>8, <2>1
  <2>2. CASE t # s
    <3>1. Open("server", t) /\ ~SaidEnd("server", t)
      BY <2>2 DEF Lasts, Open
    <3>2. Open("client", t) /\ ~ToldEnd("client", t)
      BY <1>1, <3>1 DEF Agreed, UnsaidOpenAtBoth
    <3> QED
      BY <3>2 DEF ClientLasts
  <2> QED
    BY <2>1, <2>2
<1>19. ClientIdsUnique' /\ FreeIdsAreFree'
  BY IdsKept DEF Agreed
<1> QED
  BY <1>9, <1>10, <1>11, <1>12, <1>13, <1>14, <1>15, <1>16, <1>17, <1>18, <1>19 DEF Agreed
-----------------------------------------------------------------------------
(* sort_connections gives identifiers to the new ones                       *)

LEMMA RanksDiffer ==
  ASSUME NEW n \in Node, NEW s \in Nameless(n), NEW t \in Nameless(n), s < t
  PROVE  Rank(n, s) < Rank(n, t)
<1> DEFINE S == {u \in Nameless(n) : u <= s}
           T == {u \in Nameless(n) : u <= t}
<1>1. s \in Nat /\ t \in Nat /\ Nameless(n) \subseteq Session /\ Session \subseteq Nat
  BY Constants DEF Nameless, Live, Session
<1>2. IsFiniteSet(Session)
  BY Constants, FS_Interval DEF Session
<1>3. IsFiniteSet(S) /\ IsFiniteSet(T)
  BY <1>1, <1>2, FS_Subset
<1>4. t \notin S /\ t \in T /\ S \subseteq T
  <2>1. t \notin S
    BY <1>1
  <2>2. t \in T
    BY <1>1
  <2>3. ASSUME NEW u \in Nameless(n), u <= s
        PROVE  u <= t
    BY <1>1, <2>3
  <2> QED
    BY <2>1, <2>2, <2>3
<1> HIDE DEF S, T
<1>5. Cardinality(S \cup {t}) = Cardinality(S) + 1 /\ IsFiniteSet(S \cup {t})
  BY <1>3, <1>4, FS_AddElement
<1>6. S \cup {t} \in SUBSET T
  BY <1>4
<1>7. Cardinality(S \cup {t}) <= Cardinality(T)
  BY <1>3, <1>6, FS_Subset
<1>8. Cardinality(S) \in Nat /\ Cardinality(T) \in Nat
  BY <1>3, FS_CardinalityType
<1>9. Cardinality(S) < Cardinality(T)
  BY <1>5, <1>7, <1>8
<1> QED
  BY <1>9 DEF Rank, S, T

LEMMA NamedAbove ==
  ASSUME MemoryInv, NEW n \in Node, NEW s \in Session, Named(n, s)
  PROVE  /\ Rank(n, s) \in Nat /\ Rank(n, s) > 0 /\ Rank(n, s) <= Len(freeIds)
         /\ Cardinality({t \in Session : Named(n, t)}) \in Nat
         /\ Rank(n, s) <= Cardinality({t \in Session : Named(n, t)})
<1> DEFINE S == {u \in Nameless(n) : u <= s}
           T == {t \in Session : Named(n, t)}
<1>1. s \in Nat /\ Nameless(n) \subseteq Session /\ Session \subseteq Nat /\ s \in Nameless(n)
  BY Constants DEF Nameless, Live, Session, Named
<1>2. IsFiniteSet(Session)
  BY Constants, FS_Interval DEF Session
<1>3. IsFiniteSet(S) /\ IsFiniteSet(T)
  BY <1>1, <1>2, FS_Subset
<1>4. Rank(n, s) \in Nat /\ Rank(n, s) > 0 /\ Rank(n, s) <= Len(freeIds)
  BY <1>1, RankIs DEF Named
<1>5. ASSUME NEW t \in S PROVE t \in T
  <2>1. t \in Nameless(n) /\ t \in Session /\ t \in Nat /\ t <= s
    BY <1>1
  <2>2. t = s \/ t < s
    BY <1>1, <2>1
  <2>3. Rank(n, t) \in Nat
    BY <2>1, RankIs
  <2>4. Rank(n, t) <= Rank(n, s)
    <3>1. CASE t = s
      BY <1>4, <3>1
    <3>2. CASE t < s
      <4>1. Rank(n, t) < Rank(n, s)
        BY <1>1, <2>1, <3>2, RanksDiffer
      <4> QED
        BY <1>4, <2>3, <4>1
    <3> QED
      BY <2>2, <3>1, <3>2
  <2>5. Len(freeIds) \in Nat
    BY DEF MemoryInv, Stacks
  <2>6. Rank(n, t) <= Len(freeIds)
    BY <1>4, <2>3, <2>4, <2>5
  <2> QED
    BY <2>1, <2>6 DEF Named
<1> HIDE DEF S, T
<1>6. S \in SUBSET T
  BY <1>5
<1>7. Cardinality(S) <= Cardinality(T) /\ Cardinality(T) \in Nat
  BY <1>3, <1>6, FS_Subset, FS_CardinalityType
<1> QED
  BY <1>4, <1>7 DEF Rank, S, T

LEMMA SortIds ==
  ASSUME MemoryInv, SortConnections("client"), PollClean("client"),
         ClientIdsUnique, FreeIdsAreFree
  PROVE  ClientIdsUnique' /\ FreeIdsAreFree'
<1> DEFINE n == "client"
           k == Cardinality({t \in Session : Named(n, t)})
           l == Len(freeIds) - k
           At(s) == Len(freeIds) + 1 - Rank(n, s)
<1>1. n \in Node
  BY DEF Node
<1>2. freeIds \in Seq(Id) /\ Len(freeIds) \in Nat /\ DOMAIN freeIds = 1..Len(freeIds)
  <2>1. freeIds \in Seq(Id)
    BY DEF MemoryInv, Stacks
  <2> QED
    BY <2>1
<1>3. k \in Nat
  <2>1. IsFiniteSet(Session)
    BY Constants, FS_Interval DEF Session
  <2> QED
    BY <2>1, FS_Subset, FS_CardinalityType
<1>4. \A s \in Session : conns'[n][s] = WithId(n, s)
                         /\ (conns'[n][s] = NoConn <=> conns[n][s] = NoConn)
  BY <1>1, SortGives
<1>5. \A s \in Live(n) : "DELETE" \notin conns[n][s].state
  BY DEF PollClean, SortConnections
<1>6. ASSUME NEW s \in Session, Named(n, s)
      PROVE  /\ At(s) \in 1..Len(freeIds) /\ At(s) > l /\ Rank(n, s) \in Nat
             /\ conns'[n][s].id = freeIds[At(s)] /\ s \in Nameless(n)
  <2>1. Rank(n, s) \in Nat /\ Rank(n, s) > 0 /\ Rank(n, s) <= Len(freeIds) /\ Rank(n, s) <= k
    BY <1>1, <1>6, NamedAbove
  <2>2. s \in Nameless(n) /\ conns[n][s] # NoConn /\ conns[n][s] \in Connections
    BY <1>1, <1>6 DEF Named, Nameless, Live, MemoryInv
  <2>3. conns[n][s] \in Record(Id \cup {NoId}, Data, Data)
    BY <2>2 DEF Connections
  <2>4. WithId(n, s) = [conns[n][s] EXCEPT !.id = freeIds[At(s)]]
    BY <1>6 DEF WithId
  <2>5. WithId(n, s).id = freeIds[At(s)]
    <3> HIDE DEF At
    <3> QED
      BY <2>3, <2>4 DEF Record
  <2> HIDE DEF k
  <2> QED
    BY <1>2, <1>3, <1>4, <2>1, <2>2, <2>5
<1>7. ASSUME NEW s \in Session, ~Named(n, s)
      PROVE  conns'[n][s] = conns[n][s]
  BY <1>4, <1>7 DEF WithId
<1>8. Live(n)' = Live(n)
  BY <1>4 DEF Live
<1>9. ASSUME NEW s \in Session, s \in Live(n), conns[n][s].id # NoId
      PROVE  s \in InUse /\ \A x \in 1..Len(freeIds) : conns[n][s].id # freeIds[x]
  <2>1. s \in InUse
    BY <1>5, <1>9 DEF InUse
  <2> QED
    BY <1>2, <2>1 DEF FreeIdsAreFree
<1>10. \A x, y \in 1..Len(freeIds) : freeIds[x] = freeIds[y] => x = y
  BY <1>2 DEF FreeIdsAreFree
<1> HIDE DEF At, k
<1>11. ClientIdsUnique'
  <2> SUFFICES ASSUME NEW s \in Session, NEW t \in Session, s \in Live(n), t \in Live(n),
                      conns'[n][s].id # NoId, conns'[n][s].id = conns'[n][t].id
               PROVE  s = t
    BY <1>8 DEF ClientIdsUnique
  <2>1. CASE Named(n, s) /\ Named(n, t)
    <3>1. At(s) = At(t) /\ Rank(n, s) \in Nat /\ Rank(n, t) \in Nat
      BY <1>6, <1>10, <2>1
    <3>2. Rank(n, s) = Rank(n, t)
      BY <1>2, <3>1 DEF At
    <3>3. s \in Nameless(n) /\ t \in Nameless(n) /\ s \in Nat /\ t \in Nat
      BY <1>6, <2>1, Constants DEF Session
    <3>4. ~(s < t) /\ ~(t < s)
      <4>1. ~(Rank(n, s) < Rank(n, t)) /\ ~(Rank(n, t) < Rank(n, s))
        BY <3>1, <3>2
      <4> QED
        BY <1>1, <3>3, <4>1, RanksDiffer
    <3> QED
      BY <3>3, <3>4
  <2>2. CASE Named(n, s) /\ ~Named(n, t)
    <3>1. conns[n][t].id = freeIds[At(s)] /\ At(s) \in 1..Len(freeIds) /\ conns[n][t].id # NoId
      BY <1>6, <1>7, <2>2
    <3> QED
      BY <1>9, <3>1
  <2>3. CASE ~Named(n, s) /\ Named(n, t)
    <3>1. conns[n][s].id = freeIds[At(t)] /\ At(t) \in 1..Len(freeIds) /\ conns[n][s].id # NoId
      BY <1>6, <1>7, <2>3
    <3> QED
      BY <1>9, <3>1
  <2>4. CASE ~Named(n, s) /\ ~Named(n, t)
    BY <1>7, <2>4 DEF ClientIdsUnique
  <2> QED
    BY <2>1, <2>2, <2>3, <2>4
<1>12. \A y \in DOMAIN freeIds' : y \in 1..Len(freeIds) /\ y <= l /\ freeIds'[y] = freeIds[y]
  <2>1. freeIds' = SubSeq(freeIds, 1, l)
    BY DEF SortConnections, k
  <2>2. CASE l >= 0
    <3>1. l \in 0..Len(freeIds)
      BY <1>2, <1>3, <2>2
    <3>2. /\ SubSeq(freeIds, 1, l) \in Seq(Id) /\ Len(SubSeq(freeIds, 1, l)) = l
          /\ \A i \in 1..l : SubSeq(freeIds, 1, l)[i] = freeIds[i]
      BY <1>2, <3>1, SeqFirst
    <3>3. DOMAIN freeIds' = 1..l
      BY <2>1, <3>2
    <3> QED
      BY <1>2, <2>1, <3>1, <3>2, <3>3
  <2>3. CASE l < 0
    <3>1. l \in Int /\ ~(1 <= l)
      BY <1>2, <1>3, <2>3
    <3>2. SubSeq(freeIds, 1, l) \in Seq(Id) /\ Len(SubSeq(freeIds, 1, l)) = 0
      BY <1>2, <3>1, SubSeqProperties
    <3>3. DOMAIN freeIds' = {}
      BY <2>1, <3>2
    <3> QED
      BY <3>3
  <2> QED
    BY <1>2, <1>3, <2>2, <2>3
<1>13. FreeIdsAreFree'
  <2>1. \A x, y \in DOMAIN freeIds' : freeIds'[x] = freeIds'[y] => x = y
    BY <1>10, <1>12
  <2>2. ASSUME NEW y \in DOMAIN freeIds', NEW t \in InUse'
        PROVE  conns'[n][t].id # freeIds'[y]
    <3>1. t \in Session /\ t \in Live(n) /\ conns'[n][t].id # NoId
      BY <1>8 DEF InUse, Live
    <3>2. y \in 1..Len(freeIds) /\ y <= l /\ freeIds'[y] = freeIds[y]
      BY <1>12
    <3>3. CASE Named(n, t)
      <4>1. /\ At(t) \in 1..Len(freeIds) /\ At(t) > l
            /\ conns'[n][t].id = freeIds[At(t)]
        BY <1>6, <3>1, <3>3
      <4>2. At(t) # y
        BY <1>2, <1>3, <3>2, <4>1
      <4> QED
        BY <1>10, <3>2, <4>1, <4>2
    <3>4. CASE ~Named(n, t)
      BY <1>7, <1>9, <3>1, <3>2, <3>4
    <3> QED
      BY <3>3, <3>4
  <2> QED
    BY <2>1, <2>2 DEF FreeIdsAreFree
<1> QED
  BY <1>11, <1>13
-----------------------------------------------------------------------------
(* What becomes of the commands when bytes move                             *)

(* The line carries no command that the other does not, in no other order.  *)
Within(L, M) ==
  /\ \A x \in CmdBytes : Carries(L, x) => Carries(M, x)
  /\ \A x, y \in CmdBytes : Before(L, x, y) => Before(M, x, y)

LEMMA WithinSame == \A L : Within(L, L)
BY DEF Within

LEMMA WithinConcat ==
  ASSUME NEW a \in Seq(Byte), NEW b \in Seq(Byte), NEW c \in Seq(Byte), NEW d \in Seq(Byte),
         Within(a, c), Within(b, d)
  PROVE  Within(a \o b, c \o d)
<1>1. ASSUME NEW x \in CmdBytes, Carries(a \o b, x)
      PROVE  Carries(c \o d, x)
  <2>1. Carries(a, x) \/ Carries(b, x)
    BY <1>1, CarriesConcat
  <2>2. Carries(c, x) \/ Carries(d, x)
    BY <2>1 DEF Within
  <2> QED
    BY <2>2, CarriesConcat
<1>2. ASSUME NEW x \in CmdBytes, NEW y \in CmdBytes, Before(a \o b, x, y)
      PROVE  Before(c \o d, x, y)
  <2>1. Before(a, x, y) \/ Before(b, x, y) \/ (Carries(a, x) /\ Carries(b, y))
    BY <1>2, BeforeConcat
  <2>2. Before(c, x, y) \/ Before(d, x, y) \/ (Carries(c, x) /\ Carries(d, y))
    BY <2>1 DEF Within
  <2> QED
    BY <2>2, BeforeConcat
<1> QED
  BY <1>1, <1>2 DEF Within

LEMMA WithinEmpty ==
  ASSUME NEW f \in Seq(Byte), \A x \in CmdBytes : ~Carries(f, x), NEW L
  PROVE  Within(f, L)
<1>1. ASSUME NEW x, NEW y, Before(f, x, y)
      PROVE  Carries(f, x)
  BY <1>1 DEF Before, Carries
<1> QED
  BY <1>1 DEF Within

LEMMA SaysIs ==
  ASSUME NEW c \in Cmd, NEW s \in Session
  PROVE  /\ Says(c, s) \in CmdBytes /\ Says(c, s) \in Byte
         /\ \A d \in Cmd, t \in Session : Says(c, s) = Says(d, t) => c = d /\ s = t
<1>1. Says(c, s) \in CmdBytes
  BY DEF Says, CmdBytes
<1>2. Says(c, s) \in Byte
  BY <1>1 DEF CmdBytes, Byte
<1>3. \A d \in Cmd, t \in Session : Says(c, s) = Says(d, t) => c = d /\ s = t
  BY DEF Says
<1> QED
  BY <1>1, <1>2, <1>3

LEMMA WaitingIs ==
  ASSUME NEW q \in Seq(Commands)
  PROVE  /\ Waiting(q) \in Seq(Byte) /\ Len(Waiting(q)) = Len(q) /\ Len(q) \in Nat
         /\ \A k \in 1..Len(q) : Waiting(q)[k] = Says(q[k].cmd, q[k].session)
         /\ \A k \in 1..Len(q) : /\ q[k] \in Commands
                                 /\ q[k].cmd \in Cmd /\ q[k].id \in Id /\ q[k].session \in Session
<1>1. Len(q) \in Nat /\ \A k \in 1..Len(q) : q[k] \in Commands
  BY ElementOfSeq
<1>2. \A k \in 1..Len(q) : q[k].cmd \in Cmd /\ q[k].id \in Id /\ q[k].session \in Session
  BY <1>1 DEF Commands
<1>3. \A k \in 1..Len(q) : Says(q[k].cmd, q[k].session) \in Byte
  BY <1>2, SaysIs
<1>4. Waiting(q) \in [1..Len(q) -> Byte]
  BY <1>3 DEF Waiting
<1>5. Waiting(q) \in Seq(Byte) /\ Len(Waiting(q)) = Len(q)
  BY <1>1, <1>4
<1>6. \A k \in 1..Len(q) : Waiting(q)[k] = Says(q[k].cmd, q[k].session)
  BY DEF Waiting
<1> QED
  BY <1>1, <1>2, <1>5, <1>6

Thins(m) ==
  /\ \A c \in Cmd, s \in Session : Has(m, c, s)' => Has(m, c, s)
  /\ \A c, d \in Cmd, s, t \in Session : Ahead(m, c, s, d, t)' => Ahead(m, c, s, d, t)
  /\ \A c \in Cmd, s \in Session, i \in Id : Meant(m, c, s, i)' => Meant(m, c, s, i)

LEMMA ThinsAll ==
  ASSUME \A m \in Node : Thins(m)
  PROVE  Fades
BY DEF Thins, Fades

LEMMA ThinsWithin ==
  ASSUME NEW m \in Node, Within(Line(m)', Line(m)),
         \A c \in Cmd, s \in Session, i \in Id : Meant(m, c, s, i)' => Meant(m, c, s, i)
  PROVE  Thins(m)
<1>1. \A c \in Cmd, s \in Session : Has(m, c, s)' => Has(m, c, s)
  BY SaysIs DEF Within, Has
<1>2. \A c, d \in Cmd, s, t \in Session : Ahead(m, c, s, d, t)' => Ahead(m, c, s, d, t)
  BY SaysIs DEF Within, Ahead
<1> QED
  BY <1>1, <1>2 DEF Thins

(* Nothing happens, or bytes only move on.                                  *)
LEMMA LineSame ==
  ASSUME NEW m \in Node, OnWay(m)' = OnWay(m), queue'[m] = queue[m]
  PROVE  Thins(m)
<1>1. Line(m)' = Line(m)
  BY DEF Line
<1> QED
  BY <1>1 DEF Thins, Has, Ahead, Meant

(* The first bytes are taken.                                               *)
LEMMA FrontTaken ==
  ASSUME NEW m \in Node, NEW f \in Seq(Byte), OnWay(m)' \in Seq(Byte),
         OnWay(m) = f \o OnWay(m)', queue'[m] = queue[m], queue[m] \in Seq(Commands)
  PROVE  /\ Thins(m)
         /\ \A x \in CmdBytes : Carries(f, x) =>
              /\ Carries(Line(m), x)
              /\ \A y \in CmdBytes : Carries(Line(m)', y) => Before(Line(m), x, y)
         /\ \A x, i : Tells(f, x, i) => Tells(OnWay(m), x, i)
<1> DEFINE a == OnWay(m)'
           w == Waiting(queue[m])
<1>1. w \in Seq(Byte) /\ a \in Seq(Byte)
  BY WaitingIs
<1>2. Line(m)' = a \o w
  BY DEF Line
<1>3. Line(m) = (f \o a) \o w
  BY DEF Line
<1> HIDE DEF a, w
<1>4. a \o w \in Seq(Byte) /\ (f \o a) \o w = f \o (a \o w)
  BY <1>1, ConcatAssociative, ConcatProperties
<1> DEFINE l == a \o w
<1> HIDE DEF l
<1>5. Line(m)' = l /\ Line(m) = f \o l /\ l \in Seq(Byte)
  BY <1>2, <1>3, <1>4 DEF l
<1>6. \A x : Carries(f \o l, x) <=> Carries(f, x) \/ Carries(l, x)
  BY <1>5, CarriesConcat
<1>7. \A x, y : Before(f \o l, x, y) <=>
                  Before(f, x, y) \/ Before(l, x, y) \/ (Carries(f, x) /\ Carries(l, y))
  BY <1>5, BeforeConcat
<1>8. Within(l, f \o l)
  BY <1>6, <1>7 DEF Within
<1>9. \A x, i : Tells(f, x, i) \/ Tells(a, x, i) => Tells(f \o a, x, i)
  BY <1>1, TellsConcat
<1>10. OnWay(m) = f \o a /\ OnWay(m)' = a
  BY DEF a
<1>11. \A c \in Cmd, s \in Session, i \in Id : Meant(m, c, s, i)' => Meant(m, c, s, i)
  BY <1>9, <1>10 DEF Meant
<1>12. Thins(m)
  BY <1>5, <1>8, <1>11, ThinsWithin
<1> QED
  BY <1>5, <1>6, <1>7, <1>9, <1>10, <1>12

(* The last bytes are lost, and what has not been sent, too.                *)
LEMMA RestLost ==
  ASSUME NEW m \in Node, NEW f \in Seq(Byte), OnWay(m)' \in Seq(Byte),
         OnWay(m) = OnWay(m)' \o f, queue'[m] = <<>>, queue[m] \in Seq(Commands)
  PROVE  Thins(m)
<1> DEFINE a == OnWay(m)'
           w == Waiting(queue[m])
           e == Waiting(<<>>)
<1>1. w \in Seq(Byte) /\ a \in Seq(Byte)
  BY WaitingIs
<1>2. <<>> \in Seq(Commands) /\ Len(<<>>) = 0
  BY EmptySeq
<1>3. e \in Seq(Byte) /\ Len(e) = 0
  BY <1>2, WaitingIs
<1>4. Line(m)' = a \o e /\ Line(m) = (a \o f) \o w
  BY DEF Line
<1>5. OnWay(m) = a \o f /\ OnWay(m)' = a
  BY DEF a
<1> HIDE DEF a, w, e
<1>6. \A x : ~Carries(e, x)
  BY <1>3 DEF Carries
<1>7. a \o f \in Seq(Byte)
  BY <1>1, ConcatProperties
<1>8. \A x : /\ Carries(a \o e, x) <=> Carries(a, x) \/ Carries(e, x)
             /\ Carries(a \o f, x) <=> Carries(a, x) \/ Carries(f, x)
             /\ Carries((a \o f) \o w, x) <=> Carries(a \o f, x) \/ Carries(w, x)
  BY <1>1, <1>3, <1>7, CarriesConcat
<1>9. Within(a \o e, (a \o f) \o w)
  <2>1. ASSUME NEW x, NEW y, Before(a \o e, x, y)
        PROVE  Before((a \o f) \o w, x, y)
    <3>1. Before(a, x, y) \/ Before(e, x, y) \/ (Carries(a, x) /\ Carries(e, y))
      BY <1>1, <1>3, <2>1, BeforeConcat
    <3>2. ~Before(e, x, y)
      BY <1>3 DEF Before
    <3>3. Before(a \o f, x, y)
      BY <1>1, <1>6, <3>1, <3>2, BeforeConcat
    <3> QED
      BY <1>1, <1>7, <3>3, BeforeConcat
  <2> QED
    BY <1>6, <1>8, <2>1 DEF Within
<1>10. \A x, i : Tells(a, x, i) => Tells(a \o f, x, i)
  BY <1>1, TellsConcat
<1>11. \A c \in Cmd, s \in Session, i \in Id : Meant(m, c, s, i)' => Meant(m, c, s, i)
  BY <1>2, <1>5, <1>10 DEF Meant
<1> QED
  BY <1>4, <1>9, <1>11, ThinsWithin
(* Bytes are put behind the others that say nothing.                        *)
LEMMA SilencePut ==
  ASSUME NEW m \in Node, NEW f \in Seq(Byte), OnWay(m) \in Seq(Byte),
         OnWay(m)' = OnWay(m) \o f, queue'[m] = queue[m], queue[m] \in Seq(Commands),
         \A x \in CmdBytes : ~Carries(f, x), \A i : f[1] # Arg(i)
  PROVE  Thins(m)
<1> DEFINE a == OnWay(m)
           w == Waiting(queue[m])
<1>1. w \in Seq(Byte) /\ a \in Seq(Byte)
  BY WaitingIs
<1>2. Line(m)' = (a \o f) \o w /\ Line(m) = a \o w
  BY DEF Line
<1>3. OnWay(m)' = a \o f /\ OnWay(m) = a
  OBVIOUS
<1> HIDE DEF a, w
<1>4. <<>> \in Seq(Byte) /\ a \o <<>> = a
  BY <1>1, ConcatEmptySeq, EmptySeq
<1>5. Within(f, <<>>)
  BY WithinEmpty
<1>6. Within(a \o f, a \o <<>>)
  BY <1>1, <1>4, <1>5, WithinSame, WithinConcat
<1>7. a \o f \in Seq(Byte) /\ Within(a \o f, a)
  BY <1>1, <1>4, <1>6, ConcatProperties
<1>8. Within((a \o f) \o w, a \o w)
  BY <1>1, <1>7, WithinSame, WithinConcat
<1>9. ASSUME NEW c \in Cmd, NEW s \in Session, NEW i \in Id, Tells(a \o f, Says(c, s), i)
      PROVE  Tells(a, Says(c, s), i)
  <2>1. Says(c, s) \in CmdBytes
    BY SaysIs
  <2>2. ~Tells(f, Says(c, s), i)
    BY <2>1 DEF Tells, Carries
  <2> QED
    BY <1>1, <1>9, <2>2, TellsConcat
<1>10. \A c \in Cmd, s \in Session, i \in Id : Meant(m, c, s, i)' => Meant(m, c, s, i)
  BY <1>3, <1>9 DEF Meant
<1> QED
  BY <1>2, <1>8, <1>10, ThinsWithin

LEMMA HeadWaits ==
  ASSUME NEW q \in Seq(Commands), q # <<>>
  PROVE  /\ Head(q) \in Commands /\ Head(q) = q[1] /\ Tail(q) \in Seq(Commands) /\ 1 \in 1..Len(q)
         /\ \A k \in 1..Len(Tail(q)) : k + 1 \in 1..Len(q) /\ Tail(q)[k] = q[k + 1]
         /\ Within(<<Says(Head(q).cmd, Head(q).session)>> \o Waiting(Tail(q)), Waiting(q))
         /\ Within(Waiting(Tail(q)), Waiting(q))
<1> DEFINE h == Says(Head(q).cmd, Head(q).session)
           w == Waiting(q)
           v == Waiting(Tail(q))
<1>1. /\ Head(q) \in Commands /\ Tail(q) \in Seq(Commands) /\ Len(Tail(q)) = Len(q) - 1
      /\ \A k \in 1..Len(Tail(q)) : Tail(q)[k] = q[k + 1]
  BY HeadTailProperties
<1>2. Len(q) \in Nat /\ Len(q) > 0 /\ Head(q) = q[1]
  BY EmptySeq
<1>3. /\ w \in Seq(Byte) /\ v \in Seq(Byte) /\ Len(w) = Len(q) /\ Len(v) = Len(Tail(q))
      /\ \A k \in 1..Len(q) : w[k] = Says(q[k].cmd, q[k].session)
      /\ \A k \in 1..Len(Tail(q)) : v[k] = Says(Tail(q)[k].cmd, Tail(q)[k].session)
  <2>1. /\ w \in Seq(Byte) /\ Len(w) = Len(q)
        /\ \A k \in 1..Len(q) : w[k] = Says(q[k].cmd, q[k].session)
    BY WaitingIs
  <2>2. /\ v \in Seq(Byte) /\ Len(v) = Len(Tail(q))
        /\ \A k \in 1..Len(Tail(q)) : v[k] = Says(Tail(q)[k].cmd, Tail(q)[k].session)
    BY <1>1, WaitingIs
  <2> QED
    BY <2>1, <2>2
<1>4. h \in Byte
  <2>1. Head(q).cmd \in Cmd /\ Head(q).session \in Session
    BY <1>1 DEF Commands
  <2> QED
    BY <2>1, SaysIs
<1>5. \A k \in 1..Len(v) : k \in Nat /\ k + 1 \in 1..Len(w) /\ v[k] = w[k + 1]
  BY <1>1, <1>2, <1>3
<1>6. 1 \in 1..Len(w) /\ w[1] = h
  BY <1>2, <1>3
<1> HIDE DEF h, w, v
<1>7. <<h>> \in Seq(Byte) /\ Len(<<h>>) = 1 /\ <<h>>[1] = h
  BY <1>4
<1>8. ASSUME NEW x, Carries(v, x)
      PROVE  \E k \in 1..Len(w) : k > 1 /\ w[k] = x
  <2>1. PICK k \in 1..Len(v) : v[k] = x
    BY <1>8 DEF Carries
  <2>2. k + 1 \in 1..Len(w) /\ k + 1 > 1 /\ w[k + 1] = x
    BY <1>5, <2>1
  <2> QED
    BY <2>2
<1>9. ASSUME NEW x, NEW y, Before(v, x, y)
      PROVE  Before(w, x, y)
  <2>1. PICK j \in 1..Len(v), k \in 1..Len(v) : j < k /\ v[j] = x /\ v[k] = y
    BY <1>9 DEF Before
  <2>2. /\ j + 1 \in 1..Len(w) /\ k + 1 \in 1..Len(w) /\ j + 1 < k + 1
        /\ w[j + 1] = x /\ w[k + 1] = y
    BY <1>5, <2>1
  <2> QED
    BY <2>2 DEF Before
<1>10. Within(v, w)
  BY <1>8, <1>9 DEF Within, Carries
<1>11. \A x : Carries(<<h>>, x) <=> x = h
  BY <1>7 DEF Carries
<1>12. \A x, y : ~Before(<<h>>, x, y)
  BY <1>7 DEF Before
<1>13. ASSUME NEW x, Carries(<<h>> \o v, x)
       PROVE  Carries(w, x)
  <2>1. Carries(<<h>>, x) \/ Carries(v, x)
    BY <1>3, <1>7, <1>13, CarriesConcat
  <2> QED
    BY <1>6, <1>8, <1>11, <2>1 DEF Carries
<1>14. ASSUME NEW x, NEW y, Before(<<h>> \o v, x, y)
       PROVE  Before(w, x, y)
  <2>1. Before(<<h>>, x, y) \/ Before(v, x, y) \/ (Carries(<<h>>, x) /\ Carries(v, y))
    BY <1>3, <1>7, <1>14, BeforeConcat
  <2>2. CASE Carries(<<h>>, x) /\ Carries(v, y)
    <3>1. PICK k \in 1..Len(w) : k > 1 /\ w[k] = y
      BY <1>8, <2>2
    <3>2. w[1] = x
      BY <1>6, <1>11, <2>2
    <3> QED
      BY <1>6, <3>1, <3>2 DEF Before
  <2> QED
    BY <1>9, <1>12, <2>1, <2>2
<1>15. Within(<<h>> \o v, w)
  BY <1>13, <1>14 DEF Within
<1>16. \A k \in 1..Len(Tail(q)) : k + 1 \in 1..Len(q) /\ Tail(q)[k] = q[k + 1]
  BY <1>1, <1>2
<1>17. Within(<<Says(Head(q).cmd, Head(q).session)>> \o Waiting(Tail(q)), Waiting(q))
  BY <1>15 DEF h, v, w
<1>18. Within(Waiting(Tail(q)), Waiting(q))
  BY <1>10 DEF v, w
<1> QED
  BY <1>1, <1>2, <1>16, <1>17, <1>18

(* A command has been lost.                                                 *)
LEMMA HeadLost ==
  ASSUME NEW m \in Node, OnWay(m) \in Seq(Byte), OnWay(m)' = OnWay(m),
         queue[m] \in Seq(Commands), queue[m] # <<>>, queue'[m] = Tail(queue[m])
  PROVE  Thins(m)
<1> DEFINE q == queue[m]
<1>1. /\ Tail(q) \in Seq(Commands) /\ Within(Waiting(Tail(q)), Waiting(q))
      /\ \A k \in 1..Len(Tail(q)) : k + 1 \in 1..Len(q) /\ Tail(q)[k] = q[k + 1]
  BY HeadWaits
<1>2. Waiting(q) \in Seq(Byte) /\ Waiting(Tail(q)) \in Seq(Byte)
  BY <1>1, WaitingIs
<1>3. Within(OnWay(m) \o Waiting(Tail(q)), OnWay(m) \o Waiting(q))
  BY <1>1, <1>2, WithinSame, WithinConcat
<1>4. Within(Line(m)', Line(m))
  BY <1>3 DEF Line
<1>5. \A c \in Cmd, s \in Session, i \in Id : Meant(m, c, s, i)' => Meant(m, c, s, i)
  BY <1>1 DEF Meant
<1> QED
  BY <1>4, <1>5, ThinsWithin
LEMMA Kinds ==
  /\ \A x \in CmdBytes : x[1] = "cmd"
  /\ END[1] = "end" /\ (\A i : IdByte(i)[1] = "id" /\ Arg(i)[1] = "arg")
  /\ \A x \in Data : x[1] = "data"
  /\ \A i : \A j : Arg(i) = Arg(j) => i = j
<1>1. \A x \in CmdBytes : x[1] = "cmd"
  BY DEF CmdBytes
<1>2. END[1] = "end" /\ \A i : IdByte(i)[1] = "id" /\ Arg(i)[1] = "arg"
  BY DEF END, IdByte, Arg
<1>3. \A x \in Data : x[1] = "data"
  BY DEF Data
<1>4. \A i : \A j : Arg(i) = Arg(j) => i = j
  BY DEF Arg
<1> QED
  BY <1>1, <1>2, <1>3, <1>4

LEMMA FrameSays ==
  ASSUME NEW h \in Commands
  PROVE  LET F == CommandFrame(h)
         IN  /\ F \in Seq(Byte) /\ Len(F) = 5
             /\ \A x \in CmdBytes : Carries(F, x) => x = Says(h.cmd, h.session)
             /\ \A x, y \in CmdBytes : ~Before(F, x, y)
             /\ \A d \in Cmd, t \in Session, i \in Id : Tells(F, Says(d, t), i) =>
                  d = h.cmd /\ t = h.session /\ i = h.id
             /\ \A i : F[1] # Arg(i)
<1> DEFINE F == CommandFrame(h)
<1>1. F \in Seq(Byte) /\ Len(F) = 5
  BY CommandFrameParses DEF CommandSize
<1>2. /\ F[1] = END /\ F[2] = IdByte(0) /\ F[3] = Says(h.cmd, h.session) /\ F[4] = Arg(h.id)
      /\ F[5] = END
  BY DEF CommandFrame, Says, Arg
<1>3. h.cmd \in Cmd /\ h.session \in Session /\ h.id \in Id
  BY DEF Commands
<1> HIDE DEF F
<1>4. ASSUME NEW k \in 1..Len(F), NEW x \in CmdBytes, F[k] = x
      PROVE  k = 3 /\ x = Says(h.cmd, h.session)
  <2>1. x[1] = "cmd" /\ END[1] = "end" /\ IdByte(0)[1] = "id" /\ Arg(h.id)[1] = "arg"
    BY Kinds
  <2>2. k \in 1..5
    BY <1>1
  <2>3. k = 1 \/ k = 2 \/ k = 3 \/ k = 4 \/ k = 5
    BY <2>2
  <2> QED
    BY <1>2, <1>4, <2>1, <2>3
<1>5. \A x \in CmdBytes : Carries(F, x) => x = Says(h.cmd, h.session)
  BY <1>4 DEF Carries
<1>6. ASSUME NEW x \in CmdBytes, NEW y \in CmdBytes, Before(F, x, y)
      PROVE  FALSE
  <2>1. PICK j \in 1..Len(F), k \in 1..Len(F) : j < k /\ F[j] = x /\ F[k] = y
    BY <1>6 DEF Before
  <2>2. j = 3 /\ k = 3
    BY <1>4, <2>1
  <2> QED
    BY <2>1, <2>2
<1>7. ASSUME NEW d \in Cmd, NEW t \in Session, NEW i \in Id, Tells(F, Says(d, t), i)
      PROVE  d = h.cmd /\ t = h.session /\ i = h.id
  <2>1. PICK k \in 1..Len(F) : k < Len(F) /\ F[k] = Says(d, t) /\ F[k + 1] = Arg(i)
    BY <1>7 DEF Tells
  <2>2. Says(d, t) \in CmdBytes
    BY SaysIs
  <2>3. k = 3 /\ Says(d, t) = Says(h.cmd, h.session)
    BY <1>4, <2>1, <2>2
  <2>4. d = h.cmd /\ t = h.session
    BY <1>3, <2>3, SaysIs
  <2>5. Arg(i) = Arg(h.id)
    BY <1>2, <2>1, <2>3
  <2> QED
    BY <2>4, <2>5, Kinds
<1>8. \A i : F[1] # Arg(i)
  BY <1>2, Kinds
<1> QED
  BY <1>1, <1>5, <1>6, <1>7, <1>8 DEF F

(* A command goes from the queue into the tunnel.                           *)
LEMMA HeadSent ==
  ASSUME NEW m \in Node, OnWay(m) \in Seq(Byte), queue[m] \in Seq(Commands), queue[m] # <<>>,
         OnWay(m)' = OnWay(m) \o CommandFrame(Head(queue[m])), queue'[m] = Tail(queue[m])
  PROVE  Thins(m)
<1> DEFINE q == queue[m]
           h == Head(q)
           F == CommandFrame(h)
           b == <<Says(h.cmd, h.session)>>
           a == OnWay(m)
           v == Waiting(Tail(q))
           w == Waiting(q)
<1>1. /\ h \in Commands /\ h = q[1] /\ Tail(q) \in Seq(Commands) /\ 1 \in 1..Len(q)
      /\ \A k \in 1..Len(Tail(q)) : k + 1 \in 1..Len(q) /\ Tail(q)[k] = q[k + 1]
      /\ Within(b \o v, w)
  BY HeadWaits
<1>2. Line(m)' = (a \o F) \o v /\ Line(m) = a \o w /\ OnWay(m)' = a \o F /\ a \in Seq(Byte)
  BY DEF Line
<1>3. w \in Seq(Byte) /\ v \in Seq(Byte)
  BY <1>1, WaitingIs
<1>4. h.cmd \in Cmd /\ h.session \in Session /\ h.id \in Id
  BY <1>1 DEF Commands
<1>5. b \in Seq(Byte) /\ \A x : Carries(b, x) <=> x = Says(h.cmd, h.session)
  <2>1. Says(h.cmd, h.session) \in Byte
    BY <1>4, SaysIs
  <2> HIDE DEF h
  <2>2. b \in Seq(Byte) /\ Len(b) = 1 /\ b[1] = Says(h.cmd, h.session)
    BY <2>1
  <2> HIDE DEF b
  <2> QED
    BY <2>2 DEF Carries
<1> HIDE DEF h, b
<1>6. /\ F \in Seq(Byte) /\ Len(F) = 5
      /\ \A x \in CmdBytes : Carries(F, x) => x = Says(h.cmd, h.session)
      /\ \A x, y \in CmdBytes : ~Before(F, x, y)
      /\ \A d \in Cmd, t \in Session, i \in Id : Tells(F, Says(d, t), i) =>
           d = h.cmd /\ t = h.session /\ i = h.id
      /\ \A i : F[1] # Arg(i)
  BY <1>1, FrameSays
<1> HIDE DEF F
<1>7. Within(F, b)
  BY <1>5, <1>6 DEF Within
<1> HIDE DEF a, v, w
<1>8. (a \o F) \o v = a \o (F \o v)
  <2>1. a \in Seq(Byte) /\ F \in Seq(Byte) /\ v \in Seq(Byte)
    BY <1>2, <1>3, <1>6
  <2> QED
    BY ONLY <2>1, ConcatAssociative
<1>9. F \o v \in Seq(Byte) /\ b \o v \in Seq(Byte) /\ Within(F \o v, b \o v)
  <2>1. Within(F \o v, b \o v)
    BY <1>3, <1>5, <1>6, <1>7, WithinSame, WithinConcat
  <2>2. F \o v \in Seq(Byte) /\ b \o v \in Seq(Byte)
    BY <1>3, <1>5, <1>6, ConcatProperties
  <2> QED
    BY <2>1, <2>2
<1>10. Within(F \o v, w)
  BY <1>1, <1>9 DEF Within
<1>11. Within(a \o (F \o v), a \o w)
  BY <1>3, <1>2, <1>9, <1>10, WithinSame, WithinConcat
<1>12. ASSUME NEW c \in Cmd, NEW s \in Session, NEW i \in Id, Meant(m, c, s, i)'
       PROVE  Meant(m, c, s, i)
  <2>1. CASE Tells(a \o F, Says(c, s), i)
    <3>1. \/ Tells(a, Says(c, s), i) \/ Tells(F, Says(c, s), i)
          \/ Len(a) > 0 /\ Len(F) > 0 /\ a[Len(a)] = Says(c, s) /\ F[1] = Arg(i)
      BY <1>6, <1>2, <2>1, TellsConcat
    <3>2. CASE Tells(a, Says(c, s), i)
      BY <3>2 DEF Meant, a
    <3>3. CASE Tells(F, Says(c, s), i)
      <4>1. c = h.cmd /\ s = h.session /\ i = h.id
        BY <1>6, <3>3
      <4>2. h = [cmd |-> c, id |-> i, session |-> s]
        BY <1>1, <4>1 DEF Commands
      <4> QED
        BY <1>1, <4>2 DEF Meant
    <3> QED
      BY <1>6, <3>1, <3>2, <3>3
  <2>2. CASE \E k \in 1..Len(Tail(q)) : Tail(q)[k] = [cmd |-> c, id |-> i, session |-> s]
    BY <1>1, <2>2 DEF Meant
  <2> QED
    BY <1>2, <1>12, <2>1, <2>2 DEF Meant
<1> QED
  BY <1>2, <1>8, <1>11, <1>12, ThinsWithin
(* One more command waits.                                                  *)
Gains(m, h) ==
  /\ \A c \in Cmd, s \in Session :
       Has(m, c, s)' => Has(m, c, s) \/ (c = h.cmd /\ s = h.session)
  /\ \A c, d \in Cmd, s, t \in Session :
       Ahead(m, c, s, d, t)' =>
         Ahead(m, c, s, d, t) \/ (d = h.cmd /\ t = h.session /\ Has(m, c, s))
  /\ \A c \in Cmd, s \in Session, i \in Id :
       Meant(m, c, s, i)' => Meant(m, c, s, i) \/ (c = h.cmd /\ s = h.session /\ i = h.id)

LEMMA LastWaits ==
  ASSUME NEW m \in Node, NEW h \in Commands, OnWay(m) \in Seq(Byte), OnWay(m)' = OnWay(m),
         queue[m] \in Seq(Commands), queue'[m] = Append(queue[m], h)
  PROVE  Gains(m, h)
<1> DEFINE q == queue[m]
           p == Append(q, h)
           b == Says(h.cmd, h.session)
           a == OnWay(m)
           v == Waiting(p)
           w == Waiting(q)
<1>1. /\ p \in Seq(Commands) /\ Len(p) = Len(q) + 1 /\ Len(q) \in Nat
      /\ (\A k \in 1..Len(q) : p[k] = q[k]) /\ p[Len(q) + 1] = h
  OBVIOUS
<1>2. Line(m)' = a \o v /\ Line(m) = a \o w /\ OnWay(m)' = a /\ a \in Seq(Byte)
  BY DEF Line
<1>3. queue'[m] = p
  OBVIOUS
<1> HIDE DEF p
<1>4. /\ v \in Seq(Byte) /\ Len(v) = Len(p)
      /\ \A k \in 1..Len(p) : v[k] = Says(p[k].cmd, p[k].session)
  BY <1>1, WaitingIs
<1>5. /\ w \in Seq(Byte) /\ Len(w) = Len(q)
      /\ \A k \in 1..Len(q) : w[k] = Says(q[k].cmd, q[k].session)
  BY <1>1, WaitingIs
<1>6. /\ Len(v) = Len(w) + 1 /\ Len(w) \in Nat
      /\ (\A k \in 1..Len(w) : v[k] = w[k]) /\ v[Len(w) + 1] = b
  <2> HIDE DEF v, w
  <2>1. Len(v) = Len(w) + 1 /\ Len(w) \in Nat /\ Len(w) = Len(q) /\ Len(q) + 1 \in 1..Len(p)
    BY <1>1, <1>4, <1>5
  <2>2. ASSUME NEW k \in 1..Len(w)
        PROVE  v[k] = w[k]
    <3>1. k \in 1..Len(q) /\ k \in 1..Len(p)
      BY <1>1, <2>1
    <3>2. v[k] = Says(p[k].cmd, p[k].session) /\ w[k] = Says(q[k].cmd, q[k].session)
      BY <1>4, <1>5, <3>1
    <3> QED
      BY <1>1, <3>1, <3>2
  <2>3. v[Len(q) + 1] = b
    BY <1>1, <1>4, <2>1
  <2> QED
    BY <2>1, <2>2, <2>3
<1> HIDE DEF a, b, v, w
<1>7. \A x : Carries(v, x) => Carries(w, x) \/ x = b
  <2> SUFFICES ASSUME NEW x, Carries(v, x)
               PROVE  Carries(w, x) \/ x = b
    OBVIOUS
  <2>1. PICK k \in 1..Len(v) : v[k] = x
    BY DEF Carries
  <2>2. CASE k = Len(w) + 1
    BY <1>6, <2>1, <2>2
  <2>3. CASE k # Len(w) + 1
    <3>1. k \in 1..Len(w)
      BY <1>6, <2>3
    <3> QED
      BY <1>6, <2>1, <3>1 DEF Carries
  <2> QED
    BY <2>2, <2>3
<1>8. \A x, y : Before(v, x, y) => Before(w, x, y) \/ (y = b /\ Carries(w, x))
  <2> SUFFICES ASSUME NEW x, NEW y, Before(v, x, y)
               PROVE  Before(w, x, y) \/ (y = b /\ Carries(w, x))
    OBVIOUS
  <2>1. PICK j \in 1..Len(v), k \in 1..Len(v) : j < k /\ v[j] = x /\ v[k] = y
    BY DEF Before
  <2>2. j \in 1..Len(w) /\ w[j] = x
    BY <1>6, <2>1
  <2>3. CASE k = Len(w) + 1
    BY <1>6, <2>1, <2>2, <2>3 DEF Carries
  <2>4. CASE k # Len(w) + 1
    <3>1. k \in 1..Len(w) /\ w[k] = y
      BY <1>6, <2>1, <2>4
    <3> QED
      BY <2>1, <2>2, <3>1 DEF Before
  <2> QED
    BY <2>3, <2>4
<1>9. \A x : /\ Carries(a \o v, x) <=> Carries(a, x) \/ Carries(v, x)
             /\ Carries(a \o w, x) <=> Carries(a, x) \/ Carries(w, x)
  BY <1>2, <1>4, <1>5, CarriesConcat
<1>10. \A x, y :
         /\ Before(a \o v, x, y) <=>
              Before(a, x, y) \/ Before(v, x, y) \/ (Carries(a, x) /\ Carries(v, y))
         /\ Before(a \o w, x, y) <=>
              Before(a, x, y) \/ Before(w, x, y) \/ (Carries(a, x) /\ Carries(w, y))
  BY <1>2, <1>4, <1>5, BeforeConcat
<1>11. \A x : Carries(a \o v, x) => Carries(a \o w, x) \/ x = b
  BY <1>7, <1>9
<1>12. \A x, y : Before(a \o v, x, y) => Before(a \o w, x, y) \/ (y = b /\ Carries(a \o w, x))
  BY <1>7, <1>8, <1>9, <1>10
<1>13. h.cmd \in Cmd /\ h.session \in Session
  BY DEF Commands
<1>14. \A c \in Cmd, s \in Session : Says(c, s) = b => c = h.cmd /\ s = h.session
  BY <1>13, SaysIs DEF b
<1>15. \A c \in Cmd, s \in Session :
         Has(m, c, s)' => Has(m, c, s) \/ (c = h.cmd /\ s = h.session)
  BY <1>2, <1>11, <1>14 DEF Has
<1>16. \A c, d \in Cmd, s, t \in Session :
         Ahead(m, c, s, d, t)' =>
           Ahead(m, c, s, d, t) \/ (d = h.cmd /\ t = h.session /\ Has(m, c, s))
  BY <1>2, <1>12, <1>14 DEF Has, Ahead
<1>17. ASSUME NEW c \in Cmd, NEW s \in Session, NEW i \in Id, Meant(m, c, s, i)'
       PROVE  Meant(m, c, s, i) \/ (c = h.cmd /\ s = h.session /\ i = h.id)
  <2>1. CASE Tells(a, Says(c, s), i)
    BY <2>1 DEF Meant, a
  <2>2. CASE \E k \in 1..Len(p) : p[k] = [cmd |-> c, id |-> i, session |-> s]
    <3>1. PICK k \in 1..Len(p) : p[k] = [cmd |-> c, id |-> i, session |-> s]
      BY <2>2
    <3>2. CASE k = Len(q) + 1
      BY <1>1, <3>1, <3>2
    <3>3. CASE k # Len(q) + 1
      <4>1. k \in 1..Len(q)
        BY <1>1, <3>3
      <4> QED
        BY <1>1, <3>1, <4>1 DEF Meant
    <3> QED
      BY <3>2, <3>3
  <2> QED
    BY <1>2, <1>3, <1>17, <2>1, <2>2 DEF Meant
<1> QED
  BY <1>15, <1>16, <1>17 DEF Gains

LEMMA LineParts ==
  ASSUME MemoryInv, NEW m \in Node
  PROVE  /\ TunnelIn(Other(m)) \in Seq(Byte) /\ wire[m] \in Seq(Byte) /\ tun[m].outBuf \in Seq(Byte)
         /\ OnWay(m) \in Seq(Byte) /\ queue[m] \in Seq(Commands)
         /\ Waiting(queue[m]) \in Seq(Byte)
<1>1. Other(m) \in Node
  BY Nodes
<1>2. TunnelIn(Other(m)) \in Seq(Byte) /\ tun[m].outBuf \in Seq(Byte)
  BY <1>1, TunnelFields DEF TunnelIn
<1>3. wire[m] \in Seq(Byte) /\ queue[m] \in Seq(Commands)
  BY DEF MemoryInv, Wires, Queues
<1>4. TunnelIn(Other(m)) \o wire[m] \in Seq(Byte)
  BY <1>2, <1>3, ConcatProperties
<1>5. OnWay(m) \in Seq(Byte)
  BY <1>2, <1>3, <1>4, ConcatProperties DEF OnWay
<1>6. Waiting(queue[m]) \in Seq(Byte)
  BY <1>3, WaitingIs
<1> QED
  BY <1>2, <1>3, <1>5, <1>6

LEMMA MeantIsThere ==
  ASSUME MemoryInv, NEW m \in Node, NEW c \in Cmd, NEW s \in Session, NEW i \in Id,
         Meant(m, c, s, i)
  PROVE  Has(m, c, s)
<1>1. /\ OnWay(m) \in Seq(Byte) /\ queue[m] \in Seq(Commands)
      /\ Waiting(queue[m]) \in Seq(Byte)
  BY LineParts
<1>2. Carries(Line(m), Says(c, s)) <=>
        Carries(OnWay(m), Says(c, s)) \/ Carries(Waiting(queue[m]), Says(c, s))
  BY <1>1, CarriesConcat DEF Line
<1>3. CASE Tells(OnWay(m), Says(c, s), i)
  BY <1>2, <1>3 DEF Has, Tells, Carries
<1>4. CASE \E k \in 1..Len(queue[m]) : queue[m][k] = [cmd |-> c, id |-> i, session |-> s]
  <2>1. PICK k \in 1..Len(queue[m]) : queue[m][k] = [cmd |-> c, id |-> i, session |-> s]
    BY <1>4
  <2>2. Waiting(queue[m])[k] = Says(c, s)
    BY <2>1 DEF Waiting
  <2>3. Len(Waiting(queue[m])) = Len(queue[m])
    BY <1>1, WaitingIs
  <2> QED
    BY <1>2, <2>1, <2>2, <2>3 DEF Has, Carries
<1> QED
  BY <1>3, <1>4 DEF Meant
(* For the provers to take as one fact.                                     *)
Regroups(x, y, z) == (x \o y) \o z = x \o (y \o z)

LEMMA BytesRegroup == \A x, y, z \in Seq(Byte) : Regroups(x, y, z)
<1> SUFFICES ASSUME NEW x \in Seq(Byte), NEW y \in Seq(Byte), NEW z \in Seq(Byte)
             PROVE  (x \o y) \o z = x \o (y \o z)
  BY DEF Regroups
<1> QED
  BY ConcatAssociative

LEMMA NoneMoved ==
  ASSUME \A m \in Node : /\ tun'[m].inBuf = tun[m].inBuf /\ tun'[m].outBuf = tun[m].outBuf
                         /\ wire'[m] = wire[m] /\ queue'[m] = queue[m]
  PROVE  Fades
<1> SUFFICES ASSUME NEW m \in Node
             PROVE  Thins(m)
  BY ThinsAll
<1>1. Other(m) \in Node
  BY Nodes
<1>2. OnWay(m)' = OnWay(m)
  BY <1>1 DEF OnWay, TunnelIn
<1> QED
  BY <1>2, LineSame

LEMMA InputTaken ==
  ASSUME MemoryInv, NEW n \in Node, NEW f \in Seq(Byte), NEW t \in Seq(Byte),
         TunnelIn(n) = f \o t, tun' = [tun EXCEPT ![n].inBuf = t], wire' = wire
  PROVE  /\ OnWay(Other(n)) = f \o OnWay(Other(n))' /\ OnWay(Other(n))' \in Seq(Byte)
         /\ OnWay(n)' = OnWay(n)
<1> DEFINE m == Other(n)
<1>1. m \in Node /\ m # n /\ Other(m) = n
  BY Nodes
<1>2. /\ tun'[n].inBuf = t /\ tun'[n].outBuf = tun[n].outBuf /\ tun'[m] = tun[m]
  <2>1. tun[n] \in Record({0}, Byte, Byte)
    BY TunnelFields
  <2> DEFINE d == [tun[n] EXCEPT !.inBuf = t]
  <2>2. d.inBuf = t /\ d.outBuf = tun[n].outBuf
    BY <2>1 DEF Record
  <2>3. tun' = [tun EXCEPT ![n] = d]
    BY DEF MemoryInv
  <2> HIDE DEF d
  <2> QED
    BY <1>1, <2>2, <2>3 DEF MemoryInv
<1>3. wire[m] \in Seq(Byte) /\ tun[m].outBuf \in Seq(Byte)
  BY <1>1, LineParts
<1> HIDE DEF m
<1>4. OnWay(m) = ((f \o t) \o wire[m]) \o tun[m].outBuf
  BY <1>1 DEF OnWay
<1>5. OnWay(m)' = (t \o wire[m]) \o tun[m].outBuf
  BY <1>1, <1>2 DEF OnWay, TunnelIn
<1>6. OnWay(n)' = OnWay(n)
  BY <1>2 DEF OnWay, TunnelIn, m
<1>7. (f \o t) \o wire[m] = f \o (t \o wire[m])
  <2>1. f \in Seq(Byte) /\ t \in Seq(Byte) /\ wire[m] \in Seq(Byte)
    BY <1>3
  <2>2. Regroups(f, t, wire[m])
    BY <2>1, BytesRegroup
  <2> QED
    BY <2>2 DEF Regroups
<1>8. t \o wire[m] \in Seq(Byte)
  BY <1>3, ConcatProperties
<1>9. (f \o (t \o wire[m])) \o tun[m].outBuf = f \o ((t \o wire[m]) \o tun[m].outBuf)
  <2> DEFINE g == t \o wire[m]
  <2>1. f \in Seq(Byte) /\ g \in Seq(Byte) /\ tun[m].outBuf \in Seq(Byte)
    BY <1>3, <1>8
  <2> HIDE DEF g
  <2>2. Regroups(f, g, tun[m].outBuf)
    BY <2>1, BytesRegroup
  <2> QED
    BY <2>2 DEF Regroups, g
<1>10. OnWay(m)' \in Seq(Byte)
  BY <1>3, <1>5, <1>8, ConcatProperties
<1>11. OnWay(m) = f \o OnWay(m)'
  BY <1>4, <1>5, <1>7, <1>9
<1> QED
  BY <1>6, <1>10, <1>11 DEF m

LEMMA OutputPut ==
  ASSUME MemoryInv, NEW n \in Node, NEW f \in Seq(Byte), Put(n, f), wire' = wire
  PROVE  OnWay(n)' = OnWay(n) \o f /\ OnWay(Other(n))' = OnWay(Other(n))
<1> DEFINE m == Other(n)
           out == tun[n].outBuf \o f
<1>1. m \in Node /\ m # n /\ Other(m) = n
  BY Nodes
<1>2. /\ tun'[n].inBuf = tun[n].inBuf /\ tun'[n].outBuf = out /\ tun'[m] = tun[m]
  <2>1. tun[n] \in Record({0}, Byte, Byte)
    BY TunnelFields
  <2>2. tun' = [tun EXCEPT ![n].outBuf = out]
    BY DEF Put, MemoryInv
  <2> HIDE DEF out
  <2> DEFINE d == [tun[n] EXCEPT !.outBuf = out]
  <2>3. d.outBuf = out /\ d.inBuf = tun[n].inBuf
    BY <2>1 DEF Record
  <2>4. tun' = [tun EXCEPT ![n] = d]
    BY <2>2 DEF MemoryInv
  <2> HIDE DEF d
  <2> QED
    BY <1>1, <2>3, <2>4 DEF MemoryInv
<1> HIDE DEF m
<1>3. OnWay(m)' = OnWay(m)
  BY <1>1, <1>2 DEF OnWay, TunnelIn
<1> DEFINE a == TunnelIn(m) \o wire[n]
<1>4. a \in Seq(Byte) /\ tun[n].outBuf \in Seq(Byte)
  <2>1. TunnelIn(m) \in Seq(Byte) /\ wire[n] \in Seq(Byte) /\ tun[n].outBuf \in Seq(Byte)
    BY LineParts DEF m
  <2> QED
    BY <2>1, ConcatProperties
<1>5. OnWay(n) = a \o tun[n].outBuf
  BY DEF OnWay, m
<1>6. OnWay(n)' = a \o (tun[n].outBuf \o f)
  BY <1>1, <1>2 DEF OnWay, TunnelIn, m
<1> HIDE DEF a
<1>7. (a \o tun[n].outBuf) \o f = a \o (tun[n].outBuf \o f)
  <2>1. a \in Seq(Byte) /\ tun[n].outBuf \in Seq(Byte) /\ f \in Seq(Byte)
    BY <1>4
  <2>2. Regroups(a, tun[n].outBuf, f)
    BY <2>1, BytesRegroup
  <2> QED
    BY <2>2 DEF Regroups
<1> QED
  BY <1>3, <1>5, <1>6, <1>7 DEF m

(* What the kernel moves stays on its way.                                  *)
LEMMA PollMoves ==
  ASSUME MemoryInv, NEW n \in Node, PollReturns(n)
  PROVE  OnWay(n)' = OnWay(n) /\ OnWay(Other(n))' = OnWay(Other(n))
<1> DEFINE m == Other(n)
<1>1. m \in Node /\ m # n /\ Other(m) = n
  BY Nodes
<1> HIDE DEF m
<1>2. PICK read \in [Live(n) -> EndOfFile..BufSize],
           write \in [Live(n) -> EndOfFile..BufSize],
           r \in TunnelReads(n), w \in TunnelWrites(n),
           new \in {0} \cup (IF n = "client" /\ accepted < Sessions THEN {1} ELSE {}) :
       /\ \A s \in Live(n) : read[s] \in ReadResults(n, s)
                             /\ write[s] \in WriteResults(n, s)
       /\ \/ new = 1 \/ r # 0 \/ w # 0
          \/ \E s \in Live(n) : read[s] # 0 \/ write[s] # 0 \/ IsBusy(n, s)
       /\ accepted' = accepted + new
       /\ conns' = [conns EXCEPT ![n] =
            [s \in Session |->
               IF s \in Live(n)
               THEN Settle(Serve(conns[n][s], Arriving(n, s, read[s]),
                                 read[s], write[s], BufSize))
               ELSE IF new = 1 /\ s = accepted'
               THEN MakeConnection(NoId, {"NEW"})
               ELSE conns[n][s]]]
       /\ tun' = [tun EXCEPT ![n] =
            Settle(Serve(tun[n], SubSeq(wire[Other(n)], 1, Moved(r)), r, w, TunnelSize))]
       /\ wire' = [wire EXCEPT
            ![n] = @ \o SubSeq(tun[n].outBuf, 1, Moved(w)),
            ![Other(n)] = SubSeq(@, Moved(r) + 1, Len(@))]
       /\ sent' = [sent EXCEPT ![n] =
            [s \in Session |-> IF s \in Live(n) THEN sent[n][s] + Moved(read[s])
                                                ELSE sent[n][s]]]
       /\ got' = [got EXCEPT ![n] =
            [s \in Session |-> IF s \in Live(n)
                               THEN got[n][s] \o SubSeq(conns[n][s].outBuf, 1, Moved(write[s]))
                               ELSE got[n][s]]]
  BY DEF PollReturns
<1>3. /\ tun[n] \in Tunnels /\ tun[n].inBuf \in Seq(Byte) /\ tun[n].outBuf \in Seq(Byte)
      /\ tun[m].inBuf \in Seq(Byte) /\ tun[m].outBuf \in Seq(Byte)
      /\ wire[n] \in Seq(Byte) /\ wire[m] \in Seq(Byte)
  <2>1. /\ tun[n] \in Tunnels /\ tun[n].inBuf \in Seq(Byte) /\ tun[n].outBuf \in Seq(Byte)
        /\ tun[m].inBuf \in Seq(Byte) /\ tun[m].outBuf \in Seq(Byte)
    BY <1>1, TunnelFields
  <2> QED
    BY <1>1, <2>1, LineParts
<1>4. /\ r \in Int /\ Moved(r) \in 0..Len(wire[m])
      /\ CanReceive(tun[n], TunnelSize) \/ r = 0
      /\ Len(tun[n].inBuf) + Moved(r) <= TunnelSize
  BY TunnelReadBounds DEF m
<1>5. /\ w \in Int /\ Moved(w) \in 0..Len(tun[n].outBuf)
      /\ CanTransmit(tun[n]) \/ w = 0
  BY TunnelWriteBounds
<1> DEFINE bytes == SubSeq(wire[m], 1, Moved(r))
           more == SubSeq(wire[m], Moved(r) + 1, Len(wire[m]))
           out == SubSeq(tun[n].outBuf, 1, Moved(w))
           kept == SubSeq(tun[n].outBuf, Moved(w) + 1, Len(tun[n].outBuf))
           d == Serve(tun[n], bytes, r, w, TunnelSize)
<1>6. /\ bytes \in Seq(Byte) /\ Len(bytes) = Moved(r) /\ more \in Seq(Byte)
      /\ bytes \o more = wire[m] /\ (r = 0 => bytes = <<>>)
  <2>1. bytes \in Seq(Byte) /\ Len(bytes) = Moved(r)
    BY <1>3, <1>4, SeqFirst
  <2>2. more \in Seq(Byte)
    BY <1>3, <1>4, SeqRest
  <2>3. bytes \o more = wire[m]
    BY <1>3, <1>4, SeqSplit
  <2>4. r = 0 => Moved(r) = 0
    BY DEF Moved, EndOfFile
  <2> HIDE DEF bytes, more
  <2> QED
    BY <2>1, <2>2, <2>3, <2>4, EmptySeq
<1>7. out \in Seq(Byte) /\ kept \in Seq(Byte) /\ out \o kept = tun[n].outBuf
  <2>1. out \in Seq(Byte)
    BY <1>3, <1>5, SeqFirst
  <2>2. kept \in Seq(Byte)
    BY <1>3, <1>5, SeqRest
  <2>3. out \o kept = tun[n].outBuf
    BY <1>3, <1>5, SeqSplit
  <2> HIDE DEF out, kept
  <2> QED
    BY <2>1, <2>2, <2>3
<1> HIDE DEF bytes
<1>8. /\ d \in Tunnels
      /\ d.inBuf = Joined(tun[n].inBuf, bytes) /\ d.outBuf = Rest(tun[n].outBuf, Moved(w))
  <2>1. CanReceive(tun[n], TunnelSize) \/ bytes = <<>>
    BY <1>4, <1>6
  <2>2. Len(tun[n].inBuf) + Len(bytes) <= TunnelSize
    BY <1>4, <1>6
  <2>3. bytes \in Seq(Byte) /\ tun[n] \in Tunnels /\ r \in Int /\ w \in Int
        /\ Moved(w) \in 0..Len(tun[n].outBuf) /\ (CanTransmit(tun[n]) \/ w = 0)
    BY <1>3, <1>4, <1>5, <1>6
  <2>4. d \in Tunnels
    BY <2>1, <2>2, <2>3, ServeTunnel
  <2>5. d.inBuf = Joined(tun[n].inBuf, bytes)
    BY <2>1, <2>2, <2>3, ServeTunnel
  <2>6. d.outBuf = Rest(tun[n].outBuf, Moved(w))
    BY <2>1, <2>2, <2>3, ServeTunnel
  <2> QED
    BY <2>4, <2>5, <2>6
<1>9. tun' = [tun EXCEPT ![n] = Settle(d)]
  BY <1>2 DEF bytes, m
<1> HIDE DEF d
<1>10. Settle(d).inBuf = d.inBuf /\ Settle(d).outBuf = d.outBuf
  BY <1>8, SettleTunnel
<1>11. /\ tun'[n].inBuf = tun[n].inBuf \o bytes /\ tun'[n].outBuf = kept /\ tun'[m] = tun[m]
  BY <1>1, <1>8, <1>9, <1>10 DEF MemoryInv, Joined, Rest
<1>12. wire'[n] = wire[n] \o out /\ wire'[m] = more
  BY <1>1, <1>2 DEF MemoryInv, m
<1> HIDE DEF out, kept, more
<1>13. OnWay(n)' = OnWay(n)
  <2>1. OnWay(n)' = (tun[m].inBuf \o (wire[n] \o out)) \o kept
    BY <1>11, <1>12 DEF OnWay, TunnelIn, m
  <2>2. OnWay(n) = (tun[m].inBuf \o wire[n]) \o (out \o kept)
    BY <1>7 DEF OnWay, TunnelIn, m
  <2>3. tun[m].inBuf \o (wire[n] \o out) = (tun[m].inBuf \o wire[n]) \o out
    <3>1. tun[m].inBuf \in Seq(Byte) /\ wire[n] \in Seq(Byte) /\ out \in Seq(Byte)
      BY <1>3, <1>7
    <3>2. Regroups(tun[m].inBuf, wire[n], out)
      BY <3>1, BytesRegroup
    <3> QED
      BY <3>2 DEF Regroups
  <2>4. tun[m].inBuf \o wire[n] \in Seq(Byte)
    BY <1>3, ConcatProperties
  <2>5. ((tun[m].inBuf \o wire[n]) \o out) \o kept = (tun[m].inBuf \o wire[n]) \o (out \o kept)
    <3> DEFINE a == tun[m].inBuf \o wire[n]
    <3>1. a \in Seq(Byte) /\ out \in Seq(Byte) /\ kept \in Seq(Byte)
      BY <1>7, <2>4
    <3> HIDE DEF a
    <3>2. Regroups(a, out, kept)
      BY <3>1, BytesRegroup
    <3> QED
      BY <3>2 DEF Regroups, a
  <2> QED
    BY <2>1, <2>2, <2>3, <2>5
<1>14. OnWay(m)' = OnWay(m)
  <2>1. OnWay(m)' = ((tun[n].inBuf \o bytes) \o more) \o tun[m].outBuf
    BY <1>1, <1>11, <1>12 DEF OnWay, TunnelIn
  <2>2. OnWay(m) = (tun[n].inBuf \o (bytes \o more)) \o tun[m].outBuf
    BY <1>1, <1>6 DEF OnWay, TunnelIn
  <2>3. (tun[n].inBuf \o bytes) \o more = tun[n].inBuf \o (bytes \o more)
    <3>1. tun[n].inBuf \in Seq(Byte) /\ bytes \in Seq(Byte) /\ more \in Seq(Byte)
      BY <1>3, <1>6
    <3>2. Regroups(tun[n].inBuf, bytes, more)
      BY <3>1, BytesRegroup
    <3> QED
      BY <3>2 DEF Regroups
  <2> QED
    BY <2>1, <2>2, <2>3
<1> QED
  BY <1>13, <1>14 DEF m

-----------------------------------------------------------------------------
(* A step that says nothing new about any session.                          *)
Quiet ==
  /\ Fades /\ Later
  /\ \A s \in Session : (Lasts("client", s) /\ ClientLasts(s)) \/ Arrives(s)
  /\ \A s \in Session : Lasts("server", s)
  /\ \A k \in Node : IsRunning(k)' => IsRunning(k)
  /\ EndedEmpty'
  /\ closedBy' = closedBy /\ freeIds' = freeIds /\ (lost => lost')

LEMMA UndisturbedBefore ==
  ASSUME ClosersAre', lost => lost', Undisturbed',
         \A s \in Session : closedBy[s] \subseteq closedBy'[s]
  PROVE  Undisturbed
<1>1. \A s \in Session : closedBy'[s] \subseteq Node /\ closedBy'[s] # Node
  BY DEF ClosersAre, Undisturbed
<1>2. \A s \in Session : closedBy[s] # Node
  BY <1>1
<1>3. ~lost
  BY DEF Undisturbed
<1> QED
  BY <1>2, <1>3 DEF Undisturbed

LEMMA QuietSession ==
  ASSUME MemoryInv, SessionInv, Quiet
  PROVE  SessionInv'
<1>1. PICK name \in Namings : Tidy(name) /\ (Undisturbed => Agreed)
  BY DEF SessionInv
<1>2. ClosersAre'
  BY <1>1 DEF Quiet, Tidy, ClosersAre
<1>3. Tidy(name)'
  <2>1. \A s \in Session : Lasts("client", s) \/ Arrives(s)
    BY DEF Quiet
  <2>2. \A m \in Node, c \in Cmd, s \in Session : Has(m, c, s)' => Has(m, c, s)
    BY DEF Quiet, Fades
  <2>3. \A m \in Node, c \in Cmd, s \in Session, i \in Id : Meant(m, c, s, i)' => Meant(m, c, s, i)
    BY DEF Quiet, Fades
  <2>4. Later /\ EndedEmpty' /\ (\A s \in Session : Lasts("server", s)) /\ closedBy' = closedBy
    BY DEF Quiet
  <2> QED
    BY <1>1, <1>2, <2>1, <2>2, <2>3, <2>4, TidyKept
<1>4. ASSUME Undisturbed'
      PROVE  Agreed'
  <2>1. Undisturbed
    BY <1>2, <1>4, UndisturbedBefore DEF Quiet
  <2>2. Agreed
    BY <1>1, <2>1
  <2>3. freeIds \in Seq(Id)
    BY DEF MemoryInv, Stacks
  <2>4. /\ Later /\ Fades /\ (\A s \in Session : Lasts("server", s))
        /\ closedBy' = closedBy /\ freeIds' = freeIds
        /\ (\A s \in Session : (Lasts("client", s) /\ ClientLasts(s)) \/ Arrives(s))
        /\ \A k \in Node : IsRunning(k)' => IsRunning(k)
    BY DEF Quiet
  <2> QED
    BY <1>1, <2>2, <2>3, <2>4, AgreedQuiet
<1> QED
  BY <1>3, <1>4 DEF SessionInv

LEMMA PassedLasts ==
  ASSUME NEW n \in Node, NEW s \in Session, Passed(conns[n][s], conns'[n][s]),
         conns[n][s] # NoConn \/ conns'[n][s] = NoConn
  PROVE  /\ Lasts(n, s) /\ (ToldEnd(n, s)' => ToldEnd(n, s))
         /\ Open(n, s) => Open(n, s)'
<1> DEFINE c == conns[n][s]
           d == conns'[n][s]
<1>0. /\ (s \in Live(n) <=> c # NoConn) /\ (s \in Live(n)' <=> d # NoConn)
      /\ (Open(n, s) <=> c # NoConn /\ "DELETE" \notin c.state)
      /\ (Open(n, s)' <=> d # NoConn /\ "DELETE" \notin d.state)
      /\ (Fresh(n, s) <=> c # NoConn /\ "NEW" \in c.state)
      /\ (Fresh(n, s)' <=> d # NoConn /\ "NEW" \in d.state)
      /\ (SaidEnd(n, s) <=> c # NoConn /\ "DELETE" \in c.in)
      /\ (SaidEnd(n, s)' <=> d # NoConn /\ "DELETE" \in d.in)
      /\ (ToldEnd(n, s) <=> c # NoConn /\ "DELETE" \in c.out)
      /\ (ToldEnd(n, s)' <=> d # NoConn /\ "DELETE" \in d.out)
  BY DEF Live, Open, Fresh, SaidEnd, ToldEnd
<1>1. CASE c # NoConn /\ d # NoConn /\ Carried(c, d)
  BY <1>0, <1>1 DEF Carried, SameFace, Lasts
<1>2. CASE c # NoConn /\ d = NoConn /\ "DELETE" \in c.state
  BY <1>0, <1>2 DEF Lasts
<1>3. CASE c = NoConn /\ d = NoConn
  BY <1>0, <1>3 DEF Lasts
<1> QED
  BY <1>1, <1>2, <1>3 DEF Passed

LEMMA SameLasts ==
  ASSUME NEW n \in Node, conns'[n] = conns[n]
  PROVE  /\ \A s \in Session : /\ Lasts(n, s) /\ (ToldEnd(n, s)' => ToldEnd(n, s))
                               /\ Open(n, s) => Open(n, s)'
         /\ Live(n)' = Live(n)
<1>1. Live(n)' = Live(n)
  BY DEF Live
<1> QED
  BY <1>1 DEF Lasts, ToldEnd, SaidEnd, Open, Fresh

(* A node serves its connections, or does something else.                   *)
LEMMA PassedSession ==
  ASSUME MemoryInv, SessionInv, NEW n \in Node, Fades,
         \A s \in Session : Passed(conns[n][s], conns'[n][s]),
         \A s \in Session : \/ conns[n][s] # NoConn \/ conns'[n][s] = NoConn
                            \/ n = "client" /\ Arrives(s),
         \A k \in Node : k # n => conns'[k] = conns[k] /\ phase'[k] = phase[k],
         IsRunning(n), IsRunning(n)', Later,
         closedBy' = closedBy, freeIds' = freeIds, lost => lost'
  PROVE  SessionInv'
<1>1. \A s \in Session : \/ /\ Lasts(n, s) /\ (ToldEnd(n, s)' => ToldEnd(n, s))
                            /\ Open(n, s) => Open(n, s)'
                         \/ n = "client" /\ Arrives(s)
  BY PassedLasts
<1>2. \A k \in Node : k # n =>
        /\ \A s \in Session : /\ Lasts(k, s) /\ (ToldEnd(k, s)' => ToldEnd(k, s))
                              /\ Open(k, s) => Open(k, s)'
        /\ Live(k)' = Live(k)
  BY SameLasts
<1>3. "client" \in Node /\ "server" \in Node /\ \A k \in Node : k = "client" \/ k = "server"
  BY DEF Node
<1>4. \A s \in Session : Lasts("server", s)
  BY <1>1, <1>2, <1>3
<1>5. \A s \in Session : (Lasts("client", s) /\ ClientLasts(s)) \/ Arrives(s)
  BY <1>1, <1>2, <1>3 DEF ClientLasts
<1>6. \A k \in Node : IsRunning(k)' <=> IsRunning(k)
  BY DEF IsRunning
<1>7. EndedEmpty
  BY DEF SessionInv, Tidy
<1>8. EndedEmpty'
  BY <1>2, <1>6, <1>7 DEF EndedEmpty
<1> QED
  BY <1>4, <1>5, <1>6, <1>8, QuietSession DEF Quiet

LEMMA LaterSame ==
  ASSUME MemoryInv, accepted' = accepted
  PROVE  Later
BY Constants DEF MemoryInv, Later

LEMMA EnterPollSession ==
  ASSUME Inv, SessionInv, NEW n \in Node, EnterPoll(n)
  PROVE  SessionInv'
<1>1. MemoryInv
  BY DEF Inv
<1>2. /\ phase[n] = "enter" /\ phase'[n] = "poll"
      /\ \A k \in Node : k # n => conns'[k] = conns[k] /\ phase'[k] = phase[k]
      /\ accepted' = accepted /\ closedBy' = closedBy /\ freeIds' = freeIds /\ lost' = lost
      /\ wire' = wire /\ queue' = queue
  BY <1>1 DEF EnterPoll, Goto, MemoryInv, kernel, pump, history
<1>3. IsRunning(n) /\ IsRunning(n)'
  BY <1>2 DEF IsRunning, Ended
<1>4. \A m \in Node : tun'[m].inBuf = tun[m].inBuf /\ tun'[m].outBuf = tun[m].outBuf
  <2> SUFFICES ASSUME NEW m \in Node
               PROVE  tun'[m].inBuf = tun[m].inBuf /\ tun'[m].outBuf = tun[m].outBuf
    OBVIOUS
  <2>1. tun'[m] = IF m = n THEN BeforePoll(tun[m]) ELSE tun[m]
    BY <1>1 DEF EnterPoll, MemoryInv
  <2>2. tun[m] \in Tunnels
    BY <1>1 DEF MemoryInv
  <2> QED
    BY <2>1, <2>2, BeforePollTunnel
<1>5. Fades
  BY <1>2, <1>4, NoneMoved
<1>6. /\ \A s \in Session : Passed(conns[n][s], conns'[n][s])
      /\ \A s \in Session : conns[n][s] # NoConn \/ conns'[n][s] = NoConn
  <2>1. \A s \in Live(n)' : s \in Live(n)
    BY <1>1, EnterPollPasses
  <2>2. \A s \in Session : conns[n][s] # NoConn \/ conns'[n][s] = NoConn
    BY <2>1 DEF Live
  <2> QED
    BY <1>1, <2>2, EnterPollPasses
<1> QED
  BY <1>1, <1>2, <1>3, <1>5, <1>6, LaterSame, PassedSession

LEMMA PollReturnsSession ==
  ASSUME Inv, TargetInv, SessionInv, NEW n \in Node, PollReturns(n)
  PROVE  SessionInv'
<1>1. MemoryInv /\ PollClean(n)
  BY DEF Inv, TargetInv, NodeRight
<1>2. /\ phase[n] = "poll" /\ phase'[n] = "sort"
      /\ \A k \in Node : k # n => conns'[k] = conns[k] /\ phase'[k] = phase[k]
      /\ closedBy' = closedBy /\ freeIds' = freeIds /\ lost' = lost
      /\ queue' = queue
  BY <1>1 DEF PollReturns, Goto, MemoryInv, pump, history
<1>3. IsRunning(n) /\ IsRunning(n)'
  BY <1>2 DEF IsRunning, Ended
<1>4. OnWay(n)' = OnWay(n) /\ OnWay(Other(n))' = OnWay(Other(n))
  BY <1>1, PollMoves
<1>5. Fades
  <2> SUFFICES ASSUME NEW m \in Node
               PROVE  Thins(m)
    BY ThinsAll
  <2>1. m = n \/ m = Other(n)
    BY Nodes
  <2> QED
    BY <1>2, <1>4, <2>1, LineSame
<1>6. /\ \A s \in Live(n) : s \in Live(n)' /\ Carried(conns[n][s], conns'[n][s])
      /\ \A s \in Session : conns[n][s] = NoConn =>
              \/ conns'[n][s] = NoConn
              \/ /\ n = "client" /\ s = accepted + 1 /\ accepted' = accepted + 1
                 /\ conns'[n][s] = MakeConnection(NoId, {"NEW"})
      /\ accepted' \in {accepted, accepted + 1}
      /\ \A s \in Session : Passed(conns[n][s], conns'[n][s])
  BY <1>1, PollReturnsPasses
<1>7. Later /\ accepted \in Nat
  BY <1>1, <1>6, Constants DEF Later, MemoryInv
<1>8. ASSUME NEW s \in Session
      PROVE  \/ conns[n][s] # NoConn \/ conns'[n][s] = NoConn
             \/ n = "client" /\ Arrives(s)
  <2> DEFINE d == MakeConnection(NoId, {"NEW"})
  <2>1. CASE conns[n][s] = NoConn /\ conns'[n][s] # NoConn
    <3>1. /\ n = "client" /\ s = accepted + 1 /\ accepted' = accepted + 1
          /\ conns'[n][s] = d
      BY <1>6, <2>1
    <3>2. d.id = NoId /\ d.state = {"NEW"} /\ d.in = {} /\ d.out = {}
      BY MadeFields
    <3> HIDE DEF d
    <3>3. Fresh("client", s)' /\ Open("client", s)' /\ ~ToldEnd("client", s)' /\ ~SaidEnd("client", s)'
      BY <2>1, <3>1, <3>2 DEF Live, Fresh, Open, ToldEnd, SaidEnd
    <3>4. s > accepted /\ s <= accepted'
      BY <1>7, <3>1
    <3> QED
      BY <3>1, <3>2, <3>3, <3>4 DEF Arrives
  <2> QED
    BY <2>1
<1> QED
  BY <1>1, <1>2, <1>3, <1>5, <1>6, <1>7, <1>8, PassedSession

(* A step that touches neither connections nor identifiers.                 *)
LEMMA StillSession ==
  ASSUME MemoryInv, SessionInv, NEW n \in Node, Fades, conns' = conns,
         \A k \in Node : k # n => phase'[k] = phase[k],
         IsRunning(n), IsRunning(n)', accepted' = accepted,
         closedBy' = closedBy, freeIds' = freeIds, lost => lost'
  PROVE  SessionInv'
<1>1. \A s \in Session : Passed(conns[n][s], conns'[n][s])
  BY NothingPassed
<1>2. \A s \in Session : \/ conns[n][s] # NoConn \/ conns'[n][s] = NoConn
                         \/ n = "client" /\ Arrives(s)
  OBVIOUS
<1> QED
  BY <1>1, <1>2, LaterSame, PassedSession

LEMMA SendCommandSession ==
  ASSUME Inv, SessionInv, NEW n \in Node, SendCommand(n)
  PROVE  SessionInv'
<1>1. MemoryInv
  BY DEF Inv
<1>2. /\ phase[n] = "cmds" /\ phase' = phase /\ conns' = conns
      /\ accepted' = accepted /\ closedBy' = closedBy /\ freeIds' = freeIds /\ lost' = lost
      /\ wire' = wire /\ queue[n] # <<>> /\ queue'[n] = Tail(queue[n])
      /\ \A k \in Node : k # n => queue'[k] = queue[k]
      /\ Put(n, CommandFrame(Head(queue[n])))
  BY <1>1 DEF SendCommand, MemoryInv, kernel, history
<1>3. IsRunning(n) /\ IsRunning(n)'
  BY <1>2 DEF IsRunning, Ended
<1>4. OnWay(n) \in Seq(Byte) /\ queue[n] \in Seq(Commands)
  BY <1>1, LineParts
<1>5. CommandFrame(Head(queue[n])) \in Seq(Byte)
  <2> DEFINE h == Head(queue[n])
  <2>1. h \in Commands
    BY <1>2, <1>4, HeadWaits
  <2> HIDE DEF h
  <2>2. CommandFrame(h) \in Seq(Byte)
    BY <2>1, FrameSays
  <2> QED
    BY <2>2 DEF h
<1>6. OnWay(n)' = OnWay(n) \o CommandFrame(Head(queue[n])) /\ OnWay(Other(n))' = OnWay(Other(n))
  BY <1>1, <1>2, <1>5, OutputPut
<1>7. Thins(n)
  BY <1>2, <1>4, <1>6, HeadSent
<1>8. Other(n) \in Node /\ Other(n) # n /\ \A m \in Node : m = n \/ m = Other(n)
  BY Nodes
<1>9. Thins(Other(n))
  BY <1>2, <1>6, <1>8, LineSame
<1>10. Fades
  BY <1>7, <1>8, <1>9, ThinsAll
<1> QED
  BY <1>1, <1>2, <1>3, <1>10, StillSession

LEMMA LoseCommandSession ==
  ASSUME Inv, SessionInv, NEW n \in Node, LoseCommand(n)
  PROVE  SessionInv'
<1>1. MemoryInv
  BY DEF Inv
<1>2. /\ phase[n] = "cmds" /\ phase'[n] = "enter" /\ conns' = conns
      /\ \A k \in Node : k # n => phase'[k] = phase[k]
      /\ accepted' = accepted /\ closedBy' = closedBy /\ freeIds' = freeIds /\ (lost => lost')
      /\ wire' = wire /\ tun' = tun /\ queue[n] # <<>> /\ queue'[n] = Tail(queue[n])
      /\ \A k \in Node : k # n => queue'[k] = queue[k]
  BY <1>1 DEF LoseCommand, UpdateReturns, Goto, MemoryInv, kernel
<1>3. IsRunning(n) /\ IsRunning(n)'
  BY <1>2 DEF IsRunning, Ended
<1>4. OnWay(n) \in Seq(Byte) /\ queue[n] \in Seq(Commands)
  BY <1>1, LineParts
<1>5. \A m \in Node : OnWay(m)' = OnWay(m)
  BY <1>2 DEF OnWay, TunnelIn
<1>6. Thins(n)
  BY <1>2, <1>4, <1>5, HeadLost
<1>7. Fades
  <2> SUFFICES ASSUME NEW m \in Node
               PROVE  Thins(m)
    BY ThinsAll
  <2> QED
    BY <1>2, <1>5, <1>6, LineSame
<1> QED
  BY <1>1, <1>2, <1>3, <1>7, StillSession

(* Nothing happens but that the program goes on.                            *)
LEMMA GoOnSession ==
  ASSUME Inv, SessionInv, NEW n \in Node, conns' = conns, tun' = tun, wire' = wire,
         accepted' = accepted, queue' = queue, freeIds' = freeIds, closedBy' = closedBy,
         lost' = lost, \A k \in Node : k # n => phase'[k] = phase[k],
         IsRunning(n), IsRunning(n)'
  PROVE  SessionInv'
<1>1. MemoryInv
  BY DEF Inv
<1>2. Fades
  BY NoneMoved
<1> QED
  BY <1>1, <1>2, StillSession

(* What decode uses up.                                                     *)
LEMMA UsedIs ==
  ASSUME NEW buf \in Seq(Byte), NEW free \in Nat
  PROVE  (IF EndReached(buf, free) THEN Decodable(buf, free) + 1 ELSE Decodable(buf, free))
           \in 0..Len(buf)
<1> DEFINE e == EndAt(buf)
<1>1. Len(buf) \in Nat /\ e \in 1..(Len(buf) + 1)
  BY FirstEnd
<1>2. /\ Decodable(buf, free) \in {e - 1, free}
      /\ Decodable(buf, free) <= e - 1 /\ Decodable(buf, free) <= free
  BY <1>1, LeastIs DEF Decodable
<1>3. EndReached(buf, free) <=> e <= Len(buf) /\ e - 1 < free
  BY DEF EndReached
<1> HIDE DEF e
<1> QED
  BY <1>1, <1>2, <1>3

(* Bytes at the front of the input are used up.                             *)
LEMMA InputFades ==
  ASSUME MemoryInv, NEW n \in Node, NEW f \in Seq(Byte), NEW t \in Seq(Byte),
         TunnelIn(n) = f \o t, tun' = [tun EXCEPT ![n].inBuf = t], wire' = wire,
         queue' = queue
  PROVE  Fades
<1> DEFINE o == Other(n)
<1>1. o \in Node /\ \A m \in Node : m = n \/ m = o
  BY Nodes
<1>2. /\ OnWay(o) = f \o OnWay(o)' /\ OnWay(o)' \in Seq(Byte)
      /\ OnWay(n)' = OnWay(n)
  BY InputTaken
<1> HIDE DEF o
<1>3. queue[o] \in Seq(Commands)
  BY <1>1, LineParts
<1>4. Thins(o)
  BY <1>1, <1>2, <1>3, FrontTaken
<1>5. Thins(n)
  BY <1>2, LineSame
<1> QED
  BY <1>1, <1>4, <1>5, ThinsAll

LEMMA DataFrameSays ==
  ASSUME NEW i \in Id, NEW bytes \in Seq(Data)
  PROVE  LET f == DataFrame(i, bytes)
         IN  /\ f \in Seq(Byte) /\ (\A x \in CmdBytes : ~Carries(f, x))
             /\ \A j : f[1] # Arg(j)
<1> DEFINE a == <<END, IdByte(i)>>
           z == <<END>>
<1>1. /\ END \in Byte /\ IdByte(i) \in Byte /\ Data \subseteq Byte
  BY DEF Byte, IdByte, Id
<1>2. /\ END \notin CmdBytes /\ IdByte(i) \notin CmdBytes
      /\ (\A x \in Data : x \notin CmdBytes) /\ \A j : END # Arg(j)
  BY Kinds
<1>3. /\ a \in Seq(Byte) /\ Len(a) = 2 /\ a[1] = END /\ a[2] = IdByte(i)
      /\ z \in Seq(Byte) /\ Len(z) = 1 /\ z[1] = END
  BY <1>1
<1>4. bytes \in Seq(Byte) /\ Len(bytes) \in Nat /\ \A k \in 1..Len(bytes) : bytes[k] \in Data
  BY <1>1
<1>5. DataFrame(i, bytes) = (a \o bytes) \o z
  BY DEF DataFrame
<1> HIDE DEF a, z
<1>6. \A x \in CmdBytes : ~Carries(a, x) /\ ~Carries(bytes, x) /\ ~Carries(z, x)
  <2> SUFFICES ASSUME NEW x \in CmdBytes
               PROVE  ~Carries(a, x) /\ ~Carries(bytes, x) /\ ~Carries(z, x)
    OBVIOUS
  <2>1. \A k \in 1..2 : k = 1 \/ k = 2
    OBVIOUS
  <2>2. ~Carries(a, x)
    BY <1>2, <1>3, <2>1 DEF Carries
  <2>3. ~Carries(bytes, x)
    BY <1>2, <1>4 DEF Carries
  <2>4. ~Carries(z, x)
    BY <1>2, <1>3 DEF Carries
  <2> QED
    BY <2>2, <2>3, <2>4
<1>7. a \o bytes \in Seq(Byte) /\ (a \o bytes)[1] = END /\ Len(a \o bytes) >= 1
  <2>1. 1 \in 1..(Len(a) + Len(bytes)) /\ 1 <= Len(a)
    BY <1>3, <1>4
  <2>2. /\ a \o bytes \in Seq(Byte) /\ Len(a \o bytes) = Len(a) + Len(bytes)
        /\ (a \o bytes)[1] = a[1]
    BY <1>3, <1>4, <2>1, ConcatProperties
  <2> QED
    BY <1>3, <1>4, <2>2
<1> DEFINE b == a \o bytes
<1>8. \A x \in CmdBytes : ~Carries(b, x)
  BY <1>3, <1>4, <1>6, CarriesConcat
<1> HIDE DEF b
<1>9. b \in Seq(Byte) /\ b[1] = END /\ Len(b) >= 1 /\ Len(b) \in Nat
  BY <1>7 DEF b
<1>10. \A x \in CmdBytes : ~Carries(b \o z, x)
  BY <1>3, <1>6, <1>8, <1>9, CarriesConcat
<1>11. b \o z \in Seq(Byte) /\ (b \o z)[1] = END
  <2>1. 1 \in 1..(Len(b) + Len(z)) /\ 1 <= Len(b)
    BY <1>3, <1>9
  <2>2. b \o z \in Seq(Byte) /\ (b \o z)[1] = b[1]
    BY <1>3, <1>9, <2>1, ConcatProperties
  <2> QED
    BY <1>9, <2>2
<1> QED
  BY <1>2, <1>5, <1>10, <1>11 DEF b

LEMMA ContinueSession ==
  ASSUME Inv, SessionInv, NEW n \in Node, ContinueFrame(n)
  PROVE  SessionInv'
<1> DEFINE buf == TunnelIn(n)
           s == sorted[n][sendingTo[n]]
           free == BufSize - Len(conns[n][s].outBuf)
           m == Decodable(buf, free)
           used == IF EndReached(buf, free) THEN m + 1 ELSE m
           first == SubSeq(buf, 1, used)
           rest == SubSeq(buf, used + 1, Len(buf))
<1>1. /\ MemoryInv /\ phase[n] = "recv" /\ sendingTo[n] # 0 /\ s # NoSession
      /\ Decoded(n, s, buf) /\ tun' = [tun EXCEPT ![n].inBuf = rest]
      /\ accepted' = accepted /\ closedBy' = closedBy /\ freeIds' = freeIds /\ lost' = lost
      /\ wire' = wire /\ queue' = queue
      /\ phase'[n] \in {"recv", "cmds"} /\ \A k \in Node : k # n => phase'[k] = phase[k]
  BY DEF Inv, ContinueFrame, Receiving, Goto, MemoryInv, kernel, history, Decoded
<1>2. sendingTo[n] \in Id /\ Expected(n) = "data" /\ IsRunning(n) /\ IsRunning(n)'
  <2>1. sendingTo[n] \in Id /\ Expected(n) = "data"
    BY <1>1, Constants DEF MemoryInv, Id, Expected
  <2>2. IsRunning(n) /\ IsRunning(n)'
    BY <1>1 DEF IsRunning, Ended
  <2> QED
    BY <2>1, <2>2
<1>3. s \in Session /\ conns[n][s] # NoConn /\ conns[n][s].id \in Id /\ conns[n][s] \in Connections
  BY <1>1, <1>2, ArrayPoints
<1>4. buf \in Seq(Byte)
  BY <1>1, TunnelFields DEF TunnelIn
<1>5. PICK q \in Expecting : Parses(buf, "data", q)
  BY <1>2, InputParses DEF TunnelIn
<1>6. free \in Nat
  BY <1>1, <1>3, <1>4, <1>5, DecodedKeeps
<1>7. used \in 0..Len(buf)
  BY <1>4, <1>6, UsedIs
<1> HIDE DEF s, buf
<1>8. /\ \A t \in Session : Passed(conns[n][t], conns'[n][t])
      /\ conns'[n][s] # NoConn
      /\ \A t \in Session : t # s => conns'[n][t] = conns[n][t]
      /\ \A k \in Node : k # n => conns'[k] = conns[k]
  BY <1>1, <1>3, <1>4, <1>5, DecodedPasses
<1> HIDE DEF used, free, m
<1>9. first \in Seq(Byte) /\ rest \in Seq(Byte) /\ buf = first \o rest
  BY <1>4, <1>7, SeqFirst, SeqRest, SeqSplit
<1> HIDE DEF first, rest
<1>10. Fades
  BY <1>1, <1>9, InputFades DEF buf
<1>11. \A t \in Session : conns[n][t] # NoConn \/ conns'[n][t] = NoConn
  BY <1>3, <1>8
<1> QED
  BY <1>1, <1>2, <1>8, <1>10, <1>11, LaterSame, PassedSession

LEMMA ReceiveDataSession ==
  ASSUME Inv, SessionInv, NEW n \in Node, ReceiveData(n)
  PROVE  SessionInv'
<1> DEFINE buf == TunnelIn(n)
           head == SubSeq(buf, 1, 2)
           body == SubSeq(buf, 3, Len(buf))
           s == sorted[n][FrameId(n)]
           free == BufSize - Len(conns[n][s].outBuf)
           m == Decodable(body, free)
           used == IF EndReached(body, free) THEN m + 1 ELSE m
           first == SubSeq(body, 1, used)
           rest == SubSeq(body, used + 1, Len(body))
<1>1. /\ MemoryInv /\ phase[n] = "recv" /\ sendingTo[n] = 0 /\ s # NoSession
      /\ FrameAvailable(n) /\ FrameId(n) # 0 /\ Len(buf) > 3
      /\ Decoded(n, s, body) /\ tun' = [tun EXCEPT ![n].inBuf = rest]
      /\ accepted' = accepted /\ closedBy' = closedBy /\ freeIds' = freeIds /\ lost' = lost
      /\ wire' = wire /\ queue' = queue
      /\ phase'[n] = "cmds" /\ \A k \in Node : k # n => phase'[k] = phase[k]
  BY DEF Inv, ReceiveData, FrameAvailable, Receiving, Goto, MemoryInv, kernel, history, Decoded
<1>2. FrameId(n) \in Id /\ IsRunning(n) /\ IsRunning(n)'
  <2>1. FrameId(n) \in 0..MaxId
    BY <1>1, HeadIs
  <2>2. FrameId(n) \in Id
    BY <1>1, <2>1, Constants DEF Id
  <2>3. IsRunning(n) /\ IsRunning(n)'
    BY <1>1 DEF IsRunning, Ended
  <2> QED
    BY <2>2, <2>3
<1>3. s \in Session /\ conns[n][s] # NoConn /\ conns[n][s].id \in Id /\ conns[n][s] \in Connections
  BY <1>1, <1>2, ArrayPoints
<1>4. /\ buf \in Seq(Byte) /\ head \in Seq(Byte) /\ body \in Seq(Byte)
      /\ buf = head \o body
  <2>1. buf \in Seq(Byte) /\ Len(buf) \in Nat
    BY <1>1, TunnelFields DEF TunnelIn
  <2> HIDE DEF buf
  <2>2. 2 \in 0..Len(buf)
    BY <1>1, <2>1
  <2>3. SubSeq(buf, 2 + 1, Len(buf)) \in Seq(Byte)
    BY <2>1, <2>2, SeqRest
  <2>4. SubSeq(buf, 1, 2) \in Seq(Byte)
    BY <2>1, <2>2, SeqFirst
  <2>5. SubSeq(buf, 1, 2) \o SubSeq(buf, 2 + 1, Len(buf)) = buf
    BY <2>1, <2>2, SeqSplit
  <2> QED
    BY <2>1, <2>3, <2>4, <2>5
<1>5. PICK q \in Expecting : Parses(body, "data", q)
  <2>1. PICK q \in Expecting : Parses(tun[n].inBuf, Expected(n), q)
    BY <1>2, InputParses
  <2>2. Parses(body, "data", q)
    BY <1>1, <2>1, HeadIs DEF TunnelIn
  <2> QED
    BY <2>2
<1> HIDE DEF buf, head, body
<1>6. free \in Nat
  BY <1>1, <1>3, <1>4, <1>5, DecodedKeeps
<1>7. used \in 0..Len(body)
  BY <1>4, <1>6, UsedIs
<1> HIDE DEF s
<1>8. /\ \A t \in Session : Passed(conns[n][t], conns'[n][t])
      /\ conns'[n][s] # NoConn
      /\ \A t \in Session : t # s => conns'[n][t] = conns[n][t]
      /\ \A k \in Node : k # n => conns'[k] = conns[k]
  BY <1>1, <1>3, <1>4, <1>5, DecodedPasses
<1> HIDE DEF used, free, m
<1>9. first \in Seq(Byte) /\ rest \in Seq(Byte) /\ body = first \o rest
  BY <1>4, <1>7, SeqFirst, SeqRest, SeqSplit
<1> HIDE DEF first, rest
<1>10. head \o first \in Seq(Byte) /\ buf = (head \o first) \o rest
  <2>1. Regroups(head, first, rest)
    BY <1>4, <1>9, BytesRegroup
  <2>2. head \o first \in Seq(Byte)
    BY <1>4, <1>9, ConcatProperties
  <2> QED
    BY <1>4, <1>9, <2>1, <2>2 DEF Regroups
<1> DEFINE f == head \o first
<1>11. f \in Seq(Byte) /\ TunnelIn(n) = f \o rest
  BY <1>10 DEF buf
<1> HIDE DEF f
<1>12. Fades
  BY <1>1, <1>9, <1>11, InputFades
<1>13. \A t \in Session : conns[n][t] # NoConn \/ conns'[n][t] = NoConn
  BY <1>3, <1>8
<1> QED
  BY <1>1, <1>2, <1>8, <1>12, <1>13, LaterSame, PassedSession

LEMMA EncodeDataSession ==
  ASSUME Inv, SessionInv, NEW n \in Node, EncodeData(n)
  PROVE  SessionInv'
<1> DEFINE i == Min(Turns(n))
           s == sorted[n][Turn(n, i)]
           c == conns[n][s]
           m == Least(Len(c.inBuf), TunnelRoom(n) - 3)
           bytes == SubSeq(c.inBuf, 1, m)
           rest == SubSeq(c.inBuf, m + 1, Len(c.inBuf))
           d == [c EXCEPT !.inBuf = rest]
           f == DataFrame(c.id, bytes)
<1>1. /\ MemoryInv /\ phase[n] = "data" /\ Turns(n) # {} /\ TunnelRoom(n) >= 4
      /\ phase' = phase /\ queue' = queue /\ wire' = wire
      /\ accepted' = accepted /\ closedBy' = closedBy /\ freeIds' = freeIds /\ lost' = lost
      /\ conns' = [conns EXCEPT ![n][s].inBuf = rest]
      /\ Put(n, f)
  BY DEF Inv, EncodeData, pump, kernel, history
<1>2. s \in Session /\ c \in Connections /\ c # NoConn /\ c.inBuf # <<>> /\ c.id \in Id
  <2>1. i \in Nat /\ sorted[n][Turn(n, i)] # NoSession /\ HasData(n, i)
    BY <1>1, TurnsAre DEF HasData
  <2> HIDE DEF i
  <2>2. Turn(n, i) \in Id
    BY <1>1, <2>1, TurnIs
  <2>3. s \in Session /\ c \in Connections /\ c # NoConn /\ c.id \in Id
    BY <2>1, <2>2, ArrayPoints
  <2>4. c.inBuf # <<>>
    BY <2>1 DEF HasData, Indexed
  <2> QED
    BY <2>3, <2>4
<1>3. conns' = [conns EXCEPT ![n][s] = d]
  BY <1>1 DEF MemoryInv
<1>4. IsRunning(n) /\ IsRunning(n)'
  BY <1>1 DEF IsRunning, Ended
<1> HIDE DEF s, c
<1>5. Carried(c, d)
  BY <1>2, DropCarries
<1>6. d # NoConn
  <2> HIDE DEF rest
  <2>1. "state" \in DOMAIN d
    BY <1>2 DEF Connections, Record
  <2>2. DOMAIN NoConn = {"id"}
    BY DEF NoConn
  <2> QED
    BY <2>1, <2>2
<1>7. f \in Seq(Byte) /\ (\A x \in CmdBytes : ~Carries(f, x)) /\ \A j : f[1] # Arg(j)
  <2>1. m \in 1..Len(c.inBuf) /\ c.inBuf \in Seq(Data)
    <3>1. c.inBuf \in Seq(Data) /\ Len(c.inBuf) \in Nat /\ Len(c.inBuf) # 0
      <4>1. c.inBuf \in Seq(Data)
        BY <1>2, ConnectionFields
      <4> QED
        BY <1>2, <4>1, EmptySeq
    <3>2. TunnelRoom(n) \in Int
      <4>1. tun[n].outBuf \in Seq(Byte)
        BY <1>1, TunnelFields
      <4> QED
        BY <4>1, Constants DEF TunnelRoom
    <3> DEFINE l == Len(c.inBuf)
               r == TunnelRoom(n) - 3
    <3>3. l \in Nat /\ l > 0 /\ r \in Int /\ r >= 1
      BY <1>1, <3>1, <3>2
    <3> HIDE DEF l, r
    <3>4. Least(l, r) \in 1..l
      BY <3>3 DEF Least
    <3> QED
      BY <3>1, <3>4 DEF l, r
  <2> HIDE DEF m
  <2>2. bytes \in Seq(Data) /\ Len(bytes) = m
    BY <2>1, SeqFirst
  <2> HIDE DEF bytes
  <2> QED
    BY <1>2, <2>2, DataFrameSays
<1> HIDE DEF d, f
<1>8. Carried(conns[n][s], d) /\ conns[n][s] # NoConn
  BY <1>2, <1>5 DEF c
<1>9. /\ \A t \in Session : Passed(conns[n][t], conns'[n][t])
      /\ \A k \in Node : k # n => conns'[k] = conns[k]
      /\ conns'[n][s] = d /\ \A t \in Session : t # s => conns'[n][t] = conns[n][t]
  BY <1>1, <1>2, <1>3, <1>6, <1>8, OnePassed
<1>10. OnWay(n)' = OnWay(n) \o f /\ OnWay(Other(n))' = OnWay(Other(n))
  BY <1>1, <1>7, OutputPut
<1>11. OnWay(n) \in Seq(Byte) /\ queue[n] \in Seq(Commands)
  BY <1>1, LineParts
<1>12. Thins(n)
  BY <1>1, <1>7, <1>10, <1>11, SilencePut
<1>13. Other(n) \in Node /\ \A k \in Node : k = n \/ k = Other(n)
  BY Nodes
<1>14. Thins(Other(n))
  BY <1>1, <1>10, <1>13, LineSame
<1>15. Fades
  BY <1>12, <1>13, <1>14, ThinsAll
<1>16. \A t \in Session : conns[n][t] # NoConn \/ conns'[n][t] = NoConn
  BY <1>8, <1>9
<1> QED
  BY <1>1, <1>4, <1>9, <1>15, <1>16, LaterSame, PassedSession

(* A process ends: what it has not sent is lost, and so may be what was on  *)
(* its way.                                                                 *)
LEMMA EndFades ==
  ASSUME MemoryInv, NEW n \in Node, NEW why, End(n, why)
  PROVE  Fades
<1> DEFINE m == Other(n)
           d == MakeConnection(0, {"CLOSED"})
           a == TunnelIn(m)
           w == wire[n]
           b == tun[n].outBuf
           t == TunnelIn(n)
           v == wire[m]
           u == tun[m].outBuf
           e == <<>>
<1>1. m \in Node /\ m # n /\ Other(m) = n /\ \A k \in Node : k = n \/ k = m
  BY Nodes
<1>2. /\ a \in Seq(Byte) /\ w \in Seq(Byte) /\ b \in Seq(Byte)
      /\ t \in Seq(Byte) /\ v \in Seq(Byte) /\ u \in Seq(Byte) /\ e \in Seq(Byte)
      /\ queue[n] \in Seq(Commands) /\ queue[m] \in Seq(Commands)
  <2>1. /\ a \in Seq(Byte) /\ w \in Seq(Byte) /\ b \in Seq(Byte) /\ queue[n] \in Seq(Commands)
    BY LineParts
  <2>2. TunnelIn(Other(m)) \in Seq(Byte) /\ v \in Seq(Byte) /\ u \in Seq(Byte)
        /\ queue[m] \in Seq(Commands)
    BY <1>1, LineParts
  <2> QED
    BY <1>1, <2>1, <2>2, EmptySeq
<1>3. d.inBuf = e /\ d.outBuf = e
  BY MadeFields
<1>4. /\ tun'[n] = d /\ tun'[m] = tun[m] /\ wire'[m] = wire[m]
      /\ wire'[n] = wire[n] \/ wire'[n] = e
      /\ queue'[n] = e /\ queue'[m] = queue[m]
  BY <1>1 DEF End, MemoryInv
<1>5. /\ OnWay(n) = (a \o w) \o b /\ OnWay(m) = (t \o v) \o u
  BY <1>1 DEF OnWay
<1> HIDE DEF d
<1>6. OnWay(n)' = (a \o wire'[n]) \o e /\ OnWay(m)' = (e \o v) \o u
  BY <1>1, <1>3, <1>4 DEF OnWay, TunnelIn
<1> HIDE DEF m, a, w, b, t, v, u, e
<1>7. Thins(n)
  <2>1. CASE wire'[n] = wire[n]
    <3>1. a \o w \in Seq(Byte)
      BY <1>2, ConcatProperties
    <3>2. (a \o w) \o e = a \o w
      BY <3>1, ConcatEmptySeq DEF e
    <3>3. OnWay(n)' = a \o w /\ OnWay(n) = (a \o w) \o b
      BY <1>5, <1>6, <2>1, <3>2 DEF w
    <3>4. OnWay(n)' \in Seq(Byte) /\ OnWay(n) = OnWay(n)' \o b
      BY <3>1, <3>3
    <3> QED
      BY <1>2, <1>4, <3>4, RestLost DEF e
  <2>2. CASE wire'[n] = e
    <3>1. a \o e = a
      BY <1>2, ConcatEmptySeq DEF e
    <3>2. OnWay(n)' = a
      BY <1>6, <2>2, <3>1
    <3> DEFINE f == w \o b
    <3>3. Regroups(a, w, b)
      BY <1>2, BytesRegroup
    <3>4. OnWay(n) = a \o f
      BY <1>5, <3>3 DEF Regroups
    <3>5. f \in Seq(Byte)
      BY <1>2, ConcatProperties
    <3> HIDE DEF f
    <3>6. OnWay(n)' \in Seq(Byte) /\ OnWay(n) = OnWay(n)' \o f
      BY <1>2, <3>2, <3>4
    <3> QED
      BY <1>2, <1>4, <3>5, <3>6, RestLost DEF e
  <2> QED
    BY <1>4, <2>1, <2>2
<1>8. Thins(m)
  <2> DEFINE g == v \o u
  <2>1. Regroups(t, v, u)
    BY <1>2, BytesRegroup
  <2>2. e \o v = v
    BY <1>2, ConcatEmptySeq DEF e
  <2>3. OnWay(m)' = g /\ OnWay(m) = t \o g
    BY <1>5, <1>6, <2>1, <2>2 DEF Regroups
  <2>4. g \in Seq(Byte)
    BY <1>2, ConcatProperties
  <2> HIDE DEF g
  <2>5. OnWay(m)' \in Seq(Byte) /\ OnWay(m) = t \o OnWay(m)'
    BY <2>3, <2>4
  <2> QED
    BY <1>1, <1>2, <1>4, <2>5, FrontTaken
<1> QED
  BY <1>1, <1>7, <1>8, ThinsAll

LEMMA EndSession ==
  ASSUME Inv, SessionInv, NEW n \in Node, NEW why \in Ended, End(n, why)
  PROVE  SessionInv'
<1>1. MemoryInv
  BY DEF Inv
<1>2. /\ phase'[n] = why /\ conns'[n] = [s \in Session |-> NoConn]
      /\ \A k \in Node : k # n => phase'[k] = phase[k] /\ conns'[k] = conns[k]
      /\ accepted' = accepted /\ closedBy' = closedBy /\ freeIds' = freeIds /\ lost' = lost
  BY <1>1 DEF End, Goto, MemoryInv, history
<1>3. Fades
  BY <1>1, EndFades
<1>4. Live(n)' = {} /\ ~IsRunning(n)'
  BY <1>2 DEF Live, IsRunning
<1>5. \A s \in Session : Lasts(n, s) /\ ~ToldEnd(n, s)'
  BY <1>4 DEF Lasts, Open, Fresh, ToldEnd
<1>6. \A k \in Node : k # n =>
        /\ \A s \in Session : /\ Lasts(k, s) /\ (ToldEnd(k, s)' => ToldEnd(k, s))
                              /\ Open(k, s) => Open(k, s)'
        /\ Live(k)' = Live(k)
  BY <1>2, SameLasts
<1>7. "client" \in Node /\ "server" \in Node
  BY DEF Node
<1>8. \A s \in Session : Lasts("server", s) /\ Lasts("client", s)
  BY <1>5, <1>6, <1>7
<1>9. \A s \in Session : ClientLasts(s)
  BY <1>4, <1>5, <1>6, <1>7 DEF ClientLasts
<1>10. \A k \in Node : IsRunning(k)' => IsRunning(k)
  BY <1>2, <1>4 DEF IsRunning
<1>11. EndedEmpty
  BY DEF SessionInv, Tidy
<1>12. EndedEmpty'
  <2> SUFFICES ASSUME NEW k \in Node, k # n, ~IsRunning(k)'
               PROVE  Live(k)' = {}
    BY <1>4 DEF EndedEmpty
  <2>1. ~IsRunning(k)
    BY <1>2 DEF IsRunning
  <2> QED
    BY <1>6, <1>11, <2>1 DEF EndedEmpty
<1>13. Later
  BY <1>1, <1>2, LaterSame
<1> QED
  BY <1>1, <1>2, <1>3, <1>8, <1>9, <1>10, <1>12, <1>13, QuietSession DEF Quiet
(* The server's connections all have identifiers.                           *)
LEMMA SortServerSession ==
  ASSUME Inv, SessionInv, SortConnections("server")
  PROVE  SessionInv'
<1> DEFINE n == "server"
<1>1. n \in Node /\ MemoryInv /\ ServerInv
  BY DEF Node, Inv
<1>2. /\ phase[n] = "sort" /\ phase'[n] = "state" /\ \A k \in Node : k # n => phase'[k] = phase[k]
      /\ conns' = [conns EXCEPT ![n] = [s \in Session |-> WithId(n, s)]]
      /\ freeIds' = SubSeq(freeIds, 1, Len(freeIds)
                                   - Cardinality({s \in Session : Named(n, s)}))
      /\ tun' = tun /\ wire' = wire /\ queue' = queue /\ accepted' = accepted
      /\ closedBy' = closedBy /\ lost' = lost
  BY <1>1 DEF SortConnections, Goto, MemoryInv, kernel, pump, history
<1>3. Nameless(n) = {}
  BY <1>1, Constants DEF ServerInv, Nameless, Id, NoId
<1>4. {s \in Session : Named(n, s)} = {}
  BY <1>3 DEF Named
<1>5. Cardinality({s \in Session : Named(n, s)}) = 0
  BY <1>4, FS_EmptySet
<1>6. freeIds' = freeIds
  <2>1. freeIds \in Seq(Id) /\ Len(freeIds) \in Nat
    BY <1>1 DEF MemoryInv, Stacks
  <2>2. freeIds' = SubSeq(freeIds, 1, Len(freeIds))
    <3> DEFINE k == Cardinality({s \in Session : Named(n, s)})
    <3>1. freeIds' = SubSeq(freeIds, 1, Len(freeIds) - k) /\ k = 0
      BY <1>2, <1>5
    <3> HIDE DEF k
    <3> QED
      BY <2>1, <3>1
  <2> QED
    BY <2>1, <2>2
<1>7. conns' = conns
  <2>1. \A s \in Session : WithId(n, s) = conns[n][s]
    BY <1>3 DEF WithId, Named
  <2>2. conns \in [Node -> [Session -> Connections \cup {NoConn}]]
    BY <1>1 DEF MemoryInv
  <2> DEFINE f == [s \in Session |-> WithId(n, s)]
  <2>3. f = conns[n]
    BY <1>1, <2>1, <2>2
  <2> HIDE DEF f
  <2> QED
    BY <1>1, <1>2, <2>2, <2>3 DEF f
<1>8. IsRunning(n) /\ IsRunning(n)'
  BY <1>2 DEF IsRunning, Ended
<1> QED
  BY <1>1, <1>2, <1>6, <1>7, <1>8, GoOnSession

(* A session gets its identifier.                                           *)
LEMMA SortClientSession ==
  ASSUME Inv, TargetInv, SessionInv, SortConnections("client")
  PROVE  SessionInv'
<1> DEFINE n == "client"
<1>1. n \in Node /\ MemoryInv /\ AllSound(n) /\ PollClean(n) /\ "server" \in Node
      /\ n # "server" /\ \A k \in Node : k = n \/ k = "server"
  BY DEF Node, Inv, TargetInv, NodeRight
<1>2. /\ phase[n] = "sort" /\ phase'[n] = "state" /\ \A k \in Node : k # n => phase'[k] = phase[k]
      /\ conns'["server"] = conns["server"]
      /\ tun' = tun /\ wire' = wire /\ queue' = queue /\ accepted' = accepted
      /\ closedBy' = closedBy /\ lost' = lost
  BY <1>1 DEF SortConnections, Goto, MemoryInv, kernel, pump, history
<1>3. Fades
  BY <1>2, NoneMoved
<1>4. PICK name \in Namings : Tidy(name) /\ (Undisturbed => Agreed)
  BY DEF SessionInv
<1>5. ASSUME NEW s \in Session
      PROVE  /\ conns'[n][s] = NoConn <=> conns[n][s] = NoConn
             /\ conns'[n][s] \in Connections \cup {NoConn}
             /\ conns[n][s] # NoConn =>
                  /\ conns'[n][s].state = conns[n][s].state /\ conns'[n][s].in = conns[n][s].in
                  /\ conns'[n][s].out = conns[n][s].out
                  /\ \/ conns'[n][s].id = conns[n][s].id
                     \/ conns[n][s].id = NoId /\ "NEW" \in conns[n][s].state
  <2>1. conns'[n][s] = WithId(n, s) /\ (conns'[n][s] = NoConn <=> conns[n][s] = NoConn)
    BY <1>1, SortGives
  <2>2. WithId(n, s) \in Connections \cup {NoConn}
    BY <1>1, WithIdKeeps
  <2>3. ASSUME conns[n][s] # NoConn
        PROVE  /\ WithId(n, s).state = conns[n][s].state /\ WithId(n, s).in = conns[n][s].in
               /\ WithId(n, s).out = conns[n][s].out
               /\ WithId(n, s).id = conns[n][s].id \/ conns[n][s].id = NoId
    BY <1>1, <2>3, WithIdFields
  <2>4. conns[n][s] # NoConn /\ conns[n][s].id = NoId => "NEW" \in conns[n][s].state
    BY <1>1 DEF AllSound, Live, Sound, Unnamed
  <2> QED
    BY <2>1, <2>2, <2>3, <2>4
<1>6. \A s \in Session :
        /\ s \in Live(n)' <=> s \in Live(n)
        /\ Open(n, s)' <=> Open(n, s)
        /\ Fresh(n, s)' <=> Fresh(n, s)
        /\ SaidEnd(n, s)' <=> SaidEnd(n, s)
        /\ ToldEnd(n, s)' <=> ToldEnd(n, s)
  BY <1>5 DEF Live, Open, Fresh, SaidEnd, ToldEnd
<1>7. \A s \in Session :
        /\ s \in Live("server")' <=> s \in Live("server")
        /\ Open("server", s)' <=> Open("server", s)
        /\ Fresh("server", s)' <=> Fresh("server", s)
        /\ SaidEnd("server", s)' <=> SaidEnd("server", s)
        /\ ToldEnd("server", s)' <=> ToldEnd("server", s)
  BY <1>2 DEF Live, Open, Fresh, SaidEnd, ToldEnd
<1>8. \A k \in Node : IsRunning(k)' <=> IsRunning(k)
  <2>1. IsRunning(n) /\ IsRunning(n)'
    BY <1>2 DEF IsRunning, Ended
  <2> QED
    BY <1>2, <2>1 DEF IsRunning
<1>9. \A s \in Session : Early(s)' <=> Early(s)
  BY <1>2, <1>6 DEF Early
<1> DEFINE new == [s \in Session |-> IF s \in Live(n) THEN conns'[n][s].id ELSE name[s]]
<1>10. new \in Namings
  <2>1. \A s \in Session : s \in Live(n) => conns'[n][s].id \in Id \cup {NoId}
    <3> SUFFICES ASSUME NEW s \in Session, s \in Live(n)
                 PROVE  conns'[n][s].id \in Id \cup {NoId}
      OBVIOUS
    <3>1. conns'[n][s] \in Connections
      BY <1>5 DEF Live
    <3> QED
      BY <3>1, ConnectionFields
  <2> QED
    BY <1>4, <2>1 DEF Namings
<1>11. PICK name2 \in Namings :
         /\ \A s \in Session : s \in Live(n) => name2[s] = conns'[n][s].id
         /\ \A s \in Session : s \notin Live(n) => name2[s] = name[s]
  <2>1. /\ \A s \in Session : s \in Live(n) => new[s] = conns'[n][s].id
        /\ \A s \in Session : s \notin Live(n) => new[s] = name[s]
    OBVIOUS
  <2> HIDE DEF new
  <2> QED
    BY <1>10, <2>1
<1>12. \A s \in Session : ~Early(s) => name2[s] = name[s]
  <2> SUFFICES ASSUME NEW s \in Session, ~Early(s), s \in Live(n)
               PROVE  name2[s] = name[s]
    BY <1>11
  <2>1. conns[n][s].id = name[s]
    BY <1>1, <1>4 DEF Tidy, LiveNames
  <2>2. "NEW" \notin conns[n][s].state
    BY DEF Early, Fresh
  <2>3. conns'[n][s].id = conns[n][s].id
    BY <1>5, <2>2 DEF Live
  <2> QED
    BY <1>11, <2>1, <2>3
<1>13. Tidy(name2)'
  <2>1. LiveNames(name2)'
    <3>1. \A s \in Session : s \in Live("server") => conns["server"][s].id = name2[s]
      BY <1>1, <1>4, <1>12 DEF Tidy, LiveNames, EarlyUnknown
    <3>2. \A s \in Session : s \in Live(n)' => conns'[n][s].id = name2[s]
      BY <1>6, <1>11
    <3> QED
      BY <1>1, <1>2, <1>7, <3>1, <3>2 DEF LiveNames
  <2>2. MeantNames(name2)'
    <3> SUFFICES ASSUME NEW m \in Node, NEW c \in Cmd, NEW s \in Session, NEW i \in Id,
                        Meant(m, c, s, i)'
                 PROVE  i = name2[s]
      BY DEF MeantNames
    <3>1. Meant(m, c, s, i)
      BY <1>3 DEF Fades
    <3>2. i = name[s]
      BY <1>4, <3>1 DEF Tidy, MeantNames
    <3>3. Has(m, c, s)
      BY <1>1, <3>1, MeantIsThere
    <3>4. ~Early(s)
      BY <1>4, <3>3 DEF Tidy, EarlyUnknown
    <3> QED
      BY <1>12, <3>2, <3>4
  <2>3. LateNames(name2)'
    <3> SUFFICES ASSUME NEW s \in Session, s > accepted
                 PROVE  name2[s] = NoId
      BY <1>2 DEF LateNames
    <3>1. s \notin Live(n)
      <4>1. s \in Nat /\ accepted \in Nat
        BY <1>1, Constants DEF Session, MemoryInv
      <4> QED
        BY <1>4, <4>1 DEF Tidy, ClientLate
    <3> QED
      BY <1>4, <1>11, <3>1 DEF Tidy, LateNames
  <2>4. ClientLate'
    BY <1>2, <1>4, <1>6 DEF Tidy, ClientLate
  <2>5. EarlyUnknown'
    BY <1>2, <1>3, <1>4, <1>7, <1>9 DEF Tidy, EarlyUnknown, Fades
  <2>6. NewFromClient'
    <3>1. "NEW" \in Cmd
      BY DEF Cmd
    <3> QED
      BY <1>1, <1>3, <1>4, <1>7, <3>1 DEF Tidy, NewFromClient, Fades
  <2>7. EndedEmpty'
    <3>1. \A k \in Node : Live(k) = {} => Live(k)' = {}
      <4>1. Live("server")' = Live("server")
        BY <1>2 DEF Live
      <4>2. Live(n)' = Live(n)
        BY <1>5 DEF Live
      <4> QED
        BY <1>1, <4>1, <4>2
    <3> QED
      BY <1>4, <1>8, <3>1 DEF Tidy, EndedEmpty
  <2>8. ClosersAre'
    BY <1>2, <1>4 DEF Tidy, ClosersAre
  <2> QED
    BY <2>1, <2>2, <2>3, <2>4, <2>5, <2>6, <2>7, <2>8 DEF Tidy
<1>14. ASSUME Undisturbed'
       PROVE  Agreed'
  <2>1. Agreed
    BY <1>2, <1>4, <1>14 DEF Undisturbed
  <2>2. \A k \in Node, s \in Session :
          /\ s \in Live(k)' <=> s \in Live(k)
          /\ Open(k, s)' <=> Open(k, s)
          /\ SaidEnd(k, s)' <=> SaidEnd(k, s)
    BY <1>1, <1>6, <1>7
  <2>3. \A m \in Node, c \in Cmd, s \in Session : Has(m, c, s)' => Has(m, c, s)
    BY <1>3 DEF Fades
  <2>4. "NEW" \in Cmd /\ "ACK" \in Cmd /\ "CLOSE" \in Cmd /\ "CLOSE_SRC_TO_DST" \in Cmd
    BY DEF Cmd
  <2>5. InOrder'
    BY <1>3, <2>1 DEF Agreed, InOrder, Fades
  <2>6. ClosesAreKnown' /\ ClosedAreNotOpen' /\ EndsAreSaid'
    <3>1. ClosesAreKnown'
      BY <1>2, <2>1, <2>3, <2>4 DEF Agreed, ClosesAreKnown
    <3>2. ClosedAreNotOpen'
      BY <1>2, <2>1, <2>2 DEF Agreed, ClosedAreNotOpen
    <3>3. EndsAreSaid'
      BY <2>1, <2>2, <2>3, <2>4 DEF Agreed, EndsAreSaid
    <3> QED
      BY <3>1, <3>2, <3>3
  <2>7. NewIsFirst'
    BY <1>1, <1>2, <1>6, <1>7, <1>8, <2>1, <2>3, <2>4 DEF Agreed, NewIsFirst
  <2>8. FreshNotTold'
    BY <1>6, <2>1 DEF Agreed, FreshNotTold
  <2>9. CommandsFindOpen'
    BY <1>1, <1>6, <1>8, <2>1, <2>3 DEF Agreed, CommandsFindOpen
  <2>10. ToldIsLast'
    BY <1>1, <1>6, <2>1, <2>3, <2>4 DEF Agreed, ToldIsLast
  <2>11. OpenAtBoth'
    BY <1>1, <1>2, <1>6, <1>7, <1>8, <2>1 DEF Agreed, OpenAtBoth
  <2>12. UnsaidOpenAtBoth'
    BY <1>1, <1>6, <1>7, <1>8, <2>1 DEF Agreed, UnsaidOpenAtBoth
  <2>13. ClientIdsUnique /\ FreeIdsAreFree
    BY <2>1 DEF Agreed
  <2>14. ClientIdsUnique' /\ FreeIdsAreFree'
    BY <1>1, <2>13, SortIds
  <2> QED
    BY <2>5, <2>6, <2>7, <2>8, <2>9, <2>10, <2>11, <2>12, <2>14 DEF Agreed
<1> QED
  <2>1. Tidy(name2)' /\ (Undisturbed' => Agreed')
    BY <1>13, <1>14
  <2> QED
    BY <2>1 DEF SessionInv
(* What is reported of a connection, and what the connection becomes.       *)
LEMMA ReportFacts ==
  ASSUME NEW c \in Connections, Sound(c), "DELETE" \notin c.state, NEW cmd,
         cmd = NextReport(c), cmd \in {"NEW", "CLOSE", "CLOSE_SRC_TO_DST"}
  PROVE  LET d == AfterReport(c, cmd)
         IN  /\ d.id = c.id /\ d.out = c.out
             /\ cmd = "NEW" <=> "NEW" \in c.state
             /\ "NEW" \in d.state => "NEW" \in c.state
             /\ cmd = "NEW" => "NEW" \notin d.state
             /\ "DELETE" \in d.state <=> cmd = "CLOSE"
             /\ "DELETE" \in c.in => "DELETE" \in d.in
             /\ cmd = "CLOSE_SRC_TO_DST" => "DELETE" \notin c.in /\ "DELETE" \in d.in
             /\ cmd = "CLOSE" => "DELETE" \in c.out
<1> DEFINE d == AfterReport(c, cmd)
<1>1. cmd = "NEW" <=> "NEW" \in c.state
  BY DEF NextReport, IsNewConnection
<1>2. cmd = "CLOSE_SRC_TO_DST" => "DELETE" \notin c.in
  BY DEF NextReport, ShouldCloseIn
<1>3. cmd = "CLOSE" => "DELETE" \in c.out
  <2> SUFFICES ASSUME cmd = "CLOSE"
               PROVE  "DELETE" \in c.out
    OBVIOUS
  <2>1. c.outBuf = <<>> /\ "CLOSED" \in c.state
    BY DEF NextReport, ShouldCloseConnection
  <2>2. "CLOSED" \in c.out
    BY <2>1 DEF Sound, EndsBoth
  <2> QED
    BY <2>1, <2>2 DEF Connections, OutputEndsRightly
<1>4. CASE cmd = "NEW"
  <2>1. /\ d.id = c.id /\ d.state = (c.state \ {"NEW"}) \cup {"STOPPED"}
        /\ d.in = c.in /\ d.out = c.out
    BY <1>4, ReportFields
  <2> HIDE DEF d
  <2> QED
    BY <1>1, <1>4, <2>1 DEF d
<1>5. CASE cmd = "CLOSE"
  <2>1. /\ d.id = c.id /\ d.state = c.state \cup {"DELETE"}
        /\ d.in = c.in /\ d.out = c.out
    BY <1>5, ReportFields
  <2> HIDE DEF d
  <2> QED
    BY <1>1, <1>3, <1>5, <2>1 DEF d
<1>6. CASE cmd = "CLOSE_SRC_TO_DST"
  <2>1. /\ d.id = c.id /\ d.state = c.state
        /\ d.in = c.in \cup {"DELETE"} /\ d.out = c.out
    BY <1>6, ReportFields
  <2> HIDE DEF d
  <2> QED
    BY <1>1, <1>2, <1>6, <2>1 DEF d
<1> QED
  BY <1>4, <1>5, <1>6

(* One more command waits at n, and nothing else changes.                   *)
LEMMA GainsAll ==
  ASSUME NEW n \in Node, NEW h, Gains(n, h), \A m \in Node : m # n => Thins(m),
         NEW cmd, NEW s, NEW i, h.cmd = cmd, h.session = s, h.id = i
  PROVE  /\ \A m \in Node, a \in Cmd, t \in Session :
              Has(m, a, t)' => Has(m, a, t) \/ (m = n /\ a = cmd /\ t = s)
         /\ \A m \in Node, a, b \in Cmd, t, u \in Session :
              Ahead(m, a, t, b, u)' =>
                Ahead(m, a, t, b, u) \/ (m = n /\ b = cmd /\ u = s /\ Has(n, a, t))
         /\ \A m \in Node, a \in Cmd, t \in Session, j \in Id :
              Meant(m, a, t, j)' => Meant(m, a, t, j) \/ (m = n /\ a = cmd /\ t = s /\ j = i)
<1>1. ASSUME NEW m \in Node, NEW a \in Cmd, NEW t \in Session, Has(m, a, t)'
      PROVE  Has(m, a, t) \/ (m = n /\ a = cmd /\ t = s)
  <2>1. CASE m = n
    BY <1>1, <2>1 DEF Gains
  <2>2. CASE m # n
    BY <1>1, <2>2 DEF Thins
  <2> QED
    BY <2>1, <2>2
<1>2. ASSUME NEW m \in Node, NEW a \in Cmd, NEW b \in Cmd, NEW t \in Session, NEW u \in Session,
             Ahead(m, a, t, b, u)'
      PROVE  Ahead(m, a, t, b, u) \/ (m = n /\ b = cmd /\ u = s /\ Has(n, a, t))
  <2>1. CASE m = n
    BY <1>2, <2>1 DEF Gains
  <2>2. CASE m # n
    BY <1>2, <2>2 DEF Thins
  <2> QED
    BY <2>1, <2>2
<1>3. ASSUME NEW m \in Node, NEW a \in Cmd, NEW t \in Session, NEW j \in Id, Meant(m, a, t, j)'
      PROVE  Meant(m, a, t, j) \/ (m = n /\ a = cmd /\ t = s /\ j = i)
  <2>1. CASE m = n
    BY <1>3, <2>1 DEF Gains
  <2>2. CASE m # n
    BY <1>3, <2>2 DEF Thins
  <2> QED
    BY <2>1, <2>2
<1> QED
  BY <1>1, <1>2, <1>3

LEMMA ReportSession ==
  ASSUME Inv, TargetInv, SessionInv, NEW n \in Node, Report(n)
  PROVE  SessionInv'
<1>1. MemoryInv /\ NodeRight(n) /\ phase[n] = "state"
  BY DEF Inv, TargetInv, Report
<1>2. PICK i \in Id, s \in Session :
           LET c   == conns[n][s]
               cmd == NextReport(c)
           IN  /\ s = sorted[n][i] /\ s = Latest(n, i) /\ c \in Connections /\ c # NoConn
               /\ c.id = i /\ "DELETE" \notin c.state
               /\ cmd \in {"NEW", "CLOSE", "CLOSE_SRC_TO_DST"}
               /\ AfterReport(c, cmd) \in Connections
               /\ conns' = [conns EXCEPT ![n][s] = AfterReport(c, cmd)]
               /\ queue' = [queue EXCEPT ![n] = Append(@, Command(cmd, c, s))]
               /\ Len(queue[n]) < QueueSize /\ i = Min(Reports(n))
               /\ cmd = "CLOSE" => /\ Freed(n, i)
                                   /\ sorted' = [sorted EXCEPT ![n][i] = NoSession]
                                   /\ closedBy' = [closedBy EXCEPT ![s] = @ \cup {n}]
               /\ cmd # "CLOSE" => UNCHANGED <<freeIds, sorted, closedBy>>
               /\ \A k \in Node, j \in Id : k # n \/ j # i => sorted'[k][j] = sorted[k][j]
  BY <1>1, ReportGives
<1> DEFINE c == conns[n][s]
           cmd == NextReport(c)
           d == AfterReport(c, cmd)
           h == Command(cmd, c, s)
<1>3. /\ cmd \in {"NEW", "CLOSE", "CLOSE_SRC_TO_DST"} /\ c \in Connections /\ c # NoConn
      /\ c.id = i /\ "DELETE" \notin c.state /\ d \in Connections
  BY <1>2
<1>4. Sound(c)
  BY <1>1, <1>2 DEF NodeRight, AllSound, Live
<1>5. /\ conns'[n][s] = d /\ \A t \in Session : t # s => conns'[n][t] = conns[n][t]
      /\ \A k \in Node : k # n => conns'[k] = conns[k]
  BY <1>1, <1>2 DEF MemoryInv
<1>6. queue'[n] = Append(queue[n], h) /\ \A k \in Node : k # n => queue'[k] = queue[k]
  BY <1>1, <1>2 DEF MemoryInv
<1>7. /\ closedBy' = IF cmd = "CLOSE" THEN [closedBy EXCEPT ![s] = @ \cup {n}] ELSE closedBy
      /\ freeIds' = IF cmd = "CLOSE" /\ n = "client" THEN Pushed(freeIds, i) ELSE freeIds
  <2>1. CASE cmd = "CLOSE"
    <3>1. Freed(n, i) /\ closedBy' = [closedBy EXCEPT ![s] = @ \cup {n}]
      BY <1>2, <2>1
    <3> HIDE DEF cmd
    <3> QED
      BY <2>1, <3>1 DEF Freed
  <2>2. CASE cmd # "CLOSE"
    <3>1. freeIds' = freeIds /\ closedBy' = closedBy
      BY <1>2, <2>2
    <3> HIDE DEF cmd
    <3> QED
      BY <2>2, <3>1
  <2> QED
    BY <2>1, <2>2
<1>8. /\ phase' = phase /\ tun' = tun /\ wire' = wire /\ accepted' = accepted /\ lost' = lost
  BY DEF Report, kernel
<1>9. /\ d.id = c.id /\ d.out = c.out
      /\ cmd = "NEW" <=> "NEW" \in c.state
      /\ "NEW" \in d.state => "NEW" \in c.state
      /\ cmd = "NEW" => "NEW" \notin d.state
      /\ "DELETE" \in d.state <=> cmd = "CLOSE"
      /\ "DELETE" \in c.in => "DELETE" \in d.in
      /\ cmd = "CLOSE_SRC_TO_DST" => "DELETE" \notin c.in /\ "DELETE" \in d.in
      /\ cmd = "CLOSE" => "DELETE" \in c.out
  BY <1>3, <1>4, ReportFacts
<1>10. h \in Commands /\ h.cmd = cmd /\ h.id = i /\ h.session = s
  <2>1. h = [cmd |-> cmd, id |-> i, session |-> s]
    BY <1>3 DEF Command
  <2>2. cmd \in Cmd
    BY <1>3 DEF Cmd
  <2> HIDE DEF h, cmd
  <2> QED
    BY <2>1, <2>2 DEF Commands
<1>11. d # NoConn
  BY <1>3, NoConnIsNone
<1> HIDE DEF h, cmd, d
<1>12. \A m \in Node : OnWay(m)' = OnWay(m)
  BY <1>8 DEF OnWay, TunnelIn
<1>13. Gains(n, h)
  BY <1>1, <1>6, <1>10, <1>12, LineParts, LastWaits
<1>14. \A m \in Node : m # n => Thins(m)
  BY <1>6, <1>12, LineSame
<1>15. /\ \A m \in Node, a \in Cmd, t \in Session :
            Has(m, a, t)' => Has(m, a, t) \/ (m = n /\ a = cmd /\ t = s)
       /\ \A m \in Node, a, b \in Cmd, t, u \in Session :
            Ahead(m, a, t, b, u)' =>
              Ahead(m, a, t, b, u) \/ (m = n /\ b = cmd /\ u = s /\ Has(n, a, t))
       /\ \A m \in Node, a \in Cmd, t \in Session, j \in Id :
            Meant(m, a, t, j)' => Meant(m, a, t, j) \/ (m = n /\ a = cmd /\ t = s /\ j = i)
  BY <1>10, <1>13, <1>14, GainsAll
<1>16. PICK name \in Namings : Tidy(name) /\ (Undisturbed => Agreed)
  BY DEF SessionInv
<1>17. \A m \in Node : IsRunning(m)' <=> IsRunning(m)
  BY <1>8 DEF IsRunning
<1>18. IsRunning(n)
  BY <1>1 DEF IsRunning, Ended
<1>19. \A m \in Node, t \in Session : m # n \/ t # s =>
         /\ t \in Live(m)' <=> t \in Live(m)
         /\ Open(m, t)' <=> Open(m, t)
         /\ Fresh(m, t)' <=> Fresh(m, t)
         /\ SaidEnd(m, t)' <=> SaidEnd(m, t)
         /\ ToldEnd(m, t)' <=> ToldEnd(m, t)
         /\ t \in Live(m) => conns'[m][t].id = conns[m][t].id
  <2>1. \A m \in Node, t \in Session : m # n \/ t # s => conns'[m][t] = conns[m][t]
    BY <1>5
  <2> QED
    BY <2>1 DEF Live, Open, Fresh, SaidEnd, ToldEnd
<1>20. /\ s \in Live(n)' /\ s \in Live(n) /\ conns'[n][s].id = conns[n][s].id
       /\ Open(n, s) /\ (Open(n, s)' <=> cmd # "CLOSE")
       /\ Fresh(n, s) <=> cmd = "NEW"
       /\ ~Fresh(n, s)'
       /\ SaidEnd(n, s) => SaidEnd(n, s)'
       /\ cmd = "CLOSE_SRC_TO_DST" => ~SaidEnd(n, s) /\ SaidEnd(n, s)'
       /\ ToldEnd(n, s)' <=> ToldEnd(n, s)
       /\ cmd = "CLOSE" => ToldEnd(n, s)
  BY <1>3, <1>5, <1>9, <1>11 DEF Live, Open, Fresh, SaidEnd, ToldEnd
<1>21. \A m \in Node, t \in Session : Lasts(m, t)
  <2> SUFFICES ASSUME NEW m \in Node, NEW t \in Session
               PROVE  Lasts(m, t)
    OBVIOUS
  <2>1. CASE m # n \/ t # s
    BY <1>19, <2>1 DEF Lasts
  <2>2. CASE m = n /\ t = s
    BY <1>20, <2>2 DEF Lasts
  <2> QED
    BY <2>1, <2>2
<1>22. "client" \in Node /\ "server" \in Node /\ "client" # "server"
       /\ \A m \in Node : m = "client" \/ m = "server"
  BY DEF Node
<1>23. \A t \in Session : /\ ToldEnd("client", t)' => ToldEnd("client", t)
                          /\ Open("client", t) => Open("client", t)' \/ (n = "client" /\ t = s /\ cmd = "CLOSE")
  BY <1>19, <1>20, <1>22
<1>24. Reported(n, cmd, s)
  <2>1. cmd \in {"NEW", "CLOSE", "CLOSE_SRC_TO_DST"} /\ Open(n, s) /\ IsRunning(n)
    BY <1>3, <1>18, <1>20
  <2>2. /\ cmd = "NEW" <=> Fresh(n, s)
        /\ cmd = "CLOSE_SRC_TO_DST" => ~SaidEnd(n, s) /\ SaidEnd(n, s)'
        /\ cmd = "CLOSE" => ~Open(n, s)' /\ ToldEnd(n, s)
    BY <1>20
  <2> QED
    BY <1>7, <1>15, <1>17, <1>21, <1>23, <2>1, <2>2 DEF Reported
<1>25. Later
  BY <1>1, <1>8, LaterSame
<1>26. ~Early(s)'
  <2>1. CASE n = "client"
    <3>1. s <= accepted
      BY <1>16, <1>20, <2>1 DEF Tidy, ClientLate
    <3>2. s \in Nat /\ accepted \in Nat
      BY <1>1, Constants DEF Session, MemoryInv
    <3> QED
      BY <1>8, <1>20, <2>1, <3>1, <3>2 DEF Early
  <2>2. CASE n = "server"
    <3>1. ~Early(s)
      BY <1>16, <1>20, <2>2 DEF Tidy, EarlyUnknown
    <3>2. \A t \in Session : Lasts("client", t) \/ Arrives(t)
      BY <1>21, <1>22
    <3> QED
      BY <1>25, <3>1, <3>2, EarlyBefore
  <2> QED
    BY <1>22, <2>1, <2>2
<1>27. closedBy \in [Session -> SUBSET Node]
  BY <1>16 DEF Tidy, ClosersAre
<1>28. /\ closedBy' \in [Session -> SUBSET Node]
       /\ \A t \in Session : closedBy[t] \subseteq closedBy'[t]
       /\ \A t \in Session : t # s => closedBy'[t] = closedBy[t]
  BY <1>7, <1>27
<1>29. Tidy(name)'
  <2>1. EndedEmpty'
    <3>1. \A m \in Node : Live(m)' \subseteq Live(m)
      BY <1>21 DEF Lasts, Live
    <3> QED
      BY <1>16, <1>17, <3>1 DEF Tidy, EndedEmpty
  <2>2. ClosersAre'
    BY <1>28 DEF ClosersAre
  <2>3. \A m \in Node, a \in Cmd, t \in Session :
           Has(m, a, t)' => Has(m, a, t) \/ (~Early(t)' /\ ~(m = "server" /\ a = "NEW"))
    <3>1. ~(n = "server" /\ cmd = "NEW")
      BY <1>16, <1>20 DEF Tidy, NewFromClient
    <3> QED
      BY <1>15, <1>26, <3>1
  <2>4. \A m \in Node, a \in Cmd, t \in Session, j \in Id :
           Meant(m, a, t, j)' => Meant(m, a, t, j) \/ j = name[t]
    <3>1. i = name[s]
      BY <1>3, <1>16, <1>20 DEF Tidy, LiveNames
    <3> QED
      BY <1>15, <3>1
  <2>5. \A t \in Session : closedBy'[t] = closedBy[t] \/ ~Early(t)'
    BY <1>26, <1>28
  <2>6. /\ \A t \in Session : Lasts("client", t) \/ Arrives(t)
        /\ \A t \in Session : \/ Lasts("server", t)
                              \/ /\ t \in Live("server")' => conns'["server"][t].id = name[t]
                                 /\ ~Early(t)' /\ ~Fresh("server", t)'
    BY <1>21, <1>22
  <2> QED
    BY <1>16, <1>25, <2>1, <2>2, <2>3, <2>4, <2>5, <2>6, TidyKept
<1>30. ASSUME Undisturbed'
       PROVE  Agreed'
  <2>1. Undisturbed
    <3>1. ClosersAre' /\ (lost => lost')
      BY <1>8, <1>28 DEF ClosersAre
    <3> QED
      BY <1>28, <1>30, <3>1, UndisturbedBefore
  <2>2. Agreed
    BY <1>16, <2>1
  <2>3. CASE n = "client"
    <3>1. freeIds \in Seq(Id) /\ conns["client"][s].id \in Id /\ conns["client"][s].id = i
      BY <1>1, <1>3, <2>3 DEF MemoryInv, Stacks
    <3>2. freeIds' = IF cmd = "CLOSE" THEN Pushed(freeIds, conns["client"][s].id) ELSE freeIds
      BY <1>7, <2>3, <3>1
    <3>3. Reported("client", cmd, s)
      BY <1>24, <2>3
    <3> QED
      BY <1>16, <1>30, <2>2, <3>1, <3>2, <3>3, ClientReports
  <2>4. CASE n = "server"
    <3>1. Reported("server", cmd, s) /\ freeIds' = freeIds
      BY <1>7, <1>22, <1>24, <2>4
    <3> QED
      BY <1>16, <1>30, <2>2, <3>1, ServerReports
  <2> QED
    BY <1>22, <2>3, <2>4
<1>31. Tidy(name)' /\ (Undisturbed' => Agreed')
  BY <1>29, <1>30
<1> QED
  BY <1>31 DEF SessionInv
(* A command is taken from the front of those of the other node.            *)
LEMMA CommandTaken ==
  ASSUME Inv, NEW n \in Node, ReceiveCommand(n), NEW cmd \in Cmd, NEW i \in Id, NEW s \in Session,
         tun[n].inBuf[3] = <<"cmd", cmd, s>>, tun[n].inBuf[4] = <<"arg", i>>
  PROVE  /\ Has(Other(n), cmd, s) /\ Meant(Other(n), cmd, s, i)
         /\ \A d \in Cmd, t \in Session :
              Has(Other(n), d, t)' => Ahead(Other(n), cmd, s, d, t)
         /\ Thins(Other(n)) /\ OnWay(n)' = OnWay(n)
<1> DEFINE o == Other(n)
           buf == TunnelIn(n)
           first == SubSeq(buf, 1, 5)
           rest == SubSeq(buf, 5 + 1, Len(buf))
           x == Says(cmd, s)
<1>1. o \in Node /\ o # n /\ MemoryInv
  BY Nodes DEF Inv
<1>2. /\ Len(buf) >= 5 /\ tun' = [tun EXCEPT ![n].inBuf = rest] /\ wire' = wire
  BY <1>1 DEF ReceiveCommand, CommandSize, TunnelIn, kernel, MemoryInv
<1>3. buf \in Seq(Byte) /\ Len(buf) \in Nat
  BY <1>1, TunnelFields DEF TunnelIn
<1>4. queue'[o] = queue[o] /\ queue[o] \in Seq(Commands)
  BY <1>1, CommandElsewhere, LineParts
<1>5. buf[3] = x /\ buf[4] = Arg(i)
  BY DEF Says, Arg, TunnelIn
<1> HIDE DEF o, buf, x
<1>6. 5 \in 0..Len(buf)
  BY <1>2, <1>3
<1>7. first \in Seq(Byte) /\ Len(first) = 5 /\ \A k \in 1..5 : first[k] = buf[k]
  BY <1>3, <1>6, SeqFirst
<1>8. rest \in Seq(Byte) /\ first \o rest = buf
  BY <1>3, <1>6, SeqRest, SeqSplit
<1> HIDE DEF first, rest
<1>9. first[3] = x /\ first[4] = Arg(i)
  BY <1>5, <1>7
<1>10. Carries(first, x)
  BY <1>7, <1>9 DEF Carries
<1>11. Tells(first, x, i)
  <2>1. 3 \in 1..Len(first) /\ 3 < Len(first) /\ first[3] = x /\ first[3 + 1] = Arg(i)
    BY <1>7, <1>9
  <2> QED
    BY <2>1 DEF Tells
<1>12. TunnelIn(n) = first \o rest
  BY <1>8 DEF buf
<1>13. /\ OnWay(o) = first \o OnWay(o)' /\ OnWay(o)' \in Seq(Byte)
       /\ OnWay(n)' = OnWay(n)
  BY <1>1, <1>2, <1>7, <1>8, <1>12, InputTaken DEF o
<1>14. x \in CmdBytes
  BY SaysIs DEF x
<1>15. /\ Thins(o)
       /\ \A y \in CmdBytes : Carries(first, y) =>
            /\ Carries(Line(o), y)
            /\ \A z \in CmdBytes : Carries(Line(o)', z) => Before(Line(o), y, z)
       /\ \A y, j : Tells(first, y, j) => Tells(OnWay(o), y, j)
  BY <1>1, <1>4, <1>7, <1>13, FrontTaken
<1>16. Has(o, cmd, s)
  BY <1>10, <1>14, <1>15 DEF Has, x
<1>17. Meant(o, cmd, s, i)
  BY <1>11, <1>15 DEF Meant, x
<1>18. ASSUME NEW d \in Cmd, NEW t \in Session, Has(o, d, t)'
       PROVE  Ahead(o, cmd, s, d, t)
  <2>1. Says(d, t) \in CmdBytes
    BY SaysIs
  <2>2. Carries(Line(o)', Says(d, t))
    BY <1>18 DEF Has, Says
  <2>3. Before(Line(o), x, Says(d, t))
    BY <1>10, <1>14, <1>15, <2>1, <2>2
  <2> QED
    BY <2>3 DEF Ahead, x
<1> QED
  BY <1>13, <1>15, <1>16, <1>17, <1>18 DEF o

(* An answer is put in the queue, or given up.                              *)
LEMMA AnswerGains ==
  ASSUME MemoryInv, NEW n \in Node, NEW h \in Commands, Answered(n, h), OnWay(n)' = OnWay(n)
  PROVE  Gains(n, h)
<1>1. OnWay(n) \in Seq(Byte) /\ queue[n] \in Seq(Commands)
  BY LineParts
<1>2. CASE queue'[n] = queue[n]
  <2>1. Thins(n)
    BY <1>2, LineSame
  <2> QED
    BY <2>1 DEF Thins, Gains
<1>3. CASE queue'[n] = Append(queue[n], h)
  BY <1>1, <1>3, LastWaits
<1> QED
  BY <1>2, <1>3 DEF Answered, Queued, MemoryInv

(* What obeying does to the connection.                                     *)
LEMMA ObeyFacts ==
  ASSUME NEW c \in Connections, NEW cmd \in {"ACK", "CLOSE", "CLOSE_SRC_TO_DST"}
  PROVE  LET d == Obey(c, cmd)
         IN  /\ d.id = c.id /\ d.in = c.in /\ d # NoConn
             /\ "NEW" \in d.state => "NEW" \in c.state
             /\ "DELETE" \in c.state => "DELETE" \in d.state
             /\ "DELETE" \in d.state => "DELETE" \in c.state \/ cmd = "CLOSE"
             /\ cmd = "CLOSE" => "DELETE" \in d.state
             /\ "DELETE" \in d.out => "DELETE" \in c.out \/ cmd = "CLOSE_SRC_TO_DST"
<1> DEFINE d == Obey(c, cmd)
<1>1. d # NoConn
  <2>1. "state" \in DOMAIN c
    BY DEF Connections, Record
  <2>2. DOMAIN d = DOMAIN c
    BY DEF Obey
  <2>3. DOMAIN NoConn = {"id"}
    BY DEF NoConn
  <2> HIDE DEF d
  <2> QED
    BY <2>1, <2>2, <2>3
<1>2. CASE cmd = "ACK"
  <2>1. d.id = c.id /\ d.state = c.state \ {"STOPPED"} /\ d.in = c.in /\ d.out = c.out
    BY <1>2, ObeyFields
  <2> HIDE DEF d
  <2> QED
    BY <1>1, <1>2, <2>1 DEF d
<1>3. CASE cmd = "CLOSE"
  <2>1. d.id = c.id /\ d.state = c.state \cup {"DELETE"} /\ d.in = c.in /\ d.out = c.out
    BY <1>3, ObeyFields
  <2> HIDE DEF d
  <2> QED
    BY <1>1, <1>3, <2>1 DEF d
<1>4. CASE cmd = "CLOSE_SRC_TO_DST"
  <2>1. d.id = c.id /\ d.state = c.state /\ d.in = c.in /\ d.out = c.out \cup {"DELETE"}
    BY <1>4, ObeyFields
  <2> HIDE DEF d
  <2> QED
    BY <1>1, <1>4, <2>1 DEF d
<1> QED
  BY <1>2, <1>3, <1>4
(* Obeying is about the session that the command names, until disturbed.    *)
LEMMA ObeyedSession ==
  ASSUME Inv, SessionInv, NEW n \in Node, ReceiveCommand(n),
         NEW cmd \in Cmd, NEW i \in Id, NEW s \in Session,
         tun[n].inBuf[3] = <<"cmd", cmd, s>>, tun[n].inBuf[4] = <<"arg", i>>,
         cmd # "NEW", IsKnown(n, i),
         conns' = [conns EXCEPT ![n][Target(n, i)] = Obey(@, cmd)],
         IF cmd = "CLOSE" THEN Freed(n, i) ELSE UNCHANGED freeIds,
         UNCHANGED <<queue, closedBy>>
  PROVE  SessionInv'
<1> DEFINE o == Other(n)
<1>1. MemoryInv /\ o \in Node /\ o # n /\ \A k \in Node : k = n \/ k = o
  BY Nodes DEF Inv
<1>2. /\ Has(o, cmd, s) /\ Meant(o, cmd, s, i)
      /\ \A b \in Cmd, t \in Session : Has(o, b, t)' => Ahead(o, cmd, s, b, t)
      /\ Thins(o) /\ OnWay(n)' = OnWay(n)
  BY CommandTaken
<1>3. /\ phase[n] = "recv" /\ phase'[n] = "cmds" /\ \A k \in Node : k # n => phase'[k] = phase[k]
      /\ accepted' = accepted /\ lost' = lost
  BY <1>1 DEF ReceiveCommand, FrameAvailable, Receiving, Goto, MemoryInv, kernel
<1>4. IsRunning(n) /\ IsRunning(n)'
  BY <1>3 DEF IsRunning, Ended
<1>5. \A k \in Node : IsRunning(k)' <=> IsRunning(k)
  BY <1>3, <1>4 DEF IsRunning
<1>6. Fades
  <2>1. Thins(n)
    BY <1>2, LineSame
  <2> QED
    BY <1>1, <1>2, <2>1, ThinsAll
<1>7. PICK u \in Session : u = Target(n, i)
  BY TargetIs
<1> DEFINE c == conns[n][u]
           d == Obey(c, cmd)
<1>8. c # NoConn /\ c.id = i /\ c \in Connections
  <2>1. c # NoConn /\ c.id = i
    BY <1>7, TargetIs
  <2> QED
    BY <1>1, <2>1 DEF MemoryInv
<1>9. cmd \in {"ACK", "CLOSE", "CLOSE_SRC_TO_DST"}
  BY DEF Cmd
<1>10. /\ d.id = c.id /\ d.in = c.in /\ d # NoConn
       /\ "NEW" \in d.state => "NEW" \in c.state
       /\ "DELETE" \in c.state => "DELETE" \in d.state
       /\ "DELETE" \in d.state => "DELETE" \in c.state \/ cmd = "CLOSE"
       /\ cmd = "CLOSE" => "DELETE" \in d.state
       /\ "DELETE" \in d.out => "DELETE" \in c.out \/ cmd = "CLOSE_SRC_TO_DST"
  BY <1>8, <1>9, ObeyFacts
<1>11. /\ conns'[n][u] = d /\ \A t \in Session : t # u => conns'[n][t] = conns[n][t]
       /\ conns'[o] = conns[o]
  BY <1>1, <1>8, <1>7 DEF MemoryInv
<1> HIDE DEF o, d
<1>12. \A t \in Session : t # u =>
         /\ t \in Live(n)' <=> t \in Live(n)
         /\ Open(n, t)' <=> Open(n, t)
         /\ Fresh(n, t)' <=> Fresh(n, t)
         /\ SaidEnd(n, t)' <=> SaidEnd(n, t)
         /\ ToldEnd(n, t)' <=> ToldEnd(n, t)
         /\ conns'[n][t].id = conns[n][t].id
  BY <1>11 DEF Live, Open, Fresh, SaidEnd, ToldEnd
<1>13. /\ u \in Live(n)' /\ u \in Live(n) /\ conns'[n][u].id = conns[n][u].id
       /\ Open(n, u)' => Open(n, u)
       /\ Fresh(n, u)' => Fresh(n, u)
       /\ SaidEnd(n, u)' <=> SaidEnd(n, u)
       /\ ToldEnd(n, u)' => ToldEnd(n, u) \/ cmd = "CLOSE_SRC_TO_DST"
       /\ Open(n, u) => Open(n, u)' \/ cmd = "CLOSE"
       /\ cmd = "CLOSE" => ~Open(n, u)'
  BY <1>8, <1>10, <1>11 DEF Live, Open, Fresh, SaidEnd, ToldEnd
<1>14. \A t \in Session : /\ Lasts(o, t) /\ (ToldEnd(o, t)' => ToldEnd(o, t))
                          /\ Open(o, t) => Open(o, t)'
  BY <1>1, <1>11, SameLasts
<1>15. \A t \in Session : Lasts(n, t)
  <2> SUFFICES ASSUME NEW t \in Session
               PROVE  Lasts(n, t)
    OBVIOUS
  <2>1. CASE t = u
    BY <1>13, <2>1 DEF Lasts
  <2>2. CASE t # u
    BY <1>12, <2>2 DEF Lasts
  <2> QED
    BY <2>1, <2>2
<1>16. PICK name \in Namings : Tidy(name) /\ (Undisturbed => Agreed)
  BY DEF SessionInv
<1>17. EndedEmpty'
  <2>1. \A m \in Node : Live(m)' \subseteq Live(m)
    BY <1>1, <1>14, <1>15 DEF Lasts, Live
  <2> QED
    BY <1>5, <1>16, <2>1 DEF Tidy, EndedEmpty
<1>18. Later
  BY <1>1, <1>3, LaterSame
<1>19. CASE n = "server"
  <2>1. o = "client"
    BY <1>19 DEF o, Other
  <2>2. /\ \A t \in Session : (Lasts("client", t) /\ ClientLasts(t)) \/ Arrives(t)
        /\ \A t \in Session : Lasts("server", t)
    BY <1>14, <1>15, <1>19, <2>1 DEF ClientLasts
  <2>3. freeIds' = freeIds
    BY <1>19 DEF Freed
  <2> QED
    BY <1>1, <1>3, <1>5, <1>6, <1>17, <1>18, <2>2, <2>3, QuietSession DEF Quiet
<1>20. CASE n = "client"
  <2>1. o = "server"
    BY <1>20 DEF o, Other
  <2>2. "client" \in Node /\ "server" \in Node
    BY DEF Node
  <2>3. Tidy(name)'
    <3>1. \A t \in Session : Lasts("client", t) \/ Arrives(t)
      BY <1>15, <1>20
    <3>2. \A t \in Session : \/ Lasts("server", t)
                             \/ /\ t \in Live("server")' => conns'["server"][t].id = name[t]
                                /\ ~Early(t)' /\ ~Fresh("server", t)'
      BY <1>14, <2>1
    <3>3. \A m \in Node, b \in Cmd, t \in Session :
           Has(m, b, t)' => Has(m, b, t) \/ (~Early(t)' /\ ~(m = "server" /\ b = "NEW"))
      BY <1>6 DEF Fades
    <3>4. \A m \in Node, b \in Cmd, t \in Session, j \in Id :
           Meant(m, b, t, j)' => Meant(m, b, t, j) \/ j = name[t]
      BY <1>6 DEF Fades
    <3>5. ClosersAre' /\ \A t \in Session : closedBy'[t] = closedBy[t] \/ ~Early(t)'
      BY <1>16 DEF Tidy, ClosersAre
    <3> QED
      BY <1>16, <1>17, <1>18, <3>1, <3>2, <3>3, <3>4, <3>5, TidyKept
  <2>4. ASSUME Undisturbed'
        PROVE  Agreed'
    <3>1. Agreed
      BY <1>3, <1>16, <2>4 DEF Undisturbed
    <3>2. Has("server", cmd, s)
      BY <1>2, <2>1 DEF o
    <3>3. Open("client", s)
      BY <1>4, <1>20, <3>1, <3>2 DEF Agreed, CommandsFindOpen
    <3>4. conns["client"][s].id = i /\ s \in Live("client")
      <4>1. i = name[s]
        BY <1>1, <1>2, <1>16 DEF Tidy, MeantNames, o
      <4>2. s \in Live("client")
        BY <3>3 DEF Open
      <4> QED
        BY <1>16, <2>2, <4>1, <4>2 DEF Tidy, LiveNames
    <3>5. u = s
      <4>1. i # NoId
        BY Constants DEF Id, NoId
      <4>2. u \in Live("client") /\ conns["client"][u].id = i
        BY <1>8, <1>13, <1>20
      <4> QED
        BY <1>8, <3>1, <3>4, <4>1, <4>2 DEF Agreed, ClientIdsUnique
    <3>6. Came("server", cmd, s)
      <4>1. \A b \in Cmd, t \in Session : Has("server", b, t)' => Ahead("server", cmd, s, b, t)
        BY <1>2, <2>1 DEF o
      <4> QED
        BY <1>6, <3>2, <4>1 DEF Came
    <3>7. \A m \in Node, t \in Session : Lasts(m, t)
      BY <1>1, <1>14, <1>15
    <3>8. \A t \in Session : /\ ToldEnd("client", t)' =>
                                  ToldEnd("client", t) \/ (t = s /\ cmd = "CLOSE_SRC_TO_DST")
                             /\ Open("client", t) => Open("client", t)' \/ (t = s /\ cmd = "CLOSE")
      BY <1>12, <1>13, <1>20, <3>5
    <3>9. cmd = "CLOSE" => ~Open("client", s)'
      BY <1>13, <1>20, <3>5
    <3>10. freeIds' = IF cmd = "CLOSE" THEN Pushed(freeIds, conns["client"][s].id) ELSE freeIds
      BY <1>20, <3>4 DEF Freed
    <3>11. IsRunning("client") /\ IsRunning("client")' /\ closedBy' = closedBy
      BY <1>4, <1>20
    <3>12. freeIds \in Seq(Id) /\ conns["client"][s].id \in Id
      BY <1>1, <3>4 DEF MemoryInv, Stacks
    <3> QED
      BY <1>16, <3>1, <3>6, <3>7, <3>8, <3>9, <3>10, <3>11, <3>12, ClientObeys
  <2>5. Tidy(name)' /\ (Undisturbed' => Agreed')
    BY <2>3, <2>4
  <2> QED
    BY <2>5 DEF SessionInv
<1> QED
  BY <1>19, <1>20 DEF Node

(* The server connects to the service, or gives up the session.             *)
LEMMA AnsweredSession ==
  ASSUME Inv, SessionInv, NEW n \in Node, ReceiveCommand(n),
         NEW i \in Id, NEW s \in Session,
         tun[n].inBuf[3] = <<"cmd", "NEW", s>>, tun[n].inBuf[4] = <<"arg", i>>,
         NEW answer \in {"ACK", "CLOSE"},
         Answered(n, [cmd |-> answer, id |-> i, session |-> s]), freeIds' = freeIds,
         answer = "ACK" => /\ conns' = [conns EXCEPT ![n][s] = MakeConnection(i, {})]
                           /\ closedBy' = closedBy,
         answer = "CLOSE" => /\ conns' = conns
                             /\ closedBy' = [closedBy EXCEPT ![s] = @ \cup {n}]
  PROVE  SessionInv'
<1> DEFINE o == Other(n)
           h == [cmd |-> answer, id |-> i, session |-> s]
           d == MakeConnection(i, {})
<1>1. MemoryInv /\ o \in Node /\ o # n /\ \A k \in Node : k = n \/ k = o
  BY Nodes DEF Inv
<1>2. "NEW" \in Cmd /\ answer \in Cmd /\ answer # "NEW"
  BY DEF Cmd
<1>3. /\ Has(o, "NEW", s) /\ Meant(o, "NEW", s, i)
      /\ \A b \in Cmd, t \in Session : Has(o, b, t)' => Ahead(o, "NEW", s, b, t)
      /\ Thins(o) /\ OnWay(n)' = OnWay(n)
  BY <1>2, CommandTaken
<1>4. PICK name \in Namings : Tidy(name) /\ (Undisturbed => Agreed)
  BY DEF SessionInv
<1>5. n = "server" /\ o = "client"
  BY <1>1, <1>3, <1>4 DEF Tidy, NewFromClient, o, Other, Node
<1>6. /\ phase[n] = "recv" /\ phase'[n] = "cmds" /\ \A k \in Node : k # n => phase'[k] = phase[k]
      /\ accepted' = accepted /\ lost' = lost
  BY <1>1 DEF ReceiveCommand, FrameAvailable, Receiving, Goto, MemoryInv, kernel
<1>7. \A k \in Node : IsRunning(k)' <=> IsRunning(k)
  <2>1. IsRunning(n) /\ IsRunning(n)'
    BY <1>6 DEF IsRunning, Ended
  <2> QED
    BY <1>6, <2>1 DEF IsRunning
<1>8. h \in Commands /\ h.cmd = answer /\ h.session = s /\ h.id = i
  BY <1>2 DEF Commands
<1>9. Answered(n, h)
  OBVIOUS
<1> HIDE DEF h, o
<1>10. Gains(n, h)
  BY <1>1, <1>3, <1>8, <1>9, AnswerGains
<1>11. /\ \A m \in Node, a \in Cmd, t \in Session :
              Has(m, a, t)' => Has(m, a, t) \/ (m = n /\ a = answer /\ t = s)
       /\ \A m \in Node, a, b \in Cmd, t, u \in Session :
              Ahead(m, a, t, b, u)' =>
                Ahead(m, a, t, b, u) \/ (m = n /\ b = answer /\ u = s /\ Has(n, a, t))
       /\ \A m \in Node, a \in Cmd, t \in Session, j \in Id :
              Meant(m, a, t, j)' => Meant(m, a, t, j) \/ (m = n /\ a = answer /\ t = s /\ j = i)
  <2>1. \A m \in Node : m # n => Thins(m)
    BY <1>1, <1>3 DEF o
  <2> QED
    BY <1>8, <1>10, <2>1, GainsAll
<1>12. /\ conns'[o] = conns[o] /\ \A t \in Session : t # s => conns'[n][t] = conns[n][t]
       /\ answer = "CLOSE" => conns'[n][s] = conns[n][s]
       /\ answer = "ACK" => conns'[n][s] = d
  BY <1>1 DEF MemoryInv
<1>13. \A t \in Session : /\ Lasts("client", t) /\ (ToldEnd("client", t)' => ToldEnd("client", t))
                          /\ Open("client", t) => Open("client", t)'
  BY <1>1, <1>5, <1>12, SameLasts
<1>14. \A t \in Session : Lasts("client", t) /\ ClientLasts(t)
  BY <1>13 DEF ClientLasts
<1>15. /\ \A t \in Session : t # s => Lasts("server", t)
       /\ answer = "CLOSE" => Lasts("server", s)
  <2>1. \A t \in Session : conns'["server"][t] = conns["server"][t] => Lasts("server", t)
    BY DEF Lasts, Live, Open, Fresh, SaidEnd
  <2> QED
    BY <1>5, <1>12, <2>1
<1>16. answer = "ACK" => conns'["server"][s].id = i /\ ~Fresh("server", s)'
  <2>1. d.id = i /\ d.state = {}
    BY MadeFields
  <2> HIDE DEF d
  <2> QED
    BY <1>5, <1>12, <2>1 DEF Fresh
<1>17. Later
  BY <1>1, <1>6, LaterSame
<1>18. ~Early(s)'
  <2>1. ~Early(s)
    BY <1>1, <1>2, <1>3, <1>4 DEF Tidy, EarlyUnknown, o
  <2>2. \A t \in Session : Lasts("client", t) \/ Arrives(t)
    BY <1>14
  <2> QED
    BY <1>17, <2>1, <2>2, EarlyBefore
<1>19. i = name[s]
  BY <1>1, <1>2, <1>3, <1>4 DEF Tidy, MeantNames, o
<1>20. closedBy \in [Session -> SUBSET Node]
  BY <1>4 DEF Tidy, ClosersAre
<1>21. closedBy' = IF answer = "CLOSE" THEN [closedBy EXCEPT ![s] = @ \cup {"server"}]
                                       ELSE closedBy
  BY <1>5
<1>22. /\ closedBy' \in [Session -> SUBSET Node]
       /\ \A t \in Session : closedBy[t] \subseteq closedBy'[t]
       /\ \A t \in Session : t # s => closedBy'[t] = closedBy[t]
  BY <1>20, <1>21 DEF Node
<1>23. Tidy(name)'
  <2>1. EndedEmpty'
    <3>1. Live("client")' = Live("client")
      BY <1>5, <1>12 DEF Live
    <3>2. IsRunning("server")
      BY <1>5, <1>6 DEF IsRunning, Ended
    <3> QED
      BY <1>4, <1>7, <3>1, <3>2 DEF Tidy, EndedEmpty, Node
  <2>2. ClosersAre'
    BY <1>22 DEF ClosersAre
  <2>3. \A m \in Node, a \in Cmd, t \in Session :
           Has(m, a, t)' => Has(m, a, t) \/ (~Early(t)' /\ ~(m = "server" /\ a = "NEW"))
    BY <1>2, <1>11, <1>18
  <2>4. \A m \in Node, a \in Cmd, t \in Session, j \in Id :
           Meant(m, a, t, j)' => Meant(m, a, t, j) \/ j = name[t]
    BY <1>11, <1>19
  <2>5. \A t \in Session : closedBy'[t] = closedBy[t] \/ ~Early(t)'
    BY <1>18, <1>22
  <2>6. \A t \in Session : Lasts("client", t) \/ Arrives(t)
    BY <1>14
  <2>7. \A t \in Session : \/ Lasts("server", t)
                           \/ /\ t \in Live("server")' => conns'["server"][t].id = name[t]
                              /\ ~Early(t)' /\ ~Fresh("server", t)'
    BY <1>15, <1>16, <1>18, <1>19
  <2> QED
    BY <1>4, <1>17, <2>1, <2>2, <2>3, <2>4, <2>5, <2>6, <2>7, TidyKept
<1>24. ASSUME Undisturbed'
       PROVE  Agreed'
  <2>1. Undisturbed
    <3>1. ClosersAre' /\ (lost => lost')
      BY <1>6, <1>22 DEF ClosersAre
    <3> QED
      BY <1>22, <1>24, <3>1, UndisturbedBefore
  <2>2. Agreed
    BY <1>4, <2>1
  <2>3. "client" \in Node /\ "server" \in Node /\ "client" # "server"
    BY DEF Node
  <2>4. Has("client", "NEW", s)
    BY <1>3, <1>5
  <2>5. \A b \in Cmd, t \in Session : Has("client", b, t)' =>
            Ahead("client", "NEW", s, b, t) /\ Has("client", b, t)
    BY <1>3, <1>5 DEF Thins
  <2>6. \A a, b \in Cmd, t, u \in Session :
            Ahead("client", a, t, b, u)' => Ahead("client", a, t, b, u)
    BY <1>3, <1>5 DEF Thins
  <2>7. \A a \in Cmd, t \in Session :
            Has("server", a, t)' => Has("server", a, t) \/ (a = answer /\ t = s)
    BY <1>11, <2>3
  <2>8. \A a, b \in Cmd, t, u \in Session :
            Ahead("server", a, t, b, u)' =>
              Ahead("server", a, t, b, u) \/ (Has("server", a, t) /\ u = s)
    BY <1>5, <1>11, <2>3
  <2>9. answer = "CLOSE" => s \notin Live("server")'
    <3>1. s \notin Live("server")
      BY <2>2, <2>4 DEF Agreed, NewIsFirst
    <3> QED
      BY <1>15, <3>1 DEF Lasts
  <2>10. \A t \in Session : t # s => Lasts("server", t)
    BY <1>15
  <2> QED
    BY <1>4, <1>7, <1>14, <1>21, <2>2, <2>4, <2>5, <2>6, <2>7, <2>8, <2>9, <2>10, ServerAnswers
<1>25. Tidy(name)' /\ (Undisturbed' => Agreed')
  BY <1>23, <1>24
<1> QED
  BY <1>25 DEF SessionInv
LEMMA ReceiveCommandSession ==
  ASSUME Inv, SessionInv, NEW n \in Node, ReceiveCommand(n)
  PROVE  SessionInv'
<1>1. PICK cmd \in Cmd, i \in Id, s \in Session :
           /\ tun[n].inBuf[3][2] = cmd /\ tun[n].inBuf[4][2] = i /\ tun[n].inBuf[3][3] = s
           /\ tun[n].inBuf[3] = <<"cmd", cmd, s>> /\ tun[n].inBuf[4] = <<"arg", i>>
           /\ \/ /\ cmd = "NEW" /\ ~IsKnown(n, i) /\ freeIds' = freeIds
                 /\ conns' = [conns EXCEPT ![n][s] = MakeConnection(i, {})]
                 /\ Answered(n, [cmd |-> "ACK", id |-> i, session |-> s])
                 /\ closedBy' = closedBy
              \/ /\ cmd = "NEW" /\ ~IsKnown(n, i) /\ freeIds' = freeIds
                 /\ "connect" \in Faults
                 /\ Answered(n, [cmd |-> "CLOSE", id |-> i, session |-> s])
                 /\ closedBy' = [closedBy EXCEPT ![s] = @ \cup {n}]
                 /\ conns' = conns
              \/ /\ cmd # "NEW" /\ IsKnown(n, i)
                 /\ conns' = [conns EXCEPT ![n][Target(n, i)] = Obey(@, cmd)]
                 /\ IF cmd = "CLOSE" THEN Freed(n, i) ELSE UNCHANGED freeIds
                 /\ UNCHANGED <<queue, closedBy>>
              \/ /\ cmd = "NEW" <=> IsKnown(n, i)
                 /\ UNCHANGED <<conns, freeIds, queue, closedBy>>
  BY CommandGives
<1>2. tun[n].inBuf[3] = <<"cmd", cmd, s>> /\ tun[n].inBuf[4] = <<"arg", i>>
  BY <1>1
<1>3. CASE /\ cmd = "NEW" /\ freeIds' = freeIds
           /\ conns' = [conns EXCEPT ![n][s] = MakeConnection(i, {})]
           /\ Answered(n, [cmd |-> "ACK", id |-> i, session |-> s])
           /\ closedBy' = closedBy
  <2>1. tun[n].inBuf[3] = <<"cmd", "NEW", s>>
    BY <1>2, <1>3
  <2> QED
    BY <1>2, <1>3, <2>1, AnsweredSession
<1>4. CASE /\ cmd = "NEW" /\ freeIds' = freeIds
           /\ Answered(n, [cmd |-> "CLOSE", id |-> i, session |-> s])
           /\ closedBy' = [closedBy EXCEPT ![s] = @ \cup {n}]
           /\ conns' = conns
  <2>1. tun[n].inBuf[3] = <<"cmd", "NEW", s>>
    BY <1>2, <1>4
  <2> QED
    BY <1>2, <1>4, <2>1, AnsweredSession
<1>5. CASE /\ cmd # "NEW" /\ IsKnown(n, i)
           /\ conns' = [conns EXCEPT ![n][Target(n, i)] = Obey(@, cmd)]
           /\ IF cmd = "CLOSE" THEN Freed(n, i) ELSE UNCHANGED freeIds
           /\ UNCHANGED <<queue, closedBy>>
  BY <1>2, <1>5, ObeyedSession
<1>6. CASE UNCHANGED <<conns, freeIds, queue, closedBy>>
  <2>1. MemoryInv /\ \A k \in Node : k = n \/ k = Other(n)
    BY Nodes DEF Inv
  <2>2. Thins(Other(n)) /\ OnWay(n)' = OnWay(n)
    BY <1>2, CommandTaken
  <2>3. Thins(n)
    BY <1>6, <2>2, LineSame
  <2>4. Fades
    BY <2>1, <2>2, <2>3, ThinsAll
  <2>5. /\ phase[n] = "recv" /\ phase'[n] = "cmds" /\ \A k \in Node : k # n => phase'[k] = phase[k]
        /\ accepted' = accepted /\ lost' = lost
    BY <2>1 DEF ReceiveCommand, FrameAvailable, Receiving, Goto, MemoryInv, kernel
  <2>6. IsRunning(n) /\ IsRunning(n)'
    BY <2>5 DEF IsRunning, Ended
  <2> QED
    BY <1>6, <2>1, <2>4, <2>5, <2>6, StillSession
<1> QED
  BY <1>1, <1>3, <1>4, <1>5, <1>6

LEMMA InitSession == Init => SessionInv
<1> SUFFICES ASSUME Init
             PROVE  SessionInv
  OBVIOUS
<1> DEFINE name == [s \in Session |-> NoId]
           e == <<>>
<1>1. \A n \in Node : Live(n) = {} /\ IsRunning(n)
  BY DEF Init, Live, IsRunning, Ended
<1>2. accepted = 0 /\ closedBy = [s \in Session |-> {}] /\ ~lost
  BY DEF Init
<1>3. \A n \in Node : TunnelIn(n) = e /\ tun[n].outBuf = e /\ wire[n] = e /\ queue[n] = e
  BY DEF Init, TunnelIn, MakeConnection
<1>4. e \in Seq(Byte) /\ e \o e = e /\ Len(e) = 0
  <2>1. e \in Seq(Byte) /\ Len(e) = 0
    BY EmptySeq
  <2> QED
    BY <2>1, ConcatEmptySeq
<1> HIDE DEF e
<1>5. \A n \in Node : OnWay(n) = e
  BY <1>3, <1>4, Nodes DEF OnWay
<1>6. Waiting(e) = e
  <2>1. e \in Seq(Commands)
    BY EmptySeq DEF e
  <2>2. Waiting(e) \in Seq(Byte) /\ Len(Waiting(e)) = 0
    BY <1>4, <2>1, WaitingIs
  <2> QED
    BY <2>2, EmptySeq DEF e
<1>7. \A n \in Node : Line(n) = e
  BY <1>3, <1>4, <1>5, <1>6 DEF Line
<1>8. \A n \in Node, c \in Cmd, s \in Session : ~Has(n, c, s)
  BY <1>4, <1>7 DEF Has, Carries
<1>9. \A n \in Node, c, d \in Cmd, s, t \in Session : ~Ahead(n, c, s, d, t)
  BY <1>4, <1>7 DEF Ahead, Before
<1>10. \A n \in Node, c \in Cmd, s \in Session, i \in Id : ~Meant(n, c, s, i)
  BY <1>3, <1>4, <1>5 DEF Meant, Tells
<1>11. \A n \in Node, s \in Session :
         /\ s \notin Live(n) /\ ~Open(n, s) /\ ~Fresh(n, s) /\ ~SaidEnd(n, s) /\ ~ToldEnd(n, s)
  BY <1>1 DEF Open, Fresh, SaidEnd, ToldEnd
<1>12. name \in Namings /\ \A s \in Session : name[s] = NoId
  BY DEF Namings
<1> HIDE DEF name
<1>13. "client" \in Node /\ "server" \in Node
  BY DEF Node
<1>14. {"NEW", "ACK", "CLOSE_SRC_TO_DST", "CLOSE"} \subseteq Cmd
  BY DEF Cmd
<1>15. Tidy(name)
  <2>1. LiveNames(name) /\ MeantNames(name) /\ LateNames(name)
    BY <1>10, <1>11, <1>12 DEF LiveNames, MeantNames, LateNames
  <2>2. ClientLate /\ EarlyUnknown /\ NewFromClient
    BY <1>2, <1>8, <1>11, <1>13, <1>14 DEF ClientLate, EarlyUnknown, NewFromClient
  <2>3. EndedEmpty /\ ClosersAre
    BY <1>1, <1>2 DEF EndedEmpty, ClosersAre
  <2> QED
    BY <2>1, <2>2, <2>3 DEF Tidy
<1>16. Agreed
  <2>1. InOrder /\ ClosesAreKnown /\ ClosedAreNotOpen /\ EndsAreSaid /\ NewIsFirst
    BY <1>8, <1>9, <1>11, <1>13, <1>14
       DEF InOrder, ClosesAreKnown, ClosedAreNotOpen, EndsAreSaid, NewIsFirst
  <2>2. FreshNotTold /\ CommandsFindOpen /\ ToldIsLast /\ OpenAtBoth /\ UnsaidOpenAtBoth
    BY <1>8, <1>11, <1>13
       DEF FreshNotTold, CommandsFindOpen, ToldIsLast, OpenAtBoth, UnsaidOpenAtBoth
  <2>3. ClientIdsUnique
    BY <1>11, <1>13 DEF ClientIdsUnique
  <2>4. FreeIdsAreFree
    <3>1. InUse = {}
      BY <1>1, <1>13 DEF InUse
    <3>2. freeIds = [i \in Id |-> MaxId + 1 - i]
      BY DEF Init
    <3>3. Id \subseteq Nat /\ MaxId \in Nat
      BY Constants DEF Id
    <3>4. \A i, j \in DOMAIN freeIds : freeIds[i] = freeIds[j] => i = j
      BY <3>2, <3>3
    <3> QED
      BY <3>1, <3>4 DEF FreeIdsAreFree
  <2> QED
    BY <2>1, <2>2, <2>3, <2>4 DEF Agreed
<1>17. Tidy(name) /\ (Undisturbed => Agreed)
  BY <1>15, <1>16
<1> QED
  BY <1>12, <1>17 DEF SessionInv

LEMMA NextSession == Inv /\ TargetInv /\ SessionInv /\ [Next]_vars => SessionInv'
<1> SUFFICES ASSUME Inv, TargetInv, SessionInv, [Next]_vars
             PROVE  SessionInv'
  OBVIOUS
<1>1. MemoryInv
  BY DEF Inv
<1>2. CASE UNCHANGED vars
  <2>1. /\ conns' = conns /\ tun' = tun /\ wire' = wire /\ queue' = queue /\ freeIds' = freeIds
        /\ phase' = phase /\ accepted' = accepted /\ closedBy' = closedBy /\ lost' = lost
    BY <1>2 DEF vars, pump, kernel, history
  <2>2. Fades
    BY <2>1, NoneMoved
  <2>3. \A k \in Node :
          /\ \A s \in Session : /\ Lasts(k, s) /\ (ToldEnd(k, s)' => ToldEnd(k, s))
                                /\ Open(k, s) => Open(k, s)'
          /\ Live(k)' = Live(k)
    BY <2>1, SameLasts
  <2>4. \A k \in Node : IsRunning(k)' <=> IsRunning(k)
    BY <2>1 DEF IsRunning
  <2>5. EndedEmpty'
    BY <2>3, <2>4 DEF SessionInv, Tidy, EndedEmpty
  <2>6. "client" \in Node /\ "server" \in Node
    BY DEF Node
  <2>7. /\ \A s \in Session : (Lasts("client", s) /\ ClientLasts(s)) \/ Arrives(s)
        /\ \A s \in Session : Lasts("server", s)
    BY <2>3, <2>6 DEF ClientLasts
  <2>8. Later
    BY <1>1, <2>1, LaterSame
  <2> QED
    BY <1>1, <2>1, <2>2, <2>4, <2>5, <2>7, <2>8, QuietSession DEF Quiet
<1>3. ASSUME NEW n \in Node, StateChanges(n)
      PROVE  SessionInv'
  <2>1. CASE StateShutdown(n)
    <3>1. "stopped" \in Ended
      BY Zenon DEF Ended
    <3> QED
      BY <2>1, <3>1, EndSession DEF StateShutdown
  <2>2. CASE StateAgain(n)
    <3>1. /\ conns' = conns /\ tun' = tun /\ wire' = wire /\ accepted' = accepted
          /\ queue' = queue /\ freeIds' = freeIds /\ closedBy' = closedBy /\ lost' = lost
          /\ phase[n] = "state" /\ phase'[n] = "enter"
          /\ \A k \in Node : k # n => phase'[k] = phase[k]
      BY <1>1, <2>2 DEF StateAgain, UpdateReturns, Goto, MemoryInv, kernel, pump, history
    <3>2. IsRunning(n) /\ IsRunning(n)'
      BY <3>1 DEF IsRunning, Ended
    <3> QED
      BY <3>1, <3>2, GoOnSession
  <2>3. CASE StateOk(n)
    <3>1. /\ conns' = conns /\ tun' = tun /\ wire' = wire /\ accepted' = accepted
          /\ queue' = queue /\ freeIds' = freeIds /\ closedBy' = closedBy /\ lost' = lost
          /\ phase[n] = "state" /\ phase'[n] = "recv"
          /\ \A k \in Node : k # n => phase'[k] = phase[k]
      BY <1>1, <2>3 DEF StateOk, Goto, MemoryInv, kernel, pump, history
    <3>2. IsRunning(n) /\ IsRunning(n)'
      BY <3>1 DEF IsRunning, Ended
    <3> QED
      BY <3>1, <3>2, GoOnSession
  <2> QED
    BY <1>3, <2>1, <2>2, <2>3, ReportSession DEF StateChanges
<1>4. ASSUME NEW n \in Node, Recv(n)
      PROVE  SessionInv'
  <2>1. CASE ReceiveNothing(n)
    <3>1. /\ conns' = conns /\ tun' = tun /\ wire' = wire /\ accepted' = accepted
          /\ queue' = queue /\ freeIds' = freeIds /\ closedBy' = closedBy /\ lost' = lost
          /\ phase[n] = "recv" /\ phase'[n] = "cmds"
          /\ \A k \in Node : k # n => phase'[k] = phase[k]
      BY <1>1, <2>1 DEF ReceiveNothing, Goto, MemoryInv, kernel, pump, history
    <3>2. IsRunning(n) /\ IsRunning(n)'
      BY <3>1 DEF IsRunning, Ended
    <3> QED
      BY <3>1, <3>2, GoOnSession
  <2>2. CASE ReceiveFails(n)
    <3>1. Failure(n) = "closed connection"
      BY <2>2, FailsRight
    <3>2. Failure(n) \in Ended /\ End(n, Failure(n))
      BY <2>2, <3>1, Zenon DEF ReceiveFails, Ended
    <3> QED
      BY <3>2, EndSession
  <2> QED
    BY <1>4, <2>1, <2>2, ContinueSession, ReceiveCommandSession, ReceiveDataSession DEF Recv
<1>5. ASSUME NEW n \in Node, Transfer(n)
      PROVE  SessionInv'
  <2>1. CASE CommandsSent(n)
    <3>1. /\ conns' = conns /\ tun' = tun /\ wire' = wire /\ accepted' = accepted
          /\ queue' = queue /\ freeIds' = freeIds /\ closedBy' = closedBy /\ lost' = lost
          /\ phase[n] = "cmds" /\ phase'[n] = "data"
          /\ \A k \in Node : k # n => phase'[k] = phase[k]
      BY <1>1, <2>1 DEF CommandsSent, Goto, MemoryInv, kernel, pump, history
    <3>2. IsRunning(n) /\ IsRunning(n)'
      BY <3>1 DEF IsRunning, Ended
    <3> QED
      BY <3>1, <3>2, GoOnSession
  <2>2. CASE EncodeRefused(n)
    <3>1. /\ conns' = conns /\ tun' = tun /\ wire' = wire /\ accepted' = accepted
          /\ queue' = queue /\ freeIds' = freeIds /\ closedBy' = closedBy /\ lost' = lost
          /\ phase[n] = "data" /\ phase'[n] = "enter"
          /\ \A k \in Node : k # n => phase'[k] = phase[k]
      BY <1>1, <2>2 DEF EncodeRefused, UpdateReturns, Goto, MemoryInv, kernel, history
    <3>2. IsRunning(n) /\ IsRunning(n)'
      BY <3>1 DEF IsRunning, Ended
    <3> QED
      BY <3>1, <3>2, GoOnSession
  <2>3. CASE RoundDone(n)
    <3>1. /\ conns' = conns /\ tun' = tun /\ wire' = wire /\ accepted' = accepted
          /\ queue' = queue /\ freeIds' = freeIds /\ closedBy' = closedBy /\ lost' = lost
          /\ phase[n] = "data" /\ phase'[n] = "enter"
          /\ \A k \in Node : k # n => phase'[k] = phase[k]
      BY <1>1, <2>3 DEF RoundDone, UpdateReturns, Goto, MemoryInv, kernel, pump, history
    <3>2. IsRunning(n) /\ IsRunning(n)'
      BY <3>1 DEF IsRunning, Ended
    <3> QED
      BY <3>1, <3>2, GoOnSession
  <2> QED
    BY <1>5, <2>1, <2>2, <2>3, SendCommandSession, LoseCommandSession, EncodeDataSession
       DEF Transfer
<1>6. ASSUME NEW n \in Node, PollReturnsUser(n)
      PROVE  SessionInv'
  <2>1. "stopped" \in Ended
    BY Zenon DEF Ended
  <2> QED
    BY <1>6, <2>1, EndSession DEF PollReturnsUser
<1>7. ASSUME NEW n \in Node, Signal(n)
      PROVE  SessionInv'
  <2>1. /\ conns' = conns /\ tun' = tun /\ wire' = wire /\ accepted' = accepted
        /\ queue' = queue /\ freeIds' = freeIds /\ closedBy' = closedBy /\ lost' = lost
        /\ phase' = phase /\ IsRunning(n)
    BY <1>7 DEF Signal, pump, history
  <2>2. IsRunning(n)'
    BY <2>1 DEF IsRunning
  <2> QED
    BY <2>1, <2>2, GoOnSession
<1>8. ASSUME NEW n \in Node, SortConnections(n)
      PROVE  SessionInv'
  <2>1. CASE n = "client"
    BY <1>8, <2>1, SortClientSession
  <2>2. CASE n = "server"
    BY <1>8, <2>2, SortServerSession
  <2> QED
    BY <2>1, <2>2 DEF Node
<1>9. ASSUME NEW n \in Node, Update(n)
      PROVE  SessionInv'
  BY <1>3, <1>4, <1>5, <1>8, <1>9, EnterPollSession DEF Update
<1> QED
  BY <1>2, <1>6, <1>7, <1>9, PollReturnsSession DEF Next

(* At any moment a session has one identifier, at both nodes and in the     *)
(* commands about it, and until disturbed the nodes agree on what has been  *)
(* said about it.                                                           *)
THEOREM SessionsHaveOneName == Spec => [](Inv /\ TargetInv /\ SessionInv)
<1>1. Init => Inv /\ TargetInv /\ SessionInv
  BY InitInv, InitRight, InitSession
<1>2. Inv /\ TargetInv /\ SessionInv /\ [Next]_vars => (Inv /\ TargetInv /\ SessionInv)'
  BY NextKeeps, NextRight, NextSession
<1> QED
  BY <1>1, <1>2, PTL DEF Spec

(* Until disturbed an identifier is free or used by exactly one connection. *)
THEOREM IdsAreDisciplined == Spec => []IdsDisciplined
<1>1. SessionInv => IdsDisciplined
  <2> SUFFICES ASSUME SessionInv, Undisturbed
               PROVE  /\ FreeIdsAreFree
                      /\ \A s, t \in InUse : conns["client"][s].id = conns["client"][t].id => s = t
    BY DEF IdsDisciplined
  <2>1. FreeIdsAreFree /\ ClientIdsUnique
    BY DEF SessionInv, Agreed
  <2>2. \A s \in InUse : s \in Session /\ s \in Live("client") /\ conns["client"][s].id # NoId
    BY DEF InUse, Live
  <2> QED
    BY <2>1, <2>2 DEF ClientIdsUnique
<1> QED
  BY <1>1, SessionsHaveOneName, PTL
-----------------------------------------------------------------------------
(* Which command comes first, in a sequence that may be cut                 *)

(* Every y in L has an x before it.                                         *)
Behind(L, x, y) ==
  \A k \in 1..Len(L) : L[k] = y => \E j \in 1..Len(L) : j < k /\ L[j] = x

(* Every y that comes after an m has an x before it.                        *)
Parted(L, m, x, y) ==
  \A j, k \in 1..Len(L) : j < k /\ L[j] = m /\ L[k] = y =>
    \E l \in 1..Len(L) : l < k /\ L[l] = x

LEMMA NotCarried ==
  ASSUME NEW L, NEW y, ~Carries(L, y)
  PROVE  \A m, x : Behind(L, x, y) /\ Parted(L, m, x, y)
BY DEF Carries, Behind, Parted

LEMMA BehindConcat ==
  ASSUME NEW S, NEW a \in Seq(S), NEW b \in Seq(S), NEW x, NEW y
  PROVE  Behind(a \o b, x, y) <=> Behind(a, x, y) /\ (Carries(a, x) \/ Behind(b, x, y))
<1> DEFINE c == a \o b
<1>1. /\ Len(c) = Len(a) + Len(b) /\ Len(a) \in Nat /\ Len(b) \in Nat
      /\ \A k \in 1..Len(a) : c[k] = a[k]
      /\ \A k \in 1..Len(b) : c[Len(a) + k] = b[k]
      /\ \A k \in 1..Len(c) : k > Len(a) => k - Len(a) \in 1..Len(b) /\ c[k] = b[k - Len(a)]
  BY ConcatIs
<1> HIDE DEF c
<1>2. ASSUME Behind(c, x, y), NEW k \in 1..Len(a), a[k] = y
      PROVE  \E j \in 1..Len(a) : j < k /\ a[j] = x
  <2>1. k \in 1..Len(c) /\ c[k] = y
    BY <1>1, <1>2
  <2>2. PICK j \in 1..Len(c) : j < k /\ c[j] = x
    BY <1>2, <2>1 DEF Behind
  <2>3. j \in 1..Len(a) /\ a[j] = x
    BY <1>1, <2>2
  <2> QED
    BY <2>2, <2>3
<1>3. ASSUME Behind(c, x, y), ~Carries(a, x), NEW k \in 1..Len(b), b[k] = y
      PROVE  \E j \in 1..Len(b) : j < k /\ b[j] = x
  <2>1. Len(a) + k \in 1..Len(c) /\ c[Len(a) + k] = y
    BY <1>1, <1>3
  <2>2. PICK j \in 1..Len(c) : j < Len(a) + k /\ c[j] = x
    BY <1>3, <2>1 DEF Behind
  <2>3. j > Len(a)
    <3>1. CASE j \in 1..Len(a)
      BY <1>1, <1>3, <2>2, <3>1 DEF Carries
    <3> QED
      BY <1>1, <3>1
  <2>4. j - Len(a) \in 1..Len(b) /\ b[j - Len(a)] = x /\ j - Len(a) < k
    BY <1>1, <2>2, <2>3
  <2> QED
    BY <2>4
<1>4. ASSUME Behind(a, x, y), Carries(a, x) \/ Behind(b, x, y), NEW k \in 1..Len(c), c[k] = y
      PROVE  \E j \in 1..Len(c) : j < k /\ c[j] = x
  <2>1. CASE k \in 1..Len(a)
    <3>1. PICK j \in 1..Len(a) : j < k /\ a[j] = x
      BY <1>1, <1>4, <2>1 DEF Behind
    <3>2. j \in 1..Len(c) /\ c[j] = x
      BY <1>1, <3>1
    <3> QED
      BY <3>1, <3>2
  <2>2. CASE k > Len(a) /\ Carries(a, x)
    <3>1. PICK j \in 1..Len(a) : a[j] = x
      BY <2>2 DEF Carries
    <3>2. j \in 1..Len(c) /\ c[j] = x /\ j < k
      BY <1>1, <2>2, <3>1
    <3> QED
      BY <3>2
  <2>3. CASE k > Len(a) /\ Behind(b, x, y)
    <3>1. k - Len(a) \in 1..Len(b) /\ b[k - Len(a)] = y
      BY <1>1, <1>4, <2>3
    <3>2. PICK j \in 1..Len(b) : j < k - Len(a) /\ b[j] = x
      BY <2>3, <3>1 DEF Behind
    <3>3. Len(a) + j \in 1..Len(c) /\ c[Len(a) + j] = x /\ Len(a) + j < k
      BY <1>1, <3>2
    <3> QED
      BY <3>3
  <2> QED
    BY <1>1, <1>4, <2>1, <2>2, <2>3
<1>5. Behind(c, x, y) => Behind(a, x, y) /\ (Carries(a, x) \/ Behind(b, x, y))
  BY <1>2, <1>3 DEF Behind
<1>6. Behind(a, x, y) /\ (Carries(a, x) \/ Behind(b, x, y)) => Behind(c, x, y)
  BY <1>4 DEF Behind
<1> QED
  BY <1>5, <1>6 DEF c

LEMMA PartedConcat ==
  ASSUME NEW S, NEW a \in Seq(S), NEW b \in Seq(S), NEW m, NEW x, NEW y
  PROVE  Parted(a \o b, m, x, y) <=>
           /\ Parted(a, m, x, y)
           /\ Carries(a, x) \/ (Parted(b, m, x, y) /\ (Carries(a, m) => Behind(b, x, y)))
<1> DEFINE c == a \o b
<1>1. /\ Len(c) = Len(a) + Len(b) /\ Len(a) \in Nat /\ Len(b) \in Nat
      /\ \A k \in 1..Len(a) : c[k] = a[k]
      /\ \A k \in 1..Len(b) : c[Len(a) + k] = b[k]
      /\ \A k \in 1..Len(c) : k > Len(a) => k - Len(a) \in 1..Len(b) /\ c[k] = b[k - Len(a)]
  BY ConcatIs
<1> HIDE DEF c
<1>2. ASSUME Parted(c, m, x, y), NEW j \in 1..Len(a), NEW k \in 1..Len(a), j < k, a[j] = m, a[k] = y
      PROVE  \E l \in 1..Len(a) : l < k /\ a[l] = x
  <2>1. j \in 1..Len(c) /\ k \in 1..Len(c) /\ c[j] = m /\ c[k] = y
    BY <1>1, <1>2
  <2>2. PICK l \in 1..Len(c) : l < k /\ c[l] = x
    BY <1>2, <2>1 DEF Parted
  <2>3. l \in 1..Len(a) /\ a[l] = x
    BY <1>1, <2>2
  <2> QED
    BY <2>2, <2>3
<1>3. ASSUME ~Carries(a, x), NEW k \in 1..Len(b), NEW l \in 1..Len(c), l < Len(a) + k, c[l] = x
      PROVE  \E i \in 1..Len(b) : i < k /\ b[i] = x
  <2>1. l > Len(a)
    <3>1. CASE l \in 1..Len(a)
      BY <1>1, <1>3, <3>1 DEF Carries
    <3> QED
      BY <1>1, <3>1
  <2>2. l - Len(a) \in 1..Len(b) /\ b[l - Len(a)] = x /\ l - Len(a) < k
    BY <1>1, <1>3, <2>1
  <2> QED
    BY <2>2
<1>4. ASSUME Parted(c, m, x, y), ~Carries(a, x),
             NEW j \in 1..Len(b), NEW k \in 1..Len(b), j < k, b[j] = m, b[k] = y
      PROVE  \E l \in 1..Len(b) : l < k /\ b[l] = x
  <2>1. /\ Len(a) + j \in 1..Len(c) /\ Len(a) + k \in 1..Len(c) /\ Len(a) + j < Len(a) + k
        /\ c[Len(a) + j] = m /\ c[Len(a) + k] = y
    BY <1>1, <1>4
  <2>2. PICK l \in 1..Len(c) : l < Len(a) + k /\ c[l] = x
    BY <1>4, <2>1 DEF Parted
  <2> QED
    BY <1>3, <1>4, <2>2
<1>5. ASSUME Parted(c, m, x, y), ~Carries(a, x), Carries(a, m), NEW k \in 1..Len(b), b[k] = y
      PROVE  \E l \in 1..Len(b) : l < k /\ b[l] = x
  <2>1. PICK j \in 1..Len(a) : a[j] = m
    BY <1>5 DEF Carries
  <2>2. /\ j \in 1..Len(c) /\ Len(a) + k \in 1..Len(c) /\ j < Len(a) + k
        /\ c[j] = m /\ c[Len(a) + k] = y
    BY <1>1, <1>5, <2>1
  <2>3. PICK l \in 1..Len(c) : l < Len(a) + k /\ c[l] = x
    BY <1>5, <2>2 DEF Parted
  <2> QED
    BY <1>3, <1>5, <2>3
<1>6. ASSUME Parted(a, m, x, y),
             Carries(a, x) \/ (Parted(b, m, x, y) /\ (Carries(a, m) => Behind(b, x, y))),
             NEW j \in 1..Len(c), NEW k \in 1..Len(c), j < k, c[j] = m, c[k] = y
      PROVE  \E l \in 1..Len(c) : l < k /\ c[l] = x
  <2>1. CASE k \in 1..Len(a)
    <3>1. j \in 1..Len(a) /\ a[j] = m /\ a[k] = y
      BY <1>1, <1>6, <2>1
    <3>2. PICK l \in 1..Len(a) : l < k /\ a[l] = x
      BY <1>6, <2>1, <3>1 DEF Parted
    <3>3. l \in 1..Len(c) /\ c[l] = x
      BY <1>1, <3>2
    <3> QED
      BY <3>2, <3>3
  <2>2. CASE k > Len(a) /\ Carries(a, x)
    <3>1. PICK l \in 1..Len(a) : a[l] = x
      BY <2>2 DEF Carries
    <3>2. l \in 1..Len(c) /\ c[l] = x /\ l < k
      BY <1>1, <2>2, <3>1
    <3> QED
      BY <3>2
  <2>3. CASE k > Len(a) /\ ~Carries(a, x)
    <3>1. k - Len(a) \in 1..Len(b) /\ b[k - Len(a)] = y
      BY <1>1, <1>6, <2>3
    <3>2. \E i \in 1..Len(b) : i < k - Len(a) /\ b[i] = x
      <4>1. CASE j \in 1..Len(a)
        <5>1. Carries(a, m)
          BY <1>1, <1>6, <4>1 DEF Carries
        <5>2. Behind(b, x, y)
          BY <1>6, <2>3, <5>1
        <5> QED
          BY <3>1, <5>2 DEF Behind
      <4>2. CASE j > Len(a)
        <5>1. j - Len(a) \in 1..Len(b) /\ b[j - Len(a)] = m /\ j - Len(a) < k - Len(a)
          BY <1>1, <1>6, <4>2
        <5>2. Parted(b, m, x, y)
          BY <1>6, <2>3
        <5> QED
          BY <3>1, <5>1, <5>2 DEF Parted
      <4> QED
        BY <1>1, <4>1, <4>2
    <3>3. PICK i \in 1..Len(b) : i < k - Len(a) /\ b[i] = x
      BY <3>2
    <3>4. Len(a) + i \in 1..Len(c) /\ c[Len(a) + i] = x /\ Len(a) + i < k
      BY <1>1, <3>3
    <3> QED
      BY <3>4
  <2> QED
    BY <1>1, <1>6, <2>1, <2>2, <2>3
<1>7. Parted(c, m, x, y) => Parted(a, m, x, y)
  BY <1>2 DEF Parted
<1>8. Parted(c, m, x, y) /\ ~Carries(a, x) => Parted(b, m, x, y)
  BY <1>4 DEF Parted
<1>9. Parted(c, m, x, y) /\ ~Carries(a, x) /\ Carries(a, m) => Behind(b, x, y)
  BY <1>5 DEF Behind
<1>10. Parted(a, m, x, y)
         /\ (Carries(a, x) \/ (Parted(b, m, x, y) /\ (Carries(a, m) => Behind(b, x, y))))
         => Parted(c, m, x, y)
  BY <1>6 DEF Parted
<1> QED
  BY <1>7, <1>8, <1>9, <1>10 DEF c

(* Two sequences that say the same.                                         *)
Alike(L, M) ==
  /\ \A x \in CmdBytes : Carries(L, x) <=> Carries(M, x)
  /\ \A x, y \in CmdBytes : Behind(L, x, y) <=> Behind(M, x, y)
  /\ \A m, x, y \in CmdBytes : Parted(L, m, x, y) <=> Parted(M, m, x, y)

LEMMA AlikeSame == \A L : Alike(L, L)
BY DEF Alike

LEMMA AlikeConcat ==
  ASSUME NEW a \in Seq(Byte), NEW b \in Seq(Byte), NEW c \in Seq(Byte), NEW d \in Seq(Byte),
         Alike(a, c), Alike(b, d)
  PROVE  Alike(a \o b, c \o d)
<1>1. \A x \in CmdBytes : Carries(a \o b, x) <=> Carries(c \o d, x)
  <2> SUFFICES ASSUME NEW x \in CmdBytes
               PROVE  Carries(a \o b, x) <=> Carries(c \o d, x)
    OBVIOUS
  <2>1. /\ Carries(a \o b, x) <=> Carries(a, x) \/ Carries(b, x)
        /\ Carries(c \o d, x) <=> Carries(c, x) \/ Carries(d, x)
    BY CarriesConcat
  <2> QED
    BY <2>1 DEF Alike
<1>2. \A x, y \in CmdBytes : Behind(a \o b, x, y) <=> Behind(c \o d, x, y)
  <2> SUFFICES ASSUME NEW x \in CmdBytes, NEW y \in CmdBytes
               PROVE  Behind(a \o b, x, y) <=> Behind(c \o d, x, y)
    OBVIOUS
  <2>1. /\ Behind(a \o b, x, y) <=> Behind(a, x, y) /\ (Carries(a, x) \/ Behind(b, x, y))
        /\ Behind(c \o d, x, y) <=> Behind(c, x, y) /\ (Carries(c, x) \/ Behind(d, x, y))
    BY BehindConcat
  <2> QED
    BY <2>1 DEF Alike
<1>3. \A m, x, y \in CmdBytes : Parted(a \o b, m, x, y) <=> Parted(c \o d, m, x, y)
  <2> SUFFICES ASSUME NEW m \in CmdBytes, NEW x \in CmdBytes, NEW y \in CmdBytes
               PROVE  Parted(a \o b, m, x, y) <=> Parted(c \o d, m, x, y)
    OBVIOUS
  <2>1. Parted(a \o b, m, x, y) <=>
          /\ Parted(a, m, x, y)
          /\ Carries(a, x) \/ (Parted(b, m, x, y) /\ (Carries(a, m) => Behind(b, x, y)))
    BY PartedConcat
  <2>2. Parted(c \o d, m, x, y) <=>
          /\ Parted(c, m, x, y)
          /\ Carries(c, x) \/ (Parted(d, m, x, y) /\ (Carries(c, m) => Behind(d, x, y)))
    BY PartedConcat
  <2>3. /\ Carries(a, x) <=> Carries(c, x)
        /\ Carries(a, m) <=> Carries(c, m)
        /\ Behind(b, x, y) <=> Behind(d, x, y)
        /\ Parted(a, m, x, y) <=> Parted(c, m, x, y)
        /\ Parted(b, m, x, y) <=> Parted(d, m, x, y)
    BY DEF Alike
  <2> QED
    BY <2>1, <2>2, <2>3
<1> QED
  BY <1>1, <1>2, <1>3 DEF Alike

LEMMA AlikeSilent ==
  ASSUME NEW f, NEW g, \A x \in CmdBytes : ~Carries(f, x) /\ ~Carries(g, x)
  PROVE  Alike(f, g)
<1>1. \A y \in CmdBytes : \A m, x : /\ Behind(f, x, y) /\ Parted(f, m, x, y)
                                    /\ Behind(g, x, y) /\ Parted(g, m, x, y)
  BY NotCarried
<1> QED
  BY <1>1 DEF Alike

(* A sequence that says one thing.                                          *)
LEMMA OneSaid ==
  ASSUME NEW L, NEW b \in CmdBytes, \A x \in CmdBytes : Carries(L, x) <=> x = b,
         \A x, y \in CmdBytes : ~Before(L, x, y)
  PROVE  /\ \A x, y \in CmdBytes : Behind(L, x, y) <=> y # b
         /\ \A m, x, y \in CmdBytes : Parted(L, m, x, y)
<1>1. ASSUME NEW x \in CmdBytes, NEW y \in CmdBytes
      PROVE  Behind(L, x, y) <=> y # b
  <2>1. CASE y # b
    <3>1. ~Carries(L, y)
      BY <2>1
    <3> QED
      BY <2>1, <3>1, NotCarried
  <2>2. CASE y = b
    <3>1. PICK k \in 1..Len(L) : L[k] = y
      BY <2>2 DEF Carries
    <3>2. ~Before(L, x, y)
      OBVIOUS
    <3> QED
      BY <2>2, <3>1, <3>2 DEF Before, Behind
  <2> QED
    BY <2>1, <2>2
<1>2. \A m, x, y \in CmdBytes : Parted(L, m, x, y)
  BY DEF Parted, Before
<1> QED
  BY <1>1, <1>2

LEMMA OneAlike ==
  ASSUME NEW L, NEW M, NEW b \in CmdBytes,
         \A x \in CmdBytes : Carries(L, x) <=> x = b, \A x, y \in CmdBytes : ~Before(L, x, y),
         \A x \in CmdBytes : Carries(M, x) <=> x = b, \A x, y \in CmdBytes : ~Before(M, x, y)
  PROVE  Alike(L, M)
<1>1. /\ \A x, y \in CmdBytes : Behind(L, x, y) <=> y # b
      /\ \A m, x, y \in CmdBytes : Parted(L, m, x, y)
  BY OneSaid
<1>2. /\ \A x, y \in CmdBytes : Behind(M, x, y) <=> y # b
      /\ \A m, x, y \in CmdBytes : Parted(M, m, x, y)
  BY OneSaid
<1> QED
  BY <1>1, <1>2 DEF Alike
-----------------------------------------------------------------------------
(* What is said when bytes move                                             *)

LEMMA SaidAlone ==
  ASSUME NEW c \in Cmd, NEW s \in Session
  PROVE  /\ Says(c, s) \in CmdBytes /\ <<Says(c, s)>> \in Seq(Byte)
         /\ \A x : Carries(<<Says(c, s)>>, x) <=> x = Says(c, s)
         /\ \A x, y : ~Before(<<Says(c, s)>>, x, y)
<1> DEFINE x == Says(c, s)
           b == <<x>>
<1>1. x \in CmdBytes /\ x \in Byte
  BY SaysIs
<1> HIDE DEF x
<1>2. b \in Seq(Byte) /\ Len(b) = 1 /\ b[1] = x
  BY <1>1
<1> HIDE DEF b
<1>3. (\A y : Carries(b, y) <=> y = x) /\ \A y, z : ~Before(b, y, z)
  BY <1>2 DEF Carries, Before
<1> QED
  BY <1>1, <1>2, <1>3 DEF b, x

LEMMA FirstWaits ==
  ASSUME NEW q \in Seq(Commands), q # <<>>
  PROVE  /\ Head(q).cmd \in Cmd /\ Head(q).session \in Session
         /\ Tail(q) \in Seq(Commands) /\ Head(q) \in Commands
         /\ Waiting(q) = <<Says(Head(q).cmd, Head(q).session)>> \o Waiting(Tail(q))
<1> DEFINE x == Says(Head(q).cmd, Head(q).session)
           b == <<x>>
           w == Waiting(q)
           v == Waiting(Tail(q))
<1>1. /\ Head(q) \in Commands /\ Tail(q) \in Seq(Commands) /\ Len(Tail(q)) = Len(q) - 1
      /\ \A k \in 1..Len(Tail(q)) : Tail(q)[k] = q[k + 1]
  BY HeadTailProperties
<1>2. Len(q) \in Nat /\ Len(q) > 0 /\ Head(q) = q[1]
  BY EmptySeq
<1>3. /\ w \in Seq(Byte) /\ Len(w) = Len(q)
      /\ \A k \in 1..Len(q) : w[k] = Says(q[k].cmd, q[k].session)
  BY WaitingIs
<1>4. /\ v \in Seq(Byte) /\ Len(v) = Len(Tail(q))
      /\ \A k \in 1..Len(Tail(q)) : v[k] = Says(Tail(q)[k].cmd, Tail(q)[k].session)
  BY <1>1, WaitingIs
<1>5. Head(q).cmd \in Cmd /\ Head(q).session \in Session
  BY <1>1 DEF Commands
<1>6. b \in Seq(Byte) /\ Len(b) = 1 /\ b[1] = x
  BY <1>5, SaysIs
<1>7. w[1] = x /\ \A k \in 1..Len(v) : v[k] = w[k + 1]
  <2>1. w[1] = x
    BY <1>2, <1>3
  <2>2. ASSUME NEW k \in 1..Len(v)
        PROVE  v[k] = w[k + 1]
    <3>1. k \in 1..Len(Tail(q)) /\ k + 1 \in 1..Len(q)
      BY <1>1, <1>2, <1>4
    <3>2. v[k] = Says(Tail(q)[k].cmd, Tail(q)[k].session)
      BY <1>4, <3>1
    <3>3. w[k + 1] = Says(q[k + 1].cmd, q[k + 1].session)
      BY <1>3, <3>1
    <3> QED
      BY <1>1, <3>1, <3>2, <3>3
  <2> QED
    BY <2>1, <2>2
<1> HIDE DEF x, b, w, v
<1>8. /\ b \o v \in Seq(Byte) /\ Len(b \o v) = 1 + Len(v)
      /\ \A k \in 1..(1 + Len(v)) : (b \o v)[k] = IF k <= 1 THEN b[k] ELSE v[k - 1]
  <2>1. /\ b \o v \in Seq(Byte) /\ Len(b \o v) = Len(b) + Len(v)
        /\ \A k \in 1..(Len(b) + Len(v)) :
             (b \o v)[k] = IF k <= Len(b) THEN b[k] ELSE v[k - Len(b)]
    BY <1>4, <1>6, ConcatProperties
  <2> QED
    BY <1>6, <2>1
<1>9. Len(w) = Len(b \o v) /\ Len(v) \in Nat
  BY <1>1, <1>2, <1>3, <1>4, <1>8
<1>10. \A k \in 1..Len(w) : w[k] = (b \o v)[k]
  <2> SUFFICES ASSUME NEW k \in 1..Len(w)
               PROVE  w[k] = (b \o v)[k]
    OBVIOUS
  <2>1. CASE k = 1
    BY <1>6, <1>7, <1>8, <1>9, <2>1
  <2>2. CASE k # 1
    <3>1. k - 1 \in 1..Len(v) /\ k \in 1..(1 + Len(v)) /\ ~(k <= 1) /\ (k - 1) + 1 = k
      BY <1>8, <1>9, <2>2
    <3>2. (b \o v)[k] = v[k - 1]
      BY <1>8, <3>1
    <3>3. v[k - 1] = w[(k - 1) + 1]
      BY <1>7, <3>1
    <3> QED
      BY <3>1, <3>2, <3>3
  <2> QED
    BY <2>1, <2>2
<1>11. w = b \o v
  BY <1>3, <1>8, <1>9, <1>10, SeqEqual
<1> QED
  BY <1>1, <1>5, <1>11 DEF w, b, v, x

LEMMA NextWaits ==
  ASSUME NEW q \in Seq(Commands), NEW h \in Commands
  PROVE  Waiting(Append(q, h)) = Waiting(q) \o <<Says(h.cmd, h.session)>>
<1> DEFINE x == Says(h.cmd, h.session)
           b == <<x>>
           p == Append(q, h)
           w == Waiting(q)
           v == Waiting(p)
<1>1. /\ p \in Seq(Commands) /\ Len(p) = Len(q) + 1 /\ Len(q) \in Nat
      /\ (\A k \in 1..Len(q) : p[k] = q[k]) /\ p[Len(q) + 1] = h
  OBVIOUS
<1> HIDE DEF p
<1>2. /\ w \in Seq(Byte) /\ Len(w) = Len(q)
      /\ \A k \in 1..Len(q) : w[k] = Says(q[k].cmd, q[k].session)
  BY WaitingIs
<1>3. /\ v \in Seq(Byte) /\ Len(v) = Len(p)
      /\ \A k \in 1..Len(p) : v[k] = Says(p[k].cmd, p[k].session)
  BY <1>1, WaitingIs
<1>4. h.cmd \in Cmd /\ h.session \in Session
  BY DEF Commands
<1>5. b \in Seq(Byte) /\ Len(b) = 1 /\ b[1] = x
  BY <1>4, SaysIs
<1>6. v[Len(w) + 1] = x
  <2>1. Len(q) + 1 \in 1..Len(p)
    BY <1>1
  <2> QED
    BY <1>1, <1>2, <1>3, <2>1
<1>7. \A k \in 1..Len(w) : v[k] = w[k]
  <2> SUFFICES ASSUME NEW k \in 1..Len(w)
               PROVE  v[k] = w[k]
    OBVIOUS
  <2>1. k \in 1..Len(q) /\ k \in 1..Len(p)
    BY <1>1, <1>2
  <2>2. v[k] = Says(p[k].cmd, p[k].session) /\ w[k] = Says(q[k].cmd, q[k].session)
    BY <1>2, <1>3, <2>1
  <2> QED
    BY <1>1, <2>1, <2>2
<1> HIDE DEF x, b, w, v
<1>8. /\ w \o b \in Seq(Byte) /\ Len(w \o b) = Len(w) + 1
      /\ \A k \in 1..(Len(w) + 1) : (w \o b)[k] = IF k <= Len(w) THEN w[k] ELSE b[k - Len(w)]
  <2>1. /\ w \o b \in Seq(Byte) /\ Len(w \o b) = Len(w) + Len(b)
        /\ \A k \in 1..(Len(w) + Len(b)) :
             (w \o b)[k] = IF k <= Len(w) THEN w[k] ELSE b[k - Len(w)]
    BY <1>2, <1>5, ConcatProperties
  <2> QED
    BY <1>5, <2>1
<1>9. Len(v) = Len(w \o b) /\ Len(w) \in Nat
  BY <1>1, <1>2, <1>3, <1>8
<1>10. \A k \in 1..Len(v) : v[k] = (w \o b)[k]
  <2> SUFFICES ASSUME NEW k \in 1..Len(v)
               PROVE  v[k] = (w \o b)[k]
    OBVIOUS
  <2>1. CASE k = Len(w) + 1
    <3>1. k - Len(w) = 1 /\ ~(k <= Len(w)) /\ k \in 1..(Len(w) + 1)
      BY <1>9, <2>1
    <3>2. (w \o b)[k] = b[1]
      BY <1>8, <3>1
    <3> QED
      BY <1>5, <1>6, <2>1, <3>2
  <2>2. CASE k # Len(w) + 1
    <3>1. k \in 1..Len(w) /\ k \in 1..(Len(w) + 1) /\ k <= Len(w)
      BY <1>8, <1>9, <2>2
    <3> QED
      BY <1>7, <1>8, <3>1
  <2> QED
    BY <2>1, <2>2
<1>11. v = w \o b
  BY <1>3, <1>8, <1>9, <1>10, SeqEqual
<1> QED
  BY <1>11 DEF w, b, v, x, p

(* Bytes that say nothing are put behind.                                   *)
LEMMA SilenceAlike ==
  ASSUME NEW m \in Node, NEW f \in Seq(Byte), OnWay(m) \in Seq(Byte),
         OnWay(m)' = OnWay(m) \o f, queue'[m] = queue[m], queue[m] \in Seq(Commands),
         \A x \in CmdBytes : ~Carries(f, x)
  PROVE  Alike(Line(m)', Line(m))
<1> DEFINE a == OnWay(m)
           w == Waiting(queue[m])
<1>1. w \in Seq(Byte) /\ a \in Seq(Byte)
  BY WaitingIs
<1>2. Line(m)' = (a \o f) \o w /\ Line(m) = a \o w
  BY DEF Line
<1> HIDE DEF a, w
<1>3. <<>> \in Seq(Byte) /\ a \o <<>> = a /\ \A x : ~Carries(<<>>, x)
  BY <1>1, ConcatEmptySeq, EmptySeq DEF Carries
<1>4. Alike(f, <<>>)
  BY <1>3, AlikeSilent
<1>5. Alike(a \o f, a \o <<>>)
  BY <1>1, <1>3, <1>4, AlikeSame, AlikeConcat
<1>6. a \o f \in Seq(Byte) /\ Alike(a \o f, a)
  BY <1>1, <1>3, <1>5, ConcatProperties
<1>7. Alike((a \o f) \o w, a \o w)
  BY <1>1, <1>6, AlikeSame, AlikeConcat
<1> QED
  BY <1>2, <1>7

(* A command goes from the queue into the tunnel.                           *)
LEMMA SentAlike ==
  ASSUME NEW m \in Node, OnWay(m) \in Seq(Byte), queue[m] \in Seq(Commands), queue[m] # <<>>,
         OnWay(m)' = OnWay(m) \o CommandFrame(Head(queue[m])), queue'[m] = Tail(queue[m])
  PROVE  Alike(Line(m)', Line(m))
<1> DEFINE q == queue[m]
           h == Head(q)
           F == CommandFrame(h)
           b == <<Says(h.cmd, h.session)>>
           a == OnWay(m)
           v == Waiting(Tail(q))
<1>1. /\ h.cmd \in Cmd /\ h.session \in Session /\ Tail(q) \in Seq(Commands) /\ h \in Commands
      /\ Waiting(q) = b \o v
  BY FirstWaits
<1>2. Line(m)' = (a \o F) \o v /\ Line(m) = a \o (b \o v) /\ a \in Seq(Byte)
  BY <1>1 DEF Line
<1>3. v \in Seq(Byte)
  BY <1>1, WaitingIs
<1> HIDE DEF h
<1>4. /\ Says(h.cmd, h.session) \in CmdBytes /\ b \in Seq(Byte)
      /\ \A x : Carries(b, x) <=> x = Says(h.cmd, h.session)
      /\ \A x, y : ~Before(b, x, y)
  BY <1>1, SaidAlone
<1>5. /\ F \in Seq(Byte) /\ Len(F) = 5
      /\ \A x \in CmdBytes : Carries(F, x) => x = Says(h.cmd, h.session)
      /\ \A x, y \in CmdBytes : ~Before(F, x, y)
  BY <1>1, FrameSays
<1>6. Carries(F, Says(h.cmd, h.session))
  <2>1. 3 \in 1..Len(F) /\ F[3] = Says(h.cmd, h.session)
    BY <1>5 DEF CommandFrame, Says
  <2> QED
    BY <2>1 DEF Carries
<1> HIDE DEF a, b, v, F
<1>7. Alike(F, b)
  <2>1. \A x \in CmdBytes : Carries(F, x) <=> x = Says(h.cmd, h.session)
    BY <1>5, <1>6
  <2>2. \A x, y \in CmdBytes : ~Before(b, x, y)
    BY <1>4
  <2>3. \A x \in CmdBytes : Carries(b, x) <=> x = Says(h.cmd, h.session)
    BY <1>4
  <2> QED
    BY <1>4, <1>5, <2>1, <2>2, <2>3, OneAlike
<1>8. a \o F \in Seq(Byte) /\ a \o b \in Seq(Byte) /\ Alike(a \o F, a \o b)
  <2>1. Alike(a \o F, a \o b)
    BY <1>2, <1>4, <1>5, <1>7, AlikeSame, AlikeConcat
  <2>2. a \o F \in Seq(Byte) /\ a \o b \in Seq(Byte)
    BY <1>2, <1>4, <1>5, ConcatProperties
  <2> QED
    BY <2>1, <2>2
<1>9. Alike((a \o F) \o v, (a \o b) \o v)
  BY <1>3, <1>8, AlikeSame, AlikeConcat
<1>10. (a \o b) \o v = a \o (b \o v)
  BY <1>2, <1>3, <1>4, BytesRegroup DEF Regroups
<1> QED
  BY <1>2, <1>9, <1>10

(* The first bytes are taken.                                               *)
LEMMA FrontOff ==
  ASSUME NEW m \in Node, NEW f \in Seq(Byte), OnWay(m)' \in Seq(Byte),
         OnWay(m) = f \o OnWay(m)', queue'[m] = queue[m], queue[m] \in Seq(Commands)
  PROVE  Line(m) = f \o Line(m)' /\ Line(m)' \in Seq(Byte)
<1> DEFINE a == OnWay(m)'
           w == Waiting(queue[m])
<1>1. w \in Seq(Byte) /\ a \in Seq(Byte)
  BY WaitingIs
<1>2. Line(m)' = a \o w /\ Line(m) = (f \o a) \o w
  BY DEF Line
<1> HIDE DEF a, w
<1>3. (f \o a) \o w = f \o (a \o w)
  BY <1>1, BytesRegroup DEF Regroups
<1>4. a \o w \in Seq(Byte)
  BY <1>1, ConcatProperties
<1> QED
  BY <1>2, <1>3, <1>4

(* One more command waits.                                                  *)
LEMMA LastSaid ==
  ASSUME NEW m \in Node, NEW h \in Commands, OnWay(m) \in Seq(Byte), OnWay(m)' = OnWay(m),
         queue[m] \in Seq(Commands), queue'[m] = Append(queue[m], h)
  PROVE  Line(m)' = Line(m) \o <<Says(h.cmd, h.session)>> /\ Line(m) \in Seq(Byte)
<1> DEFINE a == OnWay(m)
           w == Waiting(queue[m])
           b == <<Says(h.cmd, h.session)>>
<1>1. Waiting(Append(queue[m], h)) = w \o b
  BY NextWaits
<1>2. w \in Seq(Byte) /\ a \in Seq(Byte)
  BY WaitingIs
<1>3. b \in Seq(Byte)
  <2>1. h.cmd \in Cmd /\ h.session \in Session
    BY DEF Commands
  <2> QED
    BY <2>1, SaidAlone
<1>4. Line(m)' = a \o (w \o b) /\ Line(m) = a \o w
  BY <1>1 DEF Line
<1> HIDE DEF a, w, b
<1>5. (a \o w) \o b = a \o (w \o b)
  BY <1>2, <1>3, BytesRegroup DEF Regroups
<1>6. a \o w \in Seq(Byte)
  BY <1>2, ConcatProperties
<1> QED
  BY <1>4, <1>5, <1>6 DEF b

(* The last bytes are lost, and what has not been sent, too.                *)
LEMMA RestOff ==
  ASSUME NEW m \in Node, NEW f \in Seq(Byte), OnWay(m)' \in Seq(Byte),
         OnWay(m) = OnWay(m)' \o f, queue'[m] = <<>>, queue[m] \in Seq(Commands)
  PROVE  \E g \in Seq(Byte) : Line(m) = Line(m)' \o g /\ Line(m)' \in Seq(Byte)
<1> DEFINE a == OnWay(m)'
           w == Waiting(queue[m])
           e == Waiting(<<>>)
<1>1. w \in Seq(Byte) /\ a \in Seq(Byte)
  BY WaitingIs
<1>2. <<>> \in Seq(Commands) /\ Len(<<>>) = 0
  BY EmptySeq
<1>3. e \in Seq(Byte) /\ Len(e) = 0
  BY <1>2, WaitingIs
<1>4. e = <<>>
  BY <1>3, EmptySeq
<1>5. Line(m)' = a \o e /\ Line(m) = (a \o f) \o w
  BY DEF Line
<1> HIDE DEF a, w, e
<1>6. a \o e = a
  BY <1>1, <1>4, ConcatEmptySeq
<1>7. (a \o f) \o w = a \o (f \o w)
  BY <1>1, BytesRegroup DEF Regroups
<1>8. f \o w \in Seq(Byte)
  BY <1>1, ConcatProperties
<1> QED
  BY <1>1, <1>5, <1>6, <1>7, <1>8
-----------------------------------------------------------------------------
(* What the server may rely on                                              *)

(* A connection of the server that the client has not told it to close.     *)
Stays(u) == u \in Live("server") /\ (Open("server", u) \/ "server" \in closedBy[u])

(* What the client says about another session with the identifier of such a *)
(* connection comes after the CLOSE of this one.                            *)
OldClosedFirst ==
  \A s, u \in Session, c \in Cmd, i \in Id :
    Stays(u) /\ conns["server"][u].id = i /\ s # u /\ Meant("client", c, s, i) =>
      Behind(Line("client"), Says("CLOSE", u), Says(c, s))

(* The same for a session that the server has not heard of.                 *)
NewClosedFirst ==
  \A s, u \in Session, c \in Cmd, i \in Id :
    Meant("client", "NEW", u, i) /\ s # u /\ Meant("client", c, s, i) =>
      Parted(Line("client"), Says("NEW", u), Says("CLOSE", u), Says(c, s))

(* The client's CLOSE is on its way until the server obeys it.              *)
CloseComes ==
  \A u \in Session :
    IsRunning("client") /\ Open("server", u) /\ "client" \in closedBy[u] =>
      Has("client", "CLOSE", u)

Orderly == OldClosedFirst /\ NewClosedFirst /\ CloseComes

(* What the client has told the server to close is gone before the server   *)
(* reads on.                                                                *)
SettledBefore ==
  phase["server"] \in {"state", "recv"} => \A u \in Live("server") : Stays(u)

(* While one node works the other one sleeps in poll, or has ended.         *)
Working == {"sort", "state", "recv", "cmds", "data"}

Alone == \A n \in Node : phase[n] \in Working => phase[Other(n)] \in Ended \cup {"poll"}

HitInv ==
  /\ Alone /\ SettledBefore
  /\ IsRunning("server") /\ Undisturbed => Orderly

LEMMA OrderlyKept ==
  ASSUME Orderly, Alike(Line("client")', Line("client")),
         \A c \in Cmd, s \in Session, i \in Id :
           Meant("client", c, s, i)' => Meant("client", c, s, i),
         \A u \in Session :
           Stays(u)' => Stays(u) /\ conns'["server"][u].id = conns["server"][u].id,
         \A u \in Session :
           IsRunning("client")' /\ Open("server", u)' /\ "client" \in closedBy'[u] =>
             IsRunning("client") /\ Open("server", u) /\ "client" \in closedBy[u]
  PROVE  Orderly'
<1>1. "NEW" \in Cmd /\ "CLOSE" \in Cmd
  BY DEF Cmd
<1>2. \A c \in Cmd, s \in Session : Says(c, s) \in CmdBytes
  BY SaysIs
<1>3. OldClosedFirst'
  <2> SUFFICES ASSUME NEW s \in Session, NEW u \in Session, NEW c \in Cmd, NEW i \in Id,
                      Stays(u)', conns'["server"][u].id = i, s # u, Meant("client", c, s, i)'
               PROVE  Behind(Line("client")', Says("CLOSE", u), Says(c, s))
    BY DEF OldClosedFirst, Says
  <2>1. Behind(Line("client"), Says("CLOSE", u), Says(c, s))
    BY DEF Orderly, OldClosedFirst
  <2> QED
    BY <1>1, <1>2, <2>1 DEF Alike
<1>4. NewClosedFirst'
  <2> SUFFICES ASSUME NEW s \in Session, NEW u \in Session, NEW c \in Cmd, NEW i \in Id,
                      Meant("client", "NEW", u, i)', s # u, Meant("client", c, s, i)'
               PROVE  Parted(Line("client")', Says("NEW", u), Says("CLOSE", u), Says(c, s))
    BY DEF NewClosedFirst, Says
  <2>1. Parted(Line("client"), Says("NEW", u), Says("CLOSE", u), Says(c, s))
    BY <1>1 DEF Orderly, NewClosedFirst
  <2> QED
    BY <1>1, <1>2, <2>1 DEF Alike
<1>5. CloseComes'
  <2> SUFFICES ASSUME NEW u \in Session, IsRunning("client")', Open("server", u)',
                      "client" \in closedBy'[u]
               PROVE  Carries(Line("client")', Says("CLOSE", u))
    BY DEF CloseComes, Has, Says
  <2>1. Carries(Line("client"), Says("CLOSE", u))
    BY DEF Orderly, CloseComes, Has
  <2> QED
    BY <1>1, <1>2, <2>1 DEF Alike
<1> QED
  BY <1>3, <1>4, <1>5 DEF Orderly

(* The client ends: the last of what it said may be lost.                   *)
LEMMA OrderlyCut ==
  ASSUME Orderly, NEW g \in Seq(Byte), Line("client")' \in Seq(Byte),
         Line("client") = Line("client")' \o g, ~IsRunning("client")',
         \A c \in Cmd, s \in Session, i \in Id :
           Meant("client", c, s, i)' => Meant("client", c, s, i),
         \A u \in Session :
           Stays(u)' => Stays(u) /\ conns'["server"][u].id = conns["server"][u].id
  PROVE  Orderly'
<1>1. "NEW" \in Cmd /\ "CLOSE" \in Cmd
  BY DEF Cmd
<1>2. \A m, x, y : /\ Behind(Line("client"), x, y) => Behind(Line("client")', x, y)
                   /\ Parted(Line("client"), m, x, y) => Parted(Line("client")', m, x, y)
  BY BehindConcat, PartedConcat
<1>3. OldClosedFirst'
  <2> SUFFICES ASSUME NEW s \in Session, NEW u \in Session, NEW c \in Cmd, NEW i \in Id,
                      Stays(u)', conns'["server"][u].id = i, s # u, Meant("client", c, s, i)'
               PROVE  Behind(Line("client")', Says("CLOSE", u), Says(c, s))
    BY DEF OldClosedFirst, Says
  <2>1. Behind(Line("client"), Says("CLOSE", u), Says(c, s))
    BY DEF Orderly, OldClosedFirst
  <2> QED
    BY <1>2, <2>1
<1>4. NewClosedFirst'
  <2> SUFFICES ASSUME NEW s \in Session, NEW u \in Session, NEW c \in Cmd, NEW i \in Id,
                      Meant("client", "NEW", u, i)', s # u, Meant("client", c, s, i)'
               PROVE  Parted(Line("client")', Says("NEW", u), Says("CLOSE", u), Says(c, s))
    BY DEF NewClosedFirst, Says
  <2>1. Parted(Line("client"), Says("NEW", u), Says("CLOSE", u), Says(c, s))
    BY <1>1 DEF Orderly, NewClosedFirst
  <2> QED
    BY <1>2, <2>1
<1> QED
  BY <1>3, <1>4 DEF Orderly, CloseComes

(* The server takes what the client has said first: a command about s that  *)
(* opens, closes or changes its connection and nothing else.                *)
LEMMA OrderlyTaken ==
  ASSUME MemoryInv, Orderly, InOrder, NEW s \in Session, NEW cmd \in Cmd, NEW f \in Seq(Byte),
         Line("client")' \in Seq(Byte), Line("client") = f \o Line("client")',
         \A x \in CmdBytes : Carries(f, x) <=> x = Says(cmd, s),
         \A c \in Cmd, t \in Session, i \in Id :
           Meant("client", c, t, i)' => Meant("client", c, t, i),
         \A u \in Session : Stays(u)' =>
           \/ /\ Stays(u) /\ conns'["server"][u].id = conns["server"][u].id
              /\ ~(cmd = "CLOSE" /\ u = s)
           \/ u = s /\ cmd = "NEW" /\ Meant("client", "NEW", s, conns'["server"][u].id),
         \A u \in Session :
           IsRunning("client")' /\ Open("server", u)' /\ "client" \in closedBy'[u] =>
             /\ IsRunning("client") /\ Open("server", u) /\ "client" \in closedBy[u]
             /\ ~(cmd = "CLOSE" /\ u = s)
  PROVE  Orderly'
<1> DEFINE L == Line("client")'
<1>1. "NEW" \in Cmd /\ "CLOSE" \in Cmd /\ "client" \in Node
  BY DEF Cmd, Node
<1>2. \A c \in Cmd, t \in Session : Says(c, t) \in CmdBytes
  BY SaysIs
<1>3. \A c \in Cmd, t \in Session : Carries(f, Says(c, t)) <=> c = cmd /\ t = s
  BY <1>2, SaysIs
<1>4. \A x, y : ~Carries(f, x) /\ Behind(f \o L, x, y) => Behind(L, x, y)
  BY BehindConcat
<1>5. \A m, x, y : /\ ~Carries(f, x) /\ Parted(f \o L, m, x, y) => Parted(L, m, x, y)
                   /\ ~Carries(f, x) /\ Parted(f \o L, m, x, y) /\ Carries(f, m)
                        => Behind(L, x, y)
  BY PartedConcat
<1>6. OldClosedFirst'
  <2> SUFFICES ASSUME NEW t \in Session, NEW u \in Session, NEW c \in Cmd, NEW i \in Id,
                      Stays(u)', conns'["server"][u].id = i, t # u, Meant("client", c, t, i)'
               PROVE  Behind(L, Says("CLOSE", u), Says(c, t))
    BY DEF OldClosedFirst, Says
  <2>1. Meant("client", c, t, i)
    OBVIOUS
  <2>2. CASE /\ Stays(u) /\ conns'["server"][u].id = conns["server"][u].id
             /\ ~(cmd = "CLOSE" /\ u = s)
    <3>1. Behind(f \o L, Says("CLOSE", u), Says(c, t))
      BY <2>1, <2>2 DEF Orderly, OldClosedFirst
    <3>2. ~Carries(f, Says("CLOSE", u))
      BY <1>1, <1>3, <2>2
    <3> QED
      BY <1>4, <3>1, <3>2
  <2>3. CASE u = s /\ cmd = "NEW" /\ Meant("client", "NEW", s, i)
    <3>1. Parted(f \o L, Says("NEW", u), Says("CLOSE", u), Says(c, t))
      BY <2>1, <2>3 DEF Orderly, NewClosedFirst
    <3>2. ~Carries(f, Says("CLOSE", u)) /\ Carries(f, Says("NEW", u))
      BY <1>1, <1>3, <2>3
    <3> QED
      BY <1>5, <3>1, <3>2
  <2> QED
    BY <2>2, <2>3
<1>7. NewClosedFirst'
  <2> SUFFICES ASSUME NEW t \in Session, NEW u \in Session, NEW c \in Cmd, NEW i \in Id,
                      Meant("client", "NEW", u, i)', t # u, Meant("client", c, t, i)'
               PROVE  Parted(L, Says("NEW", u), Says("CLOSE", u), Says(c, t))
    BY DEF NewClosedFirst, Says
  <2>1. Meant("client", "NEW", u, i) /\ Meant("client", c, t, i)
    BY <1>1
  <2>2. Parted(f \o L, Says("NEW", u), Says("CLOSE", u), Says(c, t))
    BY <2>1 DEF Orderly, NewClosedFirst
  <2>3. Carries(f \o L, Says("NEW", u))
    BY <1>1, <2>1, MeantIsThere DEF Has
  <2>4. ~Carries(f, Says("CLOSE", u))
    <3>1. SUFFICES ASSUME Carries(f, Says("CLOSE", u))
                   PROVE  FALSE
      OBVIOUS
    <3>2. Carries(L, Says("NEW", u))
      <4>1. ~Carries(f, Says("NEW", u))
        BY <1>1, <1>3, <3>1
      <4> QED
        BY <2>3, <4>1, CarriesConcat
    <3>3. Ahead("client", "CLOSE", u, "NEW", u)
      <4>1. Before(f \o L, Says("CLOSE", u), Says("NEW", u))
        BY <3>1, <3>2, BeforeConcat
      <4> QED
        BY <4>1 DEF Ahead
    <3>4. Order("CLOSE") < Order("NEW")
      BY <1>1, <3>3 DEF InOrder
    <3> QED
      BY <3>4, Orders
  <2> QED
    BY <1>5, <2>2, <2>4
<1>8. CloseComes'
  <2> SUFFICES ASSUME NEW u \in Session, IsRunning("client")', Open("server", u)',
                      "client" \in closedBy'[u]
               PROVE  Carries(L, Says("CLOSE", u))
    BY DEF CloseComes, Has, Says
  <2>1. Carries(f \o L, Says("CLOSE", u))
    BY DEF Orderly, CloseComes, Has
  <2>2. ~Carries(f, Says("CLOSE", u))
    BY <1>1, <1>3
  <2> QED
    BY <2>1, <2>2, CarriesConcat
<1> QED
  BY <1>6, <1>7, <1>8 DEF Orderly

(* The client reports something about s while the server sleeps.            *)
LEMMA OrderlySaid ==
  ASSUME MemoryInv, NEW name \in Namings, Tidy(name), Agreed, Orderly, InOrder',
         NEW s \in Session, NEW cmd \in Cmd, NEW i \in Id,
         Open("client", s), conns["client"][s].id = i, IsRunning("client"),
         Line("client") \in Seq(Byte), Line("client")' = Line("client") \o <<Says(cmd, s)>>,
         \A c \in Cmd, t \in Session, j \in Id :
           Meant("client", c, t, j)' => Meant("client", c, t, j) \/ (c = cmd /\ t = s /\ j = i),
         conns'["server"] = conns["server"], \A u \in Live("server") : Open("server", u),
         \A u \in Session, k \in Node :
           k \in closedBy'[u] =>
             k \in closedBy[u] \/ (u = s /\ k = "client" /\ cmd = "CLOSE")
  PROVE  Orderly'
<1> DEFINE L == Line("client")
           b == <<Says(cmd, s)>>
<1>1. "NEW" \in Cmd /\ "CLOSE" \in Cmd /\ cmd \in Cmd /\ "client" \in Node /\ "server" \in Node
  BY DEF Cmd, Node
<1>2. /\ Says(cmd, s) \in CmdBytes /\ b \in Seq(Byte)
      /\ \A x : Carries(b, x) <=> x = Says(cmd, s)
      /\ \A x, y : ~Before(b, x, y)
  BY <1>1, SaidAlone
<1>3. \A c \in Cmd, t \in Session :
        Says(c, t) \in CmdBytes /\ (Says(c, t) = Says(cmd, s) => c = cmd /\ t = s)
  BY <1>1, SaysIs
<1> HIDE DEF b
<1>4. /\ \A x, y \in CmdBytes : Behind(b, x, y) <=> y # Says(cmd, s)
      /\ \A m, x, y \in CmdBytes : Parted(b, m, x, y)
  <2>1. \A x \in CmdBytes : Carries(b, x) <=> x = Says(cmd, s)
    BY <1>2
  <2>2. \A x, y \in CmdBytes : ~Before(b, x, y)
    BY <1>2
  <2> QED
    BY <1>2, <2>1, <2>2, OneSaid
<1>5. ~Carries(L, Says(cmd, s))
  <2> SUFFICES ASSUME Carries(L, Says(cmd, s))
               PROVE  FALSE
    OBVIOUS
  <2>1. Before(L \o b, Says(cmd, s), Says(cmd, s))
    BY <1>2, BeforeConcat
  <2>2. Before(Line("client")', Says(cmd, s), Says(cmd, s))
    BY <2>1 DEF b
  <2>3. Ahead("client", cmd, s, cmd, s)'
    BY <2>2 DEF Ahead, Says
  <2>4. Order(cmd) < Order(cmd)
    BY <1>1, <2>3 DEF InOrder, Order
  <2> QED
    BY <1>1, <2>4, Orders DEF Cmd
<1>6. \A u \in Session : Stays(u)' => Stays(u)
  <2>1. \A u \in Session : "server" \in closedBy'[u] => "server" \in closedBy[u]
    BY <1>1
  <2> QED
    BY <2>1 DEF Stays, Open, Live
<1>7. \A u \in Session :
        "client" \in closedBy'[u] => "client" \in closedBy[u] \/ (u = s /\ cmd = "CLOSE")
  BY <1>1
<1>8. ASSUME NEW u \in Session, u # s, Stays(u), conns["server"][u].id = i
      PROVE  Carries(L, Says("CLOSE", u))
  <2>1. Open("server", u) /\ u \in Live("server")
    BY <1>8 DEF Stays
  <2>2. ~Open("client", u)
    <3> SUFFICES ASSUME Open("client", u)
                 PROVE  FALSE
      OBVIOUS
    <3>1. u \in Live("client") /\ s \in Live("client")
      BY DEF Open
    <3>2. conns["client"][u].id = i
      BY <1>1, <1>8, <2>1, <3>1 DEF Tidy, LiveNames
    <3>3. i # NoId
      BY Constants DEF Id, NoId
    <3> QED
      BY <1>8, <3>1, <3>2, <3>3 DEF Agreed, ClientIdsUnique
  <2>3. "client" \in closedBy[u]
    BY <2>1, <2>2 DEF Agreed, OpenAtBoth
  <2> QED
    BY <2>1, <2>3 DEF Orderly, CloseComes, Has
<1>9. OldClosedFirst'
  <2> SUFFICES ASSUME NEW t \in Session, NEW u \in Session, NEW c \in Cmd, NEW j \in Id,
                      Stays(u)', conns'["server"][u].id = j, t # u, Meant("client", c, t, j)'
               PROVE  Behind(Line("client")', Says("CLOSE", u), Says(c, t))
    BY DEF OldClosedFirst, Says
  <2>1. Stays(u) /\ conns["server"][u].id = j
    BY <1>6
  <2>2. CASE c = cmd /\ t = s
    <3>1. j = i
      <4>1. CASE Meant("client", cmd, s, j)
        <5>1. j = name[s]
          BY <1>1, <4>1 DEF Tidy, MeantNames
        <5>2. i = name[s]
          BY <1>1 DEF Tidy, LiveNames, Open
        <5> QED
          BY <5>1, <5>2
      <4> QED
        BY <2>2, <4>1
    <3>2. Carries(L, Says("CLOSE", u))
      BY <1>8, <2>1, <2>2, <3>1
    <3>3. Behind(L, Says("CLOSE", u), Says(c, t))
      BY <1>5, <2>2, NotCarried
    <3>4. Behind(L \o b, Says("CLOSE", u), Says(c, t))
      BY <1>2, <3>2, <3>3, BehindConcat
    <3> QED
      BY <3>4 DEF b
  <2>3. CASE ~(c = cmd /\ t = s)
    <3>1. Behind(L, Says("CLOSE", u), Says(c, t))
      BY <2>1, <2>3 DEF Orderly, OldClosedFirst
    <3>2. Behind(b, Says("CLOSE", u), Says(c, t))
      BY <1>1, <1>3, <1>4, <2>3
    <3>3. Behind(L \o b, Says("CLOSE", u), Says(c, t))
      BY <1>2, <3>1, <3>2, BehindConcat
    <3> QED
      BY <3>3 DEF b
  <2> QED
    BY <2>2, <2>3
<1>10. NewClosedFirst'
  <2> SUFFICES ASSUME NEW t \in Session, NEW u \in Session, NEW c \in Cmd, NEW j \in Id,
                      Meant("client", "NEW", u, j)', t # u, Meant("client", c, t, j)'
               PROVE  Parted(Line("client")', Says("NEW", u), Says("CLOSE", u), Says(c, t))
    BY DEF NewClosedFirst, Says
  <2> DEFINE m == Says("NEW", u)
             x == Says("CLOSE", u)
             y == Says(c, t)
  <2>1. m \in CmdBytes /\ x \in CmdBytes /\ y \in CmdBytes
    BY <1>1, <1>3
  <2>2. Parted(L, m, x, y)
    <3>1. CASE Meant("client", "NEW", u, j) /\ Meant("client", c, t, j)
      BY <3>1 DEF Orderly, NewClosedFirst
    <3>2. CASE ~Meant("client", "NEW", u, j)
      <4>1. ~Carries(L, m)
        BY <1>1, <1>5, <3>2
      <4> QED
        BY <4>1 DEF Parted, Carries
    <3>3. CASE ~Meant("client", c, t, j)
      <4>1. ~Carries(L, y)
        BY <1>5, <3>3
      <4> QED
        BY <4>1, NotCarried
    <3> QED
      BY <3>1, <3>2, <3>3
  <2>3. Carries(L, m) => Behind(b, x, y)
    <3>1. CASE ~(c = cmd /\ t = s)
      BY <1>1, <1>3, <1>4, <3>1
    <3>2. CASE c = cmd /\ t = s
      <4> SUFFICES ASSUME Carries(L, m)
                   PROVE  FALSE
        OBVIOUS
      <4>1. Open("client", u)
        BY DEF Has, Agreed, NewIsFirst
      <4>2. u \in Live("client") /\ s \in Live("client")
        BY <4>1 DEF Open
      <4>3. j = name[u] /\ j = name[s]
        <5>1. j = name[u]
          BY <1>1, <3>2 DEF Tidy, MeantNames
        <5>2. j = i \/ Meant("client", cmd, s, j)
          BY <3>2
        <5>3. j = name[s]
          BY <1>1, <4>2, <5>2 DEF Tidy, MeantNames, LiveNames
        <5> QED
          BY <5>1, <5>3
      <4>4. conns["client"][u].id = j /\ conns["client"][s].id = j
        BY <1>1, <4>2, <4>3 DEF Tidy, LiveNames
      <4>5. j # NoId
        BY Constants DEF Id, NoId
      <4> QED
        BY <3>2, <4>2, <4>4, <4>5 DEF Agreed, ClientIdsUnique
    <3> QED
      BY <3>1, <3>2
  <2>4. Parted(b, m, x, y)
    BY <1>4, <2>1
  <2> HIDE DEF m, x, y
  <2>5. Parted(L \o b, m, x, y)
    BY <1>2, <2>2, <2>3, <2>4, PartedConcat
  <2> QED
    BY <2>5 DEF b, m, x, y
<1>11. CloseComes'
  <2> SUFFICES ASSUME NEW u \in Session, IsRunning("client")', Open("server", u)',
                      "client" \in closedBy'[u]
               PROVE  Carries(L \o b, Says("CLOSE", u))
    BY DEF CloseComes, Has, Says, b
  <2>1. CASE "client" \in closedBy[u]
    <3>1. Open("server", u)
      BY DEF Open, Live
    <3>2. Carries(L, Says("CLOSE", u))
      BY <2>1, <3>1 DEF Orderly, CloseComes, Has
    <3> QED
      BY <1>2, <3>2, CarriesConcat
  <2>2. CASE "client" \notin closedBy[u]
    <3>1. u = s /\ cmd = "CLOSE"
      BY <1>7, <2>2
    <3>2. Carries(b, Says("CLOSE", u))
      BY <1>2, <3>1
    <3> QED
      BY <1>2, <3>2, CarriesConcat
  <2> QED
    BY <2>1, <2>2
<1> QED
  BY <1>9, <1>10, <1>11 DEF Orderly
-----------------------------------------------------------------------------
(* The steps that keep to what was said                                     *)

LEMMA AloneKept ==
  ASSUME Alone, NEW n \in Node, \A k \in Node : k # n => phase'[k] = phase[k],
         \/ phase[n] \in Working \/ phase'[n] = phase[n]
         \/ phase'[n] \in Ended \cup {"poll"} \/ phase[Other(n)] \in Ended \cup {"poll"}
  PROVE  Alone'
<1> DEFINE o == Other(n)
           rests == Ended \cup {"poll"}
<1>1. o \in Node /\ o # n /\ Other(o) = n /\ \A k \in Node : k = n \/ k = o
  BY Nodes
<1>2. \A p \in Working : p \notin rests
  BY DEF Working, Ended
<1>3. phase[n] \in Working => phase[o] \in rests
  BY DEF Alone
<1>4. phase[o] \in Working => phase[n] \in rests
  BY <1>1 DEF Alone
<1>5. phase'[o] = phase[o]
  BY <1>1
<1> HIDE DEF o, rests
<1>6. phase'[n] = phase[n] \/ phase'[n] \in rests \/ phase[o] \in rests
  BY <1>3 DEF o, rests
<1>7. phase'[n] \in Working => phase'[o] \in rests
  BY <1>2, <1>3, <1>5, <1>6
<1>8. phase'[o] \in Working => phase'[n] \in rests
  BY <1>2, <1>4, <1>5, <1>6
<1> SUFFICES ASSUME NEW k \in Node, phase'[k] \in Working
             PROVE  phase'[Other(k)] \in rests
  BY DEF Alone, rests
<1>9. CASE k = n
  BY <1>7, <1>9 DEF o
<1>10. CASE k = o
  BY <1>1, <1>8, <1>10
<1> QED
  BY <1>1, <1>9, <1>10

(* What stays in a connection's place keeps its standing.                   *)
LEMMA KeptHits ==
  ASSUME HitInv, Alone', SettledBefore', Alike(Line("client")', Line("client")),
         \A c \in Cmd, s \in Session, i \in Id :
           Meant("client", c, s, i)' => Meant("client", c, s, i),
         \A u \in Session :
           Stays(u)' => Stays(u) /\ conns'["server"][u].id = conns["server"][u].id,
         \A u \in Session :
           IsRunning("client")' /\ Open("server", u)' /\ "client" \in closedBy'[u] =>
             IsRunning("client") /\ Open("server", u) /\ "client" \in closedBy[u],
         Undisturbed' => Undisturbed, IsRunning("server")' => IsRunning("server")
  PROVE  HitInv'
<1>1. ASSUME IsRunning("server")', Undisturbed'
      PROVE  Orderly'
  <2>1. Orderly
    BY <1>1 DEF HitInv
  <2> QED
    BY <2>1, OrderlyKept
<1> QED
  BY <1>1 DEF HitInv

LEMMA PassedHits ==
  ASSUME MemoryInv, TargetInv, HitInv, NEW n \in Node, Fades,
         n = "server" => \A s \in Session : /\ Passed(conns[n][s], conns'[n][s])
                                            /\ conns[n][s] # NoConn \/ conns'[n][s] = NoConn,
         \A k \in Node : k # n => conns'[k] = conns[k] /\ phase'[k] = phase[k],
         IsRunning(n)' => IsRunning(n),
         \/ phase[n] \in Working \/ phase'[n] = phase[n]
         \/ phase'[n] \in Ended \cup {"poll"} \/ phase[Other(n)] \in Ended \cup {"poll"},
         phase'[n] \in {"state", "recv"} => phase[n] \in {"sort", "state", "recv"},
         closedBy' = closedBy, lost => lost', Alike(Line("client")', Line("client"))
  PROVE  HitInv'
<1>1. "client" \in Node /\ "server" \in Node /\ "client" # "server"
      /\ \A k \in Node : k = "client" \/ k = "server"
  BY DEF Node
<1>2. Alone /\ SettledBefore
  BY DEF HitInv
<1>3. Alone'
  BY <1>2, AloneKept
<1>4. \A s \in Session : /\ Lasts("server", s) /\ (Open("server", s) => Open("server", s)')
                         /\ s \in Live("server")' => s \in Live("server")
  <2>1. CASE n = "server"
    <3>1. \A s \in Session : Lasts("server", s) /\ (Open("server", s) => Open("server", s)')
      BY <2>1, PassedLasts
    <3> QED
      BY <3>1 DEF Lasts
  <2>2. CASE n # "server"
    <3>1. conns'["server"] = conns["server"]
      BY <1>1, <2>2
    <3>2. \A s \in Session : Lasts("server", s) /\ (Open("server", s) => Open("server", s)')
      BY <1>1, <3>1, SameLasts
    <3> QED
      BY <3>2 DEF Lasts
  <2> QED
    BY <2>1, <2>2
<1>5. ASSUME NEW u \in Session, Stays(u)'
      PROVE  Stays(u) /\ conns'["server"][u].id = conns["server"][u].id
  <2>1. u \in Live("server")' /\ (Open("server", u)' \/ "server" \in closedBy[u])
    BY <1>5 DEF Stays
  <2> QED
    BY <1>4, <2>1 DEF Lasts, Stays
<1>6. ASSUME NEW u \in Session, Stays(u), u \in Live("server")'
      PROVE  Stays(u)'
  BY <1>4, <1>6 DEF Stays
<1>7. SettledBefore'
  <2> SUFFICES ASSUME phase'["server"] \in {"state", "recv"}, NEW u \in Session, u \in Live("server")'
               PROVE  Stays(u)
    BY <1>6 DEF SettledBefore, Live
  <2>1. u \in Live("server")
    BY <1>4
  <2>2. CASE phase["server"] \in {"state", "recv"}
    BY <1>2, <2>1, <2>2 DEF SettledBefore
  <2>3. CASE phase["server"] = "sort"
    <3>1. PollClean("server")
      BY <1>1 DEF TargetInv, NodeRight
    <3>2. "DELETE" \notin conns["server"][u].state
      BY <2>1, <2>3, <3>1 DEF PollClean
    <3> QED
      BY <2>1, <3>2 DEF Stays, Open
  <2> QED
    BY <1>1, <2>2, <2>3
<1>8. \A k \in Node : IsRunning(k)' => IsRunning(k)
  BY DEF IsRunning
<1>9. \A u \in Session :
        IsRunning("client")' /\ Open("server", u)' /\ "client" \in closedBy'[u] =>
          IsRunning("client") /\ Open("server", u) /\ "client" \in closedBy[u]
  BY <1>1, <1>4, <1>8 DEF Lasts
<1>10. \A c \in Cmd, s \in Session, i \in Id :
         Meant("client", c, s, i)' => Meant("client", c, s, i)
  BY <1>1 DEF Fades
<1>11. Undisturbed' => Undisturbed
  BY DEF Undisturbed
<1> QED
  BY <1>1, <1>3, <1>5, <1>7, <1>8, <1>9, <1>10, <1>11, KeptHits

LEMMA LineStill ==
  ASSUME NEW m \in Node, OnWay(m)' = OnWay(m), queue'[m] = queue[m]
  PROVE  Alike(Line(m)', Line(m))
<1>1. Line(m)' = Line(m)
  BY DEF Line
<1> QED
  BY <1>1, AlikeSame

(* Bytes that say nothing are taken from the front.                         *)
LEMMA SilenceTaken ==
  ASSUME MemoryInv, NEW n \in Node, NEW f \in Seq(Byte), NEW t \in Seq(Byte),
         TunnelIn(n) = f \o t, tun' = [tun EXCEPT ![n].inBuf = t], wire' = wire,
         queue' = queue, \A x \in CmdBytes : ~Carries(f, x)
  PROVE  \A m \in Node : Alike(Line(m)', Line(m))
<1> DEFINE o == Other(n)
<1>1. o \in Node /\ \A m \in Node : m = n \/ m = o
  BY Nodes
<1>2. /\ OnWay(o) = f \o OnWay(o)' /\ OnWay(o)' \in Seq(Byte)
      /\ OnWay(n)' = OnWay(n)
  BY InputTaken
<1> HIDE DEF o
<1>3. queue[o] \in Seq(Commands)
  BY <1>1, LineParts
<1>4. Line(o) = f \o Line(o)' /\ Line(o)' \in Seq(Byte)
  BY <1>1, <1>2, <1>3, FrontOff
<1> DEFINE L == Line(o)'
<1>5. Alike(L, f \o L)
  <2> HIDE DEF L
  <2>1. L \in Seq(Byte) /\ <<>> \in Seq(Byte) /\ \A x : ~Carries(<<>>, x)
    BY <1>4, EmptySeq DEF Carries, L
  <2>2. Alike(<<>>, f)
    BY <2>1, AlikeSilent
  <2>3. Alike(<<>> \o L, f \o L)
    BY <2>1, <2>2, AlikeSame, AlikeConcat
  <2>4. <<>> \o L = L
    BY <2>1, ConcatEmptySeq
  <2> QED
    BY <2>3, <2>4
<1>6. Alike(Line(o)', Line(o))
  BY <1>4, <1>5
<1>7. Alike(Line(n)', Line(n))
  BY <1>2, LineStill
<1> QED
  BY <1>1, <1>6, <1>7

(* The program goes on, or puts something into the tunnel that keeps the    *)
(* order of what is said.                                                   *)
LEMMA GoOnHits ==
  ASSUME Inv, TargetInv, HitInv, NEW n \in Node, Fades, conns' = conns, closedBy' = closedBy,
         lost => lost', \A k \in Node : k # n => phase'[k] = phase[k],
         IsRunning(n)' => IsRunning(n), phase[n] \in Working \/ phase'[n] = phase[n],
         phase'[n] \in {"state", "recv"} => phase[n] \in {"sort", "state", "recv"},
         Alike(Line("client")', Line("client"))
  PROVE  HitInv'
<1>1. MemoryInv
  BY DEF Inv
<1>2. \A s \in Session : Passed(conns[n][s], conns'[n][s])
  BY NothingPassed
<1>3. \A s \in Session : conns[n][s] # NoConn \/ conns'[n][s] = NoConn
  OBVIOUS
<1> QED
  BY <1>1, <1>2, <1>3, PassedHits

LEMMA StillHits ==
  ASSUME Inv, TargetInv, HitInv, NEW n \in Node, conns' = conns, tun' = tun, wire' = wire,
         queue' = queue, closedBy' = closedBy, lost' = lost,
         \A k \in Node : k # n => phase'[k] = phase[k],
         IsRunning(n)' => IsRunning(n), phase[n] \in Working \/ phase'[n] = phase[n],
         phase'[n] \in {"state", "recv"} => phase[n] \in {"sort", "state", "recv"}
  PROVE  HitInv'
<1>1. Fades
  BY NoneMoved
<1>2. OnWay("client")' = OnWay("client")
  BY DEF OnWay, TunnelIn
<1>3. "client" \in Node
  BY DEF Node
<1>4. Alike(Line("client")', Line("client"))
  BY <1>2, <1>3, LineStill
<1> QED
  BY <1>1, <1>4, GoOnHits

LEMMA EnterPollHits ==
  ASSUME Inv, TargetInv, HitInv, NEW n \in Node, EnterPoll(n)
  PROVE  HitInv'
<1>1. MemoryInv
  BY DEF Inv
<1>2. /\ phase[n] = "enter" /\ phase'[n] = "poll"
      /\ \A k \in Node : k # n => conns'[k] = conns[k] /\ phase'[k] = phase[k]
      /\ closedBy' = closedBy /\ lost' = lost /\ wire' = wire /\ queue' = queue
  BY <1>1 DEF EnterPoll, Goto, MemoryInv, kernel, pump, history
<1>3. IsRunning(n)
  BY <1>2 DEF IsRunning, Ended
<1>4. \A m \in Node : tun'[m].inBuf = tun[m].inBuf /\ tun'[m].outBuf = tun[m].outBuf
  <2> SUFFICES ASSUME NEW m \in Node
               PROVE  tun'[m].inBuf = tun[m].inBuf /\ tun'[m].outBuf = tun[m].outBuf
    OBVIOUS
  <2>1. tun'[m] = IF m = n THEN BeforePoll(tun[m]) ELSE tun[m]
    BY <1>1 DEF EnterPoll, MemoryInv
  <2>2. tun[m] \in Tunnels
    BY <1>1 DEF MemoryInv
  <2> QED
    BY <2>1, <2>2, BeforePollTunnel
<1>5. Fades
  BY <1>2, <1>4, NoneMoved
<1>6. /\ \A s \in Session : Passed(conns[n][s], conns'[n][s])
      /\ \A s \in Session : conns[n][s] # NoConn \/ conns'[n][s] = NoConn
  <2>1. \A s \in Live(n)' : s \in Live(n)
    BY <1>1, EnterPollPasses
  <2>2. \A s \in Session : conns[n][s] # NoConn \/ conns'[n][s] = NoConn
    BY <2>1 DEF Live
  <2> QED
    BY <1>1, <2>2, EnterPollPasses
<1>7. "client" \in Node /\ Other("client") \in Node
  BY Nodes DEF Node
<1>8. OnWay("client")' = OnWay("client")
  BY <1>2, <1>4, <1>7 DEF OnWay, TunnelIn
<1>9. Alike(Line("client")', Line("client"))
  BY <1>2, <1>7, <1>8, LineStill
<1>10. phase'[n] \in Ended \cup {"poll"} /\ phase'[n] \notin {"state", "recv"}
  BY <1>2
<1> QED
  BY <1>1, <1>2, <1>3, <1>5, <1>6, <1>9, <1>10, PassedHits

LEMMA PollReturnsHits ==
  ASSUME Inv, TargetInv, HitInv, NEW n \in Node, PollReturns(n)
  PROVE  HitInv'
<1>1. MemoryInv /\ PollClean(n)
  BY DEF Inv, TargetInv, NodeRight
<1>2. /\ phase[n] = "poll" /\ phase'[n] = "sort" /\ phase[Other(n)] \in Ended \cup {"poll"}
      /\ \A k \in Node : k # n => conns'[k] = conns[k] /\ phase'[k] = phase[k]
      /\ closedBy' = closedBy /\ lost' = lost /\ queue' = queue
  BY <1>1 DEF PollReturns, Goto, MemoryInv, pump, history
<1>3. IsRunning(n)
  BY <1>2 DEF IsRunning, Ended
<1>4. OnWay(n)' = OnWay(n) /\ OnWay(Other(n))' = OnWay(Other(n))
  BY <1>1, PollMoves
<1>5. \A m \in Node : OnWay(m)' = OnWay(m)
  BY <1>4, Nodes
<1>6. Fades
  <2>1. \A m \in Node : Thins(m)
    BY <1>2, <1>5, LineSame
  <2> QED
    BY <2>1, ThinsAll
<1>7. /\ \A s \in Session : conns[n][s] = NoConn =>
              \/ conns'[n][s] = NoConn
              \/ /\ n = "client" /\ s = accepted + 1 /\ accepted' = accepted + 1
                 /\ conns'[n][s] = MakeConnection(NoId, {"NEW"})
      /\ \A s \in Session : Passed(conns[n][s], conns'[n][s])
  BY <1>1, PollReturnsPasses
<1>8. n = "server" => \A s \in Session : /\ Passed(conns[n][s], conns'[n][s])
                                         /\ conns[n][s] # NoConn \/ conns'[n][s] = NoConn
  BY <1>7
<1>9. "client" \in Node
  BY DEF Node
<1>10. Alike(Line("client")', Line("client"))
  BY <1>2, <1>5, <1>9, LineStill
<1>11. phase'[n] \notin {"state", "recv"}
  BY <1>2
<1> QED
  BY <1>1, <1>2, <1>3, <1>6, <1>8, <1>10, <1>11, PassedHits

LEMMA SortHits ==
  ASSUME Inv, TargetInv, HitInv, NEW n \in Node, SortConnections(n)
  PROVE  HitInv'
<1>1. MemoryInv /\ ServerInv
  BY DEF Inv
<1>2. /\ phase[n] = "sort" /\ phase'[n] = "state" /\ \A k \in Node : k # n => phase'[k] = phase[k]
      /\ conns' = [conns EXCEPT ![n] = [s \in Session |-> WithId(n, s)]]
      /\ tun' = tun /\ wire' = wire /\ queue' = queue /\ closedBy' = closedBy /\ lost' = lost
  BY <1>1 DEF SortConnections, Goto, MemoryInv, kernel, pump, history
<1>3. \A k \in Node : k # n => conns'[k] = conns[k]
  BY <1>1, <1>2 DEF MemoryInv
<1>4. IsRunning(n) /\ phase[n] \in Working
  BY <1>2 DEF IsRunning, Ended, Working
<1>5. ASSUME n = "server", NEW s \in Session
      PROVE  conns'[n][s] = conns[n][s]
  <2>1. Nameless(n) = {}
    BY <1>1, <1>5, Constants DEF ServerInv, Nameless, Id, NoId
  <2>2. WithId(n, s) = conns[n][s]
    BY <2>1 DEF WithId, Named
  <2> QED
    BY <1>1, <1>2, <2>2 DEF MemoryInv
<1>6. n = "server" => \A s \in Session : /\ Passed(conns[n][s], conns'[n][s])
                                         /\ conns[n][s] # NoConn \/ conns'[n][s] = NoConn
  BY <1>5, CarriedSame DEF Passed
<1>7. Fades
  BY <1>2, NoneMoved
<1>8. OnWay("client")' = OnWay("client") /\ "client" \in Node
  BY <1>2 DEF OnWay, TunnelIn, Node
<1>9. Alike(Line("client")', Line("client"))
  BY <1>2, <1>8, LineStill
<1>10. closedBy' = closedBy /\ (lost => lost') /\ phase[n] \in {"sort", "state", "recv"}
  BY <1>2
<1> QED
  BY <1>1, <1>2, <1>3, <1>4, <1>6, <1>7, <1>9, <1>10, PassedHits

LEMMA SendCommandHits ==
  ASSUME Inv, TargetInv, HitInv, NEW n \in Node, SendCommand(n)
  PROVE  HitInv'
<1>1. MemoryInv
  BY DEF Inv
<1>2. /\ phase[n] = "cmds" /\ phase' = phase /\ conns' = conns
      /\ closedBy' = closedBy /\ lost' = lost
      /\ wire' = wire /\ queue[n] # <<>> /\ queue'[n] = Tail(queue[n])
      /\ \A k \in Node : k # n => queue'[k] = queue[k]
      /\ Put(n, CommandFrame(Head(queue[n])))
  BY <1>1 DEF SendCommand, MemoryInv, kernel, history
<1>3. OnWay(n) \in Seq(Byte) /\ queue[n] \in Seq(Commands)
  BY <1>1, LineParts
<1>4. CommandFrame(Head(queue[n])) \in Seq(Byte)
  <2> DEFINE h == Head(queue[n])
  <2>1. h \in Commands
    BY <1>2, <1>3, HeadWaits
  <2> HIDE DEF h
  <2>2. CommandFrame(h) \in Seq(Byte)
    BY <2>1, FrameSays
  <2> QED
    BY <2>2 DEF h
<1>5. OnWay(n)' = OnWay(n) \o CommandFrame(Head(queue[n])) /\ OnWay(Other(n))' = OnWay(Other(n))
  BY <1>1, <1>2, <1>4, OutputPut
<1>6. Other(n) \in Node /\ Other(n) # n /\ \A m \in Node : m = n \/ m = Other(n)
  BY Nodes
<1>7. Thins(n) /\ Alike(Line(n)', Line(n))
  BY <1>2, <1>3, <1>5, HeadSent, SentAlike
<1>8. Thins(Other(n)) /\ Alike(Line(Other(n))', Line(Other(n)))
  BY <1>2, <1>5, <1>6, LineSame, LineStill
<1>9. Fades
  BY <1>6, <1>7, <1>8, ThinsAll
<1>10. "client" \in Node
  BY DEF Node
<1>11. Alike(Line("client")', Line("client"))
  BY <1>6, <1>7, <1>8, <1>10
<1>12. IsRunning(n)' => IsRunning(n)
  BY <1>2 DEF IsRunning
<1>13. (lost => lost') /\ (\A k \in Node : k # n => phase'[k] = phase[k])
       /\ (phase[n] \in Working \/ phase'[n] = phase[n])
       /\ (phase'[n] \in {"state", "recv"} => phase[n] \in {"sort", "state", "recv"})
  BY <1>2
<1> QED
  BY <1>2, <1>9, <1>11, <1>12, <1>13, GoOnHits

LEMMA EncodeDataHits ==
  ASSUME Inv, TargetInv, HitInv, NEW n \in Node, EncodeData(n)
  PROVE  HitInv'
<1> DEFINE i == Min(Turns(n))
           s == sorted[n][Turn(n, i)]
           c == conns[n][s]
           m == Least(Len(c.inBuf), TunnelRoom(n) - 3)
           bytes == SubSeq(c.inBuf, 1, m)
           rest == SubSeq(c.inBuf, m + 1, Len(c.inBuf))
           d == [c EXCEPT !.inBuf = rest]
           f == DataFrame(c.id, bytes)
<1>1. /\ MemoryInv /\ phase[n] = "data" /\ Turns(n) # {} /\ TunnelRoom(n) >= 4
      /\ phase' = phase /\ queue' = queue /\ wire' = wire
      /\ closedBy' = closedBy /\ lost' = lost
      /\ conns' = [conns EXCEPT ![n][s].inBuf = rest]
      /\ Put(n, f)
  BY DEF Inv, EncodeData, pump, kernel, history
<1>2. s \in Session /\ c \in Connections /\ c # NoConn /\ c.inBuf # <<>> /\ c.id \in Id
  <2>1. i \in Nat /\ sorted[n][Turn(n, i)] # NoSession /\ HasData(n, i)
    BY <1>1, TurnsAre DEF HasData
  <2> HIDE DEF i
  <2>2. Turn(n, i) \in Id
    BY <1>1, <2>1, TurnIs
  <2>3. s \in Session /\ c \in Connections /\ c # NoConn /\ c.id \in Id
    BY <2>1, <2>2, ArrayPoints
  <2>4. c.inBuf # <<>>
    BY <2>1 DEF HasData, Indexed
  <2> QED
    BY <2>3, <2>4
<1>3. conns' = [conns EXCEPT ![n][s] = d]
  BY <1>1 DEF MemoryInv
<1> HIDE DEF s, c
<1>4. Carried(c, d)
  BY <1>2, DropCarries
<1>5. d # NoConn
  <2> HIDE DEF rest
  <2>1. "state" \in DOMAIN d
    BY <1>2 DEF Connections, Record
  <2>2. DOMAIN NoConn = {"id"}
    BY DEF NoConn
  <2> QED
    BY <2>1, <2>2
<1>6. f \in Seq(Byte) /\ (\A x \in CmdBytes : ~Carries(f, x)) /\ \A j : f[1] # Arg(j)
  <2>1. m \in 1..Len(c.inBuf) /\ c.inBuf \in Seq(Data)
    <3>1. c.inBuf \in Seq(Data) /\ Len(c.inBuf) \in Nat /\ Len(c.inBuf) # 0
      <4>1. c.inBuf \in Seq(Data)
        BY <1>2, ConnectionFields
      <4> QED
        BY <1>2, <4>1, EmptySeq
    <3>2. TunnelRoom(n) \in Int
      <4>1. tun[n].outBuf \in Seq(Byte)
        BY <1>1, TunnelFields
      <4> QED
        BY <4>1, Constants DEF TunnelRoom
    <3> DEFINE l == Len(c.inBuf)
               r == TunnelRoom(n) - 3
    <3>3. l \in Nat /\ l > 0 /\ r \in Int /\ r >= 1
      BY <1>1, <3>1, <3>2
    <3> HIDE DEF l, r
    <3>4. Least(l, r) \in 1..l
      BY <3>3 DEF Least
    <3> QED
      BY <3>1, <3>4 DEF l, r
  <2> HIDE DEF m
  <2>2. bytes \in Seq(Data) /\ Len(bytes) = m
    BY <2>1, SeqFirst
  <2> HIDE DEF bytes
  <2> QED
    BY <1>2, <2>2, DataFrameSays
<1> HIDE DEF d, f
<1>7. Carried(conns[n][s], d) /\ conns[n][s] # NoConn
  BY <1>2, <1>4 DEF c
<1>8. /\ \A t \in Session : Passed(conns[n][t], conns'[n][t])
      /\ \A k \in Node : k # n => conns'[k] = conns[k]
      /\ conns'[n][s] = d /\ \A t \in Session : t # s => conns'[n][t] = conns[n][t]
  BY <1>1, <1>2, <1>3, <1>5, <1>7, OnePassed
<1>9. OnWay(n)' = OnWay(n) \o f /\ OnWay(Other(n))' = OnWay(Other(n))
  BY <1>1, <1>6, OutputPut
<1>10. OnWay(n) \in Seq(Byte) /\ queue[n] \in Seq(Commands)
  BY <1>1, LineParts
<1>11. Thins(n) /\ Alike(Line(n)', Line(n))
  BY <1>1, <1>6, <1>9, <1>10, SilencePut, SilenceAlike
<1>12. Other(n) \in Node /\ \A k \in Node : k = n \/ k = Other(n)
  BY Nodes
<1>13. Thins(Other(n)) /\ Alike(Line(Other(n))', Line(Other(n)))
  BY <1>1, <1>9, <1>12, LineSame, LineStill
<1>14. Fades
  BY <1>11, <1>12, <1>13, ThinsAll
<1>15. \A t \in Session : conns[n][t] # NoConn \/ conns'[n][t] = NoConn
  BY <1>7, <1>8
<1>16. "client" \in Node
  BY DEF Node
<1>17. Alike(Line("client")', Line("client"))
  BY <1>11, <1>12, <1>13, <1>16
<1>18. (IsRunning(n)' => IsRunning(n)) /\ (lost => lost') /\ phase'[n] \notin {"state", "recv"}
  BY <1>1 DEF IsRunning
<1> QED
  BY <1>1, <1>8, <1>14, <1>15, <1>17, <1>18, PassedHits

(* What decode takes says nothing about a session.                          *)
LEMMA DecodedSilent ==
  ASSUME NEW buf \in Seq(Byte), NEW free \in Nat, SubSeq(buf, 1, Decodable(buf, free)) \in Seq(Data),
         NEW used, used = IF EndReached(buf, free) THEN Decodable(buf, free) + 1
                                                   ELSE Decodable(buf, free)
  PROVE  \A x \in CmdBytes : ~Carries(SubSeq(buf, 1, used), x)
<1> DEFINE m == Decodable(buf, free)
           bytes == SubSeq(buf, 1, m)
           first == SubSeq(buf, 1, used)
<1>1. used \in 0..Len(buf) /\ Len(buf) \in Nat
  BY UsedIs
<1>2. EndAt(buf) \in 1..(Len(buf) + 1) /\ (EndAt(buf) <= Len(buf) => buf[EndAt(buf)] = END)
  BY FirstEnd
<1>3. m \in Nat /\ m <= Len(buf)
  BY <1>1, <1>2, LeastIs DEF Decodable
<1>4. EndReached(buf, free) => m + 1 = EndAt(buf) /\ EndAt(buf) <= Len(buf)
  <2> DEFINE e == EndAt(buf)
  <2>1. EndReached(buf, free) => e <= Len(buf) /\ e - 1 < free
    BY DEF EndReached
  <2>2. m = Least(e - 1, free) /\ e \in Int
    BY <1>1, <1>2 DEF Decodable
  <2> HIDE DEF e, m
  <2>3. e - 1 < free => Least(e - 1, free) = e - 1
    BY <2>2 DEF Least
  <2> QED
    BY <2>1, <2>2, <2>3 DEF e
<1> HIDE DEF m
<1>5. Len(bytes) = m /\ \A k \in 1..m : bytes[k] = buf[k]
  BY <1>1, <1>3, SeqFirst
<1>6. Len(first) = used /\ \A k \in 1..used : first[k] = buf[k]
  BY <1>1, SeqFirst
<1>7. bytes \in Seq(Data)
  BY DEF m
<1> HIDE DEF bytes, first
<1>8. \A k \in 1..m : buf[k] \in Data
  BY <1>5, <1>7
<1>9. /\ END \notin CmdBytes /\ \A x \in Data : x \notin CmdBytes
  BY Kinds
<1>10. used = m \/ (used = m + 1 /\ buf[m + 1] = END)
  BY <1>2, <1>4 DEF m
<1>11. \A k \in 1..used : first[k] \notin CmdBytes
  BY <1>3, <1>6, <1>8, <1>9, <1>10
<1> QED
  BY <1>6, <1>11 DEF Carries, first

LEMMA ContinueHits ==
  ASSUME Inv, TargetInv, HitInv, NEW n \in Node, ContinueFrame(n)
  PROVE  HitInv'
<1> DEFINE buf == TunnelIn(n)
           s == sorted[n][sendingTo[n]]
           free == BufSize - Len(conns[n][s].outBuf)
           m == Decodable(buf, free)
           used == IF EndReached(buf, free) THEN m + 1 ELSE m
           first == SubSeq(buf, 1, used)
           rest == SubSeq(buf, used + 1, Len(buf))
<1>1. /\ MemoryInv /\ phase[n] = "recv" /\ sendingTo[n] # 0 /\ s # NoSession
      /\ Decoded(n, s, buf) /\ tun' = [tun EXCEPT ![n].inBuf = rest]
      /\ closedBy' = closedBy /\ lost' = lost /\ wire' = wire /\ queue' = queue
      /\ phase'[n] \in {"recv", "cmds"} /\ \A k \in Node : k # n => phase'[k] = phase[k]
  BY DEF Inv, ContinueFrame, Receiving, Goto, MemoryInv, kernel, history, Decoded
<1>2. sendingTo[n] \in Id /\ Expected(n) = "data" /\ IsRunning(n) /\ phase[n] \in Working
  <2>1. sendingTo[n] \in Id /\ Expected(n) = "data"
    BY <1>1, Constants DEF MemoryInv, Id, Expected
  <2>2. IsRunning(n) /\ phase[n] \in Working
    BY <1>1 DEF IsRunning, Ended, Working
  <2> QED
    BY <2>1, <2>2
<1>3. s \in Session /\ conns[n][s] # NoConn /\ conns[n][s].id \in Id /\ conns[n][s] \in Connections
  BY <1>1, <1>2, ArrayPoints
<1>4. buf \in Seq(Byte)
  BY <1>1, TunnelFields DEF TunnelIn
<1>5. PICK q \in Expecting : Parses(buf, "data", q)
  BY <1>2, InputParses DEF TunnelIn
<1> HIDE DEF s, buf
<1>6. /\ free \in Nat /\ SubSeq(buf, 1, m) \in Seq(Data)
      /\ \A t \in Session : Passed(conns[n][t], conns'[n][t])
      /\ conns'[n][s] # NoConn
      /\ \A t \in Session : t # s => conns'[n][t] = conns[n][t]
      /\ \A k \in Node : k # n => conns'[k] = conns[k]
  BY <1>1, <1>3, <1>4, <1>5, DecodedPasses
<1>7. used \in 0..Len(buf)
  BY <1>4, <1>6, UsedIs
<1>8. \A x \in CmdBytes : ~Carries(first, x)
  <2> HIDE DEF free
  <2>1. used = IF EndReached(buf, free) THEN Decodable(buf, free) + 1 ELSE Decodable(buf, free)
    OBVIOUS
  <2>2. SubSeq(buf, 1, Decodable(buf, free)) \in Seq(Data) /\ free \in Nat
    BY <1>6
  <2> HIDE DEF used, m
  <2> QED
    BY <1>4, <2>1, <2>2, DecodedSilent
<1> HIDE DEF used, free, m
<1>9. first \in Seq(Byte) /\ rest \in Seq(Byte) /\ buf = first \o rest
  BY <1>4, <1>7, SeqFirst, SeqRest, SeqSplit
<1> HIDE DEF first, rest
<1>10. Fades /\ \A k \in Node : Alike(Line(k)', Line(k))
  BY <1>1, <1>8, <1>9, InputFades, SilenceTaken DEF buf
<1>11. \A t \in Session : conns[n][t] # NoConn \/ conns'[n][t] = NoConn
  BY <1>3, <1>6
<1>12. Alike(Line("client")', Line("client"))
  BY <1>10 DEF Node
<1>13. (lost => lost') /\ phase[n] \in {"sort", "state", "recv"}
  BY <1>1
<1> QED
  BY <1>1, <1>2, <1>6, <1>10, <1>11, <1>12, <1>13, PassedHits

LEMMA ReceiveDataHits ==
  ASSUME Inv, TargetInv, HitInv, NEW n \in Node, ReceiveData(n)
  PROVE  HitInv'
<1> DEFINE buf == TunnelIn(n)
           head == SubSeq(buf, 1, 2)
           body == SubSeq(buf, 3, Len(buf))
           s == sorted[n][FrameId(n)]
           free == BufSize - Len(conns[n][s].outBuf)
           m == Decodable(body, free)
           used == IF EndReached(body, free) THEN m + 1 ELSE m
           first == SubSeq(body, 1, used)
           rest == SubSeq(body, used + 1, Len(body))
<1>1. /\ MemoryInv /\ phase[n] = "recv" /\ sendingTo[n] = 0 /\ s # NoSession
      /\ FrameAvailable(n) /\ FrameId(n) # 0 /\ Len(buf) > 3
      /\ Decoded(n, s, body) /\ tun' = [tun EXCEPT ![n].inBuf = rest]
      /\ closedBy' = closedBy /\ lost' = lost /\ wire' = wire /\ queue' = queue
      /\ phase'[n] = "cmds" /\ \A k \in Node : k # n => phase'[k] = phase[k]
  BY DEF Inv, ReceiveData, FrameAvailable, Receiving, Goto, MemoryInv, kernel, history, Decoded
<1>2. /\ FrameId(n) \in Id /\ IsRunning(n) /\ phase[n] \in Working
      /\ WellStarted(n) /\ \E p \in Expecting : Parses(body, "data", p)
  <2>1. FrameId(n) \in 0..MaxId /\ WellStarted(n)
    BY <1>1, HeadIs
  <2>2. FrameId(n) \in Id
    BY <1>1, <2>1, Constants DEF Id
  <2>3. IsRunning(n) /\ phase[n] \in Working
    BY <1>1 DEF IsRunning, Ended, Working
  <2>4. PICK p \in Expecting : Parses(tun[n].inBuf, Expected(n), p)
    BY <2>3, InputParses
  <2>5. Parses(body, "data", p)
    BY <1>1, <2>4, HeadIs DEF TunnelIn
  <2> QED
    BY <2>1, <2>2, <2>3, <2>5
<1>3. s \in Session /\ conns[n][s] # NoConn /\ conns[n][s].id \in Id /\ conns[n][s] \in Connections
  BY <1>1, <1>2, ArrayPoints
<1>4. /\ buf \in Seq(Byte) /\ head \in Seq(Byte) /\ body \in Seq(Byte)
      /\ buf = head \o body /\ Len(head) = 2 /\ \A k \in 1..2 : head[k] = buf[k]
  <2>1. buf \in Seq(Byte) /\ Len(buf) \in Nat
    BY <1>1, TunnelFields DEF TunnelIn
  <2> HIDE DEF buf
  <2>2. 2 \in 0..Len(buf)
    BY <1>1, <2>1
  <2>3. SubSeq(buf, 2 + 1, Len(buf)) \in Seq(Byte)
    BY <2>1, <2>2, SeqRest
  <2>4. /\ SubSeq(buf, 1, 2) \in Seq(Byte) /\ Len(SubSeq(buf, 1, 2)) = 2
        /\ \A k \in 1..2 : SubSeq(buf, 1, 2)[k] = buf[k]
    BY <2>1, <2>2, SeqFirst
  <2>5. SubSeq(buf, 1, 2) \o SubSeq(buf, 2 + 1, Len(buf)) = buf
    BY <2>1, <2>2, SeqSplit
  <2> QED
    BY <2>1, <2>3, <2>4, <2>5
<1>5. \A x \in CmdBytes : ~Carries(head, x)
  <2> SUFFICES ASSUME NEW x \in CmdBytes, NEW k \in 1..2
               PROVE  buf[k] # x
    BY <1>4 DEF Carries
  <2>1. \A p \in Expecting : Parses(tun[n].inBuf, Expected(n), p) => buf[2] \notin CmdBytes
    <3> SUFFICES ASSUME NEW p \in Expecting, Parses(tun[n].inBuf, Expected(n), p)
                 PROVE  buf[2] \notin CmdBytes
      OBVIOUS
    <3>1. Expected(n) = "start"
      BY <1>1 DEF Expected
    <3>2. PICK st \in [0..Len(buf) -> Expecting] : st[0] = "start" /\ Run(buf, st)
      BY <3>1 DEF Parses, TunnelIn
    <3>3. 1 \in 1..Len(buf) /\ 2 \in 1..Len(buf)
      BY <1>1, <1>4
    <3>4. Accepts(st[0], buf[1], st[1]) /\ Accepts(st[1], buf[2], st[2])
      BY <3>2, <3>3 DEF Run
    <3>5. st[1] = "id"
      BY <3>2, <3>4 DEF Accepts
    <3>6. \E i : buf[2] = IdByte(i)
      BY <3>4, <3>5 DEF Accepts
    <3> QED
      BY <3>6, Kinds
  <2>2. PICK p \in Expecting : Parses(tun[n].inBuf, Expected(n), p)
    BY <1>2, InputParses
  <2>3. buf[1] = END
    BY <1>2 DEF WellStarted
  <2>4. k = 1 \/ k = 2
    OBVIOUS
  <2> QED
    BY <2>1, <2>2, <2>3, <2>4, Kinds
<1>6. PICK q \in Expecting : Parses(body, "data", q)
  BY <1>2
<1> HIDE DEF buf, head, body, s
<1>7. /\ free \in Nat /\ SubSeq(body, 1, m) \in Seq(Data)
      /\ \A t \in Session : Passed(conns[n][t], conns'[n][t])
      /\ conns'[n][s] # NoConn
      /\ \A t \in Session : t # s => conns'[n][t] = conns[n][t]
      /\ \A k \in Node : k # n => conns'[k] = conns[k]
  BY <1>1, <1>3, <1>4, <1>6, DecodedPasses
<1>8. used \in 0..Len(body)
  BY <1>4, <1>7, UsedIs
<1>9. \A x \in CmdBytes : ~Carries(first, x)
  <2> HIDE DEF free
  <2>1. used = IF EndReached(body, free) THEN Decodable(body, free) + 1 ELSE Decodable(body, free)
    OBVIOUS
  <2>2. SubSeq(body, 1, Decodable(body, free)) \in Seq(Data) /\ free \in Nat
    BY <1>7
  <2> HIDE DEF used, m
  <2> QED
    BY <1>4, <2>1, <2>2, DecodedSilent
<1> HIDE DEF used, free, m
<1>10. first \in Seq(Byte) /\ rest \in Seq(Byte) /\ body = first \o rest
  BY <1>4, <1>8, SeqFirst, SeqRest, SeqSplit
<1> HIDE DEF first, rest
<1>11. head \o first \in Seq(Byte) /\ buf = (head \o first) \o rest
  <2>1. Regroups(head, first, rest)
    BY <1>4, <1>10, BytesRegroup
  <2>2. head \o first \in Seq(Byte)
    BY <1>4, <1>10, ConcatProperties
  <2> QED
    BY <1>4, <1>10, <2>1, <2>2 DEF Regroups
<1> DEFINE f == head \o first
<1>12. f \in Seq(Byte) /\ TunnelIn(n) = f \o rest /\ \A x \in CmdBytes : ~Carries(f, x)
  <2>1. \A x \in CmdBytes : ~Carries(f, x)
    BY <1>4, <1>5, <1>9, <1>10, CarriesConcat
  <2> QED
    BY <1>11, <2>1 DEF buf
<1> HIDE DEF f
<1>13. Fades /\ \A k \in Node : Alike(Line(k)', Line(k))
  BY <1>1, <1>10, <1>12, InputFades, SilenceTaken
<1>14. \A t \in Session : conns[n][t] # NoConn \/ conns'[n][t] = NoConn
  BY <1>3, <1>7
<1>15. Alike(Line("client")', Line("client"))
  BY <1>13 DEF Node
<1>16. (lost => lost') /\ phase'[n] \notin {"state", "recv"}
  BY <1>1
<1> QED
  BY <1>1, <1>2, <1>7, <1>13, <1>14, <1>15, <1>16, PassedHits

(* A process ends: the last of what it said is lost, or nothing.            *)
LEMMA EndCuts ==
  ASSUME MemoryInv, NEW n \in Node, NEW why, End(n, why)
  PROVE  \E f \in Seq(Byte) : OnWay(n)' \in Seq(Byte) /\ OnWay(n) = OnWay(n)' \o f
<1> DEFINE m == Other(n)
           d == MakeConnection(0, {"CLOSED"})
           a == TunnelIn(m)
           w == wire[n]
           b == tun[n].outBuf
           e == <<>>
<1>1. m \in Node /\ m # n
  BY Nodes
<1>2. a \in Seq(Byte) /\ w \in Seq(Byte) /\ b \in Seq(Byte) /\ e \in Seq(Byte)
  BY LineParts, EmptySeq
<1>3. d.outBuf = e
  BY MadeFields
<1>4. tun'[n] = d /\ tun'[m] = tun[m] /\ (wire'[n] = wire[n] \/ wire'[n] = e)
  BY <1>1 DEF End, MemoryInv
<1>5. OnWay(n) = (a \o w) \o b
  BY DEF OnWay
<1> HIDE DEF d
<1>6. OnWay(n)' = (a \o wire'[n]) \o e
  BY <1>3, <1>4 DEF OnWay, TunnelIn
<1> HIDE DEF m, a, w, b, e
<1>7. CASE wire'[n] = wire[n]
  <2>1. a \o w \in Seq(Byte)
    BY <1>2, ConcatProperties
  <2>2. (a \o w) \o e = a \o w
    BY <2>1, ConcatEmptySeq DEF e
  <2>3. OnWay(n)' = a \o w /\ OnWay(n) = (a \o w) \o b
    BY <1>5, <1>6, <1>7, <2>2 DEF w
  <2> QED
    BY <1>2, <2>1, <2>3
<1>8. CASE wire'[n] = e
  <2>1. a \o e = a
    BY <1>2, ConcatEmptySeq DEF e
  <2>2. OnWay(n)' = a
    BY <1>6, <1>8, <2>1
  <2> DEFINE f == w \o b
  <2>3. OnWay(n) = a \o f
    BY <1>2, <1>5, BytesRegroup DEF Regroups
  <2>4. f \in Seq(Byte)
    BY <1>2, ConcatProperties
  <2> HIDE DEF f
  <2> QED
    BY <1>2, <2>2, <2>3, <2>4
<1> QED
  BY <1>4, <1>7, <1>8

LEMMA EndHits ==
  ASSUME Inv, TargetInv, HitInv, NEW n \in Node, NEW why \in Ended, End(n, why)
  PROVE  HitInv'
<1>1. MemoryInv /\ Alone /\ SettledBefore
  BY DEF Inv, HitInv
<1>2. /\ phase'[n] = why /\ queue'[n] = <<>>
      /\ \A k \in Node : k # n => phase'[k] = phase[k] /\ conns'[k] = conns[k]
      /\ closedBy' = closedBy /\ lost' = lost
  BY <1>1 DEF End, Goto, MemoryInv, history
<1>3. "client" \in Node /\ "server" \in Node /\ "client" # "server" /\ ~IsRunning(n)'
  BY <1>2 DEF Node, IsRunning
<1>4. Alone'
  BY <1>1, <1>2, AloneKept
<1>5. CASE n = "server"
  <2>1. SettledBefore'
    BY <1>2, <1>5 DEF SettledBefore, Ended
  <2> QED
    BY <1>3, <1>4, <1>5, <2>1 DEF HitInv
<1>6. CASE n = "client"
  <2>1. conns'["server"] = conns["server"] /\ phase'["server"] = phase["server"]
    BY <1>2, <1>3, <1>6
  <2>2. \A u \in Session : /\ Stays(u)' <=> Stays(u)
                           /\ u \in Live("server")' <=> u \in Live("server")
    BY <1>2, <2>1 DEF Stays, Open, Live
  <2>3. SettledBefore'
    BY <1>1, <2>1, <2>2 DEF SettledBefore, Live
  <2>4. (Undisturbed' <=> Undisturbed) /\ (IsRunning("server")' <=> IsRunning("server"))
    BY <1>2, <2>1 DEF Undisturbed, IsRunning
  <2>5. PICK f \in Seq(Byte) : OnWay("client")' \in Seq(Byte)
                               /\ OnWay("client") = OnWay("client")' \o f
    BY <1>1, <1>6, EndCuts
  <2>6. queue["client"] \in Seq(Commands) /\ queue'["client"] = <<>>
    BY <1>1, <1>2, <1>3, <1>6, LineParts
  <2>7. PICK g \in Seq(Byte) : Line("client") = Line("client")' \o g
                               /\ Line("client")' \in Seq(Byte)
    BY <1>3, <2>5, <2>6, RestOff
  <2>8. \A c \in Cmd, s \in Session, i \in Id :
          Meant("client", c, s, i)' => Meant("client", c, s, i)
    <3>1. Fades
      BY <1>1, EndFades
    <3> QED
      BY <1>3, <3>1 DEF Fades
  <2>9. \A u \in Session : Stays(u)' => Stays(u) /\ conns'["server"][u].id = conns["server"][u].id
    BY <2>1, <2>2
  <2>10. ASSUME IsRunning("server")', Undisturbed'
         PROVE  Orderly'
    <3>1. Orderly
      BY <2>4, <2>10 DEF HitInv
    <3>2. ~IsRunning("client")'
      BY <1>3, <1>6
    <3> QED
      BY <2>7, <2>8, <2>9, <3>1, <3>2, OrderlyCut
  <2> QED
    BY <1>4, <2>3, <2>10 DEF HitInv
<1> QED
  BY <1>5, <1>6 DEF Node

LEMMA LoseCommandHits ==
  ASSUME Inv, HitInv, NEW n \in Node, LoseCommand(n)
  PROVE  HitInv'
<1>1. MemoryInv /\ Alone /\ SettledBefore
  BY DEF Inv, HitInv
<1>2. /\ phase[n] = "cmds" /\ phase'[n] = "enter" /\ conns' = conns
      /\ \A k \in Node : k # n => phase'[k] = phase[k]
      /\ closedBy' = closedBy /\ lost'
  BY <1>1 DEF LoseCommand, UpdateReturns, Goto, MemoryInv, kernel
<1>3. Alone'
  BY <1>1, <1>2, AloneKept DEF Working
<1>4. SettledBefore'
  <2>1. phase'["server"] \in {"state", "recv"} => phase["server"] \in {"state", "recv"}
    BY <1>2 DEF Node
  <2>2. \A u \in Session : /\ Stays(u)' <=> Stays(u)
                           /\ u \in Live("server")' <=> u \in Live("server")
    BY <1>2 DEF Stays, Open, Live
  <2> QED
    BY <1>1, <2>1, <2>2 DEF SettledBefore, Live
<1> QED
  BY <1>2, <1>3, <1>4 DEF HitInv, Undisturbed

(* A node reports what it has found out about a session.                    *)
LEMMA ReportHits ==
  ASSUME Inv, TargetInv, SessionInv, SessionInv', HitInv, NEW n \in Node, Report(n)
  PROVE  HitInv'
<1>1. MemoryInv /\ NodeRight(n) /\ phase[n] = "state" /\ Alone /\ SettledBefore
  BY DEF Inv, TargetInv, Report, HitInv
<1>2. PICK i \in Id, s \in Session :
           LET c   == conns[n][s]
               cmd == NextReport(c)
           IN  /\ s = sorted[n][i] /\ s = Latest(n, i) /\ c \in Connections /\ c # NoConn
               /\ c.id = i /\ "DELETE" \notin c.state
               /\ cmd \in {"NEW", "CLOSE", "CLOSE_SRC_TO_DST"}
               /\ AfterReport(c, cmd) \in Connections
               /\ conns' = [conns EXCEPT ![n][s] = AfterReport(c, cmd)]
               /\ queue' = [queue EXCEPT ![n] = Append(@, Command(cmd, c, s))]
               /\ Len(queue[n]) < QueueSize /\ i = Min(Reports(n))
               /\ cmd = "CLOSE" => /\ Freed(n, i)
                                   /\ sorted' = [sorted EXCEPT ![n][i] = NoSession]
                                   /\ closedBy' = [closedBy EXCEPT ![s] = @ \cup {n}]
               /\ cmd # "CLOSE" => UNCHANGED <<freeIds, sorted, closedBy>>
               /\ \A k \in Node, j \in Id : k # n \/ j # i => sorted'[k][j] = sorted[k][j]
  BY <1>1, ReportGives
<1> DEFINE c == conns[n][s]
           cmd == NextReport(c)
           d == AfterReport(c, cmd)
           h == Command(cmd, c, s)
<1>3. /\ cmd \in {"NEW", "CLOSE", "CLOSE_SRC_TO_DST"} /\ c \in Connections /\ c # NoConn
      /\ c.id = i /\ "DELETE" \notin c.state /\ d \in Connections
  BY <1>2
<1>4. Sound(c)
  BY <1>1, <1>2 DEF NodeRight, AllSound, Live
<1>5. /\ conns'[n][s] = d /\ \A t \in Session : t # s => conns'[n][t] = conns[n][t]
      /\ \A k \in Node : k # n => conns'[k] = conns[k]
  BY <1>1, <1>2 DEF MemoryInv
<1>6. queue'[n] = Append(queue[n], h) /\ \A k \in Node : k # n => queue'[k] = queue[k]
  BY <1>1, <1>2 DEF MemoryInv
<1>7. closedBy' = IF cmd = "CLOSE" THEN [closedBy EXCEPT ![s] = @ \cup {n}] ELSE closedBy
  BY <1>2
<1>8. phase' = phase /\ tun' = tun /\ wire' = wire /\ lost' = lost
  BY DEF Report, kernel
<1>9. d.id = c.id /\ ("DELETE" \in d.state <=> cmd = "CLOSE")
  BY <1>3, <1>4, ReportFacts
<1>10. h \in Commands /\ h.cmd = cmd /\ h.id = i /\ h.session = s
  <2>1. h = [cmd |-> cmd, id |-> i, session |-> s]
    BY <1>3 DEF Command
  <2>2. cmd \in Cmd
    BY <1>3 DEF Cmd
  <2> HIDE DEF h, cmd
  <2> QED
    BY <2>1, <2>2 DEF Commands
<1>11. d # NoConn
  BY <1>3, NoConnIsNone
<1> HIDE DEF h, cmd, d
<1>12. \A m \in Node : OnWay(m)' = OnWay(m)
  BY <1>8 DEF OnWay, TunnelIn
<1>13. PICK name \in Namings : Tidy(name) /\ (Undisturbed => Agreed)
  BY DEF SessionInv
<1>14. closedBy \in [Session -> SUBSET Node]
  BY <1>13 DEF Tidy, ClosersAre
<1>15. /\ \A t \in Session : closedBy[t] \subseteq closedBy'[t]
       /\ \A t \in Session : t # s => closedBy'[t] = closedBy[t]
       /\ \A t \in Session, k \in Node : k # n /\ k \in closedBy'[t] => k \in closedBy[t]
       /\ cmd = "CLOSE" => n \in closedBy'[s]
  BY <1>7, <1>14
<1>16. ASSUME Undisturbed'
       PROVE  Undisturbed /\ Agreed /\ InOrder'
  <2>1. ClosersAre' /\ Agreed'
    BY <1>16 DEF SessionInv, Tidy
  <2>2. Undisturbed
    BY <1>8, <1>15, <1>16, <2>1, UndisturbedBefore
  <2> QED
    BY <1>13, <2>1, <2>2 DEF Agreed
<1>17. Alone'
  BY <1>1, <1>8, AloneKept
<1>18. Open(n, s) /\ s \in Live(n) /\ s \in Live(n)' /\ IsRunning(n)
  BY <1>1, <1>3, <1>5, <1>11 DEF Open, Live, IsRunning, Ended
<1>19. "client" \in Node /\ "server" \in Node /\ "client" # "server"
       /\ \A m \in Node : m = "client" \/ m = "server"
  BY DEF Node
<1>20. CASE n = "client"
  <2>1. conns'["server"] = conns["server"]
    BY <1>5, <1>19, <1>20
  <2>2. SettledBefore'
    <3>1. \A u \in Session : Stays(u) => Stays(u)'
      BY <1>15, <2>1 DEF Stays, Open, Live
    <3> QED
      BY <1>1, <1>8, <2>1, <3>1 DEF SettledBefore, Live
  <2>3. ASSUME IsRunning("server")', Undisturbed'
        PROVE  Orderly'
    <3>1. IsRunning("server") /\ Undisturbed /\ Agreed /\ InOrder'
      BY <1>8, <1>16, <2>3 DEF IsRunning
    <3>2. Orderly
      BY <3>1 DEF HitInv
    <3>3. phase["server"] = "poll"
      <4>1. phase["server"] \in Ended \cup {"poll"}
        BY <1>1, <1>20 DEF Alone, Working, Other
      <4> QED
        BY <3>1, <4>1 DEF IsRunning
    <3>4. \A u \in Live("server") : Open("server", u)
      <4>1. PollClean("server")
        BY <1>19 DEF TargetInv, NodeRight
      <4> QED
        BY <3>3, <4>1 DEF PollClean, Open
    <3>5. /\ Line("client")' = Line("client") \o <<Says(h.cmd, h.session)>>
          /\ Line("client") \in Seq(Byte)
      <4>1. OnWay("client") \in Seq(Byte) /\ queue["client"] \in Seq(Commands)
        BY <1>1, <1>19, LineParts
      <4>2. queue'["client"] = Append(queue["client"], h) /\ OnWay("client")' = OnWay("client")
        BY <1>6, <1>12, <1>19, <1>20
      <4> QED
        BY <1>10, <1>19, <4>1, <4>2, LastSaid
    <3>6. \A b \in Cmd, t \in Session, j \in Id :
            Meant("client", b, t, j)' =>
              Meant("client", b, t, j) \/ (b = cmd /\ t = s /\ j = i)
      <4>1. Gains("client", h)
        BY <1>1, <1>6, <1>10, <1>12, <1>19, <1>20, LineParts, LastWaits
      <4> QED
        BY <1>10, <4>1 DEF Gains
    <3>7. Line("client")' = Line("client") \o <<Says(cmd, s)>>
      BY <1>10, <3>5
    <3>8. Open("client", s) /\ conns["client"][s].id = i /\ IsRunning("client")
      BY <1>3, <1>18, <1>20
    <3>9. Tidy(name) /\ cmd \in Cmd /\ Line("client") \in Seq(Byte)
      BY <1>3, <1>13, <3>5 DEF Cmd
    <3>10. \A u \in Session, k \in Node :
             k \in closedBy'[u] =>
               k \in closedBy[u] \/ (u = s /\ k = "client" /\ cmd = "CLOSE")
      BY <1>7, <1>14, <1>20
    <3> QED
      BY <1>1, <2>1, <3>1, <3>2, <3>4, <3>6, <3>7, <3>8, <3>9, <3>10, OrderlySaid
  <2> QED
    BY <1>17, <2>2, <2>3 DEF HitInv
<1>21. CASE n = "server"
  <2>1. \A u \in Session : /\ u \in Live("server")' <=> u \in Live("server")
                           /\ u \in Live("server") => conns'["server"][u].id = conns["server"][u].id
                           /\ Open("server", u)' => Open("server", u)
                           /\ Open("server", u) => Open("server", u)' \/ (u = s /\ cmd = "CLOSE")
    <3> SUFFICES ASSUME NEW u \in Session
                 PROVE  /\ u \in Live("server")' <=> u \in Live("server")
                        /\ u \in Live("server") => conns'["server"][u].id = conns["server"][u].id
                        /\ Open("server", u)' => Open("server", u)
                        /\ Open("server", u) => Open("server", u)' \/ (u = s /\ cmd = "CLOSE")
      OBVIOUS
    <3>1. CASE u = s
      <4>1. u \in Live("server")' /\ u \in Live("server") /\ Open("server", u)
        BY <1>18, <1>21, <3>1
      <4>2. conns'["server"][u].id = conns["server"][u].id
        BY <1>5, <1>9, <1>21, <3>1
      <4>3. Open("server", u)' \/ cmd = "CLOSE"
        BY <1>5, <1>9, <1>21, <3>1, <4>1 DEF Open
      <4> QED
        BY <3>1, <4>1, <4>2, <4>3
    <3>2. CASE u # s
      <4>1. conns'["server"][u] = conns["server"][u]
        BY <1>5, <1>21, <3>2
      <4> QED
        BY <4>1 DEF Live, Open
    <3> QED
      BY <3>1, <3>2
  <2>2. SettledBefore'
    <3>1. \A u \in Session : Stays(u) => Stays(u)'
      BY <1>15, <1>21, <2>1 DEF Stays
    <3>2. \A u \in Live("server") : Stays(u)
      BY <1>1, <1>21 DEF SettledBefore
    <3> SUFFICES ASSUME NEW u \in Session, u \in Live("server")'
                 PROVE  Stays(u)'
      BY DEF SettledBefore, Live
    <3> QED
      BY <2>1, <3>1, <3>2
  <2>3. \A u \in Session :
          Stays(u)' => Stays(u) /\ conns'["server"][u].id = conns["server"][u].id
    <3> SUFFICES ASSUME NEW u \in Session, Stays(u)'
                 PROVE  Stays(u) /\ conns'["server"][u].id = conns["server"][u].id
      OBVIOUS
    <3>1. CASE u = s
      BY <1>18, <1>21, <2>1, <3>1 DEF Stays
    <3>2. CASE u # s
      BY <1>15, <2>1, <3>2 DEF Stays
    <3> QED
      BY <3>1, <3>2
  <2>4. \A u \in Session :
          IsRunning("client")' /\ Open("server", u)' /\ "client" \in closedBy'[u] =>
            IsRunning("client") /\ Open("server", u) /\ "client" \in closedBy[u]
    BY <1>8, <1>15, <1>19, <1>21, <2>1 DEF IsRunning
  <2>5. OnWay("client")' = OnWay("client") /\ queue'["client"] = queue["client"]
    BY <1>6, <1>12, <1>19, <1>21
  <2>6. Thins("client") /\ Alike(Line("client")', Line("client"))
    BY <1>19, <2>5, LineSame, LineStill
  <2>7. (Undisturbed' => Undisturbed) /\ (IsRunning("server")' => IsRunning("server"))
    BY <1>8, <1>16 DEF IsRunning
  <2>8. \A b \in Cmd, t \in Session, j \in Id :
          Meant("client", b, t, j)' => Meant("client", b, t, j)
    BY <2>6 DEF Thins
  <2> QED
    BY <1>17, <2>2, <2>3, <2>4, <2>6, <2>7, <2>8, KeptHits
<1> QED
  BY <1>19, <1>20, <1>21
-----------------------------------------------------------------------------
(* The command that a node reads                                            *)

(* It is the first that the other node has on its way, and it is alone.     *)
LEMMA CommandFront ==
  ASSUME Inv, NEW n \in Node, ReceiveCommand(n), NEW cmd \in Cmd, NEW i \in Id, NEW s \in Session,
         tun[n].inBuf[3] = <<"cmd", cmd, s>>, tun[n].inBuf[4] = <<"arg", i>>
  PROVE  \E f \in Seq(Byte) :
           /\ Line(Other(n)) = f \o Line(Other(n))' /\ Line(Other(n))' \in Seq(Byte)
           /\ \A x \in CmdBytes : Carries(f, x) <=> x = Says(cmd, s)
<1> DEFINE o == Other(n)
           buf == TunnelIn(n)
           first == SubSeq(buf, 1, 5)
           rest == SubSeq(buf, 5 + 1, Len(buf))
           y == Says(cmd, s)
<1>1. o \in Node /\ o # n /\ MemoryInv
  BY Nodes DEF Inv
<1>2. /\ Len(buf) >= 5 /\ tun' = [tun EXCEPT ![n].inBuf = rest] /\ wire' = wire
      /\ sendingTo[n] = 0 /\ phase[n] = "recv" /\ buf[2][2] = 0
  BY <1>1 DEF ReceiveCommand, CommandSize, TunnelIn, kernel, MemoryInv, FrameAvailable,
              Receiving, FrameId
<1>3. buf \in Seq(Byte) /\ Len(buf) \in Nat
  BY <1>1, TunnelFields DEF TunnelIn
<1>4. queue'[o] = queue[o] /\ queue[o] \in Seq(Commands)
  BY <1>1, CommandElsewhere, LineParts
<1>5. buf[3] = y /\ buf[4] = Arg(i) /\ y \in CmdBytes
  BY SaysIs DEF Says, Arg, TunnelIn
<1>6. /\ \E j : buf[1] = END \/ buf[1] = IdByte(j)
      /\ \E j : buf[2] = END \/ buf[2] = IdByte(j)
      /\ \E j : buf[5] = END \/ buf[5] = IdByte(j)
  <2>1. IsRunning(n) /\ Expected(n) = "start"
    BY <1>2 DEF IsRunning, Ended, Expected
  <2>2. PICK p \in Expecting : Parses(tun[n].inBuf, "start", p)
    BY <2>1, InputParses
  <2>3. PICK st \in [0..Len(buf) -> Expecting] : st[0] = "start" /\ Run(buf, st)
    BY <2>2 DEF Parses, TunnelIn
  <2> HIDE DEF buf
  <2>4. /\ 1 \in 1..Len(buf) /\ 2 \in 1..Len(buf) /\ 3 \in 1..Len(buf)
        /\ 4 \in 1..Len(buf) /\ 5 \in 1..Len(buf)
    BY <1>2, <1>3
  <2>5. /\ Accepts(st[0], buf[1], st[1]) /\ Accepts(st[1], buf[2], st[2])
        /\ Accepts(st[2], buf[3], st[3]) /\ Accepts(st[3], buf[4], st[4])
        /\ Accepts(st[4], buf[5], st[5])
    BY <2>3, <2>4 DEF Run
  <2>6. st[1] = "id" /\ buf[1] = END
    BY <2>3, <2>5 DEF Accepts
  <2>7. PICK j \in 0..MaxId : buf[2] = IdByte(j) /\ (st[2] = "cmd" \/ (j \in Id /\ st[2] = "data"))
    BY <2>5, <2>6, Constants DEF Accepts, Id
  <2>8. st[2] = "cmd"
    BY <1>2, <2>7 DEF IdByte, Id
  <2>9. st[3] = "arg"
    BY <2>5, <2>8 DEF Accepts
  <2>10. st[4] = "last"
    BY <2>5, <2>9 DEF Accepts
  <2>11. buf[5] = END
    BY <2>5, <2>10 DEF Accepts
  <2> QED
    BY <2>6, <2>7, <2>11
<1> HIDE DEF o, buf, y
<1>7. 5 \in 0..Len(buf)
  BY <1>2, <1>3
<1>8. first \in Seq(Byte) /\ Len(first) = 5 /\ \A k \in 1..5 : first[k] = buf[k]
  BY <1>3, <1>7, SeqFirst
<1>9. rest \in Seq(Byte) /\ first \o rest = buf
  BY <1>3, <1>7, SeqRest, SeqSplit
<1> HIDE DEF first, rest
<1>10. /\ OnWay(o) = first \o OnWay(o)' /\ OnWay(o)' \in Seq(Byte)
  <2>1. TunnelIn(n) = first \o rest
    BY <1>9 DEF buf
  <2> QED
    BY <1>1, <1>2, <1>8, <1>9, <2>1, InputTaken DEF o
<1>11. Line(o) = first \o Line(o)' /\ Line(o)' \in Seq(Byte)
  BY <1>1, <1>4, <1>8, <1>10, FrontOff
<1>12. \A x \in CmdBytes : Carries(first, x) <=> x = y
  <2>1. \A x \in CmdBytes : buf[1] # x /\ buf[2] # x /\ buf[4] # x /\ buf[5] # x
    BY <1>5, <1>6, Kinds
  <2>2. \A k \in 1..5 : k = 1 \/ k = 2 \/ k = 3 \/ k = 4 \/ k = 5
    OBVIOUS
  <2> QED
    BY <1>5, <1>8, <2>1, <2>2 DEF Carries
<1> QED
  BY <1>8, <1>11, <1>12 DEF o, y

(* The connection with its identifier is the session's, whether it is the   *)
(* first one in the array or not.                                           *)
LEMMA TargetIsSession ==
  ASSUME Inv, SessionInv, HitInv, Undisturbed, NEW n \in Node, ReceiveCommand(n),
         NEW cmd \in Cmd, NEW i \in Id, NEW s \in Session,
         tun[n].inBuf[3] = <<"cmd", cmd, s>>, tun[n].inBuf[4] = <<"arg", i>>,
         NEW u \in Session, u \in Live(n), conns[n][u].id = i
  PROVE  u = s
<1>1. PICK name \in Namings : Tidy(name) /\ Agreed
  BY DEF SessionInv
<1>2. Has(Other(n), cmd, s) /\ Meant(Other(n), cmd, s, i)
  BY CommandTaken
<1>3. phase[n] = "recv" /\ IsRunning(n)
  BY DEF ReceiveCommand, FrameAvailable, Receiving, IsRunning, Ended
<1>4. "client" \in Node /\ "server" \in Node /\ "CLOSE" \in Cmd
  BY DEF Node, Cmd
<1>5. CASE n = "client"
  <2>1. Has("server", cmd, s) /\ Meant("server", cmd, s, i)
    BY <1>2, <1>5 DEF Other
  <2>2. s \in Live("client")
    BY <1>1, <1>3, <1>5, <2>1 DEF Agreed, CommandsFindOpen, Open
  <2>3. conns["client"][s].id = i
    BY <1>1, <1>4, <2>1, <2>2 DEF Tidy, MeantNames, LiveNames
  <2>4. i # NoId
    BY Constants DEF Id, NoId
  <2> QED
    BY <1>1, <1>5, <2>2, <2>3, <2>4 DEF Agreed, ClientIdsUnique
<1>6. CASE n = "server"
  <2> SUFFICES ASSUME u # s
               PROVE  FALSE
    OBVIOUS
  <2>1. Meant("client", cmd, s, i)
    BY <1>2, <1>6 DEF Other
  <2>2. Stays(u) /\ Orderly
    BY <1>3, <1>6 DEF HitInv, SettledBefore
  <2>3. Behind(Line("client"), Says("CLOSE", u), Says(cmd, s))
    BY <1>6, <2>1, <2>2 DEF Orderly, OldClosedFirst
  <2>4. PICK f \in Seq(Byte) :
           /\ Line("client") = f \o Line("client")' /\ Line("client")' \in Seq(Byte)
           /\ \A x \in CmdBytes : Carries(f, x) <=> x = Says(cmd, s)
    <3>1. Other(n) = "client"
      BY <1>6 DEF Other
    <3>2. \E f \in Seq(Byte) :
           /\ Line(Other(n)) = f \o Line(Other(n))' /\ Line(Other(n))' \in Seq(Byte)
           /\ \A x \in CmdBytes : Carries(f, x) <=> x = Says(cmd, s)
      BY CommandFront
    <3> QED
      BY <3>1, <3>2
  <2>5. Behind(f, Says("CLOSE", u), Says(cmd, s))
    <3> DEFINE L == Line("client")'
    <3>1. L \in Seq(Byte) /\ Behind(f \o L, Says("CLOSE", u), Says(cmd, s))
      BY <2>3, <2>4
    <3> HIDE DEF L
    <3> QED
      BY <3>1, BehindConcat
  <2>6. Carries(f, Says(cmd, s)) /\ (Carries(f, Says("CLOSE", u)) => Says("CLOSE", u) = Says(cmd, s))
    BY <1>4, <2>4, SaysIs
  <2>7. Carries(f, Says("CLOSE", u))
    BY <2>5, <2>6 DEF Behind, Carries
  <2> QED
    BY <1>4, <2>6, <2>7, SaysIs
<1> QED
  BY <1>5, <1>6 DEF Node

(* What the command does at the server, as long as nobody interferes.       *)
ServerObeys(cmd, s) ==
  \A u \in Session :
    /\ Stays(u)' =>
         \/ /\ Stays(u) /\ conns'["server"][u].id = conns["server"][u].id
            /\ ~(cmd = "CLOSE" /\ u = s)
         \/ u = s /\ cmd = "NEW" /\ Meant("client", "NEW", s, conns'["server"][u].id)
    /\ IsRunning("client") /\ Open("server", u)' /\ "client" \in closedBy'[u] =>
         /\ Open("server", u) /\ "client" \in closedBy[u]
         /\ ~(cmd = "CLOSE" /\ u = s)

LEMMA ServerAnswered ==
  ASSUME Inv, SessionInv, HitInv, Undisturbed, ReceiveCommand("server"), NEW i \in Id, NEW s \in Session,
         tun["server"].inBuf[3] = <<"cmd", "NEW", s>>, tun["server"].inBuf[4] = <<"arg", i>>,
         NEW answer \in {"ACK", "CLOSE"},
         answer = "ACK" => /\ conns' = [conns EXCEPT !["server"][s] = MakeConnection(i, {})]
                           /\ closedBy' = closedBy,
         answer = "CLOSE" => /\ conns' = conns
                             /\ closedBy' = [closedBy EXCEPT ![s] = @ \cup {"server"}]
  PROVE  ServerObeys("NEW", s)
<1>1. PICK name \in Namings : Tidy(name) /\ Agreed
  BY DEF SessionInv
<1>2. "client" \in Node /\ "server" \in Node /\ "NEW" \in Cmd /\ Other("server") = "client" /\ MemoryInv
  BY DEF Node, Cmd, Other, Inv
<1>3. Has("client", "NEW", s) /\ Meant("client", "NEW", s, i)
  BY <1>2, CommandTaken
<1>4. s \notin Live("server") /\ (IsRunning("client") => Open("client", s))
  BY <1>1, <1>3 DEF Agreed, NewIsFirst
<1>5. IsRunning("client") => "client" \notin closedBy[s]
  BY <1>1, <1>2, <1>4 DEF Agreed, ClosedAreNotOpen
<1>6. closedBy \in [Session -> SUBSET Node]
  BY <1>1 DEF Tidy, ClosersAre
<1>7. CASE answer = "ACK"
  <2>1. /\ conns'["server"][s] = MakeConnection(i, {}) /\ closedBy' = closedBy
        /\ \A u \in Session : u # s => conns'["server"][u] = conns["server"][u]
    BY <1>2, <1>7 DEF MemoryInv
  <2>2. conns'["server"][s].id = i
    BY <2>1, MadeFields
  <2>3. \A u \in Session : u # s => (Stays(u)' => Stays(u)) /\ (Open("server", u)' => Open("server", u))
    BY <2>1 DEF Stays, Open, Live
  <2> QED
    BY <1>3, <1>5, <2>1, <2>2, <2>3 DEF ServerObeys
<1>8. CASE answer = "CLOSE"
  <2>1. /\ conns' = conns /\ \A u \in Session : u # s => closedBy'[u] = closedBy[u]
    BY <1>6, <1>8
  <2>2. \A u \in Session : (u \in Live("server")' <=> u \in Live("server"))
                           /\ (Open("server", u)' <=> Open("server", u))
    BY <2>1 DEF Live, Open
  <2>3. \A u \in Session : Stays(u)' => u # s /\ Stays(u)
    BY <1>4, <2>1, <2>2 DEF Stays
  <2>4. \A u \in Session : Open("server", u)' => u # s /\ Open("server", u)
    BY <1>4, <2>2 DEF Open
  <2> QED
    BY <2>1, <2>3, <2>4 DEF ServerObeys
<1> QED
  BY <1>7, <1>8

LEMMA ServerObeyed ==
  ASSUME Inv, SessionInv, HitInv, Undisturbed, ReceiveCommand("server"),
         NEW cmd \in Cmd, NEW i \in Id, NEW s \in Session,
         tun["server"].inBuf[3] = <<"cmd", cmd, s>>, tun["server"].inBuf[4] = <<"arg", i>>,
         cmd # "NEW", closedBy' = closedBy,
         \/ /\ IsKnown("server", i)
            /\ conns' = [conns EXCEPT !["server"][Target("server", i)] = Obey(@, cmd)]
         \/ ~IsKnown("server", i) /\ conns' = conns
  PROVE  ServerObeys(cmd, s)
<1>1. PICK name \in Namings : Tidy(name) /\ Agreed
  BY DEF SessionInv
<1>2. "client" \in Node /\ "server" \in Node /\ Other("server") = "client" /\ MemoryInv
  BY DEF Node, Other, Inv
<1>3. Has("client", cmd, s) /\ Meant("client", cmd, s, i)
  BY <1>2, CommandTaken
<1>4. cmd = "CLOSE" => "server" \notin closedBy[s]
  <2>1. cmd = "CLOSE" => "client" \in closedBy[s]
    BY <1>1, <1>2, <1>3 DEF Agreed, ClosesAreKnown
  <2>2. closedBy[s] \subseteq Node /\ closedBy[s] # Node
    BY <1>1 DEF Tidy, ClosersAre, Undisturbed
  <2> QED
    BY <2>1, <2>2 DEF Node
<1>5. s \in Live("server") => conns["server"][s].id = i
  BY <1>1, <1>2, <1>3 DEF Tidy, LiveNames, MeantNames
<1>6. CASE /\ IsKnown("server", i)
           /\ conns' = [conns EXCEPT !["server"][Target("server", i)] = Obey(@, cmd)]
  <2>1. PICK u \in Session : u = Target("server", i)
    BY <1>2, <1>6, TargetIs
  <2>2. u \in Live("server") /\ conns["server"][u].id = i
    BY <1>2, <1>6, <2>1, TargetIs DEF Live
  <2>3. u = s
    BY <1>2, <2>2, TargetIsSession
  <2> DEFINE c == conns["server"][s]
             d == Obey(c, cmd)
  <2>4. c # NoConn /\ c.id = i /\ c \in Connections
    <3>1. c # NoConn /\ c.id = i
      BY <2>2, <2>3 DEF Live
    <3> QED
      BY <1>2, <3>1 DEF MemoryInv
  <2>5. cmd \in {"ACK", "CLOSE", "CLOSE_SRC_TO_DST"}
    BY DEF Cmd
  <2>6. /\ d.id = c.id /\ d # NoConn
        /\ "DELETE" \in c.state => "DELETE" \in d.state
        /\ cmd = "CLOSE" => "DELETE" \in d.state
    BY <2>4, <2>5, ObeyFacts
  <2>7. /\ conns'["server"][s] = d
        /\ \A t \in Session : t # s => conns'["server"][t] = conns["server"][t]
    BY <1>2, <1>6, <2>1, <2>3 DEF MemoryInv
  <2> HIDE DEF d
  <2>8. \A t \in Session : t # s =>
          /\ Stays(t)' => Stays(t) /\ conns'["server"][t].id = conns["server"][t].id
          /\ Open("server", t)' => Open("server", t)
    BY <2>7 DEF Stays, Open, Live
  <2>9. Open("server", s)' => Open("server", s) /\ cmd # "CLOSE"
    BY <2>2, <2>3, <2>4, <2>6, <2>7 DEF Open, Live
  <2>10. Stays(s)' => Stays(s) /\ cmd # "CLOSE" /\ conns'["server"][s].id = conns["server"][s].id
    BY <1>4, <2>2, <2>3, <2>6, <2>7, <2>9 DEF Stays
  <2> QED
    BY <2>8, <2>9, <2>10 DEF ServerObeys
<1>7. CASE ~IsKnown("server", i) /\ conns' = conns
  <2>1. s \notin Live("server")
    BY <1>5, <1>7 DEF IsKnown, Holders
  <2>2. \A u \in Session : /\ Stays(u)' => Stays(u) /\ u # s
                           /\ Open("server", u)' => Open("server", u) /\ u # s
                           /\ conns'["server"][u].id = conns["server"][u].id
    BY <1>7, <2>1 DEF Stays, Open, Live
  <2> QED
    BY <2>2 DEF ServerObeys
<1> QED
  BY <1>6, <1>7

LEMMA ReceiveCommandHits ==
  ASSUME Inv, SessionInv, SessionInv', HitInv, NEW n \in Node, ReceiveCommand(n)
  PROVE  HitInv'
<1>1. PICK cmd \in Cmd, i \in Id, s \in Session :
           /\ tun[n].inBuf[3][2] = cmd /\ tun[n].inBuf[4][2] = i /\ tun[n].inBuf[3][3] = s
           /\ tun[n].inBuf[3] = <<"cmd", cmd, s>> /\ tun[n].inBuf[4] = <<"arg", i>>
           /\ \/ /\ cmd = "NEW" /\ ~IsKnown(n, i) /\ freeIds' = freeIds
                 /\ conns' = [conns EXCEPT ![n][s] = MakeConnection(i, {})]
                 /\ Answered(n, [cmd |-> "ACK", id |-> i, session |-> s])
                 /\ closedBy' = closedBy
              \/ /\ cmd = "NEW" /\ ~IsKnown(n, i) /\ freeIds' = freeIds
                 /\ "connect" \in Faults
                 /\ Answered(n, [cmd |-> "CLOSE", id |-> i, session |-> s])
                 /\ closedBy' = [closedBy EXCEPT ![s] = @ \cup {n}]
                 /\ conns' = conns
              \/ /\ cmd # "NEW" /\ IsKnown(n, i)
                 /\ conns' = [conns EXCEPT ![n][Target(n, i)] = Obey(@, cmd)]
                 /\ IF cmd = "CLOSE" THEN Freed(n, i) ELSE UNCHANGED freeIds
                 /\ UNCHANGED <<queue, closedBy>>
              \/ /\ cmd = "NEW" <=> IsKnown(n, i)
                 /\ UNCHANGED <<conns, freeIds, queue, closedBy>>
  BY CommandGives
<1>2. tun[n].inBuf[3] = <<"cmd", cmd, s>> /\ tun[n].inBuf[4] = <<"arg", i>>
  BY <1>1
<1>3. /\ MemoryInv /\ Alone /\ SettledBefore
      /\ "client" \in Node /\ "server" \in Node /\ "client" # "server"
      /\ \A m \in Node : m = "client" \/ m = "server"
  BY DEF Inv, HitInv, Node
<1>4. /\ phase[n] = "recv" /\ phase'[n] = "cmds" /\ \A k \in Node : k # n => phase'[k] = phase[k]
      /\ lost' = lost
  BY <1>3 DEF ReceiveCommand, FrameAvailable, Receiving, Goto, MemoryInv, kernel
<1>5. Alone'
  BY <1>3, <1>4, AloneKept DEF Working
<1>6. \A k \in Node : IsRunning(k)' <=> IsRunning(k)
  <2>1. IsRunning(n) /\ IsRunning(n)'
    BY <1>4 DEF IsRunning, Ended
  <2> QED
    BY <1>4, <2>1 DEF IsRunning
<1>7. /\ Has(Other(n), cmd, s) /\ Meant(Other(n), cmd, s, i)
      /\ Thins(Other(n)) /\ OnWay(n)' = OnWay(n)
  BY <1>2, CommandTaken
<1>8. PICK name \in Namings : Tidy(name) /\ (Undisturbed => Agreed)
  BY DEF SessionInv
<1>9. \/ closedBy' = closedBy
      \/ cmd = "NEW" /\ closedBy' = [closedBy EXCEPT ![s] = @ \cup {n}]
  BY <1>1
<1>10. \A t \in Session : closedBy[t] \subseteq closedBy'[t]
  BY <1>8, <1>9 DEF Tidy, ClosersAre
<1>11. Undisturbed' => Undisturbed
  <2>1. ClosersAre' /\ (lost => lost')
    BY <1>4 DEF SessionInv, Tidy
  <2> QED
    BY <1>10, <2>1, UndisturbedBefore
<1>12. CASE n = "client"
  <2>1. Has("server", cmd, s)
    BY <1>7, <1>12 DEF Other
  <2>2. cmd # "NEW"
    BY <1>8, <2>1 DEF Tidy, NewFromClient
  <2>3. queue' = queue /\ closedBy' = closedBy
    BY <1>1, <2>2
  <2>4. conns'["server"] = conns["server"]
    BY <1>3, <1>12, CommandElsewhere
  <2>5. \A u \in Session : /\ Stays(u)' <=> Stays(u)
                           /\ Open("server", u)' <=> Open("server", u)
                           /\ u \in Live("server")' <=> u \in Live("server")
    BY <2>3, <2>4 DEF Stays, Open, Live
  <2>6. SettledBefore'
    BY <1>3, <1>4, <1>12, <2>5 DEF SettledBefore, Live
  <2>7. Thins("client") /\ Alike(Line("client")', Line("client"))
    BY <1>3, <1>7, <1>12, <2>3, LineSame, LineStill
  <2>8. \A b \in Cmd, t \in Session, j \in Id :
          Meant("client", b, t, j)' => Meant("client", b, t, j)
    BY <2>7 DEF Thins
  <2>9. \A u \in Session :
          Stays(u)' => Stays(u) /\ conns'["server"][u].id = conns["server"][u].id
    BY <2>4, <2>5
  <2>10. \A u \in Session :
          IsRunning("client")' /\ Open("server", u)' /\ "client" \in closedBy'[u] =>
            IsRunning("client") /\ Open("server", u) /\ "client" \in closedBy[u]
    BY <1>3, <1>6, <2>3, <2>5
  <2> QED
    BY <1>3, <1>5, <1>6, <1>11, <2>6, <2>7, <2>8, <2>9, <2>10, KeptHits
<1>13. CASE n = "server"
  <2>1. Other(n) = "client" /\ Thins("client")
    BY <1>7, <1>13 DEF Other
  <2>2. SettledBefore'
    BY <1>4, <1>13 DEF SettledBefore
  <2>3. ASSUME IsRunning("server")', Undisturbed'
        PROVE  Orderly'
    <3>1. Undisturbed /\ Orderly /\ InOrder /\ ReceiveCommand("server")
      BY <1>3, <1>6, <1>8, <1>11, <1>13, <2>3 DEF HitInv, Agreed
    <3>2. ServerObeys(cmd, s)
      <4>1. CASE /\ cmd = "NEW"
                 /\ conns' = [conns EXCEPT ![n][s] = MakeConnection(i, {})]
                 /\ closedBy' = closedBy
        <5>1. tun["server"].inBuf[3] = <<"cmd", "NEW", s>> /\ tun["server"].inBuf[4] = <<"arg", i>>
          BY <1>2, <1>13, <4>1
        <5>2. "ACK" \in {"ACK", "CLOSE"} /\ "ACK" # "CLOSE"
          OBVIOUS
        <5> QED
          BY <1>13, <3>1, <4>1, <5>1, <5>2, ServerAnswered
      <4>2. CASE /\ cmd = "NEW" /\ conns' = conns
                 /\ closedBy' = [closedBy EXCEPT ![s] = @ \cup {n}]
        <5>1. tun["server"].inBuf[3] = <<"cmd", "NEW", s>> /\ tun["server"].inBuf[4] = <<"arg", i>>
          BY <1>2, <1>13, <4>2
        <5>2. "CLOSE" \in {"ACK", "CLOSE"} /\ "ACK" # "CLOSE"
          OBVIOUS
        <5> QED
          BY <1>13, <3>1, <4>2, <5>1, <5>2, ServerAnswered
      <4>3. CASE /\ cmd # "NEW" /\ closedBy' = closedBy
                 /\ \/ /\ IsKnown(n, i)
                       /\ conns' = [conns EXCEPT ![n][Target(n, i)] = Obey(@, cmd)]
                    \/ ~IsKnown(n, i) /\ conns' = conns
        BY <1>2, <1>13, <3>1, <4>3, ServerObeyed
      <4>4. CASE cmd = "NEW" /\ conns' = conns /\ closedBy' = closedBy
        <5>1. \A u \in Session : /\ Stays(u)' <=> Stays(u)
                                 /\ Open("server", u)' <=> Open("server", u)
          BY <4>4 DEF Stays, Open, Live
        <5> QED
          BY <4>4, <5>1 DEF ServerObeys
      <4> QED
        BY <1>1, <4>1, <4>2, <4>3, <4>4
    <3>3. PICK f \in Seq(Byte) :
             /\ Line("client") = f \o Line("client")' /\ Line("client")' \in Seq(Byte)
             /\ \A x \in CmdBytes : Carries(f, x) <=> x = Says(cmd, s)
      <4>1. \E f \in Seq(Byte) :
             /\ Line(Other(n)) = f \o Line(Other(n))' /\ Line(Other(n))' \in Seq(Byte)
             /\ \A x \in CmdBytes : Carries(f, x) <=> x = Says(cmd, s)
        BY <1>2, CommandFront
      <4> QED
        BY <2>1, <4>1
    <3>4. \A b \in Cmd, t \in Session, j \in Id :
            Meant("client", b, t, j)' => Meant("client", b, t, j)
      BY <2>1 DEF Thins
    <3>5. \A u \in Session : Stays(u)' =>
           \/ /\ Stays(u) /\ conns'["server"][u].id = conns["server"][u].id
              /\ ~(cmd = "CLOSE" /\ u = s)
           \/ u = s /\ cmd = "NEW" /\ Meant("client", "NEW", s, conns'["server"][u].id)
      BY <3>2 DEF ServerObeys
    <3>6. \A u \in Session :
           IsRunning("client")' /\ Open("server", u)' /\ "client" \in closedBy'[u] =>
             /\ IsRunning("client") /\ Open("server", u) /\ "client" \in closedBy[u]
             /\ ~(cmd = "CLOSE" /\ u = s)
      BY <1>3, <1>6, <3>2 DEF ServerObeys
    <3> QED
      BY <1>3, <3>1, <3>3, <3>4, <3>5, <3>6, OrderlyTaken
  <2> QED
    BY <1>5, <2>2, <2>3 DEF HitInv
<1> QED
  BY <1>3, <1>12, <1>13

LEMMA InitHits == Init => HitInv
<1> SUFFICES ASSUME Init
             PROVE  HitInv
  OBVIOUS
<1>1. /\ \A n \in Node : Live(n) = {} /\ phase[n] = "enter"
      /\ closedBy = [s \in Session |-> {}]
  BY DEF Init, Live
<1>2. Alone /\ SettledBefore
  <2>1. "server" \in Node
    BY DEF Node
  <2> QED
    BY <1>1, <2>1 DEF Alone, SettledBefore, Working
<1>3. \A c \in Cmd, s \in Session, i \in Id : ~Meant("client", c, s, i)
  <2> DEFINE e == <<>>
  <2>1. TunnelIn("server") = e /\ tun["client"].outBuf = e /\ wire["client"] = e /\ queue["client"] = e
    BY DEF Init, TunnelIn, MakeConnection, Node
  <2>2. e \in Seq(Byte) /\ e \o e = e /\ Len(e) = 0
    <3>1. e \in Seq(Byte) /\ Len(e) = 0
      BY EmptySeq
    <3> QED
      BY <3>1, ConcatEmptySeq
  <2> HIDE DEF e
  <2>3. OnWay("client") = e
    BY <2>1, <2>2 DEF OnWay, Other
  <2> QED
    BY <2>1, <2>2, <2>3 DEF Meant, Tells
<1>4. \A u \in Session : ~Stays(u) /\ "client" \notin closedBy[u]
  <2>1. "server" \in Node
    BY DEF Node
  <2> QED
    BY <1>1, <2>1 DEF Stays
<1>5. "NEW" \in Cmd
  BY DEF Cmd
<1>6. Orderly
  BY <1>3, <1>4, <1>5 DEF Orderly, OldClosedFirst, NewClosedFirst, CloseComes
<1> QED
  BY <1>2, <1>6 DEF HitInv

LEMMA NextHits == Inv /\ TargetInv /\ SessionInv /\ HitInv /\ [Next]_vars => HitInv'
<1> SUFFICES ASSUME Inv, TargetInv, SessionInv, HitInv, [Next]_vars
             PROVE  HitInv'
  OBVIOUS
<1>1. MemoryInv /\ SessionInv'
  BY NextSession DEF Inv
<1>2. CASE UNCHANGED vars
  <2>1. /\ conns' = conns /\ tun' = tun /\ wire' = wire /\ queue' = queue /\ phase' = phase
        /\ closedBy' = closedBy /\ lost' = lost
    BY <1>2 DEF vars, pump, kernel, history
  <2>2. "client" \in Node
    BY DEF Node
  <2> QED
    BY <2>1, <2>2, StillHits DEF IsRunning
<1>3. ASSUME NEW n \in Node, StateChanges(n)
      PROVE  HitInv'
  <2>1. CASE StateShutdown(n)
    <3>1. "stopped" \in Ended
      BY Zenon DEF Ended
    <3> QED
      BY <2>1, <3>1, EndHits DEF StateShutdown
  <2>2. CASE StateAgain(n)
    <3>1. /\ conns' = conns /\ tun' = tun /\ wire' = wire /\ queue' = queue
          /\ closedBy' = closedBy /\ lost' = lost
          /\ phase[n] = "state" /\ phase'[n] = "enter"
          /\ \A k \in Node : k # n => phase'[k] = phase[k]
      BY <1>1, <2>2 DEF StateAgain, UpdateReturns, Goto, MemoryInv, kernel, pump, history
    <3> QED
      BY <3>1, StillHits DEF Working, IsRunning, Ended
  <2>3. CASE StateOk(n)
    <3>1. /\ conns' = conns /\ tun' = tun /\ wire' = wire /\ queue' = queue
          /\ closedBy' = closedBy /\ lost' = lost
          /\ phase[n] = "state" /\ phase'[n] = "recv"
          /\ \A k \in Node : k # n => phase'[k] = phase[k]
      BY <1>1, <2>3 DEF StateOk, Goto, MemoryInv, kernel, pump, history
    <3> QED
      BY <3>1, StillHits DEF Working, IsRunning, Ended
  <2> QED
    BY <1>1, <1>3, <2>1, <2>2, <2>3, ReportHits DEF StateChanges
<1>4. ASSUME NEW n \in Node, Recv(n)
      PROVE  HitInv'
  <2>1. CASE ReceiveNothing(n)
    <3>1. /\ conns' = conns /\ tun' = tun /\ wire' = wire /\ queue' = queue
          /\ closedBy' = closedBy /\ lost' = lost
          /\ phase[n] = "recv" /\ phase'[n] = "cmds"
          /\ \A k \in Node : k # n => phase'[k] = phase[k]
      BY <1>1, <2>1 DEF ReceiveNothing, Goto, MemoryInv, kernel, pump, history
    <3> QED
      BY <3>1, StillHits DEF Working, IsRunning, Ended
  <2>2. CASE ReceiveFails(n)
    <3>1. Failure(n) = "closed connection"
      BY <2>2, FailsRight
    <3>2. Failure(n) \in Ended /\ End(n, Failure(n))
      BY <2>2, <3>1, Zenon DEF ReceiveFails, Ended
    <3> QED
      BY <3>2, EndHits
  <2> QED
    BY <1>1, <1>4, <2>1, <2>2, ContinueHits, ReceiveCommandHits, ReceiveDataHits DEF Recv
<1>5. ASSUME NEW n \in Node, Transfer(n)
      PROVE  HitInv'
  <2>1. CASE CommandsSent(n)
    <3>1. /\ conns' = conns /\ tun' = tun /\ wire' = wire /\ queue' = queue
          /\ closedBy' = closedBy /\ lost' = lost
          /\ phase[n] = "cmds" /\ phase'[n] = "data"
          /\ \A k \in Node : k # n => phase'[k] = phase[k]
      BY <1>1, <2>1 DEF CommandsSent, Goto, MemoryInv, kernel, pump, history
    <3> QED
      BY <3>1, StillHits DEF Working, IsRunning, Ended
  <2>2. CASE EncodeRefused(n)
    <3>1. /\ conns' = conns /\ tun' = tun /\ wire' = wire /\ queue' = queue
          /\ closedBy' = closedBy /\ lost' = lost
          /\ phase[n] = "data" /\ phase'[n] = "enter"
          /\ \A k \in Node : k # n => phase'[k] = phase[k]
      BY <1>1, <2>2 DEF EncodeRefused, UpdateReturns, Goto, MemoryInv, kernel, pump, history
    <3> QED
      BY <3>1, StillHits DEF Working, IsRunning, Ended
  <2>3. CASE RoundDone(n)
    <3>1. /\ conns' = conns /\ tun' = tun /\ wire' = wire /\ queue' = queue
          /\ closedBy' = closedBy /\ lost' = lost
          /\ phase[n] = "data" /\ phase'[n] = "enter"
          /\ \A k \in Node : k # n => phase'[k] = phase[k]
      BY <1>1, <2>3 DEF RoundDone, UpdateReturns, Goto, MemoryInv, kernel, pump, history
    <3> QED
      BY <3>1, StillHits DEF Working, IsRunning, Ended
  <2> QED
    BY <1>5, <2>1, <2>2, <2>3, SendCommandHits, LoseCommandHits, EncodeDataHits DEF Transfer
<1>6. ASSUME NEW n \in Node, PollReturnsUser(n)
      PROVE  HitInv'
  <2>1. "stopped" \in Ended
    BY Zenon DEF Ended
  <2> QED
    BY <1>6, <2>1, EndHits DEF PollReturnsUser
<1>7. ASSUME NEW n \in Node, Signal(n)
      PROVE  HitInv'
  <2>1. /\ conns' = conns /\ tun' = tun /\ wire' = wire /\ queue' = queue /\ phase' = phase
        /\ closedBy' = closedBy /\ lost' = lost
    BY <1>7 DEF Signal, pump, history
  <2> QED
    BY <2>1, StillHits DEF IsRunning
<1>8. ASSUME NEW n \in Node, Update(n)
      PROVE  HitInv'
  BY <1>3, <1>4, <1>5, <1>8, EnterPollHits, SortHits DEF Update
<1> QED
  BY <1>2, <1>6, <1>7, <1>8, PollReturnsHits DEF Next

(* Until disturbed, what the client says about a session comes after the    *)
(* CLOSE of the session that had the identifier before, so that the server  *)
(* frees the identifier first.                                              *)
THEOREM OldSessionsCloseFirst == Spec => [](Inv /\ TargetInv /\ SessionInv /\ HitInv)
<1>1. Init => Inv /\ TargetInv /\ SessionInv /\ HitInv
  BY InitInv, InitRight, InitSession, InitHits
<1>2. Inv /\ TargetInv /\ SessionInv /\ HitInv /\ [Next]_vars
        => (Inv /\ TargetInv /\ SessionInv /\ HitInv)'
  BY NextKeeps, NextRight, NextSession, NextHits
<1> QED
  BY <1>1, <1>2, PTL DEF Spec

(* A command acts on its own session, or on none.                           *)
LEMMA CommandHits ==
  ASSUME Inv, SessionInv, HitInv, Undisturbed, NEW n \in Node, ReceiveCommand(n),
         NEW u \in Live(n), conns'[n][u] # conns[n][u]
  PROVE  u = TunnelIn(n)[3][3]
<1>1. PICK cmd \in Cmd, i \in Id, s \in Session :
           /\ tun[n].inBuf[3][2] = cmd /\ tun[n].inBuf[4][2] = i /\ tun[n].inBuf[3][3] = s
           /\ tun[n].inBuf[3] = <<"cmd", cmd, s>> /\ tun[n].inBuf[4] = <<"arg", i>>
           /\ \/ /\ cmd = "NEW" /\ ~IsKnown(n, i) /\ freeIds' = freeIds
                 /\ conns' = [conns EXCEPT ![n][s] = MakeConnection(i, {})]
                 /\ Answered(n, [cmd |-> "ACK", id |-> i, session |-> s])
                 /\ closedBy' = closedBy
              \/ /\ cmd = "NEW" /\ ~IsKnown(n, i) /\ freeIds' = freeIds
                 /\ "connect" \in Faults
                 /\ Answered(n, [cmd |-> "CLOSE", id |-> i, session |-> s])
                 /\ closedBy' = [closedBy EXCEPT ![s] = @ \cup {n}]
                 /\ conns' = conns
              \/ /\ cmd # "NEW" /\ IsKnown(n, i)
                 /\ conns' = [conns EXCEPT ![n][Target(n, i)] = Obey(@, cmd)]
                 /\ IF cmd = "CLOSE" THEN Freed(n, i) ELSE UNCHANGED freeIds
                 /\ UNCHANGED <<queue, closedBy>>
              \/ /\ cmd = "NEW" <=> IsKnown(n, i)
                 /\ UNCHANGED <<conns, freeIds, queue, closedBy>>
  BY CommandGives
<1>2. MemoryInv /\ u \in Session /\ conns' # conns /\ TunnelIn(n)[3][3] = s
  BY <1>1 DEF Inv, Live, TunnelIn
<1>3. CASE conns' = [conns EXCEPT ![n][s] = MakeConnection(i, {})]
  BY <1>2, <1>3 DEF MemoryInv
<1>4. CASE IsKnown(n, i) /\ conns' = [conns EXCEPT ![n][Target(n, i)] = Obey(@, cmd)]
  <2>1. PICK t \in Session : t = Target(n, i)
    BY <1>4, TargetIs
  <2>2. t \in Live(n) /\ conns[n][t].id = i
    BY <1>4, <2>1, TargetIs DEF Live
  <2>3. t = s
    BY <1>1, <2>2, TargetIsSession
  <2>4. u = t
    BY <1>2, <1>4, <2>1 DEF MemoryInv
  <2> QED
    BY <1>2, <2>3, <2>4
<1> QED
  BY <1>1, <1>2, <1>3, <1>4

(* Until disturbed a command changes the connection of the session it was   *)
(* sent about and no other, although it carries only the identifier.        *)
THEOREM CommandsHit == Spec => CommandsHitTheirSession
<1>1. Inv /\ SessionInv /\ HitInv /\ [Next]_vars =>
        [Undisturbed => \A n \in Node : ReceiveCommand(n) =>
           \A s \in Live(n) : conns'[n][s] # conns[n][s] => s = TunnelIn(n)[3][3]]_vars
  BY CommandHits
<1> QED
  BY <1>1, OldSessionsCloseFirst, PTL DEF Spec, CommandsHitTheirSession
=============================================================================
