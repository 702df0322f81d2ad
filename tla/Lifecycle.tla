----------------------------- MODULE Lifecycle -----------------------------
(***************************************************************************)
(* How a process of "34-35. Port forwarding" starts and ends: what         *)
(* start_controller acquires step by step, what it gives back when a step  *)
(* fails, what destroy_controller gives back, and signals all the while.   *)
(* What happens in between is Forwarder's; of its connections only the     *)
(* tunnel is here, which every process has.                                *)
(***************************************************************************)
EXTENDS Naturals, SequencesExt

CONSTANT MaxSignals  \* how many signals come

VARIABLES node,      \* "client", the accepting one, or "server"
          phase,     \* "start", "run", "undo", "ended" or "crashed"
          step,      \* the step of the start that is next
          held,      \* memory and descriptors the process has
          known,     \* those of them that are in the manager's arrays
          releases,  \* what is going to be given back, in this order
          assigned,  \* main has assigned the global controller
          byte,      \* the handler has written to the manager's pipe
          signals,   \* signals so far
          late       \* history: the handler has used freed memory

lifeVars == <<node, phase, step, held, known, releases, assigned, byte, signals, late>>

LifeInit == /\ node \in {"client", "server"}
            /\ phase = "start" /\ step = 1
            /\ held = {} /\ known = {} /\ releases = <<>>
            /\ assigned = FALSE /\ byte = FALSE /\ signals = 0 /\ late = FALSE
-----------------------------------------------------------------------------
(* Mutant of DestroyManager: closes the listener without a look at fds.     *)
DestroyManagerBlindly ==
  <<"listener", "pipe read", "pipe write">>
  \o (IF "connection" \in known THEN <<"connection">> ELSE <<>>)
  \o (IF "tunnel" \in known THEN <<"tunnel">> ELSE <<>>) \o <<"manager">>

(* A listener of -1 is passed over, and a socket that is closed already.    *)
DestroyManager ==
  (IF "listener" \in known THEN <<"listener">> ELSE <<>>)
  \o <<"pipe read", "pipe write">>
  \o (IF "connection" \in known THEN <<"connection">> ELSE <<>>)
  \o (IF "tunnel" \in known THEN <<"tunnel">> ELSE <<>>) \o <<"manager">>

(* The labels at the end of start_controller and init_accepting_manager.    *)
Unwind(label) ==
  CASE label = "return"         -> <<>>
    [] label = "pump_failed"    -> <<"controller">>
    [] label = "manager_failed" -> <<"pump", "controller">>
    [] label \in {"abort", "tunnel_failed"}
         -> DestroyManager \o <<"pump", "controller">>

(* A step of the start: what it acquires, what it enters in the manager's   *)
(* arrays, what it gives back itself when it fails, and where it goes then. *)
Step(makes, enters, undo, label) ==
  [makes |-> makes, enters |-> enters, undo |-> undo, label |-> label]

Making == <<Step({"controller"}, {}, <<>>, "return"),
            Step({"pump"}, {}, <<>>, "pump_failed"),
            Step({"manager"}, {}, <<>>, "manager_failed"),
            Step({"pipe read", "pipe write"}, {}, <<"manager">>, "manager_failed")>>

(* init_accepting_manager: socket, bind and listen.                         *)
Accepting == <<Step({"listener"}, {}, <<>>, "abort"),
               Step({}, {"listener"}, <<"listener">>, "abort")>>

(* cm_connect: make_connection, socket, connect.                            *)
Connecting == <<Step({"connection"}, {}, <<>>, "tunnel_failed"),
                Step({"tunnel"}, {}, <<"connection">>, "tunnel_failed"),
                Step({}, {"tunnel", "connection"}, <<"tunnel", "connection">>,
                     "tunnel_failed")>>

(* accept_tunnel_connection: socket, bind and listen, accept,               *)
(* make_connection; when the last one fails the tunnel's socket is left.    *)
AcceptingTunnel == <<Step({"door"}, {}, <<>>, "tunnel_failed"),
                     Step({}, {}, <<"door">>, "tunnel_failed"),
                     Step({"tunnel"}, {}, <<"door">>, "tunnel_failed"),
                     Step({"connection"}, {"tunnel", "connection"}, <<"door">>,
                          "tunnel_failed")>>

Steps == Making \o IF node = "client" THEN Accepting \o Connecting ELSE AcceptingTunnel

(* connect and accept wait for the other process.                           *)
Waits == phase = "start" /\ step = (IF node = "client" THEN 9 ELSE 7)

StepDone ==
  /\ phase = "start" /\ step <= Len(Steps)
  /\ held' = held \cup Steps[step].makes
  /\ known' = known \cup Steps[step].enters
  /\ step' = step + 1
  /\ UNCHANGED <<node, phase, releases, assigned, byte, signals, late>>

GiveUp == /\ phase' = "undo"
          /\ releases' = Steps[step].undo \o Unwind(Steps[step].label)

StepFails ==
  /\ phase = "start" /\ step <= Len(Steps)
  /\ GiveUp
  /\ UNCHANGED <<node, step, held, known, assigned, byte, signals, late>>

(* start_controller returns and main assigns its result.                    *)
Started ==
  /\ phase = "start" /\ step > Len(Steps)
  /\ phase' = "run"
  /\ assigned' = TRUE
  /\ held' = held \ {"door"}
  /\ UNCHANGED <<node, step, known, releases, byte, signals, late>>
-----------------------------------------------------------------------------
(* close_sockets may close the tunnel's socket; its memory stays.           *)
TunnelCloses ==
  /\ phase = "run" /\ "tunnel" \in known
  /\ held' = held \ {"tunnel"}
  /\ known' = known \ {"tunnel"}
  /\ UNCHANGED <<node, phase, step, releases, assigned, byte, signals, late>>

Destroy == /\ phase' = "undo"
           /\ releases' = <<"pump">> \o DestroyManager \o <<"controller">>
           /\ UNCHANGED <<node, step, held, known, assigned, byte, signals, late>>

(* update returns: there is a byte in the pipe, or the tunnel is at its end *)
(* or something failed.                                                     *)
StopUser == phase = "run" /\ byte /\ Destroy

StopError == phase = "run" /\ Destroy

(* The next release; there is none of what is not held.                     *)
Release ==
  /\ phase = "undo"
  /\ IF releases = <<>>
     THEN phase' = "ended" /\ UNCHANGED <<held, releases>>
     ELSE IF Head(releases) \in held
     THEN /\ held' = held \ {Head(releases)}
          /\ releases' = Tail(releases)
          /\ UNCHANGED phase
     ELSE phase' = "crashed" /\ UNCHANGED <<held, releases>>
  /\ UNCHANGED <<node, step, known, assigned, byte, signals, late>>

(* The handler does nothing before the assignment, but a connect or accept  *)
(* that waits returns EINTR and is not repeated.  Afterwards it writes to   *)
(* the pipe; as controller is never reset it does so, too, when the memory  *)
(* it reads is freed, and then anything may follow.                         *)
Signal ==
  /\ signals < MaxSignals /\ phase \in {"start", "run", "undo"}
  /\ signals' = signals + 1
  /\ IF ~assigned
     THEN /\ \/ UNCHANGED <<phase, releases>>
             \/ Waits /\ GiveUp
          /\ UNCHANGED <<byte, late>>
     ELSE /\ byte' = (byte \/ "pipe write" \in held)
          /\ late' = (late \/ ~({"controller", "manager"} \subseteq held))
          /\ phase' \in {phase} \cup IF late' THEN {"crashed"} ELSE {}
          /\ UNCHANGED releases
  /\ UNCHANGED <<node, step, held, known, assigned>>

LifeNext == \/ StepDone \/ StepFails \/ Started \/ TunnelCloses
            \/ StopUser \/ StopError \/ Release \/ Signal

(* A byte in the pipe makes poll return, and cleaning up does not block; of *)
(* the start nothing is promised.                                           *)
LifeFairness == WF_lifeVars(StopUser) /\ WF_lifeVars(Release)
-----------------------------------------------------------------------------
(* Once the start has failed, update has returned an error or a signal has  *)
(* come while the controller runs, the process ends, having given back      *)
(* each thing it held once - whichever step failed, whatever was closed     *)
(* before.  There are two exceptions: the server leaves the socket it has   *)
(* accepted when there is no memory for its connection (controller.c:211),  *)
(* and a signal that comes when destroy_controller has begun to free may    *)
(* end the process in any way (main.c:75).  The pump's exit(2) (pump.c:207, *)
(* pump.c:224) ends the process without any clean-up; this module does not  *)
(* have it, as it leaves the frames to Forwarder (ReceiveFails).            *)
Leftover == IF node = "server" /\ ~assigned THEN {"tunnel"} ELSE {}

EndsWithNothingHeld ==
  <>[](\/ phase \in {"start", "run"} /\ ~byte
       \/ phase = "ended" /\ held \subseteq Leftover
       \/ late)
=============================================================================
