----------------------------- MODULE Exercises -----------------------------
(***************************************************************************)
(* The small programs of the collection and the start and end of the port  *)
(* forwarder, each with a module of its own that has its state, steps and  *)
(* properties.  They share nothing: a behaviour is the run of one of them, *)
(* and the variables of the others are as if they had ended.               *)
(***************************************************************************)
EXTENDS File, LoadTest, Pipe, UnixSocket, Lifecycle

VARIABLE running     \* which program this is

vars == <<running, fileVars, loadVars, pipeVars, socketVars, lifeVars>>

NoFile == /\ program = "mmap" /\ file = <<>> /\ shrunk = FALSE /\ mode = "quit"
          /\ table = <<>> /\ curr = 0 /\ newLine = FALSE /\ at = 0 /\ typed = <<>>
          /\ closed = TRUE /\ taken = 0 /\ buf = <<>> /\ line = <<>>
          /\ expired = FALSE /\ tooLong = FALSE /\ accepted = <<>> /\ todo = <<>>
          /\ left = 0 /\ shown = <<>> /\ last = TRUE

NoLoad == /\ job = "end" /\ round = 0 /\ due = 0 /\ cells = <<>> /\ echo = <<>>
          /\ split = FALSE /\ wrong = FALSE /\ hungUp = TRUE

NoPipe == /\ example = 25 /\ ends = [p \in Process |-> {}] /\ cloexec = {}
          /\ stage = [p \in Process |-> IF p = "parent" THEN "end" ELSE "none"]
          /\ full = FALSE /\ printed = "nothing" /\ cut = FALSE

NoSocket == /\ sender = 0 /\ open = FALSE /\ socket = <<>> /\ block = <<>>
            /\ counted = 0 /\ terminal = <<>> /\ served = FALSE /\ short = FALSE

NoLife == /\ node = "client" /\ phase = "ended" /\ step = 1 /\ held = {} /\ known = {}
          /\ releases = <<>> /\ assigned = FALSE /\ byte = FALSE /\ signals = 0
          /\ late = FALSE

Init == \/ running = "file"   /\ FileInit /\ NoLoad /\ NoPipe /\ NoSocket /\ NoLife
        \/ running = "load"   /\ NoFile /\ LoadInit /\ NoPipe /\ NoSocket /\ NoLife
        \/ running = "pipe"   /\ NoFile /\ NoLoad /\ PipeInit /\ NoSocket /\ NoLife
        \/ running = "socket" /\ NoFile /\ NoLoad /\ NoPipe /\ SocketInit /\ NoLife
        \/ running = "life"   /\ NoFile /\ NoLoad /\ NoPipe /\ NoSocket /\ LifeInit

FileRuns == /\ running = "file" /\ FileNext
            /\ UNCHANGED <<running, loadVars, pipeVars, socketVars, lifeVars>>

LoadRuns == /\ running = "load" /\ LoadNext
            /\ UNCHANGED <<running, fileVars, pipeVars, socketVars, lifeVars>>

PipeRuns == /\ running = "pipe" /\ PipeNext
            /\ UNCHANGED <<running, fileVars, loadVars, socketVars, lifeVars>>

SocketRuns == /\ running = "socket" /\ SocketNext
              /\ UNCHANGED <<running, fileVars, loadVars, pipeVars, lifeVars>>

LifeRuns == /\ running = "life" /\ LifeNext
            /\ UNCHANGED <<running, fileVars, loadVars, pipeVars, socketVars>>

Next == FileRuns \/ LoadRuns \/ PipeRuns \/ SocketRuns \/ LifeRuns

Spec == Init /\ [][Next]_vars /\ FileFairness /\ PipeFairness /\ LifeFairness
=============================================================================
