------------------------------ MODULE RelayHost ------------------------------
(***************************************************************************)
(* The relay program around its connections (server/main.c, "serving", and *)
(* server/ui.c, "actions"): the two listeners, the loop that accepts on    *)
(* them, and what starts and stops it.                                     *)
(*                                                                         *)
(* With a window, the window's thread starts and stops the relay and the   *)
(* loop is a thread of its own, one per start.  On the console the main    *)
(* thread starts the relay and is itself the loop; a signal stops it.      *)
(* A start whose fields are refused changes nothing and is left out.  The  *)
(* window waits 4 s for a loop that looks up every 200 ms: it is taken to  *)
(* see the loop end.                                                       *)
(***************************************************************************)
EXTENDS Integers, Sequences

CONSTANTS Conns,         \* connections of peers
          HostMaxStarts  \* bound: times the relay is started

ASSUME HostAssumption == HostMaxStarts \in Nat

VARIABLES
  console,      \* --console, else the window
  g_running,
  listening,    \* the roles whose listener is open
  starter,      \* the point start_server, stop_server or main has reached
  pressed,      \* ui.running: the window believes that it started the relay
  worker,       \* ui.worker, a loop or 0
  loop,         \* [at, ready]: what a loop is doing, and what select reported
  queue,        \* the connections waiting at each listener, first come first
  conn,         \* "out", "waiting", or the expected_role of its peer
  starts

hostLife == <<g_running, listening, starter, pressed, worker>>
hostPeers == <<queue, conn>>
hostVars == <<console, hostLife, loop, hostPeers, starts>>

Roles == {"agent", "client"}
LoopIds == 1 .. HostMaxStarts

Idle == [at |-> "none", ready |-> {}]

HostTypeOK ==
  /\ console \in BOOLEAN /\ g_running \in BOOLEAN /\ pressed \in BOOLEAN
  /\ listening \subseteq Roles
  /\ starter \in {"idle", "agent", "client", "run", "close agent", "close client", "wait"}
  /\ worker \in LoopIds \cup {0}
  /\ loop \in [LoopIds -> [at : {"none", "head", "select", "agent", "client", "ended"},
                           ready : SUBSET Roles]]
  /\ queue \in [Roles -> Seq(Conns)]
  /\ conn \in [Conns -> {"out", "waiting"} \cup Roles]
  /\ starts \in 0 .. HostMaxStarts

\* g_running is initially 1: only the listeners tell that nothing is served.
HostInit ==
  /\ console \in BOOLEAN
  /\ g_running = TRUE /\ listening = {}
  /\ starter = "idle" /\ pressed = FALSE /\ worker = 0
  /\ loop = [l \in LoopIds |-> Idle]
  /\ queue = [r \in Roles |-> <<>>] /\ conn = [c \in Conns |-> "out"]
  /\ starts = 0

Alive(l) == l # 0 /\ loop[l].at \notin {"none", "ended"}
Waiting(c) == conn[c] = "waiting"

\* serve_is_running.
IsRunning == g_running /\ listening = Roles

Step(here, next) == starter = here /\ starter' = next

-----------------------------------------------------------------------------
\* Starting.

\* The window's button, or main, which does it once.
PressStart ==
  /\ ~pressed /\ starts < HostMaxStarts /\ (console => starts = 0)
  /\ Step("idle", IF listening = {} THEN "agent" ELSE "run")
  /\ starts' = starts + 1
  /\ UNCHANGED <<console, g_running, listening, pressed, worker, loop, hostPeers>>

\* serve_start binds one port, then the other, which gives the first up when it
\* cannot be had.
ListenAgent ==
  /\ \/ Step("agent", "client") /\ listening' = {"agent"}
     \/ Step("agent", "idle") /\ UNCHANGED listening
  /\ UNCHANGED <<console, g_running, pressed, worker, loop, hostPeers, starts>>

\* Whoever waits at a listener that is closed is turned away.
TurnAway(roles) ==
  /\ queue' = [r \in Roles |-> IF r \in roles THEN <<>> ELSE queue[r]]
  /\ conn' = [c \in Conns |->
                IF \E r \in roles : \E i \in 1 .. Len(queue[r]) : queue[r][i] = c
                THEN "out" ELSE conn[c]]

\* Mutant: the first listener is left open.
NoRollback ==
  /\ \/ Step("client", "run") /\ listening' = Roles /\ g_running' = TRUE
     \/ Step("client", "idle") /\ UNCHANGED <<listening, g_running>>
  /\ UNCHANGED <<console, pressed, worker, loop, hostPeers, starts>>

ListenClient ==
  /\ \/ Step("client", "run") /\ listening' = Roles /\ g_running' = TRUE /\ UNCHANGED hostPeers
     \/ Step("client", "idle") /\ listening' = {} /\ TurnAway(Roles) /\ UNCHANGED g_running
  /\ UNCHANGED <<console, pressed, worker, loop, starts>>

\* The loop is given a thread, and the window believes that it runs even if there
\* was none; on the console it is the caller.
Run ==
  /\ Step("run", IF console THEN "wait" ELSE "idle")
  /\ pressed' = TRUE
  /\ \/ /\ loop' = [loop EXCEPT ![starts].at = "head"] /\ worker' = starts
     \/ ~console /\ worker' = 0 /\ UNCHANGED loop
  /\ UNCHANGED <<console, g_running, listening, hostPeers, starts>>

-----------------------------------------------------------------------------
\* Stopping.

\* stop_server, and closing the window; serve_stop first lowers the flag.
PressStop ==
  /\ ~console /\ pressed /\ Step("idle", "close agent")
  /\ g_running' = FALSE
  /\ UNCHANGED <<console, listening, pressed, worker, loop, hostPeers, starts>>

\* console_handler, at any time.
Interrupt ==
  /\ console /\ g_running' = FALSE
  /\ UNCHANGED <<console, listening, starter, pressed, worker, loop, hostPeers, starts>>

\* main goes on to serve_stop when its loop has ended.
LoopReturned ==
  /\ console /\ ~Alive(worker) /\ Step("wait", "close agent")
  /\ g_running' = FALSE
  /\ UNCHANGED <<console, listening, pressed, worker, loop, hostPeers, starts>>

CloseAgent ==
  /\ Step("close agent", "close client")
  /\ listening' = listening \ {"agent"} /\ TurnAway({"agent"})
  /\ UNCHANGED <<console, g_running, pressed, worker, loop, starts>>

\* Mutant: the window does not wait for the loop.
CloseWithoutWaiting ==
  /\ Step("close client", "idle")
  /\ listening' = listening \ {"client"} /\ TurnAway({"client"})
  /\ pressed' = FALSE /\ worker' = 0
  /\ UNCHANGED <<console, g_running, loop, starts>>

CloseClient ==
  /\ Step("close client", IF console THEN "idle" ELSE "wait")
  /\ listening' = listening \ {"client"} /\ TurnAway({"client"})
  /\ UNCHANGED <<console, g_running, pressed, worker, loop, starts>>

JoinWorker ==
  /\ ~console /\ Step("wait", "idle")
  /\ ~Alive(worker)
  /\ pressed' = FALSE /\ worker' = 0
  /\ UNCHANGED <<console, g_running, listening, loop, hostPeers, starts>>

-----------------------------------------------------------------------------
\* serve_loop.

Goes(l, here, next) == loop[l].at = here /\ loop' = [loop EXCEPT ![l].at = next]

\* Mutant: the flag is not looked at again.
LoopForgetsFlag(l) ==
  /\ Goes(l, "head", IF listening = Roles THEN "select" ELSE "ended")
  /\ UNCHANGED <<console, hostLife, hostPeers, starts>>

LoopHead(l) ==
  /\ Goes(l, "head", IF IsRunning THEN "select" ELSE "ended")
  /\ UNCHANGED <<console, hostLife, hostPeers, starts>>

\* Mutant: nothing to accept is taken for the end.
SelectGivesUp(l) ==
  /\ loop[l].at = "select"
  /\ LET ready == {r \in listening : queue[r] # <<>>}
     IN  loop' = [loop EXCEPT ![l] = [at |-> IF ready = {} THEN "ended" ELSE "agent",
                                      ready |-> ready]]
  /\ UNCHANGED <<console, hostLife, hostPeers, starts>>

\* What arrives within 200 ms is reported; a listener that was closed meanwhile
\* is an error, which is nothing to accept.
Select(l) ==
  /\ loop[l].at = "select"
  /\ LET ready == {r \in listening : queue[r] # <<>>}
     IN  loop' = [loop EXCEPT ![l] = [at |-> IF ready = {} THEN "head" ELSE "agent",
                                      ready |-> ready]]
  /\ UNCHANGED <<console, hostLife, hostPeers, starts>>

\* accept on a listener that is open and has nobody waiting does not return.
WouldBlock(l, r) == r \in loop[l].ready /\ r \in listening /\ queue[r] = <<>>

\* accept_one gives the first in the queue a peer and a thread, or closes its
\* socket when there is no memory or no thread to be had.
AcceptOne(l, r, next) ==
  /\ ~WouldBlock(l, r)
  /\ Goes(l, r, next)
  /\ IF r \in loop[l].ready /\ r \in listening
     THEN /\ queue' = [queue EXCEPT ![r] = Tail(@)]
          /\ \E got \in {r, "out"} : conn' = [conn EXCEPT ![Head(queue[r])] = got]
     ELSE UNCHANGED hostPeers
  /\ UNCHANGED <<console, hostLife, starts>>

-----------------------------------------------------------------------------
\* Peers.

Connect(c, r) ==
  /\ conn[c] = "out" /\ r \in listening
  /\ queue' = [queue EXCEPT ![r] = Append(@, c)] /\ conn' = [conn EXCEPT ![c] = "waiting"]
  /\ UNCHANGED <<console, hostLife, loop, starts>>

\* connection_thread ends; stopping the relay does not end it.
Leave(c) ==
  /\ conn[c] \in Roles /\ conn' = [conn EXCEPT ![c] = "out"]
  /\ UNCHANGED <<console, hostLife, queue, loop, starts>>

Loop(l) ==
  \/ LoopHead(l) \/ Select(l)
  \/ AcceptOne(l, "agent", "client") \/ AcceptOne(l, "client", "head")

Program ==
  \/ ListenAgent \/ ListenClient \/ Run
  \/ LoopReturned \/ CloseAgent \/ CloseClient \/ JoinWorker

HostNext ==
  \/ PressStart \/ PressStop \/ Interrupt \/ Program
  \/ \E l \in LoopIds : Loop(l)
  \/ \E c \in Conns : (\E r \in Roles : Connect(c, r)) \/ Leave(c)

\* The threads are scheduled; nobody has to press a button.
HostFairness == WF_hostVars(Program) /\ \A l \in LoopIds : WF_hostVars(Loop(l))

HostSpec == HostInit /\ [][HostNext]_hostVars /\ HostFairness

-----------------------------------------------------------------------------
\* Properties.

\* A start that fails leaves no listener open, and whenever the window is at rest
\* it shows what is so (serve_start, start_server, stop_server).
NothingHalfOpen == starter = "idle" => listening = IF pressed /\ ~console THEN Roles ELSE {}

\* The loop never calls accept where nobody waits: it would be stuck there until
\* the next connection, and a stop with it (serve_loop, stop_server).
AcceptNeverBlocks ==
  \A l \in LoopIds, r \in Roles : loop[l].at = r => ~WouldBlock(l, r)

\* Whoever waits at a listener is accepted or turned away, as long as the loop
\* was given a thread (serve_loop).
WaitingIsAnswered ==
  \A c \in Conns : (Waiting(c) /\ starter = "idle" /\ worker # 0) ~> ~Waiting(c)

\* Once the flag is lowered on a relay that serves, by the button or a signal, both
\* listeners close and the loop ends (serve_stop, console_handler).
StopIsHonoured ==
  (~g_running /\ Alive(worker)) ~>
    (listening = {} /\ \A l \in LoopIds : ~Alive(l))
=============================================================================
