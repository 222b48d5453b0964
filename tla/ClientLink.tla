----------------------------- MODULE ClientLink -----------------------------
(***************************************************************************)
(* A client's connection: the transport (relay_client.dart) and what opens *)
(* it, keeps it alive and opens it again (relay_session.dart).  The two    *)
(* clients have the same code.                                             *)
(*                                                                         *)
(* The program is one isolate: an event (a byte, a timer, a button, what a *)
(* worker sends back) runs with everything it completes before the next    *)
(* one, and that is a step.  The frames an event queues are steps of their *)
(* own, and Quiet keeps the next event behind them.  Timers have no clock; *)
(* one that waits for an answer runs out only when none is on its way, or  *)
(* at the price of a fault.                                                *)
(*                                                                         *)
(* The settings are taken to be complete.  A RelayClient that is disposed  *)
(* and has no attempt under way is not followed any further.               *)
(***************************************************************************)
EXTENDS Integers, Sequences, SequencesExt

CONSTANTS RelayClients,  \* RelayClient objects, used again
          MaxPresses,    \* bound: presses of connect and disconnect
          MaxFaults,     \* bound: faults of the relay, the path or a worker
          MaxPushed      \* bound: messages the relay pushes on one connection

ASSUME ClientLinkAssumption ==
  RelayClients # {} /\ "none" \notin RelayClients /\ MaxPresses \in Nat /\ MaxFaults \in Nat /\ MaxPushed \in Nat

VARIABLES
  wanted,   \* _reconnectWanted
  opening,  \* _opening
  client,   \* _client
  status,   \* _status
  retry,    \* is _reconnectTimer running
  beat,     \* "off", "on" (_pingTimer), "awaiting" (_awaitingPong)
  rc,       \* the RelayClient objects
  reachable,  \* can the relay be reached
  presses, faults

session == <<wanted, opening, client, status, retry, beat>>
clientLinkVars == <<session, rc, reachable, presses, faults>>

Kinds == {"ack", "small", "large", "spoiled", "pong"}
Frame(kind, n) == [kind |-> kind, n |-> n]
Mail == [kind : Kinds, n : 0 .. MaxPushed]

\* at is what the attempt to connect awaits; relay is what the relay knows of the
\* connection; got and spoiled are history.
Fresh ==
  [at |-> "none", disposed |-> FALSE, closed |-> FALSE, sock |-> "none", path |-> "up",
   relay |-> "none", deriving |-> FALSE, keys |-> FALSE, wire |-> <<>>, held |-> <<>>,
   chain |-> <<>>, busy |-> FALSE, pushed |-> 0, got |-> <<>>, spoiled |-> {}]

ClientLinkTypeOK ==
  /\ {wanted, opening, retry, reachable} \subseteq BOOLEAN
  /\ client \in RelayClients \cup {"none"}
  /\ status \in {"disconnected", "connecting", "connected", "rejected", "failed"}
  /\ beat \in {"off", "on", "awaiting"}
  /\ \A c \in RelayClients :
       /\ rc[c].at \in {"none", "socket", "ack", "keys", "status", "subscribe"}
       /\ rc[c].sock \in {"none", "open", "closed"} /\ rc[c].path \in {"up", "silent", "ended"}
       /\ rc[c].relay \in {"none", "hello", "linked"}
       /\ {rc[c].disposed, rc[c].closed, rc[c].deriving, rc[c].keys, rc[c].busy} \subseteq BOOLEAN
       /\ {rc[c].wire, rc[c].held, rc[c].chain} \subseteq Seq(Mail)
       /\ rc[c].pushed \in 0 .. MaxPushed /\ rc[c].got \in Seq(1 .. MaxPushed)
       /\ rc[c].spoiled \subseteq 1 .. MaxPushed
  /\ presses \in 0 .. MaxPresses /\ faults \in 0 .. MaxFaults

ClientLinkInit ==
  /\ wanted = FALSE /\ opening = FALSE /\ client = "none"
  /\ status = "disconnected" /\ retry = FALSE /\ beat = "off"
  /\ rc = [c \in RelayClients |-> Fresh]
  /\ reachable = TRUE /\ presses = 0 /\ faults = 0

-----------------------------------------------------------------------------
\* A RelayClient.

\* RelayClient._teardown: an attempt that awaits the keys or an answer is woken,
\* one that awaits the socket or the ack is not.
Woken(r) == r.at \in {"keys", "status", "subscribe"}
TornDown(r) ==
  [r EXCEPT !.closed = TRUE, !.keys = FALSE, !.held = <<>>, !.wire = <<>>,
            !.sock = IF @ = "open" THEN "closed" ELSE @,
            !.at = IF Woken(r) THEN "none" ELSE @]

Kept(r) == IF r.disposed /\ r.at = "none" THEN Fresh ELSE r
Disposed(r) == Kept([TornDown(r) EXCEPT !.disposed = TRUE])

Becomes(c, r) == rc' = [rc EXCEPT ![c] = Kept(r)]

\* No frame is waiting for its turn.
Quiet == \A c \in RelayClients : rc[c].chain = <<>> \/ rc[c].busy

Fault == faults < MaxFaults /\ faults' = faults + 1

-----------------------------------------------------------------------------
\* Opening (_open, _openOnce).

\* Everything that RelaySession._teardown leaves behind.
LetGo == IF client = "none" THEN rc ELSE [rc EXCEPT ![client] = Disposed(@)]

\* One attempt at a time; the timer is left as it is.
Open ==
  IF opening THEN UNCHANGED <<opening, client, status, beat, rc>>
  ELSE LET c == CHOOSE x \in RelayClients : LetGo[x] = Fresh
       IN  /\ client' = c /\ rc' = [LetGo EXCEPT ![c].at = "socket"]
           /\ opening' = TRUE /\ status' = "connecting" /\ beat' = "off"

\* Mutant: the new timer is left to the listener of the connection's status.
ThrowsQuietly ==
  /\ status' = "failed" /\ opening' = FALSE
  /\ UNCHANGED <<wanted, client, retry, beat>>

\* The attempt ends in one of the catches.
Throws ==
  /\ status' = "failed" /\ opening' = FALSE /\ retry' = (wanted \/ retry)
  /\ UNCHANGED <<wanted, client, beat>>

Press == Quiet /\ presses < MaxPresses /\ presses' = presses + 1 /\ UNCHANGED <<reachable, faults>>

PressConnect == Press /\ wanted' = TRUE /\ Open /\ UNCHANGED retry

\* An attempt that awaits the socket or the ack goes on with a disposed client.
PressDisconnect ==
  /\ Press
  /\ wanted' = FALSE /\ retry' = FALSE /\ beat' = "off" /\ status' = "disconnected"
  /\ client' = "none" /\ rc' = LetGo
  /\ opening' = (opening /\ (client = "none" \/ ~Woken(rc[client])))

RetryFires ==
  /\ Quiet /\ retry /\ retry' = FALSE
  /\ IF wanted /\ status # "connected" THEN Open
     ELSE UNCHANGED <<opening, client, status, beat, rc>>
  /\ UNCHANGED <<wanted, reachable, presses, faults>>

-----------------------------------------------------------------------------
\* The attempt (RelayClient.connect, _handshake).

Awaits(c, what) == Quiet /\ rc[c].at = what /\ UNCHANGED <<reachable, presses>>

\* Mutant: _closed is reset when the socket is there.
ReachedAnew(c) ==
  /\ Awaits(c, "socket") /\ reachable
  /\ Becomes(c, [rc[c] EXCEPT !.at = "ack", !.sock = "open", !.path = "up",
                              !.closed = FALSE, !.relay = "hello"])
  /\ UNCHANGED <<session, faults>>

\* The HELLO goes out unless the client was disposed meanwhile.
Reached(c) ==
  /\ Awaits(c, "socket") /\ reachable
  /\ Becomes(c, [rc[c] EXCEPT !.at = "ack", !.sock = "open", !.path = "up",
                              !.relay = IF rc[c].closed THEN "none" ELSE "hello"])
  /\ UNCHANGED <<session, faults>>

Unreached(c) ==
  /\ Awaits(c, "socket") /\ ~reachable
  /\ Becomes(c, [rc[c] EXCEPT !.at = "none"]) /\ Throws /\ UNCHANGED faults

\* The relay's ack, which it may also keep to itself (SocketEnds).
RelayGreets(c) ==
  /\ Quiet /\ rc[c].relay = "hello" /\ rc[c].path = "up" /\ rc[c].sock = "open"
  /\ Becomes(c, [rc[c] EXCEPT !.relay = "linked", !.wire = Append(@, Frame("ack", 0))])
  /\ UNCHANGED <<session, reachable, presses, faults>>

\* 20 s: the socket stays open, and an ack that comes later is still taken.
NoAck(c) ==
  /\ Awaits(c, "ack")
  /\ IF rc[c].path = "up" /\ rc[c].relay # "none" /\ ~rc[c].closed
     THEN Fault ELSE UNCHANGED faults
  /\ Becomes(c, [rc[c] EXCEPT !.at = "none"]) /\ Throws

\* _startKeyDerivation's continuation: the frames held meanwhile take their turn.
KeysDerived(c) ==
  /\ Quiet /\ rc[c].deriving /\ ~rc[c].disposed
  /\ Becomes(c, [rc[c] EXCEPT !.deriving = FALSE, !.keys = TRUE, !.held = <<>>,
                              !.chain = @ \o rc[c].held,
                              !.at = IF @ = "keys" THEN "status" ELSE @])
  /\ IF rc[c].at = "keys" THEN status' = "connected" /\ beat' = "on"
                          ELSE UNCHANGED <<status, beat>>
  /\ UNCHANGED <<wanted, opening, client, retry, reachable, presses, faults>>

KeysFail(c) ==
  /\ Quiet /\ rc[c].deriving /\ Fault
  /\ Becomes(c, [rc[c] EXCEPT !.deriving = FALSE, !.at = IF @ = "keys" THEN "none" ELSE @])
  /\ IF rc[c].at = "keys" THEN Throws ELSE UNCHANGED session
  /\ UNCHANGED <<reachable, presses>>

\* _refreshRelayStatus and _subscribeTo, if a session is open: whatever becomes of
\* the request, the attempt goes on.
StatusEnds(c) ==
  /\ Awaits(c, "status")
  /\ \E next \in {"subscribe", "none"} :
       Becomes(c, [rc[c] EXCEPT !.at = next]) /\ opening' = (next # "none")
  /\ UNCHANGED <<wanted, client, status, retry, beat, faults>>

SubscribeEnds(c) ==
  /\ Awaits(c, "subscribe") /\ Becomes(c, [rc[c] EXCEPT !.at = "none"]) /\ opening' = FALSE
  /\ UNCHANGED <<wanted, client, status, retry, beat, faults>>

-----------------------------------------------------------------------------
\* Frames (_drainFrames, _enqueue, _dispatch).

Arrive(c) ==
  /\ Quiet /\ rc[c].wire # <<>> /\ rc[c].sock = "open" /\ ~rc[c].closed
  /\ Becomes(c, [rc[c] EXCEPT !.wire = Tail(@), !.chain = Append(@, Head(rc[c].wire))])
  /\ UNCHANGED <<session, reachable, presses, faults>>

\* A message, a pong, or a frame that does not open and is dropped.
Opened(c, f) ==
  /\ Becomes(c, [rc[c] EXCEPT !.chain = Tail(@), !.busy = FALSE,
                 !.got = IF f.kind \in {"small", "large"} THEN Append(@, f.n) ELSE @,
                 !.spoiled = IF f.kind = "spoiled" THEN @ \cup {f.n} ELSE @])
  /\ beat' = IF f.kind = "pong" /\ beat = "awaiting" THEN "on" ELSE beat
  /\ status' = IF f.kind = "spoiled" THEN "rejected" ELSE status
  /\ UNCHANGED <<wanted, opening, client, retry>>

\* An ack starts the derivation, a frame without keys is held, a large one goes to
\* a worker and keeps its turn.
Dispatch(c) ==
  /\ rc[c].chain # <<>> /\ ~rc[c].busy
  /\ LET f == Head(rc[c].chain)
     IN  CASE f.kind = "ack" ->
                /\ Becomes(c, [rc[c] EXCEPT !.chain = Tail(@), !.deriving = TRUE,
                                            !.at = IF @ = "ack" THEN "keys" ELSE @])
                /\ UNCHANGED session
           [] f.kind # "ack" /\ ~rc[c].keys ->
                /\ Becomes(c, [rc[c] EXCEPT !.chain = Tail(@), !.held = Append(@, f)])
                /\ UNCHANGED session
           [] f.kind = "large" /\ rc[c].keys ->
                Becomes(c, [rc[c] EXCEPT !.busy = TRUE]) /\ UNCHANGED session
           [] OTHER -> Opened(c, f)
  /\ UNCHANGED <<reachable, presses, faults>>

WorkerDone(c) ==
  /\ Quiet /\ rc[c].busy /\ Opened(c, Head(rc[c].chain))
  /\ UNCHANGED <<reachable, presses, faults>>

-----------------------------------------------------------------------------
\* Losing the connection.

\* _fail, when the socket ends: every attempt but one that awaits the ack ends.
LinkEnds(c) ==
  /\ Quiet /\ rc[c].path = "ended" /\ rc[c].sock = "open" /\ ~rc[c].closed
  /\ Becomes(c, TornDown(rc[c]))
  /\ status' = "disconnected" /\ retry' = (wanted \/ retry)
  /\ opening' = (opening /\ ~Woken(rc[c]))
  /\ UNCHANGED <<wanted, client, beat, reachable, presses, faults>>

\* _heartbeat: a ping, or _dropDeadLink when the one before was not answered.
PongComes(r) == \E f \in Range(r.wire) \cup Range(r.held) \cup Range(r.chain) : f.kind = "pong"

Heartbeat ==
  /\ Quiet /\ beat # "off" /\ client # "none" /\ status = "connected"
  /\ IF beat = "on" THEN
       /\ beat' = "awaiting"
       /\ rc' = IF rc[client].path = "up"
                THEN [rc EXCEPT ![client].wire = Append(@, Frame("pong", 0))] ELSE rc
       /\ UNCHANGED <<opening, client, status, retry, faults>>
     ELSE
       /\ IF PongComes(rc[client]) THEN Fault ELSE UNCHANGED faults
       /\ beat' = "off" /\ status' = "failed" /\ retry' = (wanted \/ retry)
       /\ client' = "none" /\ rc' = LetGo
       /\ opening' = (opening /\ ~Woken(rc[client]))
  /\ UNCHANGED <<wanted, reachable, presses>>

-----------------------------------------------------------------------------
\* The relay and the path.

Push(c, kind) ==
  /\ Quiet /\ rc[c].relay = "linked" /\ rc[c].path = "up" /\ rc[c].sock = "open"
  /\ rc[c].pushed < MaxPushed
  /\ Becomes(c, [rc[c] EXCEPT !.pushed = @ + 1,
                              !.wire = Append(@, Frame(kind, rc[c].pushed + 1))])
  /\ UNCHANGED <<session, reachable, presses, faults>>

Happens == Quiet /\ Fault /\ UNCHANGED <<session, presses>>

\* A path is lost without a word, or the socket ends.
Silence(c) ==
  /\ Happens /\ rc[c].sock = "open" /\ rc[c].path = "up"
  /\ Becomes(c, [rc[c] EXCEPT !.path = "silent", !.wire = <<>>]) /\ UNCHANGED reachable

SocketEnds(c) ==
  /\ Happens /\ rc[c].sock = "open" /\ rc[c].path # "ended"
  /\ Becomes(c, [rc[c] EXCEPT !.path = "ended"]) /\ UNCHANGED reachable

Spoil(c) ==
  /\ Happens /\ rc[c].wire # <<>> /\ Head(rc[c].wire).kind \in {"small", "large"}
  /\ Becomes(c, [rc[c] EXCEPT !.wire[1].kind = "spoiled"]) /\ UNCHANGED reachable

RelayGoes == Happens /\ reachable /\ reachable' = FALSE /\ UNCHANGED rc
RelayReturns == Quiet /\ ~reachable /\ reachable' = TRUE /\ UNCHANGED <<session, rc, presses, faults>>

Runs(c) ==
  \/ Reached(c) \/ Unreached(c) \/ RelayGreets(c) \/ NoAck(c) \/ KeysDerived(c)
  \/ StatusEnds(c) \/ SubscribeEnds(c) \/ Arrive(c) \/ Dispatch(c) \/ WorkerDone(c)

ClientLinkNext ==
  \/ PressConnect \/ PressDisconnect \/ RetryFires \/ Heartbeat
  \/ \E c \in RelayClients :
       \/ Runs(c) \/ KeysFail(c) \/ LinkEnds(c)
       \/ \E kind \in {"small", "large"} : Push(c, kind)
       \/ Silence(c) \/ SocketEnds(c) \/ Spoil(c)
  \/ RelayGoes \/ RelayReturns

\* Events and timers come to their turn; nobody presses a button.
ClientLinkFairness ==
  /\ \A c \in RelayClients : WF_clientLinkVars(Runs(c)) /\ WF_clientLinkVars(LinkEnds(c))
  /\ WF_clientLinkVars(RetryFires) /\ WF_clientLinkVars(Heartbeat)

ClientLinkSpec == ClientLinkInit /\ [][ClientLinkNext]_clientLinkVars /\ ClientLinkFairness

-----------------------------------------------------------------------------
\* Properties.

\* A connection the relay has admitted is the session's own, so after a disconnect
\* there is none, and what the session was handed over it are the relay's messages in
\* order and without a hole but for frames that did not open (dispose, _dispatch).
OneLinkInOrder ==
  \A c \in RelayClients :
    /\ rc[c].relay = "linked" /\ rc[c].sock = "open" => c = client
    /\ \A i \in DOMAIN rc[c].got :
         \A n \in 1 .. rc[c].got[i] :
           n \in rc[c].spoiled \/ \E j \in 1 .. i : rc[c].got[j] = n
    /\ \A i, j \in DOMAIN rc[c].got : i < j => rc[c].got[i] < rc[c].got[j]

Live ==
  /\ client # "none" /\ status = "connected"
  /\ rc[client].keys /\ ~rc[client].closed /\ rc[client].path = "up"

\* A client that is to be connected becomes so again, whatever failed on the way, as
\* long as the relay can be reached and no frame was rejected (_open, _heartbeat,
\* _scheduleReconnect).
ClientRecovers == wanted ~> (Live \/ ~wanted \/ ~reachable \/ status = "rejected")
=============================================================================
