---------------------------- MODULE RelayServer ----------------------------
(***************************************************************************)
(* The relay hub (server/main.c): one thread per connection, every thread  *)
(* working on the registry of peers and the list of pending requests under *)
(* g_lock.  One action is one region between EnterCriticalSection and      *)
(* LeaveCriticalSection; where a handler takes the lock twice (register    *)
(* then catch up, store then broadcast, remove then drop the pending       *)
(* entries) it is two actions with a stage in between, so that any other   *)
(* thread can run there.                                                   *)
(*                                                                         *)
(* A connection slot p stands for a peer structure.  serial[p] is the      *)
(* number it took from g_next_id: the registry lists the newest first, so  *)
(* walking g_peers is walking down the serials.  What a client received is *)
(* kept per serial, so that two connections never share a history.         *)
(***************************************************************************)
EXTENDS Integers, Sequences, FiniteSets

CONSTANTS Senders, Clients,  \* connection slots on the two ports
          Devices,           \* the device names senders say HELLO with
          AnyDevice,         \* a request that names no device
          Unnamed,           \* the placeholder id of a sender before its HELLO
          Kinds,             \* which frames senders relay in this instance
          ReplayDepth,       \* DSH_REPLAY_DEPTH
          MaxConnections,    \* bound: connections registered in a behaviour
          MaxFrames,         \* bound: frames of one sender connection
          MaxRequests        \* bound: requests of all clients together

AllKinds == {"sessions", "control", "archived", "snapshot", "events"}

ASSUME ServerAssumption ==
  /\ Senders \cap Clients = {}
  /\ Kinds \subseteq AllKinds
  /\ ReplayDepth \in Nat \ {0}
  /\ MaxConnections \in Nat /\ MaxFrames \in Nat /\ MaxRequests \in Nat
  /\ AnyDevice \notin Devices /\ Unnamed \notin Devices

VARIABLES
  stage,     \* where the thread of a connection is between two regions
  serial,    \* peer.id's number, 0 for a free slot
  nextId,    \* g_next_id
  closing,   \* the peers whose closing flag is set
  device,    \* peer.id of a sender
  kept,      \* peer.sessions_json, peer.state_json and peer.replay
  hand,      \* the message a sender's thread has stored and not yet broadcast
  pending,   \* g_pending
  requests,  \* requests made so far: the age of a pending entry
  todo,      \* requests that reached a sender's program and await its answer
  log,       \* history: the frames a sender connection has had stored
  got,       \* history: what a client received, per serial of the sender
  shown,     \* history: the last session list a client received of each device
  roster,    \* the last device list a client received
  asked,     \* how many requests a client connection has made
  answers    \* history: the answers a client connection received

registry == <<stage, serial, nextId>>
streams  == <<kept, hand, log, got, shown>>
routing  == <<pending, requests, todo, asked, answers>>
vars     == <<registry, closing, device, streams, routing, roster>>

Conn == Senders \cup Clients
Serials == 1 .. MaxConnections

\* Where a connection is: "arriving", "joined" and "serving" follow
\* connection_thread, "identified" and "stored" sit between the two regions of
\* a handler, "unlinked" and "forgotten" follow the removal of the peer.
Live == {"arriving", "joined", "serving", "identified", "stored", "leaving"}
Stages == Live \cup {"absent", "unlinked", "forgotten"}

Slots == {"sessions", "state", "replay"}
SlotOf(kind) == IF kind = "sessions" THEN "sessions"
                ELSE IF kind \in {"control", "archived"} THEN "state" ELSE "replay"
Capacity(slot) == IF slot = "replay" THEN ReplayDepth ELSE 1

Frame == [kind : AllKinds, n : Nat]
\* A delivery is the frame itself, or the frame's envelope inside the payload
\* of an EVENTS message.
Delivery == [frame : Frame, nested : BOOLEAN]

Empty == [slot \in Slots |-> <<>>]
Nothing == [k \in Serials |-> <<>>]

Init == /\ stage = [p \in Conn |-> "absent"]
        /\ serial = [p \in Conn |-> 0]
        /\ nextId = 1
        /\ closing = {}
        /\ device = [s \in Senders |-> Unnamed]
        /\ kept = [s \in Senders |-> Empty]
        /\ hand = [s \in Senders |-> <<>>]
        /\ pending = {}
        /\ requests = 0
        /\ todo = [s \in Senders |-> <<>>]
        /\ log = [s \in Senders |-> <<>>]
        /\ got = [c \in Clients |-> Nothing]
        /\ shown = [c \in Clients |-> {}]
        /\ roster = [c \in Clients |-> {}]
        /\ asked = [c \in Clients |-> 0]
        /\ answers = [c \in Clients |-> <<>>]

-----------------------------------------------------------------------------
\* The registry.

Registered == {p \in Conn : stage[p] \in Live}
Online == Senders \cap Registered
Audience == (Clients \cap Registered) \ closing

\* build_device_list.
DeviceList == {[src |-> serial[s], id |-> device[s]] : s \in Online}

\* connection_loop after a message: a peer that failed a send is given up.
AfterMessage(p) == stage' = [stage EXCEPT ![p] = IF p \in closing' THEN "leaving"
                                                                   ELSE "serving"]

\* connection_thread, first region: the peer gets its number and is listed.
Register(p) ==
  /\ stage[p] = "absent"
  /\ nextId <= MaxConnections
  /\ serial' = [serial EXCEPT ![p] = nextId]
  /\ nextId' = nextId + 1
  /\ stage' = [stage EXCEPT ![p] = IF p \in Senders THEN "arriving" ELSE "joined"]
  /\ UNCHANGED <<closing, device, streams, routing, roster>>

\* broadcast_device_list: every send may time out, which marks the receiver;
\* "gone" is the peer that is freed right after.
BroadcastRoster(gone) ==
  \E failed \in SUBSET Audience :
    /\ closing' = (closing \cup failed) \ gone
    /\ roster' = [c \in Clients |-> IF c \in Audience \ failed THEN DeviceList
                                                               ELSE roster[c]]

\* Mutant: a HELLO changes the device and nobody is told.
AnnounceQuietly(s) ==
  /\ stage[s] \in {"arriving", "identified"}
  /\ stage' = [stage EXCEPT ![s] = "serving"]
  /\ UNCHANGED <<serial, nextId, closing, device, streams, routing, roster>>

\* The roster broadcast of a sender that has arrived, or that has said HELLO.
Announce(s) ==
  /\ stage[s] \in {"arriving", "identified"}
  /\ BroadcastRoster({})
  /\ IF stage[s] = "arriving" THEN stage' = [stage EXCEPT ![s] = "serving"]
                              ELSE AfterMessage(s)
  /\ UNCHANGED <<serial, nextId, device, streams, routing>>

\* handle_sender_message, HELLO: the device takes the place of the placeholder.
Identify(s, d) ==
  /\ stage[s] = "serving"
  /\ device[s] = Unnamed
  /\ device' = [device EXCEPT ![s] = d]
  /\ stage' = [stage EXCEPT ![s] = "identified"]
  /\ UNCHANGED <<serial, nextId, closing, streams, routing, roster>>

\* handle_client_message, DEVICES.
RefreshRoster(c) ==
  /\ stage[c] = "serving"
  /\ \/ /\ c \notin closing
        /\ roster' = [roster EXCEPT ![c] = DeviceList]
        /\ UNCHANGED closing
     \/ closing' = closing \cup {c} /\ UNCHANGED roster
  /\ AfterMessage(c)
  /\ UNCHANGED <<serial, nextId, device, streams, routing>>

\* PING of either side: the PONG may fail.
Ping(p) ==
  /\ stage[p] = "serving"
  /\ closing' \in {closing, closing \cup {p}}
  /\ AfterMessage(p)
  /\ UNCHANGED <<serial, nextId, device, streams, routing, roster>>

-----------------------------------------------------------------------------
\* What senders relay.

\* Mutant: a full slot keeps what it has.
PushOldest(q, f, depth) == IF Len(q) < depth THEN Append(q, f) ELSE q

Push(q, f, depth) == IF Len(q) < depth THEN Append(q, f) ELSE Append(Tail(q), f)

\* First region of SESSIONS, STATE, EVENTS and SNAPSHOT: the frame is kept for
\* late clients.  The sender program opens with HELLO, so the device is known.
Store(s, kind) ==
  LET f == [kind |-> kind, n |-> Len(log[s]) + 1]
      slot == SlotOf(kind)
  IN  /\ stage[s] = "serving"
      /\ device[s] # Unnamed
      /\ Len(log[s]) < MaxFrames
      /\ kept' = [kept EXCEPT ![s][slot] = Push(@, f, Capacity(slot))]
      /\ log' = [log EXCEPT ![s] = Append(@, f)]
      /\ hand' = [hand EXCEPT ![s] = <<f>>]
      /\ stage' = [stage EXCEPT ![s] = "stored"]
      /\ UNCHANGED <<serial, nextId, closing, device, got, shown, routing, roster>>

\* A session list takes the place of the one received before for its device.
ShowLists(old, new) == new \cup {e \in old : \A x \in new : x.device # e.device}

SessionList(s, f) == [device |-> device[s], src |-> serial[s], n |-> f.n]

\* Second region: broadcast_to_clients forwards the raw envelope.
Cast(s) ==
  /\ stage[s] = "stored"
  /\ \E failed \in SUBSET Audience :
       LET reached == Audience \ failed
           f == Head(hand[s])
       IN  /\ closing' = closing \cup failed
           /\ got' = [c \in Clients |->
                        IF c \in reached
                        THEN [got[c] EXCEPT ![serial[s]] =
                                Append(@, [frame |-> f, nested |-> FALSE])]
                        ELSE got[c]]
           /\ shown' = [c \in Clients |->
                          IF c \in reached /\ f.kind = "sessions"
                          THEN ShowLists(shown[c], {SessionList(s, f)})
                          ELSE shown[c]]
  /\ hand' = [hand EXCEPT ![s] = <<>>]
  /\ AfterMessage(s)
  /\ UNCHANGED <<serial, nextId, device, kept, log, routing, roster>>

\* Mutant: the stored payload goes out without an envelope of its own.
WrapBare(q, nested) == q

\* What send_catch_up_locked sends of one sender.  The replay buffer holds
\* whole envelopes and each becomes the payload of an EVENTS message.
Wrap(q, nested) == [i \in 1 .. Len(q) |-> [frame |-> q[i], nested |-> nested]]
Backlog(s) == Wrap(kept[s]["sessions"], FALSE) \o Wrap(kept[s]["state"], FALSE)
                \o Wrap(kept[s]["replay"], TRUE)

\* How far a catch-up may get: the walk takes the newest sender first and stops
\* at the first send that fails.
Reach == [Senders -> 0 .. 2 + ReplayDepth]
WalkUpTo(reach) ==
  /\ \A s \in Senders : reach[s] <= (IF s \in Online THEN Len(Backlog(s)) ELSE 0)
  /\ \A s, t \in Online : (serial[t] < serial[s] /\ reach[t] > 0)
                             => reach[s] = Len(Backlog(s))
Complete(reach) == \A s \in Online : reach[s] = Len(Backlog(s))

\* connection_thread, second region of a client: the roster, the backlog of
\* every sender, and the expiry of the oldest pending entries.
CatchUp(c) ==
  /\ stage[c] = "joined"
  /\ \E reach \in Reach, listed \in BOOLEAN :
       LET lists == {s \in Online : reach[s] > 0 /\ kept[s]["sessions"] # <<>>}
           final == {s \in lists : \A t \in lists :
                       device[t] = device[s] => serial[s] <= serial[t]}
       IN  /\ WalkUpTo(reach)
           /\ listed => c \notin closing
           /\ ~listed => \A s \in Senders : reach[s] = 0
           /\ closing' = IF listed /\ Complete(reach) THEN closing
                                                      ELSE closing \cup {c}
           /\ roster' = [roster EXCEPT ![c] = IF listed THEN DeviceList ELSE @]
           /\ got' = [got EXCEPT ![c] = [k \in Serials |->
                        IF \E s \in Online : serial[s] = k
                        THEN LET s == CHOOSE s \in Online : serial[s] = k
                             IN  got[c][k] \o SubSeq(Backlog(s), 1, reach[s])
                        ELSE got[c][k]]]
           /\ shown' = [shown EXCEPT ![c] = ShowLists(@,
                          {SessionList(s, Head(kept[s]["sessions"])) : s \in final})]
  /\ \E oldest \in {0} \cup {e.stamp : e \in pending} :
       pending' = {e \in pending : e.stamp > oldest}
  /\ stage' = [stage EXCEPT ![c] = "serving"]
  /\ UNCHANGED <<serial, nextId, device, kept, hand, log, requests, todo, asked,
                 answers>>

-----------------------------------------------------------------------------
\* Requests and answers.

\* A request on its way to a sender and back: its id, and when it was made.
Call == [id : Nat, stamp : Nat]
\* A pending entry; "born" is the serial of the client it points at.
Entry == [id : Nat, client : Clients, born : Nat, stamp : Nat]

\* The senders a request may go to, and the one that comes first in the registry.
Addressed(d) == IF d = AnyDevice THEN Online ELSE {s \in Online : device[s] = d}
FirstOf(s, S) == s \in S /\ \A t \in S : serial[t] <= serial[s]

\* No sender: the client is told at once.
Refuse(c, r) ==
  /\ \/ /\ c \notin closing
        /\ answers' = [answers EXCEPT ![c] = Append(@, r)]
        /\ UNCHANGED closing
     \/ closing' = closing \cup {c} /\ UNCHANGED answers
  /\ UNCHANGED <<pending, todo>>

\* The request becomes pending and is forwarded; a sender whose closing flag is
\* set gets nothing and nobody is told.
Forward(c, s, r) ==
  /\ pending' = pending \cup {[id |-> r.id, client |-> c, born |-> serial[c],
                               stamp |-> r.stamp]}
  /\ \/ /\ s \notin closing
        /\ todo' = [todo EXCEPT ![s] = Append(@, r)]
        /\ UNCHANGED closing
     \/ closing' = closing \cup {s} /\ UNCHANGED todo
  /\ UNCHANGED answers

\* handle_client_message, REQUEST.  A client numbers its own requests from 1.
Request(c, d) ==
  LET r == [id |-> asked[c] + 1, stamp |-> requests + 1]
  IN  /\ stage[c] = "serving"
      /\ requests < MaxRequests
      /\ requests' = r.stamp
      /\ asked' = [asked EXCEPT ![c] = r.id]
      /\ \/ Addressed(d) = {} /\ Refuse(c, r)
         \/ \E s \in Senders : FirstOf(s, Addressed(d)) /\ Forward(c, s, r)
      /\ AfterMessage(c)
      /\ UNCHANGED <<serial, nextId, device, streams, roster>>

\* Mutant: the entry is found and left in the list.
WithoutNone(e) == pending

\* pending_take_locked: the newest entry with the id leaves the list.
Newest(e, found) == e \in found /\ \A x \in found : x.stamp <= e.stamp
Without(e) == pending \ {e}

\* handle_sender_message, RESULT, ERROR and ACK: the first pending entry with
\* the id is taken, whoever asked; the sender answers in the order it was asked.
Answer(s) ==
  /\ stage[s] = "serving"
  /\ todo[s] # <<>>
  /\ LET r == Head(todo[s])
         found == {e \in pending : e.id = r.id}
     IN  \/ found = {} /\ UNCHANGED <<pending, closing, answers>>
         \/ \E e \in found :
              /\ Newest(e, found)
              /\ pending' = Without(e)
              /\ \/ /\ e.client \notin closing
                    /\ answers' = [answers EXCEPT ![e.client] = Append(@, r)]
                    /\ UNCHANGED closing
                 \/ closing' = closing \cup {e.client} /\ UNCHANGED answers
  /\ todo' = [todo EXCEPT ![s] = Tail(@)]
  /\ AfterMessage(s)
  /\ UNCHANGED <<serial, nextId, device, streams, requests, asked, roster>>

-----------------------------------------------------------------------------
\* The end of a connection.

\* dsh_message_read fails: the socket is closed, or a frame is rejected.
Drop(p) ==
  /\ stage[p] = "serving"
  /\ stage' = [stage EXCEPT ![p] = "leaving"]
  /\ UNCHANGED <<serial, nextId, closing, device, streams, routing, roster>>

\* registry_remove.
Unlink(p) ==
  /\ stage[p] = "leaving"
  /\ stage' = [stage EXCEPT ![p] = "unlinked"]
  /\ UNCHANGED <<serial, nextId, closing, device, streams, routing, roster>>

\* Mutant: the peer goes and its pending entries stay.
ForgetNothing(p) ==
  /\ stage[p] = "unlinked"
  /\ stage' = [stage EXCEPT ![p] = "forgotten"]
  /\ UNCHANGED <<serial, nextId, closing, device, streams, routing, roster>>

\* pending_drop_client_locked.
Forget(p) ==
  /\ stage[p] = "unlinked"
  /\ pending' = {e \in pending : e.client # p}
  /\ stage' = [stage EXCEPT ![p] = "forgotten"]
  /\ UNCHANGED <<serial, nextId, closing, device, streams, requests, todo, asked,
                 answers, roster>>

\* peer_free: the slot, and the histories about it, are those of a fresh peer.
Free(p) == /\ stage' = [stage EXCEPT ![p] = "absent"]
           /\ serial' = [serial EXCEPT ![p] = 0]

RetireClient(c) ==
  /\ stage[c] = "forgotten"
  /\ Free(c)
  /\ closing' = closing \ {c}
  /\ got' = [got EXCEPT ![c] = Nothing]
  /\ shown' = [shown EXCEPT ![c] = {}]
  /\ roster' = [roster EXCEPT ![c] = {}]
  /\ asked' = [asked EXCEPT ![c] = 0]
  /\ answers' = [answers EXCEPT ![c] = <<>>]
  /\ UNCHANGED <<nextId, device, kept, hand, log, pending, requests, todo>>

\* Mutant: the departing thread waits until it is the only sender left.
RetireSenderAlone(s) ==
  /\ stage[s] = "forgotten"
  /\ \A t \in Senders \ {s} : stage[t] = "absent"
  /\ Free(s)
  /\ BroadcastRoster({s})
  /\ device' = [device EXCEPT ![s] = Unnamed]
  /\ kept' = [kept EXCEPT ![s] = Empty]
  /\ log' = [log EXCEPT ![s] = <<>>]
  /\ todo' = [todo EXCEPT ![s] = <<>>]
  /\ UNCHANGED <<nextId, hand, got, shown, pending, requests, asked, answers>>

\* A sender's departure is broadcast before its peer is freed.
RetireSender(s) ==
  /\ stage[s] = "forgotten"
  /\ Free(s)
  /\ BroadcastRoster({s})
  /\ device' = [device EXCEPT ![s] = Unnamed]
  /\ kept' = [kept EXCEPT ![s] = Empty]
  /\ log' = [log EXCEPT ![s] = <<>>]
  /\ todo' = [todo EXCEPT ![s] = <<>>]
  /\ UNCHANGED <<nextId, hand, got, shown, pending, requests, asked, answers>>

-----------------------------------------------------------------------------
SenderNext(s) == \/ Announce(s)
                 \/ \E d \in Devices : Identify(s, d)
                 \/ \E kind \in Kinds : Store(s, kind)
                 \/ Cast(s)
                 \/ Answer(s)
                 \/ RetireSender(s)

ClientNext(c) == \/ CatchUp(c)
                 \/ RefreshRoster(c)
                 \/ \E d \in Devices \cup {AnyDevice} : Request(c, d)
                 \/ RetireClient(c)

ConnNext(p) == Register(p) \/ Ping(p) \/ Drop(p) \/ Unlink(p) \/ Forget(p)

Next == \/ \E s \in Senders : SenderNext(s)
        \/ \E c \in Clients : ClientNext(c)
        \/ \E p \in Conn : ConnNext(p)

Spec == Init /\ [][Next]_vars

\* A thread that is between two regions goes on: no send blocks for longer than
\* SO_SNDTIMEO while it holds the lock, so the lock is always released.
Fairness == /\ \A s \in Senders : WF_vars(Announce(s) \/ Cast(s) \/ RetireSender(s))
            /\ \A c \in Clients : WF_vars(CatchUp(c) \/ RetireClient(c))
            /\ \A p \in Conn : WF_vars(Unlink(p) \/ Forget(p))

FairSpec == Spec /\ Fairness

-----------------------------------------------------------------------------
Known(c) == stage[c] = "serving" /\ c \notin closing

TypeOK ==
  /\ stage \in [Conn -> Stages]
  /\ serial \in [Conn -> 0 .. MaxConnections]
  /\ nextId \in 1 .. MaxConnections + 1
  /\ closing \subseteq Conn
  /\ device \in [Senders -> Devices \cup {Unnamed}]
  /\ kept \in [Senders -> [Slots -> Seq(Frame)]]
  /\ hand \in [Senders -> Seq(Frame)]
  /\ pending \subseteq Entry
  /\ requests \in Nat
  /\ todo \in [Senders -> Seq(Call)]
  /\ log \in [Senders -> Seq(Frame)]
  /\ got \in [Clients -> [Serials -> Seq(Delivery)]]
  /\ shown \in [Clients -> SUBSET [device : Devices \cup {Unnamed}, src : Nat, n : Nat]]
  /\ roster \in [Clients -> SUBSET [src : Nat, id : Devices \cup {Unnamed}]]
  /\ asked \in [Clients -> Nat]
  /\ answers \in [Clients -> Seq(Call)]

\* A pending entry holds a bare pointer to the client that asked: as long as it
\* is in the list that peer has not been freed, nor its slot taken by another
\* connection (registry_remove, pending_drop_client_locked and peer_free of
\* connection_thread, in this order).
PendingSafe ==
  \A e \in pending : /\ stage[e.client] \notin {"absent", "forgotten"}
                     /\ serial[e.client] = e.born

\* However the ids of two clients collide, a client is never sent two answers
\* with one id, nor an answer with an id it has not used (pending_take_locked
\* removes what it finds, and an entry is made only for a request).
AtMostOneAnswer ==
  \A c \in Clients : \A i, j \in 1 .. Len(answers[c]) :
     /\ answers[c][i].id \in 1 .. asked[c]
     /\ i # j => answers[c][i].id # answers[c][j].id

\* When no roster broadcast is under way every client shows exactly the senders
\* that are connected: registering, HELLO and leaving are each followed by a
\* broadcast, and a client that joins in between gets the roster on joining.
RosterCurrent ==
  (\A s \in Senders : stage[s] \notin {"arriving", "identified", "unlinked", "forgotten"})
    => \A c \in Clients : Known(c) => roster[c] = DeviceList

Received(c, s, f) == \E i \in 1 .. Len(got[c][serial[s]]) : got[c][serial[s]][i].frame = f

\* A client that has caught up has no hole: it holds what the server keeps of
\* every sender, and after the first frame it got of a kind every later one.
\* Registering before reading the backlog, and storing before broadcasting, make
\* it so, although both take the lock twice.
NoGap ==
  \A c \in Clients, s \in Online :
    (Known(c) /\ stage[s] # "stored") =>
      /\ \A slot \in Slots : \A i \in 1 .. Len(kept[s][slot]) :
            Received(c, s, kept[s][slot][i])
      /\ \A i, j \in 1 .. Len(log[s]) :
            (i < j /\ SlotOf(log[s][i].kind) = SlotOf(log[s][j].kind)
                   /\ Received(c, s, log[s][i]))
               => Received(c, s, log[s][j])

\* The last session list a client was sent never goes back to an older one of the
\* same sender connection, be it from the backlog or from a broadcast.  The client
\* replaces its list by whatever arrives (session_store.dart, _applySessions).
ListsNeverGoBack ==
  [][\A c \in Clients : serial'[c] = serial[c] =>
       \A old \in shown[c], new \in shown'[c] : old.src = new.src => old.n <= new.n]_vars

\* A sender that has gone leaves the screen of every client: its departure is
\* announced, and no client that joins meanwhile keeps it.
DepartedDisappear ==
  \A s \in Senders, k \in Serials :
    (stage[s] = "leaving" /\ serial[s] = k)
      ~> (\A c \in Clients : Known(c) => \A e \in roster[c] : e.src # k)

-----------------------------------------------------------------------------
\* What the repository says of the hub and the code does not do.

\* PROTOCOL.md:131 has the answer routed by id "back to the client that sent the
\* request"; ids are numbered per client, so two clients share them.
AnswerReachesAsker ==
  [][\A s \in Senders, c \in Clients :
       (todo'[s] # todo[s] /\ todo[s] # <<>> /\ answers'[c] # answers[c])
         => \E e \in pending : e.client = c /\ e.stamp = Head(todo[s]).stamp]_vars

\* main.c:463-466: "a client that joins later receives the snapshot before the
\* tail rather than starting mid-conversation".  What it receives is an EVENTS
\* message around the SNAPSHOT envelope, which no client unwraps.
LateClientGetsSnapshot ==
  \A c \in Clients, s \in Online : (Known(c) /\ stage[s] # "stored") =>
    \A i \in 1 .. Len(kept[s]["replay"]) :
      kept[s]["replay"][i].kind = "snapshot" =>
        \E h \in 1 .. Len(got[c][serial[s]]) :
          got[c][serial[s]][h] = [frame |-> kept[s]["replay"][i], nested |-> FALSE]
=============================================================================
