---------------------------- MODULE SenderLinks ----------------------------
(***************************************************************************)
(* The sender's main loop (agent_run in agent/main.c) and what it keeps    *)
(* alive: the tunnel to the relay, the authenticated dsh link, the event   *)
(* mux to dsh, the three standing feeds and the follow streams opened on   *)
(* that mux, and the mirror of dsh's session list.                         *)
(*                                                                         *)
(* The loop is one thread.  pc is the block of agent_run it is about to    *)
(* run; one action is one block, or one way through it.  A timer           *)
(* (next_reconnect, next_dsh_try, next_list_poll) is a block that may      *)
(* always be passed over.  Between blocks the relay, dsh and the user act: *)
(* links break, dsh stops and returns, the list changes, the window        *)
(* disconnects and connects again (agent_stop, agent_start).               *)
(*                                                                         *)
(* A stream id is its number: all kinds draw from next_stream_num.         *)
(***************************************************************************)
EXTENDS Integers, Sequences, FiniteSets

CONSTANTS Sessions,     \* session ids clients subscribe to
          MaxFollows,   \* MAX_FOLLOWS
          MaxFailures,  \* DSH_MAX_FAILURES
          MaxLists,     \* bound: versions of dsh's session list
          MaxFaults,    \* bound: broken links, dsh stops and ended streams
          MaxRequests,  \* bound: requests the sender serves
          MaxStops      \* bound: disconnections by the user

ASSUME SenderAssumption ==
  /\ MaxFollows \in Nat \ {0} /\ MaxFailures \in Nat \ {0}
  /\ MaxLists \in Nat /\ MaxFaults \in Nat
  /\ MaxRequests \in Nat /\ MaxStops \in Nat

VARIABLES
  running, pc,        \* the loop thread; "off" before it starts and after it ends
  relay_ready,
  tunnel,             \* does the relay still hold the socket
  published,          \* the last session list sent through this tunnel
  watched,            \* sessions a client of this tunnel was told it is subscribed
                      \* to, less those whose stream dsh ended
  dsh_ready, dsh_failures, sessions_cache,
  ws_ready,
  muxUp,              \* does dsh still hold the mux
  muxFirst,           \* history: the first stream number this mux can carry
  opened,             \* streams dsh has open on the mux
  frames,             \* frames of dsh the sender has not read
  stream, subscribed, \* *_stream_id and *_subscribed of the standing feeds
  events_client_id,   \* the stream whose ready frame gave the client id
  follows,            \* the active slots of the follow table
  next_stream_num,
  dshUp, list,        \* does dsh answer, and the session list it has
  faults, requests, stops

thread == <<running, pc>>
relay  == <<relay_ready, tunnel, published, watched>>
mirror == <<dsh_ready, dsh_failures, sessions_cache>>
mux    == <<ws_ready, muxUp, muxFirst, opened, frames>>
feeds  == <<stream, subscribed, events_client_id>>
ids    == <<follows, next_stream_num>>
world  == <<dshUp, list, faults, requests, stops>>
vars   == <<thread, relay, mirror, mux, feeds, ids, world>>

None == 0            \* no list
NoStream == -1       \* an empty stream id

Feeds == {"control", "workspace", "events"}
Points == {"off", "head", "relay", "greet", "subscribe", "dsh", "mux", "list",
           "select", "pump"}

StreamId == Nat \cup {NoStream}
Follow == [session : Sessions, id : Nat]
Stream == [id : Nat, what : Feeds \cup {"follow"}]
Frame  == [type : {"ready", "end"}, id : Nat]

TypeOK ==
  /\ running \in BOOLEAN /\ pc \in Points
  /\ relay_ready \in BOOLEAN /\ tunnel \in BOOLEAN
  /\ published \in Nat /\ watched \subseteq Sessions
  /\ dsh_ready \in BOOLEAN /\ dsh_failures \in 0 .. MaxFailures - 1
  /\ sessions_cache \in Nat
  /\ ws_ready \in BOOLEAN /\ muxUp \in BOOLEAN /\ muxFirst \in Nat
  /\ opened \subseteq Stream /\ frames \in Seq(Frame)
  /\ stream \in [Feeds -> StreamId] /\ subscribed \in [Feeds -> BOOLEAN]
  /\ events_client_id \in StreamId
  /\ follows \subseteq Follow /\ next_stream_num \in Nat
  /\ dshUp \in BOOLEAN /\ list \in Nat
  /\ faults \in Nat /\ requests \in Nat /\ stops \in Nat

Init ==
  /\ running = FALSE /\ pc = "off"
  /\ relay_ready = FALSE /\ tunnel = FALSE /\ published = None /\ watched = {}
  /\ dsh_ready = FALSE /\ dsh_failures = 0 /\ sessions_cache = None
  /\ ws_ready = FALSE /\ muxUp = FALSE /\ muxFirst = 0
  /\ opened = {} /\ frames = <<>>
  /\ stream = [f \in Feeds |-> NoStream] /\ subscribed = [f \in Feeds |-> FALSE]
  /\ events_client_id = NoStream
  /\ follows = {} /\ next_stream_num = 0
  /\ dshUp \in BOOLEAN /\ list = 1
  /\ faults = 0 /\ requests = 0 /\ stops = 0

Goto(p) == pc' = p /\ UNCHANGED running

-----------------------------------------------------------------------------
\* Streams on the mux.

Ids(set) == {x.id : x \in set}

\* The streams left when the given ids are cancelled (dsh_cancel_stream).
Without(gone) == {o \in opened : o.id \notin gone}

\* dsh sees an open frame only through a live mux (dsh_send_stream_frame).
Reached(new) == IF muxUp THEN new ELSE {}

StopAllFollows == Without(Ids(follows))

\* A new mux carries no stream yet; what the old one still held is gone.
FreshMux(up) ==
  muxUp' = up /\ muxFirst' = next_stream_num /\ opened' = {} /\ frames' = <<>>

\* Mutants: one of the resets is forgotten.
DropKeepsFollows ==
  /\ ws_ready' = FALSE /\ FreshMux(FALSE) /\ UNCHANGED follows
  /\ subscribed' = [f \in Feeds |-> FALSE]
DropKeepsFlags ==
  ws_ready' = FALSE /\ FreshMux(FALSE) /\ follows' = {} /\ UNCHANGED subscribed

\* What pump_mux and mirror_session_list do when the mux is given up.
DropStreams ==
  /\ ws_ready' = FALSE
  /\ FreshMux(FALSE)
  /\ follows' = {}
  /\ subscribed' = [f \in Feeds |-> FALSE]

\* The numbers the feeds get when those in missing are opened in the order
\* control, workspace, events, and the number drawn after them.
One(f, missing) == IF f \in missing THEN 1 ELSE 0
Numbers(missing) ==
  [control   |-> next_stream_num,
   workspace |-> next_stream_num + One("control", missing),
   events    |-> next_stream_num + One("control", missing) + One("workspace", missing)]
NumberAfter(missing) == Numbers(missing)["events"] + One("events", missing)

\* subscribe_control, subscribe_workspace and subscribe_events, of the feeds in
\* missing, over a mux that is up or down and already carries the given streams.
Open(missing, up, carried) ==
  /\ stream' = [f \in Feeds |->
                  IF f \in missing THEN Numbers(missing)[f] ELSE stream[f]]
  /\ next_stream_num' = NumberAfter(missing)
  /\ opened' = carried \cup
       (IF up THEN {[id |-> Numbers(missing)[f], what |-> f] : f \in missing} ELSE {})

\* dsh answers an opened $events stream with the client id of that stream.
Ready(missing) == IF "events" \in missing
                    THEN <<[type |-> "ready", id |-> Numbers(missing)["events"]]>>
                    ELSE <<>>

-----------------------------------------------------------------------------
\* The dsh link.

\* dsh_connect once dsh answers: the mux may or may not open.  Whatever mux
\* there was is overwritten.
DshConnect ==
  /\ dsh_ready' = TRUE
  /\ \E up \in BOOLEAN : FreshMux(up) /\ ws_ready' = (ws_ready \/ up)

\* Mutant: off by one in the count of failures.
FailsOnceMore ==
  /\ dsh_failures' = dsh_failures + 1
  /\ UNCHANGED <<dsh_ready, mux, subscribed, follows>>

MirrorFails ==
  IF dsh_failures + 1 < MaxFailures
    THEN /\ dsh_failures' = dsh_failures + 1
         /\ UNCHANGED <<dsh_ready, mux, subscribed, follows>>
    ELSE /\ dsh_failures' = 0 /\ dsh_ready' = FALSE
         /\ DropStreams

\* A list equal to the cache is not sent; one that differs is.  Sending into a
\* tunnel that broke may succeed all the same, or fail and give the tunnel up.
MirrorAnswers ==
  /\ dsh_failures' = 0
  /\ sessions_cache' = list
  /\ IF sessions_cache = list \/ ~relay_ready
       THEN UNCHANGED <<relay_ready, published>>
       ELSE \/ published' = list /\ UNCHANGED relay_ready
            \/ ~tunnel /\ relay_ready' = FALSE /\ UNCHANGED published

MirrorSessionList ==
  \/ /\ ~dsh_ready
     /\ UNCHANGED <<relay, mirror, mux, subscribed, follows>>
  \/ /\ dsh_ready /\ dshUp
     /\ MirrorAnswers
     /\ UNCHANGED <<tunnel, watched, dsh_ready, mux, subscribed, follows>>
  \/ /\ dsh_ready /\ ~dshUp
     /\ MirrorFails
     /\ UNCHANGED <<relay, sessions_cache>>

-----------------------------------------------------------------------------
\* The loop, block by block.

Turn ==
  /\ pc = "head"
  /\ pc' = IF running THEN "relay" ELSE "off"
  /\ UNCHANGED <<running, relay, mirror, mux, feeds, ids, world>>

\* A connected relay, a timer that has not expired, a failed attempt.
SkipRelay ==
  /\ pc = "relay" /\ Goto("dsh")
  /\ UNCHANGED <<relay, mirror, mux, feeds, ids, world>>

\* Mutants: the reset at a fresh tunnel forgets the cache, or the follows.
KeepCache == UNCHANGED sessions_cache
KeepFollows == UNCHANGED <<opened, follows>>

FreshMirror == sessions_cache' = None
FreshFollows == opened' = StopAllFollows /\ follows' = {}

RelayConnect ==
  /\ pc = "relay" /\ ~relay_ready
  /\ relay_ready' = TRUE /\ tunnel' = TRUE
  /\ published' = None /\ watched' = {}
  /\ FreshMirror
  /\ subscribed' = [subscribed EXCEPT !["control"] = FALSE, !["workspace"] = FALSE]
  /\ FreshFollows
  /\ Goto("greet")
  /\ UNCHANGED <<dsh_ready, dsh_failures, ws_ready, muxUp, muxFirst, frames, stream,
                 events_client_id, next_stream_num, world>>

Greet ==
  /\ pc = "greet"
  /\ MirrorSessionList
  /\ Goto("subscribe")
  /\ UNCHANGED <<stream, events_client_id, next_stream_num, world>>

SubscribeFeeds ==
  /\ pc = "subscribe"
  /\ LET missing == IF ws_ready THEN {f \in Feeds : ~subscribed[f]} ELSE {}
     IN  /\ Open(missing, muxUp, opened)
         /\ frames' = IF muxUp THEN frames \o Ready(missing) ELSE frames
         /\ subscribed' = [f \in Feeds |-> subscribed[f] \/ f \in missing]
  /\ Goto("dsh")
  /\ UNCHANGED <<relay, mirror, ws_ready, muxUp, muxFirst, events_client_id, follows,
                 world>>

SkipDsh ==
  /\ pc = "dsh" /\ Goto("mux")
  /\ UNCHANGED <<relay, mirror, mux, feeds, ids, world>>

\* Mutant: the dsh link is only tried when the sender starts.
NoRetry == pc = "off" /\ UNCHANGED vars

ConnectDsh ==
  /\ pc = "dsh" /\ ~dsh_ready /\ dshUp
  /\ DshConnect
  /\ Goto("mux")
  /\ UNCHANGED <<relay, dsh_failures, sessions_cache, feeds, ids, world>>

SkipMux ==
  /\ pc = "mux" /\ Goto("list")
  /\ UNCHANGED <<relay, mirror, mux, feeds, ids, world>>

ReopenMux ==
  /\ pc = "mux" /\ dsh_ready /\ ~ws_ready /\ dshUp
  /\ ws_ready' = TRUE /\ muxUp' = TRUE /\ muxFirst' = next_stream_num
  /\ Open(Feeds, TRUE, {})
  /\ frames' = Ready(Feeds)
  /\ subscribed' = [f \in Feeds |-> TRUE]
  /\ Goto("list")
  /\ UNCHANGED <<relay, mirror, events_client_id, follows, world>>

SkipList ==
  /\ pc = "list" /\ Goto("select")
  /\ UNCHANGED <<relay, mirror, mux, feeds, ids, world>>

PollList ==
  /\ pc = "list" /\ dsh_ready
  /\ MirrorSessionList
  /\ Goto("select")
  /\ UNCHANGED <<stream, events_client_id, next_stream_num, world>>

\* select() returns with nothing to read, or after the handler of one frame.
SelectIdle ==
  /\ pc = "select" /\ Goto("pump")
  /\ UNCHANGED <<relay, mirror, mux, feeds, ids, world>>

\* A read, or the ping before it, finds the tunnel gone.
LoseRelay ==
  /\ pc = "select" /\ relay_ready /\ ~tunnel
  /\ relay_ready' = FALSE
  /\ Goto("pump")
  /\ UNCHANGED <<tunnel, published, watched, mirror, mux, feeds, ids, world>>

Serving ==
  /\ pc = "select" /\ relay_ready /\ tunnel
  /\ requests < MaxRequests
  /\ requests' = requests + 1
  /\ Goto("pump")
  /\ UNCHANGED <<dshUp, list, faults, stops>>

\* Mutant: a session followed already gets a second slot.
OnlyWhenFull(s) ==
  IF Cardinality(follows) < MaxFollows THEN {}
  ELSE {f \in follows : \A g \in follows : f.id <= g.id}

\* The streams that make room for a new follow of s: its own former one, or,
\* when the table is full of others, the one that began first.
MakesRoom(s) ==
  LET own    == {f \in follows : f.session = s}
      oldest == {f \in follows : \A g \in follows : f.id <= g.id}
  IN  IF own # {} THEN own
      ELSE IF Cardinality(follows) < MaxFollows THEN {} ELSE oldest

ServeSubscribe(s) ==
  /\ Serving
  /\ ws_ready
  /\ LET gone == MakesRoom(s)
     IN  /\ follows' = (follows \ gone) \cup {[session |-> s, id |-> next_stream_num]}
         /\ opened' = Without(Ids(gone)) \cup
                        Reached({[id |-> next_stream_num, what |-> "follow"]})
  /\ next_stream_num' = next_stream_num + 1
  /\ watched' = watched \cup {s}
  /\ UNCHANGED <<relay_ready, tunnel, published, mirror, ws_ready, muxUp, muxFirst, frames, feeds>>

ServeUnsubscribe(s) ==
  /\ Serving
  /\ LET gone == {f \in follows : f.session = s}
     IN  follows' = follows \ gone /\ opened' = Without(Ids(gone))
  /\ watched' = watched \ {s}
  /\ UNCHANGED <<relay_ready, tunnel, published, mirror, ws_ready, muxUp, muxFirst, frames,
                 feeds, next_stream_num>>

\* events/refresh: the $events stream is opened again so that dsh replays what
\* it still waits for.  dsh_ready is checked before, ws_ready by the handler.
ServeRefresh ==
  /\ Serving
  /\ dsh_ready /\ ws_ready
  /\ Open({"events"}, muxUp,
          IF subscribed["events"] THEN Without({stream["events"]}) ELSE opened)
  /\ frames' = IF muxUp THEN frames \o Ready({"events"}) ELSE frames
  /\ subscribed' = [subscribed EXCEPT !["events"] = TRUE]
  /\ events_client_id' = IF subscribed["events"] THEN NoStream ELSE events_client_id
  /\ UNCHANGED <<relay, mirror, ws_ready, muxUp, muxFirst, follows>>

\* Mutant: whichever stream a ready frame is of.
TakeAnyReady(frame) ==
  /\ IF frame.type = "ready" THEN events_client_id' = frame.id
                             ELSE UNCHANGED events_client_id
  /\ UNCHANGED <<relay_ready, follows, watched>>

\* handle_mux_message: a ready frame is taken only from the current $events
\* stream and is forwarded to the relay; the end of a follow frees its slot.
Handle(frame) ==
  \/ /\ frame.type = "ready" /\ frame.id = stream["events"]
     /\ events_client_id' = frame.id
     /\ relay_ready' \in {relay_ready, relay_ready /\ tunnel}
     /\ UNCHANGED <<follows, watched>>
  \/ /\ frame.type = "ready" /\ frame.id # stream["events"]
     /\ UNCHANGED <<events_client_id, relay_ready, follows, watched>>
  \/ /\ frame.type = "end"
     /\ LET ended == {f \in follows : f.id = frame.id}
        IN  follows' = follows \ ended /\ watched' = watched \ {f.session : f \in ended}
     /\ UNCHANGED <<events_client_id, relay_ready>>

PumpFrame ==
  /\ pc = "pump" /\ ws_ready /\ frames # <<>>
  /\ Handle(Head(frames))
  /\ frames' = Tail(frames)
  /\ UNCHANGED <<thread, tunnel, published, mirror, ws_ready, muxUp, muxFirst, opened, stream,
                 subscribed, next_stream_num, world>>

PumpDrop ==
  /\ pc = "pump" /\ ws_ready /\ frames = <<>> /\ ~muxUp
  /\ DropStreams
  /\ Goto("head")
  /\ UNCHANGED <<relay, mirror, stream, events_client_id, next_stream_num, world>>

\* Nothing more to read, or not yet.
PumpIdle ==
  /\ pc = "pump" /\ Goto("head")
  /\ UNCHANGED <<relay, mirror, mux, feeds, ids, world>>

-----------------------------------------------------------------------------
\* The window.

\* agent_start: the thread begins once the dsh link was tried.
Start ==
  /\ pc = "off"
  /\ running' = TRUE /\ pc' = "head"
  /\ \/ dshUp /\ DshConnect
     \/ ~dshUp /\ UNCHANGED <<dsh_ready, mux>>
  /\ UNCHANGED <<relay, dsh_failures, sessions_cache, feeds, ids, world>>

\* agent_stop runs in the window's thread, wherever the loop is.
Stop ==
  /\ running /\ stops < MaxStops
  /\ stops' = stops + 1
  /\ running' = FALSE
  /\ relay_ready' = FALSE /\ tunnel' = FALSE
  /\ follows' = {}
  /\ ws_ready' = FALSE /\ FreshMux(FALSE)
  /\ subscribed' = [subscribed EXCEPT !["control"] = FALSE]
  /\ UNCHANGED <<pc, published, watched, mirror, stream, events_client_id,
                 next_stream_num, dshUp, list, faults, requests>>

-----------------------------------------------------------------------------
\* The relay, dsh and the links.

Fault == faults < MaxFaults /\ faults' = faults + 1 /\ UNCHANGED <<list, requests, stops>>

TunnelBreaks ==
  /\ tunnel /\ Fault
  /\ tunnel' = FALSE
  /\ UNCHANGED <<thread, relay_ready, published, watched, mirror, mux, feeds, ids, dshUp>>

\* The mux breaks alone or with dsh; what dsh had sent can still be read.
MuxBreaks ==
  /\ muxUp /\ Fault
  /\ muxUp' = FALSE /\ opened' = {}
  /\ dshUp' \in {dshUp, FALSE}
  /\ UNCHANGED <<thread, relay, mirror, ws_ready, muxFirst, frames, feeds, ids>>

DshStops ==
  /\ dshUp /\ ~muxUp /\ Fault
  /\ dshUp' = FALSE
  /\ UNCHANGED <<thread, relay, mirror, mux, feeds, ids>>

DshReturns ==
  /\ ~dshUp /\ dshUp' = TRUE
  /\ UNCHANGED <<thread, relay, mirror, mux, feeds, ids, list, faults, requests, stops>>

\* dsh ends a follow stream on its own.
FollowEnds(o) ==
  /\ o.what = "follow" /\ Fault
  /\ opened' = opened \ {o}
  /\ frames' = Append(frames, [type |-> "end", id |-> o.id])
  /\ UNCHANGED <<thread, relay, mirror, ws_ready, muxUp, muxFirst, feeds, ids, dshUp>>

\* dsh ends a standing feed.  The sender looks for the stream of an end or error
\* frame among its follows only, so that frame changes nothing.
FeedEnds(o) ==
  /\ o.what \in Feeds /\ Fault
  /\ opened' = opened \ {o}
  /\ UNCHANGED <<thread, relay, mirror, ws_ready, muxUp, muxFirst, frames, feeds, ids, dshUp>>

ListChanges ==
  /\ dshUp /\ list < MaxLists
  /\ list' = list + 1
  /\ UNCHANGED <<thread, relay, mirror, mux, feeds, ids, dshUp, faults, requests, stops>>

Loop ==
  \/ Turn \/ SkipRelay \/ RelayConnect \/ Greet \/ SubscribeFeeds
  \/ SkipDsh \/ ConnectDsh \/ SkipMux \/ ReopenMux \/ SkipList \/ PollList
  \/ SelectIdle \/ LoseRelay \/ ServeRefresh
  \/ \E s \in Sessions : ServeSubscribe(s) \/ ServeUnsubscribe(s)
  \/ PumpFrame \/ PumpDrop \/ PumpIdle

Environment ==
  \/ Start \/ Stop
  \/ TunnelBreaks \/ MuxBreaks \/ DshStops \/ DshReturns \/ ListChanges
  \/ \E o \in opened : FollowEnds(o) \/ FeedEnds(o)

Next == Loop \/ Environment

Spec == Init /\ [][Next]_vars

\* The thread goes on, its timers expire again and again, and what select or
\* recv has to report is reported: the blocks they lead to are fair although
\* the loop passes them over in between.
Fairness ==
  /\ WF_vars(Loop)
  /\ SF_vars(RelayConnect) /\ SF_vars(ConnectDsh) /\ SF_vars(ReopenMux)
  /\ SF_vars(PollList)
  /\ SF_vars(LoseRelay) /\ SF_vars(PumpFrame) /\ SF_vars(PumpDrop)

FairSpec == Spec /\ Fairness

-----------------------------------------------------------------------------
\* Properties.

\* What the mirror compares the next list with is what the relay was sent
\* through this very tunnel: an unchanged list is rightly not sent again
\* (mirror_session_list, and the reset of the cache in agent_run).
CacheIsPublished == relay_ready /\ sessions_cache # None => published = sessions_cache

\* The follow table holds a session once and never more than it has slots, and
\* every follow stream dsh has open on the mux belongs to a slot: a stream that
\* was replaced, evicted, unsubscribed or left from an earlier tunnel was
\* cancelled (start_follow, stop_all_follows).
OneSlotPerSession == \A f, g \in follows : f.session = g.session => f = g
TableBounded == IsFiniteSet(follows) /\ Cardinality(follows) <= MaxFollows
OpenFollowsHeld == \A o \in opened : o.what = "follow" => o.id \in Ids(follows)
NoOrphanFollow == OneSlotPerSession /\ TableBounded /\ OpenFollowsHeld

\* While the mux is up a slot of the follow table is a stream dsh has open, or
\* one whose end the sender has yet to read: no slot outlives its mux.
FollowsAreOpen ==
  ws_ready /\ muxUp => \A f \in follows :
    \/ [id |-> f.id, what |-> "follow"] \in opened
    \/ [type |-> "end", id |-> f.id] \in {frames[i] : i \in 1 .. Len(frames)}

\* Only sessions a client of this tunnel asked for are followed (the reset at a
\* fresh tunnel in agent_run).
FollowsWereAsked == relay_ready => \A f \in follows : f.session \in watched

\* A feed marked subscribed was opened on the mux in use, not on an earlier one:
\* a feed the sender thinks it has and does not would never be opened again (the
\* flags reset with the mux in pump_mux and mirror_session_list).
SubscribedOnThisMux ==
  ws_ready /\ muxUp => \A f \in Feeds : subscribed[f] => stream[f] >= muxFirst

\* A client id that came over the mux in use is the one of the current $events
\* stream: the ready frame of a stream that a refresh replaced may still be on
\* its way and must not give it (handle_mux_message, events/refresh).
ClientIdOfThisMux == events_client_id >= muxFirst => events_client_id = stream["events"]

\* Once dsh answers for good and the user stays connected, the relay ends up
\* with dsh's current session list, whatever broke before (agent_run,
\* mirror_session_list).
MirrorCatchesUp ==
  <>[](running /\ dshUp) => <>[](relay_ready /\ tunnel /\ published = list)

-----------------------------------------------------------------------------
\* What documents and comments claim.

\* PROTOCOL.md:216, the sender keeps a standing subscription to session/control
\* on the event mux.
ControlIsStanding ==
  <>[](running /\ dshUp) => <>[](\E o \in opened : o.what = "control")

\* agent/agent.h:58, agent_stop stops the loop and closes both sides and may be
\* called from another thread: once the loop has ended nothing is connected.
StopCloses == pc = "off" => ~relay_ready /\ ~ws_ready
=============================================================================
