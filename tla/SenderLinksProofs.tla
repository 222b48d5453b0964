------------------------- MODULE SenderLinksProofs -------------------------
(***************************************************************************)
(* What holds of the sender's loop for any number of sessions, slots,      *)
(* faults and requests: its types, that the mirror's cache is what the     *)
(* relay was sent, that the follow table is neither overfull nor doubled   *)
(* nor leaves a stream behind, that a refresh never takes the client id of *)
(* the stream it replaced, and that follows and feeds are streams of the   *)
(* mux in use until the user disconnects.                                  *)
(***************************************************************************)
EXTENDS SenderLinks, SequenceTheorems, FiniteSetTheorems,
        WellFoundedInduction, TLAPS

USE DEF thread, relay, mirror, mux, feeds, ids, world

-----------------------------------------------------------------------------
\* Types.

LEMMA InitTypes == Init => TypeOK
<1> SUFFICES ASSUME Init PROVE TypeOK
  OBVIOUS
<1>1. stream \in [Feeds -> StreamId] /\ events_client_id \in StreamId
  BY DEF Init, StreamId
<1>2. dsh_failures \in 0 .. MaxFailures - 1
  BY SenderAssumption DEF Init
<1>3. pc \in Points /\ published \in Nat /\ sessions_cache \in Nat
  BY DEF Init, Points, None
<1>4. frames \in Seq(Frame) /\ subscribed \in [Feeds -> BOOLEAN]
  BY DEF Init
<1> QED BY <1>1, <1>2, <1>3, <1>4 DEF Init, TypeOK

LEMMA OpenNumbers ==
  ASSUME next_stream_num \in Nat, NEW missing
  PROVE  /\ NumberAfter(missing) \in Nat /\ NumberAfter(missing) >= next_stream_num
         /\ \A f \in Feeds : /\ Numbers(missing)[f] \in Nat
                             /\ Numbers(missing)[f] >= next_stream_num
                             /\ f \in missing => Numbers(missing)[f] < NumberAfter(missing)
BY DEF NumberAfter, Numbers, One, Feeds

LEMMA OpenTypes ==
  ASSUME TypeOK, NEW missing \in SUBSET Feeds, NEW up, NEW carried \in SUBSET Stream,
         Open(missing, up, carried)
  PROVE  /\ stream' \in [Feeds -> StreamId] /\ next_stream_num' \in Nat
         /\ opened' \subseteq Stream
         /\ Ready(missing) \in Seq(Frame)
<1>1. /\ NumberAfter(missing) \in Nat
      /\ \A f \in Feeds : Numbers(missing)[f] \in Nat
  BY OpenNumbers DEF TypeOK
<1>2. stream' \in [Feeds -> StreamId] /\ next_stream_num' \in Nat
  BY <1>1 DEF Open, TypeOK, StreamId
<1>3. \A f \in missing : [id |-> Numbers(missing)[f], what |-> f] \in Stream
  BY <1>1 DEF Stream
<1>4. opened' \subseteq Stream
  BY <1>3 DEF Open
<1>5. Numbers(missing)["events"] \in Nat
  BY <1>1 DEF Feeds
<1>6. [type |-> "ready", id |-> Numbers(missing)["events"]] \in Frame
  BY <1>5 DEF Frame
<1> QED BY <1>2, <1>4, <1>6 DEF Ready

LEMMA FreshMuxTypes ==
  ASSUME TypeOK, NEW up \in BOOLEAN, FreshMux(up)
  PROVE  muxUp' \in BOOLEAN /\ muxFirst' \in Nat /\ opened' \subseteq Stream
           /\ frames' \in Seq(Frame)
BY DEF FreshMux, TypeOK

LEMMA MirrorTypes ==
  ASSUME TypeOK, MirrorSessionList
  PROVE  /\ relay_ready' \in BOOLEAN /\ tunnel' \in BOOLEAN
         /\ published' \in Nat /\ watched' \subseteq Sessions
         /\ dsh_ready' \in BOOLEAN /\ dsh_failures' \in 0 .. MaxFailures - 1
         /\ sessions_cache' \in Nat
         /\ ws_ready' \in BOOLEAN /\ muxUp' \in BOOLEAN /\ muxFirst' \in Nat
         /\ opened' \subseteq Stream /\ frames' \in Seq(Frame)
         /\ subscribed' \in [Feeds -> BOOLEAN] /\ follows' \subseteq Follow
<1>1. CASE ~dsh_ready
  BY <1>1 DEF MirrorSessionList, TypeOK
<1>2. CASE dsh_ready /\ dshUp
  <2>1. /\ MirrorAnswers
        /\ UNCHANGED <<tunnel, watched, dsh_ready, mux, subscribed, follows>>
    BY <1>2 DEF MirrorSessionList
  <2>2. relay_ready' \in BOOLEAN /\ published' \in Nat
    BY <2>1 DEF MirrorAnswers, TypeOK
  <2>3. dsh_failures' \in 0 .. MaxFailures - 1 /\ sessions_cache' \in Nat
    BY <2>1, SenderAssumption DEF MirrorAnswers, TypeOK
  <2> QED BY <2>1, <2>2, <2>3 DEF TypeOK
<1>3. CASE dsh_ready /\ ~dshUp /\ dsh_failures + 1 < MaxFailures
  <2>1. /\ dsh_failures' = dsh_failures + 1
        /\ UNCHANGED <<dsh_ready, mux, subscribed, follows, relay, sessions_cache>>
    BY <1>3 DEF MirrorSessionList, MirrorFails
  <2>2. dsh_failures' \in 0 .. MaxFailures - 1
    BY <1>3, <2>1, SenderAssumption DEF TypeOK
  <2> QED BY <2>1, <2>2 DEF TypeOK
<1>4. CASE dsh_ready /\ ~dshUp /\ ~(dsh_failures + 1 < MaxFailures)
  <2>1. /\ dsh_failures' = 0 /\ dsh_ready' = FALSE /\ DropStreams
        /\ UNCHANGED <<relay, sessions_cache>>
    BY <1>4 DEF MirrorSessionList, MirrorFails
  <2>2. dsh_failures' \in 0 .. MaxFailures - 1
    BY <2>1, SenderAssumption
  <2> QED BY <2>1, <2>2, FreshMuxTypes DEF DropStreams, TypeOK
<1> QED BY <1>1, <1>2, <1>3, <1>4 DEF TypeOK

\* The blocks that only move on.
Quiet == Turn \/ SkipRelay \/ SkipDsh \/ SkipMux \/ SkipList \/ SelectIdle \/ PumpIdle

LEMMA QuietTypes == TypeOK /\ Quiet => TypeOK'
BY DEF Quiet, Turn, SkipRelay, SkipDsh, SkipMux, SkipList, SelectIdle, PumpIdle, Goto,
       TypeOK, Points

LEMMA RelayConnectTypes == TypeOK /\ RelayConnect => TypeOK'
<1> SUFFICES ASSUME TypeOK, RelayConnect PROVE TypeOK'
  OBVIOUS
<1>1. subscribed' \in [Feeds -> BOOLEAN]
  BY DEF RelayConnect, TypeOK
<1>2. opened' \subseteq Stream /\ follows' = {} /\ sessions_cache' \in Nat /\ published' \in Nat
  BY DEF RelayConnect, FreshMirror, FreshFollows, StopAllFollows, Without, TypeOK, None
<1>3. pc' \in Points /\ UNCHANGED running
  BY DEF RelayConnect, Goto, Points
<1> QED BY <1>1, <1>2, <1>3 DEF RelayConnect, TypeOK

LEMMA GreetTypes == TypeOK /\ Greet => TypeOK'
BY MirrorTypes DEF Greet, Goto, TypeOK, Points

LEMMA PollListTypes == TypeOK /\ PollList => TypeOK'
BY MirrorTypes DEF PollList, Goto, TypeOK, Points

LEMMA SubscribeFeedsTypes == TypeOK /\ SubscribeFeeds => TypeOK'
<1> SUFFICES ASSUME TypeOK, SubscribeFeeds PROVE TypeOK'
  OBVIOUS
<1> DEFINE missing == IF ws_ready THEN {f \in Feeds : ~subscribed[f]} ELSE {}
<1>1. missing \in SUBSET Feeds
  OBVIOUS
<1>2. /\ Open(missing, muxUp, opened)
      /\ frames' = IF muxUp THEN frames \o Ready(missing) ELSE frames
      /\ subscribed' = [f \in Feeds |-> subscribed[f] \/ f \in missing]
  BY DEF SubscribeFeeds
<1> HIDE DEF missing
<1>3. /\ stream' \in [Feeds -> StreamId] /\ next_stream_num' \in Nat
      /\ opened' \subseteq Stream /\ Ready(missing) \in Seq(Frame)
  BY <1>1, <1>2, OpenTypes DEF TypeOK
<1>4. frames' \in Seq(Frame)
  BY <1>2, <1>3 DEF TypeOK
<1>5. subscribed' \in [Feeds -> BOOLEAN]
  BY <1>2 DEF TypeOK
<1> QED BY <1>3, <1>4, <1>5 DEF SubscribeFeeds, Goto, TypeOK, Points

LEMMA ConnectDshTypes == TypeOK /\ ConnectDsh => TypeOK'
BY FreshMuxTypes DEF ConnectDsh, DshConnect, Goto, TypeOK, Points

LEMMA ReopenMuxTypes == TypeOK /\ ReopenMux => TypeOK'
<1> SUFFICES ASSUME TypeOK, ReopenMux PROVE TypeOK'
  OBVIOUS
<1>1. /\ stream' \in [Feeds -> StreamId] /\ next_stream_num' \in Nat
      /\ opened' \subseteq Stream /\ Ready(Feeds) \in Seq(Frame)
  BY OpenTypes DEF ReopenMux
<1> QED BY <1>1 DEF ReopenMux, Goto, TypeOK, Points

LEMMA LoseRelayTypes == TypeOK /\ LoseRelay => TypeOK'
BY DEF LoseRelay, Goto, TypeOK, Points

LEMMA ServeSubscribeTypes == \A s \in Sessions : TypeOK /\ ServeSubscribe(s) => TypeOK'
<1> SUFFICES ASSUME NEW s \in Sessions, TypeOK, ServeSubscribe(s) PROVE TypeOK'
  OBVIOUS
<1> DEFINE gone == MakesRoom(s)
<1>1. /\ follows' = (follows \ gone) \cup {[session |-> s, id |-> next_stream_num]}
      /\ opened' = Without(Ids(gone)) \cup
                     Reached({[id |-> next_stream_num, what |-> "follow"]})
  BY DEF ServeSubscribe
<1>2. [session |-> s, id |-> next_stream_num] \in Follow
      /\ [id |-> next_stream_num, what |-> "follow"] \in Stream
  BY DEF TypeOK, Follow, Stream
<1> HIDE DEF gone
<1>3. follows' \subseteq Follow
  BY <1>1, <1>2 DEF TypeOK
<1>4. opened' \subseteq Stream
  BY <1>1, <1>2 DEF TypeOK, Without, Reached
<1>5. next_stream_num' \in Nat /\ watched' \subseteq Sessions
  BY DEF ServeSubscribe, TypeOK
<1>6. requests' \in Nat /\ pc' \in Points
  BY DEF ServeSubscribe, Serving, Goto, TypeOK, Points
<1> QED BY <1>3, <1>4, <1>5, <1>6 DEF ServeSubscribe, Serving, Goto, TypeOK

LEMMA ServeUnsubscribeTypes == \A s \in Sessions : TypeOK /\ ServeUnsubscribe(s) => TypeOK'
BY DEF ServeUnsubscribe, Serving, Without, Goto, TypeOK, Points

LEMMA ServeRefreshTypes == TypeOK /\ ServeRefresh => TypeOK'
<1> SUFFICES ASSUME TypeOK, ServeRefresh PROVE TypeOK'
  OBVIOUS
<1> DEFINE carried == IF subscribed["events"] THEN Without({stream["events"]}) ELSE opened
<1>1. carried \in SUBSET Stream /\ {"events"} \in SUBSET Feeds
  BY DEF Without, TypeOK, Feeds
<1>2. Open({"events"}, muxUp, carried)
  BY DEF ServeRefresh
<1> HIDE DEF carried
<1>3. /\ stream' \in [Feeds -> StreamId] /\ next_stream_num' \in Nat
      /\ opened' \subseteq Stream /\ Ready({"events"}) \in Seq(Frame)
  BY <1>1, <1>2, OpenTypes
<1>4. frames' \in Seq(Frame)
  BY <1>3 DEF ServeRefresh, TypeOK
<1>5. subscribed' \in [Feeds -> BOOLEAN] /\ events_client_id' \in StreamId
  BY DEF ServeRefresh, TypeOK, StreamId
<1>6. requests' \in Nat /\ pc' \in Points
  BY DEF ServeRefresh, Serving, Goto, TypeOK, Points
<1> QED BY <1>3, <1>4, <1>5, <1>6 DEF ServeRefresh, Serving, Goto, TypeOK

LEMMA PumpFrameTypes == TypeOK /\ PumpFrame => TypeOK'
<1> SUFFICES ASSUME TypeOK, PumpFrame PROVE TypeOK'
  OBVIOUS
<1>1. Head(frames) \in Frame /\ frames' \in Seq(Frame)
  BY HeadTailProperties DEF PumpFrame, TypeOK
<1>2. Handle(Head(frames))
  BY DEF PumpFrame
<1>3. /\ events_client_id' \in StreamId /\ relay_ready' \in BOOLEAN
      /\ follows' \subseteq Follow /\ watched' \subseteq Sessions
  BY <1>1, <1>2 DEF Handle, TypeOK, StreamId, Frame
<1> QED BY <1>1, <1>3 DEF PumpFrame, TypeOK

LEMMA PumpDropTypes == TypeOK /\ PumpDrop => TypeOK'
BY FreshMuxTypes DEF PumpDrop, DropStreams, Goto, TypeOK, Points

LEMMA StartTypes == TypeOK /\ Start => TypeOK'
BY FreshMuxTypes DEF Start, DshConnect, TypeOK, Points

LEMMA StopTypes == TypeOK /\ Stop => TypeOK'
<1> SUFFICES ASSUME TypeOK, Stop PROVE TypeOK'
  OBVIOUS
<1>1. stops' \in Nat
  BY DEF Stop, TypeOK
<1>3. subscribed' \in [Feeds -> BOOLEAN]
  <2>1. subscribed' = [subscribed EXCEPT !["control"] = FALSE]
    BY DEF Stop
  <2> QED BY <2>1 DEF TypeOK
<1>2. muxUp' \in BOOLEAN /\ muxFirst' \in Nat /\ opened' \subseteq Stream
      /\ frames' \in Seq(Frame)
  BY FreshMuxTypes DEF Stop
<1> QED BY <1>1, <1>2, <1>3 DEF Stop, TypeOK

\* The steps of the relay, of dsh and of the links.
Outside == \/ TunnelBreaks \/ MuxBreaks \/ DshStops \/ DshReturns \/ ListChanges
           \/ \E o \in opened : FollowEnds(o) \/ FeedEnds(o)

LEMMA OutsideTypes == TypeOK /\ Outside => TypeOK'
<1> SUFFICES ASSUME TypeOK, Outside PROVE TypeOK'
  OBVIOUS
<1>0. Fault => faults' \in Nat
  BY DEF Fault, TypeOK
<1>1. CASE TunnelBreaks
  BY <1>0, <1>1 DEF TunnelBreaks, Fault, TypeOK
<1>2. CASE MuxBreaks
  <2>1. dshUp' \in BOOLEAN /\ opened' \subseteq Stream /\ muxUp' \in BOOLEAN
    BY <1>2 DEF MuxBreaks, TypeOK
  <2> QED BY <1>0, <1>2, <2>1 DEF MuxBreaks, Fault, TypeOK
<1>3. CASE DshStops
  BY <1>0, <1>3 DEF DshStops, Fault, TypeOK
<1>4. CASE DshReturns
  BY <1>4 DEF DshReturns, TypeOK
<1>5. CASE ListChanges
  BY <1>5 DEF ListChanges, TypeOK
<1>6. ASSUME NEW o \in opened, FollowEnds(o) PROVE TypeOK'
  <2>1. [type |-> "end", id |-> o.id] \in Frame
    BY DEF TypeOK, Stream, Frame
  <2>2. frames' \in Seq(Frame)
    BY <1>6, <2>1 DEF FollowEnds, TypeOK
  <2> QED BY <1>0, <1>6, <2>2 DEF FollowEnds, Fault, TypeOK
<1>7. ASSUME NEW o \in opened, FeedEnds(o) PROVE TypeOK'
  BY <1>0, <1>7 DEF FeedEnds, Fault, TypeOK
<1> QED BY <1>1, <1>2, <1>3, <1>4, <1>5, <1>6, <1>7 DEF Outside

\* Every step is one of these.
LEMMA StepCases ==
  Next => \/ Quiet \/ RelayConnect \/ Greet \/ SubscribeFeeds \/ ConnectDsh \/ ReopenMux
          \/ PollList \/ LoseRelay \/ ServeRefresh
          \/ \E s \in Sessions : ServeSubscribe(s) \/ ServeUnsubscribe(s)
          \/ PumpFrame \/ PumpDrop \/ Start \/ Stop \/ Outside
BY DEF Next, Loop, Environment, Quiet, Outside

LEMMA NextTypes == TypeOK /\ [Next]_vars => TypeOK'
<1> SUFFICES ASSUME TypeOK, [Next]_vars PROVE TypeOK'
  OBVIOUS
<1>1. CASE Next
  BY <1>1, StepCases, QuietTypes, RelayConnectTypes, GreetTypes, SubscribeFeedsTypes,
     ConnectDshTypes, ReopenMuxTypes, PollListTypes, LoseRelayTypes, ServeRefreshTypes,
     ServeSubscribeTypes, ServeUnsubscribeTypes, PumpFrameTypes, PumpDropTypes,
     StartTypes, StopTypes, OutsideTypes
<1>2. CASE UNCHANGED vars
  BY <1>2 DEF vars, TypeOK
<1> QED BY <1>1, <1>2

\* Every variable of the sender's loop keeps its type (TypeOK).
THEOREM SenderLinkTypes == Spec => []TypeOK
BY InitTypes, NextTypes, PTL DEF Spec

-----------------------------------------------------------------------------
\* The mirror.

\* The only step that makes relay_ready true empties the cache; the mirror
\* writes the cache and, through a tunnel that holds, the relay's copy together.
LEMMA NextHonest == CacheIsPublished /\ [Next]_vars => CacheIsPublished'
<1> SUFFICES ASSUME CacheIsPublished, [Next]_vars PROVE CacheIsPublished'
  OBVIOUS
<1>1. CASE RelayConnect
  BY <1>1 DEF RelayConnect, FreshMirror, CacheIsPublished
<1>2. ASSUME MirrorSessionList PROVE CacheIsPublished'
  <2>1. CASE ~dsh_ready
    BY <1>2, <2>1 DEF MirrorSessionList, CacheIsPublished
  <2>2. CASE dsh_ready /\ dshUp
    BY <1>2, <2>2 DEF MirrorSessionList, MirrorAnswers, CacheIsPublished
  <2>3. CASE dsh_ready /\ ~dshUp
    BY <1>2, <2>3 DEF MirrorSessionList, CacheIsPublished
  <2> QED BY <1>2, <2>1, <2>2, <2>3 DEF MirrorSessionList
<1>3. ASSUME UNCHANGED <<sessions_cache, published>>, relay_ready' => relay_ready
      PROVE  CacheIsPublished'
  BY <1>3 DEF CacheIsPublished
<1>4. CASE Quiet
  BY <1>3, <1>4 DEF Quiet, Turn, SkipRelay, SkipDsh, SkipMux, SkipList, SelectIdle, PumpIdle
<1>5. CASE Greet \/ PollList
  BY <1>2, <1>5 DEF Greet, PollList
<1>6. CASE SubscribeFeeds \/ ConnectDsh \/ ReopenMux
  BY <1>3, <1>6 DEF SubscribeFeeds, ConnectDsh, ReopenMux
<1>7. CASE LoseRelay \/ PumpDrop \/ Start
  BY <1>3, <1>7 DEF LoseRelay, PumpDrop, Start
<1>8. CASE ServeRefresh \/ \E s \in Sessions : ServeSubscribe(s) \/ ServeUnsubscribe(s)
  BY <1>3, <1>8 DEF ServeRefresh, ServeSubscribe, ServeUnsubscribe
<1>9. CASE PumpFrame
  <2>1. Handle(Head(frames)) /\ UNCHANGED <<sessions_cache, published>>
    BY <1>9 DEF PumpFrame
  <2>2. relay_ready' = relay_ready \/ relay_ready' = (relay_ready /\ tunnel)
    BY <2>1 DEF Handle
  <2> QED BY <1>3, <2>1, <2>2
<1>10. CASE Stop
  BY <1>3, <1>10 DEF Stop
<1>11. CASE Outside
  BY <1>3, <1>11 DEF Outside, TunnelBreaks, MuxBreaks, DshStops, DshReturns, ListChanges,
                     FollowEnds, FeedEnds
<1>12. CASE UNCHANGED vars
  BY <1>3, <1>12 DEF vars
<1> QED BY <1>1, <1>4, <1>5, <1>6, <1>7, <1>8, <1>9, <1>10, <1>11, <1>12, StepCases

\* For any number of tunnels, faults and lists: an unchanged list is rightly not
\* sent again (CacheIsPublished).
THEOREM MirrorIsHonest == Spec => []CacheIsPublished
<1>1. Init => CacheIsPublished
  BY DEF Init, CacheIsPublished
<1> QED BY <1>1, NextHonest, PTL DEF Spec

-----------------------------------------------------------------------------
\* The client id of the $events stream.

\* Numbers are drawn upwards, frames on the mux in use are of its own streams,
\* and a feed not marked subscribed has no stream and no client id on this mux.
ClientIdInv ==
  /\ muxFirst <= next_stream_num
  /\ stream["events"] < next_stream_num /\ events_client_id < next_stream_num
  /\ \A i \in 1 .. Len(frames) :
       frames[i].type = "ready" => frames[i].id >= muxFirst
  /\ ~subscribed["events"] => stream["events"] < muxFirst /\ events_client_id < muxFirst
  /\ ClientIdOfThisMux

LEMMA FreshMuxClientId ==
  ASSUME TypeOK, ClientIdInv, NEW up, FreshMux(up),
         UNCHANGED <<stream, events_client_id, next_stream_num>>
  PROVE  ClientIdInv'
<1>1. muxFirst' = next_stream_num /\ frames' = <<>> /\ Len(frames') = 0
  BY DEF FreshMux
<1>2. stream["events"] \in Int /\ events_client_id \in Int /\ next_stream_num \in Nat
  BY DEF TypeOK, StreamId, NoStream, Feeds
<1> QED BY <1>1, <1>2 DEF ClientIdInv, ClientIdOfThisMux

\* The $events stream is opened on the mux in use while it has no client id there.
LEMMA OpenClientId ==
  ASSUME TypeOK, NEW missing \in SUBSET Feeds, NEW up, NEW carried,
         Open(missing, up, carried), UNCHANGED muxFirst, ClientIdInv,
         frames' = frames \/ frames' = frames \o Ready(missing),
         subscribed'["events"] <=> (subscribed["events"] \/ "events" \in missing),
         "events" \in missing => events_client_id' < muxFirst,
         events_client_id' = events_client_id \/ events_client_id' = NoStream
  PROVE  ClientIdInv'
<1>1. /\ stream["events"] \in Int /\ events_client_id \in Int /\ events_client_id' \in Int
      /\ next_stream_num \in Nat /\ muxFirst \in Nat /\ frames \in Seq(Frame)
  BY DEF TypeOK, StreamId, NoStream, Feeds
<1>2. /\ next_stream_num' \in Nat /\ next_stream_num' >= next_stream_num
      /\ "events" \in missing =>
           /\ stream'["events"] \in Nat /\ stream'["events"] >= next_stream_num
           /\ stream'["events"] < next_stream_num'
           /\ stream'["events"] = Numbers(missing)["events"]
      /\ "events" \notin missing => stream'["events"] = stream["events"]
  BY <1>1, OpenNumbers DEF Open, Feeds
<1>3. \A i \in 1 .. Len(frames') :
        frames'[i].type = "ready" => frames'[i].id >= muxFirst
  <2>1. CASE "events" \notin missing
    <3>1. Ready(missing) = <<>>
      BY <2>1 DEF Ready
    <3>2. frames' = frames
      BY <1>1, <3>1, ConcatEmptySeq
    <3> QED BY <3>2 DEF ClientIdInv
  <2>2. CASE "events" \in missing /\ frames' = frames \o Ready(missing)
    <3> DEFINE ready == [type |-> "ready", id |-> stream'["events"]]
    <3>1. Ready(missing) = <<ready>>
      BY <1>2, <2>2 DEF Ready
    <3>2. ready \in Frame /\ ready.id >= muxFirst
      BY <1>1, <1>2, <2>2 DEF Frame, ClientIdInv
    <3> HIDE DEF ready
    <3>3. frames' = Append(frames, ready)
      BY <1>1, <2>2, <3>1, <3>2
    <3> QED BY <1>1, <3>2, <3>3 DEF ClientIdInv
  <2> QED BY <2>1, <2>2 DEF ClientIdInv
<1>4. CASE "events" \in missing
  BY <1>1, <1>2, <1>3, <1>4 DEF ClientIdInv, ClientIdOfThisMux, NoStream
<1>5. CASE "events" \notin missing
  BY <1>1, <1>2, <1>3, <1>5 DEF ClientIdInv, ClientIdOfThisMux, NoStream
<1> QED BY <1>4, <1>5

\* No stream is opened, no feed forgotten, no client id taken.
LEMMA QuietClientId ==
  ASSUME ClientIdInv, UNCHANGED <<muxFirst, stream, events_client_id>>,
         next_stream_num \in Nat, next_stream_num' \in Nat,
         next_stream_num' >= next_stream_num, TypeOK,
         subscribed'["events"] = subscribed["events"],
         \A i \in 1 .. Len(frames') :
           frames'[i].type = "ready" => frames'[i].id >= muxFirst
  PROVE  ClientIdInv'
<1>1. /\ stream["events"] \in Int /\ events_client_id \in Int /\ muxFirst \in Nat
  BY DEF TypeOK, StreamId, NoStream, Feeds
<1> QED BY <1>1 DEF ClientIdInv, ClientIdOfThisMux

LEMMA MirrorClientId ==
  ASSUME TypeOK, ClientIdInv, MirrorSessionList,
         UNCHANGED <<stream, events_client_id, next_stream_num>>
  PROVE  ClientIdInv'
<1>1. CASE UNCHANGED <<mux, subscribed>>
  BY <1>1, QuietClientId DEF ClientIdInv, TypeOK
<1>2. CASE DropStreams
  BY <1>2, FreshMuxClientId DEF DropStreams
<1> QED BY <1>1, <1>2 DEF MirrorSessionList, MirrorFails

LEMMA SubscribeFeedsClientId == TypeOK /\ ClientIdInv /\ SubscribeFeeds => ClientIdInv'
<1> SUFFICES ASSUME TypeOK, ClientIdInv, SubscribeFeeds PROVE ClientIdInv'
  OBVIOUS
<1> DEFINE missing == IF ws_ready THEN {f \in Feeds : ~subscribed[f]} ELSE {}
<1>1. missing \in SUBSET Feeds /\ ("events" \in missing => ~subscribed["events"])
  OBVIOUS
<1>2. /\ Open(missing, muxUp, opened)
      /\ frames' = frames \/ frames' = frames \o Ready(missing)
      /\ subscribed' = [f \in Feeds |-> subscribed[f] \/ f \in missing]
      /\ UNCHANGED <<muxFirst, events_client_id>>
  BY DEF SubscribeFeeds
<1> HIDE DEF missing
<1>3. subscribed'["events"] <=> (subscribed["events"] \/ "events" \in missing)
  BY <1>2 DEF Feeds
<1>4. "events" \in missing => events_client_id' < muxFirst
  BY <1>1, <1>2 DEF ClientIdInv
<1> QED BY <1>1, <1>2, <1>3, <1>4, OpenClientId

LEMMA ServeRefreshClientId == TypeOK /\ ClientIdInv /\ ServeRefresh => ClientIdInv'
<1> SUFFICES ASSUME TypeOK, ClientIdInv, ServeRefresh PROVE ClientIdInv'
  OBVIOUS
<1> DEFINE carried == IF subscribed["events"] THEN Without({stream["events"]}) ELSE opened
<1>1. /\ Open({"events"}, muxUp, carried) /\ UNCHANGED muxFirst
      /\ frames' = frames \/ frames' = frames \o Ready({"events"})
      /\ subscribed' = [subscribed EXCEPT !["events"] = TRUE]
      /\ events_client_id' = IF subscribed["events"] THEN NoStream ELSE events_client_id
  BY DEF ServeRefresh
<1> HIDE DEF carried
<1>2. subscribed'["events"] <=> (subscribed["events"] \/ "events" \in {"events"})
  BY <1>1 DEF TypeOK, Feeds
<1>3. events_client_id' < muxFirst
  BY <1>1 DEF ClientIdInv, NoStream, TypeOK
<1>4. {"events"} \in SUBSET Feeds
  BY DEF Feeds
<1> QED BY <1>1, <1>2, <1>3, <1>4, OpenClientId

\* A fresh mux that opens all feeds at once.
LEMMA ReopenMuxClientId == TypeOK /\ ClientIdInv /\ ReopenMux => ClientIdInv'
<1> SUFFICES ASSUME TypeOK, ClientIdInv, ReopenMux PROVE ClientIdInv'
  OBVIOUS
<1>1. /\ stream["events"] \in Int /\ events_client_id \in Int /\ next_stream_num \in Nat
  BY DEF TypeOK, StreamId, NoStream, Feeds
<1>2. /\ muxFirst' = next_stream_num /\ UNCHANGED events_client_id
      /\ subscribed'["events"]
  BY DEF ReopenMux, Feeds
<1>3. /\ stream'["events"] \in Nat /\ stream'["events"] >= next_stream_num
      /\ stream'["events"] < next_stream_num' /\ next_stream_num' \in Nat
      /\ stream'["events"] = Numbers(Feeds)["events"]
  BY <1>1, OpenNumbers DEF ReopenMux, Open, Feeds
<1>4. frames' = <<[type |-> "ready", id |-> stream'["events"]]>>
  BY <1>3 DEF ReopenMux, Ready, Feeds
<1>5. \A i \in 1 .. Len(frames') :
        frames'[i].type = "ready" => frames'[i].id >= muxFirst'
  BY <1>2, <1>3, <1>4
<1> QED BY <1>1, <1>2, <1>3, <1>5 DEF ClientIdInv, ClientIdOfThisMux

LEMMA PumpFrameClientId == TypeOK /\ ClientIdInv /\ PumpFrame => ClientIdInv'
<1> SUFFICES ASSUME TypeOK, ClientIdInv, PumpFrame PROVE ClientIdInv'
  OBVIOUS
<1>1. /\ frames \in Seq(Frame) /\ frames # <<>> /\ frames' = Tail(frames)
      /\ Handle(Head(frames))
      /\ UNCHANGED <<muxFirst, stream, subscribed, next_stream_num>>
  BY DEF PumpFrame, TypeOK
<1>2. /\ stream["events"] \in Int /\ events_client_id \in Int
      /\ next_stream_num \in Nat /\ muxFirst \in Nat
  BY DEF TypeOK, StreamId, NoStream, Feeds
<1>3. \A i \in 1 .. Len(frames') :
        frames'[i].type = "ready" => frames'[i].id >= muxFirst
  BY <1>1, HeadTailProperties DEF ClientIdInv
<1>4. CASE UNCHANGED events_client_id
  BY <1>1, <1>2, <1>3, <1>4, QuietClientId
<1>5. CASE events_client_id' # events_client_id
  <2>1. /\ Head(frames).type = "ready" /\ Head(frames).id = stream["events"]
        /\ events_client_id' = stream["events"]
    BY <1>1, <1>5 DEF Handle
  <2>2. stream["events"] >= muxFirst
    BY <1>1, <2>1 DEF ClientIdInv
  <2>3. subscribed["events"]
    BY <1>2, <2>2 DEF ClientIdInv
  <2> QED BY <1>1, <1>2, <1>3, <2>1, <2>3 DEF ClientIdInv, ClientIdOfThisMux
<1> QED BY <1>4, <1>5

LEMMA OutsideClientId == TypeOK /\ ClientIdInv /\ Outside => ClientIdInv'
<1> SUFFICES ASSUME TypeOK, ClientIdInv, Outside PROVE ClientIdInv'
  OBVIOUS
<1>1. UNCHANGED <<muxFirst, feeds, ids>>
  BY DEF Outside, TunnelBreaks, MuxBreaks, DshStops, DshReturns, ListChanges, FollowEnds,
         FeedEnds
<1>2. CASE UNCHANGED frames
  BY <1>1, <1>2, QuietClientId DEF ClientIdInv, TypeOK
<1>3. ASSUME NEW o \in opened, FollowEnds(o) PROVE ClientIdInv'
  <2> DEFINE last == [type |-> "end", id |-> o.id]
  <2>1. frames' = Append(frames, last) /\ frames \in Seq(Frame) /\ last.type = "end"
    BY <1>3 DEF FollowEnds, TypeOK
  <2> HIDE DEF last
  <2>2. \A i \in 1 .. Len(frames') :
          frames'[i].type = "ready" => frames'[i].id >= muxFirst
    BY <2>1 DEF ClientIdInv
  <2> QED BY <1>1, <2>2, QuietClientId DEF TypeOK
<1> QED BY <1>2, <1>3 DEF Outside, TunnelBreaks, MuxBreaks, DshStops, DshReturns, ListChanges,
                          FeedEnds

LEMMA NextClientId == TypeOK /\ ClientIdInv /\ [Next]_vars => ClientIdInv'
<1> SUFFICES ASSUME TypeOK, ClientIdInv, [Next]_vars PROVE ClientIdInv'
  OBVIOUS
<1>1. CASE UNCHANGED <<mux, feeds, ids>>
  BY <1>1, QuietClientId DEF ClientIdInv, TypeOK
<1>2. CASE Quiet
  BY <1>1, <1>2 DEF Quiet, Turn, SkipRelay, SkipDsh, SkipMux, SkipList, SelectIdle, PumpIdle
<1>3. CASE RelayConnect
  <2>1. subscribed'["events"] = subscribed["events"]
    BY <1>3 DEF RelayConnect, TypeOK, Feeds
  <2>2. UNCHANGED <<muxFirst, stream, events_client_id, next_stream_num, frames>>
    BY <1>3 DEF RelayConnect
  <2> QED BY <2>1, <2>2, QuietClientId DEF ClientIdInv, TypeOK
<1>4. CASE Greet \/ PollList
  BY <1>4, MirrorClientId DEF Greet, PollList
<1>5. CASE SubscribeFeeds \/ ReopenMux \/ ServeRefresh
  BY <1>5, SubscribeFeedsClientId, ReopenMuxClientId, ServeRefreshClientId
<1>6. CASE ConnectDsh
  BY <1>6, FreshMuxClientId DEF ConnectDsh, DshConnect
<1>7. CASE Start
  BY <1>1, <1>7, FreshMuxClientId DEF Start, DshConnect
<1>8. CASE LoseRelay
  BY <1>1, <1>8 DEF LoseRelay
<1>9. ASSUME NEW s \in Sessions, ServeSubscribe(s) \/ ServeUnsubscribe(s) PROVE ClientIdInv'
  <2>1. UNCHANGED <<muxFirst, stream, events_client_id, subscribed, frames>>
    BY <1>9 DEF ServeSubscribe, ServeUnsubscribe
  <2>2. next_stream_num \in Nat /\ next_stream_num' \in Nat
        /\ next_stream_num' >= next_stream_num
    BY <1>9 DEF ServeSubscribe, ServeUnsubscribe, TypeOK
  <2> QED BY <2>1, <2>2, QuietClientId DEF ClientIdInv
<1>10. CASE PumpFrame
  BY <1>10, PumpFrameClientId
<1>11. CASE PumpDrop
  BY <1>11, FreshMuxClientId DEF PumpDrop, DropStreams
<1>12. CASE Stop
  BY <1>12, FreshMuxClientId DEF Stop
<1>13. CASE Outside
  BY <1>13, OutsideClientId
<1>14. CASE UNCHANGED vars
  BY <1>1, <1>14 DEF vars
<1> QED BY <1>2, <1>3, <1>4, <1>5, <1>6, <1>7, <1>8, <1>9, <1>10, <1>11, <1>12, <1>13,
           <1>14, StepCases

\* For any number of muxes and refreshes: a client id that came over the mux in
\* use is the one of the current $events stream (ClientIdOfThisMux).
THEOREM RefreshedStreamAnswers == Spec => []ClientIdOfThisMux
<1>1. Init => ClientIdInv
  <2> SUFFICES ASSUME Init PROVE ClientIdInv
    OBVIOUS
  <2>1. /\ muxFirst = 0 /\ next_stream_num = 0 /\ frames = <<>>
        /\ stream["events"] = -1 /\ events_client_id = -1
    BY DEF Init, Feeds, NoStream
  <2> QED BY <2>1 DEF ClientIdInv, ClientIdOfThisMux
<1>2. ClientIdInv => ClientIdOfThisMux
  BY DEF ClientIdInv
<1> QED BY <1>1, <1>2, InitTypes, NextTypes, NextClientId, PTL DEF Spec

-----------------------------------------------------------------------------
\* The follow table.

\* Besides the two properties: numbers in use were drawn, and a stream whose end
\* is on its way is not open, so that freeing its slot leaves nothing behind.
Drawn == /\ \A o \in opened : o.id < next_stream_num
         /\ \A i \in 1 .. Len(frames) : frames[i].id < next_stream_num
EndedAreClosed ==
  \A i \in 1 .. Len(frames) : frames[i].type = "end" =>
    \A o \in opened : ~(o.what = "follow" /\ o.id = frames[i].id)
FollowInv == NoOrphanFollow /\ FollowsWereAsked /\ Drawn /\ EndedAreClosed

NatLess == {pair \in Nat \X Nat : pair[1] < pair[2]}

LEMMA NatLessWellFounded == IsWellFoundedOn(NatLess, Nat)
BY NatLessThanWellFounded, Zenon DEF OpToRel, NatLess

\* A non-empty set of follows has one that began first.
LEMMA OldestExists ==
  ASSUME NEW set, set \subseteq Follow, set # {}
  PROVE  \E f \in set : \A g \in set : f.id <= g.id
<1> DEFINE numbers == {f.id : f \in set}
<1>1. numbers \subseteq Nat /\ numbers # {}
  BY DEF Follow
<1> HIDE DEF numbers
<1>2. PICK m \in numbers : \A n \in numbers : ~(<<n, m>> \in NatLess)
  BY <1>1, NatLessWellFounded, WFMin, Zenon
<1>3. m \in Nat /\ \A n \in numbers : n \in Nat /\ ~(n < m)
  BY <1>1, <1>2 DEF NatLess
<1>4. \A n \in numbers : m <= n
  BY <1>3
<1>5. PICK f \in set : f.id = m
  BY DEF numbers
<1> QED BY <1>4, <1>5 DEF numbers

LEMMA RoomIsMade ==
  ASSUME TypeOK, TableBounded, NEW s \in Sessions
  PROVE  LET gone == MakesRoom(s)
         IN  /\ gone \subseteq follows
             /\ \A f \in follows \ gone : f.session # s
             /\ IsFiniteSet(follows \ gone) /\ Cardinality(follows \ gone) + 1 <= MaxFollows
<1> DEFINE own == {f \in follows : f.session = s}
           oldest == {f \in follows : \A g \in follows : f.id <= g.id}
           gone == MakesRoom(s)
<1>1. gone = IF own # {} THEN own
             ELSE IF Cardinality(follows) < MaxFollows THEN {} ELSE oldest
  BY DEF MakesRoom
<1>2. gone \subseteq follows /\ \A f \in follows \ gone : f.session # s
  BY <1>1
<1>3. IsFiniteSet(follows) /\ Cardinality(follows) \in Nat /\ Cardinality(follows) <= MaxFollows
  BY FS_CardinalityType DEF TableBounded
<1>4. IsFiniteSet(follows \ gone)
  BY <1>3, FS_Subset
<1>5. CASE gone = {}
  <2>1. Cardinality(follows) < MaxFollows
    <3>1. CASE Cardinality(follows) < MaxFollows
      BY <3>1
    <3>2. CASE ~(Cardinality(follows) < MaxFollows)
      <4>1. follows # {}
        BY <3>2, <1>3, FS_EmptySet, SenderAssumption
      <4>2. oldest # {}
        BY <4>1, OldestExists DEF TypeOK
      <4> QED BY <1>1, <1>5, <3>2, <4>2
    <3> QED BY <3>1, <3>2
  <2>2. follows \ gone = follows
    BY <1>5
  <2> QED BY <1>2, <1>3, <1>4, <2>1, <2>2, SenderAssumption
<1>6. CASE gone # {}
  <2>1. PICK f \in gone : TRUE
    BY <1>6
  <2>2. /\ IsFiniteSet(follows \ {f}) /\ Cardinality(follows \ {f}) = Cardinality(follows) - 1
    BY <1>2, <1>3, <2>1, FS_RemoveElement
  <2>3. follows \ gone \subseteq follows \ {f}
    BY <2>1
  <2>4. Cardinality(follows \ gone) <= Cardinality(follows \ {f})
        /\ Cardinality(follows \ gone) \in Nat
    BY <2>2, <2>3, <1>4, FS_Subset, FS_CardinalityType
  <2> QED BY <1>2, <1>3, <1>4, <2>2, <2>4, SenderAssumption
<1> QED BY <1>5, <1>6

\* A step that adds no follow and opens no stream but of feeds.
LEMMA NothingFollowed ==
  ASSUME TypeOK, TypeOK', FollowInv,
         follows' \subseteq follows, next_stream_num' >= next_stream_num,
         \A o \in opened' : o \in opened \/ (o.what \in Feeds /\ o.id < next_stream_num'),
         \A i \in 1 .. Len(frames') :
           \/ \E j \in 1 .. Len(frames) : frames'[i] = frames[j]
           \/ frames'[i].type = "ready" /\ frames'[i].id < next_stream_num',
         OpenFollowsHeld', FollowsWereAsked'
  PROVE  FollowInv'
<1>1. OneSlotPerSession'
  BY DEF FollowInv, NoOrphanFollow, OneSlotPerSession
<1>2. TableBounded'
  <2>1. IsFiniteSet(follows) /\ Cardinality(follows) <= MaxFollows /\ Cardinality(follows) \in Nat
    BY FS_CardinalityType DEF FollowInv, NoOrphanFollow, TableBounded
  <2>2. IsFiniteSet(follows') /\ Cardinality(follows') <= Cardinality(follows)
    BY <2>1, FS_Subset
  <2>3. Cardinality(follows') \in Nat
    BY <2>2, FS_CardinalityType
  <2> QED BY <2>1, <2>2, <2>3, SenderAssumption DEF TableBounded
<1>3. Drawn'
  <2>1. \A o \in opened : o.id \in Nat /\ o.id < next_stream_num
    BY DEF FollowInv, Drawn, TypeOK, Stream
  <2>2. \A i \in 1 .. Len(frames) : frames[i].id \in Nat /\ frames[i].id < next_stream_num
    <3>1. \A i \in 1 .. Len(frames) : frames[i] \in Frame
      BY ElementOfSeq DEF TypeOK
    <3> QED BY <3>1 DEF FollowInv, Drawn, Frame
  <2>3. next_stream_num \in Nat /\ next_stream_num' \in Nat
    BY DEF TypeOK
  <2>4. \A o \in opened' : o.id < next_stream_num'
    BY <2>1, <2>3
  <2>5. \A i \in 1 .. Len(frames') : frames'[i].id < next_stream_num'
    BY <2>2, <2>3
  <2> QED BY <2>4, <2>5 DEF Drawn
<1>4. EndedAreClosed'
  <2> SUFFICES ASSUME NEW i \in 1 .. Len(frames'), frames'[i].type = "end",
                      NEW o \in opened', o.what = "follow", o.id = frames'[i].id
               PROVE  FALSE
    BY DEF EndedAreClosed
  <2>1. PICK j \in 1 .. Len(frames) : frames'[i] = frames[j]
    OBVIOUS
  <2>2. o \in opened
    BY DEF Feeds
  <2> QED BY <2>1, <2>2 DEF FollowInv, EndedAreClosed
<1> QED BY <1>1, <1>2, <1>3, <1>4 DEF FollowInv, NoOrphanFollow

\* A step after which the relay is ready only if it was before.
LEMMA StillAsked ==
  ASSUME FollowInv, follows' \subseteq follows, UNCHANGED watched,
         relay_ready' => relay_ready
  PROVE  FollowsWereAsked'
BY DEF FollowInv, FollowsWereAsked

LEMMA SameStreamsFollow ==
  ASSUME TypeOK, TypeOK', FollowInv, UNCHANGED <<opened, frames, follows, next_stream_num, watched>>,
         relay_ready' => relay_ready
  PROVE  FollowInv'
<1>1. FollowsWereAsked'
  BY StillAsked
<1>2. next_stream_num' >= next_stream_num /\ OpenFollowsHeld'
  BY DEF TypeOK, FollowInv, NoOrphanFollow, OpenFollowsHeld, Ids
<1> QED BY <1>1, <1>2, NothingFollowed

LEMMA FreshMuxFollow ==
  ASSUME TypeOK, TypeOK', FollowInv, NEW up, FreshMux(up), follows' \subseteq follows,
         UNCHANGED <<next_stream_num, watched>>, relay_ready' => relay_ready
  PROVE  FollowInv'
<1>1. opened' = {} /\ frames' = <<>> /\ Len(frames') = 0
  BY DEF FreshMux
<1>2. FollowsWereAsked'
  BY StillAsked
<1>3. next_stream_num' >= next_stream_num /\ OpenFollowsHeld'
  BY <1>1 DEF TypeOK, OpenFollowsHeld
<1> QED BY <1>1, <1>2, <1>3, NothingFollowed

\* Feeds are opened; the mux may be the same or a fresh one.
LEMMA OpenFollow ==
  ASSUME TypeOK, TypeOK', FollowInv, NEW missing \in SUBSET Feeds, NEW up,
         NEW carried \in SUBSET opened, Open(missing, up, carried),
         \/ frames' = frames \/ frames' = frames \o Ready(missing)
         \/ frames' = Ready(missing),
         UNCHANGED <<follows, watched, relay_ready>>
  PROVE  FollowInv'
<1>1. /\ next_stream_num' >= next_stream_num
      /\ \A f \in missing : Numbers(missing)[f] < next_stream_num'
  BY OpenNumbers DEF Open, TypeOK
<1>2. \A o \in opened' : o \in opened \/ (o.what \in Feeds /\ o.id < next_stream_num')
  BY <1>1 DEF Open
<1>3. OpenFollowsHeld'
  BY <1>2 DEF FollowInv, NoOrphanFollow, OpenFollowsHeld, Ids, Feeds
<1>4. Ready(missing) \in Seq(Frame)
  <2>1. carried \in SUBSET Stream
    BY DEF TypeOK
  <2> QED BY <2>1, OpenTypes
<1>5. \A i \in 1 .. Len(Ready(missing)) :
        Ready(missing)[i].type = "ready" /\ Ready(missing)[i].id < next_stream_num'
  BY <1>1 DEF Ready
<1>6. \A i \in 1 .. Len(frames') :
        \/ \E j \in 1 .. Len(frames) : frames'[i] = frames[j]
        \/ frames'[i].type = "ready" /\ frames'[i].id < next_stream_num'
  <2>1. CASE frames' = frames \o Ready(missing)
    <3> SUFFICES ASSUME NEW i \in 1 .. Len(frames')
                 PROVE  \/ \E j \in 1 .. Len(frames) : frames'[i] = frames[j]
                        \/ frames'[i].type = "ready" /\ frames'[i].id < next_stream_num'
      OBVIOUS
    <3>1. /\ Len(frames') = Len(frames) + Len(Ready(missing))
          /\ frames'[i] = IF i <= Len(frames) THEN frames[i]
                                              ELSE Ready(missing)[i - Len(frames)]
          /\ Len(frames) \in Nat /\ Len(Ready(missing)) \in Nat
      BY <1>4, <2>1, ConcatProperties, LenProperties DEF TypeOK
    <3>2. CASE i <= Len(frames)
      BY <3>1, <3>2
    <3>3. CASE ~(i <= Len(frames))
      <4>1. i - Len(frames) \in 1 .. Len(Ready(missing))
        BY <3>1, <3>3
      <4> QED BY <3>1, <3>3, <4>1, <1>5
    <3> QED BY <3>2, <3>3
  <2>2. CASE frames' = frames
    BY <2>2
  <2>3. CASE frames' = Ready(missing)
    BY <1>5, <2>3
  <2> QED BY <2>1, <2>2, <2>3
<1>7. FollowsWereAsked'
  BY StillAsked
<1> QED BY <1>1, <1>2, <1>3, <1>6, <1>7, NothingFollowed

LEMMA MirrorFollow ==
  ASSUME TypeOK, TypeOK', FollowInv, MirrorSessionList, UNCHANGED next_stream_num
  PROVE  FollowInv'
<1>1. (relay_ready' => relay_ready) /\ UNCHANGED watched
  <2>1. CASE ~dsh_ready
    BY <2>1 DEF MirrorSessionList
  <2>2. CASE dsh_ready /\ dshUp
    <3>1. MirrorAnswers /\ UNCHANGED watched
      BY <2>2 DEF MirrorSessionList
    <3>2. relay_ready \/ relay_ready' = relay_ready
      BY <3>1 DEF MirrorAnswers
    <3> QED BY <3>1, <3>2
  <2>3. CASE UNCHANGED <<relay, sessions_cache>>
    BY <2>3
  <2> QED BY <2>1, <2>2, <2>3 DEF MirrorSessionList
<1>2. CASE UNCHANGED <<mux, follows>>
  BY <1>1, <1>2, SameStreamsFollow
<1>3. CASE DropStreams
  <2>1. FreshMux(FALSE) /\ follows' \subseteq follows
    BY <1>3 DEF DropStreams
  <2> QED BY <1>1, <2>1, FreshMuxFollow
<1> QED BY <1>2, <1>3 DEF MirrorSessionList, MirrorFails

\* Streams are cancelled with their slots; frames stay.
LEMMA CancelFollow ==
  ASSUME TypeOK, TypeOK', FollowInv, NEW gone \in SUBSET follows,
         follows' = follows \ gone, opened' = Without(Ids(gone)),
         UNCHANGED <<frames, next_stream_num>>, FollowsWereAsked'
  PROVE  FollowInv'
<1>1. opened' \subseteq opened /\ OpenFollowsHeld'
  BY DEF FollowInv, NoOrphanFollow, OpenFollowsHeld, Ids, Without
<1>2. next_stream_num' >= next_stream_num
  BY DEF TypeOK
<1> QED BY <1>1, <1>2, NothingFollowed

LEMMA RelayConnectFollow == TypeOK /\ TypeOK' /\ FollowInv /\ RelayConnect => FollowInv'
<1> SUFFICES ASSUME TypeOK, TypeOK', FollowInv, RelayConnect PROVE FollowInv'
  OBVIOUS
<1>1. /\ opened' = Without(Ids(follows)) /\ follows' = follows \ follows
      /\ UNCHANGED <<frames, next_stream_num>>
  BY DEF RelayConnect, FreshFollows, StopAllFollows
<1>2. FollowsWereAsked'
  BY <1>1 DEF FollowsWereAsked
<1> QED BY <1>1, <1>2, CancelFollow

LEMMA ServeUnsubscribeFollow ==
  \A s \in Sessions : TypeOK /\ TypeOK' /\ FollowInv /\ ServeUnsubscribe(s) => FollowInv'
<1> SUFFICES ASSUME NEW s \in Sessions, TypeOK, TypeOK', FollowInv, ServeUnsubscribe(s)
             PROVE  FollowInv'
  OBVIOUS
<1> DEFINE gone == {f \in follows : f.session = s}
<1>1. /\ opened' = Without(Ids(gone)) /\ follows' = follows \ gone
      /\ UNCHANGED <<frames, next_stream_num, relay_ready>> /\ watched' = watched \ {s}
  BY DEF ServeUnsubscribe
<1>2. FollowsWereAsked'
  BY <1>1 DEF FollowInv, FollowsWereAsked
<1>3. gone \in SUBSET follows
  OBVIOUS
<1> HIDE DEF gone
<1> QED BY <1>1, <1>2, <1>3, CancelFollow

LEMMA ServeSubscribeFollow ==
  \A s \in Sessions : TypeOK /\ TypeOK' /\ FollowInv /\ ServeSubscribe(s) => FollowInv'
<1> SUFFICES ASSUME NEW s \in Sessions, TypeOK, TypeOK', FollowInv, ServeSubscribe(s)
             PROVE  FollowInv'
  OBVIOUS
<1> DEFINE gone == MakesRoom(s)
           kept == follows \ gone
           slot == [session |-> s, id |-> next_stream_num]
           new  == [id |-> next_stream_num, what |-> "follow"]
<1>1. /\ follows' = kept \cup {slot}
      /\ opened' = Without(Ids(gone)) \cup Reached({new})
      /\ next_stream_num' = next_stream_num + 1
      /\ watched' = watched \cup {s}
      /\ UNCHANGED <<frames, relay_ready>>
  BY DEF ServeSubscribe
<1>2. TableBounded
  BY DEF FollowInv, NoOrphanFollow
<1>3. /\ gone \subseteq follows /\ \A f \in kept : f.session # s
      /\ IsFiniteSet(kept) /\ Cardinality(kept) + 1 <= MaxFollows
  BY <1>2, RoomIsMade
<1>4. next_stream_num \in Nat /\ slot.session = s /\ slot.id = next_stream_num
      /\ new.id = next_stream_num /\ new.what = "follow"
  BY DEF TypeOK
<1> HIDE DEF slot, new, gone
<1>5. OneSlotPerSession'
  BY <1>1, <1>3, <1>4 DEF FollowInv, NoOrphanFollow, OneSlotPerSession
<1>6. TableBounded'
  <2>1. IsFiniteSet(kept) /\ Cardinality(kept) \in Nat
    BY <1>3, FS_CardinalityType
  <2>2. /\ IsFiniteSet(kept \cup {slot})
        /\ Cardinality(kept \cup {slot}) = IF slot \in kept THEN Cardinality(kept)
                                                          ELSE Cardinality(kept) + 1
    BY <2>1, FS_AddElement
  <2> QED BY <1>1, <1>3, <2>1, <2>2, SenderAssumption DEF TableBounded
<1>7. OpenFollowsHeld'
  <2> SUFFICES ASSUME NEW o \in opened', o.what = "follow" PROVE o.id \in Ids(follows')
    BY DEF OpenFollowsHeld, Ids
  <2>1. CASE o = new
    BY <1>1, <1>4, <2>1 DEF Ids
  <2>2. CASE o \in opened /\ o.id \notin Ids(gone)
    BY <1>1, <2>2 DEF FollowInv, NoOrphanFollow, OpenFollowsHeld, Ids
  <2> QED BY <1>1, <2>1, <2>2 DEF Without, Reached
<1>8. FollowsWereAsked'
  BY <1>1, <1>3, <1>4 DEF FollowInv, FollowsWereAsked
<1>9. \A i \in 1 .. Len(frames) : frames[i].id \in Nat /\ frames[i].id < next_stream_num
  <2>1. \A i \in 1 .. Len(frames) : frames[i] \in Frame
    BY ElementOfSeq DEF TypeOK
  <2> QED BY <2>1 DEF FollowInv, Drawn, Frame
<1>10. \A o \in opened' : o = new \/ o \in opened
  BY <1>1 DEF Without, Reached
<1>11. Drawn'
  <2>1. \A o \in opened : o.id \in Nat /\ o.id < next_stream_num
    BY DEF FollowInv, Drawn, TypeOK, Stream
  <2>4. new.id < next_stream_num' /\ \A o \in opened : o.id < next_stream_num'
    BY <1>1, <1>4, <2>1
  <2>2. \A o \in opened' : o.id < next_stream_num'
    BY <1>10, <2>4
  <2>3. \A i \in 1 .. Len(frames') : frames'[i].id < next_stream_num'
    BY <1>1, <1>4, <1>9
  <2> QED BY <2>2, <2>3 DEF Drawn
<1>12. EndedAreClosed'
  <2> SUFFICES ASSUME NEW i \in 1 .. Len(frames), frames[i].type = "end",
                      NEW o \in opened', o.what = "follow", o.id = frames[i].id
               PROVE  FALSE
    BY <1>1 DEF EndedAreClosed
  <2>1. CASE o = new
    <3>1. frames[i].id = next_stream_num
      BY <1>4, <2>1
    <3>2. frames[i].id \in Nat /\ frames[i].id < next_stream_num
      BY <1>9
    <3> QED BY <3>1, <3>2
  <2>2. CASE o \in opened
    BY <2>2 DEF FollowInv, EndedAreClosed
  <2> QED BY <1>10, <2>1, <2>2
<1> QED BY <1>5, <1>6, <1>7, <1>8, <1>11, <1>12 DEF FollowInv, NoOrphanFollow

LEMMA PumpFrameFollow == TypeOK /\ TypeOK' /\ FollowInv /\ PumpFrame => FollowInv'
<1> SUFFICES ASSUME TypeOK, TypeOK', FollowInv, PumpFrame PROVE FollowInv'
  OBVIOUS
<1> DEFINE frame == Head(frames)
           ended == {f \in follows : f.id = frame.id}
<1>1. /\ frames \in Seq(Frame) /\ frames # <<>> /\ frames' = Tail(frames)
      /\ Handle(frame) /\ UNCHANGED <<opened, next_stream_num>>
  BY DEF PumpFrame, TypeOK
<1>2. \A i \in 1 .. Len(frames') : \E j \in 1 .. Len(frames) : frames'[i] = frames[j]
  <2>1. /\ Len(frames') = Len(frames) - 1 /\ Len(frames) \in Nat
        /\ \A i \in 1 .. Len(frames') : frames'[i] = frames[i + 1]
    BY <1>1, HeadTailProperties, LenProperties
  <2>2. \A i \in 1 .. Len(frames') : i + 1 \in 1 .. Len(frames)
    BY <2>1
  <2> QED BY <2>1, <2>2
<1>3. frame = frames[1] /\ 1 \in 1 .. Len(frames)
  BY <1>1
<1> HIDE DEF frame
<1>4. CASE frame.type = "end"
  <2>1. /\ follows' = follows \ ended /\ watched' = watched \ {f.session : f \in ended}
        /\ UNCHANGED relay_ready
    BY <1>1, <1>4 DEF Handle
  <2>2. \A o \in opened : o.what = "follow" => o.id # frame.id
    BY <1>3, <1>4 DEF FollowInv, EndedAreClosed
  <2>3. OpenFollowsHeld'
    BY <1>1, <2>1, <2>2 DEF FollowInv, NoOrphanFollow, OpenFollowsHeld, Ids
  <2>4. FollowsWereAsked'
    BY <2>1 DEF FollowInv, NoOrphanFollow, OneSlotPerSession, FollowsWereAsked
  <2>5. next_stream_num' >= next_stream_num
    BY <1>1 DEF TypeOK
  <2>6. follows' \subseteq follows
    BY <2>1
  <2>7. UNCHANGED opened
    BY <1>1
  <2> HIDE DEF ended
  <2> QED BY <1>2, <2>3, <2>4, <2>5, <2>6, <2>7, NothingFollowed
<1>5. CASE frame.type # "end"
  <2>1. /\ UNCHANGED <<follows, watched>>
        /\ relay_ready' = relay_ready \/ relay_ready' = (relay_ready /\ tunnel)
    BY <1>1, <1>5 DEF Handle
  <2>5. relay_ready' => relay_ready
    BY <2>1
  <2>2. FollowsWereAsked'
    BY <2>1, <2>5, StillAsked
  <2>3. OpenFollowsHeld' /\ next_stream_num' >= next_stream_num
    BY <1>1, <2>1 DEF FollowInv, NoOrphanFollow, OpenFollowsHeld, Ids, TypeOK
  <2>4. UNCHANGED opened
    BY <1>1
  <2> QED BY <1>2, <2>1, <2>2, <2>3, <2>4, NothingFollowed
<1> QED BY <1>4, <1>5

LEMMA FollowEndsFollow ==
  \A o \in opened : TypeOK /\ TypeOK' /\ FollowInv /\ FollowEnds(o) => FollowInv'
<1> SUFFICES ASSUME NEW o \in opened, TypeOK, TypeOK', FollowInv, FollowEnds(o)
             PROVE  FollowInv'
  OBVIOUS
<1> DEFINE last == [type |-> "end", id |-> o.id]
<1>1. /\ opened' = opened \ {o} /\ frames' = Append(frames, last) /\ o.what = "follow"
      /\ UNCHANGED <<follows, next_stream_num, watched, relay_ready>>
  BY DEF FollowEnds
<1>2. o.id < next_stream_num /\ last.id = o.id /\ last.type = "end" /\ o \in Stream
  BY DEF FollowInv, Drawn, TypeOK
<1> HIDE DEF last
<1>3. NoOrphanFollow' /\ FollowsWereAsked'
  BY <1>1 DEF FollowInv, NoOrphanFollow, OneSlotPerSession, TableBounded, OpenFollowsHeld,
              Ids, FollowsWereAsked
<1>4. /\ Len(frames') = Len(frames) + 1 /\ Len(frames) \in Nat
      /\ \A i \in 1 .. Len(frames') : (i \in 1 .. Len(frames) /\ frames'[i] = frames[i])
                                     \/ frames'[i] = last
  BY <1>1 DEF TypeOK
<1>5. Drawn'
  BY <1>1, <1>2, <1>4 DEF FollowInv, Drawn
<1>6. \A p \in opened' : ~(p.what = "follow" /\ p.id = o.id)
  <2> SUFFICES ASSUME NEW p \in opened, p # o, p.what = "follow", p.id = o.id PROVE FALSE
    BY <1>1
  <2>1. p \in Stream
    BY DEF TypeOK
  <2>2. p = [id |-> p.id, what |-> p.what] /\ o = [id |-> o.id, what |-> o.what]
    BY <1>2, <2>1 DEF Stream
  <2> QED BY <1>1, <2>2
<1>7. EndedAreClosed'
  BY <1>1, <1>2, <1>4, <1>6 DEF FollowInv, EndedAreClosed
<1> QED BY <1>3, <1>5, <1>7 DEF FollowInv

LEMMA OutsideFollow == TypeOK /\ TypeOK' /\ FollowInv /\ Outside => FollowInv'
<1> SUFFICES ASSUME TypeOK, TypeOK', FollowInv, Outside PROVE FollowInv'
  OBVIOUS
<1>1. CASE TunnelBreaks \/ DshStops \/ DshReturns \/ ListChanges
  BY <1>1, SameStreamsFollow DEF TunnelBreaks, DshStops, DshReturns, ListChanges
<1>2. CASE MuxBreaks
  <2>1. /\ opened' = {} /\ UNCHANGED <<frames, follows, next_stream_num, watched, relay_ready>>
    BY <1>2 DEF MuxBreaks
  <2>2. FollowsWereAsked'
    BY <2>1, StillAsked
  <2>3. OpenFollowsHeld' /\ next_stream_num' >= next_stream_num
    BY <2>1 DEF OpenFollowsHeld, TypeOK
  <2> QED BY <2>1, <2>2, <2>3, NothingFollowed
<1>3. CASE \E o \in opened : FollowEnds(o)
  BY <1>3, FollowEndsFollow
<1>4. ASSUME NEW o \in opened, FeedEnds(o) PROVE FollowInv'
  <2>1. opened' \subseteq opened /\ UNCHANGED <<frames, follows, next_stream_num, watched, relay_ready>>
    BY <1>4 DEF FeedEnds
  <2>2. FollowsWereAsked'
    BY <2>1, StillAsked
  <2>3. OpenFollowsHeld' /\ next_stream_num' >= next_stream_num
    BY <2>1 DEF FollowInv, NoOrphanFollow, OpenFollowsHeld, Ids, TypeOK
  <2> QED BY <2>1, <2>2, <2>3, NothingFollowed
<1> QED BY <1>1, <1>2, <1>3, <1>4 DEF Outside

LEMMA NextFollow == TypeOK /\ TypeOK' /\ FollowInv /\ [Next]_vars => FollowInv'
<1> SUFFICES ASSUME TypeOK, TypeOK', FollowInv, [Next]_vars PROVE FollowInv'
  OBVIOUS
<1>1. CASE Quiet \/ LoseRelay
  BY <1>1, SameStreamsFollow DEF Quiet, Turn, SkipRelay, SkipDsh, SkipMux, SkipList,
                                SelectIdle, PumpIdle, LoseRelay
<1>2. CASE RelayConnect
  BY <1>2, RelayConnectFollow
<1>3. CASE Greet \/ PollList
  BY <1>3, MirrorFollow DEF Greet, PollList
<1>4. CASE SubscribeFeeds
  <2> DEFINE missing == IF ws_ready THEN {f \in Feeds : ~subscribed[f]} ELSE {}
  <2>1. /\ missing \in SUBSET Feeds /\ Open(missing, muxUp, opened)
        /\ frames' = frames \/ frames' = frames \o Ready(missing)
        /\ UNCHANGED <<follows, watched, relay_ready>>
    BY <1>4 DEF SubscribeFeeds
  <2> HIDE DEF missing
  <2> QED BY <2>1, OpenFollow
<1>5. CASE ServeRefresh
  <2> DEFINE carried == IF subscribed["events"] THEN Without({stream["events"]}) ELSE opened
  <2>1. /\ {"events"} \in SUBSET Feeds /\ carried \in SUBSET opened
        /\ Open({"events"}, muxUp, carried)
        /\ frames' = frames \/ frames' = frames \o Ready({"events"})
        /\ UNCHANGED <<follows, watched, relay_ready>>
    BY <1>5 DEF ServeRefresh, Without, Feeds
  <2> HIDE DEF carried
  <2> QED BY <2>1, OpenFollow
<1>6. CASE ReopenMux
  <2>1. /\ Open(Feeds, TRUE, {}) /\ frames' = Ready(Feeds)
        /\ UNCHANGED <<follows, watched, relay_ready>>
    BY <1>6 DEF ReopenMux
  <2> QED BY <2>1, OpenFollow
<1>7. CASE \E up \in BOOLEAN :
           /\ FreshMux(up) /\ follows' \subseteq follows
           /\ UNCHANGED <<next_stream_num, watched>> /\ (relay_ready' => relay_ready)
  BY <1>7, FreshMuxFollow
<1>8. CASE ConnectDsh \/ Start
  <2>1. UNCHANGED <<relay, ids>>
    BY <1>8 DEF ConnectDsh, Start
  <2>2. CASE DshConnect
    BY <1>7, <2>1, <2>2 DEF DshConnect
  <2>3. CASE UNCHANGED mux
    BY <2>1, <2>3, SameStreamsFollow
  <2> QED BY <1>8, <2>2, <2>3 DEF ConnectDsh, Start
<1>9. CASE Stop \/ PumpDrop
  <2>1. FreshMux(FALSE) /\ follows' = {} /\ UNCHANGED <<next_stream_num, watched>>
    BY <1>9 DEF Stop, PumpDrop, DropStreams
  <2>2. relay_ready' => relay_ready
    <3>1. CASE Stop
      BY <3>1 DEF Stop
    <3>2. CASE PumpDrop
      <4>1. UNCHANGED relay
        BY <3>2 DEF PumpDrop
      <4> QED BY <4>1
    <3> QED BY <1>9, <3>1, <3>2
  <2> QED BY <1>7, <2>1, <2>2
<1>10. CASE \E s \in Sessions : ServeSubscribe(s) \/ ServeUnsubscribe(s)
  BY <1>10, ServeSubscribeFollow, ServeUnsubscribeFollow
<1>11. CASE PumpFrame
  BY <1>11, PumpFrameFollow
<1>12. CASE Outside
  BY <1>12, OutsideFollow
<1>13. CASE UNCHANGED vars
  BY <1>13, SameStreamsFollow DEF vars
<1> QED BY <1>1, <1>2, <1>3, <1>4, <1>5, <1>6, <1>7, <1>8, <1>9, <1>10, <1>11, <1>12, <1>13,
           StepCases

LEMMA InitFollow == Init => FollowInv
<1> SUFFICES ASSUME Init PROVE FollowInv
  OBVIOUS
<1>1. follows = {} /\ opened = {} /\ frames = <<>> /\ Len(frames) = 0 /\ ~relay_ready
  BY DEF Init
<1>2. IsFiniteSet(follows) /\ Cardinality(follows) = 0
  BY <1>1, FS_EmptySet
<1> QED BY <1>1, <1>2, SenderAssumption
        DEF FollowInv, NoOrphanFollow, OneSlotPerSession, TableBounded, OpenFollowsHeld,
            FollowsWereAsked, Drawn, EndedAreClosed

\* For any number of sessions, slots and faults: the follow table is bounded and
\* without duplicates, and dsh has no follow stream open that the table does not
\* hold (NoOrphanFollow).
THEOREM TableHoldsStreams == Spec => []NoOrphanFollow
<1>1. FollowInv => NoOrphanFollow
  BY DEF FollowInv
<1> QED BY <1>1, InitTypes, NextTypes, InitFollow, NextFollow, PTL DEF Spec

\* Nothing from an earlier tunnel is followed on (FollowsWereAsked).
THEOREM OnlyAskedFollowed == Spec => []FollowsWereAsked
<1>1. FollowInv => FollowsWereAsked
  BY DEF FollowInv
<1> QED BY <1>1, InitTypes, NextTypes, InitFollow, NextFollow, PTL DEF Spec

-----------------------------------------------------------------------------
\* Streams and the mux in use.

\* Follows and feeds hold numbers of their own, drawn before the next one.
Numbered ==
  /\ muxFirst <= next_stream_num
  /\ \A x \in Feeds : stream[x] < next_stream_num
  /\ \A f \in follows : f.id < next_stream_num
  /\ \A f, g \in follows : f.id = g.id => f = g
  /\ \A f \in follows, x \in Feeds : f.id # stream[x]

\* Before the user has disconnected the loop runs from its start on, and without
\* a mux nothing is followed and no feed is marked.
OnOneMux ==
  /\ running <=> pc # "off"
  /\ ~running => ~dsh_ready
  /\ ~dsh_ready => ~ws_ready
  /\ ~ws_ready => follows = {} /\ \A x \in Feeds : ~subscribed[x]
  /\ FollowsAreOpen
  /\ SubscribedOnThisMux

MuxInv == Numbered /\ (stops = 0 => OnOneMux)

LEMMA InitMux == Init => MuxInv
BY DEF Init, MuxInv, Numbered, OnOneMux, FollowsAreOpen, SubscribedOnThisMux, NoStream

LEMMA NumberTypes ==
  ASSUME TypeOK
  PROVE  /\ next_stream_num \in Nat /\ muxFirst \in Nat
         /\ \A x \in Feeds : stream[x] \in Int
         /\ \A f \in follows : f.id \in Nat
BY DEF TypeOK, StreamId, NoStream, Follow

\* No stream is opened.
LEMMA SameNumbers ==
  ASSUME TypeOK, Numbered, follows' \subseteq follows,
         muxFirst' \in {muxFirst, next_stream_num}, UNCHANGED <<stream, next_stream_num>>
  PROVE  Numbered'
BY NumberTypes DEF Numbered

\* Feeds are opened.
LEMMA OpenNumbered ==
  ASSUME TypeOK, Numbered, NEW missing \in SUBSET Feeds, NEW up, NEW carried,
         Open(missing, up, carried), follows' = follows,
         muxFirst' \in {muxFirst, next_stream_num}
  PROVE  /\ Numbered'
         /\ \A x \in Feeds : stream'[x] = stream[x] \/ x \in missing
         /\ \A x \in missing : stream'[x] >= next_stream_num
<1>1. /\ next_stream_num \in Nat /\ muxFirst \in Nat /\ \A x \in Feeds : stream[x] \in Int
      /\ \A f \in follows : f.id \in Nat
  BY NumberTypes
<1>2. /\ next_stream_num' \in Nat /\ next_stream_num' >= next_stream_num
      /\ \A x \in missing : /\ stream'[x] \in Nat /\ stream'[x] >= next_stream_num
                            /\ stream'[x] < next_stream_num'
      /\ \A x \in Feeds : stream'[x] = stream[x] \/ x \in missing
  BY <1>1, OpenNumbers DEF Open
<1>3. \A x \in Feeds : stream'[x] < next_stream_num'
  BY <1>1, <1>2 DEF Numbered
<1>4. \A f \in follows, x \in Feeds : f.id # stream'[x]
  BY <1>1, <1>2 DEF Numbered
<1>5. \A f \in follows : f.id < next_stream_num'
  BY <1>1, <1>2 DEF Numbered
<1>6. muxFirst' <= next_stream_num'
  BY <1>1, <1>2 DEF Numbered
<1> QED BY <1>2, <1>3, <1>4, <1>5, <1>6 DEF Numbered

\* The stream of a follow, its end frame, and the frames to be read.
StreamOf(f) == [id |-> f.id, what |-> "follow"]
EndOf(f) == [type |-> "end", id |-> f.id]
Waiting == {frames[i] : i \in 1 .. Len(frames)}

LEMMA FollowsOpenIs ==
  FollowsAreOpen <=> (ws_ready /\ muxUp => \A f \in follows : StreamOf(f) \in opened \/ EndOf(f) \in Waiting)
BY DEF FollowsAreOpen, StreamOf, EndOf, Waiting

LEMMA AppendWaits ==
  ASSUME frames \in Seq(Frame), NEW e \in Frame, frames' = Append(frames, e)
  PROVE  Waiting' = Waiting \cup {e}
<1>1. /\ Len(frames') = Len(frames) + 1 /\ Len(frames) \in Nat
      /\ \A i \in 1 .. Len(frames) : frames'[i] = frames[i]
      /\ frames'[Len(frames) + 1] = e
  BY AppendProperties, LenProperties
<1>2. \A i \in 1 .. Len(frames) + 1 : i \in 1 .. Len(frames) \/ i = Len(frames) + 1
  BY <1>1
<1>3. Len(frames) + 1 \in 1 .. Len(frames) + 1 /\ \A i \in 1 .. Len(frames) : i \in 1 .. Len(frames) + 1
  BY <1>1
<1> QED BY <1>1, <1>2, <1>3 DEF Waiting

LEMMA ReadyWaits ==
  ASSUME TypeOK, NEW missing \in SUBSET Feeds,
         frames' = frames \/ frames' = frames \o Ready(missing)
  PROVE  Waiting \subseteq Waiting'
<1>1. CASE frames' = frames
  BY <1>1 DEF Waiting
<1>2. CASE frames' = frames \o Ready(missing)
  <2>1. frames \in Seq(Frame)
    BY DEF TypeOK
  <2>2. CASE "events" \in missing
    <3> DEFINE ready == [type |-> "ready", id |-> Numbers(missing)["events"]]
    <3>1. Ready(missing) = <<ready>>
      BY <2>2 DEF Ready
    <3>2. ready \in Frame
      BY NumberTypes, OpenNumbers DEF Frame, Feeds
    <3> HIDE DEF ready
    <3>3. frames' = Append(frames, ready)
      BY <1>2, <2>1, <3>1, <3>2
    <3> QED BY <2>1, <3>2, <3>3, AppendWaits
  <2>3. CASE "events" \notin missing
    <3>1. frames' = frames
      BY <1>2, <2>1, <2>3, ConcatEmptySeq DEF Ready
    <3> QED BY <1>1, <3>1
  <2> QED BY <2>2, <2>3
<1> QED BY <1>1, <1>2

\* Steps in which no follow loses its stream and no feed is marked.
LEMMA CalmKeepsMux ==
  ASSUME TypeOK, MuxInv, stops' = stops, UNCHANGED <<running, stream, muxFirst, next_stream_num>>,
         pc' # "off" <=> pc # "off",
         dsh_ready' = dsh_ready, ws_ready' = ws_ready, muxUp' => muxUp,
         follows' \subseteq follows, \A x \in Feeds : subscribed'[x] => subscribed[x],
         muxUp' => \A f \in follows' : /\ StreamOf(f) \in opened => StreamOf(f) \in opened' \/ EndOf(f) \in Waiting'
                                       /\ EndOf(f) \in Waiting => EndOf(f) \in Waiting'
  PROVE  MuxInv'
<1>1. Numbered'
  BY SameNumbers DEF MuxInv
<1>2. ASSUME stops = 0 PROVE OnOneMux'
  <2>1. OnOneMux
    BY <1>2 DEF MuxInv
  <2>2. FollowsAreOpen'
    BY <2>1, FollowsOpenIs DEF OnOneMux, FollowsAreOpen, StreamOf, EndOf, Waiting
  <2>3. SubscribedOnThisMux'
    BY <2>1 DEF OnOneMux, SubscribedOnThisMux
  <2> QED BY <2>1, <2>2, <2>3 DEF OnOneMux
<1> QED BY <1>1, <1>2 DEF MuxInv

\* The mux is given up.
LEMMA DropKeepsMux ==
  ASSUME TypeOK, MuxInv, DropStreams, stops' = stops, UNCHANGED <<stream, next_stream_num, running>>,
         pc' # "off" <=> pc # "off", dsh_ready' => dsh_ready
  PROVE  MuxInv'
<1>1. ws_ready' = FALSE /\ follows' = {} /\ muxFirst' = next_stream_num
      /\ subscribed' = [f \in Feeds |-> FALSE]
  BY DEF DropStreams, FreshMux
<1>2. Numbered'
  BY <1>1, SameNumbers DEF MuxInv
<1>3. \A x \in Feeds : ~subscribed'[x]
  BY <1>1
<1> QED BY <1>1, <1>2, <1>3 DEF MuxInv, OnOneMux, FollowsAreOpen, SubscribedOnThisMux

\* A mux that carries no stream yet takes the place of none.
LEMMA FreshKeepsMux ==
  ASSUME TypeOK, MuxInv, stops' = stops, ~ws_ready, NEW up, FreshMux(up), dsh_ready' = TRUE,
         UNCHANGED <<stream, next_stream_num, follows, subscribed>>, running', pc' # "off"
  PROVE  MuxInv'
<1>1. muxFirst' = next_stream_num
  BY DEF FreshMux
<1>2. Numbered'
  BY <1>1, SameNumbers DEF MuxInv
<1>3. ASSUME stops = 0 PROVE follows' = {} /\ \A x \in Feeds : ~subscribed'[x]
  BY <1>3 DEF MuxInv, OnOneMux
<1> QED BY <1>2, <1>3 DEF MuxInv, OnOneMux, FollowsAreOpen, SubscribedOnThisMux

LEMMA MirrorKeepsMux ==
  ASSUME TypeOK, MuxInv, MirrorSessionList, pc # "off", pc' # "off",
         UNCHANGED <<stream, next_stream_num, running, stops>>
  PROVE  MuxInv'
<1>1. CASE UNCHANGED <<dsh_ready, mux, subscribed, follows>>
  BY <1>1, CalmKeepsMux DEF Waiting
<1>2. CASE dsh_ready' = FALSE /\ DropStreams
  BY <1>2, DropKeepsMux
<1> QED BY <1>1, <1>2 DEF MirrorSessionList, MirrorFails

\* Feeds are opened on the mux in use, and marked.
LEMMA OpenKeepsMux ==
  ASSUME TypeOK, MuxInv, NEW missing \in SUBSET Feeds, NEW carried, Open(missing, muxUp, carried),
         \A f \in follows : StreamOf(f) \in opened => StreamOf(f) \in carried,
         frames' = frames \/ frames' = frames \o Ready(missing),
         UNCHANGED <<running, stops, dsh_ready, ws_ready, muxUp, muxFirst, follows>>,
         pc' # "off" <=> pc # "off", missing # {} => ws_ready,
         \A x \in Feeds : subscribed'[x] => subscribed[x] \/ x \in missing
  PROVE  MuxInv'
<1>1. /\ Numbered' /\ \A x \in Feeds : stream'[x] = stream[x] \/ x \in missing
      /\ \A x \in missing : stream'[x] >= next_stream_num /\ stream'[x] \in Int
  <2>1. \A x \in missing : stream'[x] \in Int
    BY NumberTypes, OpenNumbers DEF Open
  <2> QED BY <2>1, OpenNumbered DEF MuxInv
<1>2. Waiting \subseteq Waiting' /\ carried \subseteq opened'
  BY ReadyWaits DEF Open
<1>3. ASSUME stops = 0 PROVE OnOneMux'
  <2>1. OnOneMux /\ Numbered
    BY <1>3 DEF MuxInv
  <2>2. FollowsAreOpen'
    BY <1>2, <2>1, FollowsOpenIs DEF OnOneMux, FollowsAreOpen, StreamOf, EndOf, Waiting
  <2>3. SubscribedOnThisMux'
    <3>1. \A x \in missing : stream'[x] >= muxFirst
      BY <1>1, <2>1, NumberTypes DEF Numbered
    <3> QED BY <1>1, <2>1, <3>1 DEF OnOneMux, SubscribedOnThisMux
  <2>4. ~ws_ready' => \A x \in Feeds : ~subscribed'[x]
    BY <2>1 DEF OnOneMux
  <2> QED BY <2>1, <2>2, <2>3, <2>4 DEF OnOneMux
<1> QED BY <1>1, <1>3 DEF MuxInv

LEMMA SubscribeFeedsKeepsMux == TypeOK /\ MuxInv /\ SubscribeFeeds => MuxInv'
<1> SUFFICES ASSUME TypeOK, MuxInv, SubscribeFeeds PROVE MuxInv'
  OBVIOUS
<1> DEFINE missing == IF ws_ready THEN {f \in Feeds : ~subscribed[f]} ELSE {}
<1>1. missing \in SUBSET Feeds /\ (missing # {} => ws_ready)
  OBVIOUS
<1>2. /\ Open(missing, muxUp, opened)
      /\ frames' = frames \/ frames' = frames \o Ready(missing)
      /\ subscribed' = [f \in Feeds |-> subscribed[f] \/ f \in missing]
      /\ UNCHANGED <<running, stops, dsh_ready, ws_ready, muxUp, muxFirst, follows>>
      /\ pc = "subscribe" /\ pc' = "dsh"
  BY DEF SubscribeFeeds, Goto
<1> HIDE DEF missing
<1>3. \A x \in Feeds : subscribed'[x] => subscribed[x] \/ x \in missing
  BY <1>2
<1> QED BY <1>1, <1>2, <1>3, OpenKeepsMux

LEMMA ServeRefreshKeepsMux == TypeOK /\ MuxInv /\ ServeRefresh => MuxInv'
<1> SUFFICES ASSUME TypeOK, MuxInv, ServeRefresh PROVE MuxInv'
  OBVIOUS
<1> DEFINE carried == IF subscribed["events"] THEN Without({stream["events"]}) ELSE opened
<1>1. /\ Open({"events"}, muxUp, carried) /\ ws_ready
      /\ frames' = frames \/ frames' = frames \o Ready({"events"})
      /\ subscribed' = [subscribed EXCEPT !["events"] = TRUE]
      /\ UNCHANGED <<running, stops, dsh_ready, ws_ready, muxUp, muxFirst, follows>>
      /\ pc = "select" /\ pc' = "pump"
  BY DEF ServeRefresh, Serving, Goto
<1>2. \A f \in follows : StreamOf(f) \in opened => StreamOf(f) \in carried
  BY DEF MuxInv, Numbered, Feeds, Without, StreamOf
<1> HIDE DEF carried
<1>3. \A x \in Feeds : subscribed'[x] => subscribed[x] \/ x \in {"events"}
  BY <1>1 DEF TypeOK
<1>4. {"events"} \in SUBSET Feeds
  BY DEF Feeds
<1> QED BY <1>1, <1>2, <1>3, <1>4, OpenKeepsMux

LEMMA ReopenMuxKeepsMux == TypeOK /\ MuxInv /\ ReopenMux => MuxInv'
<1> SUFFICES ASSUME TypeOK, MuxInv, ReopenMux PROVE MuxInv'
  OBVIOUS
<1>1. /\ ~ws_ready /\ dsh_ready /\ Open(Feeds, TRUE, {}) /\ muxFirst' = next_stream_num
      /\ pc = "mux" /\ pc' = "list"
      /\ UNCHANGED <<running, stops, dsh_ready, follows>> /\ ws_ready' = TRUE
  BY DEF ReopenMux, Goto
<1>2. Numbered' /\ \A x \in Feeds : stream'[x] >= muxFirst'
  BY <1>1, OpenNumbered DEF MuxInv
<1>3. ASSUME stops = 0 PROVE OnOneMux'
  <2>1. OnOneMux /\ follows' = {}
    BY <1>1, <1>3 DEF MuxInv, OnOneMux
  <2> QED BY <1>1, <1>2, <2>1 DEF OnOneMux, FollowsAreOpen, SubscribedOnThisMux
<1> QED BY <1>1, <1>2, <1>3 DEF MuxInv

LEMMA ServeSubscribeKeepsMux == \A s \in Sessions : TypeOK /\ MuxInv /\ ServeSubscribe(s) => MuxInv'
<1> SUFFICES ASSUME NEW s \in Sessions, TypeOK, MuxInv, ServeSubscribe(s) PROVE MuxInv'
  OBVIOUS
<1> DEFINE gone == MakesRoom(s)
           slot == [session |-> s, id |-> next_stream_num]
<1>1. /\ ws_ready /\ follows' = (follows \ gone) \cup {slot}
      /\ opened' = Without(Ids(gone)) \cup Reached({StreamOf(slot)})
      /\ next_stream_num' = next_stream_num + 1
      /\ UNCHANGED <<running, stops, dsh_ready, ws_ready, muxUp, muxFirst, frames, stream, subscribed>>
      /\ pc = "select" /\ pc' = "pump"
  BY DEF ServeSubscribe, Serving, Goto, StreamOf
<1>2. gone \subseteq follows /\ slot.id = next_stream_num
  BY DEF MakesRoom
<1> HIDE DEF gone, slot
<1>3. Numbered'
  BY <1>1, <1>2, NumberTypes DEF MuxInv, Numbered
<1>4. ASSUME stops = 0 PROVE OnOneMux'
  <2>1. OnOneMux /\ Numbered
    BY <1>4 DEF MuxInv
  <2>2. ASSUME muxUp, NEW f \in follows \ gone PROVE StreamOf(f) \in opened' \/ EndOf(f) \in Waiting
    <3>1. StreamOf(f) \in opened \/ EndOf(f) \in Waiting
      BY <1>1, <2>1, <2>2, FollowsOpenIs DEF OnOneMux
    <3>2. f.id \notin Ids(gone)
      BY <1>2, <2>1 DEF Numbered, Ids
    <3> QED BY <1>1, <3>1, <3>2 DEF Without, StreamOf
  <2>3. muxUp => StreamOf(slot) \in opened'
    BY <1>1 DEF Reached
  <2>4. FollowsAreOpen'
    BY <1>1, <2>2, <2>3 DEF FollowsAreOpen, StreamOf, EndOf, Waiting
  <2> QED BY <1>1, <2>1, <2>4 DEF OnOneMux, SubscribedOnThisMux
<1> QED BY <1>1, <1>3, <1>4 DEF MuxInv

LEMMA ServeUnsubscribeKeepsMux == \A s \in Sessions : TypeOK /\ MuxInv /\ ServeUnsubscribe(s) => MuxInv'
<1> SUFFICES ASSUME NEW s \in Sessions, TypeOK, MuxInv, ServeUnsubscribe(s) PROVE MuxInv'
  OBVIOUS
<1> DEFINE gone == {f \in follows : f.session = s}
<1>1. /\ follows' = follows \ gone /\ opened' = Without(Ids(gone))
      /\ UNCHANGED <<running, stops, dsh_ready, ws_ready, muxUp, muxFirst, frames, stream, subscribed,
                     next_stream_num>>
      /\ pc = "select" /\ pc' = "pump"
  BY DEF ServeUnsubscribe, Serving, Goto
<1>2. gone \subseteq follows
  OBVIOUS
<1> HIDE DEF gone
<1>3. \A f \in follows' : StreamOf(f) \in opened => StreamOf(f) \in opened'
  BY <1>1, <1>2 DEF MuxInv, Numbered, Ids, Without, StreamOf
<1>4. Waiting' = Waiting
  BY <1>1 DEF Waiting
<1> QED BY <1>1, <1>3, <1>4, CalmKeepsMux

LEMMA PumpFrameKeepsMux == TypeOK /\ MuxInv /\ PumpFrame => MuxInv'
<1> SUFFICES ASSUME TypeOK, MuxInv, PumpFrame PROVE MuxInv'
  OBVIOUS
<1> DEFINE frame == Head(frames)
<1>1. /\ frames \in Seq(Frame) /\ frames # <<>> /\ frames' = Tail(frames) /\ Handle(frame)
      /\ UNCHANGED <<running, pc, stops, dsh_ready, ws_ready, muxUp, muxFirst, stream, subscribed, opened,
                     next_stream_num>>
  BY DEF PumpFrame, TypeOK
<1>2. frame = frames[1]
  BY <1>1
<1>3. Waiting \subseteq Waiting' \cup {frame}
  <2>1. /\ Len(frames') = Len(frames) - 1 /\ Len(frames) \in Nat
        /\ \A i \in 1 .. Len(frames') : frames'[i] = frames[i + 1]
    BY <1>1, HeadTailProperties, LenProperties
  <2>2. ASSUME NEW i \in 1 .. Len(frames), i # 1 PROVE frames[i] \in Waiting'
    <3>1. i - 1 \in 1 .. Len(frames') /\ frames'[i - 1] = frames[i]
      BY <2>1, <2>2
    <3> QED BY <3>1 DEF Waiting
  <2> QED BY <1>2, <2>2 DEF Waiting
<1> HIDE DEF frame
<1>4. follows' \subseteq follows /\ (frame.type = "end" => \A f \in follows' : f.id # frame.id)
  BY <1>1 DEF Handle
<1>5. \A f \in follows' : EndOf(f) # frame
  BY <1>4 DEF EndOf
<1> QED BY <1>1, <1>3, <1>4, <1>5, CalmKeepsMux

LEMMA OutsideKeepsMux == TypeOK /\ MuxInv /\ Outside => MuxInv'
<1> SUFFICES ASSUME TypeOK, MuxInv, Outside PROVE MuxInv'
  OBVIOUS
<1>1. UNCHANGED <<running, pc, stops, dsh_ready, ws_ready, muxFirst, feeds, ids>>
  BY DEF Outside, TunnelBreaks, MuxBreaks, DshStops, DshReturns, ListChanges, FollowEnds, FeedEnds,
         Fault
<1>2. CASE UNCHANGED <<muxUp, opened, frames>>
  BY <1>1, <1>2, CalmKeepsMux DEF Waiting
<1>3. CASE MuxBreaks
  BY <1>1, <1>3, CalmKeepsMux DEF MuxBreaks
<1>4. ASSUME NEW o \in opened, FollowEnds(o) PROVE MuxInv'
  <2> DEFINE last == [type |-> "end", id |-> o.id]
  <2>1. /\ frames' = Append(frames, last) /\ frames \in Seq(Frame) /\ opened' = opened \ {o}
        /\ UNCHANGED muxUp
    BY <1>4 DEF FollowEnds, TypeOK
  <2>2. last \in Frame
    BY DEF TypeOK, Stream, Frame
  <2>3. \A f \in follows : StreamOf(f) = o => EndOf(f) = last
    BY DEF StreamOf, EndOf
  <2> HIDE DEF last
  <2>4. Waiting' = Waiting \cup {last}
    BY <2>1, <2>2, AppendWaits
  <2> QED BY <1>1, <2>1, <2>3, <2>4, CalmKeepsMux
<1>5. ASSUME NEW o \in opened, FeedEnds(o) PROVE MuxInv'
  <2>1. /\ opened' = opened \ {o} /\ o.what \in Feeds /\ UNCHANGED <<muxUp, frames>>
    BY <1>5 DEF FeedEnds
  <2>2. \A f \in follows : StreamOf(f) # o
    BY <2>1 DEF StreamOf, Feeds
  <2>3. Waiting' = Waiting
    BY <2>1 DEF Waiting
  <2> QED BY <1>1, <2>1, <2>2, <2>3, CalmKeepsMux
<1> QED BY <1>2, <1>3, <1>4, <1>5 DEF Outside, TunnelBreaks, DshStops, DshReturns, ListChanges

\* The user's disconnection ends what is said of the mux.
LEMMA StopKeepsMux == TypeOK /\ MuxInv /\ Stop => MuxInv'
<1> SUFFICES ASSUME TypeOK, MuxInv, Stop PROVE MuxInv'
  OBVIOUS
<1>1. /\ follows' = {} /\ muxFirst' = next_stream_num /\ UNCHANGED <<stream, next_stream_num>>
      /\ stops' = stops + 1 /\ stops \in Nat
  BY DEF Stop, FreshMux, TypeOK
<1>2. Numbered'
  BY <1>1, SameNumbers DEF MuxInv
<1>3. stops' # 0
  BY <1>1
<1> QED BY <1>2, <1>3 DEF MuxInv

LEMMA StartKeepsMux == TypeOK /\ MuxInv /\ Start => MuxInv'
<1> SUFFICES ASSUME TypeOK, MuxInv, Start PROVE MuxInv'
  OBVIOUS
<1>1. /\ pc = "off" /\ running' = TRUE /\ pc' = "head"
      /\ UNCHANGED <<stream, follows, subscribed, next_stream_num, stops>>
      /\ DshConnect \/ UNCHANGED <<dsh_ready, mux>>
  BY DEF Start
<1>2. Numbered'
  BY <1>1, SameNumbers DEF MuxInv, DshConnect, FreshMux
<1>3. ASSUME stops = 0 PROVE OnOneMux'
  <2>1. ~dsh_ready /\ ~ws_ready /\ follows' = {} /\ \A x \in Feeds : ~subscribed'[x]
    BY <1>1, <1>3 DEF MuxInv, OnOneMux
  <2>2. ~dsh_ready' => ~ws_ready'
    BY <1>1, <2>1 DEF DshConnect
  <2> QED BY <1>1, <2>1, <2>2 DEF OnOneMux, FollowsAreOpen, SubscribedOnThisMux
<1> QED BY <1>1, <1>2, <1>3 DEF MuxInv

LEMMA NextMux == TypeOK /\ MuxInv /\ [Next]_vars => MuxInv'
<1> SUFFICES ASSUME TypeOK, MuxInv, [Next]_vars PROVE MuxInv'
  OBVIOUS
<1>1. CASE Quiet \/ LoseRelay
  <2>1. UNCHANGED <<running, stops, dsh_ready, mux, feeds, ids>>
    BY <1>1 DEF Quiet, Turn, SkipRelay, SkipDsh, SkipMux, SkipList, SelectIdle, PumpIdle, LoseRelay, Goto
  <2>2. CASE pc' # "off" <=> pc # "off"
    BY <2>1, <2>2, CalmKeepsMux DEF Waiting
  <2>3. CASE ~(pc' # "off" <=> pc # "off")
    <3>1. ~running /\ pc # "off"
      BY <1>1, <2>3 DEF Quiet, Turn, SkipRelay, SkipDsh, SkipMux, SkipList, SelectIdle, PumpIdle,
                       LoseRelay, Goto
    <3>2. stops # 0
      BY <3>1 DEF MuxInv, OnOneMux
    <3>3. Numbered'
      BY <2>1, SameNumbers DEF MuxInv
    <3> QED BY <2>1, <3>2, <3>3 DEF MuxInv
  <2> QED BY <2>2, <2>3
<1>2. CASE RelayConnect
  <2>1. /\ UNCHANGED <<running, stops, dsh_ready, ws_ready, muxUp, muxFirst, frames, stream, next_stream_num>>
        /\ follows' = {} /\ pc # "off" /\ pc' # "off"
    BY <1>2 DEF RelayConnect, FreshFollows, Goto
  <2>2. \A x \in Feeds : subscribed'[x] => subscribed[x]
    BY <1>2 DEF RelayConnect, TypeOK
  <2> QED BY <2>1, <2>2, CalmKeepsMux
<1>3. CASE Greet \/ PollList
  BY <1>3, MirrorKeepsMux DEF Greet, PollList, Goto
<1>4. CASE ConnectDsh
  <2>1. /\ ~dsh_ready /\ DshConnect /\ pc = "dsh" /\ pc' = "mux"
        /\ UNCHANGED <<running, stops, stream, subscribed, follows, next_stream_num>>
    BY <1>4 DEF ConnectDsh, Goto
  <2>2. Numbered'
    BY <2>1, SameNumbers DEF MuxInv, DshConnect, FreshMux
  <2>3. CASE stops = 0
    <3>1. ~ws_ready /\ running
      BY <2>1, <2>3 DEF MuxInv, OnOneMux
    <3>2. PICK up \in BOOLEAN : FreshMux(up) /\ dsh_ready' = TRUE
      BY <2>1 DEF DshConnect
    <3> QED BY <2>1, <3>1, <3>2, FreshKeepsMux
  <2> QED BY <2>1, <2>2, <2>3 DEF MuxInv
<1>5. CASE PumpDrop
  BY <1>5, DropKeepsMux DEF PumpDrop, Goto
<1>6. CASE UNCHANGED vars
  BY <1>6, CalmKeepsMux DEF vars, Waiting
<1> QED BY <1>1, <1>2, <1>3, <1>4, <1>5, <1>6, StepCases, SubscribeFeedsKeepsMux, ReopenMuxKeepsMux,
        ServeRefreshKeepsMux, ServeSubscribeKeepsMux, ServeUnsubscribeKeepsMux, PumpFrameKeepsMux,
        OutsideKeepsMux, StopKeepsMux, StartKeepsMux

\* Until the user disconnects for the first time, and whatever breaks in between: while
\* the mux is up every slot of the follow table is a stream dsh has open, or one whose
\* end is to be read (pump_mux, mirror_session_list and start_follow).
THEOREM FollowsStayOpen == Spec => [](stops = 0 => FollowsAreOpen)
<1>1. MuxInv => (stops = 0 => FollowsAreOpen)
  BY DEF MuxInv, OnOneMux
<1> QED BY <1>1, InitTypes, NextTypes, InitMux, NextMux, PTL DEF Spec

\* Until the user disconnects for the first time: a feed marked subscribed was opened on
\* the mux in use, so that none is thought to be there that is not (subscribe_control,
\* subscribe_workspace, subscribe_events and the resets of their flags).
THEOREM FeedsOfThisMux == Spec => [](stops = 0 => SubscribedOnThisMux)
<1>1. MuxInv => (stops = 0 => SubscribedOnThisMux)
  BY DEF MuxInv, OnOneMux
<1> QED BY <1>1, InitTypes, NextTypes, InitMux, NextMux, PTL DEF Spec
=============================================================================
