------------------------- MODULE RelayServerProofs -------------------------
(***************************************************************************)
(* What holds of the relay hub for any number of connections, devices,     *)
(* frames and requests: its types, that no pending entry outlives the      *)
(* client it points at, that a client is never answered twice, that the    *)
(* clients show the senders that are connected, that a client which has    *)
(* caught up has no gap, and that its session lists never go back.         *)
(***************************************************************************)
EXTENDS RelayServer, RelayHost, SequenceTheorems, TLAPS

-----------------------------------------------------------------------------
\* Types.

USE DEF registry, streams, routing

LEMMA InitTypes == Init => TypeOK
BY ServerAssumption DEF Init, TypeOK, Stages, Live, Conn, Empty, Nothing, Slots, Serials

LEMMA RegisterTypes == \A p \in Conn : TypeOK /\ Register(p) => TypeOK'
BY ServerAssumption DEF Register, TypeOK, Stages, Live, Conn

LEMMA BroadcastTypes == \A gone : TypeOK /\ BroadcastRoster(gone) =>
  /\ closing' \subseteq Conn
  /\ roster' \in [Clients -> SUBSET [src : Nat, id : Devices \cup {Unnamed}]]
<1> SUFFICES ASSUME NEW gone, TypeOK, BroadcastRoster(gone)
             PROVE  /\ closing' \subseteq Conn
                    /\ roster' \in [Clients -> SUBSET [src : Nat, id : Devices \cup {Unnamed}]]
  OBVIOUS
<1>1. DeviceList \in SUBSET [src : Nat, id : Devices \cup {Unnamed}]
  BY ServerAssumption DEF DeviceList, Online, TypeOK, Conn
<1> QED BY <1>1 DEF BroadcastRoster, TypeOK, Audience, Conn

LEMMA AnnounceTypes == \A s \in Senders : TypeOK /\ Announce(s) => TypeOK'
BY BroadcastTypes DEF Announce, AfterMessage, TypeOK, Stages, Live, Conn

LEMMA IdentifyTypes ==
  \A s \in Senders, d \in Devices : TypeOK /\ Identify(s, d) => TypeOK'
BY DEF Identify, TypeOK, Stages, Live, Conn

LEMMA RefreshTypes == \A c \in Clients : TypeOK /\ RefreshRoster(c) => TypeOK'
<1> SUFFICES ASSUME NEW c \in Clients, TypeOK, RefreshRoster(c) PROVE TypeOK'
  OBVIOUS
<1>1. DeviceList \in SUBSET [src : Nat, id : Devices \cup {Unnamed}]
  BY ServerAssumption DEF DeviceList, Online, TypeOK, Conn
<1> QED BY <1>1 DEF RefreshRoster, AfterMessage, TypeOK, Stages, Live, Conn

LEMMA PingTypes == \A p \in Conn : TypeOK /\ Ping(p) => TypeOK'
BY DEF Ping, AfterMessage, TypeOK, Stages, Live, Conn

LEMMA StoreTypes ==
  \A s \in Senders, kind \in Kinds : TypeOK /\ Store(s, kind) => TypeOK'
<1> SUFFICES ASSUME NEW s \in Senders, NEW kind \in Kinds, TypeOK, Store(s, kind)
             PROVE  TypeOK'
  OBVIOUS
<1> DEFINE f == [kind |-> kind, n |-> Len(log[s]) + 1]
           slot == SlotOf(kind)
<1>1. f \in Frame
  BY ServerAssumption DEF TypeOK, Frame
<1>2. slot \in Slots
  BY DEF SlotOf, Slots
<1>3. Push(kept[s][slot], f, Capacity(slot)) \in Seq(Frame)
  <2>1. kept[s][slot] \in Seq(Frame) /\ Capacity(slot) \in Nat \ {0}
    BY <1>2, ServerAssumption DEF TypeOK, Capacity
  <2>2. CASE Len(kept[s][slot]) < Capacity(slot)
    BY <2>1, <2>2, <1>1 DEF Push
  <2>3. CASE ~(Len(kept[s][slot]) < Capacity(slot))
    <3>1. kept[s][slot] # <<>>
      BY <2>1, <2>3
    <3> QED BY <2>1, <2>3, <3>1, <1>1 DEF Push
  <2> QED BY <2>2, <2>3
<1> HIDE DEF f, slot
<1>4. /\ kept' = [kept EXCEPT ![s][slot] = Push(@, f, Capacity(slot))]
      /\ log' = [log EXCEPT ![s] = Append(@, f)]
      /\ hand' = [hand EXCEPT ![s] = <<f>>]
  BY DEF Store, f, slot
<1>5. kept' \in [Senders -> [Slots -> Seq(Frame)]]
  BY <1>2, <1>3, <1>4 DEF TypeOK
<1>6. log' \in [Senders -> Seq(Frame)] /\ hand' \in [Senders -> Seq(Frame)]
  BY <1>1, <1>4 DEF TypeOK
<1>7. stage' \in [Conn -> Stages]
  BY DEF Store, TypeOK, Stages, Live, Conn
<1> QED BY <1>5, <1>6, <1>7 DEF Store, TypeOK

\* A sender between its two regions has the message in hand.
HandHeld == \A s \in Senders : stage[s] = "stored" => hand[s] # <<>>

LEMMA CastTypes == \A s \in Senders : TypeOK /\ HandHeld /\ Cast(s) => TypeOK'
<1> SUFFICES ASSUME NEW s \in Senders, TypeOK, HandHeld, Cast(s) PROVE TypeOK'
  OBVIOUS
<1> DEFINE f == Head(hand[s])
           d == [frame |-> f, nested |-> FALSE]
           L == [device : Devices \cup {Unnamed}, src : Nat, n : Nat]
<1>1. f \in Frame /\ d \in Delivery
  <2>1. hand[s] \in Seq(Frame) /\ hand[s] # <<>>
    BY DEF TypeOK, HandHeld, Cast
  <2> QED BY <2>1 DEF Delivery
<1>2. SessionList(s, f) \in L
  BY <1>1, ServerAssumption DEF SessionList, TypeOK, Frame, Conn
<1> HIDE DEF f, d, L
<1>3. PICK failed \in SUBSET Audience :
        /\ closing' = closing \cup failed
        /\ got' = [c \in Clients |->
                     IF c \in Audience \ failed
                     THEN [got[c] EXCEPT ![serial[s]] = Append(@, d)]
                     ELSE got[c]]
        /\ shown' = [c \in Clients |->
                       IF c \in Audience \ failed /\ f.kind = "sessions"
                       THEN ShowLists(shown[c], {SessionList(s, f)})
                       ELSE shown[c]]
  BY DEF Cast, f, d
<1>4. closing' \subseteq Conn
  BY <1>3 DEF TypeOK, Audience, Conn
<1>5. got' \in [Clients -> [Serials -> Seq(Delivery)]]
  <2>1. ASSUME NEW c \in Clients
        PROVE  [got[c] EXCEPT ![serial[s]] = Append(@, d)] \in [Serials -> Seq(Delivery)]
    <3>1. got[c] \in [Serials -> Seq(Delivery)]
      BY DEF TypeOK
    <3>2. \A k \in Serials : Append(got[c][k], d) \in Seq(Delivery)
      BY <3>1, <1>1
    <3> QED BY <3>1, <3>2
  <2>2. \A c \in Clients : got[c] \in [Serials -> Seq(Delivery)]
    BY DEF TypeOK
  <2> QED BY <2>1, <2>2, <1>3
<1>6. shown' \in [Clients -> SUBSET L]
  <2>1. \A c \in Clients : shown[c] \subseteq L
    BY DEF TypeOK, L
  <2> QED BY <2>1, <1>2, <1>3 DEF ShowLists
<1>7. stage' \in [Conn -> Stages] /\ hand' \in [Senders -> Seq(Frame)]
  BY DEF Cast, AfterMessage, TypeOK, Stages, Live, Conn
<1> QED BY <1>4, <1>5, <1>6, <1>7 DEF Cast, TypeOK, L

LEMMA WrapTypes ==
  ASSUME NEW q \in Seq(Frame), NEW nested \in BOOLEAN
  PROVE  Wrap(q, nested) \in Seq(Delivery) /\ Len(Wrap(q, nested)) = Len(q)
BY DEF Wrap, Delivery

LEMMA BacklogTypes ==
  ASSUME TypeOK, NEW s \in Senders
  PROVE  Backlog(s) \in Seq(Delivery)
<1>1. /\ kept[s]["sessions"] \in Seq(Frame)
      /\ kept[s]["state"] \in Seq(Frame)
      /\ kept[s]["replay"] \in Seq(Frame)
  BY DEF TypeOK, Slots
<1> QED BY <1>1, WrapTypes, ConcatProperties DEF Backlog

LEMMA CatchUpTypes == \A c \in Clients : TypeOK /\ CatchUp(c) => TypeOK'
<1> SUFFICES ASSUME NEW c \in Clients, TypeOK, CatchUp(c) PROVE TypeOK'
  OBVIOUS
<1> DEFINE L == [device : Devices \cup {Unnamed}, src : Nat, n : Nat]
           R == [src : Nat, id : Devices \cup {Unnamed}]
           Lists(reach) == {s \in Online : reach[s] > 0 /\ kept[s]["sessions"] # <<>>}
           Final(reach) == {s \in Lists(reach) : \A t \in Lists(reach) :
                              device[t] = device[s] => serial[s] <= serial[t]}
<1>1. PICK reach \in Reach, listed \in BOOLEAN :
        /\ WalkUpTo(reach)
        /\ closing' \in {closing, closing \cup {c}}
        /\ roster' = [roster EXCEPT ![c] = IF listed THEN DeviceList ELSE @]
        /\ got' = [got EXCEPT ![c] = [k \in Serials |->
                     IF \E s \in Online : serial[s] = k
                     THEN got[c][k] \o SubSeq(Backlog(CHOOSE s \in Online : serial[s] = k),
                                              1, reach[CHOOSE s \in Online : serial[s] = k])
                     ELSE got[c][k]]]
        /\ shown' = [shown EXCEPT ![c] = ShowLists(@,
                       {SessionList(s, Head(kept[s]["sessions"])) : s \in Final(reach)})]
  BY DEF CatchUp
<1>2. roster' \in [Clients -> SUBSET R]
  <2>1. DeviceList \in SUBSET R
    BY ServerAssumption DEF DeviceList, Online, TypeOK, Conn
  <2> QED BY <1>1, <2>1 DEF TypeOK
<1>3. got' \in [Clients -> [Serials -> Seq(Delivery)]]
  <2>1. got[c] \in [Serials -> Seq(Delivery)]
    BY DEF TypeOK
  <2>2. ASSUME NEW k \in Serials, NEW s \in Online
        PROVE  got[c][k] \o SubSeq(Backlog(s), 1, reach[s]) \in Seq(Delivery)
    <3>1. Backlog(s) \in Seq(Delivery) /\ reach[s] \in Nat /\ reach[s] <= Len(Backlog(s))
      BY <1>1, BacklogTypes, ServerAssumption DEF Online, WalkUpTo, Reach
    <3>2. SubSeq(Backlog(s), 1, reach[s]) \in Seq(Delivery)
      BY <3>1
    <3> QED BY <2>1, <3>2, ConcatProperties
  <2>3. ASSUME NEW k \in Serials, \E s \in Online : serial[s] = k
        PROVE  (CHOOSE s \in Online : serial[s] = k) \in Online
    BY <2>3
  <2> QED BY <1>1, <2>1, <2>2, <2>3 DEF TypeOK
<1>4. shown' \in [Clients -> SUBSET L]
  <2>1. ASSUME NEW s \in Final(reach)
        PROVE  SessionList(s, Head(kept[s]["sessions"])) \in L
    <3>1. s \in Senders /\ kept[s]["sessions"] # <<>>
      BY DEF Online
    <3>2. Head(kept[s]["sessions"]) \in Frame
      BY <3>1 DEF TypeOK, Slots
    <3> QED BY <3>1, <3>2, ServerAssumption DEF SessionList, TypeOK, Frame, Conn
  <2>2. {SessionList(s, Head(kept[s]["sessions"])) : s \in Final(reach)} \subseteq L
    BY <2>1
  <2>3. shown[c] \subseteq L
    BY DEF TypeOK
  <2> HIDE DEF Final
  <2> QED BY <1>1, <2>2, <2>3 DEF TypeOK, ShowLists
<1>5. closing' \subseteq Conn
  BY <1>1 DEF TypeOK, Conn
<1>6. pending' \subseteq Entry /\ stage' \in [Conn -> Stages]
  BY DEF CatchUp, TypeOK, Stages, Live, Conn
<1> QED BY <1>2, <1>3, <1>4, <1>5, <1>6 DEF CatchUp, TypeOK

LEMMA RequestTypes ==
  \A c \in Clients, d \in Devices \cup {AnyDevice} : TypeOK /\ Request(c, d) => TypeOK'
<1> SUFFICES ASSUME NEW c \in Clients, NEW d \in Devices \cup {AnyDevice},
                    TypeOK, Request(c, d)
             PROVE  TypeOK'
  OBVIOUS
<1> DEFINE r == [id |-> asked[c] + 1, stamp |-> requests + 1]
<1>1. r \in Call /\ r.id \in Nat /\ r.stamp \in Nat /\ serial[c] \in Nat
  BY ServerAssumption DEF TypeOK, Call, Conn
<1>2. /\ requests' = r.stamp
      /\ asked' = [asked EXCEPT ![c] = r.id]
      /\ Refuse(c, r) \/ \E s \in Senders : Forward(c, s, r)
      /\ AfterMessage(c)
      /\ UNCHANGED <<serial, nextId, device, kept, hand, log, got, shown, roster>>
  BY DEF Request
<1> HIDE DEF r
<1>3. /\ closing' \subseteq Conn
      /\ pending' \subseteq Entry
      /\ todo' \in [Senders -> Seq(Call)]
      /\ answers' \in [Clients -> Seq(Call)]
  <2>1. \A s \in Senders : Append(todo[s], r) \in Seq(Call)
    BY <1>1 DEF TypeOK
  <2>2. Append(answers[c], r) \in Seq(Call)
    BY <1>1 DEF TypeOK
  <2>3. /\ closing \subseteq Conn /\ pending \subseteq Entry /\ c \in Conn
        /\ todo \in [Senders -> Seq(Call)] /\ answers \in [Clients -> Seq(Call)]
    BY DEF TypeOK, Conn
  <2>4. CASE Refuse(c, r)
    BY <2>2, <2>3, <2>4 DEF Refuse
  <2>5. CASE \E s \in Senders : Forward(c, s, r)
    <3>1. PICK s \in Senders : Forward(c, s, r)
      BY <2>5
    <3>2. [id |-> r.id, client |-> c, born |-> serial[c], stamp |-> r.stamp] \in Entry
      BY <1>1 DEF Entry
    <3>3. closing' \subseteq Conn /\ pending' \subseteq Entry
      BY <2>3, <3>1, <3>2 DEF Forward, Conn
    <3> QED BY <2>1, <2>3, <3>1, <3>3 DEF Forward
  <2> QED BY <2>4, <2>5, <1>2
<1>4. stage' \in [Conn -> Stages] /\ requests' \in Nat /\ asked' \in [Clients -> Nat]
  BY <1>1, <1>2 DEF AfterMessage, TypeOK, Stages, Live, Conn
<1> QED BY <1>2, <1>3, <1>4 DEF TypeOK

LEMMA AnswerTypes == \A s \in Senders : TypeOK /\ Answer(s) => TypeOK'
<1> SUFFICES ASSUME NEW s \in Senders, TypeOK, Answer(s) PROVE TypeOK'
  OBVIOUS
<1> DEFINE r == Head(todo[s])
<1>1. todo[s] \in Seq(Call) /\ todo[s] # <<>>
  BY DEF Answer, TypeOK
<1>2. r \in Call /\ Tail(todo[s]) \in Seq(Call)
  BY <1>1, HeadTailProperties
<1>3. todo' \in [Senders -> Seq(Call)]
  BY <1>2 DEF Answer, TypeOK
<1>4. /\ closing' \subseteq Conn
      /\ pending' \subseteq Entry
  <2>1. \A e \in pending : e.client \in Conn
    BY DEF TypeOK, Entry, Conn
  <2> QED BY <2>1 DEF Answer, Without, TypeOK
<1>5. answers' \in [Clients -> Seq(Call)]
  <2> HIDE DEF r
  <2>1. \A c \in Clients : Append(answers[c], r) \in Seq(Call)
    BY <1>2 DEF TypeOK
  <2>2. \/ answers' = answers
        \/ \E e \in pending : answers' = [answers EXCEPT ![e.client] = Append(@, r)]
    BY DEF Answer, r
  <2>3. \A e \in pending : e.client \in Clients
    BY DEF TypeOK, Entry
  <2>4. answers \in [Clients -> Seq(Call)]
    BY DEF TypeOK
  <2> QED BY <2>1, <2>2, <2>3, <2>4
<1>6. stage' \in [Conn -> Stages]
  BY DEF Answer, AfterMessage, TypeOK, Stages, Live, Conn
<1> QED BY <1>3, <1>4, <1>5, <1>6 DEF Answer, TypeOK

LEMMA EndTypes ==
  \A p \in Conn : TypeOK /\ (Drop(p) \/ Unlink(p) \/ Forget(p)) => TypeOK'
BY DEF Drop, Unlink, Forget, TypeOK, Stages, Live, Conn

LEMMA RetireClientTypes == \A c \in Clients : TypeOK /\ RetireClient(c) => TypeOK'
BY ServerAssumption DEF RetireClient, Free, Nothing, TypeOK, Stages, Live, Conn

LEMMA RetireSenderTypes == \A s \in Senders : TypeOK /\ RetireSender(s) => TypeOK'
<1> SUFFICES ASSUME NEW s \in Senders, TypeOK, RetireSender(s) PROVE TypeOK'
  OBVIOUS
<1>1. /\ closing' \subseteq Conn
      /\ roster' \in [Clients -> SUBSET [src : Nat, id : Devices \cup {Unnamed}]]
  BY BroadcastTypes DEF RetireSender
<1>2. stage' \in [Conn -> Stages] /\ serial' \in [Conn -> 0 .. MaxConnections]
  BY ServerAssumption DEF RetireSender, Free, TypeOK, Stages, Live, Conn
<1> QED BY <1>1, <1>2 DEF RetireSender, Empty, TypeOK

LEMMA StepHand == TypeOK /\ HandHeld /\ [Next]_vars => HandHeld'
<1> SUFFICES ASSUME TypeOK, HandHeld, [Next]_vars, NEW s \in Senders,
                    stage'[s] = "stored"
             PROVE  hand'[s] # <<>>
  BY DEF HandHeld
<1> USE DEF HandHeld, TypeOK, Conn
<1>1. ASSUME NEW t \in Senders, SenderNext(t) PROVE hand'[s] # <<>>
  <2>1. CASE Announce(t)
    BY <2>1 DEF Announce, AfterMessage
  <2>2. CASE \E d \in Devices : Identify(t, d)
    BY <2>2 DEF Identify
  <2>3. CASE \E kind \in Kinds : Store(t, kind)
    BY <2>3 DEF Store
  <2>4. CASE Cast(t)
    BY <2>4 DEF Cast, AfterMessage
  <2>5. CASE Answer(t)
    BY <2>5 DEF Answer, AfterMessage
  <2>6. CASE RetireSender(t)
    BY <2>6 DEF RetireSender, Free
  <2> QED BY <1>1, <2>1, <2>2, <2>3, <2>4, <2>5, <2>6 DEF SenderNext
<1>2. ASSUME NEW c \in Clients, ClientNext(c) PROVE hand'[s] # <<>>
  <2>1. CASE CatchUp(c)
    BY <2>1 DEF CatchUp
  <2>2. CASE RefreshRoster(c)
    BY <2>2 DEF RefreshRoster, AfterMessage
  <2>3. CASE \E d \in Devices \cup {AnyDevice} : Request(c, d)
    BY <2>3 DEF Request, AfterMessage
  <2>4. CASE RetireClient(c)
    BY <2>4 DEF RetireClient, Free
  <2> QED BY <1>2, <2>1, <2>2, <2>3, <2>4 DEF ClientNext
<1>3. ASSUME NEW p \in Conn, ConnNext(p) PROVE hand'[s] # <<>>
  BY <1>3 DEF ConnNext, Register, Ping, AfterMessage, Drop, Unlink, Forget
<1>4. CASE UNCHANGED vars
  BY <1>4 DEF vars
<1> QED BY <1>1, <1>2, <1>3, <1>4 DEF Next

TypeInv == TypeOK /\ HandHeld

LEMMA InitTypeInv == Init => TypeInv
<1>1. Init => HandHeld
  BY DEF Init, HandHeld, Conn
<1> QED BY <1>1, InitTypes DEF TypeInv

LEMMA StepTypeInv == TypeInv /\ [Next]_vars => TypeInv'
<1> SUFFICES ASSUME TypeOK, HandHeld, [Next]_vars PROVE TypeOK'
  BY StepHand DEF TypeInv
<1>1. ASSUME NEW s \in Senders, SenderNext(s) PROVE TypeOK'
  BY <1>1, AnnounceTypes, IdentifyTypes, StoreTypes, CastTypes, AnswerTypes,
     RetireSenderTypes DEF SenderNext
<1>2. ASSUME NEW c \in Clients, ClientNext(c) PROVE TypeOK'
  BY <1>2, CatchUpTypes, RefreshTypes, RequestTypes, RetireClientTypes DEF ClientNext
<1>3. ASSUME NEW p \in Conn, ConnNext(p) PROVE TypeOK'
  BY <1>3, RegisterTypes, PingTypes, EndTypes DEF ConnNext
<1>4. CASE UNCHANGED vars
  BY <1>4 DEF vars, TypeOK
<1> QED BY <1>1, <1>2, <1>3, <1>4 DEF Next

\* Every variable of the hub stays within its type, for any instance.
THEOREM ServerTypes == Spec => []TypeOK
<1>1. TypeInv => TypeOK
  BY DEF TypeInv
<1> QED BY <1>1, InitTypeInv, StepTypeInv, PTL DEF Spec

-----------------------------------------------------------------------------
\* Pending entries.

\* A step that adds no entry, frees no client and moves none past its Forget.
Harmless == /\ pending' \subseteq pending
            /\ serial' = serial
            /\ \A c \in Clients : stage'[c] \in {"absent", "forgotten"}
                                    => stage'[c] = stage[c]

LEMMA HarmlessKeepsSafe == TypeOK /\ PendingSafe /\ Harmless => PendingSafe'
<1> SUFFICES ASSUME TypeOK, PendingSafe, Harmless, NEW e \in pending'
             PROVE  /\ stage'[e.client] \notin {"absent", "forgotten"}
                    /\ serial'[e.client] = e.born
  BY DEF PendingSafe
<1>1. e \in pending /\ e.client \in Clients
  BY DEF Harmless, TypeOK, Entry
<1> QED BY <1>1 DEF PendingSafe, Harmless

LEMMA StepPending == TypeOK /\ PendingSafe /\ [Next]_vars => PendingSafe'
<1> SUFFICES ASSUME TypeOK, PendingSafe, [Next]_vars PROVE PendingSafe'
  OBVIOUS
<1> USE DEF Conn
<1>0. /\ stage \in [Conn -> Stages]
      /\ serial \in [Conn -> 0 .. MaxConnections]
      /\ \A e \in pending : e.client \in Clients
  BY DEF TypeOK, Entry
<1>1. ASSUME NEW s \in Senders, SenderNext(s) PROVE PendingSafe'
  <2>1. CASE RetireSender(s)
    <3>1. s \notin Clients
      BY ServerAssumption
    <3> QED BY <2>1, <3>1, <1>0 DEF RetireSender, Free, PendingSafe
  <2>2. CASE ~RetireSender(s)
    <3>1. CASE Announce(s)
      BY <3>1, <1>0, HarmlessKeepsSafe DEF Announce, AfterMessage, Harmless
    <3>2. CASE \E d \in Devices : Identify(s, d)
      BY <3>2, <1>0, HarmlessKeepsSafe DEF Identify, Harmless
    <3>3. CASE \E kind \in Kinds : Store(s, kind)
      BY <3>3, <1>0, HarmlessKeepsSafe DEF Store, Harmless
    <3>4. CASE Cast(s)
      BY <3>4, <1>0, HarmlessKeepsSafe DEF Cast, AfterMessage, Harmless
    <3>5. CASE Answer(s)
      BY <3>5, <1>0, HarmlessKeepsSafe DEF Answer, AfterMessage, Without, Harmless
    <3> QED BY <1>1, <2>2, <3>1, <3>2, <3>3, <3>4, <3>5 DEF SenderNext
  <2> QED BY <2>1, <2>2
<1>2. ASSUME NEW c \in Clients, ClientNext(c) PROVE PendingSafe'
  <2>1. CASE CatchUp(c)
    BY <2>1, <1>0, HarmlessKeepsSafe DEF CatchUp, Harmless
  <2>2. CASE RefreshRoster(c)
    BY <2>2, <1>0, HarmlessKeepsSafe DEF RefreshRoster, AfterMessage, Harmless
  <2>3. ASSUME NEW d \in Devices \cup {AnyDevice}, Request(c, d) PROVE PendingSafe'
    <3>1. /\ stage[c] = "serving"
          /\ serial' = serial
          /\ stage' = [stage EXCEPT ![c] = IF c \in closing' THEN "leaving" ELSE "serving"]
          /\ \A e \in pending' : e \in pending \/ (e.client = c /\ e.born = serial[c])
      BY <2>3 DEF Request, AfterMessage, Refuse, Forward
    <3> QED BY <3>1, <1>0 DEF PendingSafe
  <2>4. CASE RetireClient(c)
    <3>1. \A e \in pending : e.client # c
      BY <2>4 DEF RetireClient, PendingSafe
    <3> QED BY <2>4, <3>1, <1>0 DEF RetireClient, Free, PendingSafe
  <2> QED BY <1>2, <2>1, <2>2, <2>3, <2>4 DEF ClientNext
<1>3. ASSUME NEW p \in Conn, ConnNext(p) PROVE PendingSafe'
  <2>1. CASE Register(p)
    <3>1. \A e \in pending : e.client # p
      BY <2>1 DEF Register, PendingSafe
    <3> QED BY <2>1, <3>1, <1>0 DEF Register, PendingSafe
  <2>2. CASE Ping(p) \/ Drop(p) \/ Unlink(p)
    BY <2>2, <1>0, HarmlessKeepsSafe DEF Ping, AfterMessage, Drop, Unlink, Harmless
  <2>3. CASE Forget(p)
    BY <2>3, <1>0 DEF Forget, PendingSafe
  <2> QED BY <1>3, <2>1, <2>2, <2>3 DEF ConnNext
<1>4. CASE UNCHANGED vars
  BY <1>4 DEF vars, PendingSafe
<1> QED BY <1>1, <1>2, <1>3, <1>4 DEF Next

\* No pending entry outlives its client: whatever the interleaving, an answer is
\* never delivered through a pointer to a freed peer.
THEOREM PendingNeverDangles == Spec => []PendingSafe
<1>1. Init => PendingSafe
  BY DEF Init, PendingSafe
<1>2. TypeInv => TypeOK
  BY DEF TypeInv
<1> QED BY <1>1, <1>2, InitTypeInv, StepTypeInv, StepPending, PTL DEF Spec

-----------------------------------------------------------------------------
\* One answer for one id.  The entries of a client have ids it has used, no two
\* the same, and none that was answered already.
OneEntryPerId ==
  \A e \in pending :
    /\ e.id \in 1 .. asked[e.client]
    /\ \A i \in 1 .. Len(answers[e.client]) : answers[e.client][i].id # e.id
    /\ \A x \in pending : (x.client = e.client /\ x.id = e.id) => x = e

AnswerInv == AtMostOneAnswer /\ OneEntryPerId

LEMMA CalmKeepsAnswers ==
  ASSUME AnswerInv, pending' \subseteq pending, asked' = asked, answers' = answers
  PROVE  AnswerInv'
BY DEF AnswerInv, AtMostOneAnswer, OneEntryPerId

\* The client gets one more answer, with an id that no entry of it has left.
LEMMA DeliverKeepsAnswers ==
  ASSUME TypeOK, AnswerInv,
         NEW c \in Clients, NEW r \in Call,
         answers' = [answers EXCEPT ![c] = Append(@, r)],
         r.id \in 1 .. asked'[c],
         \A i \in 1 .. Len(answers[c]) : answers[c][i].id # r.id,
         \A b \in Clients : asked'[b] >= asked[b],
         asked' \in [Clients -> Nat],
         pending' \subseteq pending,
         \A e \in pending' : e.client = c => e.id # r.id
  PROVE  AnswerInv'
<1> DEFINE q == answers[c]
<1>1. q \in Seq(Call) /\ answers \in [Clients -> Seq(Call)] /\ asked \in [Clients -> Nat]
  BY DEF TypeOK
<1>2. /\ Len(Append(q, r)) = Len(q) + 1
      /\ \A i \in 1 .. Len(q) : Append(q, r)[i] = q[i]
      /\ Append(q, r)[Len(q) + 1] = r
  BY <1>1
<1>3. \A i \in 1 .. Len(q) : q[i].id \in 1 .. asked[c]
  BY <1>1 DEF AnswerInv, AtMostOneAnswer
<1>4. \A b \in Clients : answers'[b] = IF b = c THEN Append(q, r) ELSE answers[b]
  BY <1>1
<1>5. \A e \in pending : e.client \in Clients
  BY DEF TypeOK, Entry
<1> HIDE DEF q
<1>6. \A i, j \in 1 .. Len(q) : i # j => q[i].id # q[j].id
  BY DEF AnswerInv, AtMostOneAnswer, q
<1>7. AtMostOneAnswer'
  <2>1. ASSUME NEW i \in 1 .. Len(q) + 1, NEW j \in 1 .. Len(q) + 1
        PROVE  /\ Append(q, r)[i].id \in 1 .. asked'[c]
               /\ i # j => Append(q, r)[i].id # Append(q, r)[j].id
    <3>1. asked[c] \in Nat /\ asked'[c] \in Nat /\ asked'[c] >= asked[c] /\ Len(q) \in Nat
      BY <1>1
    <3>2. CASE i = Len(q) + 1
      BY <3>1, <3>2, <1>2 DEF q
    <3>3. CASE i \in 1 .. Len(q)
      BY <3>1, <3>3, <1>2, <1>3, <1>6 DEF q
    <3> QED BY <3>1, <3>2, <3>3
  <2>2. ASSUME NEW b \in Clients, b # c, NEW i \in 1 .. Len(answers[b]),
               NEW j \in 1 .. Len(answers[b])
        PROVE  /\ answers[b][i].id \in 1 .. asked'[b]
               /\ i # j => answers[b][i].id # answers[b][j].id
    BY <2>2, <1>1 DEF AnswerInv, AtMostOneAnswer
  <2>3. ASSUME NEW b \in Clients, NEW i \in 1 .. Len(answers'[b]),
               NEW j \in 1 .. Len(answers'[b])
        PROVE  /\ answers'[b][i].id \in 1 .. asked'[b]
               /\ i # j => answers'[b][i].id # answers'[b][j].id
    <3>1. CASE b = c
      <4>1. answers'[b] = Append(q, r)
        BY <3>1, <1>4
      <4>2. i \in 1 .. Len(q) + 1 /\ j \in 1 .. Len(q) + 1
        BY <4>1, <1>2
      <4> QED BY <3>1, <4>1, <4>2, <2>1
    <3>2. CASE b # c
      <4>1. answers'[b] = answers[b]
        BY <3>2, <1>4
      <4> QED BY <3>2, <4>1, <2>2
    <3> QED BY <3>1, <3>2
  <2> QED BY <2>3 DEF AtMostOneAnswer
<1>8. OneEntryPerId'
  <2> SUFFICES ASSUME NEW e \in pending'
               PROVE  /\ e.id \in 1 .. asked'[e.client]
                      /\ \A i \in 1 .. Len(answers'[e.client]) :
                            answers'[e.client][i].id # e.id
                      /\ \A x \in pending' : (x.client = e.client /\ x.id = e.id) => x = e
    BY DEF OneEntryPerId
  <2>1. /\ e \in pending /\ e.client \in Clients
        /\ e.id \in 1 .. asked[e.client]
        /\ \A i \in 1 .. Len(answers[e.client]) : answers[e.client][i].id # e.id
        /\ \A x \in pending : (x.client = e.client /\ x.id = e.id) => x = e
    BY <1>5 DEF AnswerInv, OneEntryPerId
  <2>2. e.id \in 1 .. asked'[e.client]
    BY <2>1, <1>1
  <2>3. ASSUME e.client = c, NEW i \in 1 .. Len(q) + 1
        PROVE  Append(q, r)[i].id # e.id
    <3>1. Len(q) \in Nat
      BY <1>1 DEF q
    <3>2. CASE i = Len(q) + 1
      BY <3>2, <2>3, <1>2
    <3>3. CASE i \in 1 .. Len(q)
      BY <3>3, <2>1, <2>3, <1>2 DEF q
    <3> QED BY <3>1, <3>2, <3>3
  <2> QED BY <2>1, <2>2, <2>3, <1>2, <1>4
<1> QED BY <1>7, <1>8 DEF AnswerInv

LEMMA RequestKeepsAnswers ==
  ASSUME TypeOK, AnswerInv,
         NEW c \in Clients, NEW d \in Devices \cup {AnyDevice}, Request(c, d)
  PROVE  AnswerInv'
<1> DEFINE r == [id |-> asked[c] + 1, stamp |-> requests + 1]
<1>1. /\ r \in Call /\ r.id = asked[c] + 1 /\ r.id \in Nat
      /\ asked \in [Clients -> Nat] /\ answers \in [Clients -> Seq(Call)]
      /\ \A e \in pending : e.client \in Clients
  BY DEF TypeOK, Call, Entry
<1>2. /\ asked' = [asked EXCEPT ![c] = r.id]
      /\ Refuse(c, r) \/ \E s \in Senders : Forward(c, s, r)
  BY DEF Request
<1>3. \A i \in 1 .. Len(answers[c]) : answers[c][i].id \in 1 .. asked[c]
  BY DEF AnswerInv, AtMostOneAnswer
<1>4. \A e \in pending : e.client = c => e.id \in 1 .. asked[c]
  BY DEF AnswerInv, OneEntryPerId
<1> HIDE DEF r
<1>5. /\ asked' \in [Clients -> Nat]
      /\ asked'[c] = r.id
      /\ \A b \in Clients : asked'[b] >= asked[b]
  BY <1>1, <1>2
<1>6. \A b \in Clients : \A x \in 1 .. asked[b] : x \in 1 .. asked'[b]
  BY <1>1, <1>5
<1>7. r.id \notin 1 .. asked[c]
  BY <1>1
<1>8. ASSUME answers' = answers PROVE AtMostOneAnswer'
  BY <1>6, <1>8 DEF AnswerInv, AtMostOneAnswer
<1>9. ASSUME answers' = answers, pending' = pending PROVE OneEntryPerId'
  BY <1>1, <1>6, <1>9 DEF AnswerInv, OneEntryPerId
<1>10. CASE Refuse(c, r)
  <2>1. CASE answers' = answers
    BY <2>1, <1>8, <1>9, <1>10 DEF Refuse, AnswerInv
  <2>2. CASE answers' # answers
    <3>1. answers' = [answers EXCEPT ![c] = Append(@, r)] /\ pending' = pending
      BY <2>2, <1>10 DEF Refuse
    <3>2. r.id \in 1 .. asked'[c]
      BY <1>1, <1>5
    <3>3. /\ \A i \in 1 .. Len(answers[c]) : answers[c][i].id # r.id
          /\ \A e \in pending' : e.client = c => e.id # r.id
      BY <3>1, <1>3, <1>4, <1>7
    <3> QED BY <3>1, <3>2, <3>3, <1>1, <1>5, DeliverKeepsAnswers
  <2> QED BY <2>1, <2>2
<1>11. ASSUME NEW s \in Senders, Forward(c, s, r) PROVE AnswerInv'
  <2> DEFINE n == [id |-> r.id, client |-> c, born |-> serial[c], stamp |-> r.stamp]
  <2>1. answers' = answers /\ pending' = pending \cup {n} /\ n.id = r.id /\ n.client = c
    BY <1>11 DEF Forward
  <2> HIDE DEF n
  <2>2. ASSUME NEW e \in pending
        PROVE  /\ e.id \in 1 .. asked'[e.client]
               /\ \A i \in 1 .. Len(answers[e.client]) : answers[e.client][i].id # e.id
               /\ ~(e.client = c /\ e.id = r.id)
    BY <1>1, <1>4, <1>6, <1>7 DEF AnswerInv, OneEntryPerId
  <2>3. /\ n.id \in 1 .. asked'[n.client]
        /\ \A i \in 1 .. Len(answers[n.client]) : answers[n.client][i].id # n.id
    BY <2>1, <1>1, <1>3, <1>5, <1>7
  <2>4. \A e, x \in pending : (x.client = e.client /\ x.id = e.id) => x = e
    BY DEF AnswerInv, OneEntryPerId
  <2>5. OneEntryPerId'
    BY <2>1, <2>2, <2>3, <2>4 DEF OneEntryPerId
  <2> QED BY <2>1, <2>5, <1>8 DEF AnswerInv
<1> QED BY <1>2, <1>10, <1>11

LEMMA AnswerKeepsAnswers ==
  ASSUME TypeOK, AnswerInv, NEW s \in Senders, Answer(s)
  PROVE  AnswerInv'
<1> DEFINE r == Head(todo[s])
<1>1. /\ \A e \in pending : e.client \in Clients
      /\ asked \in [Clients -> Nat] /\ asked' = asked
      /\ todo[s] \in Seq(Call) /\ todo[s] # <<>>
  BY DEF Answer, TypeOK, Entry
<1>2. r \in Call
  BY <1>1, HeadTailProperties
<1>3. \/ pending' = pending /\ answers' = answers
      \/ \E e \in pending : /\ e.id = r.id
                            /\ pending' = pending \ {e}
                            /\ \/ answers' = answers
                               \/ answers' = [answers EXCEPT ![e.client] = Append(@, r)]
  BY DEF Answer, Without
<1> HIDE DEF r
<1>4. CASE answers' = answers
  <2>1. pending' \subseteq pending
    BY <1>3
  <2> QED BY <2>1, <1>1, <1>4, CalmKeepsAnswers
<1>5. CASE answers' # answers
  <2>1. PICK e \in pending : /\ e.id = r.id
                             /\ pending' = pending \ {e}
                             /\ answers' = [answers EXCEPT ![e.client] = Append(@, r)]
    BY <1>3, <1>5
  <2>2. PICK c \in Clients : c = e.client
    BY <1>1
  <2>3. answers' = [answers EXCEPT ![c] = Append(@, r)]
    BY <2>1, <2>2
  <2>4. /\ r.id \in 1 .. asked'[c]
        /\ \A i \in 1 .. Len(answers[c]) : answers[c][i].id # r.id
        /\ \A x \in pending' : x.client = c => x.id # r.id
    BY <2>1, <2>2, <1>1 DEF AnswerInv, OneEntryPerId
  <2>5. /\ \A b \in Clients : asked'[b] >= asked[b]
        /\ asked' \in [Clients -> Nat]
        /\ pending' \subseteq pending
    BY <1>1, <2>1
  <2> QED BY <1>2, <2>3, <2>4, <2>5, DeliverKeepsAnswers
<1> QED BY <1>4, <1>5

LEMMA RetireKeepsAnswers ==
  ASSUME TypeOK, PendingSafe, AnswerInv, NEW c \in Clients, RetireClient(c)
  PROVE  AnswerInv'
<1>1. /\ answers' = [answers EXCEPT ![c] = <<>>]
      /\ asked' = [asked EXCEPT ![c] = 0]
      /\ pending' = pending
      /\ answers \in [Clients -> Seq(Call)] /\ asked \in [Clients -> Nat]
      /\ \A e \in pending : e.client \in Clients
  BY DEF RetireClient, TypeOK, Entry
<1>2. \A e \in pending : e.client # c
  BY DEF RetireClient, PendingSafe
<1>3. \A b \in Clients : b # c => answers'[b] = answers[b] /\ asked'[b] = asked[b]
  BY <1>1
<1>4. answers'[c] = <<>>
  BY <1>1
<1>5. AtMostOneAnswer'
  BY <1>3, <1>4 DEF AnswerInv, AtMostOneAnswer
<1>6. OneEntryPerId'
  BY <1>1, <1>2, <1>3 DEF AnswerInv, OneEntryPerId
<1> QED BY <1>5, <1>6 DEF AnswerInv

LEMMA StepAnswers == TypeOK /\ PendingSafe /\ AnswerInv /\ [Next]_vars => AnswerInv'
<1> SUFFICES ASSUME TypeOK, PendingSafe, AnswerInv, [Next]_vars PROVE AnswerInv'
  OBVIOUS
<1> DEFINE Calm == pending' \subseteq pending /\ asked' = asked /\ answers' = answers
<1>1. ASSUME NEW s \in Senders, SenderNext(s) PROVE AnswerInv'
  <2>1. CASE Answer(s)
    BY <2>1, AnswerKeepsAnswers
  <2>2. CASE ~Answer(s)
    <3>1. Calm
      BY <1>1, <2>2 DEF SenderNext, Announce, Identify, Store, Cast, RetireSender
    <3> QED BY <3>1, CalmKeepsAnswers
  <2> QED BY <2>1, <2>2
<1>2. ASSUME NEW c \in Clients, ClientNext(c) PROVE AnswerInv'
  <2>1. ASSUME NEW d \in Devices \cup {AnyDevice}, Request(c, d) PROVE AnswerInv'
    BY <2>1, RequestKeepsAnswers
  <2>2. CASE RetireClient(c)
    BY <2>2, RetireKeepsAnswers
  <2>3. CASE CatchUp(c) \/ RefreshRoster(c)
    <3>1. Calm
      BY <2>3 DEF CatchUp, RefreshRoster
    <3> QED BY <3>1, CalmKeepsAnswers
  <2> QED BY <1>2, <2>1, <2>2, <2>3 DEF ClientNext
<1>3. ASSUME NEW p \in Conn, ConnNext(p) PROVE AnswerInv'
  <2>1. Calm
    BY <1>3 DEF ConnNext, Register, Ping, Drop, Unlink, Forget
  <2> QED BY <2>1, CalmKeepsAnswers
<1>4. CASE UNCHANGED vars
  <2>1. Calm
    BY <1>4 DEF vars
  <2> QED BY <2>1, CalmKeepsAnswers
<1> QED BY <1>1, <1>2, <1>3, <1>4 DEF Next

\* However the ids of different clients collide, and whatever connects and
\* disconnects meanwhile, no client is ever answered twice for one id.
THEOREM AnsweredAtMostOnce == Spec => []AtMostOneAnswer
<1>1. Init => PendingSafe /\ AnswerInv
  BY DEF Init, PendingSafe, AnswerInv, AtMostOneAnswer, OneEntryPerId
<1>2. TypeInv => TypeOK
  BY DEF TypeInv
<1>3. AnswerInv => AtMostOneAnswer
  BY DEF AnswerInv
<1> QED BY <1>1, <1>2, <1>3, InitTypeInv, StepTypeInv, StepPending, StepAnswers, PTL
        DEF Spec

-----------------------------------------------------------------------------
\* The roster.

\* No broadcast of the roster is under way.
Quiet == \A s \in Senders : stage[s] \notin {"arriving", "identified", "unlinked", "forgotten"}

\* The roster is made of the connected senders, their numbers and their devices.
LEMMA SameRoster ==
  ASSUME \A s \in Senders : stage'[s] \in Live <=> stage[s] \in Live,
         \A s \in Senders : stage[s] \in Live => serial'[s] = serial[s] /\ device'[s] = device[s]
  PROVE  DeviceList' = DeviceList
<1>1. Online' = Online /\ \A s \in Online : serial'[s] = serial[s] /\ device'[s] = device[s]
  BY DEF Online, Registered, Conn
<1> QED BY <1>1 DEF DeviceList

\* A step that leaves the roster as it is, and shows it to whom it newly serves.
LEMMA CalmKeepsRoster ==
  ASSUME RosterCurrent, DeviceList' = DeviceList, Quiet' => Quiet,
         \A c \in Clients : Known(c)' =>
           (Known(c) /\ roster'[c] = roster[c]) \/ roster'[c] = DeviceList
  PROVE  RosterCurrent'
<1> SUFFICES ASSUME Quiet', NEW c \in Clients, Known(c)' PROVE roster'[c] = DeviceList'
  BY DEF RosterCurrent, Quiet
<1> QED BY DEF RosterCurrent, Quiet

\* A broadcast reaches every client, or marks it.
LEMMA BroadcastMakesCurrent ==
  ASSUME NEW gone \in SUBSET Senders, BroadcastRoster(gone), DeviceList' = DeviceList,
         \A c \in Clients : stage'[c] = stage[c]
  PROVE  RosterCurrent'
<1> SUFFICES ASSUME NEW c \in Clients, Known(c)' PROVE roster'[c] = DeviceList'
  BY DEF RosterCurrent
<1>1. PICK failed \in SUBSET Audience :
        /\ closing' = (closing \cup failed) \ gone
        /\ roster' = [b \in Clients |-> IF b \in Audience \ failed THEN DeviceList
                                                                   ELSE roster[b]]
  BY DEF BroadcastRoster
<1>2. c \notin gone /\ c \notin closing /\ c \notin failed /\ stage[c] = "serving"
  BY <1>1, ServerAssumption DEF Known
<1>3. c \in Audience
  BY <1>2 DEF Audience, Registered, Conn, Live
<1> QED BY <1>1, <1>2, <1>3

\* Steps of a sender that tell nobody who is connected: it stays where clients can
\* reach it, under its number and its device.
LEMMA SenderKeepsRoster ==
  ASSUME TypeOK, RosterCurrent, NEW s \in Senders,
         (\E kind \in Kinds : Store(s, kind)) \/ Cast(s) \/ Answer(s)
  PROVE  RosterCurrent'
<1>1. /\ stage[s] \in {"serving", "stored"} /\ UNCHANGED <<serial, device, roster>>
      /\ closing \subseteq closing'
      /\ \E next \in {"serving", "stored", "leaving"} : stage' = [stage EXCEPT ![s] = next]
  BY DEF Store, Cast, Answer, AfterMessage
<1>2. PICK next \in {"serving", "stored", "leaving"} : stage' = [stage EXCEPT ![s] = next]
  BY <1>1
<1>3. stage'[s] = next /\ \A p \in Conn \ {s} : stage'[p] = stage[p]
  BY <1>2 DEF TypeOK, Conn
<1>4. DeviceList' = DeviceList
  BY <1>1, <1>3, SameRoster DEF Live, Conn
<1>5. Quiet' => Quiet
  BY <1>1, <1>3 DEF Quiet, Conn
<1>6. \A c \in Clients : Known(c)' => Known(c) /\ roster'[c] = roster[c]
  BY <1>1, <1>3, ServerAssumption DEF Known, Conn
<1> QED BY <1>4, <1>5, <1>6, CalmKeepsRoster

\* Steps of a client, and the ends of connections.
LEMMA ClientKeepsRoster ==
  ASSUME TypeOK, RosterCurrent, NEW c \in Clients, ClientNext(c)
  PROVE  RosterCurrent'
<1>1. /\ \E next \in {"serving", "leaving", "absent"} : stage' = [stage EXCEPT ![c] = next]
      /\ device' = device
  BY DEF ClientNext, CatchUp, RefreshRoster, Request, RetireClient, Free, AfterMessage
<1>2. \A p \in Conn \ {c} : stage'[p] = stage[p]
  BY <1>1 DEF TypeOK
<1>3. c \in Conn /\ c \notin Senders /\ Senders \subseteq Conn
  BY ServerAssumption DEF Conn
<1>4. \A s \in Senders : serial'[s] = serial[s]
  BY <1>3 DEF ClientNext, CatchUp, RefreshRoster, Request, RetireClient, Free, TypeOK
<1>5. DeviceList' = DeviceList
  BY <1>1, <1>2, <1>3, <1>4, SameRoster
<1>6. Quiet' => Quiet
  BY <1>2, <1>3 DEF Quiet
<1>7. \A b \in Clients \ {c} : Known(b)' => Known(b) /\ roster'[b] = roster[b]
  <2>1. \A b \in Clients \ {c} : stage'[b] = stage[b]
    BY <1>2 DEF Conn
  <2>2. closing \subseteq closing' \cup {c}
    BY DEF ClientNext, CatchUp, RefreshRoster, Request, Refuse, Forward, RetireClient
  <2>3. \A b \in Clients \ {c} : roster'[b] = roster[b]
    BY DEF ClientNext, CatchUp, RefreshRoster, Request, RetireClient, TypeOK
  <2> QED BY <2>1, <2>2, <2>3 DEF Known
<1>8. Known(c)' => (Known(c) /\ roster'[c] = roster[c]) \/ roster'[c] = DeviceList
  <2>1. CASE CatchUp(c)
    <3>1. c \notin closing' => roster' = [roster EXCEPT ![c] = DeviceList]
      BY <2>1 DEF CatchUp
    <3> QED BY <3>1 DEF Known, TypeOK
  <2>2. CASE RefreshRoster(c)
    BY <2>2 DEF RefreshRoster, Known, TypeOK
  <2>3. CASE \E d \in Devices \cup {AnyDevice} : Request(c, d)
    BY <2>3 DEF Request, Refuse, Forward, Known
  <2>4. CASE RetireClient(c)
    BY <2>4, <1>3 DEF RetireClient, Free, Known, TypeOK
  <2> QED BY <2>1, <2>2, <2>3, <2>4 DEF ClientNext
<1> QED BY <1>5, <1>6, <1>7, <1>8, CalmKeepsRoster

LEMMA ConnKeepsRoster ==
  ASSUME TypeOK, RosterCurrent, NEW p \in Conn, ConnNext(p)
  PROVE  RosterCurrent'
<1>1. /\ closing \subseteq closing' /\ UNCHANGED <<device, roster>>
      /\ \/ serial' = serial
         \/ stage[p] = "absent" /\ \E k : serial' = [serial EXCEPT ![p] = k]
      /\ \E next : stage' = [stage EXCEPT ![p] = next]
  BY DEF ConnNext, Register, Ping, Drop, Unlink, Forget, AfterMessage
<1>2. /\ \A q \in Conn \ {p} : stage'[q] = stage[q] /\ serial'[q] = serial[q]
      /\ stage[p] # "absent" => serial'[p] = serial[p]
  BY <1>1 DEF TypeOK
<1>3. Senders \subseteq Conn /\ Clients \subseteq Conn
  BY DEF Conn
<1>4. stage'[p] = "serving" => stage[p] = "serving"
  BY DEF ConnNext, Register, Ping, Drop, Unlink, Forget, AfterMessage, TypeOK
<1>5. \A c \in Clients : Known(c)' => Known(c) /\ roster'[c] = roster[c]
  BY <1>1, <1>2, <1>3, <1>4 DEF Known
<1>6. CASE p \in Senders /\ (Register(p) \/ Unlink(p) \/ Forget(p))
  <2>1. stage'[p] \in {"arriving", "unlinked", "forgotten"}
    BY <1>6 DEF Register, Unlink, Forget, TypeOK
  <2> QED BY <1>6, <2>1 DEF RosterCurrent
<1>7. CASE p \in Senders /\ (Ping(p) \/ Drop(p))
  <2>1. stage[p] = "serving" /\ stage'[p] \in {"serving", "leaving"}
    BY <1>7 DEF Ping, Drop, AfterMessage, TypeOK
  <2>2. DeviceList' = DeviceList
    BY <1>1, <1>2, <1>3, <2>1, SameRoster DEF Live
  <2>3. Quiet' => Quiet
    BY <1>2, <1>3, <2>1 DEF Quiet
  <2> QED BY <1>5, <2>2, <2>3, CalmKeepsRoster
<1>8. CASE p \notin Senders
  <2>1. DeviceList' = DeviceList
    BY <1>1, <1>2, <1>3, <1>8, SameRoster
  <2>2. Quiet' => Quiet
    BY <1>2, <1>3, <1>8 DEF Quiet
  <2> QED BY <1>5, <2>1, <2>2, CalmKeepsRoster
<1> QED BY <1>6, <1>7, <1>8 DEF ConnNext

LEMMA StepRoster == TypeOK /\ RosterCurrent /\ [Next]_vars => RosterCurrent'
<1> SUFFICES ASSUME TypeOK, RosterCurrent, [Next]_vars PROVE RosterCurrent'
  OBVIOUS
<1>1. ASSUME NEW s \in Senders, Announce(s) PROVE RosterCurrent'
  <2>1. BroadcastRoster({}) /\ UNCHANGED <<serial, device>>
    BY <1>1 DEF Announce
  <2>2. /\ stage[s] \in {"arriving", "identified"} /\ stage'[s] \in {"serving", "leaving"}
        /\ \A p \in Conn \ {s} : stage'[p] = stage[p]
    BY <1>1 DEF Announce, AfterMessage, TypeOK, Conn
  <2>3. DeviceList' = DeviceList
    BY <2>1, <2>2, SameRoster DEF Live, Conn
  <2>4. \A c \in Clients : stage'[c] = stage[c]
    BY <2>2, ServerAssumption DEF Conn
  <2> QED BY <2>1, <2>3, <2>4, BroadcastMakesCurrent
<1>2. ASSUME NEW s \in Senders, RetireSender(s) PROVE RosterCurrent'
  <2>1. BroadcastRoster({s}) /\ stage[s] = "forgotten"
    BY <1>2 DEF RetireSender
  <2>2. /\ stage'[s] = "absent"
        /\ \A p \in Conn \ {s} : stage'[p] = stage[p] /\ serial'[p] = serial[p]
        /\ \A t \in Senders \ {s} : device'[t] = device[t]
    BY <1>2 DEF RetireSender, Free, TypeOK, Conn
  <2>3. DeviceList' = DeviceList
    BY <2>1, <2>2, SameRoster DEF Live, Conn
  <2>4. \A c \in Clients : stage'[c] = stage[c]
    BY <2>2, ServerAssumption DEF Conn
  <2> QED BY <2>1, <2>3, <2>4, BroadcastMakesCurrent
<1>3. ASSUME NEW s \in Senders, NEW d \in Devices, Identify(s, d) PROVE RosterCurrent'
  <2>1. stage'[s] = "identified"
    BY <1>3 DEF Identify, TypeOK, Conn
  <2> QED BY <2>1 DEF RosterCurrent
<1>4. CASE UNCHANGED vars
  <2>1. UNCHANGED <<stage, serial, device, closing, roster>>
    BY <1>4 DEF vars
  <2> QED BY <2>1 DEF RosterCurrent, Known, DeviceList, Online, Registered
<1> QED BY <1>1, <1>2, <1>3, <1>4, SenderKeepsRoster, ClientKeepsRoster, ConnKeepsRoster
        DEF Next, SenderNext

\* Whenever no roster broadcast is under way every client that is not given up shows
\* exactly the connected senders: no interleaving of arrivals, HELLOs, departures,
\* catch-ups and failed sends leaves one with an old roster (broadcast_device_list,
\* send_catch_up_locked).
THEOREM RosterStaysCurrent == Spec => []RosterCurrent
<1>1. Init => RosterCurrent
  BY DEF Init, RosterCurrent, Known, Conn
<1>2. TypeInv => TypeOK
  BY DEF TypeInv
<1> QED BY <1>1, <1>2, InitTypeInv, StepTypeInv, StepRoster, PTL DEF Spec

-----------------------------------------------------------------------------
\* What is kept.

Numbered(l) == \A i \in 1 .. Len(l) : l[i].n = i

\* q has, in their order, the frames of the slot that l has from some one on.
Window(q, l, slot) ==
  /\ \A i \in 1 .. Len(q) : q[i].n \in 1 .. Len(l) /\ q[i] = l[q[i].n] /\ SlotOf(q[i].kind) = slot
  /\ \A i, k \in 1 .. Len(q) : i < k => q[i].n < q[k].n
  /\ \A j \in 1 .. Len(l) : SlotOf(l[j].kind) = slot =>
       q # <<>> /\ (j < q[1].n \/ \E k \in 1 .. Len(q) : q[k] = l[j])

LEMMA AppendIs ==
  ASSUME NEW S, NEW q \in Seq(S), NEW e \in S
  PROVE  /\ Append(q, e) \in Seq(S) /\ Len(Append(q, e)) = Len(q) + 1 /\ Len(q) \in Nat
         /\ \A i \in 1 .. Len(q) : Append(q, e)[i] = q[i]
         /\ Append(q, e)[Len(q) + 1] = e
<1>1. Append(q, e) \in Seq(S)
  BY AppendProperties
<1>2. Len(Append(q, e)) = Len(q) + 1
  BY AppendProperties
<1>3. \A i \in 1 .. Len(q) : Append(q, e)[i] = q[i]
  BY AppendProperties
<1>4. Append(q, e)[Len(q) + 1] = e
  BY AppendProperties
<1> QED BY <1>1, <1>2, <1>3, <1>4, LenProperties

\* A frame is put behind, and the first one gives way when there is no room.
LEMMA PushShape ==
  ASSUME NEW q \in Seq(Frame), NEW f \in Frame, NEW cap \in Nat \ {0}
  PROVE  /\ Push(q, f, cap) \in Seq(Frame)
         /\ \E d \in {0, 1} :
              /\ d = 1 => q # <<>>
              /\ Len(q) <= cap => Len(q) + 1 - d <= cap
              /\ Len(Push(q, f, cap)) = Len(q) + 1 - d
              /\ \A i \in 1 .. Len(q) - d : Push(q, f, cap)[i] = q[i + d]
              /\ Push(q, f, cap)[Len(q) + 1 - d] = f
<1>1. Len(q) \in Nat
  BY LenProperties
<1>2. CASE Len(q) < cap
  <2>1. Push(q, f, cap) = Append(q, f)
    BY <1>2 DEF Push
  <2>2. /\ Append(q, f) \in Seq(Frame) /\ Len(Append(q, f)) = Len(q) + 1
        /\ \A i \in 1 .. Len(q) : Append(q, f)[i] = q[i]
        /\ Append(q, f)[Len(q) + 1] = f
    BY AppendIs
  <2> DEFINE p == Append(q, f)
  <2>3. p = Push(q, f, cap)
    BY <2>1
  <2> HIDE DEF p
  <2>4. /\ Len(p) = Len(q) + 1 - 0
        /\ \A i \in 1 .. Len(q) - 0 : p[i] = q[i + 0]
        /\ p[Len(q) + 1 - 0] = f
        /\ Len(q) + 1 - 0 <= cap
    BY <1>1, <1>2, <2>2 DEF p
  <2>5. p \in Seq(Frame)
    BY <2>2 DEF p
  <2> QED BY <2>3, <2>4, <2>5
<1>3. CASE ~(Len(q) < cap)
  <2> DEFINE t == Tail(q)
  <2>1. q # <<>>
    BY <1>1, <1>3
  <2>2. t \in Seq(Frame) /\ Len(t) = Len(q) - 1 /\ \A i \in 1 .. Len(t) : t[i] = q[i + 1]
    BY <2>1, HeadTailProperties
  <2> HIDE DEF t
  <2> DEFINE p == Append(t, f)
  <2>3. p = Push(q, f, cap)
    BY <1>3 DEF Push, t
  <2>4. /\ p \in Seq(Frame) /\ Len(p) = Len(t) + 1 /\ p[Len(t) + 1] = f
        /\ \A i \in 1 .. Len(t) : p[i] = t[i]
    BY <2>2, AppendIs
  <2> HIDE DEF p
  <2>5. /\ Len(p) = Len(q) + 1 - 1
        /\ \A i \in 1 .. Len(q) - 1 : p[i] = q[i + 1]
        /\ p[Len(q) + 1 - 1] = f
        /\ Len(q) <= cap => Len(q) + 1 - 1 <= cap
    BY <1>1, <2>2, <2>4
  <2> QED BY <2>1, <2>3, <2>4, <2>5
<1> QED BY <1>2, <1>3

LEMMA PushIsWindow ==
  ASSUME NEW q \in Seq(Frame), NEW l \in Seq(Frame), Numbered(l), NEW slot, Window(q, l, slot),
         NEW f \in Frame, f.n = Len(l) + 1, NEW cap \in Nat \ {0}, SlotOf(f.kind) = slot
  PROVE  Window(Push(q, f, cap), Append(l, f), slot)
<1> DEFINE p == Push(q, f, cap)
           a == Append(l, f)
           m == Len(l)
           n == Len(q)
<1>1. PICK d \in {0, 1} :
        /\ d = 1 => q # <<>>
        /\ Len(p) = n + 1 - d
        /\ \A i \in 1 .. n - d : p[i] = q[i + d]
        /\ p[n + 1 - d] = f
  BY PushShape
<1>2. /\ Len(a) = m + 1 /\ a[m + 1] = f /\ \A i \in 1 .. m : a[i] = l[i]
  BY AppendIs
<1>3. m \in Nat /\ n \in Nat /\ (q # <<>> => n > 0) /\ (n > 0 => q # <<>>)
  BY LenProperties, EmptySeq
<1> HIDE DEF p, a, m, n
<1>4. /\ \A i \in 1 .. n : q[i].n \in 1 .. m /\ q[i] = l[q[i].n] /\ SlotOf(q[i].kind) = slot
      /\ \A i, k \in 1 .. n : i < k => q[i].n < q[k].n
      /\ \A j \in 1 .. m : SlotOf(l[j].kind) = slot =>
           q # <<>> /\ (j < q[1].n \/ \E k \in 1 .. n : q[k] = l[j])
      /\ \A j \in 1 .. m : l[j].n = j
  BY DEF Window, Numbered, m, n
<1>5. f.n = m + 1
  BY DEF m
<1>6. Len(p) \in Nat \ {0} /\ p # <<>>
  <2>1. Len(p) \in Nat \ {0}
    BY <1>1, <1>3
  <2>2. Len(<<>>) = 0
    OBVIOUS
  <2> QED BY <2>1, <2>2
<1>7. \A i \in 1 .. Len(p) : i = n + 1 - d \/ (i \in 1 .. n - d /\ i + d \in 1 .. n)
  BY <1>1, <1>3
<1>8. ASSUME NEW i \in 1 .. Len(p)
      PROVE  p[i].n \in 1 .. Len(a) /\ p[i] = a[p[i].n] /\ SlotOf(p[i].kind) = slot
  <2>1. CASE i = n + 1 - d
    BY <1>1, <1>2, <1>3, <1>5, <2>1
  <2>2. CASE i \in 1 .. n - d /\ i + d \in 1 .. n
    <3>1. p[i] = q[i + d] /\ q[i + d].n \in 1 .. m /\ q[i + d] = l[q[i + d].n] /\ SlotOf(q[i + d].kind) = slot
      BY <1>1, <1>4, <2>2
    <3>2. \A x \in 1 .. m : x \in 1 .. m + 1
      BY <1>3
    <3> QED BY <1>2, <3>1, <3>2
  <2> QED BY <1>7, <2>1, <2>2
<1>9. ASSUME NEW i \in 1 .. Len(p), NEW k \in 1 .. Len(p), i < k PROVE p[i].n < p[k].n
  <2>1. i \in 1 .. n - d /\ i + d \in 1 .. n /\ p[i] = q[i + d] /\ q[i + d].n \in 1 .. m
    <3>1. i \in 1 .. n - d /\ i + d \in 1 .. n
      <4>1. Len(p) = n + 1 - d
        BY <1>1
      <4>2. i \in 1 .. n + 1 - d /\ k \in 1 .. n + 1 - d /\ i < k
        BY <1>9, <4>1
      <4>3. CASE d = 0
        BY <1>3, <4>2, <4>3
      <4>4. CASE d = 1
        BY <1>3, <4>2, <4>4
      <4> QED BY <4>3, <4>4
    <3>2. p[i] = q[i + d]
      BY <1>1, <3>1
    <3>3. q[i + d].n \in 1 .. m
      BY <1>4, <3>1
    <3> QED BY <3>1, <3>2, <3>3
  <2>2. CASE k = n + 1 - d
    <3>1. p[k].n = m + 1
      BY <1>1, <1>5, <2>2
    <3>2. p[i].n \in 1 .. m
      BY <2>1
    <3> QED BY <1>3, <3>1, <3>2
  <2>3. CASE k \in 1 .. n - d /\ k + d \in 1 .. n
    <3>1. p[k] = q[k + d] /\ i + d < k + d
      BY <1>1, <1>9, <2>3
    <3> QED BY <1>4, <2>1, <2>3, <3>1
  <2> QED BY <1>7, <2>2, <2>3
<1>10. ASSUME NEW j \in 1 .. Len(a), SlotOf(a[j].kind) = slot
       PROVE  j < p[1].n \/ \E k \in 1 .. Len(p) : p[k] = a[j]
  <2>1. CASE j = m + 1
    <3>1. Len(p) \in 1 .. Len(p)
      BY <1>6
    <3> QED BY <1>1, <1>2, <2>1, <3>1
  <2>2. CASE j \in 1 .. m
    <3>1. q # <<>> /\ a[j] = l[j] /\ l[j].n = j /\ (j < q[1].n \/ \E k \in 1 .. n : q[k] = l[j])
      BY <1>2, <1>4, <1>10, <2>2
    <3>2. 1 \in 1 .. n /\ 1 \in 1 .. Len(p)
      BY <1>3, <1>6, <3>1
    <3>3. q[1].n \in 1 .. m
      BY <1>4, <3>2
    <3>4. d = 0 => p[1] = q[1]
      <4>1. d = 0 => 1 \in 1 .. n - d /\ 1 + d = 1
        BY <1>3, <3>2
      <4> QED BY <1>1, <4>1
    <3>5. d = 1 => q[1].n < p[1].n
      <4>1. CASE n = 1
        BY <1>1, <1>3, <1>5, <3>3, <4>1
      <4>2. CASE n > 1
        <5>1. 1 \in 1 .. n - 1 /\ 2 \in 1 .. n
          BY <1>3, <4>2
        <5>2. q[1].n < q[2].n
          BY <1>4, <3>2, <5>1
        <5>3. d = 1 => p[1] = q[1 + 1]
          BY <1>1, <5>1
        <5> QED BY <5>2, <5>3
      <4> QED BY <1>3, <3>2, <4>1, <4>2
    <3>6. CASE j < q[1].n
      <4>1. d = 1 => p[1].n \in Nat
        BY <1>8, <3>2
      <4> QED BY <1>1, <3>3, <3>4, <3>5, <3>6, <4>1
    <3>7. ASSUME NEW k \in 1 .. n, q[k] = l[j] PROVE j < p[1].n \/ \E x \in 1 .. Len(p) : p[x] = a[j]
      <4>1. CASE d = 1 /\ k = 1
        BY <3>1, <3>5, <3>7, <4>1
      <4>2. CASE ~(d = 1 /\ k = 1)
        <5>1. k - d \in 1 .. n - d /\ (k - d) + d = k /\ k - d \in 1 .. Len(p)
          BY <1>1, <1>3, <4>2
        <5>2. p[k - d] = q[k]
          BY <1>1, <5>1
        <5> QED BY <3>1, <3>7, <5>1, <5>2
      <4> QED BY <4>1, <4>2
    <3> QED BY <3>1, <3>6, <3>7
  <2> QED BY <1>2, <1>3, <2>1, <2>2
<1>11. Window(p, a, slot)
  BY <1>6, <1>8, <1>9, <1>10 DEF Window
<1> QED BY <1>11 DEF p, a

\* A frame of another slot changes nothing.
LEMMA OtherWindow ==
  ASSUME NEW q, NEW l \in Seq(Frame), NEW slot, Window(q, l, slot),
         NEW f \in Frame, SlotOf(f.kind) # slot
  PROVE  Window(q, Append(l, f), slot)
<1> DEFINE a == Append(l, f)
           m == Len(l)
<1>1. Len(a) = m + 1 /\ a[m + 1] = f /\ m \in Nat /\ \A i \in 1 .. m : a[i] = l[i]
  BY AppendIs
<1>2. \A j \in 1 .. m + 1 : j \in 1 .. m \/ j = m + 1
  BY <1>1
<1>3. \A j \in 1 .. m : j \in 1 .. m + 1
  BY <1>1
<1> HIDE DEF a
<1> QED BY <1>1, <1>2, <1>3 DEF Window, a

-----------------------------------------------------------------------------
\* What is received.

Holds(q, f) == \E i \in 1 .. Len(q) : q[i].frame = f

LEMMA HoldsAppend ==
  ASSUME NEW q \in Seq(Delivery), NEW d \in Delivery, NEW f
  PROVE  Holds(Append(q, d), f) <=> Holds(q, f) \/ d.frame = f
<1> DEFINE a == Append(q, d)
           n == Len(q)
<1>1. Len(a) = n + 1 /\ a[n + 1] = d /\ n \in Nat /\ \A i \in 1 .. n : a[i] = q[i]
  BY AppendIs
<1> HIDE DEF a, n
<1>2. \A j \in 1 .. n + 1 : j \in 1 .. n \/ j = n + 1
  BY <1>1
<1>3. n + 1 \in 1 .. n + 1 /\ \A j \in 1 .. n : j \in 1 .. n + 1
  BY <1>1
<1>4. (\E i \in 1 .. n + 1 : a[i].frame = f) <=> (\E i \in 1 .. n : q[i].frame = f) \/ d.frame = f
  BY <1>1, <1>2, <1>3
<1> QED BY <1>1, <1>4 DEF Holds, a, n

LEMMA HoldsConcat ==
  ASSUME NEW q \in Seq(Delivery), NEW p \in Seq(Delivery), NEW f
  PROVE  Holds(q \o p, f) <=> Holds(q, f) \/ Holds(p, f)
<1> DEFINE a == q \o p
           m == Len(q)
           n == Len(p)
<1>1. Len(a) = m + n
  BY ConcatProperties
<1>2. \A i \in 1 .. m + n : a[i] = IF i <= m THEN q[i] ELSE p[i - m]
  BY ConcatProperties
<1>3. m \in Nat /\ n \in Nat
  BY LenProperties
<1> HIDE DEF a, m, n
<1>4. ASSUME NEW i \in 1 .. m + n, a[i].frame = f
      PROVE  (\E j \in 1 .. m : q[j].frame = f) \/ (\E j \in 1 .. n : p[j].frame = f)
  <2>1. CASE i <= m
    <3>1. i \in 1 .. m
      BY <1>3, <2>1
    <3> QED BY <1>2, <1>4, <2>1, <3>1
  <2>2. CASE ~(i <= m)
    <3>1. i - m \in 1 .. n
      BY <1>3, <2>2
    <3> QED BY <1>2, <1>4, <2>2, <3>1
  <2> QED BY <2>1, <2>2
<1>5. ASSUME NEW j \in 1 .. m PROVE j \in 1 .. m + n /\ a[j] = q[j]
  <2>1. j \in 1 .. m + n /\ j <= m
    BY <1>3
  <2> QED BY <1>2, <2>1
<1>6. ASSUME NEW j \in 1 .. n PROVE m + j \in 1 .. m + n /\ a[m + j] = p[j]
  <2>1. m + j \in 1 .. m + n /\ ~(m + j <= m) /\ (m + j) - m = j
    BY <1>3
  <2> QED BY <1>2, <2>1
<1>7. (\E i \in 1 .. m + n : a[i].frame = f)
        <=> (\E j \in 1 .. m : q[j].frame = f) \/ (\E j \in 1 .. n : p[j].frame = f)
  BY <1>4, <1>5, <1>6
<1> QED BY <1>1, <1>7 DEF Holds, a, m, n

LEMMA HoldsWrap ==
  ASSUME NEW q \in Seq(Frame), NEW b \in BOOLEAN, NEW f
  PROVE  /\ Wrap(q, b) \in Seq(Delivery)
         /\ Holds(Wrap(q, b), f) <=> \E i \in 1 .. Len(q) : q[i] = f
<1>1. Wrap(q, b) \in Seq(Delivery) /\ Len(Wrap(q, b)) = Len(q)
  BY DEF Wrap, Delivery
<1>2. \A i \in 1 .. Len(q) : Wrap(q, b)[i].frame = q[i]
  BY DEF Wrap
<1> QED BY <1>1, <1>2 DEF Holds

LEMMA HoldsBacklog ==
  ASSUME TypeOK, NEW s \in Senders, NEW f
  PROVE  /\ Backlog(s) \in Seq(Delivery)
         /\ Holds(Backlog(s), f) <=> \E slot \in Slots : \E i \in 1 .. Len(kept[s][slot]) : kept[s][slot][i] = f
<1> DEFINE w1 == Wrap(kept[s]["sessions"], FALSE)
           w2 == Wrap(kept[s]["state"], FALSE)
           w3 == Wrap(kept[s]["replay"], TRUE)
<1>1. /\ kept[s]["sessions"] \in Seq(Frame) /\ kept[s]["state"] \in Seq(Frame)
      /\ kept[s]["replay"] \in Seq(Frame)
  BY DEF TypeOK, Slots
<1>2. /\ w1 \in Seq(Delivery) /\ w2 \in Seq(Delivery) /\ w3 \in Seq(Delivery)
      /\ Holds(w1, f) <=> \E i \in 1 .. Len(kept[s]["sessions"]) : kept[s]["sessions"][i] = f
      /\ Holds(w2, f) <=> \E i \in 1 .. Len(kept[s]["state"]) : kept[s]["state"][i] = f
      /\ Holds(w3, f) <=> \E i \in 1 .. Len(kept[s]["replay"]) : kept[s]["replay"][i] = f
  BY <1>1, HoldsWrap
<1>3. Backlog(s) = w1 \o w2 \o w3
  BY DEF Backlog
<1> HIDE DEF w1, w2, w3
<1>4. w1 \o w2 \in Seq(Delivery) /\ (w1 \o w2) \o w3 \in Seq(Delivery)
  BY <1>2, ConcatProperties
<1>5. Holds((w1 \o w2) \o w3, f) <=> Holds(w1, f) \/ Holds(w2, f) \/ Holds(w3, f)
  BY <1>2, <1>4, HoldsConcat
<1> QED BY <1>2, <1>3, <1>4, <1>5 DEF Slots

-----------------------------------------------------------------------------
\* The invariants.

\* A number is given out once, and nothing is known of those to come.
Numbering ==
  /\ \A s, t \in Senders : serial[s] = serial[t] /\ serial[s] # 0 => s = t
  /\ \A s \in Senders : serial[s] < nextId /\ (serial[s] = 0 <=> stage[s] = "absent")
  /\ \A c \in Clients :
       /\ \A k \in Serials : k >= nextId => got[c][k] = <<>>
       /\ \A x \in shown[c] : x.src < nextId
       /\ stage[c] = "absent" => got[c] = Nothing /\ shown[c] = {}

\* What is kept of a sender are its last frames of each kind, the one in hand too.
Keeping ==
  \A s \in Senders :
    /\ stage[s] = "absent" => log[s] = <<>> /\ kept[s] = Empty
    /\ log[s] # <<>> => device[s] # Unnamed
    /\ Numbered(log[s])
    /\ \A slot \in Slots : Window(kept[s][slot], log[s], slot)
    /\ Len(kept[s]["sessions"]) <= 1
    /\ stage[s] = "stored" => log[s] # <<>> /\ hand[s] = <<log[s][Len(log[s])]>>

\* The clients a frame is broadcast to, and how many frames have been.
Attending(c) == c \notin closing /\ stage[c] \in {"joined", "serving"}
Done(s) == IF stage[s] = "stored" THEN Len(log[s]) - 1 ELSE Len(log[s])

\* Also before a client has caught up it misses nothing after what it got.
NoHole ==
  \A c \in Clients, s \in Online : Attending(c) =>
    /\ \A i, j \in 1 .. Done(s) :
         i < j /\ SlotOf(log[s][i].kind) = SlotOf(log[s][j].kind) /\ Received(c, s, log[s][i])
           => Received(c, s, log[s][j])
    /\ stage[c] = "serving" => \A slot \in Slots : \A i \in 1 .. Len(kept[s][slot]) :
         kept[s][slot][i].n <= Done(s) => Received(c, s, kept[s][slot][i])

\* A client shows at most one list of a sender, and none newer than the one kept.
Showing ==
  \A c \in Clients :
    /\ \A x, y \in shown[c] : x.src = y.src => x = y
    /\ \A s \in Online : \A x \in shown[c] : x.src = serial[s] =>
         /\ x.device = device[s] /\ x.device # Unnamed
         /\ kept[s]["sessions"] # <<>> /\ x.n <= kept[s]["sessions"][1].n

StreamInv == Numbering /\ Keeping /\ NoHole /\ Showing

LEMMA InitStream == Init => StreamInv
<1> SUFFICES ASSUME Init PROVE StreamInv
  OBVIOUS
<1>1. \A s \in Senders : stage[s] = "absent" /\ serial[s] = 0 /\ log[s] = <<>> /\ kept[s] = Empty
  BY DEF Init, Conn
<1>2. Online = {} /\ \A c \in Clients : ~Attending(c) /\ shown[c] = {} /\ got[c] = Nothing
  BY DEF Init, Conn, Online, Registered, Live, Attending
<1>3. Numbering
  BY <1>1, <1>2 DEF Init, Numbering, Nothing
<1>4. \A s \in Senders : \A slot \in Slots : kept[s][slot] = <<>>
  BY <1>1 DEF Empty
<1>5. Keeping
  BY <1>1, <1>4 DEF Keeping, Numbered, Window, Slots
<1> QED BY <1>2, <1>3, <1>5 DEF StreamInv, NoHole, Showing

\* Steps that neither store nor deliver, nor give a number.
LEMMA CalmKeepsStream ==
  ASSUME TypeOK, StreamInv,
         UNCHANGED <<serial, nextId, kept, log, got, shown>>,
         \A s \in Senders :
           /\ stage'[s] \in Live => stage[s] \in Live
           /\ stage'[s] = "absent" <=> stage[s] = "absent"
           /\ stage'[s] = "stored" <=> stage[s] = "stored"
           /\ stage[s] = "stored" => hand'[s] = hand[s]
           /\ device'[s] = device[s] \/ (device[s] = Unnamed /\ device'[s] # Unnamed),
         \A c \in Clients :
           /\ stage'[c] = "absent" => stage[c] = "absent"
           /\ Attending(c)' => Attending(c) /\ (stage'[c] = "serving" => stage[c] = "serving")
  PROVE  StreamInv'
<1>1. Numbering'
  BY DEF StreamInv, Numbering
<1>2. Keeping'
  BY DEF StreamInv, Keeping
<1>3. Online' \subseteq Online /\ \A s \in Online' : Done(s)' = Done(s) /\ s \in Senders
  BY DEF Online, Registered, Done
<1>4. \A c \in Clients : \A s, f : Received(c, s, f)' <=> Received(c, s, f)
  BY DEF Received
<1>5. NoHole'
  BY <1>3, <1>4 DEF StreamInv, NoHole
<1>6. Showing'
  BY <1>3 DEF StreamInv, Showing
<1> QED BY <1>1, <1>2, <1>5, <1>6 DEF StreamInv

LEMMA QuietSenderKeepsStream ==
  ASSUME TypeOK, StreamInv, NEW s \in Senders,
         Announce(s) \/ (\E d \in Devices : Identify(s, d)) \/ Answer(s)
  PROVE  StreamInv'
<1>1. UNCHANGED <<serial, nextId, kept, hand, log, got, shown>> /\ closing \subseteq closing'
  BY DEF Announce, Identify, Answer, BroadcastRoster
<1>2. PICK x \in {"serving", "leaving", "identified"} : stage' = [stage EXCEPT ![s] = x]
  BY DEF Announce, Identify, Answer, AfterMessage
<1>3. stage'[s] = x /\ stage[s] \in {"arriving", "identified", "serving"} /\ \A p \in Conn \ {s} : stage'[p] = stage[p]
  BY <1>2 DEF TypeOK, Conn, Announce, Identify, Answer
<1>4. \A t \in Senders : device'[t] = device[t] \/ (device[t] = Unnamed /\ device'[t] # Unnamed)
  BY ServerAssumption DEF Announce, Identify, Answer, TypeOK
<1>5. \A t \in Senders :
        /\ stage'[t] \in Live => stage[t] \in Live
        /\ stage'[t] = "absent" <=> stage[t] = "absent"
        /\ stage'[t] = "stored" <=> stage[t] = "stored"
  BY <1>3 DEF Live, Conn
<1>6. \A c \in Clients : stage'[c] = stage[c]
  BY <1>3, ServerAssumption DEF Conn
<1>7. \A c \in Clients : Attending(c)' => Attending(c)
  BY <1>1, <1>6 DEF Attending
<1> QED BY <1>1, <1>4, <1>5, <1>6, <1>7, CalmKeepsStream

LEMMA QuietClientKeepsStream ==
  ASSUME TypeOK, StreamInv, NEW c \in Clients,
         RefreshRoster(c) \/ (\E d \in Devices \cup {AnyDevice} : Request(c, d))
  PROVE  StreamInv'
<1>1. UNCHANGED <<serial, nextId, device, kept, hand, log, got, shown>> /\ closing \subseteq closing'
  BY DEF RefreshRoster, Request, Refuse, Forward
<1>2. PICK x \in {"serving", "leaving"} : stage' = [stage EXCEPT ![c] = x]
  BY DEF RefreshRoster, Request, AfterMessage
<1>3. stage'[c] = x /\ stage[c] = "serving" /\ \A p \in Conn \ {c} : stage'[p] = stage[p]
  BY <1>2 DEF TypeOK, Conn, RefreshRoster, Request
<1>4. \A s \in Senders : stage'[s] = stage[s]
  BY <1>3, ServerAssumption DEF Conn
<1>5. \A b \in Clients : Attending(b)' => Attending(b) /\ stage'[b] = stage[b]
  BY <1>1, <1>3 DEF Attending, Conn
<1>6. \A b \in Clients : stage'[b] = "absent" => stage[b] = "absent"
  BY <1>3 DEF Conn
<1> QED BY <1>1, <1>4, <1>5, <1>6, CalmKeepsStream

LEMMA QuietConnKeepsStream ==
  ASSUME TypeOK, StreamInv, NEW p \in Conn, Ping(p) \/ Drop(p) \/ Unlink(p) \/ Forget(p)
  PROVE  StreamInv'
<1>1. UNCHANGED <<serial, nextId, device, kept, hand, log, got, shown>> /\ closing \subseteq closing'
  BY DEF Ping, Drop, Unlink, Forget
<1>2. PICK x \in {"serving", "leaving", "unlinked", "forgotten"} : stage' = [stage EXCEPT ![p] = x]
  BY DEF Ping, Drop, Unlink, Forget, AfterMessage
<1>3. /\ stage'[p] = x /\ stage[p] \in {"serving", "leaving", "unlinked"}
      /\ (x = "serving" => stage[p] = "serving") /\ (x = "leaving" => stage[p] \in Live)
      /\ \A q \in Conn \ {p} : stage'[q] = stage[q]
  BY <1>2 DEF TypeOK, Conn, Ping, Drop, Unlink, Forget, AfterMessage, Live
<1>4. \A q \in Conn :
        /\ stage'[q] \in Live => stage[q] \in Live
        /\ stage'[q] = "absent" <=> stage[q] = "absent"
        /\ stage'[q] = "stored" <=> stage[q] = "stored"
        /\ stage'[q] = "serving" => stage[q] = "serving"
        /\ stage'[q] = "joined" => stage[q] = "joined"
  BY <1>3 DEF Live
<1>5. Senders \subseteq Conn /\ Clients \subseteq Conn
  BY DEF Conn
<1>6. \A b \in Clients : Attending(b)' => Attending(b)
  BY <1>1, <1>4, <1>5 DEF Attending
<1> QED BY <1>1, <1>4, <1>5, <1>6, CalmKeepsStream

LEMMA OnlineIsNumbered ==
  ASSUME TypeOK, Numbering, NEW s \in Online
  PROVE  s \in Senders /\ serial[s] \in Serials /\ serial[s] < nextId /\ nextId \in Nat
<1>1. s \in Senders /\ s \in Conn /\ stage[s] # "absent"
  BY DEF Online, Registered, Live
<1>2. serial[s] \in 0 .. MaxConnections /\ serial[s] # 0 /\ serial[s] < nextId
  BY <1>1 DEF Numbering, TypeOK
<1> QED BY <1>1, <1>2, ServerAssumption DEF Serials, TypeOK

\* New lists take the place of the old ones.
LEMMA ShownIsSound ==
  ASSUME TypeOK, StreamInv, NEW c \in Clients, NEW S \in SUBSET Online,
         \A s \in S : kept[s]["sessions"] # <<>>
  PROVE  LET new == ShowLists(shown[c], {SessionList(s, kept[s]["sessions"][1]) : s \in S})
         IN  /\ \A x \in new : x.src < nextId
             /\ \A x, y \in new : x.src = y.src => x = y
             /\ \A s \in Online : \A x \in new : x.src = serial[s] =>
                  /\ x.device = device[s] /\ x.device # Unnamed
                  /\ kept[s]["sessions"] # <<>> /\ x.n <= kept[s]["sessions"][1].n
             /\ \A old \in shown[c], x \in new : old.src = x.src => old.n <= x.n
<1> DEFINE q(s) == kept[s]["sessions"]
           N == {SessionList(s, q(s)[1]) : s \in S}
           new == ShowLists(shown[c], N)
<1>1. \A s \in Online : s \in Senders /\ serial[s] < nextId /\ serial[s] # 0
  BY OnlineIsNumbered, ServerAssumption DEF StreamInv, Serials
<1>2. \A s, t \in Online : serial[s] = serial[t] => s = t
  BY <1>1 DEF StreamInv, Numbering
<1>3. ASSUME NEW s \in S PROVE device[s] # Unnamed /\ q(s)[1].n \in Nat
  <2>1. s \in Senders /\ q(s) # <<>> /\ q(s) \in Seq(Frame) /\ log[s] \in Seq(Frame)
    BY <1>1 DEF TypeOK, Slots
  <2>2. 1 \in 1 .. Len(q(s))
    BY <2>1, EmptySeq, LenProperties
  <2>3. q(s)[1].n \in 1 .. Len(log[s])
    BY <2>1, <2>2 DEF StreamInv, Keeping, Window, Slots
  <2>4. log[s] # <<>>
    BY <2>1, <2>3, EmptySeq
  <2> QED BY <2>1, <2>3, <2>4 DEF StreamInv, Keeping
<1>4. \A e \in N : \E s \in S : e.device = device[s] /\ e.src = serial[s] /\ e.n = q(s)[1].n /\ e = SessionList(s, q(s)[1])
  BY DEF SessionList
<1>5. \A x \in shown[c] :
        /\ x.src < nextId /\ x.n \in Nat
        /\ \A y \in shown[c] : x.src = y.src => x = y
        /\ \A s \in Online : x.src = serial[s] =>
             x.device = device[s] /\ x.device # Unnamed /\ q(s) # <<>> /\ x.n <= q(s)[1].n
  BY DEF StreamInv, Numbering, Showing, TypeOK
<1>6. \A x \in new : x \in N \/ (x \in shown[c] /\ \A e \in N : e.device # x.device)
  BY DEF ShowLists
<1> HIDE DEF q, N, new
<1>7. \A x \in new : x.src < nextId
  BY <1>1, <1>4, <1>5, <1>6
<1>8. \A x \in N, y \in shown[c] : x.src = y.src => y.device = x.device /\ y.n <= x.n
  BY <1>4, <1>5
<1>9. \A x, y \in N : x.src = y.src => x = y
  BY <1>2, <1>4
<1>10. \A x, y \in new : x.src = y.src => x = y
  BY <1>5, <1>6, <1>8, <1>9
<1>11. ASSUME NEW s \in Online, NEW x \in new, x.src = serial[s]
       PROVE  x.device = device[s] /\ x.device # Unnamed /\ q(s) # <<>> /\ x.n <= q(s)[1].n
  <2>1. CASE x \in N
    <3>1. PICK t \in S : x.device = device[t] /\ x.src = serial[t] /\ x.n = q(t)[1].n
      BY <1>4, <2>1
    <3>2. t = s
      BY <1>2, <1>11, <3>1
    <3> QED BY <1>3, <3>1, <3>2 DEF q
  <2>2. CASE x \notin N
    BY <1>5, <1>6, <1>11, <2>2
  <2> QED BY <2>1, <2>2
<1>12. ASSUME NEW old \in shown[c], NEW x \in new, old.src = x.src PROVE old.n <= x.n
  <2>1. CASE x \in N
    BY <1>8, <1>12, <2>1
  <2>2. CASE x \notin N
    <3>1. old = x /\ x.n \in Nat
      BY <1>5, <1>6, <1>12, <2>2
    <3> QED BY <3>1
  <2> QED BY <2>1, <2>2
<1> QED BY <1>7, <1>10, <1>11, <1>12 DEF new, N, q

LEMMA RegisterKeepsStream ==
  ASSUME TypeOK, StreamInv, NEW p \in Conn, Register(p)
  PROVE  StreamInv'
<1>1. /\ stage[p] = "absent" /\ nextId' = nextId + 1 /\ nextId \in Nat \ {0}
      /\ serial'[p] = nextId /\ stage'[p] = IF p \in Senders THEN "arriving" ELSE "joined"
      /\ \A q \in Conn \ {p} : serial'[q] = serial[q] /\ stage'[q] = stage[q]
      /\ UNCHANGED <<closing, device, kept, hand, log, got, shown>>
  BY ServerAssumption DEF Register, TypeOK
<1>2. Senders \subseteq Conn /\ Clients \subseteq Conn /\ \A s \in Senders : serial[s] \in Nat
  BY ServerAssumption DEF Conn, TypeOK
<1>3. Numbering'
  <2>1. \A s \in Senders : serial[s] < nextId
    BY DEF StreamInv, Numbering
  <2>2. \A s \in Senders : s # p => s \in Conn \ {p}
    BY <1>2
  <2>3. \A s, t \in Senders : serial'[s] = serial'[t] /\ serial'[s] # 0 => s = t
    <3> SUFFICES ASSUME NEW s \in Senders, NEW t \in Senders, serial'[s] = serial'[t], serial'[s] # 0
                 PROVE  s = t
      OBVIOUS
    <3>1. CASE s = p
      BY <1>1, <1>2, <2>1, <2>2, <3>1
    <3>2. CASE t = p
      BY <1>1, <1>2, <2>1, <2>2, <3>2
    <3>3. CASE s # p /\ t # p
      BY <1>1, <2>2, <3>3 DEF StreamInv, Numbering
    <3> QED BY <3>1, <3>2, <3>3
  <2>4. ASSUME NEW s \in Senders
        PROVE  serial'[s] < nextId' /\ (serial'[s] = 0 <=> stage'[s] = "absent")
    <3>1. CASE s = p
      BY <1>1, <3>1
    <3>2. CASE s # p
      BY <1>1, <1>2, <2>1, <2>2, <3>2 DEF StreamInv, Numbering
    <3> QED BY <3>1, <3>2
  <2>5. ASSUME NEW c \in Clients
        PROVE  /\ \A k \in Serials : k >= nextId' => got'[c][k] = <<>>
               /\ \A x \in shown'[c] : x.src < nextId'
               /\ stage'[c] = "absent" => got'[c] = Nothing /\ shown'[c] = {}
    <3>1. \A k \in Serials : k >= nextId + 1 => k >= nextId
      BY <1>1, ServerAssumption DEF Serials
    <3>2. \A x \in shown[c] : x.src < nextId /\ x.src \in Nat
      BY DEF StreamInv, Numbering, TypeOK
    <3>3. \A x \in shown[c] : x.src < nextId + 1
      BY <1>1, <3>2
    <3>4. stage'[c] = "absent" => stage[c] = "absent"
      BY <1>1, <1>2
    <3> QED BY <1>1, <3>1, <3>3, <3>4 DEF StreamInv, Numbering
  <2> QED BY <2>3, <2>4, <2>5 DEF Numbering
<1>4. \A s \in Senders :
        /\ stage'[s] = "absent" => stage[s] = "absent"
        /\ stage'[s] = "stored" <=> stage[s] = "stored"
        /\ s # p => stage'[s] = stage[s]
  BY <1>1, <1>2
<1>5. Keeping'
  BY <1>1, <1>4 DEF StreamInv, Keeping
<1>6. Online' \subseteq Online \cup {p} /\ \A s \in Online' : s \in Senders /\ Done(s)' = Done(s)
  BY <1>1, <1>4 DEF Online, Registered, Done
<1>7. ASSUME NEW s \in Online', s \notin Online
      PROVE  /\ s = p /\ serial'[s] = nextId /\ Done(s) = 0
             /\ \A slot \in Slots : kept[s][slot] = <<>>
  <2>1. s = p /\ s \in Senders
    BY <1>6, <1>7
  <2>2. log[s] = <<>> /\ kept[s] = Empty
    BY <1>1, <2>1 DEF StreamInv, Keeping
  <2> QED BY <1>1, <2>1, <2>2 DEF Done, Empty
<1>8. \A s \in Online : s # p /\ serial'[s] = serial[s]
  BY <1>1, <1>2 DEF Online, Registered, Live
<1>9. ASSUME NEW c \in Clients, Attending(c)', NEW s \in Online'
      PROVE  /\ \A i, j \in 1 .. Done(s)' :
                  i < j /\ SlotOf(log'[s][i].kind) = SlotOf(log'[s][j].kind) /\ Received(c, s, log[s][i])'
                    => Received(c, s, log[s][j])'
             /\ stage'[c] = "serving" => \A slot \in Slots : \A i \in 1 .. Len(kept'[s][slot]) :
                  kept'[s][slot][i].n <= Done(s)' => Received(c, s, kept[s][slot][i])'
  <2>1. CASE s \notin Online
    BY <1>1, <1>6, <1>7, <2>1
  <2>2. CASE s \in Online
    <3>1. \A f : Received(c, s, f)' <=> Holds(got[c][serial[s]], f)
      BY <1>1, <1>8, <2>2 DEF Received, Holds
    <3>2. \A f : Received(c, s, f) <=> Holds(got[c][serial[s]], f)
      BY DEF Received, Holds
    <3>3. CASE c = p
      <4>1. got[c] = Nothing /\ stage'[c] = "joined"
        BY <1>1, <3>3, ServerAssumption DEF StreamInv, Numbering
      <4>2. got[c][serial[s]] = <<>>
        BY <2>2, <4>1, OnlineIsNumbered DEF StreamInv, Nothing
      <4>3. \A f : ~Received(c, s, f)'
        BY <3>1, <4>2 DEF Holds
      <4> QED BY <4>1, <4>3
    <3>4. CASE c # p
      <4>1. stage'[c] = stage[c]
        BY <1>1, <1>2, <3>4
      <4>2. Attending(c)
        BY <1>1, <1>9, <4>1 DEF Attending
      <4>3. \A f : Received(c, s, f)' <=> Received(c, s, f)
        BY <3>1, <3>2
      <4> QED BY <1>1, <1>6, <2>2, <4>1, <4>2, <4>3 DEF StreamInv, NoHole
    <3> QED BY <3>3, <3>4
  <2> QED BY <2>1, <2>2
<1>10. NoHole'
  BY <1>9 DEF NoHole
<1>11. Showing'
  <2>1. ASSUME NEW c \in Clients, NEW s \in Online', NEW x \in shown[c], x.src = serial'[s]
        PROVE  s \in Online
    <3>1. x.src < nextId /\ x.src \in Nat
      BY DEF StreamInv, Numbering, TypeOK
    <3> QED BY <1>1, <1>7, <2>1, <3>1
  <2> QED BY <1>1, <1>8, <2>1 DEF StreamInv, Showing
<1> QED BY <1>3, <1>5, <1>10, <1>11 DEF StreamInv

LEMMA RetireKeepsStream ==
  ASSUME TypeOK, StreamInv, NEW p \in Conn,
         (p \in Clients /\ RetireClient(p)) \/ (p \in Senders /\ RetireSender(p))
  PROVE  StreamInv'
<1>1. /\ stage[p] = "forgotten" /\ nextId' = nextId /\ hand' = hand
      /\ serial'[p] = 0 /\ stage'[p] = "absent"
      /\ \A q \in Conn \ {p} : serial'[q] = serial[q] /\ stage'[q] = stage[q]
  BY DEF RetireClient, RetireSender, Free, TypeOK
<1>2. closing \subseteq closing' \cup {p}
  BY DEF RetireClient, RetireSender, BroadcastRoster
<1>3. /\ p \in Senders => log'[p] = <<>> /\ kept'[p] = Empty
      /\ \A s \in Senders \ {p} : log'[s] = log[s] /\ kept'[s] = kept[s] /\ device'[s] = device[s]
  BY ServerAssumption DEF RetireClient, RetireSender, TypeOK
<1>4. /\ p \in Clients => got'[p] = Nothing /\ shown'[p] = {}
      /\ \A c \in Clients \ {p} : got'[c] = got[c] /\ shown'[c] = shown[c]
  BY ServerAssumption DEF RetireClient, RetireSender, TypeOK
<1>5. Senders \subseteq Conn /\ Clients \subseteq Conn
  BY DEF Conn
<1>6. \A s \in Senders : s # p => serial'[s] = serial[s] /\ stage'[s] = stage[s]
  BY <1>1, <1>5
<1>7. nextId \in Nat \ {0}
  BY ServerAssumption DEF TypeOK
<1>8. Numbering'
  <2>1. \A s, t \in Senders : serial'[s] = serial'[t] /\ serial'[s] # 0 => s = t
    BY <1>1, <1>6 DEF StreamInv, Numbering
  <2>2. \A s \in Senders : serial'[s] < nextId' /\ (serial'[s] = 0 <=> stage'[s] = "absent")
    BY <1>1, <1>6, <1>7 DEF StreamInv, Numbering
  <2>3. ASSUME NEW c \in Clients
        PROVE  /\ \A k \in Serials : k >= nextId' => got'[c][k] = <<>>
               /\ \A x \in shown'[c] : x.src < nextId'
               /\ stage'[c] = "absent" => got'[c] = Nothing /\ shown'[c] = {}
    <3>1. CASE c = p
      BY <1>4, <3>1 DEF Nothing
    <3>2. CASE c # p
      BY <1>1, <1>4, <1>5, <3>2 DEF StreamInv, Numbering
    <3> QED BY <3>1, <3>2
  <2> QED BY <2>1, <2>2, <2>3 DEF Numbering
<1>9. Keeping'
  <2> SUFFICES ASSUME NEW s \in Senders
               PROVE  /\ stage'[s] = "absent" => log'[s] = <<>> /\ kept'[s] = Empty
                      /\ log'[s] # <<>> => device'[s] # Unnamed
                      /\ Numbered(log'[s])
                      /\ \A slot \in Slots : Window(kept'[s][slot], log'[s], slot)
                      /\ Len(kept'[s]["sessions"]) <= 1
                      /\ stage'[s] = "stored" => log'[s] # <<>> /\ hand'[s] = <<log'[s][Len(log'[s])]>>
    BY DEF Keeping
  <2>1. CASE s = p
    <3>1. \A slot \in Slots : kept'[s][slot] = <<>>
      BY <1>3, <2>1 DEF Empty
    <3> QED BY <1>1, <1>3, <2>1, <3>1 DEF Numbered, Window, Slots
  <2>2. CASE s # p
    BY <1>1, <1>3, <1>6, <2>2 DEF StreamInv, Keeping
  <2> QED BY <2>1, <2>2
<1>10. \A s \in Online' : s \in Online /\ s \in Senders /\ s # p /\ Done(s)' = Done(s)
  BY <1>1, <1>3, <1>6 DEF Online, Registered, Done, Live
<1>11. \A c \in Clients : Attending(c)' => c # p /\ Attending(c) /\ stage'[c] = stage[c]
  BY <1>1, <1>2, <1>5 DEF Attending
<1>12. NoHole'
  <2> SUFFICES ASSUME NEW c \in Clients, Attending(c)', NEW s \in Online'
               PROVE  /\ \A i, j \in 1 .. Done(s)' :
                           i < j /\ SlotOf(log'[s][i].kind) = SlotOf(log'[s][j].kind) /\ Received(c, s, log[s][i])'
                             => Received(c, s, log[s][j])'
                      /\ stage'[c] = "serving" => \A slot \in Slots : \A i \in 1 .. Len(kept'[s][slot]) :
                           kept'[s][slot][i].n <= Done(s)' => Received(c, s, kept[s][slot][i])'
    BY DEF NoHole
  <2>1. c # p /\ Attending(c) /\ stage'[c] = stage[c] /\ s \in Online /\ s \in Senders /\ s # p
        /\ Done(s)' = Done(s) /\ log'[s] = log[s] /\ kept'[s] = kept[s]
    BY <1>3, <1>10, <1>11
  <2>2. \A f : Received(c, s, f)' <=> Holds(got'[c][serial'[s]], f)
    BY DEF Received, Holds
  <2>3. \A f : Holds(got'[c][serial'[s]], f) <=> Received(c, s, f)
    BY <1>4, <1>6, <2>1 DEF Received, Holds
  <2>4. \A f : Received(c, s, f)' <=> Received(c, s, f)
    BY <2>2, <2>3
  <2> QED BY <2>1, <2>4 DEF StreamInv, NoHole
<1>13. Showing'
  BY <1>3, <1>4, <1>6, <1>10 DEF StreamInv, Showing
<1> QED BY <1>8, <1>9, <1>12, <1>13 DEF StreamInv

LEMMA StoreKeepsStream ==
  ASSUME TypeOK, StreamInv, NEW s \in Senders, NEW kind \in Kinds, Store(s, kind)
  PROVE  StreamInv'
<1> DEFINE f == [kind |-> kind, n |-> Len(log[s]) + 1]
           slot == SlotOf(kind)
           q == kept[s][slot]
           m == Len(log[s])
           cap == Capacity(slot)
<1>1. f \in Frame /\ slot \in Slots /\ q \in Seq(Frame) /\ log[s] \in Seq(Frame) /\ m \in Nat
      /\ cap \in Nat \ {0} /\ f.n = m + 1 /\ f.kind = kind
  <2>1. slot \in Slots /\ cap \in Nat \ {0}
    BY ServerAssumption DEF SlotOf, Slots, Capacity
  <2>2. kept \in [Senders -> [Slots -> Seq(Frame)]] /\ log[s] \in Seq(Frame)
    BY DEF TypeOK
  <2>3. m \in Nat
    BY <2>2, LenProperties
  <2>4. f \in Frame /\ f.n = m + 1 /\ f.kind = kind
    BY <2>3, ServerAssumption DEF Frame
  <2> QED BY <2>1, <2>2, <2>3, <2>4
<1>2. /\ stage[s] = "serving" /\ device[s] # Unnamed /\ hand'[s] = <<f>>
      /\ kept' = [kept EXCEPT ![s][slot] = Push(@, f, cap)]
      /\ log' = [log EXCEPT ![s] = Append(@, f)]
      /\ stage' = [stage EXCEPT ![s] = "stored"]
      /\ hand' = [hand EXCEPT ![s] = <<f>>]
      /\ UNCHANGED <<serial, nextId, closing, device, got, shown>>
  BY DEF Store, TypeOK
<1> HIDE DEF f, slot, cap
<1>3. /\ kept'[s][slot] = Push(q, f, cap) /\ log'[s] = Append(log[s], f)
      /\ stage'[s] = "stored" /\ hand'[s] = <<f>>
      /\ \A x \in Slots \ {slot} : kept'[s][x] = kept[s][x]
  BY <1>1, <1>2 DEF TypeOK, Conn
<1>4. \A t \in Senders \ {s} : kept'[t] = kept[t] /\ log'[t] = log[t] /\ hand'[t] = hand[t] /\ stage'[t] = stage[t]
  BY <1>2 DEF TypeOK, Conn
<1>5. \A c \in Clients : stage'[c] = stage[c]
  BY <1>2, ServerAssumption DEF TypeOK, Conn
<1> DEFINE a == Append(log[s], f)
           p == Push(q, f, cap)
<1>6. a \in Seq(Frame) /\ Len(a) = m + 1 /\ a[m + 1] = f /\ \A i \in 1 .. m : a[i] = log[s][i]
  BY <1>1, AppendIs
<1>7. PICK d \in {0, 1} :
        /\ d = 1 => q # <<>>
        /\ Len(q) <= cap => Len(q) + 1 - d <= cap
        /\ Len(p) = Len(q) + 1 - d
        /\ \A i \in 1 .. Len(q) - d : p[i] = q[i + d]
        /\ p[Len(q) + 1 - d] = f
  <2> HIDE DEF q
  <2> QED BY <1>1, PushShape
<1>8. Len(q) \in Nat
  BY <1>1, LenProperties
<1>9. /\ Numbered(log[s]) /\ \A x \in Slots : Window(kept[s][x], log[s], x)
      /\ Len(kept[s]["sessions"]) <= 1
  BY DEF StreamInv, Keeping
<1>10. Window(p, a, slot) /\ \A x \in Slots : x # slot => Window(kept[s][x], a, x)
  <2>1. SlotOf(f.kind) = slot /\ q = kept[s][slot] /\ f.n = Len(log[s]) + 1
    BY <1>1 DEF slot
  <2> HIDE DEF q
  <2> QED BY <1>1, <1>9, <2>1, PushIsWindow, OtherWindow
<1> HIDE DEF a, p
<1>11. Numbered(a)
  <2>1. \A i \in 1 .. m + 1 : i \in 1 .. m \/ i = m + 1
    BY <1>1
  <2> QED BY <1>1, <1>6, <1>9, <2>1 DEF Numbered
<1>12. slot = "sessions" => p # <<>> /\ Len(p) = 1 /\ p[1] = f
  <2> HAVE slot = "sessions"
  <2>1. cap = 1 /\ Len(q) <= 1
    BY <1>9 DEF Capacity, cap
  <2>2. d = 1 => Len(q) > 0
    BY <1>1, <1>7, <1>8, EmptySeq
  <2>3. Len(q) + 1 - d = 1
    BY <1>7, <1>8, <2>1, <2>2
  <2>4. Len(<<>>) = 0
    OBVIOUS
  <2>5. p # <<>>
    BY <1>7, <2>3, <2>4
  <2> QED BY <1>7, <2>3, <2>5
<1>13. Numbering'
  <2>1. \A t \in Senders : stage'[t] = "absent" <=> stage[t] = "absent"
    BY <1>2, <1>3, <1>4
  <2> QED BY <1>2, <1>5, <2>1 DEF StreamInv, Numbering
<1>14. Keeping'
  <2> SUFFICES ASSUME NEW t \in Senders
               PROVE  /\ stage'[t] = "absent" => log'[t] = <<>> /\ kept'[t] = Empty
                      /\ log'[t] # <<>> => device'[t] # Unnamed
                      /\ Numbered(log'[t])
                      /\ \A x \in Slots : Window(kept'[t][x], log'[t], x)
                      /\ Len(kept'[t]["sessions"]) <= 1
                      /\ stage'[t] = "stored" => log'[t] # <<>> /\ hand'[t] = <<log'[t][Len(log'[t])]>>
    BY DEF Keeping
  <2>1. CASE t # s
    BY <1>2, <1>4, <2>1 DEF StreamInv, Keeping
  <2>2. CASE t = s
    <3>1. log'[s] = a /\ kept'[s][slot] = p
      BY <1>3 DEF a, p
    <3>2. \A x \in Slots : Window(kept'[s][x], a, x)
      BY <1>3, <1>10, <3>1
    <3>3. Len(kept'[s]["sessions"]) <= 1
      <4>1. CASE slot = "sessions"
        <5>1. kept'[s]["sessions"] = p
          BY <3>1, <4>1
        <5>2. Len(p) = 1
          BY <1>12, <4>1
        <5> QED BY <5>1, <5>2
      <4>2. CASE slot # "sessions"
        BY <1>3, <1>9, <4>2 DEF Slots
      <4> QED BY <4>1, <4>2
    <3>4. a # <<>> /\ a[Len(a)] = f
      BY <1>1, <1>6
    <3> QED BY <1>2, <1>3, <1>11, <2>2, <3>1, <3>2, <3>3, <3>4
  <2> QED BY <2>1, <2>2
<1>15. Online' = Online /\ s \in Online /\ \A t \in Online : t \in Senders
  BY <1>2, <1>3, <1>4, <1>5 DEF Online, Registered, Live, Conn
<1>16. \A t \in Online : Done(t)' = Done(t)
  <2>1. Done(s)' = Done(s)
    BY <1>1, <1>2, <1>3, <1>6 DEF Done, a
  <2> QED BY <1>4, <1>15, <2>1 DEF Done
<1>17. \A c \in Clients : \A t, x : Received(c, t, x)' <=> Received(c, t, x)
  BY <1>2 DEF Received
<1>18. \A c \in Clients : Attending(c)' <=> Attending(c)
  BY <1>2, <1>5 DEF Attending
<1>19. ASSUME NEW t \in Online
       PROVE  /\ \A i \in 1 .. Done(t) : log'[t][i] = log[t][i]
              /\ \A x \in Slots : \A i \in 1 .. Len(kept'[t][x]) :
                   kept'[t][x][i].n <= Done(t) => \E k \in 1 .. Len(kept[t][x]) : kept'[t][x][i] = kept[t][x][k]
  <2>1. CASE t # s
    BY <1>4, <1>15, <2>1
  <2>2. CASE t = s
    <3>1. Done(s) = m
      BY <1>2 DEF Done
    <3>2. \A i \in 1 .. m : log'[s][i] = log[s][i]
      BY <1>3, <1>6 DEF a
    <3>3. ASSUME NEW i \in 1 .. Len(p), p[i].n <= m PROVE \E k \in 1 .. Len(q) : p[i] = q[k]
      <4>1. i # Len(q) + 1 - d
        BY <1>1, <1>7, <3>3
      <4>2. i \in 1 .. Len(q) - d /\ i + d \in 1 .. Len(q)
        BY <1>7, <1>8, <4>1
      <4> QED BY <1>7, <4>2
    <3>4. kept'[s][slot] = p
      BY <1>3 DEF p
    <3>5. ASSUME NEW x \in Slots, NEW i \in 1 .. Len(kept'[s][x]), kept'[s][x][i].n <= m
          PROVE  \E k \in 1 .. Len(kept[s][x]) : kept'[s][x][i] = kept[s][x][k]
      <4>1. CASE x = slot
        BY <3>3, <3>4, <3>5, <4>1
      <4>2. CASE x # slot
        BY <1>3, <4>2
      <4> QED BY <4>1, <4>2
    <3> QED BY <2>2, <3>1, <3>2, <3>5
  <2> QED BY <2>1, <2>2
<1>20. NoHole'
  <2> SUFFICES ASSUME NEW c \in Clients, Attending(c), NEW t \in Online
               PROVE  /\ \A i, j \in 1 .. Done(t) :
                           i < j /\ SlotOf(log'[t][i].kind) = SlotOf(log'[t][j].kind) /\ Received(c, t, log'[t][i])
                             => Received(c, t, log'[t][j])
                      /\ stage[c] = "serving" => \A x \in Slots : \A i \in 1 .. Len(kept'[t][x]) :
                           kept'[t][x][i].n <= Done(t) => Received(c, t, kept'[t][x][i])
    BY <1>5, <1>15, <1>16, <1>17, <1>18 DEF NoHole
  <2>1. /\ \A i, j \in 1 .. Done(t) :
             i < j /\ SlotOf(log[t][i].kind) = SlotOf(log[t][j].kind) /\ Received(c, t, log[t][i])
               => Received(c, t, log[t][j])
        /\ stage[c] = "serving" => \A x \in Slots : \A i \in 1 .. Len(kept[t][x]) :
             kept[t][x][i].n <= Done(t) => Received(c, t, kept[t][x][i])
    BY DEF StreamInv, NoHole
  <2> QED BY <1>19, <2>1
<1>21. Showing'
  <2> SUFFICES ASSUME NEW c \in Clients
               PROVE  /\ \A x, y \in shown[c] : x.src = y.src => x = y
                      /\ \A t \in Online : \A x \in shown[c] : x.src = serial[t] =>
                           /\ x.device = device[t] /\ x.device # Unnamed
                           /\ kept'[t]["sessions"] # <<>> /\ x.n <= kept'[t]["sessions"][1].n
    BY <1>2, <1>15 DEF Showing
  <2>1. \A x, y \in shown[c] : x.src = y.src => x = y
    BY DEF StreamInv, Showing
  <2>2. ASSUME NEW t \in Online, NEW x \in shown[c], x.src = serial[t]
        PROVE  /\ x.device = device[t] /\ x.device # Unnamed
               /\ kept'[t]["sessions"] # <<>> /\ x.n <= kept'[t]["sessions"][1].n
    <3>1. /\ x.device = device[t] /\ x.device # Unnamed /\ x.n \in Nat
          /\ kept[t]["sessions"] # <<>> /\ x.n <= kept[t]["sessions"][1].n
      BY <2>2 DEF StreamInv, Showing, TypeOK
    <3>2. CASE t = s /\ slot = "sessions"
      <4>1. kept'[s]["sessions"] = p /\ p # <<>> /\ p[1] = f
        BY <1>3, <1>12, <3>2 DEF p
      <4>2. 1 \in 1 .. Len(kept[s]["sessions"])
        BY <1>1, <1>8, <3>1, <3>2, EmptySeq
      <4>3. kept[s]["sessions"][1].n \in 1 .. m
        BY <1>9, <4>2 DEF Window, Slots
      <4> QED BY <1>1, <3>1, <3>2, <4>1, <4>3
    <3>3. CASE t = s /\ slot # "sessions"
      BY <1>3, <3>1, <3>3 DEF Slots
    <3>4. CASE t # s
      BY <1>4, <1>15, <3>1, <3>4
    <3> QED BY <3>2, <3>3, <3>4
  <2> QED BY <2>1, <2>2
<1> QED BY <1>13, <1>14, <1>20, <1>21 DEF StreamInv

\* What a step newly shows to a client comes from the lists that are kept.
LEMMA ShowingStep ==
  ASSUME TypeOK, StreamInv, nextId' = nextId,
         \A s \in Online' : s \in Online /\ serial'[s] = serial[s] /\ device'[s] = device[s] /\ kept'[s] = kept[s],
         NEW c \in Clients,
         \/ shown'[c] = shown[c]
         \/ \E S \in SUBSET Online :
              /\ \A s \in S : kept[s]["sessions"] # <<>>
              /\ shown'[c] = ShowLists(shown[c], {SessionList(s, kept[s]["sessions"][1]) : s \in S})
  PROVE  /\ \A x \in shown'[c] : x.src < nextId'
         /\ \A x, y \in shown'[c] : x.src = y.src => x = y
         /\ \A s \in Online' : \A x \in shown'[c] : x.src = serial'[s] =>
              /\ x.device = device'[s] /\ x.device # Unnamed
              /\ kept'[s]["sessions"] # <<>> /\ x.n <= kept'[s]["sessions"][1].n
         /\ \A old \in shown[c], new \in shown'[c] : old.src = new.src => old.n <= new.n
<1>1. CASE shown'[c] = shown[c]
  <2>1. \A x \in shown[c] : x.n \in Nat /\ x.src < nextId
    BY DEF StreamInv, Numbering, TypeOK
  <2>2. \A x, y \in shown[c] : x.src = y.src => x = y
    BY DEF StreamInv, Showing
  <2>3. \A old \in shown[c], new \in shown[c] : old.src = new.src => old.n <= new.n
    BY <2>1, <2>2
  <2> QED BY <1>1, <2>1, <2>2, <2>3 DEF StreamInv, Showing
<1>2. ASSUME NEW S \in SUBSET Online, \A s \in S : kept[s]["sessions"] # <<>>,
             shown'[c] = ShowLists(shown[c], {SessionList(s, kept[s]["sessions"][1]) : s \in S})
      PROVE  /\ \A x \in shown'[c] : x.src < nextId
             /\ \A x, y \in shown'[c] : x.src = y.src => x = y
             /\ \A s \in Online : \A x \in shown'[c] : x.src = serial[s] =>
                  /\ x.device = device[s] /\ x.device # Unnamed
                  /\ kept[s]["sessions"] # <<>> /\ x.n <= kept[s]["sessions"][1].n
             /\ \A old \in shown[c], new \in shown'[c] : old.src = new.src => old.n <= new.n
  <2> DEFINE n == ShowLists(shown[c], {SessionList(s, kept[s]["sessions"][1]) : s \in S})
  <2>1. /\ \A x \in n : x.src < nextId
        /\ \A x, y \in n : x.src = y.src => x = y
        /\ \A s \in Online : \A x \in n : x.src = serial[s] =>
             /\ x.device = device[s] /\ x.device # Unnamed
             /\ kept[s]["sessions"] # <<>> /\ x.n <= kept[s]["sessions"][1].n
        /\ \A old \in shown[c], x \in n : old.src = x.src => old.n <= x.n
    BY <1>2, ShownIsSound
  <2>2. shown'[c] = n
    BY <1>2
  <2> HIDE DEF n
  <2> QED BY <2>1, <2>2
<1> QED BY <1>1, <1>2

\* The list in hand is the one that is kept.
LEMMA HandIsKept ==
  ASSUME TypeOK, StreamInv, NEW s \in Senders, stage[s] = "stored"
  PROVE  LET f == Head(hand[s])
         IN  /\ f \in Frame /\ Len(log[s]) \in Nat \ {0} /\ f = log[s][Len(log[s])] /\ f.n = Len(log[s])
             /\ f.kind = "sessions" => kept[s]["sessions"] # <<>> /\ kept[s]["sessions"][1] = f
<1> DEFINE f == Head(hand[s])
           q == kept[s]["sessions"]
           m == Len(log[s])
<1>1. /\ log[s] \in Seq(Frame) /\ log[s] # <<>> /\ q \in Seq(Frame) /\ Numbered(log[s])
      /\ Window(q, log[s], "sessions") /\ Len(q) <= 1 /\ hand[s] = <<log[s][m]>>
  BY DEF StreamInv, Keeping, TypeOK, Slots
<1>2. m \in Nat \ {0} /\ m \in 1 .. m /\ f = log[s][m]
  BY <1>1, EmptySeq, LenProperties
<1>3. f \in Frame /\ f.n = m
  BY <1>1, <1>2, ElementOfSeq DEF Numbered
<1>4. ASSUME f.kind = "sessions" PROVE q # <<>> /\ q[1] = f
  <2>1. SlotOf(log[s][m].kind) = "sessions"
    BY <1>2, <1>4 DEF SlotOf
  <2>2. q # <<>> /\ (m < q[1].n \/ \E k \in 1 .. Len(q) : q[k] = log[s][m])
    BY <1>1, <1>2, <2>1 DEF Window
  <2>3. Len(q) = 1
    <3>1. Len(q) \in Nat /\ Len(q) # 0
      BY <1>1, <2>2, EmptySeq, LenProperties
    <3>2. Len(q) <= 1
      BY <1>1
    <3>3. \A n \in Nat : n # 0 /\ n <= 1 => n = 1
      OBVIOUS
    <3> HIDE DEF q
    <3> QED BY <3>1, <3>2, <3>3, Zenon
  <2>4. q[1].n \in 1 .. m
    BY <1>1, <2>3 DEF Window
  <2>5. ~(m < q[1].n)
    BY <1>2, <2>4
  <2> QED BY <1>2, <2>2, <2>3, <2>5
<1> QED BY <1>2, <1>3, <1>4

LEMMA CastShows ==
  ASSUME TypeOK, StreamInv, NEW s \in Senders, Cast(s), NEW c \in Clients
  PROVE  \/ shown'[c] = shown[c]
         \/ \E S \in SUBSET Online :
              /\ \A t \in S : kept[t]["sessions"] # <<>>
              /\ shown'[c] = ShowLists(shown[c], {SessionList(t, kept[t]["sessions"][1]) : t \in S})
<1> DEFINE f == Head(hand[s])
<1>1. stage[s] = "stored" /\ s \in Online
  BY DEF Cast, Online, Registered, Live, Conn
<1>2. f.kind = "sessions" => kept[s]["sessions"] # <<>> /\ kept[s]["sessions"][1] = f
  BY <1>1, HandIsKept
<1>3. \/ shown'[c] = shown[c]
      \/ f.kind = "sessions" /\ shown'[c] = ShowLists(shown[c], {SessionList(s, f)})
  BY DEF Cast
<1> HIDE DEF f
<1>4. {SessionList(t, kept[t]["sessions"][1]) : t \in {s}} = {SessionList(s, kept[s]["sessions"][1])}
  OBVIOUS
<1>5. {s} \in SUBSET Online
  BY <1>1
<1> QED BY <1>2, <1>3, <1>4, <1>5

LEMMA CastKeepsStream ==
  ASSUME TypeOK, StreamInv, NEW s \in Senders, Cast(s)
  PROVE  StreamInv'
<1> DEFINE f == Head(hand[s])
           e == [frame |-> f, nested |-> FALSE]
           m == Len(log[s])
<1>1. stage[s] = "stored" /\ UNCHANGED <<serial, nextId, device, kept, log>>
  BY DEF Cast
<1>2. f \in Frame /\ m \in Nat \ {0} /\ f = log[s][m] /\ f.n = m /\ e \in Delivery /\ e.frame = f
  BY <1>1, HandIsKept DEF Delivery
<1>3. PICK failed \in SUBSET Audience :
        /\ closing' = closing \cup failed
        /\ got' = [c \in Clients |->
                     IF c \in Audience \ failed THEN [got[c] EXCEPT ![serial[s]] = Append(@, e)] ELSE got[c]]
  BY DEF Cast
<1>4. PICK x \in {"serving", "leaving"} : stage' = [stage EXCEPT ![s] = x]
  BY DEF Cast, AfterMessage
<1>5. /\ stage'[s] = x /\ \A t \in Senders : t # s => stage'[t] = stage[t] /\ hand'[t] = hand[t]
      /\ \A c \in Clients : stage'[c] = stage[c]
  BY <1>4, ServerAssumption DEF TypeOK, Conn, Cast
<1>6. Online' = Online /\ s \in Online /\ \A t \in Online : t \in Senders
  BY <1>1, <1>5 DEF Online, Registered, Live, Conn
<1>7. \A t \in Online : serial[t] \in Serials /\ (t # s => serial[t] # serial[s])
  BY <1>6, OnlineIsNumbered, ServerAssumption DEF StreamInv, Numbering, Serials
<1> HIDE DEF f, e
<1>8. \A c \in Clients : Attending(c)' => Attending(c) /\ c \in Audience \ failed
  BY <1>3, <1>5 DEF Attending, Audience, Registered, Live, Conn
<1>9. \A c \in Clients : \A k \in Serials : k # serial[s] => got'[c][k] = got[c][k]
  BY <1>3 DEF TypeOK
<1>10. Numbering'
  <2>1. \A t \in Senders : stage'[t] = "absent" <=> stage[t] = "absent"
    BY <1>1, <1>5
  <2>2. ASSUME NEW c \in Clients, NEW k \in Serials, k >= nextId PROVE got'[c][k] = <<>>
    <3>1. k # serial[s] /\ got[c][k] = <<>>
      BY <1>6, <2>2, OnlineIsNumbered DEF StreamInv, Numbering, Serials
    <3> QED BY <1>9, <3>1
  <2>3. ASSUME NEW c \in Clients PROVE \A y \in shown'[c] : y.src < nextId'
    <3>1. \A t \in Online' : t \in Online /\ serial'[t] = serial[t] /\ device'[t] = device[t] /\ kept'[t] = kept[t]
      BY <1>1, <1>6
    <3>2. nextId' = nextId
      BY <1>1
    <3> QED BY <3>1, <3>2, CastShows, ShowingStep
  <2>4. ASSUME NEW c \in Clients, stage'[c] = "absent" PROVE got'[c] = Nothing /\ shown'[c] = {}
    <3>1. stage[c] = "absent" /\ c \notin Audience
      BY <1>5, <2>4 DEF Audience, Registered, Live
    <3>2. shown'[c] = shown[c]
      BY <3>1 DEF Cast
    <3> QED BY <1>3, <3>1, <3>2 DEF StreamInv, Numbering
  <2> QED BY <1>1, <2>1, <2>2, <2>3, <2>4 DEF StreamInv, Numbering
<1>11. Keeping'
  BY <1>1, <1>5 DEF StreamInv, Keeping
<1>12. Done(s) = m - 1 /\ Done(s)' = m /\ \A t \in Online : t # s => Done(t)' = Done(t)
  BY <1>1, <1>5, <1>6 DEF Done
<1>13. ASSUME NEW c \in Clients, Attending(c)', NEW t \in Online
       PROVE  /\ \A i, j \in 1 .. Done(t)' :
                   i < j /\ SlotOf(log[t][i].kind) = SlotOf(log[t][j].kind) /\ Holds(got'[c][serial[t]], log[t][i])
                     => Holds(got'[c][serial[t]], log[t][j])
              /\ stage'[c] = "serving" => \A slot \in Slots : \A i \in 1 .. Len(kept[t][slot]) :
                   kept[t][slot][i].n <= Done(t)' => Holds(got'[c][serial[t]], kept[t][slot][i])
  <2>1. Attending(c) /\ c \in Audience \ failed /\ stage'[c] = stage[c]
    BY <1>5, <1>8, <1>13
  <2>2. /\ \A i, j \in 1 .. Done(t) :
             i < j /\ SlotOf(log[t][i].kind) = SlotOf(log[t][j].kind) /\ Received(c, t, log[t][i])
               => Received(c, t, log[t][j])
        /\ stage[c] = "serving" => \A slot \in Slots : \A i \in 1 .. Len(kept[t][slot]) :
             kept[t][slot][i].n <= Done(t) => Received(c, t, kept[t][slot][i])
    BY <2>1 DEF StreamInv, NoHole
  <2>3. \A g : Received(c, t, g) <=> Holds(got[c][serial[t]], g)
    BY DEF Received, Holds
  <2>4. CASE t # s
    <3>1. got'[c][serial[t]] = got[c][serial[t]]
      BY <1>7, <1>9, <2>4
    <3> QED BY <1>12, <2>1, <2>2, <2>3, <2>4, <3>1
  <2>5. CASE t = s
    <3>1. got[c][serial[s]] \in Seq(Delivery) /\ got'[c][serial[s]] = Append(got[c][serial[s]], e)
      BY <1>3, <1>6, <1>7, <2>1 DEF TypeOK
    <3>2. \A g : Holds(got'[c][serial[s]], g) <=> Received(c, s, g) \/ g = f
      <4> TAKE g
      <4> DEFINE q == got[c][serial[s]]
      <4>1. q \in Seq(Delivery) /\ e \in Delivery
        BY <1>2, <3>1
      <4> HIDE DEF q
      <4>2. Holds(Append(q, e), g) <=> Holds(q, g) \/ e.frame = g
        BY <4>1, HoldsAppend
      <4> QED BY <1>2, <2>3, <2>5, <3>1, <4>2 DEF q
    <3>3. \A i \in 1 .. m : log[s][i].n = i
      BY <1>6 DEF StreamInv, Keeping, Numbered
    <3>4. \A i \in 1 .. m : i = m \/ (i \in 1 .. Done(s) /\ log[s][i] # f)
      BY <1>2, <1>12, <3>3
    <3>5. ASSUME NEW i \in 1 .. m, NEW j \in 1 .. m, i < j,
                 SlotOf(log[s][i].kind) = SlotOf(log[s][j].kind), Holds(got'[c][serial[s]], log[s][i])
          PROVE  Holds(got'[c][serial[s]], log[s][j])
      <4>1. CASE j = m
        BY <1>2, <3>2, <4>1
      <4>2. CASE j # m
        <5>1. i # m
          BY <1>2, <3>5
        <5> QED BY <2>2, <2>5, <3>2, <3>4, <3>5, <4>2, <5>1
      <4> QED BY <4>1, <4>2
    <3>6. ASSUME stage'[c] = "serving", NEW slot \in Slots, NEW i \in 1 .. Len(kept[s][slot]), kept[s][slot][i].n <= m
          PROVE  Holds(got'[c][serial[s]], kept[s][slot][i])
      <4> DEFINE g == kept[s][slot][i]
      <4>1. g.n \in 1 .. m /\ g = log[s][g.n]
        BY <1>6 DEF StreamInv, Keeping, Window
      <4>2. CASE g.n = m
        BY <1>2, <3>2, <4>1, <4>2
      <4>3. CASE g.n # m
        <5>1. g.n <= Done(s)
          BY <1>2, <1>12, <4>1, <4>3
        <5> QED BY <2>1, <2>2, <2>5, <3>2, <3>6, <5>1
      <4> QED BY <4>2, <4>3
    <3> QED BY <1>12, <2>5, <3>5, <3>6
  <2> QED BY <2>4, <2>5
<1>14. NoHole'
  <2> SUFFICES ASSUME NEW c \in Clients, Attending(c)', NEW t \in Online
               PROVE  /\ \A i, j \in 1 .. Done(t)' :
                           i < j /\ SlotOf(log[t][i].kind) = SlotOf(log[t][j].kind) /\ Received(c, t, log[t][i])'
                             => Received(c, t, log[t][j])'
                      /\ stage'[c] = "serving" => \A slot \in Slots : \A i \in 1 .. Len(kept[t][slot]) :
                           kept[t][slot][i].n <= Done(t)' => Received(c, t, kept[t][slot][i])'
    BY <1>1, <1>6 DEF NoHole
  <2> QED BY <1>1, <1>13 DEF Received, Holds
<1>15. Showing'
  <2>1. \A t \in Online' : t \in Online /\ serial'[t] = serial[t] /\ device'[t] = device[t] /\ kept'[t] = kept[t]
    BY <1>1, <1>6
  <2>2. nextId' = nextId
    BY <1>1
  <2> QED BY <2>1, <2>2, CastShows, ShowingStep DEF Showing
<1> QED BY <1>10, <1>11, <1>14, <1>15 DEF StreamInv

\* What a catch-up sends, and to whom: with nobody failing, whole backlogs.
LEMMA CatchUpSends ==
  ASSUME TypeOK, StreamInv, NEW c \in Clients, CatchUp(c)
  PROVE  /\ stage[c] = "joined" /\ stage' = [stage EXCEPT ![c] = "serving"]
         /\ UNCHANGED <<serial, nextId, device, kept, hand, log>>
         /\ closing \subseteq closing' /\ \A b \in Clients : b # c => (b \in closing' <=> b \in closing)
         /\ \A b \in Clients \ {c} : got'[b] = got[b] /\ shown'[b] = shown[b]
         /\ \A k \in Serials : (\A s \in Online : serial[s] # k) => got'[c][k] = got[c][k]
         /\ c \notin closing' => \A s \in Online : got'[c][serial[s]] = got[c][serial[s]] \o Backlog(s)
<1>1. PICK reach \in Reach, listed \in BOOLEAN :
        /\ closing' = IF listed /\ Complete(reach) THEN closing ELSE closing \cup {c}
        /\ got' = [got EXCEPT ![c] = [k \in Serials |->
                        IF \E s \in Online : serial[s] = k
                        THEN LET s == CHOOSE s \in Online : serial[s] = k
                             IN  got[c][k] \o SubSeq(Backlog(s), 1, reach[s])
                        ELSE got[c][k]]]
  BY DEF CatchUp
<1>2. stage[c] = "joined" /\ stage' = [stage EXCEPT ![c] = "serving"]
  BY DEF CatchUp
<1>3. UNCHANGED <<serial, nextId, device, kept, hand, log>>
  BY DEF CatchUp
<1>4. \A b \in Clients \ {c} : got'[b] = got[b] /\ shown'[b] = shown[b]
  BY DEF CatchUp, TypeOK
<1>5. closing \subseteq closing' /\ \A b \in Clients : b # c => (b \in closing' <=> b \in closing)
  BY <1>1
<1>6. \A k \in Serials : (\A s \in Online : serial[s] # k) => got'[c][k] = got[c][k]
  BY <1>1 DEF TypeOK
<1>7. ASSUME c \notin closing', NEW s \in Online
      PROVE  got'[c][serial[s]] = got[c][serial[s]] \o Backlog(s)
  <2>1. Complete(reach)
    BY <1>1, <1>7
  <2>2. s \in Senders /\ serial[s] \in Serials
    BY OnlineIsNumbered DEF StreamInv
  <2>3. \A t \in Online : serial[t] = serial[s] => t = s
    BY <2>2, OnlineIsNumbered, ServerAssumption DEF StreamInv, Numbering, Serials
  <2>4. (CHOOSE t \in Online : serial[t] = serial[s]) = s
    BY <2>3
  <2>5. got'[c][serial[s]] = got[c][serial[s]] \o SubSeq(Backlog(s), 1, reach[s])
    BY <1>1, <2>2, <2>4 DEF TypeOK
  <2>6. SubSeq(Backlog(s), 1, Len(Backlog(s))) = Backlog(s)
    BY <2>2, HoldsBacklog, SubSeqFull
  <2> QED BY <2>1, <2>5, <2>6 DEF Complete
<1> QED BY <1>2, <1>3, <1>4, <1>5, <1>6, <1>7

LEMMA CatchUpShows ==
  ASSUME TypeOK, StreamInv, NEW c \in Clients, CatchUp(c), NEW b \in Clients
  PROVE  \/ shown'[b] = shown[b]
         \/ \E S \in SUBSET Online :
              /\ \A t \in S : kept[t]["sessions"] # <<>>
              /\ shown'[b] = ShowLists(shown[b], {SessionList(t, kept[t]["sessions"][1]) : t \in S})
<1>1. CASE b # c
  BY <1>1 DEF CatchUp, TypeOK
<1>2. CASE b = c
  <2>1. PICK reach \in Reach :
          LET lists == {s \in Online : reach[s] > 0 /\ kept[s]["sessions"] # <<>>}
              final == {s \in lists : \A t \in lists : device[t] = device[s] => serial[s] <= serial[t]}
          IN  shown' = [shown EXCEPT ![c] = ShowLists(@,
                          {SessionList(s, Head(kept[s]["sessions"])) : s \in final})]
    BY DEF CatchUp
  <2> DEFINE lists == {s \in Online : reach[s] > 0 /\ kept[s]["sessions"] # <<>>}
             final == {s \in lists : \A t \in lists : device[t] = device[s] => serial[s] <= serial[t]}
  <2>2. final \in SUBSET Online /\ \A t \in final : kept[t]["sessions"] # <<>>
    OBVIOUS
  <2>3. shown'[c] = ShowLists(shown[c], {SessionList(s, Head(kept[s]["sessions"])) : s \in final})
    BY <2>1 DEF TypeOK
  <2> HIDE DEF final
  <2>4. \A t \in final : Head(kept[t]["sessions"]) = kept[t]["sessions"][1]
    BY <2>2
  <2>5. {SessionList(s, Head(kept[s]["sessions"])) : s \in final}
          = {SessionList(s, kept[s]["sessions"][1]) : s \in final}
    BY <2>4
  <2> QED BY <1>2, <2>2, <2>3, <2>5
<1> QED BY <1>1, <1>2

\* The backlog is closed towards the newer frames of a kind.
LEMMA BacklogIsWindow ==
  ASSUME TypeOK, StreamInv, NEW s \in Senders, NEW i \in 1 .. Len(log[s]), NEW j \in 1 .. Len(log[s]), i < j,
         SlotOf(log[s][i].kind) = SlotOf(log[s][j].kind), Holds(Backlog(s), log[s][i])
  PROVE  Holds(Backlog(s), log[s][j])
<1>0. PICK slot \in Slots : \E k \in 1 .. Len(kept[s][slot]) : kept[s][slot][k] = log[s][i]
  BY HoldsBacklog
<1>1. PICK k \in 1 .. Len(kept[s][slot]) : kept[s][slot][k] = log[s][i]
  BY <1>0
<1>2. Window(kept[s][slot], log[s], slot) /\ Numbered(log[s]) /\ kept[s][slot] \in Seq(Frame)
  BY DEF StreamInv, Keeping, TypeOK
<1> DEFINE q == kept[s][slot]
           l == log[s]
<1>3. SlotOf(l[j].kind) = slot /\ l[i].n = i
  BY <1>1, <1>2 DEF Window, Numbered
<1>4. 1 \in 1 .. Len(q) /\ k \in 1 .. Len(q)
  BY <1>1, <1>2, LenProperties
<1> HIDE DEF q, l
<1>5. q[1].n \in 1 .. Len(l) /\ q[k].n = i /\ i \in Nat /\ j \in Nat
  BY <1>1, <1>2, <1>3, <1>4 DEF Window, q, l
<1>6. q[1].n <= q[k].n
  <2>1. k = 1 \/ 1 < k
    BY <1>4
  <2> QED BY <1>2, <1>4, <1>5, <2>1 DEF Window, q
<1>7. j < q[1].n \/ \E x \in 1 .. Len(q) : q[x] = l[j]
  BY <1>2, <1>3 DEF Window, q, l
<1>8. \E x \in 1 .. Len(q) : q[x] = l[j]
  BY <1>5, <1>6, <1>7
<1> QED BY <1>8, HoldsBacklog DEF q, l

LEMMA CatchUpKeepsStream ==
  ASSUME TypeOK, StreamInv, NEW c \in Clients, CatchUp(c)
  PROVE  StreamInv'
<1>1. /\ stage[c] = "joined" /\ stage' = [stage EXCEPT ![c] = "serving"]
      /\ UNCHANGED <<serial, nextId, device, kept, hand, log>>
      /\ closing \subseteq closing' /\ \A b \in Clients : b # c => (b \in closing' <=> b \in closing)
      /\ \A b \in Clients \ {c} : got'[b] = got[b] /\ shown'[b] = shown[b]
      /\ \A k \in Serials : (\A s \in Online : serial[s] # k) => got'[c][k] = got[c][k]
      /\ c \notin closing' => \A s \in Online : got'[c][serial[s]] = got[c][serial[s]] \o Backlog(s)
  BY CatchUpSends
<1>2. /\ stage'[c] = "serving" /\ \A b \in Clients : b # c => stage'[b] = stage[b]
      /\ \A s \in Senders : stage'[s] = stage[s]
  BY <1>1, ServerAssumption DEF TypeOK, Conn
<1>3. Online' = Online /\ \A s \in Online : s \in Senders /\ Done(s)' = Done(s)
  BY <1>1, <1>2 DEF Online, Registered, Done, Conn
<1>4. \A s \in Online' : s \in Online /\ serial'[s] = serial[s] /\ device'[s] = device[s] /\ kept'[s] = kept[s]
  BY <1>1, <1>3
<1>5. nextId' = nextId
  BY <1>1
<1>6. Numbering'
  <2>1. ASSUME NEW b \in Clients, NEW k \in Serials, k >= nextId PROVE got'[b][k] = <<>>
    <3>1. got[b][k] = <<>> /\ \A s \in Online : serial[s] # k
      BY <2>1, OnlineIsNumbered DEF StreamInv, Numbering, Serials
    <3> QED BY <1>1, <3>1
  <2>2. \A b \in Clients : \A y \in shown'[b] : y.src < nextId'
    BY <1>4, <1>5, CatchUpShows, ShowingStep
  <2>3. ASSUME NEW b \in Clients, stage'[b] = "absent" PROVE got'[b] = Nothing /\ shown'[b] = {}
    <3>1. b # c /\ stage[b] = "absent"
      BY <1>2, <2>3
    <3> QED BY <1>1, <3>1 DEF StreamInv, Numbering
  <2> QED BY <1>1, <1>2, <2>1, <2>2, <2>3 DEF StreamInv, Numbering
<1>7. Keeping'
  BY <1>1, <1>2 DEF StreamInv, Keeping
<1>8. \A b \in Clients : Attending(b)' => Attending(b)
  BY <1>1, <1>2 DEF Attending
<1>9. ASSUME NEW b \in Clients, Attending(b)', NEW t \in Online
      PROVE  /\ \A i, j \in 1 .. Done(t) :
                  i < j /\ SlotOf(log[t][i].kind) = SlotOf(log[t][j].kind) /\ Holds(got'[b][serial[t]], log[t][i])
                    => Holds(got'[b][serial[t]], log[t][j])
             /\ stage'[b] = "serving" => \A slot \in Slots : \A i \in 1 .. Len(kept[t][slot]) :
                  kept[t][slot][i].n <= Done(t) => Holds(got'[b][serial[t]], kept[t][slot][i])
  <2>1. /\ \A i, j \in 1 .. Done(t) :
             i < j /\ SlotOf(log[t][i].kind) = SlotOf(log[t][j].kind) /\ Received(b, t, log[t][i])
               => Received(b, t, log[t][j])
        /\ stage[b] = "serving" => \A slot \in Slots : \A i \in 1 .. Len(kept[t][slot]) :
             kept[t][slot][i].n <= Done(t) => Received(b, t, kept[t][slot][i])
    BY <1>8, <1>9 DEF StreamInv, NoHole
  <2>2. \A g : Received(b, t, g) <=> Holds(got[b][serial[t]], g)
    BY DEF Received, Holds
  <2>3. CASE b # c
    BY <1>1, <1>2, <2>1, <2>2, <2>3
  <2>4. CASE b = c
    <3>1. c \notin closing' /\ t \in Senders /\ serial[t] \in Serials
      BY <1>9, <2>4, OnlineIsNumbered DEF Attending, StreamInv
    <3> DEFINE q == got[c][serial[t]]
    <3>2. q \in Seq(Delivery) /\ Backlog(t) \in Seq(Delivery)
      BY <3>1, HoldsBacklog DEF TypeOK
    <3>3. got'[c][serial[t]] = q \o Backlog(t)
      BY <1>1, <3>1
    <3> HIDE DEF q
    <3>4. \A g : Holds(got'[c][serial[t]], g) <=> Holds(q, g) \/ Holds(Backlog(t), g)
      BY <3>2, <3>3, HoldsConcat
    <3>5. \A i \in 1 .. Done(t) : i \in 1 .. Len(log[t])
      <4>1. Len(log[t]) \in Nat
        BY <3>1, LenProperties DEF TypeOK
      <4> QED BY <4>1 DEF Done
    <3>6. ASSUME NEW i \in 1 .. Done(t), NEW j \in 1 .. Done(t), i < j,
                 SlotOf(log[t][i].kind) = SlotOf(log[t][j].kind), Holds(got'[c][serial[t]], log[t][i])
          PROVE  Holds(got'[c][serial[t]], log[t][j])
      <4>1. CASE Holds(q, log[t][i])
        BY <2>1, <2>2, <2>4, <3>4, <3>6, <4>1 DEF q
      <4>2. CASE Holds(Backlog(t), log[t][i])
        BY <3>1, <3>4, <3>5, <3>6, <4>2, BacklogIsWindow
      <4> QED BY <3>4, <3>6, <4>1, <4>2
    <3>7. \A slot \in Slots : \A i \in 1 .. Len(kept[t][slot]) : Holds(Backlog(t), kept[t][slot][i])
      BY <3>1, HoldsBacklog
    <3> QED BY <2>4, <3>4, <3>6, <3>7
  <2> QED BY <2>3, <2>4
<1>10. NoHole'
  <2> SUFFICES ASSUME NEW b \in Clients, Attending(b)', NEW t \in Online
               PROVE  /\ \A i, j \in 1 .. Done(t) :
                           i < j /\ SlotOf(log[t][i].kind) = SlotOf(log[t][j].kind) /\ Received(b, t, log[t][i])'
                             => Received(b, t, log[t][j])'
                      /\ stage'[b] = "serving" => \A slot \in Slots : \A i \in 1 .. Len(kept[t][slot]) :
                           kept[t][slot][i].n <= Done(t) => Received(b, t, kept[t][slot][i])'
    BY <1>1, <1>3 DEF NoHole
  <2> QED BY <1>1, <1>9 DEF Received, Holds
<1>11. Showing'
  BY <1>4, <1>5, CatchUpShows, ShowingStep DEF Showing
<1> QED BY <1>6, <1>7, <1>10, <1>11 DEF StreamInv

LEMMA StepStream == TypeOK /\ StreamInv /\ [Next]_vars => StreamInv'
<1> SUFFICES ASSUME TypeOK, StreamInv, [Next]_vars PROVE StreamInv'
  OBVIOUS
<1>1. ASSUME NEW s \in Senders, SenderNext(s) PROVE StreamInv'
  BY <1>1, QuietSenderKeepsStream, StoreKeepsStream, CastKeepsStream, RetireKeepsStream DEF SenderNext, Conn
<1>2. ASSUME NEW c \in Clients, ClientNext(c) PROVE StreamInv'
  BY <1>2, CatchUpKeepsStream, QuietClientKeepsStream, RetireKeepsStream DEF ClientNext, Conn
<1>3. ASSUME NEW p \in Conn, ConnNext(p) PROVE StreamInv'
  BY <1>3, RegisterKeepsStream, QuietConnKeepsStream DEF ConnNext
<1>4. CASE UNCHANGED vars
  <2>1. UNCHANGED <<stage, serial, nextId, closing, device, kept, hand, log, got, shown>>
    BY <1>4 DEF vars
  <2>2. \A c \in Clients : Attending(c)' => Attending(c)
    BY <2>1 DEF Attending
  <2> QED BY <2>1, <2>2, CalmKeepsStream
<1> QED BY <1>1, <1>2, <1>3, <1>4 DEF Next

\* However the two halves of storing and broadcasting a frame, and of registering and
\* catching up a client, fall between each other, a client that has caught up holds
\* every frame the server keeps, and from the first frame it got of a kind every later
\* one (handle_sender_message, broadcast_to_clients, send_catch_up_locked).
THEOREM CaughtUpHaveNoGap == Spec => []NoGap
<1>1. TypeOK /\ StreamInv => NoGap
  <2> SUFFICES ASSUME TypeOK, StreamInv, NEW c \in Clients, NEW s \in Online, Known(c), stage[s] # "stored"
               PROVE  /\ \A slot \in Slots : \A i \in 1 .. Len(kept[s][slot]) : Received(c, s, kept[s][slot][i])
                      /\ \A i, j \in 1 .. Len(log[s]) :
                           (i < j /\ SlotOf(log[s][i].kind) = SlotOf(log[s][j].kind)
                                  /\ Received(c, s, log[s][i]))
                              => Received(c, s, log[s][j])
    BY DEF NoGap
  <2>1. Attending(c) /\ stage[c] = "serving" /\ Done(s) = Len(log[s])
    BY DEF Known, Attending, Done
  <2>2. \A slot \in Slots : \A i \in 1 .. Len(kept[s][slot]) : kept[s][slot][i].n <= Len(log[s])
    <3>1. s \in Senders
      BY DEF Online
    <3>2. Len(log[s]) \in Nat
      BY <3>1, LenProperties DEF TypeOK
    <3>3. \A slot \in Slots : \A i \in 1 .. Len(kept[s][slot]) : kept[s][slot][i].n \in 1 .. Len(log[s])
      BY <3>1 DEF StreamInv, Keeping, Window
    <3> QED BY <3>2, <3>3
  <2> QED BY <2>1, <2>2 DEF StreamInv, NoHole
<1>2. TypeInv => TypeOK
  BY DEF TypeInv
<1> QED BY <1>1, <1>2, InitTypeInv, StepTypeInv, InitStream, StepStream, PTL DEF Spec

LEMMA StepLists ==
  ASSUME TypeOK, StreamInv, [Next]_vars, NEW c \in Clients, serial'[c] = serial[c],
         NEW old \in shown[c], NEW new \in shown'[c], old.src = new.src
  PROVE  old.n <= new.n
<1>1. ASSUME shown'[c] = shown[c] PROVE old.n <= new.n
  <2>1. old = new /\ old.n \in Nat
    BY <1>1 DEF StreamInv, Showing, TypeOK
  <2> QED BY <2>1
<1>2. ASSUME NEW S \in SUBSET Online, \A t \in S : kept[t]["sessions"] # <<>>,
             shown'[c] = ShowLists(shown[c], {SessionList(t, kept[t]["sessions"][1]) : t \in S})
      PROVE  old.n <= new.n
  <2> DEFINE n == ShowLists(shown[c], {SessionList(t, kept[t]["sessions"][1]) : t \in S})
  <2>1. \A o \in shown[c], x \in n : o.src = x.src => o.n <= x.n
    BY <1>2, ShownIsSound
  <2>2. shown'[c] = n
    BY <1>2
  <2> HIDE DEF n
  <2> QED BY <2>1, <2>2
<1>3. ASSUME NEW s \in Senders, Cast(s) PROVE old.n <= new.n
  BY <1>1, <1>2, <1>3, CastShows
<1>4. ASSUME NEW b \in Clients, CatchUp(b) PROVE old.n <= new.n
  BY <1>1, <1>2, <1>4, CatchUpShows
<1>5. ASSUME NEW b \in Clients, RetireClient(b) PROVE old.n <= new.n
  <2>1. CASE b = c
    <3>1. serial'[c] = 0 /\ stage[c] = "forgotten" /\ shown'[c] = {}
      BY <1>5, <2>1 DEF RetireClient, Free, TypeOK, Conn
    <3> QED BY <3>1
  <2>2. CASE b # c
    BY <1>1, <1>5, <2>2 DEF RetireClient, TypeOK
  <2> QED BY <2>1, <2>2
<1>6. ASSUME shown' = shown PROVE old.n <= new.n
  BY <1>1, <1>6
<1>7. ASSUME NEW s \in Senders, SenderNext(s) PROVE old.n <= new.n
  BY <1>3, <1>6, <1>7 DEF SenderNext, Announce, Identify, Store, Answer, RetireSender
<1>8. ASSUME NEW b \in Clients, ClientNext(b) PROVE old.n <= new.n
  BY <1>4, <1>5, <1>6, <1>8 DEF ClientNext, RefreshRoster, Request
<1>9. ASSUME NEW p \in Conn, ConnNext(p) PROVE old.n <= new.n
  BY <1>6, <1>9 DEF ConnNext, Register, Ping, Drop, Unlink, Forget
<1>10. CASE UNCHANGED vars
  BY <1>6, <1>10 DEF vars
<1> QED BY <1>7, <1>8, <1>9, <1>10 DEF Next

\* A client's session list of a sender connection is only ever replaced by a newer one,
\* whichever of its backlog and a broadcast comes first: both are sent from under the
\* lock, and a list is kept before it is broadcast (handle_sender_message, SESSIONS;
\* send_catch_up_locked).
THEOREM ListsStayNew == Spec => ListsNeverGoBack
<1>1. TypeOK /\ StreamInv /\ [Next]_vars =>
        [\A c \in Clients : serial'[c] = serial[c] =>
           \A old \in shown[c], new \in shown'[c] : old.src = new.src => old.n <= new.n]_vars
  BY StepLists
<1>2. TypeInv => TypeOK
  BY DEF TypeInv
<1> QED BY <1>1, <1>2, InitTypeInv, StepTypeInv, InitStream, StepStream, PTL DEF Spec, ListsNeverGoBack

-----------------------------------------------------------------------------
\* Starting and stopping the relay, for any number of connections and starts, with a
\* window and on the console.

Points == {"none", "head", "select", "agent", "client", "ended"}
LoopState == [at : Points, ready : SUBSET Roles]

HostTypes ==
  /\ console \in BOOLEAN /\ pressed \in BOOLEAN /\ listening \subseteq Roles
  /\ starter \in {"idle", "agent", "client", "run", "close agent", "close client", "wait"}
  /\ worker \in LoopIds \cup {0}
  /\ loop \in [LoopIds -> LoopState]
  /\ queue \in [Roles -> Seq(Conns)]
  /\ starts \in 0 .. HostMaxStarts

Starting == starter \in {"agent", "client", "run"}

\* Which listeners are open at each point of a start and of a stop, and whether the
\* window believes that it started the relay.
Progress ==
  /\ starter = "idle"   => listening = IF pressed /\ ~console THEN Roles ELSE {}
  /\ starter = "agent"  => listening = {} /\ ~pressed
  /\ starter = "client" => listening = {"agent"} /\ ~pressed
  /\ starter = "run"    => listening = Roles /\ ~pressed
  /\ starter = "close agent"  => listening = Roles /\ pressed
  /\ starter = "close client" => listening = {"client"} /\ pressed
  /\ starter = "wait"   => listening = (IF console THEN Roles ELSE {}) /\ pressed
  /\ Starting => starts \in LoopIds

\* There is one loop, and none while the relay is being started.
OneLoop ==
  /\ \A l \in LoopIds : Alive(l) => l = worker
  /\ ~pressed => \A l \in LoopIds : ~Alive(l)

\* Whom a loop was told of still waits, as long as the listener is open.
Informed ==
  \A l \in LoopIds :
    /\ loop[l].at = "agent"  => ~WouldBlock(l, "agent") /\ ~WouldBlock(l, "client")
    /\ loop[l].at = "client" => ~WouldBlock(l, "client")

HostInv == HostTypes /\ Progress /\ OneLoop /\ Informed

-----------------------------------------------------------------------------
LEMMA RoleFacts ==
  /\ "agent" \in Roles /\ "client" \in Roles /\ \A r \in Roles : r \in {"agent", "client"}
  /\ Roles \ {"agent"} = {"client"} /\ {"client"} \ {"client"} = {} /\ Roles # {}
BY DEF Roles

\* The loop goes on, and what select reported stays.
LEMMA GoesOn ==
  ASSUME HostTypes, NEW l \in LoopIds, NEW next \in Points,
         loop' = [loop EXCEPT ![l].at = next]
  PROVE  /\ loop' \in [LoopIds -> LoopState]
         /\ loop'[l].at = next /\ loop'[l].ready = loop[l].ready
         /\ \A k \in LoopIds \ {l} : loop'[k] = loop[k]
<1>1. loop[l] \in LoopState
  BY DEF HostTypes
<1>2. /\ [loop[l] EXCEPT !.at = next] \in LoopState
      /\ [loop[l] EXCEPT !.at = next].at = next
      /\ [loop[l] EXCEPT !.at = next].ready = loop[l].ready
  BY <1>1 DEF LoopState
<1>3. loop' = [loop EXCEPT ![l] = [loop[l] EXCEPT !.at = next]]
  OBVIOUS
<1> HIDE DEF LoopState
<1> QED BY <1>2, <1>3 DEF HostTypes

LEMMA HostStarts == HostInit => HostInv
<1> SUFFICES ASSUME HostInit PROVE HostInv
  OBVIOUS
<1>1. loop \in [LoopIds -> LoopState]
      /\ \A l \in LoopIds : loop[l].at = "none"
  <2>1. Idle \in LoopState /\ Idle.at = "none"
    BY DEF Idle, LoopState, Points
  <2> QED BY <2>1 DEF HostInit
<1>2. queue \in [Roles -> Seq(Conns)]
  <2>1. <<>> \in Seq(Conns)
    OBVIOUS
  <2> QED BY <2>1 DEF HostInit
<1>3. HostTypes
  <2>1. starts \in 0 .. HostMaxStarts
    BY HostAssumption DEF HostInit
  <2> QED BY <1>1, <1>2, <2>1 DEF HostInit, HostTypes
<1> QED BY <1>1, <1>3 DEF HostInit, HostInv, Progress, Starting, OneLoop, Informed, Alive

LEMMA TurnAwayTypes ==
  ASSUME HostTypes, NEW roles, TurnAway(roles) PROVE queue' \in [Roles -> Seq(Conns)]
<1>0. <<>> \in Seq(Conns)
  OBVIOUS
<1>1. \A r \in Roles : queue[r] \in Seq(Conns)
  BY DEF HostTypes
<1>2. queue' = [r \in Roles |-> IF r \in roles THEN <<>> ELSE queue[r]]
  BY DEF TurnAway
<1> QED BY <1>0, <1>1, <1>2

\* Nobody who waits is lost to a loop when a listener is closed with its queue.
LEMMA ClosingKeepsInformed ==
  ASSUME HostTypes, Informed, UNCHANGED loop, NEW roles \in SUBSET Roles,
         listening' \subseteq listening \ roles, TurnAway(roles)
  PROVE  Informed' /\ queue' \in [Roles -> Seq(Conns)]
<1>1. \A r \in Roles : queue'[r] = IF r \in roles THEN <<>> ELSE queue[r]
  BY DEF TurnAway
<1>2. queue' \in [Roles -> Seq(Conns)]
  BY TurnAwayTypes
<1>3. \A l \in LoopIds, r \in Roles : ~WouldBlock(l, r) => ~WouldBlock(l, r)'
  BY <1>1 DEF WouldBlock
<1> QED BY <1>2, <1>3, RoleFacts DEF Informed

\* Where no loop runs there is nothing to be informed of.
LEMMA NoLoopInformed == OneLoop /\ ~pressed => Informed
BY DEF OneLoop, Informed, Alive, LoopIds

\* The window's thread and main.
LEMMA StarterKeeps ==
  ASSUME HostInv, PressStart \/ PressStop \/ Interrupt \/ Program
  PROVE  HostInv'
<1> USE RoleFacts DEF HostInv
<1>1. CASE PressStart
  <2>1. /\ starter = "idle" /\ ~pressed /\ listening = {} /\ starter' = "agent"
        /\ starts' = starts + 1 /\ starts < HostMaxStarts
        /\ UNCHANGED <<console, listening, pressed, worker, loop, queue>>
    BY <1>1 DEF PressStart, Step, Progress, hostPeers
  <2>2. starts' \in LoopIds /\ starts' \in 0 .. HostMaxStarts
    BY <2>1, HostAssumption DEF HostTypes, LoopIds
  <2>3. HostTypes'
    BY <2>1, <2>2 DEF HostTypes
  <2>4. Progress'
    BY <2>1, <2>2 DEF Progress, Starting
  <2> QED BY <2>1, <2>3, <2>4 DEF OneLoop, Informed, Alive, WouldBlock
<1>2. CASE PressStop
  <2>1. /\ starter = "idle" /\ pressed /\ ~console /\ starter' = "close agent"
        /\ UNCHANGED <<console, listening, pressed, worker, loop, queue, starts>>
    BY <1>2 DEF PressStop, Step, hostPeers
  <2>2. HostTypes' /\ Progress'
    BY <2>1 DEF HostTypes, Progress, Starting
  <2> QED BY <2>1, <2>2 DEF OneLoop, Informed, Alive, WouldBlock
<1>3. CASE Interrupt
  <2>1. UNCHANGED <<console, listening, starter, pressed, worker, loop, queue, starts>>
    BY <1>3 DEF Interrupt, hostPeers
  <2> QED BY <2>1 DEF HostTypes, Progress, Starting, OneLoop, Informed, Alive, WouldBlock
<1>4. CASE ListenAgent
  <2>1. /\ starter = "agent" /\ ~pressed
        /\ \/ starter' = "client" /\ listening' = {"agent"}
           \/ starter' = "idle" /\ listening' = {}
        /\ UNCHANGED <<console, pressed, worker, loop, queue, starts>>
    BY <1>4 DEF ListenAgent, Step, Progress, hostPeers
  <2>2. HostTypes' /\ Progress' /\ OneLoop'
    BY <2>1 DEF HostTypes, Progress, Starting, OneLoop, Alive
  <2>3. Informed'
    BY <2>1, <2>2 DEF OneLoop, Informed, Alive, LoopIds
  <2> QED BY <2>2, <2>3
<1>5. CASE ListenClient
  <2>1. /\ starter = "client" /\ ~pressed
        /\ \/ starter' = "run" /\ listening' = Roles /\ UNCHANGED queue
           \/ starter' = "idle" /\ listening' = {} /\ TurnAway(Roles)
        /\ UNCHANGED <<console, pressed, worker, loop, starts>>
    BY <1>5 DEF ListenClient, Step, Progress, hostPeers
  <2>2. queue' \in [Roles -> Seq(Conns)]
    BY <2>1, TurnAwayTypes DEF HostTypes
  <2>3. HostTypes' /\ Progress' /\ OneLoop'
    BY <2>1, <2>2 DEF HostTypes, Progress, Starting, OneLoop, Alive
  <2>4. Informed'
    BY <2>1, <2>3 DEF OneLoop, Informed, Alive, LoopIds
  <2> QED BY <2>3, <2>4
<1>6. CASE Run
  <2>1. /\ starter = "run" /\ ~pressed /\ pressed' /\ listening = Roles
        /\ starter' = IF console THEN "wait" ELSE "idle"
        /\ starts \in LoopIds
        /\ UNCHANGED <<console, listening, queue, starts>>
        /\ \/ loop' = [loop EXCEPT ![starts].at = "head"] /\ worker' = starts
           \/ worker' = 0 /\ UNCHANGED loop
    BY <1>6 DEF Run, Step, Progress, Starting, hostPeers
  <2>2. /\ loop' \in [LoopIds -> LoopState]
        /\ \A l \in LoopIds : (l = worker' /\ loop'[l].at = "head") \/ loop'[l] = loop[l]
    <3>1. CASE loop' = [loop EXCEPT ![starts].at = "head"] /\ worker' = starts
      BY <2>1, <3>1, GoesOn DEF Points
    <3>2. CASE UNCHANGED loop
      BY <3>2 DEF HostTypes
    <3> QED BY <2>1, <3>1, <3>2
  <2>3. \A l \in LoopIds : loop[l].at \in {"none", "ended"}
    BY <2>1 DEF OneLoop, Alive, LoopIds
  <2>4. pressed' = TRUE
    BY <1>6 DEF Run
  <2>5. HostTypes'
    BY <2>1, <2>2, <2>4 DEF HostTypes
  <2>6. Progress'
    BY <2>1, <2>4 DEF HostTypes, Progress, Starting
  <2>7. OneLoop' /\ Informed'
    BY <2>2, <2>3, <2>4 DEF OneLoop, Informed, Alive
  <2> QED BY <2>5, <2>6, <2>7
<1>7. CASE LoopReturned
  <2>1. /\ starter = "wait" /\ console /\ starter' = "close agent"
        /\ UNCHANGED <<console, listening, pressed, worker, loop, queue, starts>>
    BY <1>7 DEF LoopReturned, Step, hostPeers
  <2>2. HostTypes' /\ Progress'
    BY <2>1 DEF HostTypes, Progress, Starting
  <2> QED BY <2>1, <2>2 DEF OneLoop, Informed, Alive, WouldBlock
<1>8. CASE CloseAgent
  <2>1. /\ starter = "close agent" /\ pressed /\ starter' = "close client"
        /\ listening = Roles /\ listening' = listening \ {"agent"} /\ TurnAway({"agent"})
        /\ UNCHANGED <<console, pressed, worker, loop, starts>>
    BY <1>8 DEF CloseAgent, Step, Progress
  <2>2. Informed' /\ queue' \in [Roles -> Seq(Conns)]
    BY <2>1, ClosingKeepsInformed
  <2>3. HostTypes' /\ Progress' /\ OneLoop'
    BY <2>1, <2>2 DEF HostTypes, Progress, Starting, OneLoop, Alive
  <2> QED BY <2>2, <2>3
<1>9. CASE CloseClient
  <2>1. /\ starter = "close client" /\ pressed
        /\ starter' = IF console THEN "idle" ELSE "wait"
        /\ listening = {"client"} /\ listening' = {} /\ listening' = listening \ {"client"}
        /\ TurnAway({"client"})
        /\ UNCHANGED <<console, pressed, worker, loop, starts>>
    BY <1>9 DEF CloseClient, Step, Progress
  <2>2. Informed' /\ queue' \in [Roles -> Seq(Conns)]
    BY <2>1, ClosingKeepsInformed
  <2>3. HostTypes' /\ Progress' /\ OneLoop'
    BY <2>1, <2>2 DEF HostTypes, Progress, Starting, OneLoop, Alive
  <2> QED BY <2>2, <2>3
<1>10. CASE JoinWorker
  <2>1. /\ starter = "wait" /\ ~console /\ ~Alive(worker) /\ starter' = "idle"
        /\ pressed' = FALSE /\ worker' = 0
        /\ UNCHANGED <<console, listening, loop, queue, starts>>
    BY <1>10 DEF JoinWorker, Step, hostPeers
  <2>2. HostTypes' /\ Progress'
    BY <2>1 DEF HostTypes, Progress, Starting
  <2>3. OneLoop'
    BY <2>1 DEF OneLoop, Alive
  <2>4. Informed'
    BY <2>1 DEF Informed, WouldBlock
  <2> QED BY <2>2, <2>3, <2>4
<1> QED BY <1>1, <1>2, <1>3, <1>4, <1>5, <1>6, <1>7, <1>8, <1>9, <1>10 DEF Program

\* A step of the loop: only the one that runs takes it, and nobody else empties a queue.
LEMMA LoopKeeps ==
  ASSUME HostInv, NEW l \in LoopIds, Loop(l)
  PROVE  HostInv'
<1> USE RoleFacts DEF HostInv
<1>1. UNCHANGED <<console, listening, starter, pressed, worker, starts>>
  BY DEF Loop, LoopHead, Select, AcceptOne, hostLife
<1>2. Alive(l) /\ l = worker /\ pressed
  BY DEF Loop, LoopHead, Select, AcceptOne, Goes, OneLoop, Alive, LoopIds
<1>3. \A k \in LoopIds \ {l} : loop[k].at \in {"none", "ended"}
  BY <1>2 DEF OneLoop, Alive, LoopIds
<1>4. /\ \A k \in LoopIds \ {l} : loop'[k] = loop[k]
      /\ loop' \in [LoopIds -> LoopState]
  <2>1. CASE LoopHead(l)
    BY <2>1, GoesOn DEF LoopHead, Goes, Points
  <2>2. CASE Select(l)
    <3> DEFINE told == {r \in listening : queue[r] # <<>>}
               next == [at |-> IF told = {} THEN "head" ELSE "agent", ready |-> told]
    <3>1. told \in SUBSET Roles
      BY DEF HostTypes
    <3>2. next \in LoopState
      BY <3>1 DEF LoopState, Points
    <3>3. loop' = [loop EXCEPT ![l] = next]
      BY <2>2 DEF Select
    <3> HIDE DEF next, told
    <3> QED BY <3>2, <3>3 DEF HostTypes
  <2>3. CASE AcceptOne(l, "agent", "client") \/ AcceptOne(l, "client", "head")
    BY <2>3, GoesOn DEF AcceptOne, Goes, Points
  <2> QED BY <2>1, <2>2, <2>3 DEF Loop
<1>5. queue' \in [Roles -> Seq(Conns)]
  <2>1. CASE LoopHead(l) \/ Select(l)
    BY <2>1 DEF LoopHead, Select, hostPeers, HostTypes
  <2>2. ASSUME NEW r \in Roles, NEW next, AcceptOne(l, r, next) PROVE queue' \in [Roles -> Seq(Conns)]
    <3>1. CASE r \in loop[l].ready /\ r \in listening
      <4>1. queue[r] \in Seq(Conns) /\ queue[r] # <<>>
        BY <2>2, <3>1 DEF AcceptOne, WouldBlock, HostTypes
      <4>2. Tail(queue[r]) \in Seq(Conns)
        BY <4>1
      <4>3. queue' = [queue EXCEPT ![r] = Tail(queue[r])]
        BY <2>2, <3>1 DEF AcceptOne
      <4> QED BY <4>2, <4>3 DEF HostTypes
    <3>2. CASE ~(r \in loop[l].ready /\ r \in listening)
      BY <2>2, <3>2 DEF AcceptOne, hostPeers, HostTypes
    <3> QED BY <3>1, <3>2
  <2> QED BY <2>1, <2>2 DEF Loop
<1>6. HostTypes' /\ Progress' /\ OneLoop'
  BY <1>1, <1>2, <1>3, <1>4, <1>5 DEF HostTypes, Progress, Starting, OneLoop, Alive
<1>7. /\ loop'[l].at = "agent"  => ~WouldBlock(l, "agent")' /\ ~WouldBlock(l, "client")'
      /\ loop'[l].at = "client" => ~WouldBlock(l, "client")'
  <2>1. CASE LoopHead(l)
    BY <2>1, GoesOn DEF LoopHead, Goes, Points
  <2>2. CASE Select(l)
    <3>1. loop'[l].ready = {r \in listening : queue[r] # <<>>} /\ UNCHANGED queue
      BY <2>2 DEF Select, HostTypes, hostPeers
    <3> QED BY <1>1, <3>1 DEF WouldBlock
  <2>3. CASE AcceptOne(l, "agent", "client")
    <3>1. /\ loop[l].at = "agent" /\ loop'[l].at = "client" /\ loop'[l].ready = loop[l].ready
      BY <2>3, GoesOn DEF AcceptOne, Goes, Points
    <3>2. \/ queue' = queue
          \/ queue' = [queue EXCEPT !["agent"] = Tail(queue["agent"])]
      BY <2>3 DEF AcceptOne, hostPeers
    <3>3. queue'["client"] = queue["client"]
      BY <3>2 DEF HostTypes
    <3> QED BY <1>1, <3>1, <3>3 DEF Informed, WouldBlock
  <2>4. CASE AcceptOne(l, "client", "head")
    BY <2>4, GoesOn DEF AcceptOne, Goes, Points
  <2> QED BY <2>1, <2>2, <2>3, <2>4 DEF Loop
<1>8. Informed'
  BY <1>3, <1>4, <1>7 DEF Informed
<1> QED BY <1>6, <1>8

\* A peer that connects waits behind the others; one that leaves was accepted.
LEMMA PeerKeeps ==
  ASSUME HostInv, NEW c \in Conns, (\E r \in Roles : Connect(c, r)) \/ Leave(c)
  PROVE  HostInv'
<1> USE DEF HostInv
<1>1. UNCHANGED <<console, listening, starter, pressed, worker, loop, starts>>
  BY DEF Connect, Leave, hostLife
<1>2. /\ queue' \in [Roles -> Seq(Conns)]
      /\ \A r \in Roles : queue[r] # <<>> => queue'[r] # <<>>
  <2>1. CASE Leave(c)
    BY <2>1 DEF Leave, HostTypes
  <2>2. ASSUME NEW r \in Roles, Connect(c, r)
        PROVE  <1>2!1 /\ <1>2!2
    <3>1. queue' = [queue EXCEPT ![r] = Append(@, c)] /\ queue[r] \in Seq(Conns)
      BY <2>2 DEF Connect, HostTypes
    <3>2. Append(queue[r], c) \in Seq(Conns) /\ Append(queue[r], c) # <<>>
      BY <3>1, AppendProperties, Zenon
    <3> QED BY <3>1, <3>2 DEF HostTypes
  <2> QED BY <2>1, <2>2
<1>3. HostTypes' /\ Progress' /\ OneLoop'
  BY <1>1, <1>2 DEF HostTypes, Progress, Starting, OneLoop, Alive
<1>4. Informed'
  BY <1>1, <1>2, RoleFacts DEF Informed, WouldBlock
<1> QED BY <1>3, <1>4

LEMMA HostStepKeeps == HostInv /\ [HostNext]_hostVars => HostInv'
<1> SUFFICES ASSUME HostInv, [HostNext]_hostVars PROVE HostInv'
  OBVIOUS
<1>1. CASE UNCHANGED hostVars
  <2>1. UNCHANGED <<console, listening, starter, pressed, worker, loop, queue, starts>>
    BY <1>1 DEF hostVars, hostLife, hostPeers
  <2> QED BY <2>1 DEF HostInv, HostTypes, Progress, Starting, OneLoop, Informed, Alive, WouldBlock
<1> QED BY <1>1, StarterKeeps, LoopKeeps, PeerKeeps DEF HostNext

\* A start that fails at either port leaves no listener open, and a window at rest
\* shows what is so (serve_start, start_server, stop_server).
THEOREM NeverHalfOpen == HostSpec => []NothingHalfOpen
<1>1. HostInv => NothingHalfOpen
  BY DEF HostInv, Progress, NothingHalfOpen
<1> QED BY HostStarts, HostStepKeeps, <1>1, PTL DEF HostSpec

\* The loop never waits in accept for a peer that is not there, however starts,
\* stops and closed listeners fall between its select and its accept (serve_loop).
THEOREM LoopNeverStuck == HostSpec => []AcceptNeverBlocks
<1>1. HostInv => AcceptNeverBlocks
  BY RoleFacts DEF HostInv, Informed, AcceptNeverBlocks
<1> QED BY HostStarts, HostStepKeeps, <1>1, PTL DEF HostSpec

\* The flag and what becomes of a connection keep their types too.
Flagged == g_running \in BOOLEAN /\ conn \in [Conns -> {"out", "waiting"} \cup Roles]

LEMMA FlaggedKept ==
  ASSUME Flagged, [HostNext]_hostVars
  PROVE  Flagged'
<1> USE DEF Flagged
<1>1. ASSUME NEW roles, TurnAway(roles) PROVE conn' \in [Conns -> {"out", "waiting"} \cup Roles]
  <2>1. conn' = [c \in Conns |-> IF \E r \in roles : \E i \in 1 .. Len(queue[r]) : queue[r][i] = c
                                 THEN "out" ELSE conn[c]]
    BY <1>1 DEF TurnAway
  <2> QED BY <2>1
<1>0. (g_running' = g_running \/ g_running' = FALSE) /\ conn' = conn => Flagged'
  BY Zenon
<1>2. CASE PressStart \/ PressStop \/ Interrupt
  BY <1>0, <1>2, Zenon DEF PressStart, PressStop, Interrupt, hostPeers
<1>3. CASE Program
  <2>1. CASE ListenClient
    BY <1>1, <2>1 DEF ListenClient, hostPeers
  <2>2. CASE CloseAgent \/ CloseClient
    <3>1. g_running' = g_running
      BY <2>2, Zenon DEF CloseAgent, CloseClient
    <3>2. conn' \in [Conns -> {"out", "waiting"} \cup Roles]
      BY <1>1, <2>2, Zenon DEF CloseAgent, CloseClient
    <3> QED BY <3>1, <3>2
  <2>3. CASE ListenAgent \/ Run \/ LoopReturned \/ JoinWorker
    BY <1>0, <2>3, Zenon DEF ListenAgent, Run, LoopReturned, JoinWorker, hostPeers
  <2> QED BY <1>3, <2>1, <2>2, <2>3 DEF Program
<1>4. ASSUME NEW l \in LoopIds, Loop(l) PROVE Flagged'
  <2>1. CASE LoopHead(l) \/ Select(l)
    BY <2>1 DEF LoopHead, Select, hostLife, hostPeers
  <2>2. ASSUME NEW r \in Roles, NEW next, AcceptOne(l, r, next) PROVE Flagged'
    BY <2>2 DEF AcceptOne, hostLife, hostPeers
  <2> QED BY <1>4, <2>1, <2>2, RoleFacts DEF Loop
<1>5. ASSUME NEW c \in Conns, (\E r \in Roles : Connect(c, r)) \/ Leave(c) PROVE Flagged'
  BY <1>5 DEF Connect, Leave, hostLife
<1>6. CASE UNCHANGED hostVars
  BY <1>6 DEF hostVars, hostLife, hostPeers
<1> QED BY <1>2, <1>3, <1>4, <1>5, <1>6 DEF HostNext

\* The state of the window's thread, the loops, the listeners and their queues keep their
\* types.
THEOREM HostKeepsTypes == HostSpec => []HostTypeOK
<1>1. HostInit => Flagged
  BY DEF HostInit, Flagged
<1>2. HostInv /\ Flagged => HostTypeOK
  <2>1. LoopState = [at : {"none", "head", "select", "agent", "client", "ended"}, ready : SUBSET Roles]
    BY DEF LoopState, Points
  <2> QED BY <2>1, Zenon DEF HostInv, HostTypes, Flagged, HostTypeOK
<1> QED BY <1>1, <1>2, HostStarts, HostStepKeeps, FlaggedKept, PTL DEF HostSpec
=============================================================================
