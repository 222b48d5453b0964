-------------------------- MODULE SenderDshProofs --------------------------
(***************************************************************************)
(* Proofs about what the sender has from dsh and passes on, for any        *)
(* sessions, messages and requests: a client is told of every session it   *)
(* was shown and that has left the list since, the mux gives its reader    *)
(* whole messages in order, a request is answered once and truly, and the  *)
(* HTTP client returns the body the webserver sent.                        *)
(***************************************************************************)
EXTENDS SessionMirror, MuxReader, DshCalls, HttpReader, SequenceTheorems,
        WellFoundedInduction, TLAPS

-----------------------------------------------------------------------------
\* The session list.

Payloads == [sessions : Lists, digests : Lists, wide : SUBSET ListSessions]

Types ==
  /\ listed \in Lists /\ cache \in Lists /\ digests \in Lists
  /\ described \in Lists /\ seen \in Lists
  /\ push \in Payloads

\* Through a tunnel the sender has pushed what it remembers, or nothing at all.
Remembered ==
  /\ cached  => /\ cache = push.sessions /\ digests = push.digests
                /\ digests \subseteq described
  /\ ~cached => push = NoPayload /\ seen = {}
  /\ push.sessions \subseteq seen

\* A description of a session that has left the list is its last summary.
LastSummary ==
  cached => \A x \in seen, d \in digests :
              x.id = d.id => x.id \in ListedIds(push.sessions) \/ x = d

MirrorInv == Types /\ VanishedAreDescribed /\ (up => Remembered /\ LastSummary)

-----------------------------------------------------------------------------
\* Lists name a session once, and stay so when they are cut or laid over another.

LEMMA ListOf ==
  \A l \in SUBSET Summary : l \in Lists <=> \A x, y \in l : x.id = y.id => x = y
BY DEF Lists

LEMMA PartOfList == ASSUME NEW l \in Lists, NEW m \in SUBSET l PROVE m \in Lists
BY DEF Lists

LEMMA EmptyList == {} \in Lists
BY DEF Lists

LEMMA OverIsList ==
  ASSUME NEW old \in Lists, NEW new \in Lists PROVE Over(old, new) \in Lists
<1>1. Over(old, new) \in SUBSET Summary
  BY DEF Over, Lists
<1>2. ASSUME NEW x \in Over(old, new), NEW y \in Over(old, new), x.id = y.id
      PROVE  x = y
  <2>1. x \in new => x.id \in ListedIds(new)
    BY DEF ListedIds
  <2>2. y \in new => y.id \in ListedIds(new)
    BY DEF ListedIds
  <2>3. (x \in new /\ y \in new) \/ (x \in old /\ y \in old)
    BY <1>2, <2>1, <2>2 DEF Over
  <2> QED BY <1>2, <2>3, ListOf DEF Lists
<1> QED BY <1>1, <1>2, ListOf

LEMMA OverHolds ==
  ASSUME NEW old, NEW new
  PROVE  /\ new \subseteq Over(old, new)
         /\ \A x \in old : x.id \notin ListedIds(new) => x \in Over(old, new)
         /\ \A x \in Over(old, new) :
              x \in new \/ (x \in old /\ x.id \notin ListedIds(new))
BY DEF Over

LEMMA PayloadIs ==
  ASSUME NEW list \in Lists, NEW gone \in Lists
  PROVE  /\ BuildPayload(list, gone) \in Payloads
         /\ BuildPayload(list, gone).sessions = list
         /\ BuildPayload(list, gone).digests = gone
<1>1. followed \cap ListedIds(list) \in SUBSET ListSessions
  BY DEF ListedIds, Lists, Summary
<1> QED BY <1>1 DEF BuildPayload, Payloads

LEMMA CapturedIsList ==
  ASSUME Types PROVE CaptureVanished(cache, listed) \in Lists
<1>1. {x \in cache : x.id \notin ListedIds(listed)} \in Lists
  BY PartOfList DEF Types
<1> QED BY <1>1 DEF CaptureVanished, Types

-----------------------------------------------------------------------------
LEMMA MirrorStarts == MirrorInit => MirrorInv
<1>1. NoPayload \in Payloads
  BY EmptyList DEF NoPayload, Payloads
<1> QED BY <1>1, EmptyList DEF MirrorInit, MirrorInv, Types, VanishedAreDescribed

\* A push: what the client was shown and does not see any more was in the cache,
\* and is described now, or was described before and is not described anew.
LEMMA PushKeeps == ASSUME MirrorInv, MirrorList PROVE MirrorInv'
<1> DEFINE gone == CaptureVanished(cache, listed)
<1>1. gone \in Lists
  BY CapturedIsList DEF MirrorInv
<1>2. cached' = TRUE /\ cache' = listed /\ digests' = gone /\ listed' = listed
  BY DEF MirrorList
<1>3. CASE up' = FALSE /\ UNCHANGED <<push, clientVars>>
  <2>1. Types'
    BY <1>1, <1>2, <1>3 DEF MirrorInv, Types, clientVars
  <2> QED BY <1>3, <2>1 DEF MirrorInv, VanishedAreDescribed
<1>4. CASE /\ up /\ push' = BuildPayload(listed, digests')
           /\ TakePayload(push') /\ seen' = Over(seen, listed) /\ UNCHANGED up
  <2>1. push' \in Payloads /\ push'.sessions = listed /\ push'.digests = gone
    BY <1>1, <1>2, <1>4, PayloadIs DEF MirrorInv, Types
  <2>2. described' = Over(described, gone)
    BY <1>4, <2>1 DEF TakePayload
  <2>3. Types'
    BY <1>1, <1>2, <1>4, <2>1, <2>2, OverIsList DEF MirrorInv, Types
  <2>4. Remembered'
    BY <1>2, <1>4, <2>1, <2>2, OverHolds DEF Remembered
  <2>5. ASSUME cached, NEW x \in seen', x.id \notin ListedIds(listed)
        PROVE  x \in seen
    BY <1>4, <2>5, OverHolds DEF ListedIds
  <2>6. cached => gone \subseteq seen
    BY <1>4 DEF MirrorInv, Remembered, CaptureVanished
  <2>7. LastSummary'
    <3> SUFFICES ASSUME NEW x \in seen', NEW d \in gone, x.id = d.id,
                        x.id \notin ListedIds(listed)
                 PROVE  x = d
      BY <1>2, <2>1 DEF LastSummary
    <3>1. CASE cached
      BY <2>5, <2>6, <3>1 DEF MirrorInv, Types, Lists
    <3>2. CASE ~cached
      BY <1>4, <3>2, OverHolds DEF MirrorInv, Remembered, ListedIds
    <3> QED BY <3>1, <3>2
  <2>8. VanishedAreDescribed'
    <3> SUFFICES ASSUME NEW x \in seen', x.id \notin ListedIds(listed)
                 PROVE  x \in described'
      BY <2>1 DEF VanishedAreDescribed
    <3>1. CASE ~cached
      BY <1>4, <3>1, OverHolds DEF MirrorInv, Remembered, ListedIds
    <3>2. CASE cached /\ x.id \in ListedIds(cache)
      <4>1. PICK y \in cache : y.id = x.id
        BY <3>2 DEF ListedIds
      <4>2. y \in seen /\ x \in seen
        BY <1>4, <2>5, <3>2, <4>1 DEF MirrorInv, Remembered
      <4>3. x = y
        BY <4>1, <4>2 DEF MirrorInv, Types, Lists
      <4>4. x \in gone
        BY <3>2, <4>1, <4>3 DEF CaptureVanished
      <4> QED BY <2>2, <4>4, OverHolds
    <3>3. CASE cached /\ x.id \notin ListedIds(cache)
      <4>1. x \in seen /\ cache = push.sessions
        BY <1>4, <2>5, <3>3 DEF MirrorInv, Remembered
      <4>2. x \in described
        BY <1>4, <3>3, <4>1 DEF MirrorInv, VanishedAreDescribed
      <4>3. x.id \notin ListedIds(gone)
        BY <3>3 DEF CaptureVanished, ListedIds
      <4> QED BY <2>2, <4>2, <4>3, OverHolds
    <3> QED BY <3>1, <3>2, <3>3
  <2> QED BY <2>3, <2>4, <2>7, <2>8 DEF MirrorInv
<1> QED BY <1>3, <1>4 DEF MirrorList

\* An answer describes the sessions of the last push again, in the same words.
LEMMA AnswerKeeps == ASSUME MirrorInv, AnswerList PROVE MirrorInv'
<1>1. described' = Over(described, digests)
  BY PayloadIs DEF AnswerList, TakePayload, MirrorInv, Types
<1>2. /\ UNCHANGED <<listed, cached, cache, digests, up, push, seen>>
      /\ up
  BY DEF AnswerList
<1>3. Types'
  BY <1>1, <1>2, OverIsList DEF MirrorInv, Types
<1>4. Remembered' /\ LastSummary'
  BY <1>1, <1>2, OverHolds DEF MirrorInv, Remembered, LastSummary
<1>5. VanishedAreDescribed'
  <2> SUFFICES ASSUME NEW x \in seen, x.id \notin ListedIds(push.sessions)
               PROVE  x \in described'
    BY <1>2 DEF VanishedAreDescribed
  <2>1. x \in described /\ cached
    BY <1>2 DEF MirrorInv, VanishedAreDescribed, Remembered
  <2>2. CASE x.id \in ListedIds(digests)
    <3>1. PICK d \in digests : d.id = x.id
      BY <2>2 DEF ListedIds
    <3>2. x = d
      BY <1>2, <2>1, <3>1 DEF MirrorInv, LastSummary
    <3> QED BY <1>1, <3>1, <3>2, OverHolds
  <2>3. CASE x.id \notin ListedIds(digests)
    BY <1>1, <2>1, <2>3, OverHolds
  <2> QED BY <2>2, <2>3
<1> QED BY <1>3, <1>4, <1>5 DEF MirrorInv

LEMMA MirrorStepKeeps == MirrorInv /\ [MirrorNext]_mirrorVars => MirrorInv'
<1> SUFFICES ASSUME MirrorInv, [MirrorNext]_mirrorVars PROVE MirrorInv'
  OBVIOUS
<1> USE DEF MirrorInv, Types, VanishedAreDescribed, Remembered, LastSummary
<1>1. ASSUME NEW new, new \in Lists, ListSteps(new) PROVE MirrorInv'
  BY <1>1 DEF ListSteps, clientVars
<1>2. ASSUME NEW x \in Summary, DescribeSession(x) PROVE MirrorInv'
  <2>1. {y \in listed : y.id # x.id} \cup {x} \in Lists
    BY DEF Lists
  <2> QED BY <1>1, <1>2, <2>1 DEF DescribeSession
<1>3. ASSUME NEW x \in Summary, ArchiveOne(x) PROVE MirrorInv'
  <2>1. listed \ {x} \in Lists
    BY PartOfList
  <2> QED BY <1>1, <1>3, <2>1 DEF ArchiveOne
<1>4. ASSUME NEW s \in ListSessions, ToggleFollow(s) PROVE MirrorInv'
  BY <1>4 DEF ToggleFollow, clientVars
<1>5. CASE FreshTunnel
  <2>1. NoPayload \in Payloads
    BY EmptyList DEF NoPayload, Payloads
  <2>2. NoPayload.sessions = {}
    BY DEF NoPayload
  <2> QED BY <1>5, <2>1, <2>2, EmptyList DEF FreshTunnel
<1>6. CASE ClientReturns
  <2>1. push.sessions \in Lists /\ push.digests \in Lists
    BY DEF Payloads
  <2>2. Types'
    BY <1>6, <2>1 DEF ClientReturns
  <2>3. Remembered'
    BY <1>6 DEF ClientReturns, NoPayload
  <2>4. \A x \in push.sessions : x.id \in ListedIds(push.sessions)
    BY DEF ListedIds
  <2>5. LastSummary' /\ VanishedAreDescribed'
    BY <1>6, <2>4 DEF ClientReturns
  <2> QED BY <2>2, <2>3, <2>5
<1>7. CASE UNCHANGED mirrorVars
  BY <1>7 DEF mirrorVars, clientVars
<1> QED
  BY <1>2, <1>3, <1>4, <1>5, <1>6, <1>7, PushKeeps, AnswerKeeps DEF MirrorNext

\* A session a client was shown and that left the pushed list is described to it by
\* the summary it was last shown with, whatever lists, tunnels and clients come and
\* go (mirror_session_list, capture_vanished, the answer to sessions/list).
THEOREM VanishedIsDescribed == MirrorSpec => []VanishedAreDescribed
<1>1. MirrorInv => VanishedAreDescribed
  BY DEF MirrorInv
<1> QED BY MirrorStarts, MirrorStepKeeps, <1>1, PTL DEF MirrorSpec

\* What the invariant does not say of the types.
MirrorRest ==
  /\ clientList \in Lists /\ cached \in BOOLEAN /\ up \in BOOLEAN /\ followed \subseteq ListSessions
  /\ push.wide \subseteq ListedIds(push.sessions)
  /\ listChanges \in 0 .. MaxListChanges /\ connections \in 0 .. MaxTunnels

LEMMA MirrorRestStarts == MirrorInit => MirrorRest
<1> SUFFICES ASSUME MirrorInit PROVE MirrorRest
  OBVIOUS
<1>1. 0 \in 0 .. MaxListChanges /\ 0 \in 0 .. MaxTunnels
  BY MirrorAssumption
<1>2. push = NoPayload /\ NoPayload.wide = {}
  BY DEF MirrorInit, NoPayload
<1>3. cached \in BOOLEAN /\ up \in BOOLEAN
  BY Zenon DEF MirrorInit
<1>4. clientList \in Lists /\ followed \subseteq ListSessions /\ listChanges = 0 /\ connections = 0
  BY EmptyList DEF MirrorInit
<1> QED BY <1>1, <1>2, <1>3, <1>4 DEF MirrorRest

LEMMA MirrorRestKept ==
  ASSUME MirrorInv, MirrorRest, [MirrorNext]_mirrorVars
  PROVE  MirrorRest'
<1>1. listed \in Lists /\ digests \in Lists /\ push.sessions \in Lists
  BY DEF MirrorInv, Types, Payloads
<1>2. listChanges' \in 0 .. MaxListChanges /\ connections' \in 0 .. MaxTunnels
  <2>1. \/ UNCHANGED listChanges
        \/ listChanges < MaxListChanges /\ listChanges' = listChanges + 1
    BY DEF MirrorNext, DescribeSession, ArchiveOne, ListSteps, MirrorList, AnswerList, FreshTunnel,
           ClientReturns, ToggleFollow, mirrorVars
  <2>2. \/ UNCHANGED connections
        \/ connections < MaxTunnels /\ connections' = connections + 1
    BY DEF MirrorNext, DescribeSession, ArchiveOne, ListSteps, MirrorList, AnswerList, FreshTunnel,
           ClientReturns, ToggleFollow, mirrorVars
  <2> QED BY <2>1, <2>2, MirrorAssumption DEF MirrorRest
<1>3. followed' \subseteq ListSessions
  <2>1. \/ UNCHANGED followed \/ followed' = {}
        \/ \E s \in ListSessions : followed' = (followed \cup {s}) \ (followed \cap {s})
    BY DEF MirrorNext, DescribeSession, ArchiveOne, ListSteps, MirrorList, AnswerList, FreshTunnel,
           ClientReturns, ToggleFollow, mirrorVars
  <2> QED BY <2>1 DEF MirrorRest
<1>4. cached' \in BOOLEAN /\ up' \in BOOLEAN
  <2>1. \/ UNCHANGED cached \/ cached' = TRUE \/ cached' = FALSE
    BY Zenon DEF MirrorNext, DescribeSession, ArchiveOne, ListSteps, MirrorList, AnswerList, FreshTunnel,
           ClientReturns, ToggleFollow, mirrorVars
  <2>2. \/ UNCHANGED up \/ up' = TRUE \/ up' = FALSE
    BY Zenon DEF MirrorNext, DescribeSession, ArchiveOne, ListSteps, MirrorList, AnswerList, FreshTunnel,
           ClientReturns, ToggleFollow, mirrorVars
  <2> QED BY <2>1, <2>2, Zenon DEF MirrorRest
<1>5. /\ clientList' \in Lists
      /\ push'.wide \subseteq ListedIds(push'.sessions)
  <2>1. CASE MirrorList
    <3>1. CASE push' = BuildPayload(listed, digests') /\ TakePayload(push')
      BY <1>1, <3>1 DEF BuildPayload, TakePayload
    <3>2. CASE UNCHANGED <<push, clientVars>>
      BY <3>2 DEF MirrorRest, clientVars
    <3> QED BY <2>1, <3>1, <3>2 DEF MirrorList
  <2>2. CASE AnswerList
    BY <1>1, <2>2 DEF AnswerList, TakePayload, BuildPayload, MirrorRest
  <2>3. CASE FreshTunnel
    BY <2>3 DEF FreshTunnel, NoPayload, MirrorRest
  <2>4. CASE ClientReturns
    BY <1>1, <2>4 DEF ClientReturns, MirrorRest
  <2>5. CASE (\E x \in Summary : DescribeSession(x) \/ ArchiveOne(x)) \/ (\E s \in ListSessions : ToggleFollow(s))
    BY <2>5 DEF DescribeSession, ArchiveOne, ListSteps, ToggleFollow, clientVars, MirrorRest
  <2>6. CASE UNCHANGED mirrorVars
    BY <2>6 DEF mirrorVars, clientVars, MirrorRest
  <2> QED BY <2>1, <2>2, <2>3, <2>4, <2>5, <2>6 DEF MirrorNext
<1> QED BY <1>2, <1>3, <1>4, <1>5 DEF MirrorRest

\* Lists, payloads and descriptions name a session once, and only sessions of the list
\* keep all their projections (build_sessions_payload).
THEOREM MirrorKeepsTypes == MirrorSpec => []MirrorTypeOK
<1>1. MirrorInv /\ MirrorRest => MirrorTypeOK
  BY DEF MirrorInv, Types, Payloads, MirrorRest, MirrorTypeOK
<1> QED BY <1>1, MirrorStarts, MirrorStepKeeps, MirrorRestStarts, MirrorRestKept, PTL DEF MirrorSpec

-----------------------------------------------------------------------------
\* The mux: where in dsh's messages the reader and each frame on its way are.

MuxFrames == [op : {"data"}, message : Nat, part : Nat, fin : BOOLEAN] \cup {Ping, Close}

\* A place is a message and a fragment of it; what a frame does to it.
Places == Nat \X Nat
IsAt(f, x) == f.op = "data" => f.message = x[1] /\ f.part = x[2]
Past(f, x) == IF f.op # "data" THEN x ELSE IF f.fin THEN <<x[1] + 1, 1>> ELSE <<x[1], x[2] + 1>>

\* The data frames of q are what lies between the places x and y, pings left aside.
Leads(q, x, y) ==
  \E at \in [1 .. Len(q) + 1 -> Places] :
    /\ at[1] = x /\ at[Len(q) + 1] = y
    /\ \A i \in 1 .. Len(q) : IsAt(q[i], at[i]) /\ at[i + 1] = Past(q[i], at[i])

\* While the mux is open, what waits in pending is the beginning of the next message, and
\* what is on its way goes on from there to where dsh is.
MuxInv ==
  /\ ws \in {"open", "closed"}
  /\ inflight \in Seq(MuxFrames) /\ pending \in Seq(MuxFrames) /\ handled \in Seq(Nat)
  /\ muxSent \in Nat /\ sending \in Nat
  /\ MessagesAreWhole
  /\ ws = "open" =>
       /\ \A i \in 1 .. Len(pending) : pending[i].message = Len(handled) + 1 /\ pending[i].part = i
       /\ Leads(inflight, <<Len(handled) + 1, Len(pending) + 1>>, <<muxSent + 1, sending + 1>>)

LEMMA MuxFrameFacts ==
  /\ Ping \in MuxFrames /\ Ping.op = "ping" /\ Close \in MuxFrames /\ Close.op = "close"
  /\ \A m \in Nat, i \in Nat, fin \in BOOLEAN :
       /\ Fragment(m, i, fin) \in MuxFrames /\ Fragment(m, i, fin).op = "data"
       /\ Fragment(m, i, fin).message = m /\ Fragment(m, i, fin).part = i /\ Fragment(m, i, fin).fin = fin
BY DEF MuxFrames, Ping, Close, Fragment

LEMMA PastIsPlace == ASSUME NEW f \in MuxFrames, NEW x \in Places PROVE Past(f, x) \in Places
BY DEF Past, Places

LEMMA LeadsNowhere == ASSUME NEW x \in Places PROVE Leads(<<>>, x, x)
<1> DEFINE at == [i \in 1 .. 1 |-> x]
<1>1. at \in [1 .. 1 -> Places] /\ at[1] = x /\ Len(<<>>) = 0
  OBVIOUS
<1> HIDE DEF at
<1> QED BY <1>1 DEF Leads

LEMMA LeadsOn ==
  ASSUME NEW q \in Seq(MuxFrames), NEW x, NEW y \in Places, Leads(q, x, y), NEW f \in MuxFrames, IsAt(f, y)
  PROVE  Append(q, f) \in Seq(MuxFrames) /\ Leads(Append(q, f), x, Past(f, y))
<1> DEFINE a == Append(q, f)
           n == Len(q)
           z == Past(f, y)
<1>1. a \in Seq(MuxFrames) /\ Len(a) = n + 1
  <2>1. a \in Seq(MuxFrames)
    BY AppendProperties, Zenon
  <2>2. Len(a) = n + 1
    BY AppendProperties, Zenon
  <2> QED BY <2>1, <2>2
<1>2. \A i \in 1 .. n : a[i] = q[i]
  BY AppendProperties
<1>3. a[n + 1] = f
  BY AppendProperties, Zenon
<1>4. n \in Nat /\ z \in Places
  BY LenProperties, PastIsPlace
<1>5. PICK at \in [1 .. n + 1 -> Places] :
        /\ at[1] = x /\ at[n + 1] = y
        /\ \A i \in 1 .. n : IsAt(q[i], at[i]) /\ at[i + 1] = Past(q[i], at[i])
  BY DEF Leads
<1> HIDE DEF a, n, z
<1> DEFINE to == [i \in 1 .. n + 2 |-> IF i <= n + 1 THEN at[i] ELSE z]
<1>6. /\ to \in [1 .. n + 1 + 1 -> Places] /\ to[1] = x /\ to[n + 1 + 1] = z /\ to[n + 1] = y
      /\ \A i \in 1 .. n : to[i] = at[i] /\ to[i + 1] = at[i + 1]
  BY <1>4, <1>5
<1> HIDE DEF to
<1>7. ASSUME NEW i \in 1 .. n + 1 PROVE IsAt(a[i], to[i]) /\ to[i + 1] = Past(a[i], to[i])
  <2>1. CASE i \in 1 .. n
    BY <1>2, <1>5, <1>6, <2>1
  <2>2. CASE i = n + 1
    BY <1>3, <1>6, <2>2 DEF z
  <2> QED BY <1>4, <2>1, <2>2
<1>8. Leads(a, x, z)
  BY <1>1, <1>6, <1>7 DEF Leads
<1> QED BY <1>1, <1>8 DEF a, z

LEMMA LeadsFrom ==
  ASSUME NEW q \in Seq(MuxFrames), q # <<>>, NEW x \in Places, NEW y, Leads(q, x, y)
  PROVE  /\ Head(q) \in MuxFrames /\ IsAt(Head(q), x)
         /\ Tail(q) \in Seq(MuxFrames) /\ Leads(Tail(q), Past(Head(q), x), y)
<1> DEFINE r == Tail(q)
           n == Len(r)
<1>1. /\ Head(q) \in MuxFrames /\ r \in Seq(MuxFrames) /\ n = Len(q) - 1
      /\ \A i \in 1 .. n : r[i] = q[i + 1]
  BY HeadTailProperties
<1>2. Head(q) = q[1] /\ Len(q) \in Nat \ {0} /\ n \in Nat /\ Len(q) = n + 1
  BY <1>1, LenProperties, EmptySeq
<1>3. PICK at \in [1 .. n + 1 + 1 -> Places] :
        /\ at[1] = x /\ at[n + 1 + 1] = y
        /\ \A i \in 1 .. n + 1 : IsAt(q[i], at[i]) /\ at[i + 1] = Past(q[i], at[i])
  BY <1>2 DEF Leads
<1> HIDE DEF r, n
<1>4. IsAt(Head(q), x) /\ at[2] = Past(Head(q), x)
  <2>1. 1 \in 1 .. n + 1
    BY <1>2
  <2> QED BY <1>2, <1>3, <2>1
<1> DEFINE to == [i \in 1 .. n + 1 |-> at[i + 1]]
<1>5. /\ to \in [1 .. n + 1 -> Places] /\ to[1] = at[2] /\ to[n + 1] = y
      /\ \A i \in 1 .. n : to[i] = at[i + 1] /\ to[i + 1] = at[i + 1 + 1] /\ i + 1 \in 1 .. n + 1
  BY <1>2, <1>3
<1> HIDE DEF to
<1>6. ASSUME NEW i \in 1 .. n PROVE IsAt(r[i], to[i]) /\ to[i + 1] = Past(r[i], to[i])
  BY <1>1, <1>3, <1>5
<1>7. Leads(r, Past(Head(q), x), y)
  BY <1>4, <1>5, <1>6 DEF Leads, n
<1> QED BY <1>1, <1>4, <1>7 DEF r

LEMMA InitMux == MuxInit => MuxInv
<1> SUFFICES ASSUME MuxInit PROVE MuxInv
  OBVIOUS
<1> QED BY DEF MuxInit, MuxInv, MessagesAreWhole

\* dsh puts one more frame on the way.
LEMMA DshSpeaks ==
  ASSUME MuxInv, ws = "open", NEW f \in MuxFrames, IsAt(f, <<muxSent + 1, sending + 1>>),
         inflight' = Append(inflight, f), UNCHANGED <<ws, pending, handled>>,
         muxSent' \in Nat, sending' \in Nat,
         <<muxSent' + 1, sending' + 1>> = Past(f, <<muxSent + 1, sending + 1>>)
  PROVE  MuxInv'
<1> DEFINE x == <<Len(handled) + 1, Len(pending) + 1>>
           y == <<muxSent + 1, sending + 1>>
<1>1. inflight \in Seq(MuxFrames) /\ y \in Places /\ Leads(inflight, x, y)
  BY DEF MuxInv, Places
<1>2. inflight' \in Seq(MuxFrames) /\ Leads(inflight', x, Past(f, y))
  BY <1>1, LeadsOn
<1> QED BY <1>2 DEF MuxInv, MessagesAreWhole

\* The frame at the head is the next fragment of the message being read.
LEMMA NextOfMessage ==
  ASSUME MuxInv, ws = "open", inflight # <<>>
  PROVE  LET f == Head(inflight)
             x == <<Len(handled) + 1, Len(pending) + 1>>
         IN  /\ f \in MuxFrames /\ (f.op = "data" => f.message = Len(handled) + 1 /\ f.part = Len(pending) + 1)
             /\ Tail(inflight) \in Seq(MuxFrames)
             /\ Leads(Tail(inflight), Past(f, x), <<muxSent + 1, sending + 1>>)
             /\ Len(handled) \in Nat /\ Len(pending) \in Nat
<1> DEFINE x == <<Len(handled) + 1, Len(pending) + 1>>
<1>1. Len(handled) \in Nat /\ Len(pending) \in Nat
  BY LenProperties DEF MuxInv
<1>2. x \in Places /\ x[1] = Len(handled) + 1 /\ x[2] = Len(pending) + 1
  BY <1>1 DEF Places
<1>3. inflight \in Seq(MuxFrames) /\ Leads(inflight, x, <<muxSent + 1, sending + 1>>)
  BY DEF MuxInv
<1>4. /\ Head(inflight) \in MuxFrames /\ IsAt(Head(inflight), x)
      /\ Tail(inflight) \in Seq(MuxFrames)
      /\ Leads(Tail(inflight), Past(Head(inflight), x), <<muxSent + 1, sending + 1>>)
  BY <1>2, <1>3, LeadsFrom
<1> QED BY <1>1, <1>2, <1>4 DEF IsAt

LEMMA FragmentRead == MuxInv /\ ws = "open" /\ inflight # <<>> /\ ReadFragment(Head(inflight)) => MuxInv'
<1> SUFFICES ASSUME MuxInv, ws = "open", inflight # <<>>, ReadFragment(Head(inflight)) PROVE MuxInv'
  OBVIOUS
<1> DEFINE f   == Head(inflight)
           all == Append(pending, f)
           h   == Len(handled)
           p   == Len(pending)
           y   == <<muxSent + 1, sending + 1>>
<1>1. /\ f \in MuxFrames /\ f.op = "data" /\ f.message = h + 1 /\ f.part = p + 1
      /\ Tail(inflight) \in Seq(MuxFrames) /\ h \in Nat /\ p \in Nat
      /\ Leads(Tail(inflight), Past(f, <<h + 1, p + 1>>), y)
  BY NextOfMessage DEF ReadFragment
<1>2. /\ pending \in Seq(MuxFrames) /\ handled \in Seq(Nat) /\ muxSent \in Nat /\ sending \in Nat
      /\ \A i \in 1 .. p : pending[i].message = h + 1 /\ pending[i].part = i
      /\ \A i \in 1 .. h : handled[i] = i
  BY LenProperties DEF MuxInv, MessagesAreWhole
<1>3. all \in Seq(MuxFrames) /\ Len(all) = p + 1
  <2>1. all \in Seq(MuxFrames)
    BY <1>1, <1>2, AppendProperties
  <2>2. Len(all) = p + 1
    BY <1>1, <1>2, AppendProperties
  <2> QED BY <2>1, <2>2
<1>4. \A i \in 1 .. p + 1 : all[i].message = h + 1 /\ all[i].part = i
  <2>1. \A i \in 1 .. p : all[i] = pending[i]
    BY <1>1, <1>2, AppendProperties
  <2>2. all[p + 1] = f
    BY <1>1, <1>2, AppendProperties
  <2> QED BY <1>1, <1>2, <2>1, <2>2
<1>5. inflight' = Tail(inflight) /\ muxSent' = muxSent /\ sending' = sending
  BY DEF ReadFragment, NextFrame
<1>6. CASE Len(all) > MuxMaxMessage
  <2>1. ws' = "closed" /\ pending' = <<>> /\ handled' = handled
    BY <1>6 DEF ReadFragment, DropMux
  <2> QED BY <1>1, <1>2, <1>5, <2>1 DEF MuxInv, MessagesAreWhole
<1>7. CASE ~(Len(all) > MuxMaxMessage) /\ f.fin
  <2>1. \A i \in DOMAIN all : all[i].message = f.message /\ all[i].part = i
    BY <1>1, <1>3, <1>4, LenProperties
  <2>2. handled' = Append(handled, h + 1) /\ pending' = <<>> /\ ws' = ws
    BY <1>1, <1>7, <2>1 DEF ReadFragment
  <2>3. handled' \in Seq(Nat) /\ Len(handled') = h + 1
    BY <1>1, <1>2, <2>2, AppendProperties
  <2>4. \A i \in 1 .. h + 1 : handled'[i] = i
    <3>1. \A i \in 1 .. h : handled'[i] = handled[i]
      BY <1>1, <1>2, <2>2, AppendProperties
    <3>2. handled'[h + 1] = h + 1
      BY <1>1, <1>2, <2>2, AppendProperties
    <3>3. \A i \in 1 .. h + 1 : i \in 1 .. h \/ i = h + 1
      BY <1>1
    <3>4. \A i \in 1 .. h : handled'[i] = i
      BY <1>2, <3>1
    <3> QED BY <3>2, <3>3, <3>4
  <2>5. MessagesAreWhole'
    BY <2>3, <2>4 DEF MessagesAreWhole
  <2>6. Past(f, <<h + 1, p + 1>>) = <<h + 1 + 1, 1>>
    BY <1>1, <1>7 DEF Past
  <2>7. Leads(inflight', <<Len(handled') + 1, Len(pending') + 1>>, y)
    <3>1. Len(handled') + 1 = h + 1 + 1 /\ Len(pending') + 1 = 1
      BY <2>2, <2>3
    <3>2. Leads(inflight', <<h + 1 + 1, 1>>, y)
      BY <1>1, <1>5, <2>6
    <3> QED BY <3>1, <3>2
  <2> QED BY <1>1, <1>2, <1>5, <2>2, <2>3, <2>5, <2>7 DEF MuxInv
<1>8. CASE ~(Len(all) > MuxMaxMessage) /\ ~f.fin
  <2>1. handled' = handled /\ pending' = all /\ ws' = ws
    BY <1>8 DEF ReadFragment
  <2>2. Past(f, <<h + 1, p + 1>>) = <<h + 1, p + 1 + 1>>
    BY <1>1, <1>8 DEF Past
  <2>3. Leads(inflight', <<Len(handled') + 1, Len(pending') + 1>>, y)
    BY <1>1, <1>3, <1>5, <2>1, <2>2
  <2>4. MessagesAreWhole'
    BY <2>1 DEF MuxInv, MessagesAreWhole
  <2> QED BY <1>1, <1>2, <1>3, <1>4, <1>5, <2>1, <2>3, <2>4 DEF MuxInv
<1> QED BY <1>6, <1>7, <1>8

\* Only an open mux is pumped.
PumpsOpen == pump # 0 => ws = "open"

LEMMA StepMux == MuxInv /\ PumpsOpen /\ [MuxNext]_muxVars => MuxInv' /\ PumpsOpen'
<1> SUFFICES ASSUME MuxInv, PumpsOpen, [MuxNext]_muxVars PROVE MuxInv' /\ PumpsOpen'
  OBVIOUS
<1> USE DEF PumpsOpen
<1>1. CASE UNCHANGED muxVars
  BY <1>1 DEF muxVars, muxDsh, MuxInv, MessagesAreWhole
<1>2. CASE OpenMux
  <2>1. <<1, 1>> \in Places /\ Len(<<>>) = 0
    BY DEF Places
  <2>2. Leads(<<>>, <<1, 1>>, <<1, 1>>)
    BY <2>1, LeadsNowhere
  <2>3. /\ inflight' = <<>> /\ pending' = <<>> /\ handled' = <<>> /\ muxSent' = 0 /\ sending' = 0
        /\ ws' = "open" /\ pump' = pump
    BY <1>2 DEF OpenMux
  <2>4. Leads(inflight', <<Len(handled') + 1, Len(pending') + 1>>, <<muxSent' + 1, sending' + 1>>)
    BY <2>1, <2>2, <2>3
  <2> QED BY <2>3, <2>4 DEF MuxInv, MessagesAreWhole
<1>3. CASE StartPump \/ NothingYet \/ MuxFails
  BY <1>3 DEF StartPump, NothingYet, MuxFails, DropMux, muxDsh, MuxInv, MessagesAreWhole
<1>4. ASSUME NEW fin \in BOOLEAN, SendFragment(fin) PROVE MuxInv' /\ PumpsOpen'
  <2> DEFINE f == Fragment(muxSent + 1, sending + 1, fin)
  <2>1. /\ muxSent \in Nat /\ sending \in Nat /\ muxSent + 1 \in Nat /\ sending + 1 \in Nat
    BY DEF MuxInv
  <2>2. f \in MuxFrames /\ f.op = "data" /\ f.message = muxSent + 1 /\ f.part = sending + 1 /\ f.fin = fin
    BY <2>1, MuxFrameFacts
  <2> HIDE DEF f
  <2>3. /\ ws = "open" /\ inflight' = Append(inflight, f) /\ UNCHANGED <<ws, pending, handled, pump>>
        /\ sending' = (IF fin THEN 0 ELSE sending + 1) /\ muxSent' = (IF fin THEN muxSent + 1 ELSE muxSent)
    BY <1>4 DEF SendFragment, MuxKeeps, f
  <2>4. IsAt(f, <<muxSent + 1, sending + 1>>)
    BY <2>2 DEF IsAt
  <2>5. Past(f, <<muxSent + 1, sending + 1>>) = <<muxSent' + 1, sending' + 1>>
    BY <2>1, <2>2, <2>3 DEF Past
  <2>6. MuxInv'
    BY <2>1, <2>2, <2>3, <2>4, <2>5, DshSpeaks
  <2> QED BY <2>3, <2>6
<1>5. CASE SendPing \/ SendClose
  <2>1. PICK f \in {Ping, Close} : inflight' = Append(inflight, f)
    BY <1>5 DEF SendPing, SendClose
  <2>2. ws = "open" /\ UNCHANGED <<ws, pending, handled, pump, muxSent, sending>>
    BY <1>5 DEF SendPing, SendClose, MuxKeeps
  <2>3. f \in MuxFrames /\ f.op # "data"
    BY MuxFrameFacts
  <2>4. /\ IsAt(f, <<muxSent + 1, sending + 1>>)
        /\ Past(f, <<muxSent + 1, sending + 1>>) = <<muxSent' + 1, sending' + 1>>
    BY <2>2, <2>3 DEF IsAt, Past
  <2>5. muxSent' \in Nat /\ sending' \in Nat
    BY <2>2 DEF MuxInv
  <2>6. MuxInv'
    BY <2>1, <2>2, <2>3, <2>4, <2>5, DshSpeaks
  <2> QED BY <2>2, <2>6
<1>6. CASE ReadPing \/ ReadClose
  <2> DEFINE f == Head(inflight)
  <2>1. /\ ws = "open" /\ inflight # <<>> /\ f \in {Ping, Close} /\ inflight' = Tail(inflight)
        /\ UNCHANGED <<pending, handled, muxSent, sending>>
        /\ (ws' = ws /\ pump' = pump) \/ (ws' = "closed" /\ pump' = 0)
    <3>1. CASE ReadPing
      BY <3>1, MuxFrameFacts DEF ReadPing, NextFrame
    <3>2. CASE ReadClose
      BY <3>2, MuxFrameFacts DEF ReadClose, NextFrame, DropMux
    <3> QED BY <1>6, <3>1, <3>2
  <2>2. /\ Tail(inflight) \in Seq(MuxFrames)
        /\ Leads(Tail(inflight), Past(f, <<Len(handled) + 1, Len(pending) + 1>>), <<muxSent + 1, sending + 1>>)
    BY <2>1, NextOfMessage
  <2>3. Past(f, <<Len(handled) + 1, Len(pending) + 1>>) = <<Len(handled) + 1, Len(pending) + 1>>
    BY <2>1, MuxFrameFacts DEF Past
  <2>4. Leads(inflight', <<Len(handled') + 1, Len(pending') + 1>>, <<muxSent' + 1, sending' + 1>>)
    BY <2>1, <2>2, <2>3
  <2> QED BY <2>1, <2>2, <2>4 DEF MuxInv, MessagesAreWhole
<1>7. CASE inflight # <<>> /\ ReadFragment(Head(inflight))
  <2>1. ws = "open" /\ (pump' # 0 => ws' = "open")
    BY <1>7 DEF ReadFragment, NextFrame, DropMux
  <2> QED BY <1>7, <2>1, FragmentRead
<1> QED BY <1>1, <1>2, <1>3, <1>4, <1>5, <1>6, <1>7 DEF MuxNext, MuxRead

\* A message is handled once it is whole, and the messages in the order dsh sent them:
\* for any number of fragments, pings and connections, and however small the pump's
\* budget (dsh_ws_recv, pump_mux).
THEOREM MessagesStayWhole == MuxSpec => []MessagesAreWhole
<1>1. MuxInit => PumpsOpen
  BY DEF MuxInit, PumpsOpen
<1>2. MuxInv => MessagesAreWhole
  BY DEF MuxInv
<1> QED BY InitMux, StepMux, <1>1, <1>2, PTL DEF MuxSpec

-----------------------------------------------------------------------------
\* The calls of the sender.

\* A request that would change something is with dsh, carried out, or given up.
Owed(r) == IF r \in posted THEN 1 ELSE 0

CallTypes ==
  /\ posted \subseteq Requests /\ current \in Requests \cup {"none"}
  /\ method \in [Requests -> Methods \cup {"none"}]
  /\ effects \in [Requests -> Nat] /\ answers \in [Requests -> Seq(Codes)]

\* What is true of one request: unread, being called for, or told.
CallInv(r) ==
  /\ method[r] = "none" => effects[r] = 0 /\ r \notin posted /\ answers[r] = <<>> /\ current # r
  /\ current = r => answers[r] = <<>> /\ method[r] \notin Local
  /\ r \in posted => method[r] \in Changes
  /\ method[r] \in Changes => effects[r] + Owed(r) <= 1
  /\ method[r] \in Changes /\ current = r => effects[r] + Owed(r) = 1 /\ todo = <<"call">>
  /\ method[r] = "mkdir" => effects[r] <= 1
  /\ answers[r] = <<>> \/ \E c \in Codes : answers[r] = <<c>>
  /\ method[r] \in Changes \cup {"mkdir"} /\ answers[r] = <<"result">> => effects[r] = 1
  /\ \A c \in Refused : method[r] \in Changes \cup {"mkdir"} /\ answers[r] = <<c>> =>
       effects[r] = 0 /\ r \notin posted

CallsInv == CallTypes /\ \A r \in Requests : CallInv(r)

LEMMA CodeFacts ==
  /\ Refused \subseteq Codes /\ "result" \in Codes /\ "result" \notin Refused
  /\ Unanswered \subseteq Codes /\ Unanswered \cap Refused = {}
  /\ "mkdir" \in Local /\ Changes \cap Local = {} /\ "none" \notin Local /\ "none" \notin Changes
  /\ "mkdir" \notin Changes
  /\ "sessions" \notin Changes /\ "balance" \notin Changes /\ "bundle" \notin Changes
  /\ "relay/balance-unavailable" \in Codes /\ "none" \notin Refused
BY DEF Refused, Codes, Unanswered, Local, Changes

\* What the invariant says of the answers is what is claimed of them.
LEMMA ToldIsTrue == CallsInv => AnswersAreTrue
<1> SUFFICES ASSUME CallsInv, NEW r \in Requests
    PROVE  /\ Len(answers[r]) <= 1
           /\ method[r] \in Changes \cup {"mkdir"} =>
                /\ "result" \in Range(answers[r]) => effects[r] = 1
                /\ Range(answers[r]) \cap Refused # {} => effects[r] = 0 /\ r \notin posted
                /\ effects[r] <= 1
  BY DEF AnswersAreTrue
<1>1. CallInv(r) /\ effects[r] \in Nat
  BY DEF CallsInv, CallTypes
<1>2. method[r] \in Changes \cup {"mkdir"} => effects[r] <= 1
  BY <1>1 DEF CallInv, Owed
<1>3. CASE answers[r] = <<>>
  <2>1. Len(answers[r]) = 0 /\ Range(answers[r]) = {}
    BY <1>3 DEF Range
  <2> QED BY <1>2, <2>1
<1>4. ASSUME NEW c \in Codes, answers[r] = <<c>>
      PROVE  /\ Len(answers[r]) <= 1
             /\ method[r] \in Changes \cup {"mkdir"} =>
                  /\ "result" \in Range(answers[r]) => effects[r] = 1
                  /\ Range(answers[r]) \cap Refused # {} => effects[r] = 0 /\ r \notin posted
                  /\ effects[r] <= 1
  <2>1. Len(answers[r]) = 1 /\ Range(answers[r]) = {c}
    BY <1>4 DEF Range
  <2>2. method[r] \in Changes \cup {"mkdir"} /\ c = "result" => effects[r] = 1
    BY <1>1, <1>4 DEF CallInv
  <2>3. method[r] \in Changes \cup {"mkdir"} /\ c \in Refused => effects[r] = 0 /\ r \notin posted
    BY <1>1, <1>4 DEF CallInv
  <2> QED BY <1>2, <2>1, <2>2, <2>3
<1> QED BY <1>1, <1>3, <1>4 DEF CallInv

LEMMA InitCalls == CallsInit => CallsInv
<1> SUFFICES ASSUME CallsInit PROVE CallsInv
  OBVIOUS
<1>1. CallTypes
  <2>1. posted \subseteq Requests /\ current \in Requests \cup {"none"}
    BY DEF CallsInit
  <2>2. method \in [Requests -> Methods \cup {"none"}] /\ effects \in [Requests -> Nat]
    BY DEF CallsInit
  <2>3. answers \in [Requests -> Seq(Codes)]
    <3> DEFINE C == Codes
    <3> HIDE DEF C
    <3>1. <<>> \in Seq(C)
      OBVIOUS
    <3>2. answers \in [Requests -> Seq(C)]
      BY <3>1 DEF CallsInit
    <3> QED BY <3>2 DEF C
  <2> QED BY <2>1, <2>2, <2>3 DEF CallTypes
<1>2. \A r \in Requests : CallInv(r)
  BY CodeFacts, CallsAssumption DEF CallsInit, CallInv, Owed
<1> QED BY <1>1, <1>2 DEF CallsInv

\* A step leaves alone whom it is not about.
Untouched(s) ==
  /\ method'[s] = method[s] /\ answers'[s] = answers[s] /\ effects'[s] = effects[s]
  /\ s \in posted' <=> s \in posted
  /\ current' = s => current = s /\ (todo' = todo \/ method[s] \notin Changes)

LEMMA UntouchedKeeps == ASSUME NEW s \in Requests, CallInv(s), Untouched(s) PROVE CallInv(s)'
BY DEF CallInv, Untouched, Owed

\* A reply is the only one, or is lost with the link.
LEMMA ReplyOnce ==
  ASSUME CallsInv, NEW r \in Requests, answers[r] = <<>>, NEW c \in Codes, NEW json, Reply(r, c, json)
  PROVE  /\ answers' \in [Requests -> Seq(Codes)] /\ answers'[r] \in {<<>>, <<c>>}
         /\ \A s \in Requests \ {r} : answers'[s] = answers[s]
<1>1. answers \in [Requests -> Seq(Codes)]
  BY DEF CallsInv, CallTypes
<1>2. Append(<<>>, c) = <<c>> /\ <<c>> \in Seq(Codes)
  OBVIOUS
<1>3. answers' = [answers EXCEPT ![r] = Append(@, c)] \/ answers' = answers
  BY DEF Reply
<1> QED BY <1>1, <1>2, <1>3

LEMMA RefusalIsRefused == \A m, complete : Refusal(m, complete) \in Refused \cup {"none"}
<1> TAKE m, complete
<1>1. /\ "relay/bad-request" \in Refused /\ "relay/mux-unavailable" \in Refused
      /\ "relay/dsh-unavailable" \in Refused /\ "relay/not-subscribed" \in Refused
      /\ "relay/not-connected" \in Refused /\ "relay/not-following" \in Refused
  BY DEF Refused
<1> QED BY <1>1 DEF Refusal

\* What a request is when it is read.
LEMMA ReadFacts ==
  ASSUME CallsInv, NEW r \in Requests, NEW m \in Methods, Reads(r, m)
  PROVE  /\ current = "none" /\ method[r] = "none" /\ method' = [method EXCEPT ![r] = m]
         /\ method' \in [Requests -> Methods \cup {"none"}] /\ method'[r] = m
         /\ \A s \in Requests \ {r} : method'[s] = method[s]
         /\ effects[r] = 0 /\ r \notin posted /\ answers[r] = <<>> /\ CallInv(r)
<1>1. method \in [Requests -> Methods \cup {"none"}] /\ CallInv(r)
  BY DEF CallsInv, CallTypes
<1>2. current = "none" /\ method[r] = "none" /\ method' = [method EXCEPT ![r] = m]
  BY DEF Reads
<1> QED BY <1>1, <1>2 DEF CallInv

LEMMA RefuseStep ==
  ASSUME CallsInv, NEW r \in Requests, NEW m \in Methods, NEW complete \in BOOLEAN, Refuse(r, m, complete)
  PROVE  CallsInv'
<1> DEFINE c == Refusal(m, complete)
<1>1. Reads(r, m) /\ c # "none" /\ Reply(r, c, TRUE) /\ UNCHANGED <<current, todo, posted, effects>>
  BY DEF Refuse, dshVars
<1>2. c \in Refused /\ c \in Codes
  BY <1>1, RefusalIsRefused, CodeFacts
<1> HIDE DEF c
<1>3. /\ current = "none" /\ method' \in [Requests -> Methods \cup {"none"}] /\ method'[r] = m
      /\ \A s \in Requests \ {r} : method'[s] = method[s]
      /\ effects[r] = 0 /\ r \notin posted /\ answers[r] = <<>>
  BY <1>1, ReadFacts
<1>4. /\ answers' \in [Requests -> Seq(Codes)] /\ answers'[r] \in {<<>>, <<c>>}
      /\ \A s \in Requests \ {r} : answers'[s] = answers[s]
  BY <1>1, <1>2, <1>3, ReplyOnce
<1>5. CallTypes'
  BY <1>1, <1>3, <1>4 DEF CallsInv, CallTypes
<1>6. CallInv(r)'
  <2>1. m # "none" /\ r # "none" /\ c # "result"
    BY <1>2, CodeFacts, CallsAssumption DEF Methods, Local, Changes
  <2>2. answers'[r] # <<"result">>
    <3>1. <<c>>[1] = c /\ <<"result">>[1] = "result" /\ <<>> # <<"result">>
      OBVIOUS
    <3>2. <<c>> # <<"result">>
      BY <2>1, <3>1
    <3> QED BY <1>4, <3>1, <3>2
  <2> QED BY <1>1, <1>2, <1>3, <1>4, <2>1, <2>2 DEF CallInv, Owed
<1>7. ASSUME NEW s \in Requests \ {r} PROVE CallInv(s)'
  BY <1>1, <1>3, <1>4, UntouchedKeeps DEF Untouched, CallsInv
<1> QED BY <1>5, <1>6, <1>7 DEF CallsInv

LEMMA LocalStep ==
  ASSUME CallsInv, NEW r \in Requests, NEW m \in Methods, NEW complete \in BOOLEAN,
         AnswerLocally(r, m, complete)
  PROVE  CallsInv'
<1>1. Reads(r, m) /\ m \in Local /\ UNCHANGED <<current, todo, posted>>
  BY DEF AnswerLocally
<1>2. PICK c \in Codes, json \in BOOLEAN :
        /\ Reply(r, c, json)
        /\ \/ c = "result" /\ effects' = IF m = "mkdir" THEN [effects EXCEPT ![r] = @ + 1] ELSE effects
           \/ c # "result" /\ effects' = effects
  <2>1. "relay/browse-failed" \in Codes /\ "relay/mkdir-failed" \in Codes /\ "result" \in Codes
    BY DEF Codes, Refused
  <2> QED BY <2>1 DEF AnswerLocally
<1>3. /\ current = "none" /\ method' \in [Requests -> Methods \cup {"none"}] /\ method'[r] = m
      /\ \A s \in Requests \ {r} : method'[s] = method[s]
      /\ effects[r] = 0 /\ r \notin posted /\ answers[r] = <<>>
  BY <1>1, ReadFacts
<1>4. /\ answers' \in [Requests -> Seq(Codes)] /\ answers'[r] \in {<<>>, <<c>>}
      /\ \A s \in Requests \ {r} : answers'[s] = answers[s]
  BY <1>2, <1>3, ReplyOnce
<1>5. /\ effects' \in [Requests -> Nat] /\ \A s \in Requests \ {r} : effects'[s] = effects[s]
      /\ m = "mkdir" => IF c = "result" THEN effects'[r] = 1 ELSE effects'[r] = 0
  BY <1>2, <1>3 DEF CallsInv, CallTypes
<1>6. CallTypes'
  BY <1>1, <1>3, <1>4, <1>5 DEF CallsInv, CallTypes
<1>7. CallInv(r)'
  <2>1. m # "none" /\ r # "none" /\ m \notin Changes
    BY <1>1, CodeFacts, CallsAssumption
  <2>2. answers'[r] = <<>> \/ answers'[r] = <<c>>
    BY <1>4
  <2>3. m = "mkdir" /\ answers'[r] = <<"result">> => effects'[r] = 1
    BY <1>5, <2>2
  <2>4. ASSUME NEW d \in Refused, m = "mkdir", answers'[r] = <<d>> PROVE effects'[r] = 0
    <3>1. c = d
      BY <2>2, <2>4
    <3> QED BY <1>5, <2>4, <3>1, CodeFacts
  <2>5. m = "mkdir" => effects'[r] <= 1
    BY <1>5
  <2> QED BY <1>1, <1>3, <2>1, <2>2, <2>3, <2>4, <2>5 DEF CallInv
<1>8. ASSUME NEW s \in Requests \ {r} PROVE CallInv(s)'
  BY <1>1, <1>3, <1>4, <1>5, UntouchedKeeps DEF Untouched, CallsInv
<1> QED BY <1>6, <1>7, <1>8 DEF CallsInv

LEMMA StartStep ==
  ASSUME CallsInv, NEW r \in Requests, NEW m \in Methods, NEW complete \in BOOLEAN,
         StartCalls(r, m, complete)
  PROVE  CallsInv'
<1>1. /\ Reads(r, m) /\ m \notin Local /\ todo' \in CallsOf(m) /\ current' = r
      /\ posted' = (IF m \in Changes THEN posted \cup {r} ELSE posted)
      /\ UNCHANGED <<effects, answers>>
  BY DEF StartCalls
<1>2. /\ current = "none" /\ method' \in [Requests -> Methods \cup {"none"}] /\ method'[r] = m
      /\ \A s \in Requests \ {r} : method'[s] = method[s]
      /\ effects[r] = 0 /\ r \notin posted /\ answers[r] = <<>>
  BY <1>1, ReadFacts
<1>3. m \in Changes => todo' = <<"call">>
  BY <1>1 DEF CallsOf, Changes
<1>4. CallTypes'
  BY <1>1, <1>2 DEF CallsInv, CallTypes
<1>5. CallInv(r)'
  <2>1. m # "none" /\ m # "mkdir" /\ answers'[r] = <<>> /\ effects'[r] = 0
    BY <1>1, <1>2, CodeFacts DEF Methods, Local, Changes
  <2>2. m \in Changes => r \in posted'
    BY <1>1
  <2>3. r \in posted' => m \in Changes
    BY <1>1, <1>2
  <2> QED BY <1>1, <1>2, <1>3, <2>1, <2>2, <2>3 DEF CallInv, Owed
<1>6. ASSUME NEW s \in Requests \ {r} PROVE CallInv(s)'
  BY <1>1, <1>2, UntouchedKeeps DEF Untouched, CallsInv
<1> QED BY <1>4, <1>5, <1>6 DEF CallsInv

LEMMA CarryStep == ASSUME CallsInv, NEW r \in Requests, CarryOut(r) PROVE CallsInv'
<1>1. /\ r \in posted /\ posted' = posted \ {r} /\ effects' = [effects EXCEPT ![r] = @ + 1]
      /\ UNCHANGED <<method, current, todo, answers>>
  BY DEF CarryOut, workVars
<1>2. CallInv(r) /\ effects \in [Requests -> Nat]
  BY DEF CallsInv, CallTypes
<1>3. method[r] \in Changes /\ effects[r] = 0 /\ method[r] # "mkdir" /\ method[r] # "none"
  BY <1>1, <1>2, CodeFacts DEF CallInv, Owed
<1>4. effects' \in [Requests -> Nat] /\ effects'[r] = 1 /\ \A s \in Requests \ {r} : effects'[s] = effects[s]
  BY <1>1, <1>2, <1>3
<1>5. CallTypes'
  BY <1>1, <1>4 DEF CallsInv, CallTypes
<1>6. CallInv(r)'
  <2>1. \A c \in Refused : answers[r] # <<c>>
    BY <1>1, <1>2, <1>3 DEF CallInv
  <2> QED BY <1>1, <1>2, <1>3, <1>4, <2>1 DEF CallInv, Owed
<1>7. ASSUME NEW s \in Requests \ {r} PROVE CallInv(s)'
  BY <1>1, <1>4, UntouchedKeeps DEF Untouched, CallsInv
<1> QED BY <1>5, <1>6, <1>7 DEF CallsInv

\* The request being called for is told what became of it: of a change, a value only
\* when it was carried out, and a refusal only when dsh has given it up.
LEMMA ToldStep ==
  ASSUME CallsInv, NEW r \in Requests, current = r, NEW c \in Codes, NEW json, Reply(r, c, json),
         current' = "none", UNCHANGED <<method, effects>>, posted' \in {posted, posted \ {r}},
         method[r] \in Changes /\ c = "result" => r \notin posted,
         method[r] \in Changes /\ c \in Refused => r \in posted /\ r \notin posted'
  PROVE  CallsInv'
<1>1. /\ CallInv(r) /\ answers[r] = <<>> /\ effects[r] \in Nat
      /\ method[r] \in Changes => effects[r] + Owed(r) = 1
      /\ method[r] \notin Local /\ method[r] # "none"
  BY CodeFacts DEF CallsInv, CallTypes, CallInv
<1>2. /\ answers' \in [Requests -> Seq(Codes)] /\ answers'[r] \in {<<>>, <<c>>}
      /\ \A s \in Requests \ {r} : answers'[s] = answers[s]
  BY <1>1, ReplyOnce
<1>3. CallTypes'
  BY <1>2 DEF CallsInv, CallTypes
<1>4. CallInv(r)'
  <2>1. answers'[r] = <<>> \/ answers'[r] = <<c>>
    BY <1>2
  <2>2. r # "none" /\ method[r] # "mkdir"
    BY <1>1, CallsAssumption, CodeFacts
  <2>3. method[r] \in Changes /\ answers'[r] = <<"result">> => effects[r] = 1
    BY <1>1, <2>1 DEF Owed
  <2>4. ASSUME NEW d \in Refused, method[r] \in Changes, answers'[r] = <<d>>
        PROVE  effects[r] = 0 /\ r \notin posted'
    <3>1. c = d
      BY <2>1, <2>4
    <3> QED BY <1>1, <2>4, <3>1 DEF Owed
  <2>5. method[r] \in Changes => effects[r] + Owed(r)' <= 1
    BY <1>1 DEF Owed
  <2>6. r \in posted' => method[r] \in Changes
    BY <1>1 DEF CallInv
  <2> QED BY <1>1, <2>1, <2>2, <2>3, <2>4, <2>5, <2>6 DEF CallInv
<1>5. ASSUME NEW s \in Requests \ {r} PROVE CallInv(s)'
  <2>1. current' # s
    BY CallsAssumption
  <2> QED BY <1>2, <2>1, UntouchedKeeps DEF Untouched, CallsInv
<1> QED BY <1>3, <1>4, <1>5 DEF CallsInv

LEMMA CallReturnsStep == CallsInv /\ CallReturns => CallsInv'
<1> SUFFICES ASSUME CallsInv, CallReturns PROVE CallsInv'
  OBVIOUS
<1>1. /\ current \in Requests /\ current' = "none" /\ UNCHANGED <<method, effects>>
  BY DEF CallReturns, Calling, Done, CallsInv, CallTypes
<1>2. PICK o \in Outcomes(current) : Reply(current, o[1], TRUE) /\ posted' = o[2]
  BY DEF CallReturns
<1>3. /\ o[1] \in {"result", "dsh"} \cup Unanswered /\ o[2] \in {posted, posted \ {current}}
      /\ o[1] = "result" /\ method[current] \in Changes => current \notin posted
      /\ o[1] = "dsh" /\ method[current] \in Changes => current \in posted /\ o[2] = posted \ {current}
  BY DEF Outcomes, Unanswered
<1>4. /\ o[1] \in Codes /\ (o[1] \in Refused => o[1] = "dsh")
  BY <1>3 DEF Codes, Refused, Unanswered
<1> QED BY <1>1, <1>2, <1>3, <1>4, ToldStep

LEMMA OtherReturnsStep == CallsInv /\ (ListReturns \/ BalanceReturns \/ BundleReturns) => CallsInv'
<1> SUFFICES ASSUME CallsInv, ListReturns \/ BalanceReturns \/ BundleReturns PROVE CallsInv'
  OBVIOUS
<1>1. /\ current \in Requests /\ current' = "none" /\ UNCHANGED <<method, effects, posted>>
  BY DEF ListReturns, BalanceReturns, BundleReturns, Calling, Done, CallsInv, CallTypes, dshVars
<1>2. method[current] \notin Changes
  <2>1. CASE ListReturns \/ BalanceReturns
    BY <2>1, CodeFacts DEF ListReturns, BalanceReturns
  <2>2. CASE BundleReturns
    <3>1. todo = <<>> /\ <<"call">> # <<>>
      BY <2>2 DEF BundleReturns
    <3> QED BY <1>1, <3>1 DEF CallsInv, CallInv
  <2> QED BY <2>1, <2>2
<1>3. PICK c \in Codes : \E json : Reply(current, c, json)
  <2>1. CASE ListReturns
    <3>1. PICK o \in Outcomes(current) : Reply(current, o[1], TRUE)
      BY <2>1 DEF ListReturns
    <3>2. o[1] \in Codes
      BY DEF Outcomes, Codes, Unanswered, Refused
    <3> QED BY <3>1, <3>2
  <2>2. CASE BalanceReturns
    BY <2>2, CodeFacts DEF BalanceReturns
  <2>3. CASE BundleReturns
    BY <2>3, CodeFacts DEF BundleReturns
  <2> QED BY <2>1, <2>2, <2>3
<1>4. PICK json : Reply(current, c, json)
  BY <1>3
<1> QED BY <1>1, <1>2, <1>4, ToldStep

LEMMA QuietCalls ==
  ASSUME CallsInv, UNCHANGED <<method, current, dshVars, answers>>,
         todo' = todo \/ (current \in Requests /\ method[current] \notin Changes)
  PROVE  CallsInv'
<1>1. CallTypes'
  BY DEF CallsInv, CallTypes, dshVars
<1>2. ASSUME NEW s \in Requests PROVE CallInv(s)'
  <2>1. Untouched(s)
    BY DEF Untouched, dshVars
  <2> QED BY <2>1, UntouchedKeeps DEF CallsInv
<1> QED BY <1>1, <1>2 DEF CallsInv

LEMMA StepCalls == CallsInv /\ [CallsNext]_callsVars => CallsInv'
<1> SUFFICES ASSUME CallsInv, [CallsNext]_callsVars PROVE CallsInv'
  OBVIOUS
<1>1. CASE UNCHANGED callsVars
  BY <1>1, QuietCalls DEF callsVars, workVars
<1>2. CASE BundlePart
  <2>1. current \in Requests /\ method[current] \notin Changes /\ UNCHANGED <<method, current, dshVars, answers>>
    BY <1>2, CodeFacts DEF BundlePart, CallsInv, CallTypes
  <2> QED BY <2>1, QuietCalls
<1>3. CASE LinkFails \/ LinkReturns \/ MuxOpens \/ MuxDrops \/ ReadyFrame \/ \E ok \in BOOLEAN : DshAnswers(ok)
  <2>1. UNCHANGED <<method, current, todo, dshVars, answers>>
    BY <1>3 DEF LinkFails, LinkReturns, MuxOpens, MuxDrops, ReadyFrame, DshAnswers, Between, workVars
  <2> QED BY <2>1, QuietCalls
<1>4. CASE CallReturns \/ ListReturns \/ BalanceReturns \/ BundleReturns
  BY <1>4, CallReturnsStep, OtherReturnsStep
<1>5. ASSUME NEW r \in Requests, NEW m \in Methods, NEW complete \in BOOLEAN,
             Refuse(r, m, complete) \/ AnswerLocally(r, m, complete) \/ StartCalls(r, m, complete)
      PROVE  CallsInv'
  BY <1>5, RefuseStep, LocalStep, StartStep
<1>6. ASSUME NEW r \in Requests, CarryOut(r) PROVE CallsInv'
  BY <1>6, CarryStep
<1> QED BY <1>1, <1>2, <1>3, <1>4, <1>5, <1>6 DEF CallsNext, CallsReturn

\* A client is told once, and truly, whatever request it makes, however the calls of it
\* end and whenever dsh gets round to them (handle_request, call_and_reply,
\* dsh_rpc_call).
THEOREM AnswersStayTrue == CallsSpec => []AnswersAreTrue
BY InitCalls, StepCalls, ToldIsTrue, PTL DEF CallsSpec

\* What the invariant does not say of the types: the flags, the client id, the calls
\* that remain and the count of outages.
Todo == {"call", "list", "catalog", "balance"}

CallsRest ==
  /\ relayUp \in BOOLEAN /\ dshReady \in BOOLEAN /\ wsReady \in BOOLEAN /\ following \in BOOLEAN
  /\ plainName \in BOOLEAN /\ collected \in BOOLEAN
  /\ eventsId \in {"", "open", "gone"} /\ todo \in Seq(Todo) /\ outages \in 0 .. MaxOutages

LEMMA CallsRestStarts == CallsInit => CallsRest
<1> SUFFICES ASSUME CallsInit PROVE CallsRest
  OBVIOUS
<1>1. /\ relayUp \in BOOLEAN /\ dshReady \in BOOLEAN /\ wsReady \in BOOLEAN /\ following \in BOOLEAN
      /\ plainName \in BOOLEAN /\ collected \in BOOLEAN
  BY Zenon DEF CallsInit
<1>2. <<>> \in Seq(Todo) /\ 0 \in 0 .. MaxOutages
  BY CallsAssumption
<1> QED BY <1>1, <1>2 DEF CallsInit, CallsRest

\* A bundle asks for some of three parts, any other request for one call.
LEMMA CallsAre == \A m : CallsOf(m) \subseteq Seq(Todo)
<1> TAKE m
<1> DEFINE A == {<<>>, <<"list">>}
           B == {<<>>, <<"catalog">>}
           C == {<<>>, <<"balance">>}
           parts == {a \o b \o c : a \in A, b \in B, c \in C}
           list == {<<"list">>}
           balance == {<<"balance">>}
           call == {<<"call">>}
<1>1. CallsOf(m) = CASE m = "bundle" -> parts [] m = "sessions" -> list
                     [] m = "balance" -> balance [] OTHER -> call
  BY DEF CallsOf
<1>2. /\ A \subseteq Seq(Todo) /\ B \subseteq Seq(Todo) /\ C \subseteq Seq(Todo)
      /\ list \subseteq Seq(Todo) /\ balance \subseteq Seq(Todo) /\ call \subseteq Seq(Todo)
  <2>1. /\ <<>> \in Seq(Todo) /\ <<"list">> \in Seq(Todo) /\ <<"catalog">> \in Seq(Todo)
        /\ <<"balance">> \in Seq(Todo) /\ <<"call">> \in Seq(Todo)
    BY DEF Todo
  <2> QED BY <2>1, Zenon
<1> HIDE DEF A, B, C, list, balance, call
<1>3. parts \subseteq Seq(Todo)
  <2>1. \A a, b \in Seq(Todo) : a \o b \in Seq(Todo)
    BY ConcatProperties
  <2>2. ASSUME NEW a \in A, NEW b \in B, NEW c \in C PROVE a \o b \o c \in Seq(Todo)
    <3>1. a \in Seq(Todo) /\ b \in Seq(Todo) /\ c \in Seq(Todo)
      BY <1>2
    <3>2. (a \o b) \in Seq(Todo)
      BY <2>1, <3>1, Zenon
    <3> QED BY <2>1, <3>1, <3>2, Zenon
  <2>3. \A x \in parts : \E a \in A, b \in B, c \in C : x = a \o b \o c
    OBVIOUS
  <2> HIDE DEF parts
  <2> QED BY <2>2, <2>3, Zenon
<1> HIDE DEF parts
<1> QED BY <1>1, <1>2, <1>3

LEMMA ReplyFlag == ASSUME NEW r, NEW code, NEW json \in BOOLEAN, Reply(r, code, json), relayUp \in BOOLEAN
                   PROVE  relayUp' \in BOOLEAN
BY Zenon DEF Reply

LEMMA CallsRestKept ==
  ASSUME CallsRest, [CallsNext]_callsVars
  PROVE  CallsRest'
<1>1. /\ relayUp \in BOOLEAN /\ dshReady \in BOOLEAN /\ wsReady \in BOOLEAN /\ following \in BOOLEAN
      /\ plainName \in BOOLEAN /\ collected \in BOOLEAN
  BY Zenon DEF CallsRest
<1>2. eventsId \in {"", "open", "gone"} /\ todo \in Seq(Todo) /\ outages \in 0 .. MaxOutages
  BY Zenon DEF CallsRest
<1>3. outages' \in 0 .. MaxOutages /\ eventsId' \in {"", "open", "gone"}
  <2>1. outages' = outages \/ (outages < MaxOutages /\ outages' = outages + 1)
    BY DEF CallsNext, CallsReturn, Refuse, AnswerLocally, StartCalls, CarryOut, CallReturns, ListReturns,
           BalanceReturns, BundlePart, BundleReturns, LinkFails, LinkReturns, MuxOpens, MuxDrops, ReadyFrame,
           DshAnswers, Between, callsVars, linkVars
  <2>2. eventsId' \in {eventsId, "", "open", "gone"}
    BY DEF CallsNext, CallsReturn, Refuse, AnswerLocally, StartCalls, CarryOut, CallReturns, ListReturns,
           BalanceReturns, BundlePart, BundleReturns, LinkFails, LinkReturns, MuxOpens, MuxDrops, ReadyFrame,
           DshAnswers, Between, callsVars, linkVars
  <2>3. outages \in 0 .. MaxOutages /\ MaxOutages \in Nat
    BY <1>2, CallsAssumption
  <2>4. outages' \in 0 .. MaxOutages
    BY <2>1, <2>3
  <2>5. eventsId \in {"", "open", "gone"}
    BY <1>2
  <2> QED BY <2>2, <2>4, <2>5
<1>4. todo' \in Seq(Todo)
  <2>1. \/ todo' = todo \/ todo' = <<>>
        \/ todo # <<>> /\ todo' = Tail(todo)
        \/ \E m \in Methods : todo' \in CallsOf(m)
    BY DEF CallsNext, CallsReturn, Refuse, AnswerLocally, StartCalls, CarryOut, CallReturns, ListReturns,
           BalanceReturns, BundlePart, BundleReturns, LinkFails, LinkReturns, MuxOpens, MuxDrops, ReadyFrame,
           DshAnswers, Between, Done, callsVars, workVars
  <2>2. todo \in Seq(Todo) /\ <<>> \in Seq(Todo)
    BY <1>2, EmptySeq
  <2>3. todo # <<>> => Tail(todo) \in Seq(Todo)
    BY <2>2, HeadTailProperties
  <2> QED BY <2>1, <2>2, <2>3, CallsAre
<1>5. plainName' \in BOOLEAN
  <2>1. plainName' = plainName
    BY Zenon DEF CallsNext, CallsReturn, Refuse, AnswerLocally, StartCalls, CarryOut, CallReturns, ListReturns,
       BalanceReturns, BundlePart, BundleReturns, LinkFails, LinkReturns, MuxOpens, MuxDrops, ReadyFrame,
       DshAnswers, Between, callsVars
  <2> QED BY <1>1, <2>1, Zenon
<1>6. dshReady' \in BOOLEAN /\ wsReady' \in BOOLEAN
  <2>1. dshReady' = dshReady \/ dshReady' = TRUE \/ dshReady' = FALSE
    BY Zenon DEF CallsNext, CallsReturn, Refuse, AnswerLocally, StartCalls, CarryOut, CallReturns, ListReturns,
       BalanceReturns, BundlePart, BundleReturns, LinkFails, LinkReturns, MuxOpens, MuxDrops, ReadyFrame,
       DshAnswers, Between, callsVars, linkVars
  <2>2. wsReady' = wsReady \/ wsReady' = TRUE \/ wsReady' = FALSE
    BY Zenon DEF CallsNext, CallsReturn, Refuse, AnswerLocally, StartCalls, CarryOut, CallReturns, ListReturns,
       BalanceReturns, BundlePart, BundleReturns, LinkFails, LinkReturns, MuxOpens, MuxDrops, ReadyFrame,
       DshAnswers, Between, callsVars, linkVars
  <2> QED BY <1>1, <2>1, <2>2, Zenon
<1>7. following' \in BOOLEAN
  <2>1. ASSUME NEW r, NEW m, NEW complete, AnswerLocally(r, m, complete)
        PROVE  following' = following \/ following' = TRUE \/ following' = FALSE
    BY <2>1 DEF AnswerLocally
  <2>2. following' = following \/ following' = TRUE \/ following' = FALSE
    BY <2>1, Zenon DEF CallsNext, CallsReturn, Refuse, StartCalls, CarryOut, CallReturns, ListReturns,
       BalanceReturns, BundlePart, BundleReturns, LinkFails, LinkReturns, MuxOpens, MuxDrops, ReadyFrame,
       DshAnswers, Between, callsVars, linkVars
  <2> QED BY <1>1, <2>2, Zenon
<1>8. collected' \in BOOLEAN
  <2>1. ASSUME NEW r, NEW m, NEW complete, StartCalls(r, m, complete) PROVE collected' \in BOOLEAN
    BY <2>1, Zenon DEF StartCalls
  <2>2. \/ collected' = collected \/ collected' = TRUE \/ collected' = FALSE
        \/ \E r \in Requests, m \in Methods, complete \in BOOLEAN : StartCalls(r, m, complete)
    BY Zenon DEF CallsNext, CallsReturn, Refuse, AnswerLocally, CarryOut, CallReturns, ListReturns,
       BalanceReturns, BundlePart, BundleReturns, LinkFails, LinkReturns, MuxOpens, MuxDrops, ReadyFrame,
       DshAnswers, Between, Done, callsVars, workVars
  <2> QED BY <1>1, <2>1, <2>2, Zenon
<1>9. relayUp' \in BOOLEAN
  <2>1. ASSUME NEW r \in Requests, NEW m \in Methods, NEW complete \in BOOLEAN, AnswerLocally(r, m, complete)
        PROVE  relayUp' \in BOOLEAN
    <3>1. \E code \in Codes, json \in BOOLEAN : Reply(r, code, json)
      <4>1. "relay/browse-failed" \in Codes /\ "relay/mkdir-failed" \in Codes /\ "result" \in Codes
        BY DEF Codes, Refused
      <4> QED BY <2>1, <4>1 DEF AnswerLocally
    <3> QED BY <1>1, <3>1, ReplyFlag, Zenon
  <2>2. ASSUME NEW r, NEW m, NEW complete, Refuse(r, m, complete) PROVE relayUp' \in BOOLEAN
    BY <1>1, <2>2, ReplyFlag, Zenon DEF Refuse
  <2>3. ASSUME CallsReturn PROVE relayUp' \in BOOLEAN
    <3>1. \/ relayUp' = relayUp
          \/ \E code : Reply(current, code, TRUE)
          \/ \E json \in BOOLEAN : Reply(current, "result", json)
          \/ Reply(current, "result", collected)
      <4>1. CASE CallReturns \/ ListReturns
        BY <4>1, Zenon DEF CallReturns, ListReturns
      <4>2. CASE BalanceReturns \/ BundlePart \/ BundleReturns
        BY <4>2, Zenon DEF BalanceReturns, BundlePart, BundleReturns, linkVars
      <4> QED BY <2>3, <4>1, <4>2 DEF CallsReturn
    <3> QED BY <1>1, <3>1, ReplyFlag, Zenon
  <2>4. \/ relayUp' = relayUp \/ relayUp' = TRUE \/ relayUp' = FALSE
        \/ CallsReturn
        \/ \E r \in Requests, m \in Methods, complete \in BOOLEAN :
             Refuse(r, m, complete) \/ AnswerLocally(r, m, complete)
    BY Zenon DEF CallsNext, StartCalls, CarryOut, LinkFails, LinkReturns, MuxOpens, MuxDrops, ReadyFrame,
       DshAnswers, Between, callsVars, linkVars
  <2> QED BY <1>1, <2>1, <2>2, <2>3, <2>4, Zenon
<1> QED BY <1>3, <1>4, <1>5, <1>6, <1>7, <1>8, <1>9 DEF CallsRest

\* What the sender knows of its links, the request in hand, the calls it still needs and
\* the answers given keep their types (handle_request, build_bundle).
THEOREM CallsKeepTypes == CallsSpec => []CallsTypeOK
<1>1. CallsInv /\ CallsRest => CallsTypeOK
  <2> SUFFICES ASSUME CallsInv, CallsRest PROVE CallsTypeOK
    OBVIOUS
  <2>1. {relayUp, dshReady, wsReady, following, plainName, collected} \subseteq BOOLEAN
    BY Zenon DEF CallsRest
  <2> QED BY <2>1, Zenon DEF CallsInv, CallTypes, CallsRest, Todo, CallsTypeOK
<1> QED BY <1>1, InitCalls, StepCalls, CallsRestStarts, CallsRestKept, PTL DEF CallsSpec

-----------------------------------------------------------------------------
\* The answer of the webserver.

NatLess == {pair \in Nat \X Nat : pair[1] < pair[2]}

LEMMA NatLessWellFounded == IsWellFoundedOn(NatLess, Nat)
BY NatLessThanWellFounded, Zenon DEF OpToRel, NatLess

TokenKinds == {"header", "blank line", "size", "line end", "byte"}
Tokens == [kind : TokenKinds, n : Nat]
Results == [whole : BOOLEAN, out : Seq(Nat)]

\* What the chunks hold is defined by a recursive function; that it exists is shown
\* by taking the shortest tail of t for which it would not.

Unfinished == [whole |-> FALSE, out |-> <<>>]
Finished == [whole |-> TRUE, out |-> <<>>]
With(r, bytes) == [r EXCEPT !.out = bytes \o @]

\* What decoding t from position p on gives, when f is what it gives further on.
Decode(t, f, p) ==
  IF p <= Len(t) /\ t[p].kind = "line end" THEN f[p + 1]
  ELSE IF p + 1 > Len(t) THEN Unfinished
  ELSE IF t[p].n = 0 THEN Finished
  ELSE LET last == p + 1 + t[p].n
       IN  IF last > Len(t) THEN Unfinished
           ELSE With(f[last + 1], Numbers(SubSeq(t, p + 2, last)))

LEMMA ResultsAre ==
  /\ Unfinished \in Results /\ Unfinished.out = <<>> /\ ~Unfinished.whole
  /\ Finished \in Results /\ Finished.out = <<>> /\ Finished.whole
BY DEF Unfinished, Finished, Results

LEMMA WithIs ==
  ASSUME NEW r \in Results, NEW s \in Seq(Nat)
  PROVE  /\ With(r, s) \in Results /\ With(r, s).whole = r.whole /\ With(r, s).out = s \o r.out
<1>1. r.out \in Seq(Nat) /\ r.whole \in BOOLEAN
  BY DEF Results
<1>2. s \o r.out \in Seq(Nat)
  BY <1>1, ConcatProperties
<1>3. With(r, s) \in Results
  BY <1>2 DEF With, Results
<1>4. With(r, s).whole = r.whole
  BY DEF With, Results
<1>5. With(r, s).out = s \o r.out
  BY DEF With, Results
<1> QED BY <1>3, <1>4, <1>5

Decodes(t, f) == f = [p \in 1 .. Len(t) + 1 |-> Decode(t, f, p)]

LEMMA DecodeCases ==
  ASSUME NEW t \in Seq(Tokens), NEW f, NEW p \in 1 .. Len(t) + 1
  PROVE  /\ p > Len(t) => Decode(t, f, p) = Unfinished
         /\ p <= Len(t) /\ t[p].kind = "line end" => Decode(t, f, p) = f[p + 1]
         /\ p <= Len(t) /\ t[p].kind # "line end" /\ p + 1 > Len(t) => Decode(t, f, p) = Unfinished
         /\ p + 1 <= Len(t) /\ t[p].kind # "line end" /\ t[p].n = 0 => Decode(t, f, p) = Finished
         /\ p + 1 <= Len(t) /\ t[p].kind # "line end" /\ t[p].n # 0 =>
              Decode(t, f, p) = IF p + 1 + t[p].n > Len(t) THEN Unfinished
                                ELSE With(f[p + 1 + t[p].n + 1], Numbers(SubSeq(t, p + 2, p + 1 + t[p].n)))
<1> DEFINE further == p <= Len(t)
           ends == t[p].kind = "line end"
           short == p + 1 > Len(t)
           zero == t[p].n = 0
           last == p + 1 + t[p].n
<1>1. Decode(t, f, p) = IF further /\ ends THEN f[p + 1]
                        ELSE IF short THEN Unfinished
                        ELSE IF zero THEN Finished
                        ELSE IF last > Len(t) THEN Unfinished
                        ELSE With(f[last + 1], Numbers(SubSeq(t, p + 2, last)))
  BY Zenon DEF Decode
<1>2. Len(t) \in Nat /\ (~further => short) /\ (p + 1 <= Len(t) => ~short /\ further)
  BY LenProperties
<1>3. p > Len(t) <=> ~further
  BY <1>2
<1>4. p + 1 > Len(t) <=> short
  OBVIOUS
<1> DEFINE big == last > Len(t)
           then == f[p + 1]
           with == With(f[last + 1], Numbers(SubSeq(t, p + 2, last)))
<1>5. Decode(t, f, p) = IF further /\ ends THEN then
                        ELSE IF short THEN Unfinished
                        ELSE IF zero THEN Finished
                        ELSE IF big THEN Unfinished
                        ELSE with
  BY <1>1, Zenon
<1> HIDE DEF further, ends, short, zero, last, then, with, big
<1>6. /\ ~further => Decode(t, f, p) = Unfinished
      /\ further /\ ends => Decode(t, f, p) = then
      /\ further /\ ~ends /\ short => Decode(t, f, p) = Unfinished
      /\ further /\ ~short /\ ~ends /\ zero => Decode(t, f, p) = Finished
      /\ further /\ ~short /\ ~ends /\ ~zero => Decode(t, f, p) = IF big THEN Unfinished ELSE with
  BY <1>2, <1>5
<1> QED BY <1>2, <1>3, <1>4, <1>6, Zenon DEF further, ends, short, zero, last, then, with, big

LEMMA DecodeLooksAhead ==
  ASSUME NEW t \in Seq(Tokens), NEW f, NEW g, NEW p \in 1 .. Len(t) + 1,
         \A i \in p + 1 .. Len(t) + 1 : f[i] = g[i]
  PROVE  Decode(t, f, p) = Decode(t, g, p)
<1>1. Len(t) \in Nat
  BY LenProperties
<1>2. CASE p <= Len(t)
  <2>1. t[p] \in Tokens
    BY <1>1, <1>2, ElementOfSeq
  <2>2. t[p].n \in Nat
    BY <2>1 DEF Tokens
  <2>3. f[p + 1] = g[p + 1]
    BY <1>1, <1>2
  <2>4. p + 1 + t[p].n <= Len(t) => f[p + 1 + t[p].n + 1] = g[p + 1 + t[p].n + 1]
    BY <1>1, <1>2, <2>2
  <2> DEFINE ends == t[p].kind = "line end"
  <2>5. CASE ends
    BY <1>2, <2>3, <2>5, DecodeCases
  <2>6. CASE ~ends /\ p + 1 > Len(t)
    <3>1. Decode(t, f, p) = Unfinished
      BY <1>2, <2>6, DecodeCases
    <3>2. Decode(t, g, p) = Unfinished
      BY <1>2, <2>6, DecodeCases
    <3> QED BY <3>1, <3>2
  <2>7. CASE ~ends /\ p + 1 <= Len(t) /\ t[p].n = 0
    <3>1. Decode(t, f, p) = Finished
      BY <2>7, DecodeCases
    <3>2. Decode(t, g, p) = Finished
      BY <2>7, DecodeCases
    <3> QED BY <3>1, <3>2
  <2>8. CASE ~ends /\ p + 1 <= Len(t) /\ t[p].n # 0
    <3> DEFINE last == p + 1 + t[p].n
               piece == Numbers(SubSeq(t, p + 2, last))
    <3>1. /\ Decode(t, f, p) = IF last > Len(t) THEN Unfinished ELSE With(f[last + 1], piece)
          /\ Decode(t, g, p) = IF last > Len(t) THEN Unfinished ELSE With(g[last + 1], piece)
      BY <2>8, DecodeCases
    <3>2. last <= Len(t) => f[last + 1] = g[last + 1]
      BY <2>4
    <3>3. last > Len(t) <=> ~(last <= Len(t))
      BY <1>1, <2>2
    <3> HIDE DEF last, piece
    <3>4. CASE last > Len(t)
      BY <3>1, <3>4
    <3>5. CASE last <= Len(t)
      BY <3>1, <3>2, <3>3, <3>5
    <3> QED BY <3>3, <3>4, <3>5
  <2> HIDE DEF ends
  <2>9. p + 1 > Len(t) \/ p + 1 <= Len(t)
    BY <1>1
  <2> QED BY <2>5, <2>6, <2>7, <2>8, <2>9
<1>3. CASE p > Len(t)
  BY <1>1, <1>3, DecodeCases
<1> QED BY <1>1, <1>2, <1>3

LEMMA DecodingExists ==
  ASSUME NEW t \in Seq(Tokens)
  PROVE  \E f : Decodes(t, f)
<1> DEFINE N == Len(t) + 1
           Tail0(f, k) == /\ f = [p \in 1 .. N |-> f[p]]
                          /\ \A p \in 1 .. N : p > N - k => f[p] = Decode(t, f, p)
           bad == {k \in 0 .. N : ~ \E f : Tail0(f, k)}
<1>1. N \in Nat /\ N >= 1
  BY LenProperties
<1>2. \E f : Tail0(f, 0)
  <2> DEFINE f == [p \in 1 .. N |-> 0]
  <2>1. f = [p \in 1 .. N |-> f[p]]
    OBVIOUS
  <2>2. \A p \in 1 .. N : ~(p > N - 0)
    BY <1>1
  <2> HIDE DEF f, N
  <2> QED BY <2>1, <2>2
<1>3. ASSUME NEW k \in 0 .. N - 1, \E f : Tail0(f, k)
      PROVE  \E f : Tail0(f, k + 1)
  <2>1. PICK f : Tail0(f, k)
    BY <1>3
  <2> DEFINE q == N - k
             g == [p \in 1 .. N |-> IF p = q THEN Decode(t, f, q) ELSE f[p]]
  <2>2. q \in 1 .. N /\ k \in Nat
    BY <1>1
  <2>3. g = [p \in 1 .. N |-> g[p]] /\ g[q] = Decode(t, f, q)
        /\ \A p \in 1 .. N : p # q => g[p] = f[p]
    BY <2>2
  <2> HIDE DEF g
  <2>4. ASSUME NEW p \in 1 .. N, p > N - (k + 1)
        PROVE  g[p] = Decode(t, g, p)
    <3>1. p >= q
      BY <2>2, <2>4, <1>1
    <3>2. \A i \in p + 1 .. N : f[i] = g[i]
      BY <3>1, <2>2, <2>3, <1>1
    <3>3. Decode(t, f, p) = Decode(t, g, p)
      BY <3>2, DecodeLooksAhead
    <3>4. CASE p = q
      BY <3>3, <3>4, <2>3
    <3>5. CASE p # q
      <4>1. p > N - k
        BY <3>1, <3>5, <2>2, <1>1
      <4> QED BY <4>1, <3>3, <3>5, <2>1, <2>3
    <3> QED BY <3>4, <3>5
  <2>5. Tail0(g, k + 1)
    BY <2>3, <2>4
  <2> HIDE DEF Tail0
  <2> QED BY <2>5
<1> HIDE DEF Tail0
<1>4. bad = {}
  <2>1. SUFFICES ASSUME bad # {} PROVE FALSE
    OBVIOUS
  <2>2. bad \subseteq Nat /\ \A k \in 0 .. N : k \notin bad => \E f : Tail0(f, k)
    BY <1>1
  <2>3. \A k \in bad : k \in 0 .. N /\ ~ \E f : Tail0(f, k)
    OBVIOUS
  <2> HIDE DEF bad, N
  <2>4. PICK m \in bad : \A n \in bad : ~(<<n, m>> \in NatLess)
    BY <2>1, <2>2, NatLessWellFounded, WFMin, Zenon
  <2>5. m \in 0 .. N /\ m # 0 /\ m \in Nat
    BY <1>1, <1>2, <2>3, <2>4
  <2>6. m - 1 \in 0 .. N - 1 /\ m - 1 \in 0 .. N /\ <<m - 1, m>> \in NatLess /\ (m - 1) + 1 = m
    BY <1>1, <2>5 DEF NatLess
  <2>7. \E f : Tail0(f, m - 1)
    BY <2>2, <2>4, <2>6
  <2>8. \E f : Tail0(f, (m - 1) + 1)
    BY <1>3, <2>6, <2>7
  <2> QED BY <2>3, <2>4, <2>6, <2>8
<1>5. PICK f : Tail0(f, N)
  BY <1>1, <1>4
<1>6. /\ f = [p \in 1 .. N |-> f[p]]
      /\ \A p \in 1 .. N : f[p] = Decode(t, f, p)
  BY <1>1, <1>5 DEF Tail0
<1> QED BY <1>6 DEF Decodes

LEMMA DecodedIs ==
  ASSUME NEW t \in Seq(Tokens)
  PROVE  \E f : Decodes(t, f) /\ Decoded(t) = f[1]
<1> DEFINE f == CHOOSE f : Decodes(t, f)
<1>1. Decodes(t, f)
  BY DecodingExists
<1>2. Decoded(t) = f[1]
  BY DEF Decoded, Decodes, Decode, With, Finished, Unfinished
<1> QED BY <1>1, <1>2

-----------------------------------------------------------------------------
\* Chunks.

\* From position p on t goes as u does, as far as either goes.
ReadsAt(t, p, u) == \A i \in 1 .. Len(u) : p + i - 1 <= Len(t) => t[p + i - 1] = u[i]

LEMMA ReadsParts ==
  ASSUME NEW t, NEW p \in Nat, NEW u \in Seq(Tokens), NEW v \in Seq(Tokens), Len(t) \in Nat,
         ReadsAt(t, p, u \o v)
  PROVE  ReadsAt(t, p, u) /\ ReadsAt(t, p + Len(u), v)
<1>1. Len(u) \in Nat /\ Len(v) \in Nat /\ Len(u \o v) = Len(u) + Len(v)
  BY LenProperties, ConcatProperties
<1>2. /\ \A i \in 1 .. Len(u) : (u \o v)[i] = u[i] /\ i \in 1 .. Len(u \o v)
      /\ \A i \in 1 .. Len(v) : (u \o v)[Len(u) + i] = v[i] /\ Len(u) + i \in 1 .. Len(u \o v)
  BY <1>1, ConcatProperties
<1>3. ReadsAt(t, p, u)
  BY <1>2 DEF ReadsAt
<1>4. ASSUME NEW i \in 1 .. Len(v), p + Len(u) + i - 1 <= Len(t)
      PROVE  t[p + Len(u) + i - 1] = v[i]
  <2>1. p + (Len(u) + i) - 1 = p + Len(u) + i - 1
    BY <1>1
  <2> QED BY <1>2, <1>4, <2>1 DEF ReadsAt
<1> QED BY <1>3, <1>4 DEF ReadsAt

LEMMA FewAreSeq ==
  ASSUME NEW S, NEW x \in S, NEW y \in S
  PROVE  /\ <<x>> \in Seq(S) /\ Len(<<x>>) = 1 /\ <<x>>[1] = x
         /\ <<x, y>> \in Seq(S) /\ Len(<<x, y>>) = 2 /\ <<x, y>>[1] = x /\ <<x, y>>[2] = y
OBVIOUS

LEMMA TokenKindsAre ==
  /\ \A n \in Nat : Size(n) \in Tokens /\ Size(n).kind = "size" /\ Size(n).n = n
  /\ \A n \in Nat : Byte(n) \in Tokens /\ Byte(n).kind = "byte" /\ Byte(n).n = n
  /\ LineEnd \in Tokens /\ LineEnd.kind = "line end"
  /\ Mark("header") \in Tokens /\ Mark("header").kind = "header"
  /\ Mark("blank line") \in Tokens /\ Mark("blank line").kind = "blank line"
BY DEF Size, Byte, LineEnd, Mark, Tokens, TokenKinds

LEMMA BytesAre ==
  ASSUME NEW s \in Seq(Nat)
  PROVE  /\ Bytes(s) \in Seq(Tokens) /\ Len(Bytes(s)) = Len(s) /\ Len(s) \in Nat
         /\ \A i \in 1 .. Len(s) : Bytes(s)[i] = Byte(s[i]) /\ s[i] \in Nat
<1>1. Len(s) \in Nat /\ DOMAIN s = 1 .. Len(s) /\ \A i \in 1 .. Len(s) : s[i] \in Nat
  BY LenProperties, ElementOfSeq
<1>2. \A i \in 1 .. Len(s) : Byte(s[i]) \in Tokens
  BY <1>1, TokenKindsAre
<1>3. Bytes(s) = [i \in 1 .. Len(s) |-> Byte(s[i])]
  BY <1>1 DEF Bytes
<1>4. Bytes(s) \in [1 .. Len(s) -> Tokens]
  BY <1>2, <1>3
<1>5. Bytes(s) \in Seq(Tokens) /\ Len(Bytes(s)) = Len(s)
  BY <1>1, <1>4
<1> QED BY <1>1, <1>3, <1>5

LEMMA ChunkIs ==
  ASSUME NEW s \in Seq(Nat)
  PROVE  /\ Chunk(s) \in Seq(Tokens) /\ Len(Chunk(s)) = Len(s) + 3 /\ Len(s) \in Nat
         /\ Chunk(s)[1] = Size(Len(s)) /\ Chunk(s)[2] = LineEnd
         /\ \A i \in 1 .. Len(s) : Chunk(s)[i + 2] = Byte(s[i]) /\ s[i] \in Nat
         /\ Chunk(s)[Len(s) + 3] = LineEnd
<1> DEFINE a == <<Size(Len(s)), LineEnd>>
           b == Bytes(s)
           c == <<LineEnd>>
<1>1. b \in Seq(Tokens) /\ Len(b) = Len(s) /\ Len(s) \in Nat
      /\ \A i \in 1 .. Len(s) : b[i] = Byte(s[i]) /\ s[i] \in Nat
  BY BytesAre
<1>2. a \in Seq(Tokens) /\ Len(a) = 2 /\ a[1] = Size(Len(s)) /\ a[2] = LineEnd
  <2>1. Size(Len(s)) \in Tokens /\ LineEnd \in Tokens
    BY <1>1, TokenKindsAre
  <2> QED BY <2>1, FewAreSeq
<1>3. c \in Seq(Tokens) /\ Len(c) = 1 /\ c[1] = LineEnd
  <2>1. LineEnd \in Tokens
    BY TokenKindsAre
  <2> QED BY <2>1, FewAreSeq
<1>4. Chunk(s) = (a \o b) \o c
  BY DEF Chunk
<1> HIDE DEF a, b, c
<1>5. /\ a \o b \in Seq(Tokens) /\ Len(a \o b) = Len(s) + 2
      /\ \A i \in 1 .. Len(s) + 2 : (a \o b)[i] = IF i <= 2 THEN a[i] ELSE b[i - 2]
  BY <1>1, <1>2, ConcatProperties
<1>6. /\ (a \o b) \o c \in Seq(Tokens) /\ Len((a \o b) \o c) = Len(s) + 3
      /\ \A i \in 1 .. Len(s) + 3 : ((a \o b) \o c)[i] = IF i <= Len(s) + 2 THEN (a \o b)[i] ELSE c[i - (Len(s) + 2)]
  <2> DEFINE d == a \o b
  <2>1. d \in Seq(Tokens) /\ Len(d) = Len(s) + 2
    BY <1>5
  <2> HIDE DEF d
  <2>2. /\ d \o c \in Seq(Tokens) /\ Len(d \o c) = Len(d) + Len(c)
        /\ \A i \in 1 .. Len(d) + Len(c) : (d \o c)[i] = IF i <= Len(d) THEN d[i] ELSE c[i - Len(d)]
    BY <2>1, <1>3, ConcatProperties
  <2>3. Len(d) + Len(c) = Len(s) + 3
    BY <1>1, <1>3, <2>1
  <2> QED BY <2>1, <2>2, <2>3 DEF d
<1> HIDE DEF Chunk
<1>7. Chunk(s)[1] = Size(Len(s)) /\ Chunk(s)[2] = LineEnd
  BY <1>1, <1>2, <1>4, <1>5, <1>6
<1>8. Chunk(s)[Len(s) + 3] = LineEnd
  BY <1>1, <1>3, <1>4, <1>6
<1>9. ASSUME NEW i \in 1 .. Len(s) PROVE Chunk(s)[i + 2] = Byte(s[i]) /\ s[i] \in Nat
  <2>1. i + 2 \in 1 .. Len(s) + 2 /\ i + 2 \in 1 .. Len(s) + 3 /\ i + 2 <= Len(s) + 2 /\ ~(i + 2 <= 2)
        /\ i + 2 - 2 = i
    BY <1>1
  <2> QED BY <2>1, <1>1, <1>4, <1>5, <1>6
<1> QED BY <1>1, <1>4, <1>6, <1>7, <1>8, <1>9

LastChunk == <<Size(0), LineEnd>>

LEMMA LastDecoded ==
  ASSUME NEW t \in Seq(Tokens), NEW f, Decodes(t, f), NEW p \in 1 .. Len(t) + 1,
         NEW u, Len(u) \in Nat \ {0}, u[1] = Size(0), ReadsAt(t, p, u)
  PROVE  f[p] \in Results /\ f[p].out = <<>>
<1>1. Len(t) \in Nat /\ f[p] = Decode(t, f, p)
  BY LenProperties DEF Decodes
<1>3. p <= Len(t) => t[p].kind = "size" /\ t[p].n = 0
  <2> SUFFICES ASSUME p <= Len(t) PROVE t[p].kind = "size" /\ t[p].n = 0
    OBVIOUS
  <2>1. t[p + 1 - 1] = u[1] /\ p + 1 - 1 = p
    BY <1>1 DEF ReadsAt
  <2>2. t[p] = Size(0)
    BY <2>1
  <2>3. \A x : x = Size(0) => x.kind = "size" /\ x.n = 0
    BY DEF Size
  <2> QED BY <2>2, <2>3, Zenon
<1>4. f[p] = Unfinished \/ f[p] = Finished
  <2>1. CASE p > Len(t)
    BY <1>1, <2>1, DecodeCases
  <2>2. CASE p <= Len(t)
    <3>1. t[p].kind # "line end" /\ t[p].n = 0
      BY <1>3, <2>2
    <3>2. CASE p + 1 > Len(t)
      BY <1>1, <2>2, <3>1, <3>2, DecodeCases
    <3>3. CASE p + 1 <= Len(t)
      BY <1>1, <3>1, <3>3, DecodeCases
    <3> QED BY <1>1, <3>2, <3>3
  <2> QED BY <1>1, <2>1, <2>2
<1> QED BY <1>4, ResultsAre

LEMMA ChunkDecoded ==
  ASSUME NEW t \in Seq(Tokens), NEW f, Decodes(t, f), NEW p \in 1 .. Len(t) + 1,
         NEW s \in Seq(Nat), s # <<>>, ReadsAt(t, p, Chunk(s)),
         p + Len(s) + 3 <= Len(t) + 1 => f[p + Len(s) + 3] \in Results
  PROVE  /\ f[p] \in Results
         /\ f[p].whole => /\ p + Len(s) + 3 <= Len(t) + 1 /\ f[p + Len(s) + 3].whole
                          /\ f[p].out = s \o f[p + Len(s) + 3].out
<1> DEFINE n == Len(s)
<1>1. Len(t) \in Nat /\ n \in Nat /\ n # 0 /\ \A q \in 1 .. Len(t) + 1 : f[q] = Decode(t, f, q)
  BY LenProperties, EmptySeq DEF Decodes
<1>2. /\ Len(Chunk(s)) = n + 3 /\ Chunk(s)[1] = Size(n) /\ Chunk(s)[n + 3] = LineEnd
      /\ \A i \in 1 .. n : Chunk(s)[i + 2] = Byte(s[i]) /\ s[i] \in Nat
  BY ChunkIs
<1>3. Unfinished \in Results /\ ~Unfinished.whole
  BY ResultsAre
<1>4. CASE p + 1 > Len(t)
  <2>1. p <= Len(t) => t[p] = Size(n)
    <3>1. p <= Len(t) => t[p + 1 - 1] = Chunk(s)[1]
      BY <1>1, <1>2 DEF ReadsAt
    <3> QED BY <3>1, <1>2, <1>1
  <2>2. p <= Len(t) => t[p].kind = "size"
    <3>1. \A k, x : x = Size(k) => x.kind = "size"
      BY DEF Size
    <3> QED BY <2>1, <3>1, Zenon
  <2>3. f[p] = Unfinished
    <3>1. CASE p > Len(t)
      BY <1>1, <3>1, DecodeCases
    <3>2. CASE p <= Len(t)
      <4>1. t[p].kind # "line end"
        BY <2>2, <3>2
      <4> QED BY <4>1, <3>2, <1>1, <1>4, DecodeCases
    <3> QED BY <1>1, <3>1, <3>2
  <2> QED BY <2>3, <1>3
<1>5. CASE p + 1 <= Len(t)
  <2>1. t[p] = Size(n)
    <3>1. t[p + 1 - 1] = Chunk(s)[1]
      BY <1>1, <1>2, <1>5 DEF ReadsAt
    <3> QED BY <3>1, <1>2, <1>1
  <2>2. t[p].kind = "size" /\ t[p].n = n
    <3> DEFINE x == t[p]
    <3> HIDE DEF x, n
    <3>1. x = Size(n)
      BY <2>1 DEF x
    <3>2. n \in Nat
      BY <1>1 DEF n
    <3>3. x.kind = "size" /\ x.n = n
      BY <3>1, <3>2, TokenKindsAre, Zenon
    <3> QED BY <3>3 DEF x
  <2>3. f[p] = IF p + 1 + n > Len(t) THEN Unfinished
               ELSE With(f[p + 1 + n + 1], Numbers(SubSeq(t, p + 2, p + 1 + n)))
    BY <1>1, <1>5, <2>2, DecodeCases
  <2>4. CASE p + 1 + n > Len(t)
    BY <2>3, <2>4, <1>3
  <2>5. CASE p + 1 + n <= Len(t)
    <3> DEFINE e == p + n + 2
               piece == SubSeq(t, p + 2, p + 1 + n)
    <3>1. e \in 1 .. Len(t) + 1 /\ e = p + 1 + n + 1
      BY <1>1, <2>5
    <3>2. ASSUME NEW i \in 1 .. n PROVE t[p + 2 + i - 1] = Byte(s[i])
      <4>1. i + 2 \in 1 .. n + 3 /\ p + (i + 2) - 1 <= Len(t) /\ p + (i + 2) - 1 = p + 2 + i - 1
        BY <1>1, <2>5
      <4>2. t[p + (i + 2) - 1] = Chunk(s)[i + 2]
        BY <4>1, <1>2 DEF ReadsAt
      <4> QED BY <4>1, <4>2, <1>2
    <3>3. piece \in Seq(Tokens) /\ Len(piece) = n /\ \A i \in 1 .. n : piece[i] = t[p + 2 + i - 1]
      <4>1. \A i \in p + 2 .. p + 1 + n : t[i] \in Tokens
        BY <1>1, <2>5, ElementOfSeq
      <4>2. p + 2 \in Int /\ p + 1 + n \in Int /\ p + 2 <= p + 1 + n /\ p + 1 + n - (p + 2) + 1 = n
        BY <1>1
      <4>3. /\ piece \in Seq(Tokens)
            /\ Len(piece) = IF p + 2 <= p + 1 + n THEN p + 1 + n - (p + 2) + 1 ELSE 0
            /\ \A i \in 1 .. p + 1 + n - (p + 2) + 1 : piece[i] = t[p + 2 + i - 1]
        BY <4>1, <4>2, SubSeqProperties
      <4> QED BY <4>2, <4>3
    <3>4. Numbers(piece) = s
      <4>1. DOMAIN piece = 1 .. n /\ DOMAIN s = 1 .. n
        BY <3>3, LenProperties
      <4>2. Numbers(piece) = [i \in 1 .. n |-> piece[i].n]
        BY <4>1 DEF Numbers
      <4>3. ASSUME NEW i \in 1 .. n PROVE piece[i].n = s[i]
        <5>1. piece[i] = Byte(s[i]) /\ s[i] \in Nat
          BY <3>2, <3>3, <1>2
        <5> QED BY <5>1, TokenKindsAre
      <4>4. s = [i \in 1 .. n |-> s[i]]
        BY <4>1, LenProperties
      <4> HIDE DEF piece, n
      <4> QED BY <4>2, <4>3, <4>4
    <3>5. f[p] = With(f[e], s)
      BY <2>3, <2>5, <3>1, <3>4, <1>1
    <3>6. f[e] = Decode(t, f, e)
      BY <3>1, <1>1
    <3>7. CASE e > Len(t)
      <4>1. f[e] = Unfinished
        BY <3>1, <3>6, <3>7, <1>1, DecodeCases
      <4> QED BY <4>1, <3>5, <1>3, WithIs
    <3>8. CASE e <= Len(t)
      <4>1. t[e] = LineEnd
        <5>1. p + (n + 3) - 1 = e /\ n + 3 \in 1 .. n + 3
          BY <1>1
        <5> QED BY <5>1, <1>2, <3>8 DEF ReadsAt
      <4>2. f[e] = f[e + 1] /\ e + 1 = p + n + 3 /\ e + 1 <= Len(t) + 1
        <5>1. t[e].kind = "line end" /\ e <= Len(t)
          BY <4>1, <3>8, TokenKindsAre
        <5>2. Decode(t, f, e) = f[e + 1]
          BY <5>1, <3>1, DecodeCases
        <5>3. e + 1 = p + n + 3 /\ e + 1 <= Len(t) + 1
          BY <1>1, <3>1, <3>8
        <5> QED BY <5>2, <5>3, <3>6
      <4>3. f[e] \in Results
        BY <4>2
      <4>4. f[p] \in Results /\ f[p].whole = f[e].whole /\ f[p].out = s \o f[e].out
        BY <4>3, <3>5, WithIs
      <4> QED BY <4>2, <4>4
    <3> QED BY <3>1, <3>7, <3>8, <1>1
  <2> QED BY <2>4, <2>5, <1>1
<1> QED BY <1>1, <1>4, <1>5

-----------------------------------------------------------------------------
\* What the webserver sends, and beginnings of it.

LEMMA PartsOfBody ==
  ASSUME NEW k \in 1 .. Len(HttpBody) - 1
  PROVE  /\ SubSeq(HttpBody, 1, k) \in Seq(Nat) /\ Len(SubSeq(HttpBody, 1, k)) = k
         /\ SubSeq(HttpBody, k + 1, Len(HttpBody)) \in Seq(Nat)
         /\ Len(SubSeq(HttpBody, k + 1, Len(HttpBody))) = Len(HttpBody) - k
         /\ SubSeq(HttpBody, 1, k) \o SubSeq(HttpBody, k + 1, Len(HttpBody)) = HttpBody
<1>1. Len(HttpBody) \in Nat /\ HttpBody \in Seq(Nat)
  BY HttpAssumption, LenProperties
<1>2. \A i \in 1 .. Len(HttpBody) : HttpBody[i] \in Nat
  BY <1>1, ElementOfSeq
<1>3. SubSeq(HttpBody, 1, k) \in Seq(Nat) /\ Len(SubSeq(HttpBody, 1, k)) = k
  BY <1>1, <1>2, SubSeqProperties
<1>4. /\ SubSeq(HttpBody, k + 1, Len(HttpBody)) \in Seq(Nat)
      /\ Len(SubSeq(HttpBody, k + 1, Len(HttpBody))) = Len(HttpBody) - k
  <2>1. \A i \in k + 1 .. Len(HttpBody) : HttpBody[i] \in Nat
    BY <1>1, <1>2
  <2> QED BY <1>1, <2>1, SubSeqProperties
<1>5. SubSeq(HttpBody, 1, k) \o SubSeq(HttpBody, k + 1, Len(HttpBody)) = SubSeq(HttpBody, 1, Len(HttpBody))
  BY <1>1, ConcatAdjacentSubSeq
<1>6. SubSeq(HttpBody, 1, Len(HttpBody)) = HttpBody
  BY <1>1, SubSeqFull
<1> QED BY <1>3, <1>4, <1>5, <1>6

\* A beginning of u reads as u.
LEMMA BeginningReads ==
  ASSUME NEW t \in Seq(Tokens), NEW rest \in Seq(Tokens)
  PROVE  ReadsAt(t, 1, t \o rest)
<1>1. Len(t) \in Nat /\ Len(rest) \in Nat /\ Len(t \o rest) = Len(t) + Len(rest)
      /\ \A i \in 1 .. Len(t) + Len(rest) : (t \o rest)[i] = IF i <= Len(t) THEN t[i] ELSE rest[i - Len(t)]
  BY LenProperties, ConcatProperties
<1>2. ASSUME NEW i \in 1 .. Len(t \o rest), 1 + i - 1 <= Len(t)
      PROVE  t[1 + i - 1] = (t \o rest)[i]
  <2>1. 1 + i - 1 = i /\ i \in 1 .. Len(t) + Len(rest) /\ i <= Len(t)
    BY <1>1, <1>2
  <2> QED BY <1>1, <2>1
<1> QED BY <1>2 DEF ReadsAt

\* Any part of the chunks that is complete with the last one decodes to the body.
LEMMA BodyDecoded ==
  ASSUME NEW t \in Seq(Tokens), NEW rest \in Seq(Tokens), t \o rest \in Chunked,
         Decoded(t).whole
  PROVE  Decoded(t).out = HttpBody
<1> DEFINE N == Len(HttpBody)
           first == 1
<1>0. first = 1
  OBVIOUS
<1>1. N \in Nat /\ HttpBody \in Seq(Nat) /\ Len(t) \in Nat /\ first \in Nat /\ first >= 1
  BY HttpAssumption, LenProperties
<1> HIDE DEF first
<1>2. PICK f : Decodes(t, f) /\ Decoded(t) = f[1]
  BY DecodedIs
<1>3. /\ f[first].whole /\ Decoded(t) = f[first]
      /\ first \in 1 .. Len(t) + 1 /\ first \in Nat /\ ReadsAt(t, first, t \o rest)
  BY <1>0, <1>1, <1>2, BeginningReads
<1>4. LastChunk \in Seq(Tokens) /\ Len(LastChunk) \in Nat \ {0} /\ LastChunk[1] = Size(0)
  <2>1. Size(0) \in Tokens /\ LineEnd \in Tokens
    BY TokenKindsAre
  <2> QED BY <2>1, FewAreSeq DEF LastChunk
<1>5. CASE t \o rest = Chunk(HttpBody) \o LastChunk
  <2>1. Chunk(HttpBody) \in Seq(Tokens) /\ Len(Chunk(HttpBody)) = N + 3
        /\ Chunk(HttpBody)[1] = Size(N)
    BY <1>1, ChunkIs
  <2>2. ReadsAt(t, first, Chunk(HttpBody)) /\ ReadsAt(t, first + (N + 3), LastChunk)
    BY <1>1, <1>3, <1>4, <1>5, <2>1, ReadsParts
  <2>3. CASE HttpBody = <<>>
    <3>1. N = 0
      BY <2>3
    <3>2. Len(Chunk(HttpBody)) \in Nat \ {0} /\ Chunk(HttpBody)[1] = Size(0)
      BY <1>1, <2>1, <3>1
    <3> QED BY <1>2, <1>3, <2>2, <2>3, <3>2, LastDecoded
  <2>4. CASE HttpBody # <<>>
    <3> DEFINE q == first + N + 3
    <3>1. q \in Nat /\ q >= 1 /\ ReadsAt(t, q, LastChunk)
      <4>1. first + (N + 3) = q
        BY <1>1
      <4> QED BY <1>1, <2>2, <4>1
    <3>2. q <= Len(t) + 1 => f[q] \in Results /\ f[q].out = <<>>
      BY <1>1, <1>2, <1>4, <3>1, LastDecoded
    <3>3. f[first].out = HttpBody \o f[q].out /\ q <= Len(t) + 1
      BY <1>1, <1>2, <1>3, <2>2, <2>4, <3>2, ChunkDecoded
    <3>4. HttpBody \o <<>> = HttpBody
      BY <1>1, ConcatEmptySeq
    <3> HIDE DEF q
    <3> QED BY <1>3, <3>2, <3>3, <3>4
  <2> QED BY <2>3, <2>4
<1>6. ASSUME NEW k \in 1 .. N - 1,
             t \o rest = Chunk(SubSeq(HttpBody, 1, k)) \o Chunk(SubSeq(HttpBody, k + 1, N)) \o LastChunk
      PROVE  f[first].out = HttpBody
  <2> DEFINE a == SubSeq(HttpBody, 1, k)
             b == SubSeq(HttpBody, k + 1, N)
  <2>1. /\ a \in Seq(Nat) /\ Len(a) = k /\ b \in Seq(Nat) /\ Len(b) = N - k
        /\ a \o b = HttpBody
    BY PartsOfBody
  <2>2. t \o rest = (Chunk(a) \o Chunk(b)) \o LastChunk
    BY <1>6
  <2> HIDE DEF a, b, N
  <2>3. a # <<>> /\ b # <<>> /\ N - k \in Nat /\ k \in Nat
    BY <1>1, <2>1
  <2>4. Chunk(a) \in Seq(Tokens) /\ Len(Chunk(a)) = k + 3
    BY <2>1, ChunkIs
  <2>5. Chunk(b) \in Seq(Tokens) /\ Len(Chunk(b)) = N - k + 3
    BY <2>1, ChunkIs
  <2>6. Chunk(a) \o Chunk(b) \in Seq(Tokens) /\ Len(Chunk(a) \o Chunk(b)) = k + 3 + (N - k + 3)
    <3> HIDE DEF Chunk
    <3>1. /\ Chunk(a) \o Chunk(b) \in Seq(Tokens)
          /\ Len(Chunk(a) \o Chunk(b)) = Len(Chunk(a)) + Len(Chunk(b))
      BY <2>4, <2>5, ConcatProperties, Zenon
    <3> QED BY <2>4, <2>5, <3>1
  <2>7. ReadsAt(t, first, Chunk(a) \o Chunk(b)) /\ ReadsAt(t, first + (k + 3 + (N - k + 3)), LastChunk)
    BY <1>1, <1>3, <1>4, <2>2, <2>6, ReadsParts
  <2>8. ReadsAt(t, first, Chunk(a)) /\ ReadsAt(t, first + (k + 3), Chunk(b))
    BY <1>1, <2>4, <2>5, <2>7, ReadsParts
  <2> DEFINE p == first + k + 3
             q == p + (N - k) + 3
  <2>9. p \in Nat /\ q \in Nat /\ p >= 1 /\ q >= 1 /\ first + (k + 3) = p
        /\ first + (k + 3 + (N - k + 3)) = q
    BY <1>1, <2>3
  <2>10. ReadsAt(t, p, Chunk(b)) /\ ReadsAt(t, q, LastChunk)
    BY <2>7, <2>8, <2>9
  <2>11. first + Len(a) + 3 = p /\ p + Len(b) + 3 = q
    BY <2>1, <2>3
  <2> HIDE DEF p, q
  <2>12. q <= Len(t) + 1 => f[q] \in Results /\ f[q].out = <<>>
    <3> SUFFICES ASSUME q <= Len(t) + 1 PROVE f[q] \in Results /\ f[q].out = <<>>
      OBVIOUS
    <3>1. q \in 1 .. Len(t) + 1
      BY <1>1, <2>9
    <3> QED BY <1>2, <1>4, <2>10, <3>1, LastDecoded
  <2>13. ASSUME p <= Len(t) + 1
         PROVE  f[p] \in Results /\ (f[p].whole => q <= Len(t) + 1 /\ f[p].out = b \o f[q].out)
    <3>1. p \in 1 .. Len(t) + 1
      BY <1>1, <2>9, <2>13
    <3>2. Len(b) \in Nat
      BY <2>1, <2>3
    <3>3. p + Len(b) + 3 <= Len(t) + 1 => f[p + Len(b) + 3] \in Results
      BY <2>12, <2>11
    <3>4. /\ f[p] \in Results
          /\ f[p].whole => /\ p + Len(b) + 3 <= Len(t) + 1 /\ f[p + Len(b) + 3].whole
                           /\ f[p].out = b \o f[p + Len(b) + 3].out
      BY <1>2, <2>1, <2>3, <2>10, <3>1, <3>3, ChunkDecoded
    <3> QED BY <2>11, <3>4
  <2>14. p <= Len(t) + 1 /\ f[p].whole /\ f[first].out = a \o f[p].out
    <3>1. first + Len(a) + 3 <= Len(t) + 1 => f[first + Len(a) + 3] \in Results
      BY <2>11, <2>13
    <3>2. /\ f[first] \in Results
          /\ f[first].whole => /\ first + Len(a) + 3 <= Len(t) + 1 /\ f[first + Len(a) + 3].whole
                               /\ f[first].out = a \o f[first + Len(a) + 3].out
      <4>1. Decodes(t, f) /\ first \in 1 .. Len(t) + 1
        BY <1>2, <1>3
      <4>2. a \in Seq(Nat) /\ a # <<>> /\ ReadsAt(t, first, Chunk(a))
        BY <2>1, <2>3, <2>8
      <4> QED BY <3>1, <4>1, <4>2, ChunkDecoded
    <3> QED BY <1>3, <2>11, <3>2
  <2>15. f[p].out = b \o <<>>
    BY <2>12, <2>13, <2>14
  <2>16. b \o <<>> = b
    BY <2>1, ConcatEmptySeq
  <2> QED BY <2>1, <2>14, <2>15, <2>16
<1>7. \/ t \o rest = Chunk(HttpBody) \o LastChunk
      \/ \E k \in 1 .. N - 1 :
           t \o rest = Chunk(SubSeq(HttpBody, 1, k)) \o Chunk(SubSeq(HttpBody, k + 1, N)) \o LastChunk
  BY DEF Chunked, LastChunk
<1> HIDE DEF N
<1> QED BY <1>3, <1>5, <1>6, <1>7

-----------------------------------------------------------------------------
\* The inductive invariant: what has been taken and what is still to come are together
\* what the webserver sent.

Sent == IF framing = "chunked" THEN Chunked ELSE {Bytes(HttpBody)}

IsBlank(x) == x.kind = "blank line"
NoBlank(t) == \A i \in 1 .. Len(t) : ~IsBlank(t[i])

HttpInv ==
  /\ framing \in {"chunked", "length", "close"}
  /\ reading \in {"headers", "body", "done", "failed"}
  /\ raw \in Seq(Tokens) /\ incoming \in Seq(Tokens)
  /\ FramedBody
  /\ reading = "headers" =>
       NoBlank(raw) /\ \E len \in Nat, sent \in Sent : raw \o incoming = Headers(len) \o sent
  /\ reading = "body" /\ framing # "close" => raw \o incoming \in Sent
  /\ reading \in {"headers", "body"} /\ framing = "length" => out = <<>>

LEMMA BlanksAre ==
  /\ \A n : ~IsBlank(Size(n)) /\ ~IsBlank(Byte(n))
  /\ ~IsBlank(LineEnd) /\ ~IsBlank(Mark("header")) /\ IsBlank(Mark("blank line"))
BY DEF IsBlank, Size, Byte, LineEnd, Mark

LEMMA NoBlankParts ==
  ASSUME NEW t \in Seq(Tokens), NEW u \in Seq(Tokens)
  PROVE  /\ t \o u \in Seq(Tokens)
         /\ NoBlank(t) /\ NoBlank(u) => NoBlank(t \o u)
<1>1. Len(t) \in Nat /\ Len(u) \in Nat /\ t \o u \in Seq(Tokens) /\ Len(t \o u) = Len(t) + Len(u)
      /\ \A i \in 1 .. Len(t) + Len(u) : (t \o u)[i] = IF i <= Len(t) THEN t[i] ELSE u[i - Len(t)]
  BY LenProperties, ConcatProperties
<1>2. ASSUME NoBlank(t), NoBlank(u), NEW i \in 1 .. Len(t \o u)
      PROVE  ~IsBlank((t \o u)[i])
  <2>1. CASE i <= Len(t)
    <3>1. (t \o u)[i] = t[i] /\ i \in 1 .. Len(t)
      BY <1>1, <2>1
    <3> QED BY <3>1, <1>2 DEF NoBlank
  <2>2. CASE i > Len(t)
    <3> DEFINE j == i - Len(t)
    <3>1. (t \o u)[i] = u[j] /\ j \in 1 .. Len(u)
      BY <1>1, <2>2
    <3> HIDE DEF j
    <3> QED BY <3>1, <1>2 DEF NoBlank
  <2> QED BY <1>1, <2>1, <2>2
<1> QED BY <1>1, <1>2 DEF NoBlank

LEMMA BytesHaveNoBlank ==
  ASSUME NEW s \in Seq(Nat) PROVE NoBlank(Bytes(s))
<1>1. ASSUME NEW i \in 1 .. Len(Bytes(s)) PROVE ~IsBlank(Bytes(s)[i])
  <2>1. Bytes(s)[i] = Byte(s[i]) /\ s[i] \in Nat
    BY BytesAre
  <2>2. ~IsBlank(Byte(s[i]))
    BY DEF IsBlank, Byte
  <2> QED BY <2>1, <2>2
<1> QED BY <1>1 DEF NoBlank

LEMMA FewHaveNoBlank ==
  ASSUME NEW x \in Tokens, NEW y \in Tokens, ~IsBlank(x), ~IsBlank(y)
  PROVE  NoBlank(<<x>>) /\ NoBlank(<<x, y>>)
<1> DEFINE one == <<x>>
           two == <<x, y>>
<1>1. Len(one) = 1 /\ one[1] = x /\ Len(two) = 2 /\ two[1] = x /\ two[2] = y
  BY FewAreSeq
<1> HIDE DEF one, two
<1>2. NoBlank(one)
  BY <1>1 DEF NoBlank
<1>3. \A i \in 1 .. Len(two) : two[i] = x \/ two[i] = y
  BY <1>1
<1>4. NoBlank(two)
  BY <1>3 DEF NoBlank
<1> QED BY <1>2, <1>4 DEF one, two

LEMMA ChunkHasNoBlank ==
  ASSUME NEW s \in Seq(Nat)
  PROVE  Chunk(s) \in Seq(Tokens) /\ NoBlank(Chunk(s))
<1> DEFINE a == <<Size(Len(s)), LineEnd>>
           c == <<LineEnd>>
<1>1. Size(Len(s)) \in Tokens /\ LineEnd \in Tokens
      /\ ~IsBlank(Size(Len(s))) /\ ~IsBlank(LineEnd)
  BY BytesAre, TokenKindsAre, BlanksAre
<1>2. a \in Seq(Tokens) /\ c \in Seq(Tokens) /\ NoBlank(a) /\ NoBlank(c)
  BY <1>1, FewAreSeq, FewHaveNoBlank
<1>3. Bytes(s) \in Seq(Tokens) /\ NoBlank(Bytes(s))
  BY BytesAre, BytesHaveNoBlank
<1>4. Chunk(s) = (a \o Bytes(s)) \o c
  BY DEF Chunk
<1> HIDE DEF a, c
<1>5. a \o Bytes(s) \in Seq(Tokens) /\ NoBlank(a \o Bytes(s))
  BY <1>2, <1>3, NoBlankParts
<1> QED BY <1>2, <1>4, <1>5, NoBlankParts

LEMMA SentIs ==
  ASSUME NEW sent \in Sent
  PROVE  sent \in Seq(Tokens) /\ NoBlank(sent)
<1> DEFINE N == Len(HttpBody)
           last == <<Size(0), LineEnd>>
<1>1. HttpBody \in Seq(Nat)
  BY HttpAssumption
<1>2. last \in Seq(Tokens) /\ NoBlank(last)
  <2>1. Size(0) \in Tokens /\ LineEnd \in Tokens
        /\ ~IsBlank(Size(0)) /\ ~IsBlank(LineEnd)
    BY TokenKindsAre, BlanksAre
  <2> QED BY <2>1, FewAreSeq, FewHaveNoBlank
<1>3. CASE sent = Bytes(HttpBody)
  BY <1>1, <1>3, BytesAre, BytesHaveNoBlank
<1>4. CASE sent = Chunk(HttpBody) \o last
  BY <1>1, <1>2, <1>4, ChunkHasNoBlank, NoBlankParts
<1>5. ASSUME NEW k \in 1 .. N - 1,
             sent = (Chunk(SubSeq(HttpBody, 1, k)) \o Chunk(SubSeq(HttpBody, k + 1, N))) \o last
      PROVE  sent \in Seq(Tokens) /\ NoBlank(sent)
  <2> DEFINE a == Chunk(SubSeq(HttpBody, 1, k))
             b == Chunk(SubSeq(HttpBody, k + 1, N))
  <2>1. a \in Seq(Tokens) /\ NoBlank(a) /\ b \in Seq(Tokens) /\ NoBlank(b)
    BY PartsOfBody, ChunkHasNoBlank
  <2>2. sent = (a \o b) \o last
    BY <1>5
  <2> HIDE DEF a, b, last
  <2>3. a \o b \in Seq(Tokens) /\ NoBlank(a \o b)
    BY <2>1, NoBlankParts
  <2> QED BY <1>2, <2>2, <2>3, NoBlankParts
<1>6. \/ sent = Bytes(HttpBody) \/ sent = Chunk(HttpBody) \o last
      \/ \E k \in 1 .. N - 1 :
           sent = (Chunk(SubSeq(HttpBody, 1, k)) \o Chunk(SubSeq(HttpBody, k + 1, N))) \o last
  BY DEF Sent, Chunked
<1> HIDE DEF last, N
<1> QED BY <1>3, <1>4, <1>5, <1>6

LEMMA ConcatIs ==
  ASSUME NEW u \in Seq(Tokens), NEW v \in Seq(Tokens)
  PROVE  /\ u \o v \in Seq(Tokens) /\ Len(u \o v) = Len(u) + Len(v)
         /\ \A j \in 1 .. Len(u) : (u \o v)[j] = u[j]
         /\ \A j \in 1 .. Len(v) : (u \o v)[Len(u) + j] = v[j]
<1> DEFINE w == u \o v
           m == Len(u)
           n == Len(v)
<1>0. m \in Nat /\ n \in Nat
  BY LenProperties
<1>1. /\ w \in Seq(Tokens) /\ Len(w) = m + n
      /\ \A j \in 1 .. m + n : w[j] = IF j <= m THEN u[j] ELSE v[j - m]
  BY ConcatProperties
<1> HIDE DEF w, m, n
<1>2. ASSUME NEW j \in 1 .. m PROVE w[j] = u[j]
  BY <1>0, <1>1
<1>3. ASSUME NEW j \in 1 .. n PROVE w[m + j] = v[j]
  <2> DEFINE k == m + j
  <2>1. k \in 1 .. m + n /\ ~(k <= m) /\ k - m = j
    BY <1>0
  <2> HIDE DEF k
  <2>2. w[k] = v[j]
    BY <1>1, <2>1
  <2> QED BY <2>2 DEF k
<1> QED BY <1>1, <1>2, <1>3 DEF w, m, n

LEMMA HeadersAre ==
  ASSUME NEW len \in Nat
  PROVE  /\ Headers(len) \in Seq(Tokens) /\ Len(Headers(len)) = len + 1
         /\ IsBlank(Headers(len)[len + 1])
         /\ \A i \in 1 .. len : ~IsBlank(Headers(len)[i])
<1> DEFINE a == [i \in 1 .. len |-> Mark("header")]
           b == <<Mark("blank line")>>
<1>1. /\ Mark("header") \in Tokens /\ ~IsBlank(Mark("header"))
      /\ Mark("blank line") \in Tokens /\ IsBlank(Mark("blank line"))
  BY TokenKindsAre, BlanksAre
<1>2. a \in Seq(Tokens) /\ Len(a) = len /\ \A i \in 1 .. len : a[i] = Mark("header")
  <2>1. a \in [1 .. len -> Tokens]
    BY <1>1
  <2>2. \A i \in 1 .. len : a[i] = Mark("header")
    OBVIOUS
  <2> HIDE DEF a
  <2>3. a \in Seq(Tokens) /\ Len(a) = len
    BY <2>1
  <2> QED BY <2>2, <2>3
<1>3. b \in Seq(Tokens) /\ Len(b) = 1 /\ b[1] = Mark("blank line")
  BY <1>1, FewAreSeq
<1>4. Headers(len) = a \o b
  BY DEF Headers
<1> HIDE DEF a, b
<1>5. /\ a \o b \in Seq(Tokens) /\ Len(a \o b) = len + 1
      /\ \A i \in 1 .. len : (a \o b)[i] = a[i]
      /\ (a \o b)[len + 1] = b[1]
  <2> DEFINE c == a \o b
             first == 1
  <2>1. /\ c \in Seq(Tokens) /\ Len(c) = Len(a) + Len(b)
        /\ \A i \in 1 .. Len(a) : c[i] = a[i]
        /\ \A i \in 1 .. Len(b) : c[Len(a) + i] = b[i]
    BY <1>2, <1>3, ConcatIs
  <2>2. first \in 1 .. 1 /\ first = 1
    OBVIOUS
  <2> HIDE DEF c, first
  <2>3. c[len + first] = b[first]
    BY <1>2, <1>3, <2>1, <2>2
  <2> QED BY <1>2, <1>3, <2>1, <2>2, <2>3 DEF c
<1>6. (a \o b)[len + 1] = Mark("blank line")
  BY <1>3, <1>5
<1> QED BY <1>1, <1>2, <1>4, <1>5, <1>6

\* What recv returned moves from what is to come to what has been taken.
LEMMA CutOn ==
  ASSUME raw \in Seq(Tokens), incoming \in Seq(Tokens), NEW n \in 1 .. Len(incoming)
  PROVE  LET all  == raw \o SubSeq(incoming, 1, n)
             rest == SubSeq(incoming, n + 1, Len(incoming))
         IN  all \in Seq(Tokens) /\ rest \in Seq(Tokens) /\ all \o rest = raw \o incoming
<1> DEFINE piece == SubSeq(incoming, 1, n)
           rest == SubSeq(incoming, n + 1, Len(incoming))
<1>1. Len(incoming) \in Nat /\ \A i \in 1 .. Len(incoming) : incoming[i] \in Tokens
  BY LenProperties, ElementOfSeq
<1>2. piece \in Seq(Tokens)
  BY <1>1, SubSeqProperties
<1>3. rest \in Seq(Tokens)
  <2>1. \A i \in n + 1 .. Len(incoming) : incoming[i] \in Tokens
    BY <1>1
  <2> QED BY <1>1, <2>1, SubSeqProperties
<1>4. piece \o rest = incoming
  <2>1. piece \o rest = SubSeq(incoming, 1, Len(incoming))
    BY <1>1, ConcatAdjacentSubSeq
  <2>2. SubSeq(incoming, 1, Len(incoming)) = incoming
    BY SubSeqFull
  <2> QED BY <2>1, <2>2
<1> HIDE DEF piece, rest
<1>5. (raw \o piece) \o rest = raw \o (piece \o rest)
  <2> DEFINE T == Tokens
  <2>1. raw \in Seq(T) /\ piece \in Seq(T) /\ rest \in Seq(T)
    BY <1>2, <1>3
  <2> HIDE DEF T
  <2> QED BY <2>1, ConcatAssociative, SMT
<1>6. raw \o piece \in Seq(Tokens)
  BY <1>2, ConcatProperties
<1> QED BY <1>3, <1>4, <1>5, <1>6 DEF piece, rest

IsAnswer(w, sent) == \E len \in Nat : w = Headers(len) \o sent
After(all, i) == SubSeq(all, i + 1, Len(all))

\* The blank line is the end of the headers: what follows it belongs to the body.
LEMMA HeadersEnd ==
  ASSUME NEW all \in Seq(Tokens), NEW rest \in Seq(Tokens),
         NEW sent \in Sent, IsAnswer(all \o rest, sent),
         NEW i \in 1 .. Len(all), IsBlank(all[i])
  PROVE  After(all, i) \in Seq(Tokens) /\ After(all, i) \o rest = sent
<1> PICK len \in Nat : all \o rest = Headers(len) \o sent
  BY DEF IsAnswer
<1> DEFINE h == Headers(len)
           body == SubSeq(all, i + 1, Len(all))
           w == all \o rest
           a == Len(all)
           r == Len(rest)
           s == Len(sent)
           b == a - i
<1>1. /\ h \in Seq(Tokens) /\ Len(h) = len + 1 /\ IsBlank(h[len + 1])
      /\ \A j \in 1 .. len : ~IsBlank(h[j])
  BY HeadersAre
<1>2. sent \in Seq(Tokens) /\ (\A j \in 1 .. s : ~IsBlank(sent[j])) /\ s \in Nat
  BY SentIs, LenProperties DEF NoBlank
<1>3. a \in Nat /\ r \in Nat /\ i \in 1 .. a /\ i \in Nat /\ b \in Nat /\ i + b = a
  <2>1. Len(all) \in Nat /\ Len(rest) \in Nat
    BY LenProperties
  <2> QED BY <2>1
<1>4. /\ w \in Seq(Tokens) /\ Len(w) = a + r
      /\ \A j \in 1 .. a : w[j] = all[j]
      /\ \A j \in 1 .. r : w[a + j] = rest[j]
  BY ConcatIs
<1>5. /\ w = h \o sent /\ Len(h \o sent) = (len + 1) + s
      /\ \A j \in 1 .. len + 1 : (h \o sent)[j] = h[j]
      /\ \A j \in 1 .. s : (h \o sent)[(len + 1) + j] = sent[j]
  <2> HIDE DEF h
  <2>1. /\ Len(h \o sent) = (len + 1) + s
        /\ \A j \in 1 .. len + 1 : (h \o sent)[j] = h[j]
        /\ \A j \in 1 .. s : (h \o sent)[(len + 1) + j] = sent[j]
    <3>1. /\ Len(h \o sent) = Len(h) + Len(sent)
          /\ \A j \in 1 .. Len(h) : (h \o sent)[j] = h[j]
          /\ \A j \in 1 .. Len(sent) : (h \o sent)[Len(h) + j] = sent[j]
      BY <1>1, <1>2, ConcatIs
    <3> QED BY <1>1, <3>1
  <2> QED BY <2>1 DEF h
<1>6. \A j \in i + 1 .. Len(all) : all[j] \in Tokens
  BY <1>3, ElementOfSeq
<1>7. body \in Seq(Tokens) /\ Len(body) = b /\ \A j \in 1 .. b : body[j] = all[i + j]
  <2>1. /\ SubSeq(all, i + 1, Len(all)) \in Seq(Tokens)
        /\ Len(SubSeq(all, i + 1, Len(all))) = IF i + 1 <= Len(all) THEN Len(all) - (i + 1) + 1 ELSE 0
        /\ \A j \in 1 .. Len(all) - (i + 1) + 1 : SubSeq(all, i + 1, Len(all))[j] = all[i + 1 + j - 1]
    BY <1>3, <1>6, SubSeqProperties
  <2> HIDE DEF body
  <2>2. /\ body \in Seq(Tokens)
        /\ Len(body) = IF i + 1 <= a THEN a - (i + 1) + 1 ELSE 0
        /\ \A j \in 1 .. a - (i + 1) + 1 : body[j] = all[i + 1 + j - 1]
    BY <2>1 DEF body
  <2> HIDE DEF a
  <2>3. Len(body) = b
    BY <1>3, <2>2
  <2>4. ASSUME NEW j \in 1 .. b PROVE body[j] = all[i + j]
    <3>1. j \in 1 .. a - (i + 1) + 1 /\ i + 1 + j - 1 = i + j
      BY <1>3
    <3> QED BY <2>2, <3>1
  <2> QED BY <2>2, <2>3, <2>4
<1>8. /\ body \o rest \in Seq(Tokens) /\ Len(body \o rest) = b + r
      /\ \A j \in 1 .. b : (body \o rest)[j] = body[j]
      /\ \A j \in 1 .. r : (body \o rest)[b + j] = rest[j]
  <2> HIDE DEF body
  <2>1. /\ body \o rest \in Seq(Tokens) /\ Len(body \o rest) = Len(body) + Len(rest)
        /\ \A j \in 1 .. Len(body) : (body \o rest)[j] = body[j]
        /\ \A j \in 1 .. Len(rest) : (body \o rest)[Len(body) + j] = rest[j]
    BY <1>7, ConcatIs
  <2> HIDE DEF b
  <2> QED BY <1>7, <2>1
<1> DEFINE v == body \o rest
<1> HIDE DEF h, body, w, a, r, s, b, v
<1>9. /\ Len(w) = len + 1 + s
      /\ \A j \in 1 .. len + 1 : w[j] = h[j]
      /\ \A j \in 1 .. s : w[len + 1 + j] = sent[j]
  BY <1>5
<1>10. i = len + 1
  <2>1. w[i] = all[i] /\ i <= len + 1 + s
    BY <1>3, <1>4, <1>9
  <2>2. CASE i > len + 1
    <3> DEFINE k == i - (len + 1)
    <3>1. k \in 1 .. s /\ len + 1 + k = i
      BY <1>2, <1>3, <2>1, <2>2
    <3> HIDE DEF k
    <3>2. w[i] = sent[k]
      BY <1>9, <3>1
    <3> QED BY <1>2, <2>1, <3>1, <3>2
  <2>3. CASE i <= len
    <3>1. i \in 1 .. len /\ i \in 1 .. len + 1
      BY <1>3, <2>3
    <3>2. w[i] = h[i]
      BY <1>9, <3>1
    <3> QED BY <1>1, <2>1, <3>1, <3>2
  <2> QED BY <1>3, <2>2, <2>3
<1>11. /\ v \in Seq(Tokens) /\ Len(v) = b + r
       /\ \A j \in 1 .. b : v[j] = body[j]
       /\ \A j \in 1 .. r : v[b + j] = rest[j]
  BY <1>8 DEF v
<1>12. Len(v) = s
  BY <1>2, <1>3, <1>4, <1>9, <1>10, <1>11
<1>13. ASSUME NEW j \in 1 .. s PROVE v[j] = sent[j]
  <2> DEFINE k == i + j
  <2>1. k \in Nat /\ len + 1 + j = k
    BY <1>2, <1>3, <1>10
  <2>2. w[k] = sent[j]
    BY <1>9, <2>1
  <2>3. CASE j <= b
    <3>1. j \in 1 .. b /\ k \in 1 .. a
      BY <1>2, <1>3, <2>3
    <3>2. v[j] = all[k]
      BY <1>7, <1>11, <3>1
    <3>3. w[k] = all[k]
      BY <1>4, <3>1
    <3> QED BY <2>2, <3>2, <3>3
  <2>4. CASE j > b
    <3> DEFINE m == j - b
    <3>1. m \in 1 .. r /\ b + m = j /\ a + m = k
      BY <1>2, <1>3, <1>11, <1>12, <2>4
    <3> HIDE DEF k, m
    <3>2. v[j] = rest[m]
      BY <1>11, <3>1
    <3>3. w[k] = rest[m]
      BY <1>4, <3>1
    <3> QED BY <2>2, <3>2, <3>3
  <2> QED BY <1>2, <1>3, <2>3, <2>4
<1>14. v = sent
  <2>1. Len(v) = Len(sent) /\ \A j \in 1 .. Len(v) : v[j] = sent[j]
    BY <1>12, <1>13 DEF s
  <2> QED BY <1>2, <1>11, <2>1, SeqEqual
<1> QED BY <1>7, <1>14 DEF body, v, After

-----------------------------------------------------------------------------
LEMMA BeginningIs ==
  ASSUME NEW s, NEW n \in Nat, \A i \in 1 .. n : s[i] \in Nat
  PROVE  /\ SubSeq(s, 1, n) \in Seq(Nat) /\ Len(SubSeq(s, 1, n)) = n
         /\ \A i \in 1 .. n : SubSeq(s, 1, n)[i] = s[i]
<1> DEFINE first == 1
           x == SubSeq(s, first, n)
<1>1. first = 1
  OBVIOUS
<1>2. \A i \in first .. n : s[i] \in Nat
  OBVIOUS
<1> HIDE DEF first
<1>3. /\ x \in Seq(Nat) /\ Len(x) = IF first <= n THEN n - first + 1 ELSE 0
      /\ \A i \in 1 .. n - first + 1 : x[i] = s[first + i - 1]
  <2>1. first \in Int /\ n \in Int
    BY <1>1
  <2> QED BY <1>2, <2>1, SubSeqProperties
<1> HIDE DEF x
<1>4. Len(x) = n
  BY <1>1, <1>3
<1>5. ASSUME NEW i \in 1 .. n PROVE x[i] = s[i]
  <2>1. i \in 1 .. n - first + 1 /\ first + i - 1 = i
    BY <1>1
  <2> QED BY <1>3, <2>1
<1>6. SubSeq(s, 1, n) = x
  BY <1>1 DEF x
<1> QED BY <1>3, <1>4, <1>5, <1>6

\* With a length: any part of the bytes numbers a beginning of the body.
LEMMA BytesCounted ==
  ASSUME NEW t \in Seq(Tokens), NEW rest \in Seq(Tokens), t \o rest = Bytes(HttpBody)
  PROVE  /\ Numbers(t) \in Seq(Nat) /\ IsPrefix(Numbers(t), HttpBody)
         /\ Len(t) \in Nat /\ Len(t) <= Len(HttpBody)
<1> DEFINE n == Len(t)
           d == Numbers(t)
           B == HttpBody
<1>1. B \in Seq(Nat) /\ n \in Nat /\ Len(rest) \in Nat /\ Len(B) \in Nat
      /\ \A i \in 1 .. Len(B) : B[i] \in Nat /\ Bytes(B)[i] = Byte(B[i])
  BY HttpAssumption, BytesAre, LenProperties
<1>2. n + Len(rest) = Len(B) /\ \A i \in 1 .. n : t[i] = Bytes(B)[i]
  <2>1. Len(t \o rest) = Len(t) + Len(rest) /\ \A i \in 1 .. Len(t) : (t \o rest)[i] = t[i]
    BY ConcatIs
  <2>2. Len(Bytes(B)) = Len(B)
    BY <1>1, BytesAre
  <2> QED BY <2>1, <2>2
<1>3. n <= Len(B)
  BY <1>1, <1>2
<1>4. d = [i \in 1 .. n |-> t[i].n]
  <2>1. DOMAIN t = 1 .. n
    BY LenProperties
  <2> QED BY <2>1 DEF Numbers
<1> HIDE DEF n, B
<1>5. ASSUME NEW i \in 1 .. n PROVE t[i].n = B[i] /\ B[i] \in Nat
  <2>1. t[i] = Byte(B[i]) /\ B[i] \in Nat
    BY <1>1, <1>2, <1>3
  <2> QED BY <2>1, TokenKindsAre
<1>6. d \in [1 .. n -> Nat] /\ \A i \in 1 .. n : d[i] = B[i]
  BY <1>4, <1>5
<1> HIDE DEF d
<1>7. d \in Seq(Nat) /\ Len(d) = n
  BY <1>1, <1>6
<1>8. SubSeq(d, 1, n) = SubSeq(B, 1, n)
  <2> DEFINE x == SubSeq(d, 1, n)
             y == SubSeq(B, 1, n)
  <2>1. x \in Seq(Nat) /\ Len(x) = n /\ \A i \in 1 .. n : x[i] = d[i]
    BY <1>1, <1>5, <1>6, BeginningIs
  <2>2. y \in Seq(Nat) /\ Len(y) = n /\ \A i \in 1 .. n : y[i] = B[i]
    BY <1>1, <1>5, BeginningIs
  <2> HIDE DEF x, y
  <2>3. \A i \in 1 .. Len(x) : x[i] = y[i]
    BY <1>6, <2>1, <2>2
  <2> QED BY <2>1, <2>2, <2>3, SeqEqual DEF x, y
<1>9. IsPrefix(d, B)
  BY <1>3, <1>7, <1>8 DEF IsPrefix
<1> QED BY <1>1, <1>3, <1>7, <1>9 DEF n, d, B

-----------------------------------------------------------------------------
\* One step lemma for each way the body is read.

LEMMA ChunksReadOn ==
  ASSUME NEW all \in Seq(Tokens), NEW rest \in Seq(Tokens), all \o rest \in Chunked,
         framing = "chunked", framing' = framing, incoming' = rest, ReadChunks(all)
  PROVE  HttpInv'
<1>1. raw' = all /\ out' = Decoded(all).out /\ reading' \in {"failed", "done", "body"}
      /\ (reading' = "done" => Decoded(all).whole)
  BY DEF ReadChunks
<1>2. reading' = "done" => out' = HttpBody
  BY <1>1, BodyDecoded
<1>3. FramedBody'
  BY <1>2 DEF FramedBody
<1>4. Sent' = Chunked
  BY DEF Sent
<1> QED BY <1>1, <1>3, <1>4 DEF HttpInv

LEMMA LengthReadOn ==
  ASSUME NEW all \in Seq(Tokens), NEW rest \in Seq(Tokens), all \o rest = Bytes(HttpBody),
         framing = "length", framing' = framing, incoming' = rest, ReadLength(all),
         raw \in Seq(Tokens), out = <<>>
  PROVE  HttpInv'
<1>1. Sent' = {Bytes(HttpBody)}
  BY DEF Sent
<1>2. CASE Len(HttpBody) > HttpMaxBody
  <2>1. reading' = "failed" /\ raw' = raw /\ out' = out
    BY <1>2 DEF ReadLength
  <2> QED BY <2>1 DEF HttpInv, FramedBody
<1>3. CASE ~(Len(HttpBody) > HttpMaxBody) /\ Len(all) >= Len(HttpBody)
  <2>1. reading' = "done" /\ raw' = <<>> /\ out' = Numbers(SubSeq(all, 1, Len(HttpBody)))
    BY <1>3 DEF ReadLength
  <2>2. Len(all) = Len(HttpBody)
    <3>1. Len(HttpBody) \in Nat /\ Len(all) \in Nat /\ Len(all) <= Len(HttpBody)
      BY BytesCounted, HttpAssumption, LenProperties
    <3> QED BY <1>3, <3>1
  <2>3. SubSeq(all, 1, Len(HttpBody)) = all
    BY <2>2, SubSeqFull
  <2>4. IsPrefix(out', HttpBody)
    BY <2>1, <2>3, BytesCounted
  <2>5. FramedBody'
    BY <2>4 DEF FramedBody
  <2>6. raw' \in Seq(Tokens)
    BY <2>1
  <2> QED BY <2>1, <2>5, <2>6 DEF HttpInv
<1>4. CASE ~(Len(HttpBody) > HttpMaxBody) /\ ~(Len(all) >= Len(HttpBody))
  <2>1. reading' = "body" /\ raw' = all /\ out' = out
    BY <1>4 DEF ReadLength
  <2>2. FramedBody'
    BY <2>1 DEF FramedBody
  <2> QED BY <1>1, <2>1, <2>2 DEF HttpInv
<1> QED BY <1>2, <1>3, <1>4

LEMMA HeadersReadOn ==
  ASSUME HttpInv, reading = "headers", NEW all \in Seq(Tokens), NEW rest \in Seq(Tokens),
         all \o rest = raw \o incoming,
         framing' = framing, incoming' = rest, ReadHeaders(all)
  PROVE  HttpInv'
<1> DEFINE end == {i \in DOMAIN all : all[i].kind = "blank line"}
           at == CHOOSE i \in end : TRUE
           body == SubSeq(all, at + 1, Len(all))
<1>1. PICK len \in Nat, sent \in Sent : all \o rest = Headers(len) \o sent
  BY DEF HttpInv
<1>2. DOMAIN all = 1 .. Len(all) /\ Sent' = Sent /\ framing \in {"chunked", "length", "close"}
      /\ raw \in Seq(Tokens) /\ (framing = "length" => out = <<>>)
  BY LenProperties DEF HttpInv, Sent
<1>3. CASE end = {}
  <2>1. reading' \in {"failed", "headers"} /\ raw' = all /\ out' = out
    BY <1>3 DEF ReadHeaders
  <2>2. NoBlank(all)
    BY <1>2, <1>3 DEF NoBlank, IsBlank
  <2>3. FramedBody'
    BY <2>1 DEF FramedBody
  <2>4. \E l \in Nat, s \in Sent' : raw' \o incoming' = Headers(l) \o s
    BY <1>1, <1>2, <2>1
  <2>5. NoBlank(raw)'
    BY <2>1, <2>2 DEF NoBlank
  <2> QED BY <1>2, <2>1, <2>3, <2>4, <2>5 DEF HttpInv
<1>4. CASE end # {}
  <2>1. at \in end
    BY <1>4
  <2>2. at \in 1 .. Len(all) /\ IsBlank(all[at])
    BY <1>2, <2>1 DEF IsBlank
  <2>3. (CASE framing = "chunked" -> ReadChunks(body)
           [] framing = "length"  -> ReadLength(body)
           [] framing = "close"   -> KeepForTheEnd(body))
    BY <1>4 DEF ReadHeaders
  <2> HIDE DEF at, end
  <2>4. body \in Seq(Tokens) /\ body \o rest = sent
    <3>1. IsAnswer(all \o rest, sent)
      BY <1>1 DEF IsAnswer
    <3>2. After(all, at) \in Seq(Tokens) /\ After(all, at) \o rest = sent
      BY <2>2, <3>1, HeadersEnd
    <3> QED BY <3>2 DEF After
  <2> HIDE DEF body
  <2>5. CASE framing = "chunked"
    <3>1. ReadChunks(body) /\ body \o rest \in Chunked
      BY <2>3, <2>4, <2>5 DEF Sent
    <3> QED BY <2>4, <2>5, <3>1, ChunksReadOn
  <2>6. CASE framing = "length"
    <3>1. ReadLength(body) /\ body \o rest = Bytes(HttpBody)
      BY <2>3, <2>4, <2>6 DEF Sent
    <3> QED BY <1>2, <2>4, <2>6, <3>1, LengthReadOn
  <2>7. CASE framing = "close"
    <3>1. KeepForTheEnd(body)
      BY <2>3, <2>7
    <3>2. reading' = "body" /\ raw' = body /\ out' = out
      BY <3>1 DEF KeepForTheEnd
    <3> QED BY <2>4, <2>7, <3>2 DEF HttpInv, FramedBody
  <2> QED BY <1>2, <2>5, <2>6, <2>7
<1> QED BY <1>3, <1>4

LEMMA HttpInitially == HttpInit => HttpInv
<1> SUFFICES ASSUME HttpInit PROVE HttpInv
  OBVIOUS
<1>1. PICK len \in 1 .. HttpMaxHeader + 1, sent \in Sent : incoming = Headers(len) \o sent
  BY DEF HttpInit, Sent
<1>2. /\ framing \in {"chunked", "length", "close"} /\ reading = "headers"
      /\ raw = <<>> /\ out = <<>>
  BY DEF HttpInit
<1>3. len \in Nat
  BY HttpAssumption
<1>4. incoming \in Seq(Tokens)
  <2>1. Headers(len) \in Seq(Tokens) /\ sent \in Seq(Tokens)
    BY <1>3, HeadersAre, SentIs
  <2> QED BY <1>1, <2>1, ConcatProperties
<1>5. <<>> \o incoming = incoming
  BY <1>4, ConcatEmptySeq
<1>6. raw \in Seq(Tokens) /\ Len(raw) = 0
  BY <1>2
<1>7. NoBlank(raw)
  BY <1>6 DEF NoBlank
<1>8. raw \o incoming = Headers(len) \o sent
  BY <1>1, <1>2, <1>5
<1>9. FramedBody
  BY <1>2 DEF FramedBody
<1> QED BY <1>2, <1>3, <1>4, <1>6, <1>7, <1>8, <1>9 DEF HttpInv

LEMMA HttpSteps == HttpInv /\ [HttpNext]_httpVars => HttpInv'
<1> SUFFICES ASSUME HttpInv, [HttpNext]_httpVars PROVE HttpInv'
  OBVIOUS
<1>1. CASE GoSilent
  BY <1>1 DEF GoSilent, HttpInv, FramedBody, Sent, NoBlank
<1>2. CASE Ends
  <2>1. framing' = framing /\ incoming' = incoming /\ reading \in {"headers", "body"}
    BY <1>2 DEF Ends
  <2>2. CASE reading = "headers" \/ framing = "chunked"
    <3>1. reading' = "failed" /\ raw' = raw /\ out' = out
      BY <1>2, <2>2 DEF Ends
    <3> QED BY <2>1, <3>1 DEF HttpInv, FramedBody
  <2>3. CASE ~(reading = "headers" \/ framing = "chunked")
    <3>1. reading' = "done" /\ raw' = <<>> /\ out' = out \o Numbers(raw) /\ reading = "body"
      BY <1>2, <2>1, <2>3 DEF Ends
    <3>2. ASSUME framing = "length" PROVE IsPrefix(out', HttpBody)
      <4>1. raw \in Seq(Tokens) /\ incoming \in Seq(Tokens) /\ raw \o incoming = Bytes(HttpBody)
            /\ out = <<>>
        BY <3>1, <3>2 DEF HttpInv, Sent
      <4>2. Numbers(raw) \in Seq(Nat) /\ IsPrefix(Numbers(raw), HttpBody)
        BY <4>1, BytesCounted
      <4>3. out' = Numbers(raw)
        BY <3>1, <4>1, <4>2, ConcatEmptySeq
      <4> QED BY <4>2, <4>3
    <3>3. FramedBody'
      BY <2>1, <2>3, <3>2 DEF FramedBody
    <3>4. raw' \in Seq(Tokens)
      BY <3>1
    <3> QED BY <2>1, <3>1, <3>3, <3>4 DEF HttpInv
  <2> QED BY <2>2, <2>3
<1>3. ASSUME NEW n \in 1 .. Len(incoming), Receive(n) PROVE HttpInv'
  <2> DEFINE piece == SubSeq(incoming, 1, n)
             all == raw \o piece
             rest == SubSeq(incoming, n + 1, Len(incoming))
  <2>1. /\ raw \in Seq(Tokens) /\ incoming \in Seq(Tokens)
        /\ framing \in {"chunked", "length", "close"}
    BY DEF HttpInv
  <2>2. all \in Seq(Tokens) /\ rest \in Seq(Tokens) /\ all \o rest = raw \o incoming
    BY <2>1, CutOn
  <2>3. framing' = framing /\ incoming' = rest /\ reading \in {"headers", "body"}
    BY <1>3 DEF Receive
  <2>4. CASE reading = "headers"
    <3>1. ReadHeaders(all)
      BY <1>3, <2>4 DEF Receive
    <3> HIDE DEF all, rest
    <3> QED BY <2>2, <2>3, <2>4, <3>1, HeadersReadOn
  <2>5. CASE reading = "body"
    <3>1. (CASE framing = "chunked" -> ReadChunks(all)
             [] framing = "length"  -> ReadLength(all)
             [] framing = "close"   -> ReadToEnd(piece))
      BY <1>3, <2>5 DEF Receive
    <3>2. framing # "close" => all \o rest \in Sent
      BY <2>2, <2>5 DEF HttpInv
    <3>3. framing = "length" => out = <<>>
      BY <2>5 DEF HttpInv
    <3> HIDE DEF all, rest, piece
    <3>4. CASE framing = "chunked"
      <4>1. ReadChunks(all) /\ all \o rest \in Chunked
        BY <3>1, <3>2, <3>4 DEF Sent
      <4> QED BY <2>2, <2>3, <3>4, <4>1, ChunksReadOn
    <3>5. CASE framing = "length"
      <4>1. ReadLength(all) /\ all \o rest = Bytes(HttpBody)
        BY <3>1, <3>2, <3>5 DEF Sent
      <4> QED BY <2>1, <2>2, <2>3, <3>3, <3>5, <4>1, LengthReadOn
    <3>6. CASE framing = "close"
      <4>1. ReadToEnd(piece)
        BY <3>1, <3>6
      <4>2. reading' \in {"failed", "body"} /\ raw' = raw
        BY <4>1 DEF ReadToEnd
      <4> QED BY <2>1, <2>2, <2>3, <3>6, <4>2 DEF HttpInv, FramedBody
    <3> QED BY <2>1, <3>4, <3>5, <3>6
  <2> QED BY <2>3, <2>4, <2>5
<1>4. CASE UNCHANGED httpVars
  BY <1>4 DEF httpVars, HttpInv, FramedBody, Sent, NoBlank
<1> QED BY <1>1, <1>2, <1>3, <1>4 DEF HttpNext

\* However a framed answer of the webserver is cut into pieces, and wherever it falls
\* silent, the body the sender's HTTP client returns is what was sent: all of it if it
\* came in chunks, a beginning of it under Content-Length (request, read_body,
\* decode_chunked), for every body and every limit.
THEOREM BodyStaysFramed == HttpSpec => []FramedBody
<1>1. HttpInv => FramedBody
  BY DEF HttpInv
<1> QED BY <1>1, HttpInitially, HttpSteps, PTL DEF HttpSpec
=============================================================================
