---------------------------- MODULE TunnelProofs ----------------------------
(***************************************************************************)
(* Proofs about the tunnel, for any passphrases, writers, number width and *)
(* number of connections: an end opens what the other has sealed, in that  *)
(* order, and refuses a frame only for a reason.                           *)
(***************************************************************************)
EXTENDS Tunnel, SequenceTheorems, TLAPS

-----------------------------------------------------------------------------
\* What travels ahead of the first sealed frame: 1 for a HELLO or an ack.
Lead(q) == IF q # <<>> /\ q[1].kind \in {"hello", "ack"} THEN 1 ELSE 0

Whole(q) == \A i \in 1 .. Len(q) : q[i].kind # "torn"

\* The frame carries its own number as long as the numbers have not come full circle.
Numbered(f, k) == f.key = k /\ (f.n < NumberMod => f.seq = f.n)

\* The frames of the queue q are those sealed under the key k after the first t, one
\* after the other; only the last may be torn.
InOrder(q, t, k) ==
  \A i \in 1 .. Len(q) :
    /\ q[i].kind \in {"hello", "ack"} => i = 1
    /\ q[i].kind = "torn" => i = Len(q)
    /\ q[i].kind = "data" => Numbered(q[i], k) /\ q[i].n + Lead(q) = t + i

-----------------------------------------------------------------------------
\* Frames and queues of frames.

LEMMA FrameKinds ==
  ASSUME NEW f \in Frames
  PROVE  /\ f.kind \in {"hello", "ack", "torn", "data"}
         /\ f.kind = "data" <=> f \in Sealed
         /\ f.kind = "ack" <=> f = Ack
         /\ f.kind = "torn" <=> f = Torn
<1>1. CASE f \in Sealed
  BY <1>1 DEF Sealed, Ack, Torn
<1>2. CASE f = Ack
  BY <1>2 DEF Sealed, Ack, Torn
<1>3. CASE f = Torn
  BY <1>3 DEF Sealed, Ack, Torn
<1>4. ASSUME NEW p \in Passphrases, NEW r \in BOOLEAN, f = Hello(p, r)
      PROVE  f.kind = "hello" /\ f \notin Sealed /\ f # Ack /\ f # Torn
  BY <1>4 DEF Hello, Sealed, Ack, Torn
<1> QED BY <1>1, <1>2, <1>3, <1>4 DEF Frames

LEMMA SealedFacts ==
  ASSUME NEW f \in Sealed
  PROVE  f \in Frames /\ f.kind = "data" /\ f # Torn /\ f.n \in 1 .. MaxFrames
         /\ f.seq \in 0 .. NumberMod - 1 /\ f.key \in Keys /\ f.len \in Lengths
BY DEF Sealed, Frames, Torn

LEMMA FrameMembers ==
  /\ Torn \in Frames /\ Torn.kind = "torn" /\ Torn \notin Sealed
  /\ Ack \in Frames /\ Ack.kind = "ack"
  /\ \A p \in Passphrases, r \in BOOLEAN : Hello(p, r) \in Frames /\ Hello(p, r).kind = "hello"
<1>1. Torn.kind = "torn" /\ Ack.kind = "ack"
  BY DEF Torn, Ack
<1>2. Torn \notin Sealed
  BY <1>1 DEF Sealed
<1>3. ASSUME NEW p \in Passphrases, NEW r \in BOOLEAN
      PROVE  Hello(p, r) \in Frames /\ Hello(p, r).kind = "hello"
  <2>1. Hello(p, r).kind = "hello"
    BY DEF Hello
  <2> QED BY <2>1 DEF Frames
<1> QED BY <1>1, <1>2, <1>3 DEF Frames

LEMMA DataIsSealed ==
  ASSUME NEW k \in Keys, NEW s \in 0 .. NumberMod - 1, NEW l \in Lengths, NEW n \in 1 .. MaxFrames
  PROVE  /\ Data(k, s, l, n) \in Sealed
         /\ Data(k, s, l, n).key = k /\ Data(k, s, l, n).seq = s /\ Data(k, s, l, n).n = n
BY DEF Data, Sealed

LEMMA NumberRange ==
  ASSUME NEW x \in Nat
  PROVE  x % NumberMod \in 0 .. NumberMod - 1 /\ (x < NumberMod => x % NumberMod = x)
<1>1. NumberMod \in Nat \ {0}
  BY TunnelAssumption
<1>2. x % NumberMod \in 0 .. NumberMod - 1
  BY <1>1, Z3
<1>3. x < NumberMod => x % NumberMod = x
  BY <1>1, Z3
<1> QED BY <1>2, <1>3

LEMMA LeadFacts ==
  /\ Lead(<<>>) = 0
  /\ \A q : Lead(q) \in {0, 1}
BY DEF Lead

LEMMA EmptyIsSeq == \A S : <<>> \in Seq(S) /\ Len(<<>>) = 0
OBVIOUS

LEMMA AppendIs ==
  ASSUME NEW S, NEW s \in Seq(S), NEW x \in S
  PROVE  /\ Append(s, x) \in Seq(S) /\ Len(Append(s, x)) = Len(s) + 1
         /\ \A i \in 1 .. Len(s) : Append(s, x)[i] = s[i]
         /\ Append(s, x)[Len(s) + 1] = x
BY AppendProperties, LenProperties

LEMMA OneIsSeq ==
  ASSUME NEW S, NEW x \in S
  PROVE  <<x>> \in Seq(S) /\ Append(<<>>, x) = <<x>>
OBVIOUS

LEMMA EmptyQueue ==
  ASSUME NEW t, NEW k
  PROVE  InOrder(<<>>, t, k) /\ Whole(<<>>)
BY DEF InOrder, Whole

LEMMA OneGreeting ==
  ASSUME NEW t, NEW k, NEW f \in Frames, f.kind \in {"hello", "ack"}
  PROVE  InOrder(<<f>>, t, k) /\ Whole(<<f>>) /\ Lead(<<f>>) = 1 /\ Len(<<f>>) = 1
BY DEF InOrder, Whole, Lead

LEMMA AppendSealed ==
  ASSUME NEW q \in Seq(Frames), NEW t \in Nat, NEW k, InOrder(q, t, k), Whole(q),
         NEW f \in Sealed, Numbered(f, k), f.n + Lead(q) = t + Len(q) + 1
  PROVE  /\ Append(q, f) \in Seq(Frames) /\ Len(Append(q, f)) = Len(q) + 1
         /\ Lead(Append(q, f)) = Lead(q)
         /\ InOrder(Append(q, f), t, k) /\ Whole(Append(q, f))
<1> DEFINE a == Append(q, f)
<1>1. f \in Frames /\ f.kind = "data"
  BY SealedFacts
<1>2. /\ a \in Seq(Frames) /\ Len(a) = Len(q) + 1
      /\ \A i \in 1 .. Len(q) : a[i] = q[i]
      /\ a[Len(q) + 1] = f /\ Len(q) \in Nat
  <2>1. Len(q) \in Nat
    BY LenProperties
  <2> QED BY <1>1, <2>1, AppendProperties, Zenon
<1>3. Lead(a) = Lead(q)
  <2>1. CASE q = <<>>
    <3>1. a[1] = f
      BY <1>2, <2>1
    <3> QED BY <3>1, <1>1, <2>1 DEF Lead
  <2>2. CASE q # <<>>
    <3>1. a[1] = q[1] /\ a # <<>>
      BY <1>2, <2>2
    <3> QED BY <3>1, <2>2 DEF Lead
  <2> QED BY <2>1, <2>2
<1>4. Whole(a)
  BY <1>1, <1>2 DEF Whole
<1>5. InOrder(a, t, k)
  <2> SUFFICES ASSUME NEW i \in 1 .. Len(a)
      PROVE  /\ a[i].kind \in {"hello", "ack"} => i = 1
             /\ a[i].kind = "torn" => i = Len(a)
             /\ a[i].kind = "data" => Numbered(a[i], k) /\ a[i].n + Lead(a) = t + i
    BY DEF InOrder
  <2>1. CASE i \in 1 .. Len(q)
    BY <2>1, <1>2, <1>3, <1>4 DEF InOrder, Whole
  <2>2. CASE i = Len(q) + 1
    BY <2>2, <1>1, <1>2, <1>3
  <2> QED BY <2>1, <2>2, <1>2
<1> QED BY <1>2, <1>3, <1>4, <1>5

LEMMA AppendTorn ==
  ASSUME NEW q \in Seq(Frames), NEW t \in Nat, NEW k, InOrder(q, t, k), Whole(q)
  PROVE  /\ Append(q, Torn) \in Seq(Frames) /\ Len(Append(q, Torn)) = Len(q) + 1
         /\ Lead(Append(q, Torn)) = Lead(q)
         /\ InOrder(Append(q, Torn), t, k)
<1> DEFINE a == Append(q, Torn)
<1>1. Torn \in Frames /\ Torn.kind = "torn"
  BY FrameMembers
<1>2. /\ a \in Seq(Frames) /\ Len(a) = Len(q) + 1
      /\ \A i \in 1 .. Len(q) : a[i] = q[i]
      /\ a[Len(q) + 1] = Torn /\ Len(q) \in Nat
  <2>1. Len(q) \in Nat
    BY LenProperties
  <2> QED BY <1>1, <2>1, AppendProperties, Zenon
<1>3. Lead(a) = Lead(q)
  <2>1. CASE q = <<>>
    <3>1. a[1] = Torn
      BY <1>2, <2>1
    <3> QED BY <3>1, <1>1, <2>1 DEF Lead
  <2>2. CASE q # <<>>
    <3>1. a[1] = q[1] /\ a # <<>>
      BY <1>2, <2>2
    <3> QED BY <3>1, <2>2 DEF Lead
  <2> QED BY <2>1, <2>2
<1>4. InOrder(a, t, k)
  <2> SUFFICES ASSUME NEW i \in 1 .. Len(a)
      PROVE  /\ a[i].kind \in {"hello", "ack"} => i = 1
             /\ a[i].kind = "torn" => i = Len(a)
             /\ a[i].kind = "data" => Numbered(a[i], k) /\ a[i].n + Lead(a) = t + i
    BY DEF InOrder
  <2>1. CASE i \in 1 .. Len(q)
    BY <2>1, <1>2, <1>3 DEF InOrder, Whole
  <2>2. CASE i = Len(q) + 1
    BY <2>2, <1>1, <1>2
  <2> QED BY <2>1, <2>2, <1>2
<1> QED BY <1>2, <1>3, <1>4

\* The head of a queue is taken: a sealed frame that is opened or refused counts, a
\* greeting does not.
LEMMA TakeHead ==
  ASSUME NEW q \in Seq(Frames), q # <<>>, NEW t \in Nat, NEW u \in Nat, NEW k, InOrder(q, t, k),
         u = IF Lead(q) = 1 THEN t ELSE t + 1
  PROVE  /\ Tail(q) \in Seq(Frames) /\ Len(Tail(q)) = Len(q) - 1 /\ Len(q) \in Nat \ {0}
         /\ Lead(Tail(q)) = 0 /\ InOrder(Tail(q), u, k)
         /\ Whole(q) => Whole(Tail(q))
<1> DEFINE r == Tail(q)
<1>1. /\ r \in Seq(Frames) /\ Len(r) = Len(q) - 1 /\ Len(q) \in Nat \ {0}
      /\ \A i \in 1 .. Len(r) : r[i] = q[i + 1]
  BY HeadTailProperties, EmptySeq, LenProperties
<1>2. \A i \in 1 .. Len(r) : i + 1 \in 1 .. Len(q) /\ r[i] = q[i + 1]
  BY <1>1
<1>3. Lead(r) = 0
  <2>1. CASE r = <<>>
    BY <2>1 DEF Lead
  <2>2. CASE r # <<>>
    <3>1. 1 \in 1 .. Len(r)
      BY <1>1, <2>2, EmptySeq
    <3>2. r[1] = q[2] /\ 2 \in 1 .. Len(q)
      BY <3>1, <1>2
    <3>3. q[2].kind \notin {"hello", "ack"}
      BY <3>2 DEF InOrder
    <3> QED BY <3>2, <3>3 DEF Lead
  <2> QED BY <2>1, <2>2
<1>4. InOrder(r, u, k)
  <2> SUFFICES ASSUME NEW i \in 1 .. Len(r)
      PROVE  /\ r[i].kind \in {"hello", "ack"} => i = 1
             /\ r[i].kind = "torn" => i = Len(r)
             /\ r[i].kind = "data" => Numbered(r[i], k) /\ r[i].n + Lead(r) = u + i
    BY DEF InOrder
  <2>1. i + 1 \in 1 .. Len(q) /\ r[i] = q[i + 1] /\ i \in Nat
    BY <1>2
  <2>2. /\ r[i].kind \notin {"hello", "ack"}
        /\ r[i].kind = "torn" => i + 1 = Len(q)
        /\ r[i].kind = "data" => Numbered(r[i], k) /\ r[i].n + Lead(q) = t + (i + 1)
    BY <2>1 DEF InOrder
  <2>3. r[i].kind = "data" => r[i].n \in Nat
    <3>1. r[i] \in Frames
      BY <1>1, ElementOfSeq
    <3> QED BY <3>1, FrameKinds, SealedFacts
  <2>4. Lead(q) \in {0, 1}
    BY LeadFacts
  <2>5. ASSUME r[i].kind = "torn" PROVE i = Len(r)
    <3>1. i + 1 = Len(q) /\ Len(r) = Len(q) - 1 /\ Len(q) \in Nat
      BY <2>2, <2>5, <1>1
    <3> HIDE DEF r
    <3> QED BY <3>1, <2>1
  <2>6. ASSUME r[i].kind = "data" PROVE r[i].n + Lead(r) = u + i
    <3>1. r[i].n + Lead(q) = t + (i + 1) /\ r[i].n \in Nat
      BY <2>2, <2>3, <2>6
    <3> QED BY <3>1, <2>1, <2>4, <1>3
  <2> QED BY <2>2, <2>5, <2>6
<1>5. Whole(q) => Whole(r)
  BY <1>2 DEF Whole
<1> QED BY <1>1, <1>3, <1>4, <1>5

-----------------------------------------------------------------------------
\* The inductive invariant.

\* The sealed frames an end has taken off its socket, the refused one included, and
\* those a writer holds.
Taken(e)  == IF refused[e] = "no" THEN Len(got[e]) ELSE Len(got[e]) + 1
InHand(e) == IF e = "relay" /\ g_lock # "free" THEN 1 ELSE 0

\* Every frame an end has sealed is in hand, on its way or taken, in that order.
Flow(e) ==
  /\ sealed[e] + Lead(wire[e]) = Taken(Other(e)) + Len(wire[e]) + InHand(e)
  /\ InOrder(wire[e], Taken(Other(e)), key[e])

\* The two counters of an end count until they come full circle.
Numbers(e) ==
  /\ sealed[e] + 1 < NumberMod => sendSeq[e] = sealed[e] + 1
  /\ Len(got[e]) < NumberMod => recvSeq[e] = Len(got[e])

\* Whoever has torn a frame writes nothing after it; the writer that holds the lock
\* holds the frame sealed last.
Writing ==
  /\ peer \in {"hello", "up"} => Whole(wire["peer"])
  /\ ~closing \/ g_lock # "free" => Whole(wire["relay"])
  /\ \A w \in Writers : held[w] # Torn <=> g_lock = w
  /\ \A w \in Writers :
       held[w] # Torn => held[w].n = sealed["relay"] /\ Numbered(held[w], key["relay"])
  /\ g_lock # "free" => relay \in {"up", "leaving"}

\* How far the two ends can be from one another.
Phases ==
  /\ peer # "off" \/ relay # "none" => tunnels # 0
  /\ peer = "hello" => sealed["peer"] = 0 /\ got["peer"] = <<>>
  /\ peer = "up" => Lead(wire["relay"]) = 0 /\ key["peer"] \in Keys
  /\ relay \in {"up", "leaving"} => key["relay"] \in Keys
  /\ relay \in {"none", "hello", "proved"} =>
       wire["relay"] = <<>> /\ sealed["relay"] = 0 /\ sealed["peer"] = 0 /\ peer # "up"
  /\ relay \in {"proved", "up", "leaving"} => Lead(wire["peer"]) = 0
  /\ refused["peer"] # "no" => peer \in {"down", "off"}
  /\ refused["relay"] # "no" => relay \in {"leaving", "closed"}

TunnelInv ==
  /\ TunnelTypeOK /\ Flow("peer") /\ Flow("relay") /\ Numbers("peer") /\ Numbers("relay")
  /\ Writing /\ Phases /\ DeliveredInOrder /\ RefusedForCause

-----------------------------------------------------------------------------
LEMMA EndFacts ==
  /\ "peer" \in Ends /\ "relay" \in Ends /\ \A e \in Ends : e \in {"peer", "relay"}
  /\ Other("peer") = "relay" /\ Other("relay") = "peer"
BY DEF Ends, Other

LEMMA InitTunnel == TunnelInit => TunnelInv
<1> SUFFICES ASSUME TunnelInit PROVE TunnelInv
  OBVIOUS
<1> USE DEF TunnelInit
<1>1. NumberMod \in Nat \ {0, 1} /\ MaxTunnels \in Nat /\ MaxFrames \in Nat /\ "free" \notin Writers
  BY TunnelAssumption
<1>2. TunnelTypeOK
  <2>1. /\ secret \in [Ends -> Passphrases] /\ rightPort \in BOOLEAN
        /\ peer \in {"off", "hello", "up", "down"}
        /\ relay \in {"none", "hello", "proved", "up", "leaving", "closed"}
        /\ closing \in BOOLEAN /\ path \in BOOLEAN
    OBVIOUS
  <2>0. tunnels \in 0 .. MaxTunnels
    BY <1>1
  <2>2. /\ key \in [Ends -> Keys \cup {NoKey}]
        /\ sendSeq \in [Ends -> 0 .. NumberMod - 1] /\ recvSeq \in [Ends -> 0 .. NumberMod - 1]
        /\ sealed \in [Ends -> 0 .. MaxFrames]
        /\ refused \in [Ends -> {"no", "key", "length", "number", "garbled"}]
    BY <1>1
  <2>3. wire \in [Ends -> Seq(Frames)] /\ got \in [Ends -> Seq(1 .. MaxFrames)]
    BY EmptyIsSeq
  <2>4. g_lock \in Writers \cup {"free"} /\ held \in [Writers -> Sealed \cup {Torn}]
    OBVIOUS
  <2> QED BY <2>0, <2>1, <2>2, <2>3, <2>4 DEF TunnelTypeOK
<1>3. \A e \in Ends : wire[e] = <<>> /\ got[e] = <<>> /\ sealed[e] = 0 /\ refused[e] = "no"
                    /\ sendSeq[e] = 1 /\ recvSeq[e] = 0
  OBVIOUS
<1>4. Lead(<<>>) = 0 /\ Whole(<<>>) /\ \A t, k : InOrder(<<>>, t, k)
  BY LeadFacts, EmptyQueue
<1>5. Flow("peer") /\ Flow("relay")
  BY <1>3, <1>4, EndFacts DEF Flow, Taken, InHand
<1>6. Numbers("peer") /\ Numbers("relay")
  BY <1>1, <1>3, EndFacts DEF Numbers
<1>7. Writing
  BY <1>1, <1>3, <1>4, EndFacts DEF Writing
<1>8. Phases
  BY <1>3, <1>4, EndFacts DEF Phases
<1>9. DeliveredInOrder /\ RefusedForCause
  BY <1>3 DEF DeliveredInOrder, RefusedForCause
<1> QED BY <1>2, <1>5, <1>6, <1>7, <1>8, <1>9 DEF TunnelInv

\* The steps that touch neither a wire nor a counter nor the lock.
LEMMA QuietStep ==
  ASSUME TunnelInv, UNCHANGED <<counters, wire, locks, history, tunnels, closing, rightPort>>,
         peer' \in {"off", "hello", "up", "down"}, path' \in BOOLEAN, secret' \in [Ends -> Passphrases],
         relay' \in {"none", "hello", "proved", "up", "leaving", "closed"},
         peer' = peer \/ peer' = "off" \/ (peer # "off" /\ peer' = "down"),
         \/ relay' = relay
         \/ relay # "none" /\ relay' = "closed" /\ g_lock = "free"
         \/ relay = "up" /\ relay' = "leaving"
  PROVE  TunnelInv'
<1> USE DEF TunnelInv, counters, locks, history
<1>1. TunnelTypeOK'
  BY DEF TunnelTypeOK
<1>2. Flow("peer")' /\ Flow("relay")'
  BY DEF Flow, Taken, InHand
<1>3. Numbers("peer")' /\ Numbers("relay")'
  BY DEF Numbers
<1>4. Writing'
  BY DEF Writing
<1>5. Phases'
  BY DEF Phases
<1>6. DeliveredInOrder' /\ RefusedForCause'
  BY DEF DeliveredInOrder, RefusedForCause
<1> QED BY <1>1, <1>2, <1>3, <1>4, <1>5, <1>6

\* A new connection: everything starts afresh.
LEMMA DialStep == TunnelInv /\ DialRelay => TunnelInv'
<1> SUFFICES ASSUME TunnelInv, DialRelay PROVE TunnelInv'
  OBVIOUS
<1> USE DEF TunnelInv
<1>1. NumberMod \in Nat \ {0, 1} /\ MaxTunnels \in Nat /\ MaxFrames \in Nat
  BY TunnelAssumption
<1>2. /\ peer = "off" /\ relay \in {"none", "closed"} /\ tunnels < MaxTunnels
      /\ tunnels' = tunnels + 1 /\ relay' = "hello" /\ closing' = FALSE /\ path' = TRUE
      /\ key' = [e \in Ends |-> NoKey] /\ sendSeq' = [e \in Ends |-> 1]
      /\ recvSeq' = [e \in Ends |-> 0] /\ sealed' = [e \in Ends |-> 0]
      /\ got' = [e \in Ends |-> <<>>] /\ refused' = [e \in Ends |-> "no"]
      /\ secret' = secret /\ rightPort' = rightPort /\ g_lock' = g_lock /\ held' = held
      /\ peer' \in {"hello", "off"}
  BY DEF DialRelay, locks
<1>3. PICK f \in Frames : f.kind = "hello" /\ wire'["relay"] = <<>> /\ wire'["peer"] \in {<<>>, <<f>>}
                         /\ wire' \in [Ends -> Seq(Frames)]
  <2>1. secret["peer"] \in Passphrases
    BY EndFacts DEF TunnelTypeOK
  <2>2. /\ Hello(secret["peer"], TRUE) \in Frames
        /\ Hello(secret["peer"], TRUE).kind = "hello"
    BY <2>1, FrameMembers
  <2>3. <<Hello(secret["peer"], TRUE)>> \in Seq(Frames) /\ <<>> \in Seq(Frames)
    BY <2>2, OneIsSeq, EmptyIsSeq, Zenon
  <2>4. \/ wire' = [e \in Ends |-> IF e = "peer" THEN <<Hello(secret["peer"], TRUE)>> ELSE <<>>]
        \/ wire' = [e \in Ends |-> <<>>]
    BY DEF DialRelay
  <2>5. wire' \in [Ends -> Seq(Frames)]
    BY <2>3, <2>4
  <2>6. wire'["relay"] = <<>> /\ wire'["peer"] \in {<<>>, <<Hello(secret["peer"], TRUE)>>}
    BY <2>4, EndFacts
  <2> QED BY <2>2, <2>5, <2>6
<1>4. g_lock = "free" /\ \A w \in Writers : held[w] = Torn
  BY <1>2, TunnelAssumption DEF Writing
<1>5. TunnelTypeOK'
  <2>1. /\ secret' \in [Ends -> Passphrases] /\ rightPort' \in BOOLEAN
        /\ peer' \in {"off", "hello", "up", "down"}
        /\ relay' \in {"none", "hello", "proved", "up", "leaving", "closed"}
        /\ closing' \in BOOLEAN /\ path' \in BOOLEAN
    BY <1>2 DEF TunnelTypeOK
  <2>2. tunnels' \in 0 .. MaxTunnels
    BY <1>1, <1>2 DEF TunnelTypeOK
  <2>3. /\ key' \in [Ends -> Keys \cup {NoKey}]
        /\ sendSeq' \in [Ends -> 0 .. NumberMod - 1] /\ recvSeq' \in [Ends -> 0 .. NumberMod - 1]
        /\ sealed' \in [Ends -> 0 .. MaxFrames]
        /\ refused' \in [Ends -> {"no", "key", "length", "number", "garbled"}]
    BY <1>1, <1>2
  <2>4. got' \in [Ends -> Seq(1 .. MaxFrames)]
    BY <1>2, EmptyIsSeq
  <2>5. g_lock' \in Writers \cup {"free"} /\ held' \in [Writers -> Sealed \cup {Torn}]
    BY <1>2 DEF TunnelTypeOK
  <2> QED BY <1>3, <2>1, <2>2, <2>3, <2>4, <2>5 DEF TunnelTypeOK
<1>6. \A e \in Ends : got'[e] = <<>> /\ Len(got'[e]) = 0 /\ sealed'[e] = 0 /\ refused'[e] = "no"
                     /\ sendSeq'[e] = 1 /\ recvSeq'[e] = 0
  BY <1>2
<1>7. /\ Lead(<<>>) = 0 /\ Whole(<<>>) /\ Len(<<>>) = 0 /\ \A t, k : InOrder(<<>>, t, k)
      /\ Lead(<<f>>) = 1 /\ Whole(<<f>>) /\ Len(<<f>>) = 1 /\ \A t, k : InOrder(<<f>>, t, k)
  BY <1>3, LeadFacts, EmptyQueue, OneGreeting
<1>8. Flow("peer")' /\ Flow("relay")'
  <2>1. Taken("peer")' = 0 /\ Taken("relay")' = 0 /\ InHand("peer")' = 0 /\ InHand("relay")' = 0
    BY <1>2, <1>4, <1>6, EndFacts DEF Taken, InHand
  <2>2. sealed'["peer"] = 0 /\ sealed'["relay"] = 0
    BY <1>6, EndFacts
  <2>3. Flow("relay")'
    BY <1>3, <1>7, <2>1, <2>2, EndFacts DEF Flow
  <2>4. Len(wire'["peer"]) \in Nat /\ Lead(wire'["peer"]) = Len(wire'["peer"])
        /\ \A t, k : InOrder(wire'["peer"], t, k)
    BY <1>3, <1>7
  <2>5. Flow("peer")'
    BY <2>1, <2>2, <2>4, EndFacts DEF Flow
  <2> QED BY <2>3, <2>5
<1>9. Numbers("peer")' /\ Numbers("relay")'
  BY <1>1, <1>6, EndFacts DEF Numbers
<1>10. Writing'
  BY <1>2, <1>3, <1>4, <1>7, EndFacts DEF Writing
<1>11. Phases'
  <2>1. tunnels' # 0
    BY <1>2 DEF TunnelTypeOK
  <2> QED BY <2>1, <1>2, <1>3, <1>6, <1>7, EndFacts DEF Phases
<1>12. DeliveredInOrder' /\ RefusedForCause'
  BY <1>6 DEF DeliveredInOrder, RefusedForCause
<1> QED BY <1>5, <1>8, <1>9, <1>10, <1>11, <1>12

-----------------------------------------------------------------------------
\* Reading.

\* What the head of a queue can be once the greeting is gone: the next frame sealed.
LEMMA NextInLine ==
  ASSUME TunnelInv, NEW e \in Ends, Lead(wire[Other(e)]) = 0, refused[e] = "no", Readable(e)
  PROVE  LET f == Head(wire[Other(e)])
         IN  /\ wire[Other(e)] \in Seq(Frames) /\ wire[Other(e)] # <<>>
             /\ f \in Sealed /\ Numbered(f, key[Other(e)]) /\ f.n = Len(got[e]) + 1
             /\ Len(got[e]) \in Nat /\ f.n <= sealed[Other(e)] /\ sealed[Other(e)] \in Nat
             /\ f.seq \in 0 .. NumberMod - 1
<1> DEFINE o == Other(e)
           q == wire[o]
           f == Head(q)
<1>1. o \in Ends /\ Other(o) = e
  BY EndFacts
<1>2. q \in Seq(Frames) /\ q # <<>> /\ got[e] \in Seq(1 .. MaxFrames) /\ sealed[o] \in 0 .. MaxFrames
  BY <1>1 DEF TunnelInv, TunnelTypeOK, Readable
<1>3. f \in Frames /\ f = q[1] /\ Len(q) \in Nat \ {0} /\ 1 \in 1 .. Len(q)
  BY <1>2, HeadTailProperties, EmptySeq, LenProperties
<1>4. Flow(o)
  BY <1>1, EndFacts DEF TunnelInv
<1>5. Taken(e) = Len(got[e]) /\ Len(got[e]) \in Nat
  BY <1>2, LenProperties DEF Taken
<1>6. f.kind \notin {"hello", "ack"}
  BY <1>2, <1>3 DEF Lead
<1>7. f.kind # "torn"
  <2> SUFFICES ASSUME f.kind = "torn" PROVE FALSE
    OBVIOUS
  <2> DEFINE n == Len(q)
  <2>1. 1 = n
    BY <1>1, <1>3, <1>4 DEF Flow, InOrder
  <2>2. n > 1
    BY DEF Readable
  <2> HIDE DEF f, q, n
  <2> QED BY <2>1, <2>2
<1>8. f.kind = "data" /\ f \in Sealed
  BY <1>3, <1>6, <1>7, FrameKinds
<1>9. Numbered(f, key[o]) /\ f.n + Lead(q) = Taken(e) + 1
  BY <1>1, <1>3, <1>4, <1>8 DEF Flow, InOrder
<1>10. f.n \in Nat /\ f.seq \in 0 .. NumberMod - 1
  BY <1>8, SealedFacts
<1>11. f.n = Len(got[e]) + 1
  BY <1>5, <1>9, <1>10
<1>12. f.n <= sealed[o]
  <2>1. sealed[o] + Lead(q) = Taken(e) + Len(q) + InHand(o)
    BY <1>1, <1>4 DEF Flow
  <2>2. InHand(o) \in {0, 1}
    BY DEF InHand
  <2>3. Taken(e) = Len(got[e]) /\ f.n = Len(got[e]) + 1 /\ Lead(q) = 0
    BY <1>5, <1>11
  <2>4. Len(got[e]) \in Nat /\ Len(q) \in Nat \ {0} /\ sealed[o] \in Nat
    BY <1>2, <1>3, <1>5, TunnelAssumption
  <2> HIDE DEF f, q, o
  <2>5. sealed[o] + 0 = Len(got[e]) + Len(q) + InHand(o)
    BY <2>1, <2>3
  <2>6. Len(got[e]) + 1 <= sealed[o]
    BY <2>2, <2>4, <2>5
  <2> QED BY <2>3, <2>6
<1> QED BY <1>2, <1>5, <1>8, <1>9, <1>10, <1>11, <1>12

\* Taking the head of its queue leaves the rest of an end's invariant standing, whether
\* the frame is opened or refused.
LEMMA TakeStep ==
  ASSUME TunnelInv, NEW e \in Ends, Lead(wire[Other(e)]) = 0, refused[e] = "no", Readable(e),
         wire' = [wire EXCEPT ![Other(e)] = Tail(@)],
         UNCHANGED <<secret, rightPort, closing, path, locks, tunnels, key, sendSeq, sealed>>,
         e = "peer"  => peer = "up" /\ relay' = relay,
         e = "relay" => relay = "up" /\ peer' = peer /\ relay' \in {"up", "leaving"},
         got'[Other(e)] = got[Other(e)], refused'[Other(e)] = refused[Other(e)],
         Taken(e)' = Len(got[e]) + 1
  PROVE  /\ wire' \in [Ends -> Seq(Frames)] /\ Flow("peer")' /\ Flow("relay")' /\ Writing'
         /\ (e = "peer" => peer' \in {"up", "down"}) /\ refused'[Other(e)] = refused[Other(e)]
            /\ (refused'[e] # "no" => IF e = "peer" THEN peer' = "down" ELSE relay' = "leaving")
            => Phases'
<1> USE DEF TunnelInv, locks
<1> DEFINE o == Other(e)
           q == wire[o]
<1>1. o \in Ends /\ Other(o) = e /\ e # o /\ \A x \in Ends : x = e \/ x = o
  BY EndFacts DEF Ends, Other
<1>2. q \in Seq(Frames) /\ q # <<>> /\ Len(got[e]) \in Nat
  BY NextInLine
<1>3. Flow(o) /\ Flow(e) /\ Taken(e) = Len(got[e])
  BY <1>1, EndFacts DEF Taken
<1>4. /\ Tail(q) \in Seq(Frames) /\ Len(Tail(q)) = Len(q) - 1 /\ Len(q) \in Nat \ {0}
      /\ Lead(Tail(q)) = 0 /\ InOrder(Tail(q), Len(got[e]) + 1, key[o])
      /\ Whole(q) => Whole(Tail(q))
  <2>1. InOrder(q, Len(got[e]), key[o])
    BY <1>1, <1>3 DEF Flow
  <2>2. Len(got[e]) + 1 \in Nat /\ Len(got[e]) + 1 = IF Lead(q) = 1 THEN Len(got[e]) ELSE Len(got[e]) + 1
    BY <1>2
  <2> QED BY <1>2, <2>1, <2>2, TakeHead
<1>5. wire \in [Ends -> Seq(Frames)] /\ sealed[o] \in Nat
  BY <1>1, TunnelAssumption DEF TunnelTypeOK
<1>6. wire'[o] = Tail(q) /\ wire'[e] = wire[e] /\ wire' \in [Ends -> Seq(Frames)]
  BY <1>1, <1>4, <1>5
<1>7. Flow(o)'
  <2>1. sealed[o] + Lead(q) = Len(got[e]) + Len(q) + InHand(o)
    BY <1>1, <1>3 DEF Flow
  <2>2. InHand(o) \in {0, 1} /\ InHand(o)' = InHand(o)
    BY DEF InHand
  <2>3. sealed[o] + 0 = Len(got[e]) + 1 + Len(Tail(q)) + InHand(o)
    <3> DEFINE m == Len(Tail(q))
               n == Len(q)
               g == Len(got[e])
               h == InHand(o)
               x == sealed[o]
    <3>1. m = n - 1 /\ n \in Nat /\ g \in Nat /\ x \in Nat /\ h \in {0, 1}
      BY <1>2, <1>4, <1>5, <2>2
    <3>2. x + 0 = g + n + h
      BY <2>1
    <3> HIDE DEF m, n, g, h, x, TunnelInv
    <3>3. x + 0 = g + 1 + m + h
      BY <3>1, <3>2
    <3> QED BY <3>3 DEF m, n, g, h, x
  <2>4. sealed'[o] + Lead(Tail(q)) = Len(got[e]) + 1 + Len(Tail(q)) + InHand(o)'
    BY <1>4, <2>2, <2>3
  <2> QED BY <1>1, <1>4, <1>6, <2>4 DEF Flow
<1>8. Flow(e)'
  <2>1. Taken(o)' = Taken(o) /\ InHand(e)' = InHand(e)
    BY DEF Taken, InHand
  <2> QED BY <1>1, <1>3, <1>6, <2>1 DEF Flow
<1>9. Flow("peer")' /\ Flow("relay")'
  BY <1>1, <1>7, <1>8, EndFacts
<1>10. \A x \in Ends : Whole(wire[x]) => Whole(wire'[x])
  BY <1>1, <1>4, <1>6
<1>11. Writing'
  <2>1. peer' \in {"hello", "up"} => peer \in {"hello", "up"}
    BY EndFacts, <1>1
  <2>2. g_lock' # "free" => relay' \in {"up", "leaving"}
    BY EndFacts, <1>1 DEF Writing
  <2> QED BY <1>10, <2>1, <2>2, EndFacts DEF Writing
<1>12. \A x \in Ends : Lead(wire[x]) = 0 => Lead(wire'[x]) = 0
  BY <1>1, <1>4, <1>6
<1>13. ASSUME e = "peer" => peer' \in {"up", "down"},
              refused'[e] # "no" => IF e = "peer" THEN peer' = "down" ELSE relay' = "leaving"
       PROVE  Phases'
  <2>1. CASE e = "peer"
    <3>1. o = "relay" /\ relay \notin {"none", "hello", "proved"}
      BY <2>1, EndFacts DEF Phases
    <3> QED BY <1>12, <1>13, <2>1, <3>1, EndFacts DEF Phases
  <2>2. CASE e = "relay"
    <3>1. o = "peer"
      BY <2>2, EndFacts
    <3> QED BY <1>6, <1>12, <1>13, <2>2, <3>1, EndFacts DEF Phases
  <2> QED BY <2>1, <2>2, EndFacts
<1> QED BY <1>6, <1>9, <1>11, <1>13

LEMMA OpensStep ==
  ASSUME TunnelInv, NEW e \in Ends, Lead(wire[Other(e)]) = 0, refused[e] = "no", Opens(e),
         UNCHANGED <<secret, rightPort, closing, path, locks, tunnels>>,
         e = "peer"  => peer = "up" /\ peer' = "up" /\ relay' = relay,
         e = "relay" => relay = "up" /\ peer' = peer /\ relay' \in {"up", "leaving"}
  PROVE  TunnelInv'
<1> USE DEF TunnelInv
<1> DEFINE o == Other(e)
           f == Head(wire[o])
<1>1. o \in Ends /\ Other(o) = e /\ e # o /\ \A x \in Ends : x = e \/ x = o
  BY EndFacts DEF Ends, Other
<1>2. /\ Readable(e) /\ recvSeq' = [recvSeq EXCEPT ![e] = f.seq]
      /\ got' = [got EXCEPT ![e] = Append(@, f.n)]
      /\ wire' = [wire EXCEPT ![o] = Tail(@)]
      /\ UNCHANGED <<key, sendSeq, sealed, refused>>
  BY DEF Opens
<1>3. /\ f \in Sealed /\ Numbered(f, key[o]) /\ f.n = Len(got[e]) + 1
      /\ Len(got[e]) \in Nat /\ f.seq \in 0 .. NumberMod - 1
  BY <1>2, NextInLine
<1>4. got \in [Ends -> Seq(1 .. MaxFrames)] /\ recvSeq \in [Ends -> 0 .. NumberMod - 1]
  BY DEF TunnelTypeOK
<1>5. /\ Append(got[e], f.n) \in Seq(1 .. MaxFrames)
      /\ Len(Append(got[e], f.n)) = Len(got[e]) + 1
      /\ \A i \in 1 .. Len(got[e]) : Append(got[e], f.n)[i] = got[e][i]
      /\ Append(got[e], f.n)[Len(got[e]) + 1] = f.n
  <2>1. f.n \in 1 .. MaxFrames /\ got[e] \in Seq(1 .. MaxFrames)
    BY <1>3, <1>4, SealedFacts
  <2> HIDE DEF f, TunnelInv
  <2> QED BY <2>1, AppendIs
<1>6. /\ got'[e] = Append(got[e], f.n) /\ got'[o] = got[o]
      /\ got' \in [Ends -> Seq(1 .. MaxFrames)]
      /\ recvSeq'[e] = f.seq /\ recvSeq'[o] = recvSeq[o]
      /\ recvSeq' \in [Ends -> 0 .. NumberMod - 1]
  BY <1>1, <1>2, <1>3, <1>4, <1>5
<1>7. Taken(e)' = Len(got[e]) + 1
  BY <1>2, <1>5, <1>6 DEF Taken
<1>8. wire' \in [Ends -> Seq(Frames)] /\ Flow("peer")' /\ Flow("relay")' /\ Writing' /\ Phases'
  <2> HIDE DEF TunnelInv, f
  <2>1. UNCHANGED <<secret, rightPort, closing, path, locks, tunnels, key, sendSeq, sealed>>
    BY <1>2
  <2>2. refused'[o] = refused[o] /\ refused'[e] = "no" /\ got'[o] = got[o]
    BY <1>2, <1>6
  <2>3. e = "peer" => peer' \in {"up", "down"}
    OBVIOUS
  <2> QED BY <1>2, <1>7, <2>1, <2>2, <2>3, TakeStep
<1>9. TunnelTypeOK'
  BY <1>2, <1>6, <1>8, EndFacts DEF TunnelTypeOK, locks
<1>10. \A x \in Ends : Numbers(x)'
  <2>1. Numbers(e)'
    <3>1. Len(got'[e]) < NumberMod => recvSeq'[e] = Len(got'[e])
      BY <1>3, <1>5, <1>6 DEF Numbered
    <3>2. sealed[e] + 1 < NumberMod => sendSeq[e] = sealed[e] + 1
      BY EndFacts DEF Numbers
    <3> QED BY <1>2, <3>1, <3>2 DEF Numbers
  <2>2. Numbers(o)'
    BY <1>1, <1>2, <1>6, EndFacts DEF Numbers
  <2> QED BY <1>1, <2>1, <2>2
<1>11. DeliveredInOrder'
  <2>1. \A i \in 1 .. Len(got'[e]) : got'[e][i] = i
    BY <1>3, <1>5, <1>6 DEF DeliveredInOrder
  <2>2. \A i \in 1 .. Len(got'[o]) : got'[o][i] = i
    BY <1>1, <1>6 DEF DeliveredInOrder
  <2> QED BY <1>1, <2>1, <2>2 DEF DeliveredInOrder
<1>12. RefusedForCause'
  BY <1>2 DEF RefusedForCause
<1> QED BY <1>8, <1>9, <1>10, <1>11, <1>12, EndFacts

LEMMA RefusesStep ==
  ASSUME TunnelInv, NEW e \in Ends, Lead(wire[Other(e)]) = 0, refused[e] = "no", Refuses(e),
         UNCHANGED <<secret, rightPort, closing, path, locks, tunnels>>,
         e = "peer"  => peer = "up" /\ peer' = "down" /\ relay' = relay,
         e = "relay" => relay = "up" /\ peer' = peer /\ relay' = "leaving"
  PROVE  TunnelInv'
<1> USE DEF TunnelInv
<1> DEFINE o == Other(e)
           f == Head(wire[o])
<1>1. o \in Ends /\ Other(o) = e /\ e # o /\ \A x \in Ends : x = e \/ x = o
  BY EndFacts DEF Ends, Other
<1>2. /\ Readable(e) /\ Verdict(e, f) # "no" /\ refused' = [refused EXCEPT ![e] = Verdict(e, f)]
      /\ wire' = [wire EXCEPT ![o] = Tail(@)]
      /\ UNCHANGED <<key, sendSeq, recvSeq, sealed, got>>
  BY DEF Refuses, counters
<1>3. /\ f \in Sealed /\ Numbered(f, key[o]) /\ f.n = Len(got[e]) + 1 /\ f.n <= sealed[o]
      /\ Len(got[e]) \in Nat /\ sealed[o] \in Nat
  BY <1>2, NextInLine
<1>4. /\ Verdict(e, f) \in {"length", "key", "number"}
      /\ Verdict(e, f) = "key" => key[e] # key[o]
      /\ Verdict(e, f) = "number" => f.seq <= recvSeq[e]
  BY <1>2, <1>3, SealedFacts DEF Verdict, Numbered
<1>5. refused \in [Ends -> {"no", "key", "length", "number", "garbled"}]
  BY DEF TunnelTypeOK
<1>6. /\ refused'[e] = Verdict(e, f) /\ refused'[o] = refused[o]
      /\ refused' \in [Ends -> {"no", "key", "length", "number", "garbled"}]
  BY <1>1, <1>2, <1>4, <1>5
<1>7. Taken(e)' = Len(got[e]) + 1
  BY <1>2, <1>6 DEF Taken
<1>8. wire' \in [Ends -> Seq(Frames)] /\ Flow("peer")' /\ Flow("relay")' /\ Writing' /\ Phases'
  <2> HIDE DEF TunnelInv, f
  <2>1. UNCHANGED <<secret, rightPort, closing, path, locks, tunnels, key, sendSeq, sealed>>
    BY <1>2
  <2>2. refused'[o] = refused[o] /\ got'[o] = got[o]
    BY <1>2, <1>6
  <2>3. /\ e = "peer" => peer' \in {"up", "down"}
        /\ IF e = "peer" THEN peer' = "down" ELSE relay' = "leaving"
    BY EndFacts
  <2> QED BY <1>2, <1>7, <2>1, <2>2, <2>3, TakeStep
<1>9. TunnelTypeOK'
  BY <1>2, <1>6, <1>8, EndFacts DEF TunnelTypeOK, locks
<1>10. Numbers("peer")' /\ Numbers("relay")'
  BY <1>2 DEF Numbers
<1>11. DeliveredInOrder'
  BY <1>2 DEF DeliveredInOrder
<1>12. RefusedForCause'
  <2>1. refused'[e] = "number" => sealed[o] >= NumberMod
    <3> SUFFICES ASSUME f.seq <= recvSeq[e], sealed[o] < NumberMod PROVE FALSE
      BY <1>3, <1>4, <1>6, TunnelAssumption
    <3>1. f.seq = f.n
      BY <1>3, TunnelAssumption DEF Numbered
    <3>2. recvSeq[e] = Len(got[e])
      BY <1>3, TunnelAssumption, EndFacts DEF Numbers
    <3> QED BY <1>3, <3>1, <3>2
  <2>2. refused'[e] = "key" => key["peer"] # key["relay"]
    BY <1>1, <1>4, <1>6, EndFacts
  <2> QED BY <1>1, <1>2, <1>4, <1>6, <2>1, <2>2 DEF RefusedForCause
<1> QED BY <1>8, <1>9, <1>10, <1>11, <1>12

-----------------------------------------------------------------------------
\* The handshake.

\* Until an end has sealed something there is nothing of it but a greeting.
LEMMA OnlyGreeting ==
  ASSUME TunnelInv, NEW e \in Ends, sealed[e] = 0
  PROVE  /\ Taken(Other(e)) = 0 /\ Len(wire[e]) = Lead(wire[e]) /\ InHand(e) = 0
         /\ \A k : InOrder(wire[e], 0, k)
<1>1. Other(e) \in Ends
  BY EndFacts
<1>2. Flow(e)
  BY EndFacts DEF TunnelInv
<1>3. wire[e] \in Seq(Frames) /\ got[Other(e)] \in Seq(1 .. MaxFrames)
  BY <1>1 DEF TunnelInv, TunnelTypeOK
<1>4. Len(wire[e]) \in Nat /\ Len(got[Other(e)]) \in Nat /\ wire[e] = <<>> => Len(wire[e]) = 0
  BY <1>3, LenProperties, EmptySeq
<1>5. Lead(wire[e]) \in {0, 1} /\ InHand(e) \in {0, 1}
  BY LeadFacts DEF InHand
<1>6. Taken(Other(e)) \in Nat
  BY <1>4 DEF Taken
<1>7. 0 + Lead(wire[e]) = Taken(Other(e)) + Len(wire[e]) + InHand(e)
  BY <1>2 DEF Flow
<1>8. Lead(wire[e]) = 1 => wire[e] # <<>>
  BY DEF Lead
<1>9. Lead(wire[e]) = 1 => Len(wire[e]) # 0
  BY <1>3, <1>8, EmptySeq
<1>10. Taken(Other(e)) = 0 /\ Len(wire[e]) = Lead(wire[e]) /\ InHand(e) = 0
  BY <1>4, <1>5, <1>6, <1>7, <1>9
<1>11. ASSUME NEW i \in 1 .. Len(wire[e]) PROVE i = 1 /\ wire[e][i].kind \in {"hello", "ack"}
  BY <1>4, <1>5, <1>10, <1>11 DEF Lead
<1>12. ASSUME NEW k PROVE InOrder(wire[e], 0, k)
  <2>1. ASSUME NEW i \in 1 .. Len(wire[e])
        PROVE  i = 1 /\ wire[e][i].kind # "torn" /\ wire[e][i].kind # "data"
    BY <1>11
  <2> QED BY <2>1 DEF InOrder
<1> QED BY <1>10, <1>12

LEMMA PeerAckStep == TunnelInv /\ PeerAck => TunnelInv'
<1> SUFFICES ASSUME TunnelInv, PeerAck PROVE TunnelInv'
  OBVIOUS
<1> USE DEF TunnelInv
<1> DEFINE k == <<secret["peer"], tunnels>>
           q == wire["peer"]
           r == wire["relay"]
<1>1. PICK f \in {Data(k, 1, "fits", 1), Torn} :
        /\ wire' = [wire EXCEPT !["relay"] = Tail(@), !["peer"] = Append(@, f)]
        /\ peer' = IF f = Torn THEN "down" ELSE "up"
  BY DEF PeerAck
<1>2. /\ peer = "hello" /\ r # <<>> /\ Head(r) = Ack /\ key' = [key EXCEPT !["peer"] = k]
      /\ recvSeq' = [recvSeq EXCEPT !["peer"] = 0] /\ sealed["peer"] < MaxFrames
      /\ sealed' = [sealed EXCEPT !["peer"] = @ + 1]
      /\ sendSeq' = [sendSeq EXCEPT !["peer"] = (@ + 1) % NumberMod]
      /\ UNCHANGED <<secret, rightPort, relay, closing, path, g_lock, held, got, refused, tunnels>>
  BY DEF PeerAck, SealNext, locks
<1>3. NumberMod \in Nat \ {0, 1} /\ MaxTunnels \in Nat /\ MaxFrames \in Nat
  BY TunnelAssumption
<1>4. sealed["peer"] = 0 /\ got["peer"] = <<>> /\ refused["peer"] = "no" /\ relay \notin {"none", "hello", "proved"}
  BY <1>2 DEF Phases
<1>5. /\ wire \in [Ends -> Seq(Frames)] /\ got \in [Ends -> Seq(1 .. MaxFrames)]
      /\ q \in Seq(Frames) /\ r \in Seq(Frames) /\ Len(q) \in Nat
  BY EndFacts, LenProperties DEF TunnelTypeOK
<1>6. /\ Taken("relay") = 0 /\ Len(q) = Lead(q) /\ InOrder(q, 0, k)
  BY <1>4, OnlyGreeting, EndFacts
<1>7. Taken("peer") = Len(got["peer"]) /\ Len(got["peer"]) \in Nat
  BY <1>4, <1>5, EndFacts, LenProperties DEF Taken
<1>8. Head(r) = r[1] /\ Lead(r) = 1
  BY <1>2, <1>5, HeadTailProperties, FrameMembers DEF Lead
<1>9. /\ Tail(r) \in Seq(Frames) /\ Len(Tail(r)) = Len(r) - 1 /\ Len(r) \in Nat \ {0}
      /\ Lead(Tail(r)) = 0 /\ InOrder(Tail(r), Len(got["peer"]), key["relay"])
      /\ Whole(r) => Whole(Tail(r))
  <2>1. InOrder(r, Len(got["peer"]), key["relay"])
    BY <1>7, EndFacts DEF Flow
  <2> QED BY <1>2, <1>5, <1>7, <1>8, <2>1, TakeHead
<1>10. k \in Keys /\ NoKey \notin Keys
  <2>1. secret["peer"] \in Passphrases /\ tunnels \in 1 .. MaxTunnels
    BY <1>2, EndFacts DEF TunnelTypeOK, Phases
  <2>2. NoKey \notin Keys
    BY DEF NoKey, Keys
  <2> QED BY <2>1, <2>2 DEF Keys
<1>11. /\ key' \in [Ends -> Keys \cup {NoKey}] /\ key'["peer"] = k /\ key'["relay"] = key["relay"]
       /\ sealed' \in [Ends -> 0 .. MaxFrames] /\ sealed'["peer"] = 1 /\ sealed'["relay"] = sealed["relay"]
       /\ recvSeq' \in [Ends -> 0 .. NumberMod - 1] /\ recvSeq'["peer"] = 0
       /\ recvSeq'["relay"] = recvSeq["relay"]
  <2>1. /\ key \in [Ends -> Keys \cup {NoKey}] /\ sealed \in [Ends -> 0 .. MaxFrames]
        /\ recvSeq \in [Ends -> 0 .. NumberMod - 1]
    BY DEF TunnelTypeOK
  <2> HIDE DEF TunnelInv, k
  <2>2. key' \in [Ends -> Keys \cup {NoKey}] /\ key'["peer"] = k /\ key'["relay"] = key["relay"]
    BY <1>2, <1>10, <2>1, EndFacts
  <2>3. /\ sealed' \in [Ends -> 0 .. MaxFrames] /\ sealed'["peer"] = 1
        /\ sealed'["relay"] = sealed["relay"]
    BY <1>2, <1>3, <1>4, <2>1, EndFacts
  <2>4. /\ recvSeq' \in [Ends -> 0 .. NumberMod - 1] /\ recvSeq'["peer"] = 0
        /\ recvSeq'["relay"] = recvSeq["relay"]
    BY <1>2, <1>3, <2>1, EndFacts
  <2> QED BY <2>2, <2>3, <2>4
<1>12. /\ sendSeq' \in [Ends -> 0 .. NumberMod - 1] /\ sendSeq'["relay"] = sendSeq["relay"]
       /\ 2 < NumberMod => sendSeq'["peer"] = 2
  <2>1. sendSeq \in [Ends -> 0 .. NumberMod - 1] /\ sendSeq["peer"] = 1
    BY <1>3, <1>4, EndFacts DEF TunnelTypeOK, Numbers
  <2>2. (1 + 1) % NumberMod \in 0 .. NumberMod - 1 /\ (2 < NumberMod => (1 + 1) % NumberMod = 2)
    BY <1>3, NumberRange
  <2> QED BY <1>2, <2>1, <2>2, EndFacts
<1>13. wire' \in [Ends -> Seq(Frames)] /\ wire'["relay"] = Tail(r) /\ wire'["peer"] = Append(q, f)
       /\ Len(Append(q, f)) = Len(q) + 1 /\ Lead(Append(q, f)) = Lead(q)
       /\ InOrder(Append(q, f), 0, k) /\ (f # Torn => Whole(Append(q, f)))
  <2>1. Whole(q)
    BY <1>2 DEF Writing
  <2>2. CASE f = Torn
    <3>1. /\ Append(q, f) \in Seq(Frames) /\ Len(Append(q, f)) = Len(q) + 1
          /\ Lead(Append(q, f)) = Lead(q) /\ InOrder(Append(q, f), 0, k)
      BY <1>5, <1>6, <2>1, <2>2, AppendTorn
    <3> QED BY <1>1, <1>5, <1>9, <2>2, <3>1, EndFacts
  <2>3. CASE f = Data(k, 1, "fits", 1)
    <3>1. 1 \in 0 .. NumberMod - 1 /\ "fits" \in Lengths /\ 1 \in 1 .. MaxFrames
      BY <1>2, <1>3, <1>4 DEF Lengths
    <3>2. f \in Sealed /\ f.key = k /\ f.seq = 1 /\ f.n = 1
      BY <1>10, <2>3, <3>1, DataIsSealed
    <3>3. Numbered(f, k) /\ f.n + Lead(q) = 0 + Len(q) + 1
      BY <1>5, <1>6, <3>2 DEF Numbered
    <3>4. /\ Append(q, f) \in Seq(Frames) /\ Len(Append(q, f)) = Len(q) + 1
          /\ Lead(Append(q, f)) = Lead(q) /\ InOrder(Append(q, f), 0, k) /\ Whole(Append(q, f))
      BY <1>5, <1>6, <2>1, <3>2, <3>3, AppendSealed
    <3> QED BY <1>1, <1>5, <1>9, <3>4, EndFacts
  <2> QED BY <1>1, <2>2, <2>3
<1>14. TunnelTypeOK'
  BY <1>1, <1>2, <1>11, <1>12, <1>13 DEF TunnelTypeOK
<1>15. Flow("peer")'
  BY <1>2, <1>5, <1>6, <1>11, <1>13, EndFacts DEF Flow, Taken, InHand
<1>16. Flow("relay")'
  <2>1. sealed["relay"] + 1 = Len(got["peer"]) + Len(r) + InHand("relay") /\ sealed["relay"] \in Nat
    <3>1. sealed["relay"] + Lead(r) = Taken("peer") + Len(r) + InHand("relay")
      BY EndFacts DEF Flow
    <3>2. sealed["relay"] \in Nat
      BY <1>3, EndFacts DEF TunnelTypeOK
    <3> QED BY <1>7, <1>8, <3>1, <3>2
  <2>2. InHand("relay")' = InHand("relay") /\ InHand("relay") \in {0, 1}
    BY <1>2 DEF InHand
  <2>3. sealed["relay"] + 0 = Len(got["peer"]) + Len(Tail(r)) + InHand("relay")
    <3> DEFINE m == Len(Tail(r))
               n == Len(r)
               g == Len(got["peer"])
               h == InHand("relay")
               x == sealed["relay"]
    <3>1. m = n - 1 /\ n \in Nat /\ g \in Nat /\ x \in Nat /\ h \in {0, 1}
      BY <1>7, <1>9, <2>1, <2>2
    <3>2. x + 1 = g + n + h
      BY <2>1
    <3> HIDE DEF m, n, g, h, x, TunnelInv
    <3>3. x + 0 = g + m + h
      BY <3>1, <3>2
    <3> QED BY <3>3 DEF m, n, g, h, x
  <2>4. Taken("peer")' = Len(got["peer"])
    BY <1>2, <1>7 DEF Taken
  <2> QED BY <1>9, <1>11, <1>13, <2>2, <2>3, <2>4, EndFacts DEF Flow
<1>17. Numbers("peer")' /\ Numbers("relay")'
  <2>1. Len(got["peer"]) = 0
    BY <1>4
  <2>2. Numbers("peer")'
    BY <1>2, <1>3, <1>11, <1>12, <2>1 DEF Numbers
  <2>3. Numbers("relay")'
    BY <1>2, <1>11, <1>12 DEF Numbers
  <2> QED BY <2>2, <2>3
<1>18. Writing'
  <2>1. peer' \in {"hello", "up"} => Whole(wire'["peer"])
    BY <1>1, <1>13
  <2> QED BY <1>2, <1>9, <1>11, <1>13, <2>1 DEF Writing
<1>19. Phases'
  BY <1>1, <1>2, <1>4, <1>9, <1>10, <1>11, <1>13 DEF Phases
<1>20. DeliveredInOrder'
  BY <1>2 DEF DeliveredInOrder
<1>21. RefusedForCause'
  <2>1. refused["relay"] = "no"
    BY <1>5, <1>6, EndFacts, LenProperties DEF Taken
  <2> QED BY <1>2, <1>4, <2>1 DEF RefusedForCause, Ends
<1> QED BY <1>14, <1>15, <1>16, <1>17, <1>18, <1>19, <1>20, <1>21

LEMMA RelayHelloStep == TunnelInv /\ RelayHello => TunnelInv'
<1> SUFFICES ASSUME TunnelInv, RelayHello PROVE TunnelInv'
  OBVIOUS
<1> USE DEF TunnelInv
<1> DEFINE q == wire["peer"]
<1>1. /\ relay = "hello" /\ q # <<>> /\ relay' \in {"proved", "closed"}
      /\ wire' = [wire EXCEPT !["peer"] = Tail(@)]
      /\ UNCHANGED <<secret, rightPort, peer, path, tunnels, closing, key, sendSeq, recvSeq,
                     g_lock, held, sealed, got, refused>>
  BY DEF RelayHello, RelayKeeps, counters, locks, history
<1>2. sealed["peer"] = 0 /\ sealed["relay"] = 0 /\ wire["relay"] = <<>> /\ peer # "up"
  BY <1>1 DEF Phases
<1>3. Taken("relay") = 0 /\ Len(q) = Lead(q) /\ InOrder(q, 0, key["peer"]) /\ InHand("peer") = 0
  BY <1>2, OnlyGreeting, EndFacts
<1>4. wire \in [Ends -> Seq(Frames)] /\ q \in Seq(Frames) /\ Len(q) \in Nat \ {0}
  BY <1>1, EndFacts, EmptySeq, LenProperties DEF TunnelTypeOK
<1>5. Lead(q) = 1
  BY <1>3, <1>4, LeadFacts
<1>6. /\ Tail(q) \in Seq(Frames) /\ Len(Tail(q)) = 0 /\ Lead(Tail(q)) = 0
      /\ InOrder(Tail(q), 0, key["peer"]) /\ (Whole(q) => Whole(Tail(q)))
  BY <1>1, <1>3, <1>4, <1>5, TakeHead
<1>7. /\ wire'["peer"] = Tail(q) /\ wire'["relay"] = wire["relay"] /\ wire' \in [Ends -> Seq(Frames)]
  BY <1>1, <1>4, <1>6, EndFacts
<1>8. TunnelTypeOK'
  BY <1>1, <1>7 DEF TunnelTypeOK
<1>9. Flow("peer")'
  BY <1>1, <1>2, <1>3, <1>6, <1>7, EndFacts DEF Flow, Taken, InHand
<1>10. Flow("relay")'
  BY <1>1, <1>7, EndFacts DEF Flow, Taken, InHand
<1>11. Numbers("peer")' /\ Numbers("relay")'
  BY <1>1 DEF Numbers
<1>12. Writing'
  BY <1>1, <1>6, <1>7 DEF Writing
<1>13. Phases'
  BY <1>1, <1>2, <1>6, <1>7 DEF Phases
<1>14. DeliveredInOrder' /\ RefusedForCause'
  BY <1>1 DEF DeliveredInOrder, RefusedForCause
<1> QED BY <1>8, <1>9, <1>10, <1>11, <1>12, <1>13, <1>14

LEMMA RelayDeriveStep == TunnelInv /\ RelayDerive => TunnelInv'
<1> SUFFICES ASSUME TunnelInv, RelayDerive PROVE TunnelInv'
  OBVIOUS
<1> USE DEF TunnelInv
<1> DEFINE k == <<secret["relay"], tunnels>>
<1>1. /\ relay = "proved" /\ key' = [key EXCEPT !["relay"] = k]
      /\ sendSeq' = [sendSeq EXCEPT !["relay"] = 1] /\ recvSeq' = [recvSeq EXCEPT !["relay"] = 0]
      /\ UNCHANGED <<secret, rightPort, peer, path, tunnels, closing, g_lock, held, sealed, got, refused>>
  BY DEF RelayDerive, Derive, RelayKeeps, locks, history
<1>2. \/ relay' = "up" /\ wire' = [wire EXCEPT !["relay"] = Append(@, Ack)]
      \/ relay' = "closed" /\ wire' = wire
  BY DEF RelayDerive, Put
<1>3. NumberMod \in Nat \ {0, 1}
  BY TunnelAssumption
<1>4. /\ wire["relay"] = <<>> /\ sealed["relay"] = 0 /\ sealed["peer"] = 0 /\ peer # "up"
      /\ Lead(wire["peer"]) = 0 /\ tunnels # 0 /\ g_lock = "free"
      /\ refused["relay"] = "no"
  BY <1>1 DEF Phases, Writing
<1>5. k \in Keys
  <2>1. secret["relay"] \in Passphrases /\ tunnels \in 1 .. MaxTunnels
    BY <1>4, EndFacts, TunnelAssumption DEF TunnelTypeOK
  <2> QED BY <2>1 DEF Keys
<1>6. /\ key' \in [Ends -> Keys \cup {NoKey}] /\ key'["relay"] = k /\ key'["peer"] = key["peer"]
      /\ sendSeq' \in [Ends -> 0 .. NumberMod - 1] /\ sendSeq'["relay"] = 1
      /\ sendSeq'["peer"] = sendSeq["peer"]
      /\ recvSeq' \in [Ends -> 0 .. NumberMod - 1] /\ recvSeq'["relay"] = 0
      /\ recvSeq'["peer"] = recvSeq["peer"]
  BY <1>1, <1>3, <1>5, EndFacts DEF TunnelTypeOK
<1>7. Taken("relay") = 0 /\ Taken("peer") = 0 /\ InHand("relay") = 0
  BY <1>4, OnlyGreeting, EndFacts
<1>8. PICK q \in {<<>>, <<Ack>>} :
        /\ wire'["relay"] = q /\ wire'["peer"] = wire["peer"] /\ wire' \in [Ends -> Seq(Frames)]
        /\ relay' \in {"up", "closed"}
  <2>1. wire \in [Ends -> Seq(Frames)] /\ Append(<<>>, Ack) = <<Ack>> /\ <<Ack>> \in Seq(Frames)
    BY FrameMembers DEF TunnelTypeOK
  <2> QED BY <1>2, <1>4, <2>1, EndFacts
<1>9. InOrder(q, 0, k) /\ Whole(q) /\ Len(q) = Lead(q)
  <2>1. CASE q = <<>>
    BY <2>1, EmptyQueue, LeadFacts
  <2>2. CASE q = <<Ack>>
    BY <2>2, OneGreeting, FrameMembers
  <2> QED BY <2>1, <2>2
<1>10. TunnelTypeOK'
  BY <1>1, <1>6, <1>8 DEF TunnelTypeOK
<1>11. Flow("peer")'
  BY <1>1, <1>6, <1>8, EndFacts DEF Flow, Taken, InHand
<1>12. Flow("relay")'
  <2>1. Taken("peer")' = 0 /\ InHand("relay")' = 0
    BY <1>1, <1>7 DEF Taken, InHand
  <2>2. sealed'["relay"] = 0
    BY <1>1, <1>4
  <2>3. Lead(q) \in {0, 1}
    BY LeadFacts
  <2> QED BY <1>6, <1>8, <1>9, <2>1, <2>2, <2>3, EndFacts DEF Flow
<1>13. Numbers("peer")'
  BY <1>1, <1>6 DEF Numbers
<1>14. Numbers("relay")'
  <2>1. got["relay"] \in Seq(1 .. MaxFrames)
    BY EndFacts DEF TunnelTypeOK
  <2>2. Len(got["relay"]) = 0
    BY <1>4, <1>7, <2>1, LenProperties DEF Taken
  <2> DEFINE n == Len(got'["relay"])
  <2>3. n = 0 /\ sealed'["relay"] = 0
    BY <1>1, <1>4, <2>2
  <2>4. recvSeq'["relay"] = 0 /\ sendSeq'["relay"] = 1
    BY <1>6
  <2> HIDE DEF n
  <2>5. n < NumberMod => recvSeq'["relay"] = n
    BY <2>3, <2>4
  <2>6. sealed'["relay"] + 1 < NumberMod => sendSeq'["relay"] = sealed'["relay"] + 1
    BY <2>3, <2>4
  <2> QED BY <2>5, <2>6, Zenon DEF Numbers, n
<1>15. Writing'
  <2>1. \A w \in Writers : held'[w] = Torn /\ g_lock' # w
    BY <1>1, <1>4, TunnelAssumption DEF Writing
  <2>2. (peer' \in {"hello", "up"} => Whole(wire'["peer"])) /\ Whole(wire'["relay"])
    BY <1>1, <1>8, <1>9 DEF Writing
  <2>3. g_lock' = "free"
    BY <1>1, <1>4
  <2> QED BY <2>1, <2>2, <2>3 DEF Writing
<1>16. Phases'
  BY <1>1, <1>4, <1>5, <1>6, <1>8 DEF Phases
<1>17. DeliveredInOrder'
  BY <1>1 DEF DeliveredInOrder
<1>18. RefusedForCause'
  <2>1. refused["peer"] = "no"
    <3>1. got["peer"] \in Seq(1 .. MaxFrames)
      BY EndFacts DEF TunnelTypeOK
    <3> QED BY <1>7, <3>1, LenProperties DEF Taken
  <2> QED BY <1>1, <1>4, <2>1 DEF RefusedForCause, Ends
<1> QED BY <1>10, <1>11, <1>12, <1>13, <1>14, <1>15, <1>16, <1>17, <1>18

-----------------------------------------------------------------------------
\* Writing.

\* A frame takes the next number, whatever becomes of it.
LEMMA SealCounts ==
  ASSUME TunnelInv, NEW e \in Ends, SealNext(e)
  PROVE  /\ sealed' \in [Ends -> 0 .. MaxFrames] /\ sealed'[e] = sealed[e] + 1
         /\ sealed'[Other(e)] = sealed[Other(e)]
         /\ sendSeq' \in [Ends -> 0 .. NumberMod - 1] /\ sendSeq'[Other(e)] = sendSeq[Other(e)]
         /\ sealed'[e] + 1 < NumberMod => sendSeq'[e] = sealed'[e] + 1
         /\ sealed[e] \in Nat /\ sealed[e] + 1 \in 1 .. MaxFrames
<1> USE DEF TunnelInv
<1>1. NumberMod \in Nat \ {0, 1} /\ MaxFrames \in Nat
  BY TunnelAssumption
<1>2. /\ sealed[e] < MaxFrames /\ sealed' = [sealed EXCEPT ![e] = @ + 1]
      /\ sendSeq' = [sendSeq EXCEPT ![e] = (@ + 1) % NumberMod]
  BY DEF SealNext
<1>3. sealed \in [Ends -> 0 .. MaxFrames] /\ sendSeq \in [Ends -> 0 .. NumberMod - 1]
  BY DEF TunnelTypeOK
<1>4. Other(e) \in Ends /\ Other(e) # e
  BY EndFacts
<1>5. /\ sealed' \in [Ends -> 0 .. MaxFrames] /\ sealed'[e] = sealed[e] + 1
      /\ sealed'[Other(e)] = sealed[Other(e)] /\ sealed[e] \in Nat /\ sealed[e] + 1 \in 1 .. MaxFrames
  BY <1>1, <1>2, <1>3, <1>4
<1> DEFINE s == (sendSeq[e] + 1) % NumberMod
<1>6. s \in 0 .. NumberMod - 1 /\ (sendSeq[e] + 1 < NumberMod => s = sendSeq[e] + 1)
  BY <1>1, <1>3, NumberRange
<1>7. /\ sendSeq' \in [Ends -> 0 .. NumberMod - 1] /\ sendSeq'[Other(e)] = sendSeq[Other(e)]
      /\ sendSeq'[e] = s
  BY <1>2, <1>3, <1>4, <1>6
<1>8. sealed[e] + 1 < NumberMod => sendSeq[e] = sealed[e] + 1
  BY EndFacts DEF Numbers
<1>9. sealed'[e] + 1 < NumberMod => sendSeq'[e] = sealed'[e] + 1
  BY <1>1, <1>5, <1>6, <1>7, <1>8
<1> QED BY <1>5, <1>7, <1>9

\* What is sealed is the next frame, with its own number.
LEMMA SealingFacts ==
  ASSUME TunnelInv, NEW e \in Ends, SealNext(e), key[e] \in Keys, NEW len \in Lengths
  PROVE  /\ Sealing(e, len) \in Sealed /\ Sealing(e, len).n = sealed[e] + 1
         /\ Numbered(Sealing(e, len), key[e])
<1>1. sealed[e] \in Nat /\ sealed[e] + 1 \in 1 .. MaxFrames /\ NumberMod \in Nat
  BY SealCounts, TunnelAssumption
<1>2. sendSeq[e] \in 0 .. NumberMod - 1
  BY DEF TunnelInv, TunnelTypeOK
<1>3. /\ Sealing(e, len) \in Sealed /\ Sealing(e, len).n = sealed[e] + 1
      /\ Sealing(e, len).key = key[e] /\ Sealing(e, len).seq = sendSeq[e]
  BY <1>1, <1>2, DataIsSealed DEF Sealing
<1>4. sealed[e] + 1 < NumberMod => sendSeq[e] = sealed[e] + 1
  BY EndFacts DEF TunnelInv, Numbers
<1> QED BY <1>3, <1>4 DEF Numbered

LEMMA PeerSendStep == ASSUME TunnelInv, NEW len \in Lengths, PeerSend(len) PROVE TunnelInv'
<1> USE DEF TunnelInv
<1> DEFINE q == wire["peer"]
<1>1. /\ peer = "up" /\ UNCHANGED <<secret, rightPort, relay, closing, key, recvSeq, path, g_lock, held,
                                   got, refused, tunnels>>
  BY DEF PeerSend, locks
<1>2. CASE len = "over" /\ peer' = "down" /\ UNCHANGED <<wire, sendSeq, sealed>>
  BY <1>1, <1>2, QuietStep DEF counters, locks, history, TunnelTypeOK
<1>3. ASSUME SealNext("peer"), len # "over",
             NEW f \in {Sealing("peer", len), Torn}, wire' = [wire EXCEPT !["peer"] = Append(@, f)],
             (f = Torn /\ peer' = "down") \/ (f = Sealing("peer", len) /\ peer' = "up")
      PROVE  TunnelInv'
  <2>1. /\ sealed' \in [Ends -> 0 .. MaxFrames] /\ sealed'["peer"] = sealed["peer"] + 1
        /\ sealed'["relay"] = sealed["relay"] /\ sealed["peer"] \in Nat
        /\ sendSeq' \in [Ends -> 0 .. NumberMod - 1] /\ sendSeq'["relay"] = sendSeq["relay"]
        /\ sealed'["peer"] + 1 < NumberMod => sendSeq'["peer"] = sealed'["peer"] + 1
    BY <1>3, SealCounts, EndFacts
  <2>2. /\ key["peer"] \in Keys /\ Whole(q) /\ relay \notin {"none", "hello", "proved"}
        /\ refused["peer"] = "no"
    BY <1>1 DEF Phases, Writing
  <2>3. /\ Sealing("peer", len) \in Sealed /\ Sealing("peer", len).n = sealed["peer"] + 1
        /\ Numbered(Sealing("peer", len), key["peer"])
    BY <1>3, <2>2, SealingFacts, EndFacts
  <2>4. Flow("peer") /\ Flow("relay")
    OBVIOUS
  <2>5. wire \in [Ends -> Seq(Frames)] /\ q \in Seq(Frames) /\ Len(q) \in Nat
    BY EndFacts, LenProperties DEF TunnelTypeOK
  <2>6. Taken("relay") \in Nat
    <3>1. Len(got["relay"]) \in Nat
      BY EndFacts, LenProperties DEF TunnelTypeOK
    <3> QED BY <3>1 DEF Taken
  <2>7. sealed["peer"] + Lead(q) = Taken("relay") + Len(q) /\ InOrder(q, Taken("relay"), key["peer"])
    BY <2>4, <2>5, <2>6, EndFacts DEF Flow, InHand
  <2>8. /\ Append(q, f) \in Seq(Frames) /\ Len(Append(q, f)) = Len(q) + 1
        /\ Lead(Append(q, f)) = Lead(q) /\ InOrder(Append(q, f), Taken("relay"), key["peer"])
        /\ f # Torn => Whole(Append(q, f))
    <3>1. CASE f = Torn
      <4>1. /\ Append(q, f) \in Seq(Frames) /\ Len(Append(q, f)) = Len(q) + 1
            /\ Lead(Append(q, f)) = Lead(q) /\ InOrder(Append(q, f), Taken("relay"), key["peer"])
        BY <2>2, <2>5, <2>6, <2>7, <3>1, AppendTorn
      <4> QED BY <3>1, <4>1
    <3>2. CASE f = Sealing("peer", len)
      <4>1. f.n + Lead(q) = Taken("relay") + Len(q) + 1
        BY <2>1, <2>3, <2>5, <2>6, <2>7, <3>2, LeadFacts
      <4> QED BY <2>2, <2>3, <2>5, <2>6, <2>7, <3>2, <4>1, AppendSealed
    <3> QED BY <1>3, <3>1, <3>2
  <2>9. /\ wire' \in [Ends -> Seq(Frames)] /\ wire'["peer"] = Append(q, f)
        /\ wire'["relay"] = wire["relay"]
    BY <1>3, <2>5, <2>8, EndFacts
  <2>10. TunnelTypeOK'
    BY <1>1, <1>3, <2>1, <2>9 DEF TunnelTypeOK
  <2>11. Flow("peer")'
    <3>1. Taken("relay")' = Taken("relay") /\ InHand("peer")' = 0
      BY <1>1 DEF Taken, InHand
    <3>2. sealed'["peer"] + Lead(q) = Taken("relay") + Len(Append(q, f))
      BY <2>1, <2>5, <2>6, <2>7, <2>8, LeadFacts
    <3>3. Taken("relay") + Len(Append(q, f)) = Taken("relay") + Len(Append(q, f)) + 0
      BY <2>5, <2>6, <2>8
    <3> QED BY <1>1, <2>8, <2>9, <3>1, <3>2, <3>3, EndFacts DEF Flow
  <2>12. Flow("relay")'
    BY <1>1, <2>1, <2>4, <2>9, EndFacts DEF Flow, Taken, InHand
  <2>13. Numbers("peer")' /\ Numbers("relay")'
    BY <1>1, <2>1 DEF Numbers
  <2>14. Writing'
    <3>1. peer' \in {"hello", "up"} => Whole(wire'["peer"])
      BY <1>3, <2>3, <2>8, <2>9, FrameMembers
    <3>2. UNCHANGED <<closing, g_lock, held, relay>> /\ key'["relay"] = key["relay"]
      BY <1>1
    <3> QED BY <2>1, <2>9, <3>1, <3>2 DEF Writing
  <2>15. Phases'
    BY <1>1, <1>3, <2>2, <2>8, <2>9 DEF Phases
  <2>16. DeliveredInOrder'
    BY <1>1 DEF DeliveredInOrder
  <2>17. RefusedForCause'
    <3>1. \A e \in Ends : sealed[e] >= NumberMod => sealed'[e] >= NumberMod
      BY <2>1, TunnelAssumption DEF Ends
    <3> QED BY <1>1, <3>1, EndFacts DEF RefusedForCause
  <2> QED BY <2>10, <2>11, <2>12, <2>13, <2>14, <2>15, <2>16, <2>17
<1>4. \/ len = "over" /\ peer' = "down" /\ UNCHANGED <<wire, sendSeq, sealed>>
      \/ /\ len # "over" /\ SealNext("peer")
         /\ \/ Put("peer", Sealing("peer", len)) /\ peer' = peer
            \/ Put("peer", Torn) /\ peer' = "down"
  BY DEF PeerSend
<1>5. CASE /\ len # "over" /\ SealNext("peer")
           /\ \/ Put("peer", Sealing("peer", len)) /\ peer' = peer
              \/ Put("peer", Torn) /\ peer' = "down"
  <2>1. PICK f \in {Sealing("peer", len), Torn} :
          /\ wire' = [wire EXCEPT !["peer"] = Append(@, f)]
          /\ (f = Torn /\ peer' = "down") \/ (f = Sealing("peer", len) /\ peer' = "up")
    BY <1>1, <1>5 DEF Put
  <2> HIDE DEF TunnelInv
  <2> QED BY <1>3, <1>5, <2>1
<1> HIDE DEF TunnelInv
<1> QED BY <1>2, <1>4, <1>5

LEMMA SealStep == ASSUME TunnelInv, NEW w \in Writers, Seal(w) PROVE TunnelInv'
<1> USE DEF TunnelInv
<1> DEFINE f == Sealing("relay", "fits")
<1>1. /\ relay \in {"up", "leaving"} /\ ~closing /\ g_lock = "free" /\ g_lock' = w
      /\ SealNext("relay") /\ held' = [held EXCEPT ![w] = f]
      /\ UNCHANGED <<secret, rightPort, peer, relay, closing, path, tunnels, key, recvSeq, wire, got, refused>>
  BY DEF Seal, Registered, RelayKeeps
<1>2. /\ sealed' \in [Ends -> 0 .. MaxFrames] /\ sealed'["relay"] = sealed["relay"] + 1
      /\ sealed'["peer"] = sealed["peer"] /\ sealed["relay"] \in Nat
      /\ sendSeq' \in [Ends -> 0 .. NumberMod - 1] /\ sendSeq'["peer"] = sendSeq["peer"]
      /\ sealed'["relay"] + 1 < NumberMod => sendSeq'["relay"] = sealed'["relay"] + 1
  BY <1>1, SealCounts, EndFacts
<1>3. key["relay"] \in Keys /\ Whole(wire["relay"])
  BY <1>1 DEF Phases, Writing
<1>4. f \in Sealed /\ f.n = sealed["relay"] + 1 /\ Numbered(f, key["relay"]) /\ f # Torn
  <2>1. "fits" \in Lengths
    BY DEF Lengths
  <2> QED BY <1>1, <1>3, <2>1, SealingFacts, SealedFacts, EndFacts
<1>5. /\ held \in [Writers -> Sealed \cup {Torn}] /\ held' \in [Writers -> Sealed \cup {Torn}]
      /\ held'[w] = f /\ \A v \in Writers \ {w} : held'[v] = held[v] /\ held[v] = Torn
  BY <1>1, <1>4, TunnelAssumption DEF TunnelTypeOK, Writing
<1>6. TunnelTypeOK'
  BY <1>1, <1>2, <1>5 DEF TunnelTypeOK
<1>7. w # "free"
  BY TunnelAssumption
<1>8. Flow("relay")'
  <2>1. /\ sealed["relay"] + Lead(wire["relay"]) = Taken("peer") + Len(wire["relay"]) + 0
        /\ InOrder(wire["relay"], Taken("peer"), key["relay"])
    BY <1>1, EndFacts DEF Flow, InHand
  <2>2. Len(wire["relay"]) \in Nat /\ Len(got["peer"]) \in Nat
    BY EndFacts, LenProperties DEF TunnelTypeOK
  <2>3. InHand("relay")' = 1 /\ Taken("peer")' = Taken("peer")
    BY <1>1, <1>7 DEF InHand, Taken
  <2>4. Taken("peer") \in Nat /\ Lead(wire["relay"]) \in {0, 1}
    BY <2>2, LeadFacts DEF Taken
  <2>5. sealed'["relay"] + Lead(wire["relay"]) = Taken("peer") + Len(wire["relay"]) + 1
    BY <1>2, <2>1, <2>2, <2>4
  <2> QED BY <1>1, <2>1, <2>3, <2>5, EndFacts DEF Flow
<1>9. Flow("peer")'
  BY <1>1, <1>2, EndFacts DEF Flow, Taken, InHand
<1>10. Numbers("peer")' /\ Numbers("relay")'
  BY <1>1, <1>2 DEF Numbers
<1>11. Writing'
  <2>1. \A v \in Writers : held'[v] # Torn <=> g_lock' = v
    BY <1>1, <1>4, <1>5
  <2>2. \A v \in Writers : held'[v] # Torn =>
           held'[v].n = sealed'["relay"] /\ Numbered(held'[v], key'["relay"])
    BY <1>1, <1>2, <1>4, <1>5
  <2> QED BY <1>1, <1>3, <2>1, <2>2 DEF Writing
<1>12. Phases'
  BY <1>1, <1>2 DEF Phases
<1>13. DeliveredInOrder'
  BY <1>1 DEF DeliveredInOrder
<1>14. RefusedForCause'
  <2>1. \A e \in Ends : sealed[e] >= NumberMod => sealed'[e] >= NumberMod
    BY <1>2, TunnelAssumption DEF Ends
  <2> QED BY <1>1, <2>1, EndFacts DEF RefusedForCause
<1> QED BY <1>6, <1>8, <1>9, <1>10, <1>11, <1>12, <1>13, <1>14

LEMMA WriteStep == ASSUME TunnelInv, NEW w \in Writers, Write(w) PROVE TunnelInv'
<1> USE DEF TunnelInv
<1> DEFINE q == wire["relay"]
           t == Taken("peer")
<1>1. /\ held[w] # Torn /\ held' = [held EXCEPT ![w] = Torn] /\ g_lock' = "free"
      /\ UNCHANGED <<secret, rightPort, peer, relay, path, tunnels, key, sendSeq, recvSeq,
                     sealed, got, refused>>
  BY DEF Write, RelayKeeps, counters, history
<1>2. PICK f \in {held[w], Torn} :
        /\ wire' = [wire EXCEPT !["relay"] = Append(@, f)]
        /\ \/ f = held[w] /\ closing' = closing
           \/ f = Torn /\ closing' = TRUE
  BY DEF Write, Put
<1>3. /\ g_lock = w /\ w # "free" /\ Whole(q) /\ held[w].n = sealed["relay"]
      /\ Numbered(held[w], key["relay"]) /\ relay \in {"up", "leaving"}
  BY <1>1, TunnelAssumption DEF Writing
<1>4. held \in [Writers -> Sealed \cup {Torn}] /\ held[w] \in Sealed
  BY <1>1 DEF TunnelTypeOK
<1>5. wire \in [Ends -> Seq(Frames)] /\ q \in Seq(Frames) /\ Len(q) \in Nat /\ t \in Nat
  <2>1. Len(got["peer"]) \in Nat
    BY EndFacts, LenProperties DEF TunnelTypeOK
  <2> QED BY <2>1, EndFacts, LenProperties DEF TunnelTypeOK, Taken
<1>6. sealed["relay"] + Lead(q) = t + Len(q) + 1 /\ InOrder(q, t, key["relay"])
  BY <1>3, EndFacts DEF Flow, InHand
<1>7. /\ Append(q, f) \in Seq(Frames) /\ Len(Append(q, f)) = Len(q) + 1
      /\ Lead(Append(q, f)) = Lead(q) /\ InOrder(Append(q, f), t, key["relay"])
      /\ f # Torn => Whole(Append(q, f))
  <2>1. CASE f = Torn
    <3>1. /\ Append(q, f) \in Seq(Frames) /\ Len(Append(q, f)) = Len(q) + 1
          /\ Lead(Append(q, f)) = Lead(q) /\ InOrder(Append(q, f), t, key["relay"])
      BY <1>3, <1>5, <1>6, <2>1, AppendTorn
    <3> QED BY <2>1, <3>1
  <2>2. CASE f = held[w]
    BY <1>3, <1>4, <1>5, <1>6, <2>2, AppendSealed
  <2> QED BY <1>2, <2>1, <2>2
<1>8. /\ wire' \in [Ends -> Seq(Frames)] /\ wire'["relay"] = Append(q, f)
      /\ wire'["peer"] = wire["peer"]
  BY <1>2, <1>5, <1>7, EndFacts
<1>9. TunnelTypeOK'
  <2>1. held' \in [Writers -> Sealed \cup {Torn}] /\ closing' \in BOOLEAN
    BY <1>1, <1>2, <1>4 DEF TunnelTypeOK
  <2> QED BY <1>1, <1>8, <2>1 DEF TunnelTypeOK
<1>10. Flow("relay")'
  <2>1. Taken("peer")' = t /\ InHand("relay")' = 0
    BY <1>1 DEF Taken, InHand
  <2>2. sealed["relay"] + Lead(q) = t + Len(Append(q, f)) + 0
    BY <1>5, <1>6, <1>7
  <2> QED BY <1>1, <1>7, <1>8, <2>1, <2>2, EndFacts DEF Flow
<1>11. Flow("peer")'
  BY <1>1, <1>8, EndFacts DEF Flow, Taken, InHand
<1>12. Numbers("peer")' /\ Numbers("relay")'
  BY <1>1 DEF Numbers
<1>13. Writing'
  <2>1. \A v \in Writers : held'[v] = Torn
    BY <1>1, <1>3, <1>4 DEF Writing
  <2>2. ~closing' => Whole(wire'["relay"])
    BY <1>1, <1>2, <1>7, <1>8
  <2> QED BY <1>1, <1>8, <2>1, <2>2, TunnelAssumption DEF Writing
<1>14. Phases'
  BY <1>1, <1>3, <1>7, <1>8 DEF Phases
<1>15. DeliveredInOrder' /\ RefusedForCause'
  BY <1>1 DEF DeliveredInOrder, RefusedForCause
<1> QED BY <1>9, <1>10, <1>11, <1>12, <1>13, <1>14, <1>15

-----------------------------------------------------------------------------
LEMMA StepTunnel == TunnelInv /\ [TunnelNext]_tunnelVars => TunnelInv'
<1> SUFFICES ASSUME TunnelInv, [TunnelNext]_tunnelVars PROVE TunnelInv'
  OBVIOUS
<1>0. /\ peer \in {"off", "hello", "up", "down"} /\ path \in BOOLEAN
      /\ relay \in {"none", "hello", "proved", "up", "leaving", "closed"}
      /\ secret \in [Ends -> Passphrases]
  BY DEF TunnelInv, TunnelTypeOK
<1>1. CASE UNCHANGED tunnelVars
  <2>1. /\ UNCHANGED <<counters, wire, locks, history, tunnels, closing, rightPort>>
        /\ peer' = peer /\ path' = path /\ secret' = secret /\ relay' = relay
    BY <1>1 DEF tunnelVars, ends
  <2>2. path' \in BOOLEAN
    BY <1>0, <2>1
  <2>3. peer' \in {"off", "hello", "up", "down"} /\ secret' \in [Ends -> Passphrases]
        /\ relay' \in {"none", "hello", "proved", "up", "leaving", "closed"}
    BY <1>0, <2>1
  <2> QED BY <2>1, <2>2, <2>3, QuietStep, Zenon
<1>2. CASE Vanish
  <2>1. /\ UNCHANGED <<counters, wire, locks, history, tunnels, closing, rightPort>>
        /\ peer' = peer /\ path' = FALSE /\ secret' = secret /\ relay' = relay
    BY <1>2 DEF Vanish, ends
  <2>2. path' \in BOOLEAN
    BY <2>1
  <2>3. peer' \in {"off", "hello", "up", "down"} /\ secret' \in [Ends -> Passphrases]
        /\ relay' \in {"none", "hello", "proved", "up", "leaving", "closed"}
    BY <1>0, <2>1
  <2> QED BY <2>1, <2>2, <2>3, QuietStep, Zenon
<1>3. ASSUME NEW p \in Passphrases, Rekey(p) PROVE TunnelInv'
  <2>1. /\ UNCHANGED <<counters, wire, locks, history, tunnels, closing, rightPort>>
        /\ peer' = peer /\ path' = path /\ relay' = relay
    BY <1>3 DEF Rekey, ends
  <2>2. secret' \in [Ends -> Passphrases]
    BY <1>0, <1>3 DEF Rekey
  <2>3. path' \in BOOLEAN
    BY <1>0, <2>1
  <2>4. peer' \in {"off", "hello", "up", "down"}
        /\ relay' \in {"none", "hello", "proved", "up", "leaving", "closed"}
    BY <1>0, <2>1
  <2> QED BY <2>1, <2>2, <2>3, <2>4, QuietStep, Zenon
<1>4. CASE PeerEnds \/ PeerClose
  <2>1. /\ UNCHANGED <<counters, wire, locks, history, tunnels, closing, rightPort>>
        /\ path' = path /\ secret' = secret /\ relay' = relay
    BY <1>4 DEF PeerEnds, PeerClose
  <2>5. peer' = "off" \/ (peer # "off" /\ peer' = "down")
    BY <1>4 DEF PeerEnds, PeerClose
  <2>2. peer' \in {"off", "hello", "up", "down"}
    BY <2>5
  <2>3. path' \in BOOLEAN
    BY <1>0, <2>1
  <2>4. secret' \in [Ends -> Passphrases]
        /\ relay' \in {"none", "hello", "proved", "up", "leaving", "closed"}
    BY <1>0, <2>1
  <2> QED BY <2>1, <2>2, <2>3, <2>4, <2>5, QuietStep, Zenon
<1>5. CASE HelloTimesOut \/ RelayEnds \/ RelayLeave
  <2>1. relay = "hello" => g_lock = "free"
    BY DEF TunnelInv, Writing
  <2>2. /\ UNCHANGED <<counters, wire, locks, history, tunnels, closing, rightPort>>
        /\ path' = path /\ secret' = secret /\ peer' = peer
    BY <1>5 DEF HelloTimesOut, RelayEnds, RelayLeave, RelayKeeps
  <2>3. \/ relay # "none" /\ relay' = "closed" /\ g_lock = "free"
        \/ relay = "up" /\ relay' = "leaving"
    BY <1>5, <2>1 DEF HelloTimesOut, RelayEnds, RelayLeave
  <2>4. relay' \in {"none", "hello", "proved", "up", "leaving", "closed"}
    BY <2>3
  <2>5. path' \in BOOLEAN
    BY <1>0, <2>2
  <2>6. secret' \in [Ends -> Passphrases] /\ peer' \in {"off", "hello", "up", "down"}
    BY <1>0, <2>2
  <2> QED BY <2>2, <2>3, <2>4, <2>5, <2>6, QuietStep, Zenon
<1>6. CASE PeerRead
  <2>1. peer = "up" /\ Lead(wire[Other("peer")]) = 0 /\ refused["peer"] = "no"
    BY <1>6, EndFacts DEF PeerRead, TunnelInv, Phases
  <2>2. UNCHANGED <<secret, rightPort, relay, closing, path, locks, tunnels>>
    BY <1>6 DEF PeerRead
  <2>3. CASE Opens("peer") /\ peer' = peer
    BY <2>1, <2>2, <2>3, OpensStep, EndFacts
  <2>4. CASE Refuses("peer") /\ peer' = "down"
    BY <2>1, <2>2, <2>4, RefusesStep, EndFacts
  <2> QED BY <1>6, <2>3, <2>4 DEF PeerRead
<1>7. CASE RelayRead
  <2>1. relay = "up" /\ Lead(wire[Other("relay")]) = 0 /\ refused["relay"] = "no"
    BY <1>7, EndFacts DEF RelayRead, TunnelInv, Phases
  <2>2. UNCHANGED <<secret, rightPort, peer, closing, path, locks, tunnels>>
    BY <1>7 DEF RelayRead, RelayKeeps
  <2>3. CASE Opens("relay") /\ relay' \in {"up", "leaving"}
    BY <2>1, <2>2, <2>3, OpensStep, EndFacts
  <2>4. CASE Refuses("relay") /\ relay' = "leaving"
    BY <2>1, <2>2, <2>4, RefusesStep, EndFacts
  <2> QED BY <1>7, <2>3, <2>4 DEF RelayRead
<1> QED
  BY <1>1, <1>2, <1>3, <1>4, <1>5, <1>6, <1>7, DialStep, PeerAckStep, PeerSendStep, RelayHelloStep,
     RelayDeriveStep, SealStep, WriteStep DEF TunnelNext, Peer, Relay

LEMMA TunnelIsSound == TunnelSpec => []TunnelInv
BY InitTunnel, StepTunnel, PTL DEF TunnelSpec

\* The state of the tunnel keeps within its types, whatever is sealed, torn, refused or
\* dialled anew (relay_handshake, do_handshake, deliver_raw).
THEOREM TunnelTypes == TunnelSpec => []TunnelTypeOK
<1>1. TunnelInv => TunnelTypeOK
  BY DEF TunnelInv
<1> QED BY <1>1, TunnelIsSound, PTL

\* What an end opens is what the other sealed, in that order and with nothing left out
\* in between, for any number of writing threads and any width of the numbers: the lock
\* held from the sealing to the write, the flag of a torn write and the two counters are
\* enough for it (deliver, dsh_wire_seal, dsh_wire_open).
THEOREM TunnelKeepsOrder == TunnelSpec => []DeliveredInOrder
<1>1. TunnelInv => DeliveredInOrder
  BY DEF TunnelInv
<1> QED BY <1>1, TunnelIsSound, PTL

\* No frame is refused as garbage; one refused for its key means two passphrases or two
\* connections, and one refused for its number that the numbers have come full circle
\* (dsh_message_read, dsh_wire_open).
THEOREM RefusalsHaveCause == TunnelSpec => []RefusedForCause
<1>1. TunnelInv => RefusedForCause
  BY DEF TunnelInv
<1> QED BY <1>1, TunnelIsSound, PTL
=============================================================================
