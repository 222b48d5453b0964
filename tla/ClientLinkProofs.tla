-------------------------- MODULE ClientLinkProofs --------------------------
(***************************************************************************)
(* Proofs about a client's connection, for any number of RelayClient       *)
(* objects, messages, faults and presses: only the session's own object is *)
(* connected, and what it hands the session are the relay's messages in    *)
(* order.                                                                  *)
(***************************************************************************)
EXTENDS ClientLink, SequenceTheorems, TLAPS

-----------------------------------------------------------------------------
\* Runs of frames.

Mails == [kind : Kinds, n : Nat]

\* Messages are numbered, the ones that will not open included; an ack or a pong is
\* not, and may stand between any two.
Numbered(f) == f.kind \in {"small", "large", "spoiled"}
IsNext(f, x) == Numbered(f) => f.n = x + 1
After(f, x) == IF Numbered(f) THEN x + 1 ELSE x

\* The messages in q are those after number x up to number y.
Spans(q, x, y) ==
  \E at \in [1 .. Len(q) + 1 -> Nat] :
    /\ at[1] = x /\ at[Len(q) + 1] = y
    /\ \A i \in 1 .. Len(q) : IsNext(q[i], at[i]) /\ at[i + 1] = After(q[i], at[i])

LEMMA AfterIsNat == ASSUME NEW f, NEW x \in Nat PROVE After(f, x) \in Nat
BY DEF After

LEMMA SpansNothing == ASSUME NEW x \in Nat PROVE Spans(<<>>, x, x)
<1> DEFINE at == [i \in 1 .. 1 |-> x]
<1>1. at \in [1 .. 1 -> Nat] /\ at[1] = x /\ Len(<<>>) = 0
  OBVIOUS
<1> HIDE DEF at
<1> QED BY <1>1 DEF Spans

LEMMA NothingSpans == ASSUME NEW x, NEW y, Spans(<<>>, x, y) PROVE x = y
BY DEF Spans

LEMMA SpansOn ==
  ASSUME NEW q \in Seq(Mails), NEW x, NEW y \in Nat, Spans(q, x, y), NEW f \in Mails, IsNext(f, y)
  PROVE  Append(q, f) \in Seq(Mails) /\ Spans(Append(q, f), x, After(f, y))
<1> DEFINE a == Append(q, f)
           n == Len(q)
           z == After(f, y)
<1>1. a \in Seq(Mails)
  BY AppendProperties
<1>2. Len(a) = n + 1
  BY AppendProperties
<1>3. \A i \in 1 .. n : a[i] = q[i]
  BY AppendProperties
<1>4. a[n + 1] = f
  BY AppendProperties
<1>5. n \in Nat /\ z \in Nat
  BY LenProperties, AfterIsNat
<1>6. PICK at \in [1 .. n + 1 -> Nat] :
        /\ at[1] = x /\ at[n + 1] = y
        /\ \A i \in 1 .. n : IsNext(q[i], at[i]) /\ at[i + 1] = After(q[i], at[i])
  BY DEF Spans
<1> HIDE DEF a, n, z
<1> DEFINE to == [i \in 1 .. n + 2 |-> IF i <= n + 1 THEN at[i] ELSE z]
<1>7. /\ to \in [1 .. n + 1 + 1 -> Nat] /\ to[1] = x /\ to[n + 1 + 1] = z /\ to[n + 1] = y
      /\ \A i \in 1 .. n : to[i] = at[i] /\ to[i + 1] = at[i + 1]
  BY <1>5, <1>6
<1> HIDE DEF to
<1>8. ASSUME NEW i \in 1 .. n + 1 PROVE IsNext(a[i], to[i]) /\ to[i + 1] = After(a[i], to[i])
  <2>1. CASE i \in 1 .. n
    BY <1>3, <1>6, <1>7, <2>1
  <2>2. CASE i = n + 1
    BY <1>4, <1>7, <2>2 DEF z
  <2> QED BY <1>5, <2>1, <2>2
<1>9. Spans(a, x, z)
  BY <1>2, <1>7, <1>8 DEF Spans
<1> QED BY <1>1, <1>9 DEF a, z

LEMMA SpansFrom ==
  ASSUME NEW q \in Seq(Mails), q # <<>>, NEW x \in Nat, NEW y, Spans(q, x, y)
  PROVE  /\ Head(q) \in Mails /\ IsNext(Head(q), x)
         /\ Tail(q) \in Seq(Mails) /\ Spans(Tail(q), After(Head(q), x), y)
<1> DEFINE r == Tail(q)
           n == Len(r)
<1>1. /\ Head(q) \in Mails /\ r \in Seq(Mails) /\ n = Len(q) - 1
      /\ \A i \in 1 .. n : r[i] = q[i + 1]
  BY HeadTailProperties
<1>2. Head(q) = q[1] /\ Len(q) \in Nat \ {0} /\ n \in Nat /\ Len(q) = n + 1
  BY <1>1, LenProperties, EmptySeq
<1>3. PICK at \in [1 .. n + 1 + 1 -> Nat] :
        /\ at[1] = x /\ at[n + 1 + 1] = y
        /\ \A i \in 1 .. n + 1 : IsNext(q[i], at[i]) /\ at[i + 1] = After(q[i], at[i])
  BY <1>2 DEF Spans
<1> HIDE DEF r, n
<1>4. IsNext(Head(q), x) /\ at[2] = After(Head(q), x)
  <2>1. 1 \in 1 .. n + 1
    BY <1>2
  <2> QED BY <1>2, <1>3, <2>1
<1> DEFINE to == [i \in 1 .. n + 1 |-> at[i + 1]]
<1>5. /\ to \in [1 .. n + 1 -> Nat] /\ to[1] = at[2] /\ to[n + 1] = y
      /\ \A i \in 1 .. n : to[i] = at[i + 1] /\ to[i + 1] = at[i + 1 + 1] /\ i + 1 \in 1 .. n + 1
  BY <1>2, <1>3
<1> HIDE DEF to
<1>6. ASSUME NEW i \in 1 .. n PROVE IsNext(r[i], to[i]) /\ to[i + 1] = After(r[i], to[i])
  BY <1>1, <1>3, <1>5
<1>7. Spans(r, After(Head(q), x), y)
  BY <1>4, <1>5, <1>6 DEF Spans, n
<1> QED BY <1>1, <1>4, <1>7 DEF r

\* A frame that is spoiled on its way keeps its place.
LEMMA SpansSpoiled ==
  ASSUME NEW q \in Seq(Mails), q # <<>>, Numbered(Head(q)), NEW x, NEW y, Spans(q, x, y)
  PROVE  LET r == [q EXCEPT ![1].kind = "spoiled"]
         IN  r \in Seq(Mails) /\ Spans(r, x, y)
<1> DEFINE r == [q EXCEPT ![1].kind = "spoiled"]
           f == [q[1] EXCEPT !.kind = "spoiled"]
<1>1. Len(q) \in Nat /\ 1 \in 1 .. Len(q) /\ q[1] \in Mails /\ Head(q) = q[1] /\ DOMAIN q = 1 .. Len(q)
  BY EmptySeq, LenProperties, ElementOfSeq
<1>2. f \in Mails /\ f.n = q[1].n /\ f.kind = "spoiled"
  BY <1>1 DEF Mails, Kinds
<1>3. r = [q EXCEPT ![1] = f]
  OBVIOUS
<1>4. r \in Seq(Mails) /\ Len(r) = Len(q)
  BY <1>1, <1>2, <1>3, ExceptSeq
<1>5. r[1] = f /\ \A i \in 1 .. Len(q) : i # 1 => r[i] = q[i]
  BY <1>1, <1>3
<1> HIDE DEF r
<1>6. \A i \in 1 .. Len(q) : \A t : (IsNext(r[i], t) <=> IsNext(q[i], t)) /\ After(r[i], t) = After(q[i], t)
  <2> SUFFICES ASSUME NEW i \in 1 .. Len(q) PROVE (Numbered(r[i]) <=> Numbered(q[i])) /\ r[i].n = q[i].n
    BY DEF IsNext, After
  <2>1. CASE i = 1
    BY <1>1, <1>2, <1>5, <2>1 DEF Numbered
  <2>2. CASE i # 1
    BY <1>5, <2>2
  <2> QED BY <2>1, <2>2
<1>7. PICK at \in [1 .. Len(q) + 1 -> Nat] :
        /\ at[1] = x /\ at[Len(q) + 1] = y
        /\ \A i \in 1 .. Len(q) : IsNext(q[i], at[i]) /\ at[i + 1] = After(q[i], at[i])
  BY DEF Spans
<1>8. \A i \in 1 .. Len(q) : IsNext(r[i], at[i]) /\ at[i + 1] = After(r[i], at[i])
  BY <1>6, <1>7
<1>9. Spans(r, x, y)
  BY <1>4, <1>7, <1>8 DEF Spans
<1> QED BY <1>4, <1>9 DEF r
-----------------------------------------------------------------------------
\* What has been handed to the session.

\* Of the messages up to number h, g is those handed over, in order, and s has the ones
\* that are missing in it.
Handed(g, s, h) ==
  /\ \A i \in 1 .. Len(g) : g[i] <= h
  /\ \A n \in 1 .. h : n \in s \/ \E j \in 1 .. Len(g) : g[j] = n
  /\ \A i \in 1 .. Len(g) : \A n \in 1 .. g[i] : n \in s \/ \E j \in 1 .. i : g[j] = n
  /\ \A i, j \in 1 .. Len(g) : i < j => g[i] < g[j]

LEMMA HandNothing == Handed(<<>>, {}, 0)
BY DEF Handed

LEMMA HandMessage ==
  ASSUME NEW g \in Seq(Nat), NEW s, NEW h \in Nat, Handed(g, s, h)
  PROVE  Append(g, h + 1) \in Seq(Nat) /\ Handed(Append(g, h + 1), s, h + 1)
<1> DEFINE a == Append(g, h + 1)
           l == Len(g)
<1>1. h + 1 \in Nat /\ l \in Nat
  BY LenProperties
<1>2. a \in Seq(Nat)
  BY <1>1, AppendProperties
<1>3. Len(a) = l + 1
  BY <1>1, AppendProperties
<1>4. \A i \in 1 .. l : a[i] = g[i]
  BY <1>1, AppendProperties
<1>5. a[l + 1] = h + 1
  BY <1>1, AppendProperties
<1>6. \A i \in 1 .. l : g[i] \in Nat /\ g[i] <= h
  BY ElementOfSeq DEF Handed
<1>7. \A n \in 1 .. h : n \in s \/ \E j \in 1 .. l : a[j] = n
  BY <1>4 DEF Handed
<1>8. \A i \in 1 .. l : \A n \in 1 .. a[i] : n \in s \/ \E j \in 1 .. i : a[j] = n
  <2> TAKE i \in 1 .. l
  <2> TAKE n \in 1 .. a[i]
  <2>1. n \in s \/ \E j \in 1 .. i : g[j] = n
    BY <1>4 DEF Handed
  <2>2. \A j \in 1 .. i : j \in 1 .. l
    BY <1>1
  <2> QED BY <1>4, <2>1, <2>2
<1>9. \A i, j \in 1 .. l : i < j => a[i] < a[j]
  BY <1>4 DEF Handed
<1> HIDE DEF a, l
<1>10. \A i \in 1 .. l + 1 : i \in 1 .. l \/ i = l + 1
  BY <1>1
<1>11. \A i \in 1 .. l + 1 : a[i] <= h + 1
  BY <1>1, <1>4, <1>5, <1>6, <1>10
<1>12. \A n \in 1 .. h + 1 : n \in s \/ \E j \in 1 .. l + 1 : a[j] = n
  <2> TAKE n \in 1 .. h + 1
  <2>1. CASE n \in 1 .. h
    <3>1. \A j \in 1 .. l : j \in 1 .. l + 1
      BY <1>1
    <3> QED BY <1>7, <2>1, <3>1
  <2>2. CASE n = h + 1
    <3>1. l + 1 \in 1 .. l + 1
      BY <1>1
    <3> QED BY <1>5, <2>2, <3>1
  <2> QED BY <1>1, <2>1, <2>2
<1>13. \A i \in 1 .. l + 1 : \A n \in 1 .. a[i] : n \in s \/ \E j \in 1 .. i : a[j] = n
  <2> TAKE i \in 1 .. l + 1
  <2>1. CASE i \in 1 .. l
    BY <1>8, <2>1
  <2>2. CASE i = l + 1
    BY <1>5, <1>12, <2>2
  <2> QED BY <1>10, <2>1, <2>2
<1>14. \A i, j \in 1 .. l + 1 : i < j => a[i] < a[j]
  <2> SUFFICES ASSUME NEW i \in 1 .. l + 1, NEW j \in 1 .. l + 1, i < j PROVE a[i] < a[j]
    OBVIOUS
  <2>1. i \in 1 .. l
    BY <1>1
  <2>2. CASE j \in 1 .. l
    BY <1>9, <2>1, <2>2
  <2>3. CASE j = l + 1
    BY <1>1, <1>4, <1>5, <1>6, <2>1, <2>3
  <2> QED BY <1>10, <2>2, <2>3
<1>15. Handed(a, s, h + 1)
  BY <1>3, <1>11, <1>12, <1>13, <1>14 DEF Handed
<1> QED BY <1>2, <1>15 DEF a

LEMMA HandSpoiled ==
  ASSUME NEW g \in Seq(Nat), NEW s, NEW h \in Nat, Handed(g, s, h)
  PROVE  Handed(g, s \cup {h + 1}, h + 1)
<1>1. \A i \in 1 .. Len(g) : g[i] \in Nat
  BY ElementOfSeq
<1>2. \A n \in 1 .. h + 1 : n \in 1 .. h \/ n = h + 1
  OBVIOUS
<1>3. \A i \in 1 .. Len(g) : g[i] <= h + 1
  BY <1>1 DEF Handed
<1>4. \A n \in 1 .. h + 1 : n \in s \cup {h + 1} \/ \E j \in 1 .. Len(g) : g[j] = n
  BY <1>2 DEF Handed
<1> QED BY <1>3, <1>4 DEF Handed

-----------------------------------------------------------------------------
\* The invariant of one RelayClient.

Ats == {"none", "socket", "ack", "keys", "status", "subscribe"}

RelayClient ==
  [at : Ats, disposed : BOOLEAN,
   closed : BOOLEAN, sock : {"none", "open", "closed"}, path : {"up", "silent", "ended"},
   relay : {"none", "hello", "linked"}, deriving : BOOLEAN, keys : BOOLEAN,
   wire : Seq(Mails), held : Seq(Mails), chain : Seq(Mails), busy : BOOLEAN, pushed : Nat,
   got : Seq(Nat), spoiled : SUBSET Nat]

\* A socket that opens for a client already closed is of no use to the relay; nothing
\* waits for keys that are there; a worker has the large frame at the head.
Sane(r) ==
  /\ r.disposed => r.closed
  /\ r.closed /\ r.sock = "open" => r.relay = "none"
  /\ r.at = "socket" => r.sock = "none"
  /\ r.keys \/ r.busy => r.held = <<>>
  /\ r.busy => r.chain # <<>> /\ Head(r.chain).kind = "large"
  /\ r.sock = "none" => r.chain = <<>> /\ r.held = <<>> /\ r.pushed = 0 /\ r.path = "up"

\* Up to h handed over, up to a held, up to b queued, up to z on the way: one run, which
\* ends with what the relay pushed last unless something was lost with the socket.
InLine(r, h, a, b, z) ==
  /\ Handed(r.got, r.spoiled, h)
  /\ Spans(r.held, h, a) /\ Spans(r.chain, a, b) /\ Spans(r.wire, b, z)
  /\ r.path = "up" /\ r.sock # "closed" => z = r.pushed
  /\ r.sock = "none" => h = 0

ClientInv(r) ==
  /\ r \in RelayClient /\ Sane(r)
  /\ \E h, a, b, z \in Nat : InLine(r, h, a, b, z)

LEMMA FreshIsSound ==
  /\ ClientInv(Fresh) /\ Fresh.at = "none" /\ ~Fresh.disposed /\ ~Fresh.closed /\ Fresh.sock = "none"
  /\ Fresh.path = "up" /\ Fresh.relay = "none" /\ ~Fresh.deriving /\ ~Fresh.keys /\ Fresh.wire = <<>>
  /\ Fresh.held = <<>> /\ Fresh.chain = <<>> /\ ~Fresh.busy /\ Fresh.got = <<>>
<1>1. Fresh \in RelayClient
  BY DEF Fresh, RelayClient, Ats
<1>2. Sane(Fresh)
  BY DEF Fresh, Sane
<1>3. Spans(<<>>, 0, 0) /\ Handed(<<>>, {}, 0)
  BY SpansNothing, HandNothing
<1>4. InLine(Fresh, 0, 0, 0, 0)
  BY <1>3 DEF Fresh, InLine
<1> QED BY <1>1, <1>2, <1>4 DEF ClientInv, Fresh

LEMMA KeptIsSound ==
  ASSUME NEW r, ClientInv(r)
  PROVE  /\ ClientInv(Kept(r)) /\ (Kept(r).disposed => Kept(r).at # "none")
         /\ Kept(r).at = r.at
         /\ r.disposed => Kept(r) = Fresh \/ Kept(r).disposed
BY FreshIsSound DEF Kept

LEMMA TornDownIsSound ==
  ASSUME NEW r, ClientInv(r), r.chain = <<>> \/ r.busy
  PROVE  /\ ClientInv(TornDown(r)) /\ TornDown(r).closed /\ TornDown(r).disposed = r.disposed
         /\ TornDown(r).at = IF Woken(r) THEN "none" ELSE r.at
<1> DEFINE t == TornDown(r)
<1>1. r \in RelayClient /\ Sane(r)
  BY DEF ClientInv
<1>2. /\ t \in RelayClient /\ t.closed /\ t.disposed = r.disposed /\ t.keys = FALSE /\ t.held = <<>>
      /\ t.wire = <<>> /\ t.sock = (IF r.sock = "open" THEN "closed" ELSE r.sock)
      /\ t.at = (IF Woken(r) THEN "none" ELSE r.at) /\ t.chain = r.chain /\ t.busy = r.busy
      /\ t.pushed = r.pushed /\ t.got = r.got /\ t.spoiled = r.spoiled /\ t.path = r.path
      /\ t.relay = r.relay
  <2>1. <<>> \in Seq(Mails)
    OBVIOUS
  <2> QED BY <1>1, <2>1 DEF TornDown, RelayClient, Ats
<1> HIDE DEF t
<1>3. Sane(t)
  BY <1>1, <1>2 DEF Sane, RelayClient, Woken
<1>4. PICK h, a, b, z \in Nat : InLine(r, h, a, b, z)
  BY DEF ClientInv
<1>5. Spans(<<>>, h, h) /\ Spans(<<>>, b, b)
  BY SpansNothing
<1>6. t.sock # "open" /\ (t.sock = "none" => h = 0 /\ t.pushed = 0 /\ t.chain = <<>>)
  BY <1>1, <1>2, <1>4 DEF Sane, InLine, RelayClient
<1>7. CASE r.chain = <<>>
  <2>1. InLine(t, h, h, h, h)
    BY <1>1, <1>2, <1>4, <1>5, <1>6, <1>7 DEF InLine, RelayClient
  <2> QED BY <1>2, <1>3, <2>1 DEF ClientInv, t
<1>8. CASE r.chain # <<>>
  <2>1. r.held = <<>>
    BY <1>1, <1>8 DEF Sane
  <2>2. a = h
    BY <1>4, <2>1, NothingSpans DEF InLine
  <2>3. InLine(t, h, h, b, b)
    BY <1>1, <1>2, <1>4, <1>5, <1>6, <1>8, <2>2 DEF InLine, RelayClient
  <2> QED BY <1>2, <1>3, <2>3 DEF ClientInv, t
<1> QED BY <1>7, <1>8

LEMMA DisposedIsSound ==
  ASSUME NEW r, ClientInv(r), r.chain = <<>> \/ r.busy
  PROVE  /\ ClientInv(Disposed(r)) /\ (Disposed(r).disposed <=> Disposed(r).at # "none")
         /\ Disposed(r).at = (IF Woken(r) THEN "none" ELSE r.at)
         /\ Disposed(r) = Fresh \/ Disposed(r).disposed
<1> DEFINE t == TornDown(r)
           d == [t EXCEPT !.disposed = TRUE]
<1>1. ClientInv(t) /\ t.closed /\ t.at = IF Woken(r) THEN "none" ELSE r.at
  BY TornDownIsSound
<1> HIDE DEF t
<1>2. /\ d \in RelayClient /\ d.disposed /\ d.closed /\ d.at = t.at /\ d.sock = t.sock /\ d.path = t.path
      /\ d.relay = t.relay /\ d.keys = t.keys /\ d.wire = t.wire /\ d.held = t.held /\ d.chain = t.chain
      /\ d.busy = t.busy /\ d.pushed = t.pushed /\ d.got = t.got /\ d.spoiled = t.spoiled
  BY <1>1 DEF ClientInv, RelayClient
<1> HIDE DEF d
<1>3. Sane(d)
  BY <1>1, <1>2 DEF ClientInv, Sane
<1>4. \E h, a, b, z \in Nat : InLine(d, h, a, b, z)
  BY <1>1, <1>2 DEF ClientInv, InLine
<1>5. ClientInv(d)
  BY <1>2, <1>3, <1>4 DEF ClientInv
<1>6. Disposed(r) = Kept(d)
  BY DEF Disposed, d, t
<1>7. d.at = "none" => Kept(d) = Fresh
  BY <1>2 DEF Kept
<1>8. d.at # "none" => Kept(d) = d
  BY <1>2 DEF Kept
<1> QED BY <1>1, <1>2, <1>5, <1>6, <1>7, <1>8, FreshIsSound

-----------------------------------------------------------------------------
\* What the steps make of a RelayClient.

LEMMA ReachedIsSound ==
  ASSUME NEW r, ClientInv(r), r.at = "socket"
  PROVE  LET t == [r EXCEPT !.at = "ack", !.sock = "open", !.path = "up",
                            !.relay = IF r.closed THEN "none" ELSE "hello"]
         IN  ClientInv(t) /\ t.disposed = r.disposed /\ t.at = "ack"
<1> DEFINE t == [r EXCEPT !.at = "ack", !.sock = "open", !.path = "up",
                          !.relay = IF r.closed THEN "none" ELSE "hello"]
<1>1. r \in RelayClient /\ Sane(r)
  BY DEF ClientInv
<1>2. /\ t \in RelayClient /\ t.disposed = r.disposed /\ t.closed = r.closed /\ t.at = "ack" /\ t.sock = "open"
      /\ t.path = "up" /\ t.relay = (IF r.closed THEN "none" ELSE "hello") /\ t.keys = r.keys
      /\ t.wire = r.wire /\ t.held = r.held /\ t.chain = r.chain /\ t.busy = r.busy
      /\ t.pushed = r.pushed /\ t.got = r.got /\ t.spoiled = r.spoiled
  BY <1>1 DEF RelayClient, Ats
<1> HIDE DEF t
<1>3. Sane(t)
  BY <1>1, <1>2 DEF Sane
<1>4. \E h, a, b, z \in Nat : InLine(t, h, a, b, z)
  BY <1>1, <1>2 DEF ClientInv, InLine, Sane
<1> QED BY <1>2, <1>3, <1>4 DEF ClientInv, t

\* Only the attempt goes on, or the derivation of the keys begins or ends.
LEMMA AttemptIsSound ==
  ASSUME NEW r, ClientInv(r), NEW t \in RelayClient,
         /\ t.disposed = r.disposed /\ t.closed = r.closed /\ t.sock = r.sock /\ t.path = r.path
         /\ t.relay = r.relay /\ t.keys = r.keys /\ t.wire = r.wire /\ t.held = r.held
         /\ t.chain = r.chain /\ t.busy = r.busy /\ t.pushed = r.pushed /\ t.got = r.got
         /\ t.spoiled = r.spoiled,
         t.at = "socket" => r.at = "socket" \/ r.sock = "none"
  PROVE  ClientInv(t)
<1>1. Sane(t)
  BY DEF ClientInv, Sane
<1>2. \E h, a, b, z \in Nat : InLine(t, h, a, b, z)
  BY DEF ClientInv, InLine
<1> QED BY <1>1, <1>2 DEF ClientInv

LEMMA AtIsSound ==
  ASSUME NEW r, ClientInv(r), NEW x \in Ats,
         x = "socket" => r.at = "socket" \/ r.sock = "none"
  PROVE  LET t == [r EXCEPT !.at = x]
         IN  ClientInv(t) /\ t.disposed = r.disposed /\ t.at = x
<1> DEFINE t == [r EXCEPT !.at = x]
<1>1. r \in RelayClient
  BY DEF ClientInv
<1>2. /\ t \in RelayClient /\ t.at = x
      /\ t.disposed = r.disposed /\ t.closed = r.closed /\ t.sock = r.sock /\ t.path = r.path
      /\ t.relay = r.relay /\ t.keys = r.keys /\ t.wire = r.wire /\ t.held = r.held
      /\ t.chain = r.chain /\ t.busy = r.busy /\ t.pushed = r.pushed /\ t.got = r.got
      /\ t.spoiled = r.spoiled
  BY <1>1 DEF RelayClient
<1> HIDE DEF t
<1>3. ClientInv(t)
  BY <1>2, AttemptIsSound
<1> QED BY <1>2, <1>3 DEF t

LEMMA DerivedIsSound ==
  ASSUME NEW r, ClientInv(r), NEW x \in Ats,
         x = "socket" => r.at = "socket" \/ r.sock = "none"
  PROVE  LET t == [r EXCEPT !.deriving = FALSE, !.at = x]
         IN  ClientInv(t) /\ t.disposed = r.disposed /\ t.at = x
<1> DEFINE t == [r EXCEPT !.deriving = FALSE, !.at = x]
<1>1. r \in RelayClient
  BY DEF ClientInv
<1>2. /\ t \in RelayClient /\ t.at = x
      /\ t.disposed = r.disposed /\ t.closed = r.closed /\ t.sock = r.sock /\ t.path = r.path
      /\ t.relay = r.relay /\ t.keys = r.keys /\ t.wire = r.wire /\ t.held = r.held
      /\ t.chain = r.chain /\ t.busy = r.busy /\ t.pushed = r.pushed /\ t.got = r.got
      /\ t.spoiled = r.spoiled
  BY <1>1 DEF RelayClient
<1> HIDE DEF t
<1>3. ClientInv(t)
  BY <1>2, AttemptIsSound
<1> QED BY <1>2, <1>3 DEF t

\* The path, what the relay knows and the frames on the way change together.
LEMMA WireIsSound ==
  ASSUME NEW r, ClientInv(r), NEW t \in RelayClient,
         /\ t.at = r.at /\ t.disposed = r.disposed /\ t.closed = r.closed /\ t.sock = r.sock
         /\ t.keys = r.keys /\ t.held = r.held /\ t.chain = r.chain /\ t.busy = r.busy
         /\ t.got = r.got /\ t.spoiled = r.spoiled,
         r.closed /\ r.sock = "open" => t.relay = "none",
         r.sock = "none" => t.pushed = 0 /\ t.path = "up",
         \A b, z \in Nat : Spans(r.wire, b, z) /\ (r.path = "up" /\ r.sock # "closed" => z = r.pushed)
           => \E y \in Nat : Spans(t.wire, b, y) /\ (t.path = "up" /\ t.sock # "closed" => y = t.pushed)
  PROVE  ClientInv(t)
<1>1. Sane(t)
  BY DEF ClientInv, Sane
<1>2. \E h, a, b, z \in Nat : InLine(t, h, a, b, z)
  BY DEF ClientInv, InLine
<1> QED BY <1>1, <1>2 DEF ClientInv

LEMMA FrameIsMail ==
  ASSUME NEW kind \in Kinds, NEW n \in Nat
  PROVE  Frame(kind, n) \in Mails /\ Frame(kind, n).kind = kind /\ Frame(kind, n).n = n
BY DEF Frame, Mails

LEMMA PongIsSound ==
  ASSUME NEW r, ClientInv(r), NEW w \in {"ack", "pong"}, NEW l \in {r.relay, "linked"},
         l = "linked" => l = r.relay \/ (r.relay = "hello" /\ r.sock = "open")
  PROVE  LET t == [r EXCEPT !.relay = l, !.wire = Append(@, Frame(w, 0))]
         IN  ClientInv(t) /\ t.disposed = r.disposed /\ t.at = r.at
<1> DEFINE f == Frame(w, 0)
           t == [r EXCEPT !.relay = l, !.wire = Append(@, f)]
<1>1. r \in RelayClient /\ Sane(r) /\ r.wire \in Seq(Mails)
  BY DEF ClientInv, RelayClient
<1>2. f \in Mails /\ ~Numbered(f)
  BY FrameIsMail DEF Kinds, Numbered
<1>3. Append(r.wire, f) \in Seq(Mails)
  BY <1>1, <1>2, AppendProperties
<1> HIDE DEF f
<1>4. t \in RelayClient
  BY <1>1, <1>3 DEF RelayClient
<1>5. /\ t.at = r.at /\ t.disposed = r.disposed /\ t.closed = r.closed /\ t.sock = r.sock
      /\ t.keys = r.keys /\ t.held = r.held /\ t.chain = r.chain /\ t.busy = r.busy
      /\ t.got = r.got /\ t.spoiled = r.spoiled /\ t.path = r.path /\ t.pushed = r.pushed
      /\ t.relay = l /\ t.wire = Append(r.wire, f)
  BY <1>1 DEF RelayClient
<1> HIDE DEF t
<1>6. \A b, z \in Nat : Spans(r.wire, b, z) => Spans(t.wire, b, z)
  BY <1>1, <1>2, <1>5, SpansOn DEF IsNext, After
<1>7. r.closed /\ r.sock = "open" => t.relay = "none"
  BY <1>1, <1>5 DEF Sane
<1>8. r.sock = "none" => t.pushed = 0 /\ t.path = "up"
  BY <1>1, <1>5 DEF Sane
<1>9. ClientInv(t)
  BY <1>4, <1>5, <1>6, <1>7, <1>8, WireIsSound
<1> QED BY <1>5, <1>9 DEF t, f

LEMMA PushIsSound ==
  ASSUME NEW r, ClientInv(r), r.path = "up", r.sock = "open", NEW kind \in {"small", "large"}
  PROVE  LET t == [r EXCEPT !.pushed = @ + 1, !.wire = Append(@, Frame(kind, r.pushed + 1))]
         IN  ClientInv(t) /\ t.disposed = r.disposed /\ t.at = r.at
<1> DEFINE f == Frame(kind, r.pushed + 1)
           p == r.pushed + 1
           t == [r EXCEPT !.pushed = p, !.wire = Append(@, f)]
<1>1. r \in RelayClient /\ Sane(r) /\ r.wire \in Seq(Mails) /\ r.pushed \in Nat /\ p \in Nat
  BY DEF ClientInv, RelayClient
<1>2. f \in Mails /\ Numbered(f) /\ f.n = r.pushed + 1
  BY <1>1, FrameIsMail DEF Kinds, Numbered
<1>3. Append(r.wire, f) \in Seq(Mails)
  BY <1>1, <1>2, AppendProperties
<1> HIDE DEF f, p
<1>4. t \in RelayClient
  BY <1>1, <1>3 DEF RelayClient
<1>5. /\ t.at = r.at /\ t.disposed = r.disposed /\ t.closed = r.closed /\ t.sock = r.sock
      /\ t.keys = r.keys /\ t.held = r.held /\ t.chain = r.chain /\ t.busy = r.busy
      /\ t.got = r.got /\ t.spoiled = r.spoiled /\ t.path = r.path /\ t.pushed = p
      /\ t.relay = r.relay /\ t.wire = Append(r.wire, f)
  BY <1>1 DEF RelayClient
<1> HIDE DEF t
<1>6. \A b \in Nat : Spans(r.wire, b, r.pushed) => Spans(t.wire, b, t.pushed) /\ t.pushed \in Nat
  BY <1>1, <1>2, <1>5, SpansOn DEF IsNext, After, p
<1>7. r.closed => t.relay = "none"
  BY <1>1, <1>5 DEF Sane
<1>8. ClientInv(t)
  BY <1>4, <1>5, <1>6, <1>7, WireIsSound
<1> QED BY <1>5, <1>8 DEF t, f, p

LEMMA LostIsSound ==
  ASSUME NEW r, ClientInv(r), r.sock = "open"
  PROVE  LET t == [r EXCEPT !.path = "silent", !.wire = <<>>]
             u == [r EXCEPT !.path = "ended"]
         IN  /\ ClientInv(t) /\ t.disposed = r.disposed /\ t.at = r.at
             /\ ClientInv(u) /\ u.disposed = r.disposed /\ u.at = r.at
<1> DEFINE t == [r EXCEPT !.path = "silent", !.wire = <<>>]
           u == [r EXCEPT !.path = "ended"]
<1>1. r \in RelayClient /\ Sane(r) /\ <<>> \in Seq(Mails)
  BY DEF ClientInv
<1>2. t \in RelayClient /\ u \in RelayClient
  BY <1>1 DEF RelayClient
<1>3. /\ t.at = r.at /\ t.disposed = r.disposed /\ t.closed = r.closed /\ t.sock = r.sock
      /\ t.keys = r.keys /\ t.held = r.held /\ t.chain = r.chain /\ t.busy = r.busy
      /\ t.got = r.got /\ t.spoiled = r.spoiled /\ t.path = "silent" /\ t.relay = r.relay /\ t.wire = <<>>
  BY <1>1 DEF RelayClient
<1>4. /\ u.at = r.at /\ u.disposed = r.disposed /\ u.closed = r.closed /\ u.sock = r.sock
      /\ u.keys = r.keys /\ u.held = r.held /\ u.chain = r.chain /\ u.busy = r.busy
      /\ u.got = r.got /\ u.spoiled = r.spoiled /\ u.path = "ended" /\ u.relay = r.relay /\ u.wire = r.wire
  BY <1>1 DEF RelayClient
<1> HIDE DEF t, u
<1>5. r.closed => r.relay = "none"
  BY <1>1 DEF Sane
<1>6. \A b \in Nat : Spans(t.wire, b, b)
  BY <1>3, SpansNothing
<1>7. ClientInv(t)
  BY <1>2, <1>3, <1>5, <1>6, WireIsSound
<1>8. ClientInv(u)
  BY <1>2, <1>4, <1>5, WireIsSound
<1> QED BY <1>3, <1>4, <1>7, <1>8 DEF t, u

LEMMA SpoilIsSound ==
  ASSUME NEW r, ClientInv(r), r.wire # <<>>, Head(r.wire).kind \in {"small", "large"}
  PROVE  LET t == [r EXCEPT !.wire[1].kind = "spoiled"]
         IN  ClientInv(t) /\ t.disposed = r.disposed /\ t.at = r.at
<1> DEFINE w == [r.wire EXCEPT ![1].kind = "spoiled"]
           t == [r EXCEPT !.wire[1].kind = "spoiled"]
<1>1. r \in RelayClient /\ Sane(r) /\ r.wire \in Seq(Mails)
  BY DEF ClientInv, RelayClient
<1>2. Numbered(Head(r.wire))
  BY DEF Numbered
<1>3. PICK x \in Nat, y \in Nat : Spans(r.wire, x, y)
  BY DEF ClientInv, InLine
<1>4. w \in Seq(Mails) /\ \A b, z \in Nat : Spans(r.wire, b, z) => Spans(w, b, z)
  BY <1>1, <1>2, <1>3, SpansSpoiled
<1>5. t = [r EXCEPT !.wire = w]
  BY <1>1 DEF RelayClient
<1> HIDE DEF w, t
<1>6. t \in RelayClient
  BY <1>1, <1>4, <1>5 DEF RelayClient
<1>7. /\ t.at = r.at /\ t.disposed = r.disposed /\ t.closed = r.closed /\ t.sock = r.sock
      /\ t.keys = r.keys /\ t.held = r.held /\ t.chain = r.chain /\ t.busy = r.busy
      /\ t.got = r.got /\ t.spoiled = r.spoiled /\ t.path = r.path /\ t.pushed = r.pushed
      /\ t.relay = r.relay /\ t.wire = w
  BY <1>1, <1>5 DEF RelayClient
<1>8. /\ r.closed /\ r.sock = "open" => t.relay = "none"
      /\ r.sock = "none" => t.pushed = 0 /\ t.path = "up"
  BY <1>1, <1>7 DEF Sane
<1>9. ClientInv(t)
  BY <1>4, <1>6, <1>7, <1>8, WireIsSound
<1> QED BY <1>7, <1>9 DEF t

-----------------------------------------------------------------------------
\* Frames taking their turn.

LEMMA ArriveIsSound ==
  ASSUME NEW r, ClientInv(r), r.wire # <<>>, r.sock = "open"
  PROVE  LET t == [r EXCEPT !.wire = Tail(@), !.chain = Append(@, Head(r.wire))]
         IN  ClientInv(t) /\ t.disposed = r.disposed /\ t.at = r.at
<1> DEFINE f == Head(r.wire)
           w == Tail(r.wire)
           q == Append(r.chain, f)
           t == [r EXCEPT !.wire = w, !.chain = q]
<1>1. r \in RelayClient /\ Sane(r) /\ r.wire \in Seq(Mails) /\ r.chain \in Seq(Mails)
  BY DEF ClientInv, RelayClient
<1>2. PICK h, a, b, z \in Nat : InLine(r, h, a, b, z)
  BY DEF ClientInv
<1>3. f \in Mails /\ IsNext(f, b) /\ w \in Seq(Mails) /\ Spans(w, After(f, b), z)
  BY <1>1, <1>2, SpansFrom DEF InLine
<1>4. q \in Seq(Mails) /\ Spans(q, a, After(f, b))
  BY <1>1, <1>2, <1>3, SpansOn DEF InLine
<1>5. After(f, b) \in Nat
  BY <1>2, AfterIsNat
<1>6. r.chain # <<>> => q # <<>> /\ Head(q) = Head(r.chain)
  <2> HAVE r.chain # <<>>
  <2>1. Len(r.chain) \in Nat \ {0} /\ Head(r.chain) = r.chain[1]
    BY <1>1, EmptySeq, LenProperties
  <2>2. Len(q) = Len(r.chain) + 1
    BY <1>1, <1>3, AppendProperties
  <2>3. q[1] = r.chain[1]
    BY <1>1, <1>3, <2>1, AppendProperties
  <2>4. q # <<>>
    BY <1>1, <1>3, AppendProperties
  <2> QED BY <2>1, <2>3, <2>4
<1> HIDE DEF f, w, q
<1>7. /\ t \in RelayClient /\ t.at = r.at /\ t.disposed = r.disposed /\ t.closed = r.closed /\ t.sock = r.sock
      /\ t.keys = r.keys /\ t.held = r.held /\ t.chain = q /\ t.busy = r.busy /\ t.got = r.got
      /\ t.spoiled = r.spoiled /\ t.path = r.path /\ t.relay = r.relay /\ t.wire = w /\ t.pushed = r.pushed
  BY <1>1, <1>3, <1>4 DEF RelayClient
<1> HIDE DEF t
<1>8. Sane(t)
  BY <1>1, <1>6, <1>7 DEF Sane
<1>9. InLine(t, h, a, After(f, b), z)
  BY <1>2, <1>3, <1>4, <1>7 DEF InLine
<1> QED BY <1>2, <1>5, <1>7, <1>8, <1>9 DEF ClientInv, t, f, w, q

LEMMA AckIsSound ==
  ASSUME NEW r, ClientInv(r), r.chain # <<>>, ~r.busy, Head(r.chain).kind = "ack",
         NEW x \in Ats,
         x = "socket" => r.at = "socket"
  PROVE  LET t == [r EXCEPT !.chain = Tail(@), !.deriving = TRUE, !.at = x]
         IN  ClientInv(t) /\ t.disposed = r.disposed /\ t.at = x
<1> DEFINE f == Head(r.chain)
           q == Tail(r.chain)
           t == [r EXCEPT !.chain = q, !.deriving = TRUE, !.at = x]
<1>1. r \in RelayClient /\ Sane(r) /\ r.chain \in Seq(Mails)
  BY DEF ClientInv, RelayClient
<1>2. PICK h, a, b, z \in Nat : InLine(r, h, a, b, z)
  BY DEF ClientInv
<1>3. f \in Mails /\ q \in Seq(Mails) /\ Spans(q, After(f, a), b)
  BY <1>1, <1>2, SpansFrom DEF InLine
<1>4. After(f, a) = a
  BY DEF After, Numbered
<1> HIDE DEF f, q
<1>5. /\ t \in RelayClient /\ t.at = x /\ t.disposed = r.disposed /\ t.closed = r.closed /\ t.sock = r.sock
      /\ t.keys = r.keys /\ t.held = r.held /\ t.chain = q /\ t.busy = r.busy /\ t.got = r.got /\ t.wire = r.wire
      /\ t.spoiled = r.spoiled /\ t.path = r.path /\ t.relay = r.relay /\ t.pushed = r.pushed
  BY <1>1, <1>3 DEF RelayClient
<1> HIDE DEF t
<1>6. Sane(t)
  BY <1>1, <1>5 DEF Sane
<1>7. InLine(t, h, a, b, z)
  BY <1>2, <1>3, <1>4, <1>5 DEF InLine
<1> QED BY <1>2, <1>5, <1>6, <1>7 DEF ClientInv, t, q

LEMMA HeldIsSound ==
  ASSUME NEW r, ClientInv(r), r.chain # <<>>, ~r.busy, ~r.keys
  PROVE  LET t == [r EXCEPT !.chain = Tail(@), !.held = Append(@, Head(r.chain))]
         IN  ClientInv(t) /\ t.disposed = r.disposed /\ t.at = r.at
<1> DEFINE f == Head(r.chain)
           q == Tail(r.chain)
           e == Append(r.held, f)
           t == [r EXCEPT !.chain = q, !.held = e]
<1>1. r \in RelayClient /\ Sane(r) /\ r.chain \in Seq(Mails) /\ r.held \in Seq(Mails)
  BY DEF ClientInv, RelayClient
<1>2. PICK h, a, b, z \in Nat : InLine(r, h, a, b, z)
  BY DEF ClientInv
<1>3. f \in Mails /\ IsNext(f, a) /\ q \in Seq(Mails) /\ Spans(q, After(f, a), b)
  BY <1>1, <1>2, SpansFrom DEF InLine
<1>4. e \in Seq(Mails) /\ Spans(e, h, After(f, a))
  BY <1>1, <1>2, <1>3, SpansOn DEF InLine
<1>5. After(f, a) \in Nat
  BY <1>2, AfterIsNat
<1> HIDE DEF f, q, e
<1>6. /\ t \in RelayClient /\ t.at = r.at /\ t.disposed = r.disposed /\ t.closed = r.closed /\ t.sock = r.sock
      /\ t.keys = r.keys /\ t.held = e /\ t.chain = q /\ t.busy = r.busy /\ t.got = r.got /\ t.wire = r.wire
      /\ t.spoiled = r.spoiled /\ t.path = r.path /\ t.relay = r.relay /\ t.pushed = r.pushed
  BY <1>1, <1>3, <1>4 DEF RelayClient
<1> HIDE DEF t
<1>7. Sane(t)
  BY <1>1, <1>6 DEF Sane
<1>8. InLine(t, h, After(f, a), b, z)
  BY <1>2, <1>3, <1>4, <1>6 DEF InLine
<1> QED BY <1>2, <1>5, <1>6, <1>7, <1>8 DEF ClientInv, t, q, e, f

LEMMA BusyIsSound ==
  ASSUME NEW r, ClientInv(r), r.chain # <<>>, r.keys, Head(r.chain).kind = "large"
  PROVE  LET t == [r EXCEPT !.busy = TRUE]
         IN  ClientInv(t) /\ t.disposed = r.disposed /\ t.at = r.at
<1> DEFINE t == [r EXCEPT !.busy = TRUE]
<1>1. r \in RelayClient /\ Sane(r)
  BY DEF ClientInv
<1>2. /\ t \in RelayClient /\ t.at = r.at /\ t.disposed = r.disposed /\ t.closed = r.closed /\ t.sock = r.sock
      /\ t.keys = r.keys /\ t.held = r.held /\ t.chain = r.chain /\ t.got = r.got /\ t.wire = r.wire
      /\ t.spoiled = r.spoiled /\ t.path = r.path /\ t.relay = r.relay /\ t.pushed = r.pushed
  BY <1>1 DEF RelayClient
<1> HIDE DEF t
<1>3. Sane(t)
  BY <1>1, <1>2 DEF Sane
<1>4. \E h, a, b, z \in Nat : InLine(t, h, a, b, z)
  BY <1>2 DEF ClientInv, InLine
<1> QED BY <1>2, <1>3, <1>4 DEF ClientInv, t

LEMMA OpenedIsSound ==
  ASSUME NEW r, ClientInv(r), r.chain # <<>>, r.keys \/ r.busy
  PROVE  LET f == Head(r.chain)
             t == [r EXCEPT !.chain = Tail(@), !.busy = FALSE,
                            !.got = IF f.kind \in {"small", "large"} THEN Append(@, f.n) ELSE @,
                            !.spoiled = IF f.kind = "spoiled" THEN @ \cup {f.n} ELSE @]
         IN  ClientInv(t) /\ t.disposed = r.disposed /\ t.at = r.at
<1> DEFINE f == Head(r.chain)
           q == Tail(r.chain)
           g == IF f.kind \in {"small", "large"} THEN Append(r.got, f.n) ELSE r.got
           s == IF f.kind = "spoiled" THEN r.spoiled \cup {f.n} ELSE r.spoiled
           t == [r EXCEPT !.chain = q, !.busy = FALSE, !.got = g, !.spoiled = s]
<1>1. /\ r \in RelayClient /\ Sane(r) /\ r.chain \in Seq(Mails) /\ r.got \in Seq(Nat) /\ r.spoiled \in SUBSET Nat
      /\ r.held = <<>>
  BY DEF ClientInv, RelayClient, Sane
<1>2. PICK h, a, b, z \in Nat : InLine(r, h, a, b, z)
  BY DEF ClientInv
<1>3. a = h
  BY <1>1, <1>2, NothingSpans DEF InLine
<1>4. f \in Mails /\ IsNext(f, h) /\ q \in Seq(Mails) /\ Spans(q, After(f, h), b)
  BY <1>1, <1>2, <1>3, SpansFrom DEF InLine
<1>5. After(f, h) \in Nat /\ h + 1 \in Nat
  BY <1>2, AfterIsNat
<1>6. Handed(r.got, r.spoiled, h)
  BY <1>2 DEF InLine
<1>7. g \in Seq(Nat) /\ s \in SUBSET Nat /\ Handed(g, s, After(f, h))
  <2>1. CASE f.kind \in {"small", "large"}
    <3>1. f.n = h + 1 /\ After(f, h) = h + 1 /\ g = Append(r.got, f.n) /\ s = r.spoiled
      BY <1>4, <2>1 DEF IsNext, After, Numbered
    <3>2. Append(r.got, h + 1) \in Seq(Nat) /\ Handed(Append(r.got, h + 1), r.spoiled, h + 1)
      BY <1>1, <1>2, <1>6, HandMessage
    <3> QED BY <1>1, <3>1, <3>2
  <2>2. CASE f.kind = "spoiled"
    <3>1. f.n = h + 1 /\ After(f, h) = h + 1 /\ g = r.got /\ s = r.spoiled \cup {f.n}
      BY <1>4, <2>2 DEF IsNext, After, Numbered
    <3>2. Handed(r.got, r.spoiled \cup {h + 1}, h + 1)
      BY <1>1, <1>2, <1>6, HandSpoiled
    <3> QED BY <1>1, <1>5, <3>1, <3>2
  <2>3. CASE ~Numbered(f)
    <3>1. After(f, h) = h /\ g = r.got /\ s = r.spoiled
      BY <2>3 DEF After, Numbered
    <3> QED BY <1>1, <1>6, <3>1
  <2> QED BY <2>1, <2>2, <2>3 DEF Numbered
<1>8. Spans(<<>>, After(f, h), After(f, h))
  BY <1>5, SpansNothing
<1>9. r.sock # "none"
  BY <1>1 DEF Sane
<1> HIDE DEF f, q, g, s
<1>10. /\ t \in RelayClient /\ t.at = r.at /\ t.disposed = r.disposed /\ t.closed = r.closed /\ t.sock = r.sock
       /\ t.keys = r.keys /\ t.held = r.held /\ t.chain = q /\ t.busy = FALSE /\ t.got = g /\ t.wire = r.wire
       /\ t.spoiled = s /\ t.path = r.path /\ t.relay = r.relay /\ t.pushed = r.pushed
  BY <1>1, <1>4, <1>7 DEF RelayClient
<1> HIDE DEF t
<1>11. Sane(t)
  BY <1>1, <1>9, <1>10 DEF Sane
<1>12. InLine(t, After(f, h), After(f, h), b, z)
  BY <1>1, <1>2, <1>4, <1>7, <1>8, <1>9, <1>10 DEF InLine
<1>13. ClientInv(t)
  BY <1>2, <1>5, <1>10, <1>11, <1>12 DEF ClientInv
<1> QED BY <1>10, <1>13 DEF t, q, g, s, f

\* No frame waits when the keys come, so what was held waits alone.
LEMMA KeysAreSound ==
  ASSUME NEW r, ClientInv(r), r.chain = <<>> \/ r.busy,
         NEW x \in Ats,
         x = "socket" => r.at = "socket"
  PROVE  LET t == [r EXCEPT !.deriving = FALSE, !.keys = TRUE, !.held = <<>>,
                            !.chain = @ \o r.held, !.at = x]
         IN  ClientInv(t) /\ t.disposed = r.disposed /\ t.at = x
<1> DEFINE q == r.chain \o r.held
           t == [r EXCEPT !.deriving = FALSE, !.keys = TRUE, !.held = <<>>, !.chain = q, !.at = x]
<1>1. /\ r \in RelayClient /\ Sane(r) /\ r.chain \in Seq(Mails) /\ r.held \in Seq(Mails) /\ <<>> \in Seq(Mails)
  BY DEF ClientInv, RelayClient
<1>2. PICK h, a, b, z \in Nat : InLine(r, h, a, b, z)
  BY DEF ClientInv
<1>3. Spans(<<>>, h, h)
  BY SpansNothing
<1>4. q \in Seq(Mails) /\ Spans(q, h, b) /\ (r.held = <<>> => q = r.chain)
  <2>1. CASE r.held = <<>>
    <3>1. q = r.chain
      BY <1>1, <2>1, ConcatEmptySeq
    <3>2. a = h
      BY <1>2, <2>1, NothingSpans DEF InLine
    <3> QED BY <1>1, <1>2, <3>1, <3>2 DEF InLine
  <2>2. CASE r.held # <<>>
    <3>1. r.chain = <<>>
      BY <1>1, <2>2 DEF Sane
    <3>2. q = r.held
      BY <1>1, <3>1, ConcatEmptySeq
    <3>3. a = b
      BY <1>2, <3>1, NothingSpans DEF InLine
    <3> QED BY <1>1, <1>2, <2>2, <3>2, <3>3 DEF InLine
  <2> QED BY <2>1, <2>2
<1> HIDE DEF q
<1>5. /\ t \in RelayClient /\ t.at = x /\ t.disposed = r.disposed /\ t.closed = r.closed /\ t.sock = r.sock
      /\ t.keys = TRUE /\ t.held = <<>> /\ t.chain = q /\ t.busy = r.busy /\ t.got = r.got /\ t.wire = r.wire
      /\ t.spoiled = r.spoiled /\ t.path = r.path /\ t.relay = r.relay /\ t.pushed = r.pushed
  BY <1>1, <1>4 DEF RelayClient
<1> HIDE DEF t
<1>6. Sane(t)
  BY <1>1, <1>4, <1>5 DEF Sane
<1>7. InLine(t, h, h, b, z)
  BY <1>2, <1>3, <1>4, <1>5 DEF InLine
<1> QED BY <1>2, <1>5, <1>6, <1>7 DEF ClientInv, t, q

-----------------------------------------------------------------------------
\* The invariant of the session.

\* One attempt at a time, and every object but the session's own was let go.
LinkInv ==
  /\ rc = [c \in RelayClients |-> rc[c]]
  /\ client \in RelayClients \cup {"none"} /\ opening \in BOOLEAN
  /\ \A c \in RelayClients :
       /\ ClientInv(rc[c])
       /\ rc[c].disposed => rc[c].at # "none"
       /\ rc[c].at # "none" => opening
       /\ c # client => rc[c] = Fresh \/ rc[c].disposed
  /\ \A c, d \in RelayClients : rc[c].at # "none" /\ rc[d].at # "none" => c = d

LEMMA LinkInvInit == ClientLinkInit => LinkInv
BY FreshIsSound DEF ClientLinkInit, LinkInv

LEMMA LinkInvStutters ==
  LinkInv /\ rc' = rc /\ client' = client /\ opening' = opening => LinkInv'
BY DEF LinkInv

\* A step of one object, which may be the end of its attempt.
LEMMA BecomesIsSound ==
  ASSUME LinkInv, NEW c \in RelayClients, rc[c] # Fresh,
         NEW r, ClientInv(r), r.disposed = rc[c].disposed, Becomes(c, r),
         client' = client, opening' \in BOOLEAN, r.at # "none" => rc[c].at # "none" /\ opening',
         opening' = opening \/ rc[c].at # "none"
  PROVE  LinkInv'
<1> DEFINE k == Kept(r)
<1>1. ClientInv(k) /\ (k.disposed => k.at # "none") /\ k.at = r.at /\ (r.disposed => k = Fresh \/ k.disposed)
  BY KeptIsSound
<1>2. rc' = [rc EXCEPT ![c] = k]
  BY DEF Becomes
<1> HIDE DEF k
<1>3. rc'[c] = k /\ \A d \in RelayClients : d # c => rc'[d] = rc[d]
  BY <1>2 DEF LinkInv
<1>4. rc' = [d \in RelayClients |-> rc'[d]]
  BY <1>2 DEF LinkInv
<1>5. \A d \in RelayClients : rc'[d].at # "none" => rc[d].at # "none"
  BY <1>1, <1>3
<1>6. \A d \in RelayClients :
        /\ ClientInv(rc'[d])
        /\ rc'[d].disposed => rc'[d].at # "none"
        /\ d # client => rc'[d] = Fresh \/ rc'[d].disposed
  BY <1>1, <1>3 DEF LinkInv
<1>7. \A d \in RelayClients : rc'[d].at # "none" => opening'
  <2> TAKE d \in RelayClients
  <2>1. CASE d = c
    BY <1>1, <1>3, <2>1
  <2>2. CASE d # c
    BY <1>3, <2>2 DEF LinkInv
  <2> QED BY <2>1, <2>2
<1>8. \A d, e \in RelayClients : rc'[d].at # "none" /\ rc'[e].at # "none" => d = e
  BY <1>5 DEF LinkInv
<1> QED BY <1>4, <1>6, <1>7, <1>8 DEF LinkInv

LEMMA LetGoIsSound ==
  ASSUME LinkInv, Quiet
  PROVE  /\ LetGo = [c \in RelayClients |-> LetGo[c]]
         /\ \A c \in RelayClients :
              /\ ClientInv(LetGo[c])
              /\ LetGo[c].disposed => LetGo[c].at # "none"
              /\ LetGo[c] = Fresh \/ LetGo[c].disposed
              /\ LetGo[c].at = IF c = client /\ Woken(rc[c]) THEN "none" ELSE rc[c].at
<1> DEFINE l == LetGo
<1>1. l = [c \in RelayClients |-> l[c]]
  BY DEF LetGo, LinkInv
<1>2. ASSUME NEW c \in RelayClients
      PROVE  /\ ClientInv(l[c])
             /\ l[c].disposed => l[c].at # "none"
             /\ l[c] = Fresh \/ l[c].disposed
             /\ l[c].at = IF c = client /\ Woken(rc[c]) THEN "none" ELSE rc[c].at
  <2>1. CASE c = client
    <3>1. l[c] = Disposed(rc[c])
      BY <2>1, ClientLinkAssumption DEF LetGo, LinkInv
    <3>2. ClientInv(rc[c]) /\ (rc[c].chain = <<>> \/ rc[c].busy)
      BY DEF LinkInv, Quiet
    <3> QED BY <2>1, <3>1, <3>2, DisposedIsSound
  <2>2. CASE c # client
    <3>1. l[c] = rc[c]
      BY <2>2 DEF LetGo, LinkInv
    <3> QED BY <2>2, <3>1 DEF LinkInv
  <2> QED BY <2>1, <2>2
<1> QED BY <1>1, <1>2

\* The session gives its object up and begins no new one.
LEMMA GivenUpIsSound ==
  ASSUME LinkInv, Quiet, rc' = LetGo, client' = "none",
         opening' = (opening /\ (client = "none" \/ ~Woken(rc[client])))
  PROVE  LinkInv'
<1>1. /\ rc' = [c \in RelayClients |-> rc'[c]]
      /\ \A c \in RelayClients :
           /\ ClientInv(rc'[c])
           /\ rc'[c].disposed => rc'[c].at # "none"
           /\ rc'[c] = Fresh \/ rc'[c].disposed
           /\ rc'[c].at = IF c = client /\ Woken(rc[c]) THEN "none" ELSE rc[c].at
  BY LetGoIsSound
<1>2. opening' \in BOOLEAN
  BY DEF LinkInv
<1>3. \A c, d \in RelayClients : rc'[c].at # "none" /\ rc'[d].at # "none" => c = d
  BY <1>1 DEF LinkInv
<1>4. \A c \in RelayClients : rc'[c].at # "none" => opening'
  <2> SUFFICES ASSUME NEW c \in RelayClients, rc'[c].at # "none" PROVE opening'
    OBVIOUS
  <2>1. rc[c].at # "none" /\ ~(c = client /\ Woken(rc[c]))
    BY <1>1
  <2>2. opening
    BY <2>1 DEF LinkInv
  <2>3. client # "none" => ~Woken(rc[client])
    BY <2>1 DEF LinkInv, Woken
  <2> QED BY <2>2, <2>3
<1> QED BY <1>1, <1>2, <1>3, <1>4 DEF LinkInv

\* With no attempt under way every object was let go for good, so there is a fresh one.
LEMMA OpenIsSound ==
  ASSUME LinkInv, Quiet, Open
  PROVE  LinkInv'
<1>1. CASE opening
  BY <1>1, LinkInvStutters DEF Open
<1>2. CASE ~opening
  <2> DEFINE l == LetGo
             c == CHOOSE x \in RelayClients : l[x] = Fresh
             r == [Fresh EXCEPT !.at = "socket"]
  <2>1. \A d \in RelayClients : rc[d].at = "none"
    BY <1>2 DEF LinkInv
  <2>2. l = [d \in RelayClients |-> l[d]] /\ \A d \in RelayClients : l[d] = Fresh
    BY <2>1, LetGoIsSound
  <2>3. client' = c /\ rc' = [l EXCEPT ![c].at = "socket"] /\ opening' = TRUE
    BY <1>2 DEF Open
  <2> HIDE DEF l
  <2>4. c \in RelayClients
    BY <2>2, ClientLinkAssumption
  <2>5. ClientInv(r) /\ ~r.disposed
    <3>1. "socket" \in Ats
      BY DEF Ats
    <3> HIDE DEF c
    <3> QED BY <3>1, FreshIsSound, AtIsSound
  <2> HIDE DEF c, r
  <2>6. rc' = [d \in RelayClients |-> rc'[d]]
    BY <2>2, <2>3
  <2>7. rc'[c] = r /\ \A d \in RelayClients : d # c => rc'[d] = Fresh
    BY <2>2, <2>3, <2>4 DEF r
  <2> QED BY <2>3, <2>4, <2>5, <2>6, <2>7, FreshIsSound DEF LinkInv
<1> QED BY <1>1, <1>2 DEF LinkInv

-----------------------------------------------------------------------------
\* Every step keeps the invariant.

LEMMA AttemptsKeep ==
  ASSUME LinkInv, NEW c \in RelayClients,
         Reached(c) \/ Unreached(c) \/ NoAck(c) \/ StatusEnds(c) \/ SubscribeEnds(c)
  PROVE  LinkInv'
<1> DEFINE r == rc[c]
           t == [r EXCEPT !.at = "ack", !.sock = "open", !.path = "up",
                          !.relay = IF r.closed THEN "none" ELSE "hello"]
           u(x) == [r EXCEPT !.at = x]
<1>1. ClientInv(r) /\ opening \in BOOLEAN /\ (r.at # "none" => r # Fresh /\ opening)
  BY FreshIsSound DEF LinkInv
<1>2. \A x \in {"none", "subscribe"} : ClientInv(u(x)) /\ u(x).disposed = r.disposed /\ u(x).at = x
  <2>1. \A x \in {"none", "subscribe"} : x \in Ats /\ x # "socket"
    BY DEF Ats
  <2> QED BY <1>1, <2>1, AtIsSound
<1>3. CASE Reached(c)
  <2>1. r.at = "socket" /\ Becomes(c, t) /\ client' = client /\ opening' = opening
    BY <1>3 DEF Reached, Awaits, session
  <2>2. ClientInv(t) /\ t.disposed = r.disposed /\ t.at = "ack"
    BY <1>1, <2>1, ReachedIsSound
  <2> HIDE DEF t
  <2> QED BY <1>1, <2>1, <2>2, BecomesIsSound
<1>4. CASE Unreached(c) \/ NoAck(c)
  <2>1. r.at # "none" /\ Becomes(c, u("none")) /\ client' = client /\ opening' = FALSE
    BY <1>4 DEF Unreached, NoAck, Awaits, Throws
  <2> DEFINE v == u("none")
  <2>2. Becomes(c, v) /\ ClientInv(v) /\ v.disposed = r.disposed /\ v.at = "none"
    BY <1>2, <2>1
  <2> HIDE DEF v, u
  <2> QED BY <1>1, <2>1, <2>2, BecomesIsSound
<1>5. CASE StatusEnds(c) \/ SubscribeEnds(c)
  <2>1. /\ r.at # "none" /\ client' = client
        /\ \E x \in {"none", "subscribe"} : Becomes(c, u(x)) /\ opening' = (x # "none")
    BY <1>5 DEF StatusEnds, SubscribeEnds, Awaits
  <2>2. PICK x \in {"none", "subscribe"} : Becomes(c, u(x)) /\ opening' = (x # "none")
    BY <2>1
  <2> DEFINE v == u(x)
  <2>3. Becomes(c, v) /\ ClientInv(v) /\ v.disposed = r.disposed /\ v.at = x
    BY <1>2, <2>2
  <2> HIDE DEF v, u
  <2> QED BY <1>1, <2>1, <2>2, <2>3, BecomesIsSound
<1> QED BY <1>3, <1>4, <1>5

LEMMA KeysKeep ==
  ASSUME LinkInv, NEW c \in RelayClients, KeysDerived(c) \/ KeysFail(c)
  PROVE  LinkInv'
<1> DEFINE r == rc[c]
           x == IF r.at = "keys" THEN "status" ELSE r.at
           y == IF r.at = "keys" THEN "none" ELSE r.at
           t == [r EXCEPT !.deriving = FALSE, !.keys = TRUE, !.held = <<>>,
                          !.chain = @ \o r.held, !.at = x]
           u == [r EXCEPT !.deriving = FALSE, !.at = y]
<1>1. /\ ClientInv(r) /\ r \in RelayClient /\ opening \in BOOLEAN /\ (r.at # "none" => opening)
      /\ r.deriving /\ r # Fresh /\ (r.chain = <<>> \/ r.busy)
  BY FreshIsSound DEF LinkInv, ClientInv, KeysDerived, KeysFail, Quiet
<1>2. /\ x \in Ats
      /\ y \in Ats
      /\ (x = "socket" => r.at = "socket") /\ (y = "socket" => r.at = "socket")
      /\ (x # "none" => r.at # "none") /\ (y # "none" => r.at # "none") /\ (r.at # "keys" => y = r.at)
      /\ (r.at = "keys" => y = "none")
  BY <1>1 DEF RelayClient, Ats
<1>3. CASE KeysDerived(c)
  <2>1. Becomes(c, t) /\ client' = client /\ opening' = opening
    BY <1>3 DEF KeysDerived
  <2> HIDE DEF x
  <2>2. ClientInv(t) /\ t.disposed = r.disposed /\ t.at = x
    BY <1>1, <1>2, KeysAreSound
  <2> HIDE DEF t
  <2> QED BY <1>1, <1>2, <2>1, <2>2, BecomesIsSound
<1>4. CASE KeysFail(c)
  <2>1. Becomes(c, u) /\ client' = client /\ opening' = (opening /\ r.at # "keys")
    BY <1>1, <1>4 DEF KeysFail, Throws, session
  <2> HIDE DEF y
  <2>2. ClientInv(u) /\ u.disposed = r.disposed /\ u.at = y
    BY <1>1, <1>2, DerivedIsSound
  <2> HIDE DEF u
  <2> QED BY <1>1, <1>2, <2>1, <2>2, BecomesIsSound
<1> QED BY <1>3, <1>4

LEMMA RelayKeeps ==
  ASSUME LinkInv, NEW c \in RelayClients,
         \/ RelayGreets(c) \/ \E kind \in {"small", "large"} : Push(c, kind)
         \/ Silence(c) \/ SocketEnds(c) \/ Spoil(c)
  PROVE  LinkInv'
<1> DEFINE r == rc[c]
           g == [r EXCEPT !.relay = "linked", !.wire = Append(@, Frame("ack", 0))]
           l == [r EXCEPT !.path = "silent", !.wire = <<>>]
           e == [r EXCEPT !.path = "ended"]
           s == [r EXCEPT !.wire[1].kind = "spoiled"]
<1>1. ClientInv(r) /\ opening \in BOOLEAN /\ (r.at # "none" => opening)
  BY DEF LinkInv
<1>2. r.sock = "open" \/ r.wire # <<>> => r # Fresh
  BY FreshIsSound
<1>3. CASE RelayGreets(c)
  <2>1. r.relay = "hello" /\ r.sock = "open" /\ Becomes(c, g) /\ client' = client /\ opening' = opening
    BY <1>3 DEF RelayGreets, session
  <2>2. ClientInv(g) /\ g.disposed = r.disposed /\ g.at = r.at
    BY <1>1, <2>1, PongIsSound
  <2> HIDE DEF g
  <2> QED BY <1>1, <1>2, <2>1, <2>2, BecomesIsSound
<1>4. ASSUME NEW kind \in {"small", "large"}, Push(c, kind) PROVE LinkInv'
  <2> DEFINE p == [r EXCEPT !.pushed = @ + 1, !.wire = Append(@, Frame(kind, r.pushed + 1))]
  <2>1. r.path = "up" /\ r.sock = "open" /\ Becomes(c, p) /\ client' = client /\ opening' = opening
    BY <1>4 DEF Push, session
  <2>2. ClientInv(p) /\ p.disposed = r.disposed /\ p.at = r.at
    BY <1>1, <2>1, PushIsSound
  <2> HIDE DEF p
  <2> QED BY <1>1, <1>2, <2>1, <2>2, BecomesIsSound
<1>5. CASE Silence(c)
  <2>1. r.sock = "open" /\ Becomes(c, l) /\ client' = client /\ opening' = opening
    BY <1>5 DEF Silence, Happens, session
  <2>2. ClientInv(l) /\ l.disposed = r.disposed /\ l.at = r.at
    BY <1>1, <2>1, LostIsSound
  <2> HIDE DEF l
  <2> QED BY <1>1, <1>2, <2>1, <2>2, BecomesIsSound
<1>6. CASE SocketEnds(c)
  <2>1. r.sock = "open" /\ Becomes(c, e) /\ client' = client /\ opening' = opening
    BY <1>6 DEF SocketEnds, Happens, session
  <2>2. ClientInv(e) /\ e.disposed = r.disposed /\ e.at = r.at
    BY <1>1, <2>1, LostIsSound
  <2> HIDE DEF e
  <2> QED BY <1>1, <1>2, <2>1, <2>2, BecomesIsSound
<1>7. CASE Spoil(c)
  <2>1. r.wire # <<>> /\ Head(r.wire).kind \in {"small", "large"} /\ Becomes(c, s) /\ client' = client /\ opening' = opening
    BY <1>7 DEF Spoil, Happens, session
  <2>2. ClientInv(s) /\ s.disposed = r.disposed /\ s.at = r.at
    BY <1>1, <2>1, SpoilIsSound
  <2> HIDE DEF s
  <2> QED BY <1>1, <1>2, <2>1, <2>2, BecomesIsSound
<1> QED BY <1>3, <1>4, <1>5, <1>6, <1>7

LEMMA FramesKeep ==
  ASSUME LinkInv, NEW c \in RelayClients, Arrive(c) \/ Dispatch(c) \/ WorkerDone(c)
  PROVE  LinkInv'
<1> DEFINE r == rc[c]
           f == Head(r.chain)
           x == IF r.at = "ack" THEN "keys" ELSE r.at
           w == [r EXCEPT !.wire = Tail(@), !.chain = Append(@, Head(r.wire))]
           k == [r EXCEPT !.chain = Tail(@), !.deriving = TRUE, !.at = x]
           h == [r EXCEPT !.chain = Tail(@), !.held = Append(@, f)]
           b == [r EXCEPT !.busy = TRUE]
           o == [r EXCEPT !.chain = Tail(@), !.busy = FALSE,
                          !.got = IF f.kind \in {"small", "large"} THEN Append(@, f.n) ELSE @,
                          !.spoiled = IF f.kind = "spoiled" THEN @ \cup {f.n} ELSE @]
<1>1. ClientInv(r) /\ r \in RelayClient /\ Sane(r) /\ opening \in BOOLEAN /\ (r.at # "none" => opening)
  BY DEF LinkInv, ClientInv
<1>2. r.chain # <<>> \/ r.wire # <<>> => r # Fresh
  BY FreshIsSound
<1>3. ASSUME r.chain # <<>>, r.keys \/ r.busy, Opened(c, f) PROVE LinkInv'
  <2>1. Becomes(c, o) /\ client' = client /\ opening' = opening
    BY <1>3 DEF Opened
  <2>2. ClientInv(o) /\ o.disposed = r.disposed /\ o.at = r.at
    BY <1>1, <1>3, OpenedIsSound
  <2> HIDE DEF o
  <2> QED BY <1>1, <1>2, <1>3, <2>1, <2>2, BecomesIsSound
<1>4. CASE Arrive(c)
  <2>1. r.wire # <<>> /\ r.sock = "open" /\ Becomes(c, w) /\ client' = client /\ opening' = opening
    BY <1>4 DEF Arrive, session
  <2>2. ClientInv(w) /\ w.disposed = r.disposed /\ w.at = r.at
    BY <1>1, <2>1, ArriveIsSound
  <2> HIDE DEF w
  <2> QED BY <1>1, <1>2, <2>1, <2>2, BecomesIsSound
<1>5. CASE WorkerDone(c)
  <2>1. r.busy /\ Opened(c, f)
    BY <1>5 DEF WorkerDone
  <2>2. r.chain # <<>>
    BY <1>1, <2>1 DEF Sane
  <2> QED BY <1>3, <2>1, <2>2
<1>6. CASE Dispatch(c)
  <2>1. r.chain # <<>> /\ ~r.busy
    BY <1>6 DEF Dispatch
  <2>2. CASE f.kind = "ack"
    <3>1. Becomes(c, k) /\ client' = client /\ opening' = opening
      BY <1>6, <2>2 DEF Dispatch, session
    <3>2. /\ x \in Ats
          /\ (x = "socket" => r.at = "socket") /\ (x # "none" => r.at # "none") /\ (r.at # "none" => x # "none")
      BY <1>1 DEF RelayClient, Ats
    <3> HIDE DEF x
    <3>3. ClientInv(k) /\ k.disposed = r.disposed /\ k.at = x
      BY <1>1, <2>1, <2>2, <3>2, AckIsSound
    <3> HIDE DEF k
    <3> QED BY <1>1, <1>2, <2>1, <3>1, <3>2, <3>3, BecomesIsSound
  <2>3. CASE f.kind # "ack" /\ ~r.keys
    <3>1. Becomes(c, h) /\ client' = client /\ opening' = opening
      BY <1>6, <2>3 DEF Dispatch, session
    <3>2. ClientInv(h) /\ h.disposed = r.disposed /\ h.at = r.at
      BY <1>1, <2>1, <2>3, HeldIsSound
    <3> HIDE DEF h
    <3> QED BY <1>1, <1>2, <2>1, <3>1, <3>2, BecomesIsSound
  <2>4. CASE f.kind = "large" /\ r.keys
    <3>1. Becomes(c, b) /\ client' = client /\ opening' = opening
      BY <1>6, <2>4 DEF Dispatch, session
    <3>2. ClientInv(b) /\ b.disposed = r.disposed /\ b.at = r.at
      BY <1>1, <2>1, <2>4, BusyIsSound
    <3> HIDE DEF b
    <3> QED BY <1>1, <1>2, <2>1, <3>1, <3>2, BecomesIsSound
  <2>5. CASE f.kind \notin {"ack", "large"} /\ r.keys
    <3>1. Opened(c, f)
      BY <1>6, <2>5 DEF Dispatch
    <3> QED BY <1>3, <2>1, <2>5, <3>1
  <2> QED BY <2>2, <2>3, <2>4, <2>5
<1> QED BY <1>4, <1>5, <1>6

LEMMA LinkEndsKeeps ==
  ASSUME LinkInv, NEW c \in RelayClients, LinkEnds(c)
  PROVE  LinkInv'
<1> DEFINE r == rc[c]
           t == TornDown(r)
<1>1. /\ ClientInv(r) /\ r \in RelayClient /\ opening \in BOOLEAN /\ (r.at # "none" => opening)
      /\ r # Fresh /\ (r.chain = <<>> \/ r.busy)
  BY FreshIsSound DEF LinkInv, ClientInv, LinkEnds, Quiet
<1>2. Becomes(c, t) /\ client' = client /\ opening' = (opening /\ ~Woken(r))
  BY DEF LinkEnds
<1>3. ClientInv(t) /\ t.disposed = r.disposed /\ t.at = IF Woken(r) THEN "none" ELSE r.at
  BY <1>1, TornDownIsSound
<1> HIDE DEF t
<1>4. Woken(r) => r.at # "none"
  BY DEF Woken
<1> QED BY <1>1, <1>2, <1>3, <1>4, BecomesIsSound

LEMMA SessionKeeps ==
  ASSUME LinkInv, PressConnect \/ PressDisconnect \/ RetryFires \/ RelayGoes \/ RelayReturns
  PROVE  LinkInv'
<1>1. CASE PressConnect
  BY <1>1, OpenIsSound DEF PressConnect, Press
<1>2. CASE PressDisconnect
  BY <1>2, GivenUpIsSound DEF PressDisconnect, Press
<1>3. CASE RetryFires
  BY <1>3, OpenIsSound, LinkInvStutters DEF RetryFires
<1>4. CASE RelayGoes \/ RelayReturns
  BY <1>4, LinkInvStutters DEF RelayGoes, RelayReturns, Happens, session
<1> QED BY <1>1, <1>2, <1>3, <1>4

LEMMA HeartbeatKeeps ==
  ASSUME LinkInv, Heartbeat
  PROVE  LinkInv'
<1>1. client \in RelayClients /\ Quiet
  BY DEF Heartbeat, LinkInv
<1>2. CASE beat # "on"
  BY <1>1, <1>2, GivenUpIsSound DEF Heartbeat
<1>3. CASE beat = "on" /\ rc[client].path # "up"
  BY <1>3, LinkInvStutters DEF Heartbeat
<1>4. CASE beat = "on" /\ rc[client].path = "up"
  <2> DEFINE r == rc[client]
             t == [r EXCEPT !.relay = r.relay, !.wire = Append(@, Frame("pong", 0))]
  <2>1. ClientInv(r) /\ r \in RelayClient
    BY <1>1 DEF LinkInv, ClientInv
  <2>2. ClientInv(t) /\ t.disposed = r.disposed /\ t.at = r.at
    BY <2>1, PongIsSound
  <2>3. t = [r EXCEPT !.wire = Append(@, Frame("pong", 0))]
    BY <2>1 DEF RelayClient
  <2>4. rc' = [rc EXCEPT ![client] = t] /\ client' = client /\ opening' = opening
    BY <1>4, <2>3 DEF Heartbeat
  <2> HIDE DEF t
  <2>5. rc'[client] = t /\ \A d \in RelayClients : d # client => rc'[d] = rc[d]
    BY <1>1, <2>4 DEF LinkInv
  <2>6. rc' = [d \in RelayClients |-> rc'[d]]
    BY <2>4 DEF LinkInv
  <2> QED BY <2>2, <2>4, <2>5, <2>6 DEF LinkInv
<1> QED BY <1>2, <1>3, <1>4

LEMMA LinkInvNext == LinkInv /\ [ClientLinkNext]_clientLinkVars => LinkInv'
<1> SUFFICES ASSUME LinkInv, [ClientLinkNext]_clientLinkVars PROVE LinkInv'
  OBVIOUS
<1>1. CASE UNCHANGED clientLinkVars
  BY <1>1, LinkInvStutters DEF clientLinkVars, session
<1>2. CASE PressConnect \/ PressDisconnect \/ RetryFires \/ RelayGoes \/ RelayReturns
  BY <1>2, SessionKeeps
<1>3. CASE Heartbeat
  BY <1>3, HeartbeatKeeps
<1>4. ASSUME NEW c \in RelayClients,
             \/ Runs(c) \/ KeysFail(c) \/ LinkEnds(c)
             \/ \E kind \in {"small", "large"} : Push(c, kind)
             \/ Silence(c) \/ SocketEnds(c) \/ Spoil(c)
      PROVE  LinkInv'
  BY <1>4, AttemptsKeep, KeysKeep, RelayKeeps, FramesKeep, LinkEndsKeeps DEF Runs
<1> QED BY <1>1, <1>2, <1>3, <1>4 DEF ClientLinkNext

-----------------------------------------------------------------------------
\* A connection the relay has admitted is the session's own, and what the session was
\* handed over it are the relay's messages in order, without a hole but for frames
\* that did not open, however often it connects, disconnects and loses the connection
\* (dispose, _drainFrames, _dispatch).
THEOREM OneLinkStaysInOrder == ClientLinkSpec => []OneLinkInOrder
<1>1. LinkInv => OneLinkInOrder
  <2> SUFFICES ASSUME LinkInv, NEW c \in RelayClients
               PROVE  /\ rc[c].relay = "linked" /\ rc[c].sock = "open" => c = client
                      /\ \A i \in DOMAIN rc[c].got :
                           \A n \in 1 .. rc[c].got[i] :
                             n \in rc[c].spoiled \/ \E j \in 1 .. i : rc[c].got[j] = n
                      /\ \A i, j \in DOMAIN rc[c].got : i < j => rc[c].got[i] < rc[c].got[j]
    BY DEF OneLinkInOrder
  <2>1. ClientInv(rc[c]) /\ (c # client => rc[c] = Fresh \/ rc[c].disposed)
    BY DEF LinkInv
  <2>2. rc[c].relay = "linked" /\ rc[c].sock = "open" => c = client
    BY <2>1, FreshIsSound DEF ClientInv, Sane
  <2>3. PICK h \in Nat : Handed(rc[c].got, rc[c].spoiled, h)
    BY <2>1 DEF ClientInv, InLine
  <2>4. DOMAIN rc[c].got = 1 .. Len(rc[c].got)
    BY <2>1, LenProperties DEF ClientInv, RelayClient
  <2> QED BY <2>2, <2>3, <2>4 DEF Handed
<1> QED BY <1>1, LinkInvInit, LinkInvNext, PTL DEF ClientLinkSpec
=============================================================================
