-------------------------- MODULE ConversationProofs --------------------------
(***************************************************************************)
(* Proofs about a conversation, for any sessions, records, tails, slices   *)
(* and pages: what is on its way from dsh over the sender to the client,   *)
(* together with what the client has folded, covers the session on the     *)
(* screen, so that when nothing is left to come its messages are shown.    *)
(***************************************************************************)
EXTENDS Conversation, WorkspaceRegistryProofs

-----------------------------------------------------------------------------
\* Queues.

LEMMA HeadTailIs ==
  ASSUME NEW T, NEW q \in Seq(T), q # <<>>
  PROVE  /\ Len(q) \in Nat \ {0} /\ Len(Tail(q)) = Len(q) - 1 /\ Len(Tail(q)) \in Nat
         /\ Head(q) = q[1] /\ Head(q) \in T /\ Tail(q) \in Seq(T)
         /\ \A i \in 1 .. Len(Tail(q)) : i + 1 \in 1 .. Len(q) /\ Tail(q)[i] = q[i + 1]
         /\ \A i \in 1 .. Len(q) : i = 1 \/ (i - 1 \in 1 .. Len(Tail(q)) /\ Tail(q)[i - 1] = q[i])
<1> DEFINE t == Tail(q)
           n == Len(q)
           m == Len(t)
<1>1. n \in Nat \ {0} /\ t \in Seq(T) /\ m = n - 1 /\ Head(q) \in T
  BY EmptySeq, HeadTailProperties
<1>2. \A i \in 1 .. m : t[i] = q[i + 1]
  BY HeadTailProperties
<1>3. Head(q) = q[1]
  BY <1>1
<1> HIDE DEF t, n, m
<1>4. m \in Nat /\ \A i \in 1 .. m : i + 1 \in 1 .. n
  BY <1>1
<1>5. ASSUME NEW i \in 1 .. n PROVE i = 1 \/ (i - 1 \in 1 .. m /\ t[i - 1] = q[i])
  <2>1. CASE i # 1
    <3> DEFINE k == i - 1
    <3>1. k \in 1 .. m /\ k + 1 = i
      BY <1>1, <2>1
    <3> HIDE DEF k
    <3>2. t[k] = q[i]
      BY <1>2, <3>1
    <3> QED BY <3>1, <3>2 DEF k
  <2> QED BY <2>1
<1> QED BY <1>1, <1>2, <1>3, <1>4, <1>5 DEF t, n, m

LEMMA AppendIs ==
  ASSUME NEW T, NEW q \in Seq(T), NEW x \in T
  PROVE  /\ Len(q) \in Nat /\ Append(q, x) \in Seq(T) /\ Len(Append(q, x)) = Len(q) + 1
         /\ Append(q, x)[Len(q) + 1] = x
         /\ \A i \in 1 .. Len(q) : i \in 1 .. Len(q) + 1 /\ Append(q, x)[i] = q[i]
         /\ \A i \in 1 .. Len(q) + 1 : i \in 1 .. Len(q) \/ i = Len(q) + 1
<1>1. Len(q) \in Nat
  BY LenProperties
<1>2. Append(q, x) \in Seq(T) /\ Len(Append(q, x)) = Len(q) + 1 /\ Append(q, x)[Len(q) + 1] = x
  BY AppendProperties, Zenon
<1>3. \A i \in 1 .. Len(q) : Append(q, x)[i] = q[i]
  BY AppendProperties
<1>4. /\ \A i \in 1 .. Len(q) : i \in 1 .. Len(q) + 1
      /\ \A i \in 1 .. Len(q) + 1 : i \in 1 .. Len(q) \/ i = Len(q) + 1
  BY <1>1
<1> QED BY <1>1, <1>2, <1>3, <1>4

-----------------------------------------------------------------------------
\* Types.

Rows == [session : TalkSessions, seq : Nat \ {0}]
Transcripts == [rows : Seq(Rows), chunks : SUBSET Nat, oldest : Nat]

Requests == [type : {"subscribe", "unsubscribe"}, session : TalkSessions]
              \cup [type : {"page"}, session : TalkSessions, before : Nat \ {0}]
Heard == [type : {"snapshot", "event"}, id : Nat, seq : Nat]

AllOf(s, rows) == \A i \in 1 .. Len(rows) : rows[i].session = s

\* Messages to the client: rows are all of the session they are sent for, and an event
\* is one row.
Carrying == [type : {"snapshot", "event", "page"}, session : TalkSessions, rows : Seq(Rows)]
Letters == {m \in Carrying : AllOf(m.session, m.rows) /\ (m.type = "event" => Len(m.rows) = 1)}
             \cup [type : {"refused"}]

Followed == [id : Nat, session : TalkSessions, cursor : Nat]
Sources == [id : Nat, session : TalkSessions, sent : Nat]

TalkTypes ==
  /\ log \in [TalkSessions -> Seq(Kinds)]
  /\ sources \subseteq Sources /\ table \subseteq Followed
  /\ talkFrames \in Seq(Heard) /\ nextId \in Nat
  /\ asks \in Seq(Requests) /\ mail \in Seq(Letters)
  /\ open \in TalkSessions \cup {"none"}
  /\ items \in Seq(Rows) /\ unfolded \in Seq(Rows)
  /\ chunks \subseteq Nat /\ oldest \in Nat
  /\ loading \in {"no", "asked", "stale"} /\ torn \in BOOLEAN

LEMMA RowIs ==
  /\ \A r \in Rows : r.session \in TalkSessions /\ r.seq \in Nat \ {0} /\ r = [session |-> r.session, seq |-> r.seq]
  /\ \A s \in TalkSessions, n \in Nat \ {0} :
       /\ [session |-> s, seq |-> n] \in Rows
       /\ [session |-> s, seq |-> n].session = s /\ [session |-> s, seq |-> n].seq = n
BY DEF Rows

LEMMA TranscriptIs ==
  /\ \A t \in Transcripts : t.rows \in Seq(Rows) /\ t.chunks \subseteq Nat /\ t.oldest \in Nat
  /\ \A rows \in Seq(Rows), c \in SUBSET Nat, o \in Nat :
       [rows |-> rows, chunks |-> c, oldest |-> o] \in Transcripts
BY DEF Transcripts

LEMMA RequestIs ==
  /\ \A a \in Requests : /\ a.session \in TalkSessions
                         /\ a.type \in {"subscribe", "unsubscribe", "page"}
                         /\ a.type = "page" => a.before \in Nat \ {0}
  /\ \A s \in TalkSessions : \A ty \in {"subscribe", "unsubscribe"} :
       Ask(ty, s) \in Requests /\ Ask(ty, s).type = ty /\ Ask(ty, s).session = s
  /\ \A s \in TalkSessions, n \in Nat \ {0} :
       LET a == [type |-> "page", session |-> s, before |-> n]
       IN  a \in Requests /\ a.type = "page" /\ a.session = s /\ a.before = n
BY DEF Requests, Ask

LEMMA HeardIs ==
  /\ \A h \in Heard : h.type \in {"snapshot", "event"} /\ h.id \in Nat /\ h.seq \in Nat
  /\ \A ty \in {"snapshot", "event"}, i \in Nat, n \in Nat :
       LET h == [type |-> ty, id |-> i, seq |-> n]
       IN  h \in Heard /\ h.type = ty /\ h.id = i /\ h.seq = n
BY DEF Heard

LEMMA LetterIs ==
  /\ \A m \in Letters :
       /\ m.type \in {"snapshot", "event", "page", "refused"}
       /\ m.type # "refused" => m.session \in TalkSessions /\ m.rows \in Seq(Rows) /\ AllOf(m.session, m.rows)
       /\ m.type = "event" => Len(m.rows) = 1
  /\ \A ty \in {"snapshot", "event", "page"}, s \in TalkSessions : \A rows \in Seq(Rows) :
       AllOf(s, rows) /\ (ty = "event" => Len(rows) = 1) =>
         LET m == [type |-> ty, session |-> s, rows |-> rows]
         IN  m \in Letters /\ m.type = ty /\ m.session = s /\ m.rows = rows
  /\ [type |-> "refused"] \in Letters /\ [type |-> "refused"].type = "refused"
<1>1. ASSUME NEW m \in Letters
      PROVE  /\ m.type \in {"snapshot", "event", "page", "refused"}
             /\ m.type # "refused" => m.session \in TalkSessions /\ m.rows \in Seq(Rows) /\ AllOf(m.session, m.rows)
             /\ m.type = "event" => Len(m.rows) = 1
  <2>1. CASE m \in Carrying /\ AllOf(m.session, m.rows) /\ (m.type = "event" => Len(m.rows) = 1)
    BY <2>1 DEF Carrying
  <2>2. CASE m \in [type : {"refused"}]
    BY <2>2
  <2> QED BY <2>1, <2>2 DEF Letters
<1>2. ASSUME NEW ty \in {"snapshot", "event", "page"}, NEW s \in TalkSessions, NEW rows \in Seq(Rows),
             AllOf(s, rows), ty = "event" => Len(rows) = 1
      PROVE  LET m == [type |-> ty, session |-> s, rows |-> rows]
             IN  m \in Letters /\ m.type = ty /\ m.session = s /\ m.rows = rows
  <2> DEFINE m == [type |-> ty, session |-> s, rows |-> rows]
  <2>1. m \in Carrying /\ m.type = ty /\ m.session = s /\ m.rows = rows
    BY DEF Carrying
  <2> HIDE DEF m
  <2>2. m \in Letters
    BY <1>2, <2>1 DEF Letters
  <2> QED BY <2>1, <2>2 DEF m
<1>3. [type |-> "refused"] \in Letters /\ [type |-> "refused"].type = "refused"
  BY DEF Letters
<1> QED BY <1>1, <1>2, <1>3

LEMMA FollowedIs ==
  /\ \A f \in Followed : f.id \in Nat /\ f.session \in TalkSessions /\ f.cursor \in Nat
  /\ \A i \in Nat, s \in TalkSessions, n \in Nat :
       LET f == [id |-> i, session |-> s, cursor |-> n]
       IN  f \in Followed /\ f.id = i /\ f.session = s /\ f.cursor = n
  /\ \A f \in Followed, n \in Nat :
       LET g == [f EXCEPT !.cursor = n]
       IN  g \in Followed /\ g.id = f.id /\ g.session = f.session /\ g.cursor = n
BY DEF Followed

LEMMA SourceIs ==
  /\ \A x \in Sources : x.id \in Nat /\ x.session \in TalkSessions /\ x.sent \in Nat
  /\ \A i \in Nat, s \in TalkSessions, n \in Nat :
       LET x == [id |-> i, session |-> s, sent |-> n]
       IN  x \in Sources /\ x.id = i /\ x.session = s /\ x.sent = n
  /\ \A x \in Sources :
       LET y == [x EXCEPT !.sent = @ + 1]
       IN  y \in Sources /\ y.id = x.id /\ y.session = x.session /\ y.sent = x.sent + 1
BY DEF Sources

-----------------------------------------------------------------------------
\* The records of a session as rows, the fold of rows, and their order.

Seqs(rows) == {rows[i].seq : i \in 1 .. Len(rows)}

LEMMA SeqsRange ==
  ASSUME NEW rows \in Seq(Rows)
  PROVE  /\ Seqs(rows) = {r.seq : r \in Range(rows)} /\ Seqs(rows) \subseteq Nat \ {0}
         /\ \A s : AllOf(s, rows) <=> \A r \in Range(rows) : r.session = s
         /\ Seqs(<<>>) = {} /\ \A s : AllOf(s, <<>>)
<1>1. Range(rows) = {rows[i] : i \in 1 .. Len(rows)} /\ \A i \in 1 .. Len(rows) : rows[i] \in Rows
  BY RangeIs, ElementOfSeq
<1>2. Seqs(rows) = {r.seq : r \in Range(rows)}
  BY <1>1 DEF Seqs
<1>3. Seqs(rows) \subseteq Nat \ {0}
  BY <1>1, RowIs DEF Seqs
<1>4. \A s : AllOf(s, rows) <=> \A r \in Range(rows) : r.session = s
  BY <1>1 DEF AllOf
<1>5. Len(<<>>) = 0 /\ 1 .. 0 = {}
  OBVIOUS
<1>6. Seqs(<<>>) = {} /\ \A s : AllOf(s, <<>>)
  BY <1>5 DEF Seqs, AllOf
<1> QED BY <1>2, <1>3, <1>4, <1>6

LEMMA WantedIs ==
  ASSUME NEW s \in TalkSessions, NEW from \in Nat \ {0}, NEW to \in Nat
  PROVE  /\ Wanted(s, from, to) \in Seq(Rows) /\ AllOf(s, Wanted(s, from, to))
         /\ Seqs(Wanted(s, from, to)) = {n \in from .. to : log[s][n] # "ignored"}
<1> DEFINE N == to - from + 1
           R(n) == [session |-> s, seq |-> n]
           all == [i \in 1 .. N |-> R(from + i - 1)]
           wanted == {m \in from .. to : log[s][m] # "ignored"}
           good == {R(n) : n \in wanted}
           w == Kept(all, good)
<1>1. w = Wanted(s, from, to)
  BY DEF Wanted
<1>2. \A n \in Nat \ {0} : R(n) \in Rows /\ R(n).session = s /\ R(n).seq = n
  BY RowIs
<1>3. N \in Int /\ \A n \in from .. to : n \in Nat \ {0}
  OBVIOUS
<1> HIDE DEF R
<1>4. all \in Seq(Rows) /\ Range(all) = {R(n) : n \in from .. to}
  <2>1. CASE N \in Nat
    <3>1. \A i \in 1 .. N : from + i - 1 \in from .. to
      BY <2>1
    <3>2. \A i \in 1 .. N : all[i] \in Rows /\ all[i] = R(from + i - 1)
      BY <1>2, <1>3, <3>1
    <3>3. \A n \in from .. to : n - from + 1 \in 1 .. N /\ from + (n - from + 1) - 1 = n
      BY <2>1
    <3>4. DOMAIN all = 1 .. N
      OBVIOUS
    <3>5. \A n \in from .. to : \E i \in 1 .. N : all[i] = R(n)
      <4>1. SUFFICES ASSUME NEW n \in from .. to PROVE \E i \in 1 .. N : all[i] = R(n)
        OBVIOUS
      <4>2. PICK i \in 1 .. N : i = n - from + 1 /\ from + i - 1 = n
        BY <3>3
      <4> QED BY <3>2, <4>2
    <3>6. all \in [1 .. N -> Rows]
      BY <3>2
    <3> HIDE DEF all, N
    <3>7. all \in Seq(Rows)
      BY <2>1, <3>6
    <3>8. Range(all) = {all[i] : i \in 1 .. N}
      BY <3>4 DEF Range
    <3>9. Range(all) \subseteq {R(n) : n \in from .. to}
      BY <3>1, <3>2, <3>8
    <3>10. {R(n) : n \in from .. to} \subseteq Range(all)
      BY <3>5, <3>8
    <3> QED BY <3>7, <3>9, <3>10
  <2>2. CASE N \notin Nat
    <3>1. 1 .. N = {} /\ from .. to = {}
      BY <2>2
    <3>2. all = <<>>
      BY <3>1
    <3>3. Range(<<>>) = {} /\ <<>> \in Seq(Rows)
      BY DEF Range
    <3> QED BY <3>1, <3>2, <3>3
  <2> QED BY <2>1, <2>2
<1> HIDE DEF all
<1>5. w \in Seq(Rows) /\ Range(w) = Range(all) \cap good
  BY <1>4, KeptRange
<1> HIDE DEF w
<1>6. wanted \subseteq from .. to
  OBVIOUS
<1> HIDE DEF wanted
<1>7. \A r : r \in Range(w) <=> \E n \in wanted : r = R(n)
  BY <1>4, <1>5, <1>6
<1>8. \A n \in wanted : R(n).session = s /\ R(n).seq = n
  BY <1>2, <1>3, <1>6
<1>9. AllOf(s, w)
  BY <1>5, <1>7, <1>8, SeqsRange
<1>10. Seqs(w) = {r.seq : r \in Range(w)}
  BY <1>5, SeqsRange
<1>11. Seqs(w) = wanted
  BY <1>7, <1>8, <1>10
<1> QED BY <1>1, <1>5, <1>9, <1>11 DEF wanted

\* A transcript u has come of t by the rows of numbers ns of session s.
Gained(s, t, ns, u) ==
  /\ Seqs(t.rows) \subseteq Seqs(u.rows) /\ Seqs(u.rows) \subseteq Seqs(t.rows) \cup ns
  /\ \A n \in ns : log[s][n] = "message" => n \in Seqs(u.rows)
  /\ AllOf(s, t.rows) => AllOf(s, u.rows)
  /\ u.oldest \in {t.oldest} \cup ns /\ (t.oldest # 0 => u.oldest # 0 /\ u.oldest <= t.oldest)

LEMMA AppendRow ==
  ASSUME NEW rows \in Seq(Rows), NEW r \in Rows
  PROVE  /\ Append(rows, r) \in Seq(Rows) /\ Seqs(Append(rows, r)) = Seqs(rows) \cup {r.seq}
         /\ \A s : AllOf(s, rows) /\ r.session = s => AllOf(s, Append(rows, r))
<1> DEFINE a == Append(rows, r)
<1>1. a \in Seq(Rows)
  BY AppendProperties, Zenon
<1>2. Range(a) = Range(rows) \cup {r}
  BY AppendRange
<1> HIDE DEF a
<1>3. Seqs(a) = {x.seq : x \in Range(a)} /\ Seqs(rows) = {x.seq : x \in Range(rows)}
  BY <1>1, SeqsRange
<1>4. \A s : AllOf(s, rows) /\ r.session = s => AllOf(s, a)
  BY <1>1, <1>2, SeqsRange
<1> QED BY <1>1, <1>2, <1>3, <1>4 DEF a

LEMMA FoldRowIs ==
  ASSUME NEW t \in Transcripts, NEW r \in Rows
  PROVE  FoldRow(t, r) \in Transcripts /\ Gained(r.session, t, {r.seq}, FoldRow(t, r))
<1> DEFINE s == r.session
           k == r.seq
           kind == log[s][k]
           seen == \E i \in DOMAIN t.rows : t.rows[i].seq = k
           new == kind # "ignored" /\ ~seen /\ (kind = "chunk" => k \notin t.chunks)
           rows == IF new THEN Append(t.rows, r) ELSE t.rows
           chs == IF kind = "chunk" THEN t.chunks \cup {k} ELSE t.chunks
           old == IF t.oldest = 0 \/ k < t.oldest THEN k ELSE t.oldest
           u == [rows |-> rows, chunks |-> chs, oldest |-> old]
<1>1. u = FoldRow(t, r)
  BY DEF FoldRow
<1>2. t.rows \in Seq(Rows) /\ t.chunks \subseteq Nat /\ t.oldest \in Nat /\ k \in Nat \ {0}
  BY TranscriptIs, RowIs
<1>3. u.rows = rows /\ u.oldest = old
  OBVIOUS
<1>4. /\ Append(t.rows, r) \in Seq(Rows) /\ Seqs(Append(t.rows, r)) = Seqs(t.rows) \cup {k}
      /\ AllOf(s, t.rows) => AllOf(s, Append(t.rows, r))
  BY <1>2, AppendRow
<1>5. seen => k \in Seqs(t.rows)
  BY <1>2, LenProperties DEF Seqs
<1>6. rows \in Seq(Rows) /\ chs \in SUBSET Nat /\ old \in Nat
  <2>1. chs \in SUBSET Nat /\ old \in Nat
    BY <1>2
  <2>2. rows \in Seq(Rows)
    BY <1>2, <1>4
  <2> QED BY <2>1, <2>2
<1>7. /\ Seqs(t.rows) \subseteq Seqs(rows) /\ Seqs(rows) \subseteq Seqs(t.rows) \cup {k}
      /\ AllOf(s, t.rows) => AllOf(s, rows)
  BY <1>4
<1>8. kind = "message" => k \in Seqs(rows)
  BY <1>4, <1>5
<1>9. old \in {t.oldest, k} /\ (t.oldest # 0 => old # 0 /\ old <= t.oldest)
  BY <1>2
<1>10. u \in Transcripts
  <2> HIDE DEF rows, chs, old
  <2> QED BY <1>6, TranscriptIs
<1> HIDE DEF u, rows, old
<1> QED BY <1>1, <1>3, <1>7, <1>8, <1>9, <1>10 DEF Gained

LEMMA FoldedIs ==
  ASSUME NEW t \in Transcripts, NEW rows \in Seq(Rows)
  PROVE  \E f \in [0 .. Len(rows) -> Transcripts] :
           /\ f[0] = t /\ f[Len(rows)] = Folded(t, rows)
           /\ \A n \in 1 .. Len(rows) : f[n] = FoldRow(f[n - 1], rows[n])
<1> DEFINE N == Len(rows)
           X == Transcripts
           Eq(f) == f = [n \in 0 .. N |-> IF n = 0 THEN t ELSE FoldRow(f[n - 1], rows[n])]
           c == CHOOSE f : Eq(f)
           step == [p \in (1 .. N) \X X |-> FoldRow(p[2], rows[p[1]])]
<1>1. N \in Nat /\ \A n \in 1 .. N : rows[n] \in Rows
  BY LenProperties, ElementOfSeq
<1>2. \A n \in 1 .. N, u \in X : FoldRow(u, rows[n]) \in X
  BY <1>1, FoldRowIs
<1>3. Folded(t, rows) = c[N]
  BY DEF Folded
<1> HIDE DEF N, X
<1>4. t \in X
  BY DEF X
<1>5. step \in [(1 .. N) \X X -> X]
  BY <1>2
<1>6. \A n \in 1 .. N, u \in X : step[<<n, u>>] = FoldRow(u, rows[n])
  OBVIOUS
<1> HIDE DEF step
<1>7. PICK f \in [0 .. N -> X] : Runs(f, N, t, step)
  BY <1>1, <1>4, <1>5, RunExists
<1>8. ASSUME NEW n \in 1 .. N PROVE f[n] = FoldRow(f[n - 1], rows[n])
  <2>1. n - 1 \in 0 .. N
    BY <1>1
  <2>2. f[n - 1] \in X
    BY <1>7, <2>1
  <2> QED BY <1>6, <1>7, <2>2 DEF Runs
<1>9. f[0] = t
  BY <1>7 DEF Runs
<1>10. Eq(f)
  <2>1. \A n \in 0 .. N : n = 0 \/ n \in 1 .. N
    BY <1>1
  <2>2. f = [n \in 0 .. N |-> f[n]]
    BY <1>7
  <2>3. ASSUME NEW n \in 0 .. N
        PROVE  f[n] = IF n = 0 THEN t ELSE FoldRow(f[n - 1], rows[n])
    BY <1>8, <1>9, <2>1
  <2> QED BY <2>2, <2>3
<1>11. Eq(c)
  BY <1>10
<1> HIDE DEF c
<1>12. c[0] = t
  BY <1>1, <1>11
<1>13. ASSUME NEW n \in 1 .. N PROVE c[n] = FoldRow(c[n - 1], rows[n])
  <2>1. n \in 0 .. N /\ n # 0
    BY <1>1
  <2> QED BY <1>11, <2>1
<1> DEFINE G == {n \in 0 .. N : c[n] = f[n]}
<1>14. 0 \in G
  BY <1>1, <1>9, <1>12
<1>15. ASSUME NEW n \in 1 .. N, n - 1 \in G PROVE n \in G
  BY <1>8, <1>13, <1>15
<1> HIDE DEF G
<1>16. N \in G
  <2>1. \A n \in 0 .. N : n \in G
    BY <1>1, <1>14, <1>15, CountingUp
  <2> QED BY <1>1, <2>1
<1>17. f[N] = Folded(t, rows)
  BY <1>3, <1>16 DEF G
<1> QED BY <1>7, <1>8, <1>9, <1>17 DEF N, X

LEMMA FoldGains ==
  ASSUME NEW t \in Transcripts, NEW rows \in Seq(Rows)
  PROVE  /\ Folded(t, rows) \in Transcripts
         /\ \A s : AllOf(s, rows) => Gained(s, t, Seqs(rows), Folded(t, rows))
<1> DEFINE N == Len(rows)
<1>1. N \in Nat /\ \A n \in 1 .. N : rows[n] \in Rows
  BY LenProperties, ElementOfSeq
<1>2. PICK f \in [0 .. N -> Transcripts] :
        /\ f[0] = t /\ f[N] = Folded(t, rows)
        /\ \A n \in 1 .. N : f[n] = FoldRow(f[n - 1], rows[n])
  BY FoldedIs
<1>3. Folded(t, rows) \in Transcripts
  <2>1. N \in 0 .. N
    BY <1>1
  <2> QED BY <1>2, <2>1
<1>4. ASSUME NEW s, AllOf(s, rows) PROVE Gained(s, t, Seqs(rows), Folded(t, rows))
  <2> DEFINE First(n) == {rows[i].seq : i \in 1 .. n}
             G == {n \in 0 .. N : Gained(s, t, First(n), f[n])}
  <2>1. First(N) = Seqs(rows) /\ \A n \in 1 .. N : rows[n].session = s
    BY <1>4 DEF Seqs, AllOf
  <2> HIDE DEF N
  <2>2. 0 \in G
    <3>1. First(0) = {}
      OBVIOUS
    <3>2. t.oldest \in Nat
      BY TranscriptIs
    <3>3. t.oldest <= t.oldest
      BY <3>2
    <3>4. Gained(s, t, First(0), t)
      BY <3>1, <3>3 DEF Gained
    <3> QED BY <1>1, <1>2, <3>4
  <2>3. ASSUME NEW n \in 1 .. N, n - 1 \in G PROVE n \in G
    <3> DEFINE u == f[n - 1]
               v == f[n]
               k == rows[n].seq
    <3>1. n \in 0 .. N /\ n - 1 \in 0 .. N
      BY <1>1
    <3>2. u \in Transcripts /\ v \in Transcripts /\ Gained(s, t, First(n - 1), u)
      BY <1>2, <2>3, <3>1
    <3>3. Gained(s, u, {k}, v)
      BY <1>1, <1>2, <2>1, <3>2, FoldRowIs
    <3>4. First(n) = First(n - 1) \cup {k}
      <4>1. \A i \in 1 .. n : i \in 1 .. n - 1 \/ i = n
        OBVIOUS
      <4>2. n \in 1 .. n /\ \A i \in 1 .. n - 1 : i \in 1 .. n
        OBVIOUS
      <4> QED BY <4>1, <4>2
    <3>5. t.oldest \in Nat /\ u.oldest \in Nat /\ v.oldest \in Nat
      BY <3>2, TranscriptIs
    <3> HIDE DEF u, v, k, First
    <3>6. /\ Seqs(t.rows) \subseteq Seqs(v.rows) /\ Seqs(v.rows) \subseteq Seqs(t.rows) \cup First(n)
          /\ \A m \in First(n) : log[s][m] = "message" => m \in Seqs(v.rows)
          /\ AllOf(s, t.rows) => AllOf(s, v.rows)
          /\ v.oldest \in {t.oldest} \cup First(n)
      BY <3>2, <3>3, <3>4 DEF Gained
    <3>7. t.oldest # 0 => v.oldest # 0 /\ v.oldest <= t.oldest
      <4>1. t.oldest # 0 => u.oldest # 0 /\ u.oldest <= t.oldest
        BY <3>2 DEF Gained
      <4>2. u.oldest # 0 => v.oldest # 0 /\ v.oldest <= u.oldest
        BY <3>3 DEF Gained
      <4> QED BY <3>5, <4>1, <4>2
    <3>8. Gained(s, t, First(n), v)
      BY <3>6, <3>7 DEF Gained
    <3> QED BY <3>1, <3>8 DEF v
  <2> HIDE DEF G
  <2>4. \A n \in 0 .. N : n \in G
    BY <1>1, <2>2, <2>3, CountingUp
  <2>5. N \in 0 .. N
    BY <1>1
  <2>6. Gained(s, t, First(N), f[N])
    BY <2>4, <2>5 DEF G
  <2> QED BY <1>2, <2>1, <2>6
<1> QED BY <1>3, <1>4

LEMMA InsertedIs ==
  ASSUME NEW s \in Seq(Rows), NEW r \in Rows
  PROVE  Inserted(s, r) \in Seq(Rows) /\ Range(Inserted(s, r)) = Range(s) \cup {r}
<1> DEFINE lo == {x \in Range(s) : x.seq <= r.seq}
           hi == {x \in Range(s) : x.seq > r.seq}
           p == Kept(s, lo)
           q == Kept(s, hi)
           m == p \o <<r>>
<1>1. p \in Seq(Rows) /\ Range(p) = lo /\ q \in Seq(Rows) /\ Range(q) = hi
  BY KeptRange
<1>2. \A x \in Range(s) : x.seq \in Nat /\ r.seq \in Nat
  BY RangeIs, ElementOfSeq, RowIs
<1>3. Range(s) = lo \cup hi
  BY <1>2
<1>4. Inserted(s, r) = m \o q
  BY DEF Inserted
<1> HIDE DEF p, q
<1>5. <<r>> \in Seq(Rows) /\ Range(<<r>>) = {r}
  BY DEF Range
<1> DEFINE one == <<r>>
<1>6. one \in Seq(Rows) /\ Range(one) = {r} /\ m = p \o one
  BY <1>5
<1> HIDE DEF m, one
<1>7. m \in Seq(Rows) /\ Range(m) = Range(p) \cup {r}
  <2>1. p \o one \in Seq(Rows)
    BY <1>1, <1>6, ConcatProperties
  <2>2. Range(p \o one) = Range(p) \cup Range(one)
    BY <1>1, <1>6, RangeConcatenation
  <2> QED BY <1>6, <2>1, <2>2
<1>8. m \o q \in Seq(Rows) /\ Range(m \o q) = Range(m) \cup Range(q)
  <2>1. m \o q \in Seq(Rows)
    BY <1>1, <1>7, ConcatProperties
  <2> QED BY <1>1, <1>7, <2>1, RangeConcatenation
<1> QED BY <1>1, <1>3, <1>4, <1>7, <1>8

LEMMA SortedIs ==
  ASSUME NEW rows \in Seq(Rows)
  PROVE  Sorted(rows) \in Seq(Rows) /\ Range(Sorted(rows)) = Range(rows)
<1> DEFINE N == Len(rows)
           X == Seq(Rows)
           Eq(f) == f = [n \in 0 .. N |-> IF n = 0 THEN <<>> ELSE Inserted(f[n - 1], rows[n])]
           c == CHOOSE f : Eq(f)
           step == [p \in (1 .. N) \X X |-> Inserted(p[2], rows[p[1]])]
           First(n) == {rows[i] : i \in 1 .. n}
<1>1. N \in Nat /\ <<>> \in X /\ \A n \in 1 .. N : rows[n] \in Rows
  BY LenProperties, EmptySeq, ElementOfSeq
<1>2. \A n \in 1 .. N, q \in X : Inserted(q, rows[n]) \in X
  BY <1>1, InsertedIs
<1>3. Sorted(rows) = c[N]
  BY DEF Sorted
<1>4. Range(rows) = First(N)
  BY RangeIs
<1> HIDE DEF N, X
<1>5. step \in [(1 .. N) \X X -> X]
  BY <1>2
<1>6. \A n \in 1 .. N, q \in X : step[<<n, q>>] = Inserted(q, rows[n])
  OBVIOUS
<1> HIDE DEF step
<1>7. PICK f \in [0 .. N -> X] : Runs(f, N, <<>>, step)
  BY <1>1, <1>5, RunExists
<1>8. ASSUME NEW n \in 1 .. N PROVE f[n] = Inserted(f[n - 1], rows[n])
  <2>1. n - 1 \in 0 .. N
    BY <1>1
  <2>2. f[n - 1] \in X
    BY <1>7, <2>1
  <2> QED BY <1>6, <1>7, <2>2 DEF Runs
<1>9. f[0] = <<>>
  BY <1>7 DEF Runs
<1>10. Eq(f)
  <2>1. \A n \in 0 .. N : n = 0 \/ n \in 1 .. N
    BY <1>1
  <2>2. f = [n \in 0 .. N |-> f[n]]
    BY <1>7
  <2>3. ASSUME NEW n \in 0 .. N
        PROVE  f[n] = IF n = 0 THEN <<>> ELSE Inserted(f[n - 1], rows[n])
    BY <1>8, <1>9, <2>1
  <2> QED BY <2>2, <2>3
<1>11. Eq(c)
  BY <1>10
<1> HIDE DEF c
<1>12. c[0] = <<>>
  BY <1>1, <1>11
<1>13. ASSUME NEW n \in 1 .. N PROVE c[n] = Inserted(c[n - 1], rows[n])
  <2>1. n \in 0 .. N /\ n # 0
    BY <1>1
  <2> QED BY <1>11, <2>1
<1> DEFINE G == {n \in 0 .. N : c[n] \in X /\ Range(c[n]) = First(n)}
<1>14. 0 \in G
  <2>1. First(0) = {} /\ Range(<<>>) = {}
    BY DEF Range
  <2> QED BY <1>1, <1>12, <2>1
<1>15. ASSUME NEW n \in 1 .. N, n - 1 \in G PROVE n \in G
  <2>1. First(n) = First(n - 1) \cup {rows[n]}
    <3>1. \A i \in 1 .. n : i \in 1 .. n - 1 \/ i = n
      OBVIOUS
    <3>2. n \in 1 .. n /\ \A i \in 1 .. n - 1 : i \in 1 .. n
      OBVIOUS
    <3> QED BY <3>1, <3>2
  <2> DEFINE q == c[n - 1]
  <2>2. q \in Seq(Rows) /\ Range(q) = First(n - 1) /\ rows[n] \in Rows /\ n \in 0 .. N
    BY <1>1, <1>15 DEF X
  <2> HIDE DEF q, First
  <2>3. Inserted(q, rows[n]) \in Seq(Rows) /\ Range(Inserted(q, rows[n])) = Range(q) \cup {rows[n]}
    BY <2>2, InsertedIs
  <2>4. c[n] = Inserted(q, rows[n])
    BY <1>13 DEF q
  <2> QED BY <2>1, <2>2, <2>3, <2>4 DEF X
<1> HIDE DEF G
<1>16. N \in G
  <2>1. \A n \in 0 .. N : n \in G
    BY <1>1, <1>14, <1>15, CountingUp
  <2> QED BY <1>1, <2>1
<1> QED BY <1>3, <1>4, <1>16 DEF G, X

\* Sorting changes neither the numbers nor whose rows they are.
LEMMA SortedSeqs ==
  ASSUME NEW rows \in Seq(Rows)
  PROVE  /\ Sorted(rows) \in Seq(Rows) /\ Seqs(Sorted(rows)) = Seqs(rows)
         /\ \A s : AllOf(s, rows) => AllOf(s, Sorted(rows))
<1> DEFINE q == Sorted(rows)
<1>1. q \in Seq(Rows) /\ Range(q) = Range(rows)
  BY SortedIs
<1> HIDE DEF q
<1>2. Seqs(q) = {r.seq : r \in Range(q)} /\ Seqs(rows) = {r.seq : r \in Range(rows)}
  BY <1>1, SeqsRange
<1>3. \A s : AllOf(s, rows) => AllOf(s, q)
  BY <1>1, SeqsRange
<1> QED BY <1>1, <1>2, <1>3 DEF q

\* A list cut in two.
LEMMA CutSeqs ==
  ASSUME NEW rows \in Seq(Rows), NEW n \in 0 .. Len(rows)
  PROVE  LET p == SubSeq(rows, 1, n)
             q == SubSeq(rows, n + 1, Len(rows))
         IN  /\ p \in Seq(Rows) /\ q \in Seq(Rows) /\ Seqs(rows) = Seqs(p) \cup Seqs(q)
             /\ \A s : AllOf(s, rows) => AllOf(s, p) /\ AllOf(s, q)
<1> DEFINE N == Len(rows)
           p == SubSeq(rows, 1, n)
           q == SubSeq(rows, n + 1, N)
<1>1. N \in Nat /\ n \in Nat /\ n <= N /\ \A i \in 1 .. N : rows[i] \in Rows
  BY LenProperties, ElementOfSeq
<1> HIDE DEF N
<1>2. p \in Seq(Rows) /\ Len(p) = n /\ \A i \in 1 .. n : p[i] = rows[i]
  <2>1. \A i \in 1 .. n : rows[i] \in Rows
    BY <1>1
  <2>2. p \in Seq(Rows) /\ Len(p) = (IF 1 <= n THEN n - 1 + 1 ELSE 0)
        /\ \A i \in 1 .. n - 1 + 1 : p[i] = rows[1 + i - 1]
    BY <1>1, <2>1, SubSeqProperties
  <2> HIDE DEF p
  <2>3. \A i \in 1 .. n : 1 + i - 1 = i /\ i \in 1 .. n - 1 + 1
    BY <1>1
  <2>4. (IF 1 <= n THEN n - 1 + 1 ELSE 0) = n
    BY <1>1
  <2> QED BY <2>2, <2>3, <2>4
<1>3. q \in Seq(Rows) /\ Len(q) = N - n /\ \A i \in 1 .. N - n : q[i] = rows[n + i]
  <2>1. \A i \in n + 1 .. N : rows[i] \in Rows
    BY <1>1
  <2>2. q \in Seq(Rows) /\ Len(q) = (IF n + 1 <= N THEN N - (n + 1) + 1 ELSE 0)
        /\ \A i \in 1 .. N - (n + 1) + 1 : q[i] = rows[n + 1 + i - 1]
    BY <1>1, <2>1, SubSeqProperties
  <2> HIDE DEF q
  <2>3. \A i \in 1 .. N - n : n + 1 + i - 1 = n + i /\ i \in 1 .. N - (n + 1) + 1
    BY <1>1
  <2>4. (IF n + 1 <= N THEN N - (n + 1) + 1 ELSE 0) = N - n
    BY <1>1
  <2> QED BY <2>2, <2>3, <2>4
<1> HIDE DEF p, q
<1>4. \A i \in 1 .. N : i \in 1 .. n \/ (i - n \in 1 .. N - n /\ n + (i - n) = i)
  BY <1>1
<1>5. \A i \in 1 .. n : i \in 1 .. N
  BY <1>1
<1>6. \A i \in 1 .. N - n : n + i \in 1 .. N
  BY <1>1
<1>7. \A i \in 1 .. N : (\E k \in 1 .. n : p[k] = rows[i]) \/ (\E k \in 1 .. N - n : q[k] = rows[i])
  <2>1. SUFFICES ASSUME NEW i \in 1 .. N
                 PROVE  (\E k \in 1 .. n : p[k] = rows[i]) \/ (\E k \in 1 .. N - n : q[k] = rows[i])
    OBVIOUS
  <2>2. CASE i \in 1 .. n
    BY <1>2, <2>2
  <2>3. CASE i \notin 1 .. n
    <3>1. PICK k \in 1 .. N - n : n + k = i
      BY <1>4, <2>3
    <3> QED BY <1>3, <3>1
  <2> QED BY <2>2, <2>3
<1>8. Seqs(rows) = Seqs(p) \cup Seqs(q)
  <2>1. Seqs(rows) \subseteq Seqs(p) \cup Seqs(q)
    <3>1. \A k \in 1 .. n : p[k].seq \in Seqs(p)
      BY <1>2 DEF Seqs
    <3>2. \A k \in 1 .. N - n : q[k].seq \in Seqs(q)
      BY <1>3 DEF Seqs
    <3>3. \A i \in 1 .. N : rows[i].seq \in Seqs(p) \cup Seqs(q)
      BY <1>7, <3>1, <3>2
    <3> QED BY <3>3 DEF Seqs, N
  <2>2. Seqs(p) \subseteq Seqs(rows)
    BY <1>2, <1>5 DEF Seqs, N
  <2>3. Seqs(q) \subseteq Seqs(rows)
    BY <1>3, <1>6 DEF Seqs, N
  <2> QED BY <2>1, <2>2, <2>3
<1>9. \A s : AllOf(s, rows) => AllOf(s, p) /\ AllOf(s, q)
  <2> SUFFICES ASSUME NEW s, AllOf(s, rows) PROVE AllOf(s, p) /\ AllOf(s, q)
    OBVIOUS
  <2>1. \A i \in 1 .. N : rows[i].session = s
    BY DEF AllOf, N
  <2>2. \A i \in 1 .. n : p[i].session = s
    BY <1>2, <1>5, <2>1
  <2>3. \A i \in 1 .. N - n : q[i].session = s
    BY <1>3, <1>6, <2>1
  <2> QED BY <1>2, <1>3, <2>2, <2>3 DEF AllOf
<1> QED BY <1>2, <1>3, <1>8, <1>9 DEF p, q, N

-----------------------------------------------------------------------------
\* What is on its way.

\* The numbers of a stream's frames, and whether its snapshot is among them.
OfStream(h, id) == IF h.id = id THEN {h.seq} ELSE {}
FrameSeqs(q, id) == UNION {OfStream(q[i], id) : i \in 1 .. Len(q)}
Opens(h, id) == h.id = id /\ h.type = "snapshot"
SnapshotComes(q, id) == \E i \in 1 .. Len(q) : Opens(q[i], id)

LEMMA FrameAppended ==
  ASSUME NEW q \in Seq(Heard), NEW h \in Heard, NEW id
  PROVE  /\ FrameSeqs(Append(q, h), id) = FrameSeqs(q, id) \cup OfStream(h, id)
         /\ SnapshotComes(Append(q, h), id) <=> SnapshotComes(q, id) \/ Opens(h, id)
<1> DEFINE a == Append(q, h)
           n == Len(q)
<1>1. /\ n \in Nat /\ Len(a) = n + 1 /\ a[n + 1] = h
      /\ \A i \in 1 .. n : i \in 1 .. n + 1 /\ a[i] = q[i]
      /\ \A i \in 1 .. n + 1 : i \in 1 .. n \/ i = n + 1
  BY AppendIs
<1> HIDE DEF a, n
<1>2. n + 1 \in 1 .. n + 1
  BY <1>1
<1>3. FrameSeqs(a, id) = FrameSeqs(q, id) \cup OfStream(h, id)
  <2>1. FrameSeqs(a, id) = UNION {OfStream(a[i], id) : i \in 1 .. n + 1}
    BY <1>1 DEF FrameSeqs
  <2>2. FrameSeqs(q, id) = UNION {OfStream(q[i], id) : i \in 1 .. n}
    BY DEF FrameSeqs, n
  <2>3. FrameSeqs(a, id) \subseteq FrameSeqs(q, id) \cup OfStream(h, id)
    BY <1>1, <2>1, <2>2
  <2>4. OfStream(h, id) \subseteq FrameSeqs(a, id)
    BY <1>1, <1>2, <2>1
  <2>5. FrameSeqs(q, id) \subseteq FrameSeqs(a, id)
    BY <1>1, <2>1, <2>2
  <2> QED BY <2>3, <2>4, <2>5
<1>4. SnapshotComes(a, id) <=> SnapshotComes(q, id) \/ Opens(h, id)
  BY <1>1, <1>2 DEF SnapshotComes, n
<1> QED BY <1>3, <1>4 DEF a

LEMMA FrameRead ==
  ASSUME NEW q \in Seq(Heard), q # <<>>, NEW id
  PROVE  /\ FrameSeqs(q, id) = OfStream(Head(q), id) \cup FrameSeqs(Tail(q), id)
         /\ SnapshotComes(q, id) <=> Opens(Head(q), id) \/ SnapshotComes(Tail(q), id)
<1> DEFINE t == Tail(q)
           n == Len(q)
           m == Len(t)
<1>1. /\ n \in Nat \ {0} /\ m = n - 1 /\ m \in Nat /\ Head(q) = q[1]
      /\ \A i \in 1 .. m : i + 1 \in 1 .. n /\ t[i] = q[i + 1]
      /\ \A i \in 1 .. n : i = 1 \/ (i - 1 \in 1 .. m /\ t[i - 1] = q[i])
  BY HeadTailIs
<1>2. 1 \in 1 .. n
  BY <1>1
<1> HIDE DEF t, n, m
<1>3. \A i \in 1 .. n : q[i] = Head(q) \/ \E k \in 1 .. m : q[i] = t[k]
  BY <1>1
<1>4. (\E i \in 1 .. n : q[i] = Head(q)) /\ \A k \in 1 .. m : \E i \in 1 .. n : t[k] = q[i]
  BY <1>1, <1>2
<1>5. FrameSeqs(q, id) = UNION {OfStream(q[i], id) : i \in 1 .. n}
  BY DEF FrameSeqs, n
<1>6. FrameSeqs(t, id) = UNION {OfStream(t[i], id) : i \in 1 .. m}
  BY DEF FrameSeqs, m
<1>7. FrameSeqs(q, id) = OfStream(Head(q), id) \cup FrameSeqs(t, id)
  <2>1. FrameSeqs(q, id) \subseteq OfStream(Head(q), id) \cup FrameSeqs(t, id)
    BY <1>3, <1>5, <1>6
  <2>2. OfStream(Head(q), id) \subseteq FrameSeqs(q, id)
    BY <1>4, <1>5
  <2>3. FrameSeqs(t, id) \subseteq FrameSeqs(q, id)
    BY <1>4, <1>5, <1>6
  <2> QED BY <2>1, <2>2, <2>3
<1>8. SnapshotComes(q, id) <=> Opens(Head(q), id) \/ SnapshotComes(t, id)
  BY <1>3, <1>4 DEF SnapshotComes, n, m
<1> QED BY <1>7, <1>8 DEF t

\* The number of an event, the numbers of those behind a message, and a session's last
\* snapshot.
EventOf(m, s) == IF m.type = "event" /\ m.session = s THEN Seqs(m.rows) ELSE {}
EventSeqs(q, k, s) == UNION {EventOf(q[i], s) : i \in {j \in 1 .. Len(q) : k < j}}
IsSnapshot(m, s) == m.type = "snapshot" /\ m.session = s
NoSnapshot(q, s) == \A i \in 1 .. Len(q) : ~IsSnapshot(q[i], s)
LastSnapshot(q, k, s) == /\ k \in 1 .. Len(q) /\ IsSnapshot(q[k], s)
                         /\ \A i \in 1 .. Len(q) : k < i => ~IsSnapshot(q[i], s)

LEMMA EventsAppended ==
  ASSUME NEW q \in Seq(Letters), NEW m \in Letters, NEW s, NEW k \in 0 .. Len(q)
  PROVE  EventSeqs(Append(q, m), k, s) = EventSeqs(q, k, s) \cup EventOf(m, s)
<1> DEFINE n == Len(q)
           a == Append(q, m)
<1>1. /\ n \in Nat /\ Len(a) = n + 1 /\ a[n + 1] = m
      /\ \A i \in 1 .. n : i \in 1 .. n + 1 /\ a[i] = q[i]
      /\ \A i \in 1 .. n + 1 : i \in 1 .. n \/ i = n + 1
  BY AppendIs
<1> HIDE DEF n, a
<1>2. k \in 0 .. n
  BY DEF n
<1>3. EventSeqs(a, k, s) = UNION {EventOf(a[i], s) : i \in {j \in 1 .. n + 1 : k < j}}
  BY <1>1 DEF EventSeqs
<1>4. EventSeqs(q, k, s) = UNION {EventOf(q[i], s) : i \in {j \in 1 .. n : k < j}}
  BY DEF EventSeqs, n
<1>5. n + 1 \in {j \in 1 .. n + 1 : k < j}
  BY <1>1, <1>2
<1>6. EventOf(m, s) \subseteq EventSeqs(a, k, s)
  BY <1>1, <1>3, <1>5
<1>7. EventSeqs(q, k, s) \subseteq EventSeqs(a, k, s)
  BY <1>1, <1>3, <1>4
<1>8. EventSeqs(a, k, s) \subseteq EventSeqs(q, k, s) \cup EventOf(m, s)
  BY <1>1, <1>3, <1>4
<1> QED BY <1>6, <1>7, <1>8 DEF a

LEMMA LetterAppended ==
  ASSUME NEW q \in Seq(Letters), NEW m \in Letters, NEW s, NEW a, a = Append(q, m)
  PROVE  /\ a \in Seq(Letters) /\ Len(q) + 1 \in 1 .. Len(a) /\ a[Len(q) + 1] = m
         /\ EventSeqs(a, Len(q) + 1, s) = {}
         /\ \A k \in 1 .. Len(q) : a[k] = q[k]
         /\ NoSnapshot(a, s) <=> NoSnapshot(q, s) /\ ~IsSnapshot(m, s)
         /\ ~IsSnapshot(m, s) => \A k : LastSnapshot(a, k, s) => LastSnapshot(q, k, s)
         /\ IsSnapshot(m, s) => \A k : LastSnapshot(a, k, s) => k = Len(q) + 1
<1> DEFINE n == Len(q)
<1>1. /\ n \in Nat /\ a \in Seq(Letters) /\ Len(a) = n + 1 /\ a[n + 1] = m
      /\ \A i \in 1 .. n : i \in 1 .. n + 1 /\ a[i] = q[i]
      /\ \A i \in 1 .. n + 1 : i \in 1 .. n \/ i = n + 1
  BY AppendIs
<1> HIDE DEF n
<1>2. n + 1 \in 1 .. n + 1 /\ \A k \in 1 .. n : k < n + 1
  BY <1>1
<1>3. EventSeqs(a, n + 1, s) = {}
  <2>1. {j \in 1 .. n + 1 : n + 1 < j} = {}
    BY <1>1
  <2> QED BY <1>1, <2>1 DEF EventSeqs
<1>4. NoSnapshot(a, s) <=> NoSnapshot(q, s) /\ ~IsSnapshot(m, s)
  BY <1>1, <1>2 DEF NoSnapshot, n
<1>5. ASSUME ~IsSnapshot(m, s), NEW k, LastSnapshot(a, k, s) PROVE LastSnapshot(q, k, s)
  <2>1. k \in 1 .. n + 1 /\ IsSnapshot(a[k], s) /\ \A i \in 1 .. n + 1 : k < i => ~IsSnapshot(a[i], s)
    BY <1>1, <1>5 DEF LastSnapshot
  <2>2. k \in 1 .. n
    BY <1>1, <1>5, <2>1
  <2> QED BY <1>1, <2>1, <2>2 DEF LastSnapshot, n
<1>6. ASSUME IsSnapshot(m, s), NEW k, LastSnapshot(a, k, s) PROVE k = n + 1
  <2>1. k \in 1 .. n + 1 /\ (k < n + 1 => ~IsSnapshot(a[n + 1], s))
    BY <1>1, <1>2, <1>6 DEF LastSnapshot
  <2> QED BY <1>1, <1>2, <1>6, <2>1
<1> QED BY <1>1, <1>2, <1>3, <1>4, <1>5, <1>6 DEF n

LEMMA LetterRead ==
  ASSUME NEW q \in Seq(Letters), q # <<>>, NEW s
  PROVE  /\ EventSeqs(q, 0, s) = EventOf(Head(q), s) \cup EventSeqs(q, 1, s)
         /\ \A k \in Nat : EventSeqs(Tail(q), k, s) = EventSeqs(q, k + 1, s)
         /\ \A k : LastSnapshot(Tail(q), k, s) =>
              k \in Nat /\ LastSnapshot(q, k + 1, s) /\ Tail(q)[k] = q[k + 1]
         /\ NoSnapshot(q, s) <=> ~IsSnapshot(Head(q), s) /\ NoSnapshot(Tail(q), s)
         /\ IsSnapshot(Head(q), s) /\ NoSnapshot(Tail(q), s) => LastSnapshot(q, 1, s)
<1> DEFINE t == Tail(q)
           n == Len(q)
           m == Len(t)
<1>1. /\ n \in Nat \ {0} /\ m = n - 1 /\ m \in Nat /\ Head(q) = q[1]
      /\ \A i \in 1 .. m : i + 1 \in 1 .. n /\ t[i] = q[i + 1]
      /\ \A i \in 1 .. n : i = 1 \/ (i - 1 \in 1 .. m /\ t[i - 1] = q[i])
  BY HeadTailIs
<1> HIDE DEF t, n, m
<1>2. 1 \in 1 .. n /\ \A i \in 1 .. n : 1 < i \/ i = 1
  BY <1>1
<1>3. EventSeqs(q, 0, s) = EventOf(Head(q), s) \cup EventSeqs(q, 1, s)
  <2>1. EventSeqs(q, 0, s) = UNION {EventOf(q[i], s) : i \in {j \in 1 .. n : 0 < j}}
    BY DEF EventSeqs, n
  <2>2. EventSeqs(q, 1, s) = UNION {EventOf(q[i], s) : i \in {j \in 1 .. n : 1 < j}}
    BY DEF EventSeqs, n
  <2>3. {j \in 1 .. n : 0 < j} = {1} \cup {j \in 1 .. n : 1 < j}
    BY <1>1
  <2> QED BY <1>1, <2>1, <2>2, <2>3
<1>4. ASSUME NEW k \in Nat PROVE EventSeqs(t, k, s) = EventSeqs(q, k + 1, s)
  <2>1. EventSeqs(t, k, s) = UNION {EventOf(t[i], s) : i \in {j \in 1 .. m : k < j}}
    BY DEF EventSeqs, m
  <2>2. EventSeqs(q, k + 1, s) = UNION {EventOf(q[i], s) : i \in {j \in 1 .. n : k + 1 < j}}
    BY DEF EventSeqs, n
  <2>3. \A i \in {j \in 1 .. m : k < j} : i + 1 \in {j \in 1 .. n : k + 1 < j} /\ t[i] = q[i + 1]
    BY <1>1
  <2>4. \A i \in {j \in 1 .. n : k + 1 < j} : i - 1 \in {j \in 1 .. m : k < j} /\ t[i - 1] = q[i]
    BY <1>1
  <2>5. EventSeqs(t, k, s) \subseteq EventSeqs(q, k + 1, s)
    BY <2>1, <2>2, <2>3
  <2>6. EventSeqs(q, k + 1, s) \subseteq EventSeqs(t, k, s)
    BY <2>1, <2>2, <2>4
  <2> QED BY <2>5, <2>6
<1>5. ASSUME NEW k, LastSnapshot(t, k, s)
      PROVE  k \in Nat /\ LastSnapshot(q, k + 1, s) /\ t[k] = q[k + 1]
  <2>1. k \in 1 .. m /\ IsSnapshot(t[k], s) /\ \A i \in 1 .. m : k < i => ~IsSnapshot(t[i], s)
    BY <1>5 DEF LastSnapshot, m
  <2>2. k \in Nat /\ k + 1 \in 1 .. n /\ t[k] = q[k + 1]
    BY <1>1, <2>1
  <2>3. ASSUME NEW i \in 1 .. n, k + 1 < i PROVE ~IsSnapshot(q[i], s)
    <3> DEFINE j == i - 1
    <3>1. j \in 1 .. m /\ t[j] = q[i] /\ k < j
      BY <1>1, <2>2, <2>3
    <3> HIDE DEF j
    <3> QED BY <2>1, <3>1
  <2> QED BY <2>1, <2>2, <2>3 DEF LastSnapshot, n
<1>6. \A i \in 1 .. n : q[i] = Head(q) \/ \E k \in 1 .. m : q[i] = t[k]
  BY <1>1
<1>7. (\E i \in 1 .. n : q[i] = Head(q)) /\ \A k \in 1 .. m : \E i \in 1 .. n : t[k] = q[i]
  BY <1>1, <1>2
<1>8. NoSnapshot(q, s) <=> ~IsSnapshot(Head(q), s) /\ NoSnapshot(t, s)
  BY <1>6, <1>7 DEF NoSnapshot, n, m
<1>9. ASSUME IsSnapshot(Head(q), s), NoSnapshot(t, s) PROVE LastSnapshot(q, 1, s)
  <2>1. \A k \in 1 .. m : ~IsSnapshot(t[k], s)
    BY <1>9 DEF NoSnapshot, m
  <2>2. ASSUME NEW i \in 1 .. n, 1 < i PROVE ~IsSnapshot(q[i], s)
    BY <1>1, <2>1, <2>2
  <2> QED BY <1>1, <1>2, <1>9, <2>2 DEF LastSnapshot, n
<1> QED BY <1>3, <1>4, <1>5, <1>8, <1>9 DEF t

-----------------------------------------------------------------------------
\* What a client has of a session and is still sent.

\* From some record on, no later than the first a snapshot would carry, every message of
\* the log l up to the last dsh has sent is among those the client has or is sent (had)
\* and those on their way to the sender (due).
Covers(l, sent, cursor, had, due, old) ==
  /\ had \subseteq 1 .. cursor /\ old <= cursor
  /\ \E b \in Nat :
       /\ b <= TailFrom(sent) /\ (old # 0 => b <= old)
       /\ \A n \in had \cup due : b <= n
       /\ \A n \in b .. sent : n # 0 /\ l[n] = "message" => n \in had \cup due

\* The numbers ns of a page continue a transcript that goes back to old.
Continues(ns, l, old) ==
  \E a \in Nat : /\ \A n \in ns : a <= n
                 /\ \A n \in a .. old - 1 : n # 0 /\ l[n] = "message" => n \in ns

LEMMA TailFromIs ==
  ASSUME NEW n \in Nat
  PROVE  /\ TailFrom(n) \in Nat \ {0} /\ TailFrom(n) <= n + 1 /\ TailFrom(n) <= TailFrom(n + 1)
BY TalkAssumption DEF TailFrom, Later

\* dsh sends one more.
LEMMA CoversNext ==
  ASSUME NEW l, NEW sent \in Nat, NEW cursor, NEW had, NEW due, NEW old,
         Covers(l, sent, cursor, had, due, old)
  PROVE  Covers(l, sent + 1, cursor, had, due \cup {sent + 1}, old)
<1>1. PICK b \in Nat :
        /\ b <= TailFrom(sent) /\ (old # 0 => b <= old)
        /\ \A n \in had \cup due : b <= n
        /\ \A n \in b .. sent : n # 0 /\ l[n] = "message" => n \in had \cup due
  BY DEF Covers
<1>2. TailFrom(sent) \in Nat /\ TailFrom(sent) <= sent + 1 /\ TailFrom(sent) <= TailFrom(sent + 1)
      /\ TailFrom(sent + 1) \in Nat
  BY TailFromIs
<1>3. b <= sent + 1 /\ b <= TailFrom(sent + 1)
  BY <1>1, <1>2
<1>4. \A n \in b .. sent + 1 : n \in b .. sent \/ n = sent + 1
  OBVIOUS
<1>5. \A n \in had \cup (due \cup {sent + 1}) : b <= n
  BY <1>1, <1>3
<1>6. \A n \in b .. sent + 1 : n # 0 /\ l[n] = "message" => n \in had \cup (due \cup {sent + 1})
  BY <1>1, <1>4
<1> QED BY <1>1, <1>3, <1>5, <1>6 DEF Covers

\* The tail of a snapshot is passed on.
LEMMA CoversFirst ==
  ASSUME NEW l, NEW first \in Nat, NEW sent \in Nat, NEW had, NEW due,
         had = {n \in TailFrom(first) .. first : l[n] # "ignored"},
         \A n \in due : n \in Nat /\ first < n,
         \A n \in first + 1 .. sent : n \in due, first <= sent
  PROVE  Covers(l, sent, first, had, due, 0)
<1> DEFINE b == TailFrom(first)
<1>1. b \in Nat \ {0} /\ b <= first + 1
  BY TailFromIs
<1>2. b <= TailFrom(sent)
  BY TalkAssumption DEF TailFrom, Later
<1> HIDE DEF b
<1>3. had \subseteq 1 .. first /\ \A n \in had : b <= n
  BY <1>1 DEF b
<1>4. \A n \in due : b <= n
  BY <1>1
<1>5. ASSUME NEW n \in b .. sent, l[n] = "message" PROVE n \in had \cup due
  <2>1. CASE n \in first + 1 .. sent
    BY <2>1
  <2>2. CASE n \in b .. first
    BY <1>5, <2>2 DEF b
  <2>3. n \in b .. first \/ n \in first + 1 .. sent
    BY <1>1
  <2> QED BY <2>1, <2>2, <2>3
<1> QED BY <1>1, <1>2, <1>3, <1>4, <1>5 DEF Covers

\* A page that was awaited arrives.
LEMMA CoversPage ==
  ASSUME NEW l, NEW sent \in Nat, NEW cursor \in Nat, NEW had, NEW due \in SUBSET Nat, NEW ns, NEW had2,
         NEW old \in Nat \ {0}, NEW old2 \in Nat \ {0},
         Covers(l, sent, cursor, had, due, old), Continues(ns, l, old), ns \subseteq 1 .. cursor,
         had \subseteq had2, had2 \subseteq had \cup ns,
         \A n \in ns : l[n] = "message" => n \in had2,
         old2 <= old, old2 \in {old} \cup ns
  PROVE  Covers(l, sent, cursor, had2, due, old2)
<1>1. PICK b \in Nat :
        /\ b <= TailFrom(sent) /\ b <= old
        /\ \A n \in had \cup due : b <= n
        /\ \A n \in b .. sent : n # 0 /\ l[n] = "message" => n \in had \cup due
  BY DEF Covers
<1>2. PICK a \in Nat : /\ \A n \in ns : a <= n
                       /\ \A n \in a .. old - 1 : n # 0 /\ l[n] = "message" => n \in ns
  BY DEF Continues
<1>3. had \subseteq 1 .. cursor /\ old <= cursor
  BY DEF Covers
<1>4. TailFrom(sent) \in Nat
  BY TailFromIs
<1> DEFINE c == IF a <= b THEN a ELSE b
<1>5. c \in Nat /\ c <= a /\ c <= b /\ (c = a \/ c = b)
  OBVIOUS
<1> HIDE DEF c
<1>6. c <= TailFrom(sent) /\ c <= old2
  <2> DEFINE tail == TailFrom(sent)
  <2>1. b <= tail /\ b <= old /\ tail \in Nat
    BY <1>1, <1>4
  <2> HIDE DEF tail
  <2>2. c <= tail
    BY <1>5, <2>1
  <2>3. old2 = old => c <= old2
    BY <1>5, <2>1
  <2>4. old2 \in ns => c <= old2
    BY <1>2, <1>5
  <2> QED BY <2>2, <2>3, <2>4 DEF tail
<1>7. had2 \subseteq 1 .. cursor /\ old2 <= cursor
  BY <1>3
<1>8. \A n \in due : c <= n
  BY <1>1, <1>5
<1>9. \A n \in had2 : c <= n
  <2>1. \A n \in had2 : n \in Nat /\ (b <= n \/ a <= n)
    BY <1>1, <1>2, <1>7
  <2> QED BY <1>5, <2>1
<1>10. ASSUME NEW n \in c .. sent, n # 0, l[n] = "message" PROVE n \in had2 \cup due
  <2>1. CASE b <= n
    <3>1. n \in b .. sent
      BY <1>5, <2>1
    <3> QED BY <1>1, <1>10, <3>1
  <2>2. CASE ~(b <= n)
    <3>1. n \in a .. old - 1
      BY <1>1, <1>5, <2>2
    <3> QED BY <1>2, <1>10, <3>1
  <2> QED BY <2>1, <2>2
<1> QED BY <1>5, <1>6, <1>7, <1>8, <1>9, <1>10 DEF Covers

-----------------------------------------------------------------------------
\* The types are kept.

LEMMA LogIs ==
  ASSUME TalkTypes, NEW s \in TalkSessions
  PROVE  log[s] \in Seq(Kinds) /\ Len(log[s]) \in Nat
BY LenProperties DEF TalkTypes

LEMMA HeldIsTranscript ==
  ASSUME TalkTypes
  PROVE  Held \in Transcripts /\ Held.rows = items /\ Held.oldest = oldest
BY TranscriptIs DEF TalkTypes, Held

LEMMA HoldTypes ==
  ASSUME NEW t \in Transcripts, Hold(t)
  PROVE  items' \in Seq(Rows) /\ chunks' \subseteq Nat /\ oldest' \in Nat
BY TranscriptIs DEF Hold

\* The message at the head of the queue.
LEMMA MailIs ==
  ASSUME TalkTypes, NEW type, NextMail(type)
  PROVE  /\ mail # <<>> /\ Head(mail) \in Letters /\ Head(mail).type = type /\ mail' = Tail(mail)
         /\ mail' \in Seq(Letters)
         /\ type # "refused" => Head(mail).session \in TalkSessions /\ Head(mail).rows \in Seq(Rows)
                                  /\ AllOf(Head(mail).session, Head(mail).rows)
         /\ type = "event" => Len(Head(mail).rows) = 1
<1>1. mail # <<>> /\ Head(mail).type = type /\ mail' = Tail(mail) /\ mail \in Seq(Letters)
  BY DEF NextMail, TalkTypes
<1>2. Head(mail) \in Letters /\ Tail(mail) \in Seq(Letters)
  BY <1>1, HeadTailIs
<1> QED BY <1>1, <1>2, LetterIs

\* The request at the head of the queue.
LEMMA AskIs ==
  ASSUME TalkTypes, NEW type, NextAsk(type)
  PROVE  /\ asks # <<>> /\ Head(asks) \in Requests /\ Head(asks).type = type /\ asks' = Tail(asks)
         /\ asks' \in Seq(Requests) /\ Head(asks).session \in TalkSessions
         /\ type = "page" => Head(asks).before \in Nat \ {0}
<1>1. asks # <<>> /\ Head(asks).type = type /\ asks' = Tail(asks) /\ asks \in Seq(Requests)
  BY DEF NextAsk, TalkTypes
<1>2. Head(asks) \in Requests /\ Tail(asks) \in Seq(Requests)
  BY <1>1, HeadTailIs
<1> QED BY <1>1, <1>2, RequestIs

\* The frame at the head of the queue.
LEMMA FrameIs ==
  ASSUME TalkTypes, NextTalkFrame
  PROVE  /\ talkFrames # <<>> /\ Head(talkFrames) \in Heard /\ talkFrames' = Tail(talkFrames)
         /\ talkFrames' \in Seq(Heard) /\ Head(talkFrames).id \in Nat /\ Head(talkFrames).seq \in Nat
         /\ Head(talkFrames).type \in {"snapshot", "event"}
<1>1. talkFrames # <<>> /\ talkFrames' = Tail(talkFrames) /\ talkFrames \in Seq(Heard)
  BY DEF NextTalkFrame, TalkTypes
<1>2. Head(talkFrames) \in Heard /\ Tail(talkFrames) \in Seq(Heard)
  BY <1>1, HeadTailIs
<1> QED BY <1>1, <1>2, HeardIs

\* What a page carries: the records before the given one, through the cursor.
LastOf(before, cursor) == IF before <= cursor THEN before - 1 ELSE cursor
FirstOf(last) == Later(1, last - PageSize + 1)

LEMMA PageIs ==
  ASSUME TalkTypes, TakePage
  PROVE  \/ mail' = Append(mail, [type |-> "refused"])
         \/ \E f \in table : /\ f.session = Head(asks).session
                             /\ LET last == LastOf(Head(asks).before, f.cursor)
                                    rows == Wanted(f.session, FirstOf(last), last)
                                IN  /\ mail' = Append(mail, [type |-> "page", session |-> f.session, rows |-> rows])
                                    /\ last \in Nat /\ FirstOf(last) \in Nat \ {0}
                                    /\ rows \in Seq(Rows) /\ AllOf(f.session, rows)
                                    /\ Seqs(rows) = {n \in FirstOf(last) .. last : log[f.session][n] # "ignored"}
<1>1. NextAsk("page")
  BY DEF TakePage
<1>2. Head(asks).before \in Nat \ {0} /\ Head(asks).session \in TalkSessions
  BY <1>1, AskIs
<1>3. CASE mail' = Append(mail, [type |-> "refused"])
  BY <1>3
<1>4. CASE \E f \in table : f.session = Head(asks).session /\
             mail' = Append(mail, [type |-> "page", session |-> Head(asks).session,
               rows |-> Wanted(Head(asks).session, FirstOf(LastOf(Head(asks).before, f.cursor)),
                               LastOf(Head(asks).before, f.cursor))])
  <2>1. PICK f \in table : f.session = Head(asks).session /\
             mail' = Append(mail, [type |-> "page", session |-> Head(asks).session,
               rows |-> Wanted(Head(asks).session, FirstOf(LastOf(Head(asks).before, f.cursor)),
                               LastOf(Head(asks).before, f.cursor))])
    BY <1>4
  <2> DEFINE last == LastOf(Head(asks).before, f.cursor)
  <2>2. f.cursor \in Nat
    BY FollowedIs DEF TalkTypes
  <2>3. last \in Nat
    BY <1>2, <2>2 DEF LastOf
  <2> HIDE DEF last
  <2>4. FirstOf(last) \in Nat \ {0}
    BY <2>3, TalkAssumption DEF FirstOf, Later
  <2> DEFINE rows == Wanted(f.session, FirstOf(last), last)
  <2>5. f.session \in TalkSessions
    BY <1>2, <2>1
  <2>6. rows \in Seq(Rows) /\ AllOf(f.session, rows)
        /\ Seqs(rows) = {n \in FirstOf(last) .. last : log[f.session][n] # "ignored"}
    BY <2>3, <2>4, <2>5, WantedIs
  <2> HIDE DEF rows
  <2>7. mail' = Append(mail, [type |-> "page", session |-> f.session, rows |-> rows])
    BY <2>1 DEF rows, last
  <2> QED BY <2>1, <2>3, <2>4, <2>6, <2>7 DEF last, rows
<1> QED BY <1>3, <1>4 DEF TakePage, LastOf, FirstOf

\* What is passed on of a frame.
LEMMA ForwardIs ==
  ASSUME TalkTypes, NEW f \in table, Forward(f)
  PROVE  \E rows \in Seq(Rows) :
           /\ AllOf(f.session, rows)
           /\ LET frame == Head(talkFrames)
                  m == [type |-> frame.type, session |-> f.session, rows |-> rows]
              IN  /\ m \in Letters /\ m.type = frame.type /\ m.session = f.session /\ m.rows = rows
                  /\ mail' = Append(mail, m)
                  /\ frame.type = "snapshot" =>
                       Seqs(rows) = {n \in TailFrom(frame.seq) .. frame.seq : log[f.session][n] # "ignored"}
                  /\ frame.type = "event" => Len(rows) = 1 /\ Seqs(rows) = {frame.seq}
<1> DEFINE frame == Head(talkFrames)
           k == frame.seq
           s == f.session
           tail == Wanted(s, TailFrom(k), k)
           one == <<[session |-> s, seq |-> k]>>
           rows == IF frame.type = "snapshot" THEN tail ELSE one
           m == [type |-> frame.type, session |-> s, rows |-> rows]
<1>1. NextTalkFrame /\ mail' = Append(mail, m) /\ (frame.type = "event" => k > f.cursor)
  BY DEF Forward
<1>2. frame.type \in {"snapshot", "event"} /\ k \in Nat
  BY <1>1, FrameIs
<1>3. s \in TalkSessions /\ f.cursor \in Nat
  BY FollowedIs DEF TalkTypes
<1> HIDE DEF frame, k
<1>4. tail \in Seq(Rows) /\ AllOf(s, tail) /\ Seqs(tail) = {n \in TailFrom(k) .. k : log[s][n] # "ignored"}
  BY <1>2, <1>3, TailFromIs, WantedIs
<1>5. ASSUME frame.type = "event"
      PROVE  one \in Seq(Rows) /\ AllOf(s, one) /\ Seqs(one) = {k} /\ Len(one) = 1
  <2> DEFINE r == [session |-> s, seq |-> k]
  <2>1. k \in Nat \ {0}
    BY <1>1, <1>2, <1>3, <1>5
  <2>2. r \in Rows /\ r.session = s /\ r.seq = k
    BY <1>3, <2>1, RowIs
  <2>3. one = <<r>>
    OBVIOUS
  <2> HIDE DEF r, one
  <2>4. one \in Seq(Rows) /\ Len(one) = 1 /\ one[1] = r
    BY <2>2, <2>3
  <2>5. 1 .. 1 = {1}
    OBVIOUS
  <2> QED BY <2>2, <2>4, <2>5 DEF AllOf, Seqs
<1> HIDE DEF tail, one
<1>6. rows \in Seq(Rows) /\ AllOf(s, rows) /\ (frame.type = "event" => Len(rows) = 1)
  BY <1>2, <1>4, <1>5
<1>7. /\ frame.type = "snapshot" => Seqs(rows) = {n \in TailFrom(k) .. k : log[s][n] # "ignored"}
      /\ frame.type = "event" => Seqs(rows) = {k}
  BY <1>4, <1>5
<1> HIDE DEF rows
<1>8. m \in Letters /\ m.type = frame.type /\ m.session = s /\ m.rows = rows
  BY <1>2, <1>3, <1>6, LetterIs
<1> QED BY <1>1, <1>6, <1>7, <1>8 DEF frame, k, m

LEMMA DshTypes ==
  ASSUME TalkTypes,
         \/ \E s \in TalkSessions, kind \in Kinds : AddRecord(s, kind)
         \/ \E x \in sources : SendEvent(x)
  PROVE  TalkTypes'
<1>1. CASE \E s \in TalkSessions, kind \in Kinds : AddRecord(s, kind)
  <2>1. PICK s \in TalkSessions, kind \in Kinds : AddRecord(s, kind)
    BY <1>1
  <2>2. log' = [log EXCEPT ![s] = Append(log[s], kind)] /\ log[s] \in Seq(Kinds)
    BY <2>1, LogIs DEF AddRecord
  <2>3. Append(log[s], kind) \in Seq(Kinds)
    BY <2>2, AppendProperties, Zenon
  <2>4. log' \in [TalkSessions -> Seq(Kinds)]
    BY <2>2, <2>3 DEF TalkTypes
  <2> QED BY <2>1, <2>4 DEF AddRecord, TalkTypes, sender, screen
<1>2. CASE \E x \in sources : SendEvent(x)
  <2>1. PICK x \in sources : SendEvent(x)
    BY <1>2
  <2> DEFINE y == [x EXCEPT !.sent = @ + 1]
             h == [type |-> "event", id |-> x.id, seq |-> x.sent + 1]
  <2>2. sources' = (sources \ {x}) \cup {y} /\ talkFrames' = Append(talkFrames, h)
    BY <2>1 DEF SendEvent
  <2>3. x.id \in Nat /\ x.sent \in Nat /\ y \in Sources
    BY SourceIs DEF TalkTypes
  <2>4. h \in Heard
    BY <2>3, HeardIs
  <2> HIDE DEF y, h
  <2>5. talkFrames' \in Seq(Heard)
    BY <2>2, <2>4, AppendIs DEF TalkTypes
  <2>6. sources' \subseteq Sources
    BY <2>2, <2>3 DEF TalkTypes
  <2> QED BY <2>1, <2>5, <2>6 DEF SendEvent, TalkTypes, sender, screen
<1> QED BY <1>1, <1>2

LEMMA SenderTypes ==
  ASSUME TalkTypes,
         \/ TakeSubscribe \/ TakeUnsubscribe \/ TakePage
         \/ DropTalkFrame \/ (\E f \in table : Forward(f))
  PROVE  TalkTypes'
<1>1. CASE TakeSubscribe
  <2> DEFINE s == Head(asks).session
             n == Len(log[s])
             f == [id |-> nextId, session |-> s, cursor |-> 0]
             x == [id |-> nextId, session |-> s, sent |-> n]
             h == [type |-> "snapshot", id |-> nextId, seq |-> n]
  <2>1. NextAsk("subscribe")
    BY <1>1 DEF TakeSubscribe
  <2>2. s \in TalkSessions /\ asks' \in Seq(Requests) /\ nextId \in Nat /\ n \in Nat
    BY <2>1, AskIs, LogIs DEF TalkTypes
  <2>3. /\ table' = {g \in table : g.session # s} \cup {f}
        /\ sources' = {y \in sources : y.session # s} \cup {x}
        /\ talkFrames' = Append(talkFrames, h) /\ nextId' = nextId + 1
    BY <1>1 DEF TakeSubscribe
  <2>4. f \in Followed /\ x \in Sources /\ h \in Heard
    <3> HIDE DEF s, n
    <3> QED BY <2>2, FollowedIs, SourceIs, HeardIs
  <2> HIDE DEF f, x, h
  <2>5. talkFrames' \in Seq(Heard)
    BY <2>3, <2>4, AppendIs DEF TalkTypes
  <2>6. table' \subseteq Followed /\ sources' \subseteq Sources /\ nextId' \in Nat
    BY <2>2, <2>3, <2>4 DEF TalkTypes
  <2> QED BY <1>1, <2>1, <2>2, <2>5, <2>6 DEF TakeSubscribe, NextAsk, TalkTypes, screen
<1>2. CASE TakeUnsubscribe
  <2>1. NextAsk("unsubscribe")
    BY <1>2 DEF TakeUnsubscribe
  <2>2. asks' \in Seq(Requests)
    BY <2>1, AskIs
  <2>3. table' \subseteq Followed /\ sources' \subseteq Sources
    BY <1>2 DEF TakeUnsubscribe, TalkTypes
  <2> QED BY <1>2, <2>1, <2>2, <2>3 DEF TakeUnsubscribe, NextAsk, TalkTypes, screen
<1>3. CASE TakePage
  <2>1. NextAsk("page")
    BY <1>3 DEF TakePage
  <2>2. asks' \in Seq(Requests)
    BY <2>1, AskIs
  <2>3. mail' \in Seq(Letters)
    <3>1. CASE mail' = Append(mail, [type |-> "refused"])
      BY <3>1, LetterIs, AppendIs DEF TalkTypes
    <3>2. ASSUME NEW f \in table, NEW rows \in Seq(Rows), AllOf(f.session, rows),
                 mail' = Append(mail, [type |-> "page", session |-> f.session, rows |-> rows])
          PROVE  mail' \in Seq(Letters)
      <4> DEFINE m == [type |-> "page", session |-> f.session, rows |-> rows]
      <4>1. f.session \in TalkSessions
        BY FollowedIs DEF TalkTypes
      <4>2. m \in Letters
        BY <3>2, <4>1, LetterIs
      <4> HIDE DEF m
      <4>3. mail' = Append(mail, m)
        BY <3>2 DEF m
      <4> QED BY <4>2, <4>3, AppendIs DEF TalkTypes
    <3> QED BY <1>3, <3>1, <3>2, PageIs
  <2> QED BY <1>3, <2>1, <2>2, <2>3 DEF TakePage, NextAsk, TalkTypes, screen, sender
<1>4. CASE DropTalkFrame
  <2>1. NextTalkFrame
    BY <1>4 DEF DropTalkFrame
  <2>2. talkFrames' \in Seq(Heard)
    BY <2>1, FrameIs
  <2> QED BY <1>4, <2>1, <2>2 DEF DropTalkFrame, NextTalkFrame, TalkTypes, screen
<1>5. CASE \E f \in table : Forward(f)
  <2>1. PICK f \in table : Forward(f)
    BY <1>5
  <2>2. NextTalkFrame
    BY <2>1 DEF Forward
  <2>3. talkFrames' \in Seq(Heard) /\ Head(talkFrames).seq \in Nat
    BY <2>2, FrameIs
  <2>4. PICK m \in Letters : mail' = Append(mail, m)
    BY <2>1, ForwardIs
  <2>5. mail' \in Seq(Letters)
    BY <2>4, AppendIs DEF TalkTypes
  <2>6. table' \subseteq Followed
    <3> DEFINE g == [f EXCEPT !.cursor = Head(talkFrames).seq]
    <3>1. g \in Followed
      BY <2>3, FollowedIs DEF TalkTypes
    <3>2. table' = (table \ {f}) \cup {g}
      BY <2>1 DEF Forward
    <3> HIDE DEF g
    <3> QED BY <3>1, <3>2 DEF TalkTypes
  <2> QED BY <2>2, <2>3, <2>5, <2>6 DEF NextTalkFrame, TalkTypes, screen
<1> QED BY <1>1, <1>2, <1>3, <1>4, <1>5

LEMMA UserTypes ==
  ASSUME TalkTypes,
         \/ \E s \in TalkSessions : OpenSession(s)
         \/ RefreshSession \/ ClientReconnects \/ LoadOlder \/ LoseMux
  PROVE  TalkTypes'
<1>1. open # "none" => open \in TalkSessions
  BY DEF TalkTypes
<1>2. <<>> \in Seq(Rows)
  OBVIOUS
<1>3. CASE \E s \in TalkSessions : OpenSession(s)
  <2>1. PICK s \in TalkSessions : OpenSession(s)
    BY <1>3
  <2> DEFINE p == IF open = "none" THEN <<>> ELSE <<Ask("unsubscribe", open)>>
             q == <<Ask("subscribe", s)>>
             r == asks \o p
  <2>2. asks' = r \o q
    BY <2>1 DEF OpenSession
  <2>3. p \in Seq(Requests) /\ q \in Seq(Requests)
    <3>1. Ask("subscribe", s) \in Requests /\ (open # "none" => Ask("unsubscribe", open) \in Requests)
      BY <1>1, RequestIs
    <3> QED BY <3>1
  <2> HIDE DEF p, q
  <2>4. r \in Seq(Requests)
    BY <2>3, ConcatProperties DEF TalkTypes
  <2> HIDE DEF r
  <2>5. r \o q \in Seq(Requests)
    BY <2>3, <2>4, ConcatProperties
  <2>6. loading' \in {"no", "asked", "stale"} /\ open' \in TalkSessions \cup {"none"}
    BY <2>1 DEF OpenSession, EmptyTranscript
  <2> QED BY <1>2, <2>1, <2>2, <2>5, <2>6 DEF OpenSession, EmptyTranscript, TalkTypes, sender
<1>4. CASE RefreshSession
  <2> DEFINE a == Ask("subscribe", open)
  <2>1. a \in Requests /\ asks' = Append(asks, a)
    BY <1>1, <1>4, RequestIs DEF RefreshSession
  <2> HIDE DEF a
  <2>2. asks' \in Seq(Requests)
    BY <2>1, AppendIs DEF TalkTypes
  <2>3. loading' \in {"no", "asked", "stale"}
    BY <1>4 DEF RefreshSession, EmptyTranscript
  <2> QED BY <1>2, <1>4, <2>2, <2>3 DEF RefreshSession, EmptyTranscript, TalkTypes, sender
<1>5. CASE ClientReconnects
  <2> DEFINE a == Ask("subscribe", open)
  <2>1. PICK n \in 0 .. Len(asks) :
          asks' = Append(Kept(SubSeq(asks, 1, n), {ask \in Range(asks) : ask.type # "page"}), a)
    BY <1>5 DEF ClientReconnects
  <2>2. a \in Requests
    BY <1>1, <1>5, RequestIs DEF ClientReconnects
  <2> HIDE DEF a
  <2>3. SubSeq(asks, 1, n) \in Seq(Requests)
    <3>1. Len(asks) \in Nat /\ \A i \in 1 .. Len(asks) : asks[i] \in Requests
      BY LenProperties, ElementOfSeq DEF TalkTypes
    <3>2. \A i \in 1 .. n : asks[i] \in Requests
      BY <3>1
    <3> QED BY <3>1, <3>2, SubSeqProperties
  <2> DEFINE k == Kept(SubSeq(asks, 1, n), {ask \in Range(asks) : ask.type # "page"})
  <2>4. k \in Seq(Requests)
    BY <2>3, KeptRange
  <2> HIDE DEF k
  <2>5. asks' \in Seq(Requests)
    BY <2>1, <2>2, <2>4, AppendIs DEF k
  <2>6. mail' = <<>> /\ <<>> \in Seq(Letters) /\ loading' = "no"
    BY <1>5 DEF ClientReconnects
  <2> QED BY <1>5, <2>5, <2>6 DEF ClientReconnects, TalkTypes, sender
<1>6. CASE LoadOlder
  <2> DEFINE a == [type |-> "page", session |-> open, before |-> oldest]
  <2>1. oldest \in Nat \ {0} /\ open \in TalkSessions
    BY <1>1, <1>6 DEF LoadOlder, TalkTypes
  <2>2. a \in Requests /\ asks' = Append(asks, a)
    BY <1>6, <2>1, RequestIs DEF LoadOlder
  <2> HIDE DEF a
  <2>3. asks' \in Seq(Requests)
    BY <2>2, AppendIs DEF TalkTypes
  <2> QED BY <1>6, <2>3 DEF LoadOlder, TalkTypes, sender
<1>7. CASE LoseMux
  BY <1>7 DEF LoseMux, TalkTypes, screen
<1> QED BY <1>3, <1>4, <1>5, <1>6, <1>7

LEMMA ClientTypes ==
  ASSUME TalkTypes,
         DropMail \/ TakeSnapshot \/ TakeEvent \/ TakePageReply \/ TakeRefusal \/ FoldSlice
  PROVE  TalkTypes'
<1>1. Held \in Transcripts /\ Held.rows = items /\ Held.oldest = oldest
  BY HeldIsTranscript
<1>2. CASE DropMail
  <2>1. PICK type \in {"snapshot", "event"} : NextMail(type)
    BY <1>2 DEF DropMail
  <2>2. mail' \in Seq(Letters)
    BY <2>1, MailIs
  <2> QED BY <1>2, <2>1, <2>2 DEF DropMail, NextMail, TalkTypes, sender, screen
<1>3. CASE TakeSnapshot
  <2>1. NextMail("snapshot")
    BY <1>3 DEF TakeSnapshot
  <2>2. mail' \in Seq(Letters) /\ Head(mail).rows \in Seq(Rows)
    BY <2>1, MailIs
  <2>3. loading' \in {"no", "asked", "stale"} /\ items' \in Seq(Rows) /\ oldest' = 0
        /\ unfolded' = Head(mail).rows /\ torn' = FALSE /\ chunks' = chunks
    BY <1>3 DEF TakeSnapshot
  <2> QED BY <2>1, <2>2, <2>3 DEF NextMail, TalkTypes, sender
<1>4. CASE TakeEvent
  <2>1. NextMail("event")
    BY <1>4 DEF TakeEvent
  <2> DEFINE rows == Head(mail).rows
  <2>2. mail' \in Seq(Letters) /\ rows \in Seq(Rows) /\ Len(rows) = 1
    BY <2>1, MailIs
  <2>3. Head(rows) \in Rows
    <3> HIDE DEF rows
    <3>1. rows # <<>>
      BY <2>2, EmptySeq
    <3> QED BY <2>2, <3>1, HeadTailIs
  <2>4. FoldRow(Held, Head(rows)) \in Transcripts
    BY <1>1, <2>3, FoldRowIs
  <2>5. Hold(FoldRow(Held, Head(rows))) /\ UNCHANGED <<unfolded, loading, torn>>
    BY <1>4 DEF TakeEvent
  <2>6. items' \in Seq(Rows) /\ chunks' \subseteq Nat /\ oldest' \in Nat
    BY <2>4, <2>5, HoldTypes
  <2> QED BY <2>1, <2>2, <2>5, <2>6 DEF NextMail, TalkTypes, sender
<1>5. CASE TakePageReply
  <2>1. NextMail("page")
    BY <1>5 DEF TakePageReply
  <2>2. mail' \in Seq(Letters) /\ Head(mail).rows \in Seq(Rows)
    BY <2>1, MailIs
  <2> DEFINE t == Folded(Held, Head(mail).rows)
             u == [t EXCEPT !.rows = Sorted(t.rows)]
  <2>3. t \in Transcripts
    BY <1>1, <2>2, FoldGains
  <2>4. Hold(u) /\ loading' = "no" /\ torn' = (torn \/ loading = "stale") /\ unfolded' = unfolded
    BY <1>5 DEF TakePageReply
  <2> HIDE DEF t
  <2>5. u \in Transcripts
    <3>1. Sorted(t.rows) \in Seq(Rows)
      BY <2>3, TranscriptIs, SortedSeqs
    <3> QED BY <2>3, <3>1 DEF Transcripts
  <2> HIDE DEF u
  <2>6. items' \in Seq(Rows) /\ chunks' \subseteq Nat /\ oldest' \in Nat
    BY <2>4, <2>5, HoldTypes
  <2> QED BY <2>1, <2>2, <2>4, <2>6 DEF NextMail, TalkTypes, sender
<1>6. CASE TakeRefusal
  <2>1. NextMail("refused")
    BY <1>6 DEF TakeRefusal
  <2>2. mail' \in Seq(Letters)
    BY <2>1, MailIs
  <2> QED BY <1>6, <2>1, <2>2 DEF TakeRefusal, NextMail, TalkTypes, sender
<1>7. CASE FoldSlice
  <2> DEFINE n == IF Len(unfolded) < SliceSize THEN Len(unfolded) ELSE SliceSize
             p == SubSeq(unfolded, 1, n)
             q == SubSeq(unfolded, n + 1, Len(unfolded))
  <2>1. unfolded \in Seq(Rows) /\ n \in 0 .. Len(unfolded)
    <3>1. Len(unfolded) \in Nat /\ SliceSize \in Nat
      BY LenProperties, TalkAssumption DEF TalkTypes
    <3> QED BY <3>1 DEF TalkTypes
  <2>2. Hold(Folded(Held, p)) /\ unfolded' = q
    BY <1>7 DEF FoldSlice
  <2> HIDE DEF n
  <2>3. p \in Seq(Rows) /\ q \in Seq(Rows)
    BY <2>1, CutSeqs
  <2> HIDE DEF p, q
  <2>4. Folded(Held, p) \in Transcripts
    BY <1>1, <2>3, FoldGains
  <2>5. items' \in Seq(Rows) /\ chunks' \subseteq Nat /\ oldest' \in Nat
    BY <2>2, <2>4, HoldTypes
  <2> QED BY <1>7, <2>2, <2>3, <2>5 DEF FoldSlice, TalkTypes, sender
<1> QED BY <1>2, <1>3, <1>4, <1>5, <1>6, <1>7

-----------------------------------------------------------------------------
\* Streams and their frames: a followed session is one stream of dsh's, numbers are not
\* used again, and a stream's frames come in the order of their numbers, snapshot first.

Streams ==
  /\ \A f \in table : f.id < nextId /\ \E x \in sources :
       x.id = f.id /\ x.session = f.session /\ f.cursor <= x.sent
  /\ \A x \in sources : /\ x.id < nextId /\ x.sent <= Len(log[x.session])
                        /\ \E f \in table : f.id = x.id /\ f.session = x.session
  /\ \A f, g \in table : f.id = g.id \/ f.session = g.session => f = g
  /\ \A x, y \in sources : x.id = y.id \/ x.session = y.session => x = y

Delivery ==
  /\ \A i \in 1 .. Len(talkFrames) : talkFrames[i].id < nextId
  /\ \A i, j \in 1 .. Len(talkFrames) : i < j /\ talkFrames[i].id = talkFrames[j].id =>
       talkFrames[j].type = "event" /\ talkFrames[i].seq < talkFrames[j].seq
  /\ \A x \in sources, i \in 1 .. Len(talkFrames) :
       talkFrames[i].id = x.id => talkFrames[i].seq <= x.sent
  /\ \A f \in table, i \in 1 .. Len(talkFrames) :
       talkFrames[i].id = f.id /\ talkFrames[i].type = "event" => f.cursor < talkFrames[i].seq

LEMMA TableIs ==
  ASSUME TalkTypes
  PROVE  /\ \A f \in table : f \in Followed /\ f.id \in Nat /\ f.session \in TalkSessions /\ f.cursor \in Nat
         /\ \A x \in sources : x \in Sources /\ x.id \in Nat /\ x.session \in TalkSessions /\ x.sent \in Nat
         /\ \A i \in 1 .. Len(talkFrames) : /\ talkFrames[i] \in Heard
                                            /\ talkFrames[i].id \in Nat /\ talkFrames[i].seq \in Nat
                                            /\ talkFrames[i].type \in {"snapshot", "event"}
<1>1. \A i \in 1 .. Len(talkFrames) : talkFrames[i] \in Heard
  BY ElementOfSeq DEF TalkTypes
<1> QED BY <1>1, FollowedIs, SourceIs, HeardIs DEF TalkTypes

\* A frame added: of the latest number, an event but for the first of its stream.
LEMMA DeliveryGrows ==
  ASSUME TalkTypes, Delivery, NEW h \in Heard, talkFrames' = Append(talkFrames, h),
         h.id < nextId', nextId <= nextId', nextId' \in Nat,
         \A i \in 1 .. Len(talkFrames) : talkFrames[i].id = h.id =>
           h.type = "event" /\ talkFrames[i].seq < h.seq
  PROVE  /\ \A i \in 1 .. Len(talkFrames') : talkFrames'[i].id < nextId'
         /\ \A i, j \in 1 .. Len(talkFrames') : i < j /\ talkFrames'[i].id = talkFrames'[j].id =>
              talkFrames'[j].type = "event" /\ talkFrames'[i].seq < talkFrames'[j].seq
         /\ \A i \in 1 .. Len(talkFrames') : talkFrames'[i] = h \/ \E k \in 1 .. Len(talkFrames) :
              talkFrames'[i] = talkFrames[k]
<1> DEFINE q == talkFrames
           a == Append(q, h)
           n == Len(q)
<1>1. /\ n \in Nat /\ Len(a) = n + 1 /\ a[n + 1] = h
      /\ \A i \in 1 .. n : i \in 1 .. n + 1 /\ a[i] = q[i]
      /\ \A i \in 1 .. n + 1 : i \in 1 .. n \/ i = n + 1
  BY AppendIs DEF TalkTypes
<1>2. /\ \A i \in 1 .. n : q[i].id < nextId /\ q[i].id \in Nat
      /\ \A i, j \in 1 .. n : i < j /\ q[i].id = q[j].id => q[j].type = "event" /\ q[i].seq < q[j].seq
  BY TableIs DEF Delivery
<1>3. nextId \in Nat
  BY DEF TalkTypes
<1> HIDE DEF a, n
<1>4. \A i \in 1 .. n + 1 : a[i].id < nextId'
  <2>1. \A i \in 1 .. n : q[i].id < nextId'
    BY <1>2, <1>3
  <2> QED BY <1>1, <2>1
<1>5. ASSUME NEW i \in 1 .. n + 1, NEW j \in 1 .. n + 1, i < j, a[i].id = a[j].id
      PROVE  a[j].type = "event" /\ a[i].seq < a[j].seq
  <2>1. i \in 1 .. n
    BY <1>1, <1>5
  <2>2. CASE j \in 1 .. n
    BY <1>1, <1>2, <1>5, <2>1, <2>2
  <2>3. CASE j = n + 1
    BY <1>1, <1>5, <2>1, <2>3 DEF n
  <2> QED BY <1>1, <2>2, <2>3
<1>6. \A i \in 1 .. n + 1 : a[i] = h \/ \E k \in 1 .. n : a[i] = q[k]
  BY <1>1
<1> QED BY <1>1, <1>4, <1>5, <1>6 DEF a, n

\* A frame taken off.
LEMMA DeliveryShrinks ==
  ASSUME TalkTypes, Delivery, NextTalkFrame
  PROVE  /\ \A i \in 1 .. Len(talkFrames') : \E k \in 1 .. Len(talkFrames) :
              k # 1 /\ talkFrames'[i] = talkFrames[k]
         /\ \A i, j \in 1 .. Len(talkFrames') : i < j /\ talkFrames'[i].id = talkFrames'[j].id =>
              talkFrames'[j].type = "event" /\ talkFrames'[i].seq < talkFrames'[j].seq
         /\ \A i \in 1 .. Len(talkFrames') : talkFrames'[i].id = Head(talkFrames).id =>
              talkFrames'[i].type = "event" /\ Head(talkFrames).seq < talkFrames'[i].seq
         /\ \E k \in 1 .. Len(talkFrames) : Head(talkFrames) = talkFrames[k]
<1> DEFINE q == talkFrames
           t == Tail(q)
           n == Len(q)
           m == Len(t)
<1>1. talkFrames' = t /\ q # <<>> /\ q \in Seq(Heard)
  BY FrameIs DEF TalkTypes
<1>2. /\ n \in Nat \ {0} /\ m = n - 1 /\ Head(q) = q[1]
      /\ \A i \in 1 .. m : i + 1 \in 1 .. n /\ t[i] = q[i + 1]
  BY <1>1, HeadTailIs
<1>3. \A i, j \in 1 .. n : i < j /\ q[i].id = q[j].id => q[j].type = "event" /\ q[i].seq < q[j].seq
  BY DEF Delivery
<1> HIDE DEF t, n, m
<1>4. ASSUME NEW i \in 1 .. m
      PROVE  \E k \in 1 .. n : k # 1 /\ k = i + 1 /\ t[i] = q[k]
  BY <1>2
<1>5. ASSUME NEW i \in 1 .. m, NEW j \in 1 .. m, i < j, t[i].id = t[j].id
      PROVE  t[j].type = "event" /\ t[i].seq < t[j].seq
  <2>1. PICK k \in 1 .. n : k = i + 1 /\ t[i] = q[k]
    BY <1>4
  <2>2. PICK l \in 1 .. n : l = j + 1 /\ t[j] = q[l]
    BY <1>4
  <2>3. k < l
    BY <1>5, <2>1, <2>2
  <2> QED BY <1>3, <1>5, <2>1, <2>2, <2>3
<1>6. ASSUME NEW i \in 1 .. m, t[i].id = Head(q).id
      PROVE  t[i].type = "event" /\ Head(q).seq < t[i].seq
  <2>1. PICK k \in 1 .. n : k # 1 /\ t[i] = q[k]
    BY <1>4
  <2>2. 1 \in 1 .. n /\ 1 < k
    BY <1>2, <2>1
  <2> QED BY <1>2, <1>3, <1>6, <2>1, <2>2
<1>7. \E k \in 1 .. n : Head(q) = q[k]
  BY <1>2
<1> QED BY <1>1, <1>4, <1>5, <1>6, <1>7 DEF t, n, m

LEMMA StreamsKept ==
  ASSUME TalkTypes, Streams, Delivery, [TalkNext]_talkVars
  PROVE  Streams' /\ Delivery'
<1>1. /\ \A f \in table : f \in Followed /\ f.id \in Nat /\ f.session \in TalkSessions /\ f.cursor \in Nat
      /\ \A x \in sources : x \in Sources /\ x.id \in Nat /\ x.session \in TalkSessions /\ x.sent \in Nat
  BY TableIs
<1>2. nextId \in Nat /\ \A s \in TalkSessions : Len(log[s]) \in Nat
  BY LogIs DEF TalkTypes
<1>3. ASSUME UNCHANGED <<log, sources, talkFrames, table, nextId>> PROVE Streams' /\ Delivery'
  BY <1>3 DEF Streams, Delivery
<1>4. CASE \E s \in TalkSessions, kind \in Kinds : AddRecord(s, kind)
  <2>1. PICK s \in TalkSessions, kind \in Kinds : AddRecord(s, kind)
    BY <1>4
  <2>2. log' = [log EXCEPT ![s] = Append(log[s], kind)] /\ log[s] \in Seq(Kinds)
        /\ UNCHANGED <<sources, talkFrames, table, nextId>>
    BY <2>1, LogIs DEF AddRecord, sender
  <2>3. Len(Append(log[s], kind)) = Len(log[s]) + 1
    BY <2>2, AppendProperties, Zenon
  <2>4. log \in [TalkSessions -> Seq(Kinds)]
    BY DEF TalkTypes
  <2>5. \A r \in TalkSessions : Len(log[r]) <= Len(log'[r]) /\ Len(log'[r]) \in Nat
    BY <1>2, <2>2, <2>3, <2>4
  <2>6. \A x \in sources : x.sent <= Len(log'[x.session])
    <3>1. SUFFICES ASSUME NEW x \in sources PROVE x.sent <= Len(log'[x.session])
      OBVIOUS
    <3>2. x.sent <= Len(log[x.session]) /\ Len(log[x.session]) <= Len(log'[x.session])
          /\ x.sent \in Nat /\ Len(log[x.session]) \in Nat /\ Len(log'[x.session]) \in Nat
      BY <1>1, <1>2, <2>5 DEF Streams
    <3> QED BY <3>2
  <2> QED BY <2>2, <2>6 DEF Streams, Delivery
<1>5. CASE \E x \in sources : SendEvent(x)
  <2>1. PICK x \in sources : SendEvent(x)
    BY <1>5
  <2> DEFINE y == [x EXCEPT !.sent = @ + 1]
             h == [type |-> "event", id |-> x.id, seq |-> x.sent + 1]
  <2>2. /\ sources' = (sources \ {x}) \cup {y} /\ talkFrames' = Append(talkFrames, h)
        /\ x.sent < Len(log[x.session]) /\ UNCHANGED <<log, table, nextId>>
    BY <2>1 DEF SendEvent, sender
  <2>3. y.id = x.id /\ y.session = x.session /\ y.sent = x.sent + 1
    BY <1>1, SourceIs
  <2>4. h \in Heard /\ h.type = "event" /\ h.id = x.id /\ h.seq = x.sent + 1
    BY <1>1, HeardIs
  <2> HIDE DEF y, h
  <2>5. x.sent \in Nat /\ Len(log[x.session]) \in Nat /\ x.id < nextId
    BY <1>1, <1>2 DEF Streams
  <2>6. Streams'
    <3>1. ASSUME NEW f \in table
          PROVE  \E z \in sources' : z.id = f.id /\ z.session = f.session /\ f.cursor <= z.sent
      <4>1. PICK z \in sources : z.id = f.id /\ z.session = f.session /\ f.cursor <= z.sent
        BY DEF Streams
      <4>2. CASE z = x
        <5>1. y \in sources' /\ f.cursor <= y.sent
          BY <1>1, <2>2, <2>3, <2>5, <4>1, <4>2
        <5> QED BY <2>3, <4>1, <4>2, <5>1
      <4>3. CASE z # x
        BY <2>2, <4>1, <4>3
      <4> QED BY <4>2, <4>3
    <3>2. ASSUME NEW z \in sources'
          PROVE  /\ z.id < nextId /\ z.sent <= Len(log[z.session])
                 /\ \E f \in table : f.id = z.id /\ f.session = z.session
      <4>1. CASE z = y
        <5>1. z.sent <= Len(log[z.session])
          BY <2>2, <2>3, <2>5, <4>1
        <5> QED BY <2>3, <4>1, <5>1 DEF Streams
      <4>2. CASE z \in sources
        BY <4>2 DEF Streams
      <4> QED BY <2>2, <4>1, <4>2
    <3>3. \A w, z \in sources' : w.id = z.id \/ w.session = z.session => w = z
      BY <2>2, <2>3 DEF Streams
    <3> QED BY <2>2, <3>1, <3>2, <3>3 DEF Streams
  <2>7. \A i \in 1 .. Len(talkFrames) : talkFrames[i].id = h.id =>
          h.type = "event" /\ talkFrames[i].seq < h.seq
    <3>1. SUFFICES ASSUME NEW i \in 1 .. Len(talkFrames), talkFrames[i].id = x.id
                   PROVE  talkFrames[i].seq < x.sent + 1
      BY <2>4
    <3>2. talkFrames[i].seq <= x.sent /\ talkFrames[i].seq \in Nat
      BY <3>1, TableIs DEF Delivery
    <3> QED BY <2>5, <3>2
  <2>8. nextId' = nextId /\ nextId <= nextId /\ h.id < nextId
    BY <1>2, <2>2, <2>4, <2>5
  <2>9. /\ \A i \in 1 .. Len(talkFrames') : talkFrames'[i].id < nextId'
        /\ \A i, j \in 1 .. Len(talkFrames') : i < j /\ talkFrames'[i].id = talkFrames'[j].id =>
             talkFrames'[j].type = "event" /\ talkFrames'[i].seq < talkFrames'[j].seq
        /\ \A i \in 1 .. Len(talkFrames') : talkFrames'[i] = h \/ \E k \in 1 .. Len(talkFrames) :
             talkFrames'[i] = talkFrames[k]
    BY <1>2, <2>2, <2>4, <2>7, <2>8, DeliveryGrows
  <2>10. ASSUME NEW z \in sources', NEW i \in 1 .. Len(talkFrames'), talkFrames'[i].id = z.id
         PROVE  talkFrames'[i].seq <= z.sent
    <3>1. CASE talkFrames'[i] = h
      <4>1. z = y
        BY <2>2, <2>3, <2>4, <2>10, <3>1 DEF Streams
      <4> QED BY <2>3, <2>4, <2>5, <3>1, <4>1
    <3>2. CASE \E k \in 1 .. Len(talkFrames) : talkFrames'[i] = talkFrames[k]
      <4>1. PICK k \in 1 .. Len(talkFrames) : talkFrames'[i] = talkFrames[k]
        BY <3>2
      <4>2. CASE z = y
        <5>1. talkFrames[k].seq <= x.sent /\ talkFrames[k].seq \in Nat
          BY <2>3, <2>10, <4>1, <4>2, TableIs DEF Delivery
        <5> QED BY <2>3, <2>5, <4>1, <4>2, <5>1
      <4>3. CASE z \in sources
        BY <2>10, <4>1, <4>3 DEF Delivery
      <4> QED BY <2>2, <4>2, <4>3
    <3> QED BY <2>9, <3>1, <3>2
  <2>11. ASSUME NEW f \in table, NEW i \in 1 .. Len(talkFrames'),
                talkFrames'[i].id = f.id, talkFrames'[i].type = "event"
         PROVE  f.cursor < talkFrames'[i].seq
    <3>1. CASE talkFrames'[i] = h
      <4>1. PICK z \in sources : z.id = f.id /\ z.session = f.session /\ f.cursor <= z.sent
        BY DEF Streams
      <4>2. z = x
        BY <2>4, <2>11, <3>1, <4>1 DEF Streams
      <4> QED BY <1>1, <2>4, <2>5, <3>1, <4>1, <4>2
    <3>2. CASE \E k \in 1 .. Len(talkFrames) : talkFrames'[i] = talkFrames[k]
      BY <2>11, <3>2 DEF Delivery
    <3> QED BY <2>9, <3>1, <3>2
  <2> QED BY <2>2, <2>6, <2>9, <2>10, <2>11 DEF Delivery
<1>6. CASE TakeSubscribe
  <2> DEFINE s == Head(asks).session
             n == Len(log[s])
             f == [id |-> nextId, session |-> s, cursor |-> 0]
             x == [id |-> nextId, session |-> s, sent |-> n]
             h == [type |-> "snapshot", id |-> nextId, seq |-> n]
  <2>1. NextAsk("subscribe")
    BY <1>6 DEF TakeSubscribe
  <2>2. s \in TalkSessions /\ n \in Nat
    BY <2>1, AskIs, LogIs
  <2>3. /\ table' = {g \in table : g.session # s} \cup {f}
        /\ sources' = {y \in sources : y.session # s} \cup {x}
        /\ talkFrames' = Append(talkFrames, h) /\ nextId' = nextId + 1 /\ log' = log
    BY <1>6 DEF TakeSubscribe, NextAsk
  <2>4. /\ f.id = nextId /\ f.session = s /\ f.cursor = 0
        /\ x.id = nextId /\ x.session = s /\ x.sent = n
        /\ h \in Heard /\ h.type = "snapshot" /\ h.id = nextId /\ h.seq = n
    BY <1>2, <2>2, HeardIs
  <2>5. x.sent <= Len(log[x.session])
    BY <2>2, <2>4
  <2> HIDE DEF s, n, f, x, h
  <2>6. Streams'
    <3>1. ASSUME NEW g \in table'
          PROVE  /\ g.id < nextId'
                 /\ \E y \in sources' : y.id = g.id /\ y.session = g.session /\ g.cursor <= y.sent
      <4>1. CASE g = f
        <5>1. x \in sources' /\ g.cursor <= x.sent /\ g.id < nextId'
          BY <1>2, <2>2, <2>3, <2>4, <4>1
        <5> QED BY <2>4, <4>1, <5>1
      <4>2. CASE g \in table /\ g.session # s
        <5>1. g.id < nextId'
          BY <1>1, <1>2, <2>3, <4>2 DEF Streams
        <5>2. PICK y \in sources : y.id = g.id /\ y.session = g.session /\ g.cursor <= y.sent
          BY <4>2 DEF Streams
        <5> QED BY <2>3, <4>2, <5>1, <5>2
      <4> QED BY <2>3, <4>1, <4>2
    <3>2. ASSUME NEW y \in sources'
          PROVE  /\ y.id < nextId' /\ y.sent <= Len(log[y.session])
                 /\ \E g \in table' : g.id = y.id /\ g.session = y.session
      <4>1. CASE y = x
        <5>1. f \in table' /\ y.id < nextId'
          BY <1>2, <2>3, <2>4, <4>1
        <5> QED BY <2>4, <2>5, <4>1, <5>1
      <4>2. CASE y \in sources /\ y.session # s
        <5>1. y.id < nextId'
          BY <1>1, <1>2, <2>3, <4>2 DEF Streams
        <5>2. PICK g \in table : g.id = y.id /\ g.session = y.session
          BY <4>2 DEF Streams
        <5>3. g \in table'
          BY <2>3, <4>2, <5>2
        <5> QED BY <4>2, <5>1, <5>2, <5>3 DEF Streams
      <4> QED BY <2>3, <4>1, <4>2
    <3>3. \A g \in table : g.id # nextId
      BY <1>1, <1>2 DEF Streams
    <3>4. \A y \in sources : y.id # nextId
      BY <1>1, <1>2 DEF Streams
    <3>5. \A g, k \in table' : g.id = k.id \/ g.session = k.session => g = k
      BY <2>3, <2>4, <3>3 DEF Streams
    <3>6. \A y, z \in sources' : y.id = z.id \/ y.session = z.session => y = z
      BY <2>3, <2>4, <3>4 DEF Streams
    <3> QED BY <2>3, <3>1, <3>2, <3>5, <3>6 DEF Streams
  <2>7. \A i \in 1 .. Len(talkFrames) : talkFrames[i].id \in Nat /\ talkFrames[i].id < nextId
    BY TableIs DEF Delivery
  <2>8. nextId' \in Nat /\ nextId <= nextId' /\ h.id < nextId'
        /\ \A i \in 1 .. Len(talkFrames) : talkFrames[i].id # h.id
    BY <1>2, <2>3, <2>4, <2>7
  <2>9. /\ \A i \in 1 .. Len(talkFrames') : talkFrames'[i].id < nextId'
        /\ \A i, j \in 1 .. Len(talkFrames') : i < j /\ talkFrames'[i].id = talkFrames'[j].id =>
             talkFrames'[j].type = "event" /\ talkFrames'[i].seq < talkFrames'[j].seq
        /\ \A i \in 1 .. Len(talkFrames') : talkFrames'[i] = h \/ \E k \in 1 .. Len(talkFrames) :
             talkFrames'[i] = talkFrames[k]
    BY <2>3, <2>4, <2>8, DeliveryGrows
  <2>10. ASSUME NEW y \in sources', NEW i \in 1 .. Len(talkFrames'), talkFrames'[i].id = y.id
         PROVE  talkFrames'[i].seq <= y.sent
    <3>1. CASE talkFrames'[i] = h
      <4>1. y = x
        BY <1>1, <1>2, <2>3, <2>4, <2>10, <3>1 DEF Streams
      <4> QED BY <2>2, <2>4, <3>1, <4>1
    <3>2. CASE \E k \in 1 .. Len(talkFrames) : talkFrames'[i] = talkFrames[k]
      <4>1. PICK k \in 1 .. Len(talkFrames) : talkFrames'[i] = talkFrames[k]
        BY <3>2
      <4>2. y \in sources
        BY <2>3, <2>4, <2>8, <2>10, <4>1
      <4> QED BY <2>10, <4>1, <4>2 DEF Delivery
    <3> QED BY <2>9, <3>1, <3>2
  <2>11. ASSUME NEW g \in table', NEW i \in 1 .. Len(talkFrames'),
                talkFrames'[i].id = g.id, talkFrames'[i].type = "event"
         PROVE  g.cursor < talkFrames'[i].seq
    <3>1. talkFrames'[i] # h
      BY <2>4, <2>11
    <3>2. PICK k \in 1 .. Len(talkFrames) : talkFrames'[i] = talkFrames[k]
      BY <2>9, <3>1
    <3>3. g \in table
      BY <2>3, <2>4, <2>8, <2>11, <3>2
    <3> QED BY <2>11, <3>2, <3>3 DEF Delivery
  <2> QED BY <2>6, <2>9, <2>10, <2>11 DEF Delivery
<1>7. CASE TakeUnsubscribe
  <2> DEFINE s == Head(asks).session
  <2>1. /\ table' = {g \in table : g.session # s} /\ sources' = {y \in sources : y.session # s}
        /\ UNCHANGED <<log, talkFrames, nextId>>
    BY <1>7 DEF TakeUnsubscribe, NextAsk
  <2> HIDE DEF s
  <2>2. \A g \in table' : g \in table /\ g.session # s
    BY <2>1
  <2>3. \A y \in sources' : y \in sources /\ y.session # s
    BY <2>1
  <2>4. ASSUME NEW g \in table'
        PROVE  g.id < nextId /\ \E y \in sources' : y.id = g.id /\ y.session = g.session /\ g.cursor <= y.sent
    <3>1. PICK y \in sources : y.id = g.id /\ y.session = g.session /\ g.cursor <= y.sent
      BY <2>2 DEF Streams
    <3> QED BY <2>1, <2>2, <3>1 DEF Streams
  <2>5. ASSUME NEW y \in sources'
        PROVE  /\ y.id < nextId /\ y.sent <= Len(log[y.session])
               /\ \E g \in table' : g.id = y.id /\ g.session = y.session
    <3>1. PICK g \in table : g.id = y.id /\ g.session = y.session
      BY <2>3 DEF Streams
    <3> QED BY <2>1, <2>3, <3>1 DEF Streams
  <2>6. Streams'
    BY <2>1, <2>2, <2>3, <2>4, <2>5 DEF Streams
  <2>7. Delivery'
    BY <2>1, <2>2, <2>3 DEF Delivery
  <2> QED BY <2>6, <2>7
<1>8. CASE DropTalkFrame
  <2>1. NextTalkFrame /\ UNCHANGED <<log, sources, table, nextId>>
    BY <1>8 DEF DropTalkFrame, NextTalkFrame
  <2>2. /\ \A i \in 1 .. Len(talkFrames') : \E k \in 1 .. Len(talkFrames) :
             k # 1 /\ talkFrames'[i] = talkFrames[k]
        /\ \A i, j \in 1 .. Len(talkFrames') : i < j /\ talkFrames'[i].id = talkFrames'[j].id =>
             talkFrames'[j].type = "event" /\ talkFrames'[i].seq < talkFrames'[j].seq
    BY <2>1, DeliveryShrinks
  <2>3. Delivery'
    BY <2>1, <2>2 DEF Delivery
  <2>4. Streams'
    BY <2>1 DEF Streams
  <2> QED BY <2>3, <2>4
<1>9. CASE \E f \in table : Forward(f)
  <2>1. PICK f \in table : Forward(f)
    BY <1>9
  <2> DEFINE h == Head(talkFrames)
             g == [f EXCEPT !.cursor = h.seq]
  <2>2. NextTalkFrame /\ f.id = h.id /\ table' = (table \ {f}) \cup {g} /\ UNCHANGED <<log, sources, nextId>>
    BY <2>1 DEF Forward, NextTalkFrame
  <2>3. h.seq \in Nat
    BY <2>2, FrameIs
  <2>4. g.id = f.id /\ g.session = f.session /\ g.cursor = h.seq
    BY <1>1, <2>3, FollowedIs
  <2>5. /\ \A i \in 1 .. Len(talkFrames') : \E k \in 1 .. Len(talkFrames) :
             k # 1 /\ talkFrames'[i] = talkFrames[k]
        /\ \A i, j \in 1 .. Len(talkFrames') : i < j /\ talkFrames'[i].id = talkFrames'[j].id =>
             talkFrames'[j].type = "event" /\ talkFrames'[i].seq < talkFrames'[j].seq
        /\ \A i \in 1 .. Len(talkFrames') : talkFrames'[i].id = h.id =>
             talkFrames'[i].type = "event" /\ h.seq < talkFrames'[i].seq
        /\ \E k \in 1 .. Len(talkFrames) : h = talkFrames[k]
    BY <2>2, DeliveryShrinks
  <2> HIDE DEF h, g
  <2>6. Streams'
    <3>1. ASSUME NEW k \in table'
          PROVE  k.id < nextId /\ \E x \in sources : x.id = k.id /\ x.session = k.session /\ k.cursor <= x.sent
      <4>1. CASE k = g
        <5>1. PICK x \in sources : x.id = f.id /\ x.session = f.session
          BY DEF Streams
        <5>2. h.seq <= x.sent
          BY <2>2, <2>5, <5>1 DEF Delivery
        <5> QED BY <2>4, <4>1, <5>1, <5>2 DEF Streams
      <4>2. CASE k \in table
        BY <4>2 DEF Streams
      <4> QED BY <2>2, <4>1, <4>2
    <3>2. ASSUME NEW x \in sources PROVE \E k \in table' : k.id = x.id /\ k.session = x.session
      <4>1. PICK k \in table : k.id = x.id /\ k.session = x.session
        BY DEF Streams
      <4> QED BY <2>2, <2>4, <4>1
    <3>3. \A k, l \in table' : k.id = l.id \/ k.session = l.session => k = l
      BY <2>2, <2>4 DEF Streams
    <3> QED BY <2>2, <3>1, <3>2, <3>3 DEF Streams
  <2>7. ASSUME NEW k \in table', NEW i \in 1 .. Len(talkFrames'),
               talkFrames'[i].id = k.id, talkFrames'[i].type = "event"
        PROVE  k.cursor < talkFrames'[i].seq
    <3>1. CASE k = g
      BY <2>2, <2>4, <2>5, <2>7, <3>1
    <3>2. CASE k \in table
      BY <2>5, <2>7, <3>2 DEF Delivery
    <3> QED BY <2>2, <3>1, <3>2
  <2>8. Delivery'
    BY <2>2, <2>5, <2>7 DEF Delivery
  <2> QED BY <2>6, <2>8
<1>10. CASE LoseMux
  <2>1. sources' = {} /\ table' = {} /\ talkFrames' = <<>>
    BY <1>10 DEF LoseMux
  <2>2. Len(talkFrames') = 0 /\ 1 .. 0 = {}
    BY <2>1
  <2> QED BY <2>1, <2>2 DEF Streams, Delivery
<1>11. CASE TakePage
  BY <1>3, <1>11 DEF TakePage, NextAsk, sender
<1>12. CASE \/ \E s \in TalkSessions : OpenSession(s)
            \/ RefreshSession \/ ClientReconnects \/ LoadOlder
  BY <1>3, <1>12 DEF OpenSession, RefreshSession, ClientReconnects, LoadOlder, sender
<1>13. CASE DropMail \/ TakeSnapshot \/ TakeEvent \/ TakePageReply \/ TakeRefusal \/ FoldSlice
  BY <1>3, <1>13 DEF DropMail, TakeSnapshot, TakeEvent, TakePageReply, TakeRefusal, FoldSlice, NextMail, sender
<1>14. CASE UNCHANGED talkVars
  BY <1>3, <1>14 DEF talkVars, sender
<1> QED BY <1>4, <1>5, <1>6, <1>7, <1>8, <1>9, <1>10, <1>11, <1>12, <1>13, <1>14 DEF TalkNext

-----------------------------------------------------------------------------
\* Requests: what asks for a stream or lets one go is followed by a subscribe for the
\* open session.

AskedLast ==
  \A i \in 1 .. Len(asks) : asks[i].type # "page" =>
    \E j \in 1 .. Len(asks) : i <= j /\ asks[j] = Ask("subscribe", open)

Paging(q, i) == q[i].type = "page"
Replying(q, i) == q[i].type \in {"page", "refused"}

\* One page is on its way at most, and none while none is awaited.
OnePage ==
  /\ \A i, j \in 1 .. Len(asks) : Paging(asks, i) /\ Paging(asks, j) => i = j
  /\ \A i, j \in 1 .. Len(mail) : Replying(mail, i) /\ Replying(mail, j) => i = j
  /\ \A i \in 1 .. Len(asks), j \in 1 .. Len(mail) : ~(Paging(asks, i) /\ Replying(mail, j))
  /\ loading = "no" => /\ \A i \in 1 .. Len(asks) : ~Paging(asks, i)
                       /\ \A j \in 1 .. Len(mail) : ~Replying(mail, j)

\* The session is asked for last, and only the reconnect takes pages away.
LEMMA AsksAgain ==
  ASSUME TalkTypes, (\E s \in TalkSessions : OpenSession(s)) \/ RefreshSession \/ ClientReconnects
  PROVE  /\ Len(asks') \in Nat \ {0} /\ asks'[Len(asks')] = Ask("subscribe", open')
         /\ open' \in TalkSessions
         /\ \/ mail' = <<>> /\ \A i \in 1 .. Len(asks') : ~Paging(asks', i)
            \/ /\ mail' = mail /\ (loading' = "no" => loading = "no")
               /\ \A i \in 1 .. Len(asks') : Paging(asks', i) =>
                    i \in 1 .. Len(asks) /\ Paging(asks, i)
<1>1. asks \in Seq(Requests) /\ Len(asks) \in Nat /\ (open # "none" => open \in TalkSessions)
  BY LenProperties DEF TalkTypes
<1>2. CASE \E s \in TalkSessions : OpenSession(s)
  <2>1. PICK s \in TalkSessions : OpenSession(s)
    BY <1>2
  <2> DEFINE a == Ask("subscribe", s)
             b == Ask("unsubscribe", open)
             p == IF open = "none" THEN <<>> ELSE <<b>>
             r == asks \o p
             n == Len(asks)
             m == Len(r)
  <2>2. asks' = r \o <<a>> /\ open' = s /\ mail' = mail /\ (loading' = "no" => loading = "no")
    BY <2>1 DEF OpenSession, EmptyTranscript
  <2>3. a \in Requests /\ a.type = "subscribe"
    BY RequestIs
  <2>4. open # "none" => b \in Requests /\ b.type = "unsubscribe"
    BY <1>1, RequestIs
  <2> HIDE DEF a, b
  <2>5. r \in Seq(Requests) /\ m \in Nat /\ n <= m /\ \A i \in 1 .. m : Paging(r, i) => i \in 1 .. n /\ Paging(asks, i)
    <3>1. CASE open = "none"
      <4>1. r = asks
        BY <1>1, <3>1, ConcatEmptySeq
      <4> HIDE DEF r
      <4> QED BY <1>1, <4>1
    <3>2. CASE open # "none"
      <4>1. r = Append(asks, b)
        BY <1>1, <2>4, <3>2, AppendIsConcat
      <4>2. r \in Seq(Requests) /\ m = n + 1 /\ r[n + 1] = b
            /\ (\A i \in 1 .. n : r[i] = asks[i])
            /\ \A i \in 1 .. n + 1 : i \in 1 .. n \/ i = n + 1
        <5> HIDE DEF r
        <5> QED BY <1>1, <2>4, <3>2, <4>1, AppendIs
      <4> HIDE DEF r, n, m
      <4> QED BY <1>1, <2>4, <3>2, <4>2 DEF Paging, n
    <3> QED BY <3>1, <3>2
  <2> HIDE DEF r
  <2>6. asks' = Append(r, a)
    BY <2>2, <2>3, <2>5, AppendIsConcat
  <2>7. Len(asks') = m + 1 /\ asks'[m + 1] = a
        /\ (\A i \in 1 .. m : asks'[i] = r[i])
        /\ \A i \in 1 .. m + 1 : i \in 1 .. m \/ i = m + 1
    BY <2>3, <2>5, <2>6, AppendIs
  <2> HIDE DEF n, m
  <2>8. \A i \in 1 .. Len(asks') : Paging(asks', i) => i \in 1 .. n /\ Paging(asks, i)
    BY <2>3, <2>5, <2>7 DEF Paging
  <2>9. Len(asks') \in Nat \ {0} /\ asks'[Len(asks')] = a
    BY <2>5, <2>7
  <2> QED BY <2>2, <2>8, <2>9 DEF n, a
<1>3. CASE RefreshSession
  <2> DEFINE a == Ask("subscribe", open)
             n == Len(asks)
  <2>1. asks' = Append(asks, a) /\ open' = open /\ mail' = mail /\ (loading' = "no" => loading = "no")
        /\ open \in TalkSessions
    BY <1>1, <1>3 DEF RefreshSession, EmptyTranscript
  <2>2. a \in Requests /\ a.type = "subscribe"
    BY <2>1, RequestIs
  <2> HIDE DEF a
  <2>3. Len(asks') = n + 1 /\ asks'[n + 1] = a
        /\ (\A i \in 1 .. n : asks'[i] = asks[i])
        /\ \A i \in 1 .. n + 1 : i \in 1 .. n \/ i = n + 1
    BY <1>1, <2>1, <2>2, AppendIs
  <2> HIDE DEF n
  <2>4. n \in Nat
    BY <1>1 DEF n
  <2>5. \A i \in 1 .. Len(asks') : Paging(asks', i) => i \in 1 .. n /\ Paging(asks, i)
    <3>1. SUFFICES ASSUME NEW i \in 1 .. n + 1, Paging(asks', i)
                   PROVE  i \in 1 .. n /\ Paging(asks, i)
      BY <2>3
    <3>2. i # n + 1
      BY <2>2, <2>3, <3>1 DEF Paging
    <3>3. i \in 1 .. n
      BY <2>4, <3>1, <3>2
    <3>4. asks'[i] = asks[i]
      BY <2>3, <3>3
    <3> QED BY <3>1, <3>3, <3>4 DEF Paging
  <2>6. Len(asks') \in Nat \ {0} /\ asks'[Len(asks')] = a
    BY <2>3, <2>4
  <2> QED BY <2>1, <2>5, <2>6 DEF n, a
<1>4. CASE ClientReconnects
  <2> DEFINE a == Ask("subscribe", open)
             good == {ask \in Range(asks) : ask.type # "page"}
  <2>1. PICK n \in 0 .. Len(asks) : asks' = Append(Kept(SubSeq(asks, 1, n), good), a)
    BY <1>4 DEF ClientReconnects
  <2>2. mail' = <<>> /\ open' = open /\ open \in TalkSessions
    BY <1>1, <1>4 DEF ClientReconnects
  <2>3. a \in Requests /\ a.type = "subscribe"
    BY <2>2, RequestIs
  <2> HIDE DEF a
  <2>4. SubSeq(asks, 1, n) \in Seq(Requests)
    <3>1. \A i \in 1 .. Len(asks) : asks[i] \in Requests
      BY <1>1, ElementOfSeq
    <3>2. \A i \in 1 .. n : asks[i] \in Requests
      BY <1>1, <3>1
    <3> QED BY <1>1, <3>2, SubSeqProperties
  <2> DEFINE k == Kept(SubSeq(asks, 1, n), good)
             m == Len(k)
  <2>5. k \in Seq(Requests) /\ Range(k) \subseteq good
    <3> DEFINE q == SubSeq(asks, 1, n)
    <3> HIDE DEF good, q
    <3>1. q \in Seq(Requests)
      BY <2>4 DEF q
    <3>2. Kept(q, good) \in Seq(Requests) /\ Range(Kept(q, good)) = Range(q) \cap good
      BY <3>1, KeptRange
    <3> QED BY <3>2 DEF q
  <2>6. asks' = Append(k, a)
    BY <2>1
  <2> HIDE DEF k
  <2>7. m \in Nat /\ \A i \in 1 .. m : k[i].type # "page"
    <3>1. m \in Nat /\ \A i \in 1 .. m : k[i] \in Range(k)
      BY <2>5, LenProperties, RangeIs
    <3> QED BY <2>5, <3>1
  <2>8. Len(asks') = m + 1 /\ asks'[m + 1] = a
        /\ (\A i \in 1 .. m : asks'[i] = k[i])
        /\ \A i \in 1 .. m + 1 : i \in 1 .. m \/ i = m + 1
    BY <2>3, <2>5, <2>6, AppendIs
  <2> HIDE DEF m
  <2>9. \A i \in 1 .. Len(asks') : ~Paging(asks', i)
    BY <2>3, <2>7, <2>8 DEF Paging
  <2>10. Len(asks') \in Nat \ {0} /\ asks'[Len(asks')] = a
    BY <2>7, <2>8
  <2> QED BY <2>2, <2>9, <2>10 DEF a
<1> QED BY <1>2, <1>3, <1>4

LEMMA AsksKept ==
  ASSUME TalkTypes, AskedLast, [TalkNext]_talkVars
  PROVE  AskedLast'
<1>1. asks \in Seq(Requests) /\ Len(asks) \in Nat
  BY LenProperties DEF TalkTypes
<1>2. ASSUME UNCHANGED <<asks, open>> PROVE AskedLast'
  BY <1>2 DEF AskedLast
<1>3. CASE TakeSubscribe \/ TakeUnsubscribe \/ TakePage
  <2>1. PICK type : NextAsk(type)
    BY <1>3 DEF TakeSubscribe, TakeUnsubscribe, TakePage
  <2>2. asks # <<>> /\ asks' = Tail(asks) /\ open' = open
    BY <2>1 DEF NextAsk, screen
  <2> DEFINE n == Len(asks)
             m == Len(Tail(asks))
             last == Ask("subscribe", open)
  <2>3. /\ m \in Nat
        /\ \A i \in 1 .. m : i + 1 \in 1 .. n /\ Tail(asks)[i] = asks[i + 1]
        /\ \A i \in 1 .. n : i = 1 \/ (i - 1 \in 1 .. m /\ Tail(asks)[i - 1] = asks[i])
    BY <1>1, <2>2, HeadTailIs
  <2>4. \A i \in 1 .. n : asks[i].type # "page" => \E j \in 1 .. n : i <= j /\ asks[j] = last
    BY DEF AskedLast
  <2> HIDE DEF n, m, last
  <2>5. ASSUME NEW i \in 1 .. m, Tail(asks)[i].type # "page"
        PROVE  \E j \in 1 .. m : i <= j /\ Tail(asks)[j] = last
    <3>1. i + 1 \in 1 .. n /\ asks[i + 1].type # "page"
      BY <2>3, <2>5
    <3>2. PICK j \in 1 .. n : i + 1 <= j /\ asks[j] = last
      BY <2>4, <3>1
    <3>3. i \in Int /\ j \in Int /\ 1 <= i
      BY <2>3
    <3>4. j # 1 /\ i <= j - 1
      BY <3>2, <3>3
    <3>5. j - 1 \in 1 .. m /\ Tail(asks)[j - 1] = asks[j]
      BY <2>3, <3>4
    <3> QED BY <3>2, <3>4, <3>5
  <2> QED BY <2>2, <2>5 DEF AskedLast, m, last
<1>4. CASE (\E s \in TalkSessions : OpenSession(s)) \/ RefreshSession \/ ClientReconnects
  <2> DEFINE n == Len(asks')
  <2>1. n \in Nat \ {0} /\ asks'[n] = Ask("subscribe", open')
    BY <1>4, AsksAgain
  <2>2. AskedLast' <=> \A i \in 1 .. n : asks'[i].type # "page" =>
                         \E j \in 1 .. n : i <= j /\ asks'[j] = Ask("subscribe", open')
    BY DEF AskedLast, Ask
  <2> HIDE DEF n
  <2>3. n \in 1 .. n /\ \A i \in 1 .. n : i <= n
    BY <2>1
  <2> QED BY <2>1, <2>2, <2>3
<1>5. CASE LoadOlder
  <2> DEFINE a == [type |-> "page", session |-> open, before |-> oldest]
             n == Len(asks)
             last == Ask("subscribe", open)
  <2>1. asks' = Append(asks, a) /\ open' = open
    BY <1>5 DEF LoadOlder
  <2>2. a \in Requests /\ a.type = "page"
    BY <1>5, RequestIs DEF LoadOlder, TalkTypes
  <2> HIDE DEF a
  <2>3. /\ Len(asks') = n + 1 /\ asks'[n + 1] = a
        /\ \A i \in 1 .. n : i \in 1 .. n + 1 /\ asks'[i] = asks[i]
        /\ \A i \in 1 .. n + 1 : i \in 1 .. n \/ i = n + 1
    BY <1>1, <2>1, <2>2, AppendIs
  <2>4. \A i \in 1 .. n : asks[i].type # "page" => \E j \in 1 .. n : i <= j /\ asks[j] = last
    BY DEF AskedLast
  <2>5. AskedLast' <=> \A i \in 1 .. n + 1 : asks'[i].type # "page" =>
                         \E j \in 1 .. n + 1 : i <= j /\ asks'[j] = last
    BY <2>1, <2>3 DEF AskedLast
  <2> HIDE DEF n, last
  <2>6. ASSUME NEW i \in 1 .. n + 1, asks'[i].type # "page"
        PROVE  \E j \in 1 .. n + 1 : i <= j /\ asks'[j] = last
    <3>1. i \in 1 .. n
      BY <2>2, <2>3, <2>6
    <3>2. PICK j \in 1 .. n : i <= j /\ asks[j] = last
      BY <2>3, <2>4, <2>6, <3>1
    <3> QED BY <2>3, <3>2
  <2> QED BY <2>5, <2>6
<1>6. CASE \/ \E s \in TalkSessions, kind \in Kinds : AddRecord(s, kind)
           \/ \E x \in sources : SendEvent(x)
           \/ DropTalkFrame \/ (\E f \in table : Forward(f)) \/ LoseMux
  BY <1>2, <1>6 DEF AddRecord, SendEvent, DropTalkFrame, Forward, NextTalkFrame, LoseMux, screen
<1>7. CASE DropMail \/ TakeSnapshot \/ TakeEvent \/ TakePageReply \/ TakeRefusal \/ FoldSlice
  BY <1>2, <1>7 DEF DropMail, TakeSnapshot, TakeEvent, TakePageReply, TakeRefusal, FoldSlice, NextMail
<1>8. CASE UNCHANGED talkVars
  BY <1>2, <1>8 DEF talkVars, screen
<1> QED BY <1>3, <1>4, <1>5, <1>6, <1>7, <1>8 DEF TalkNext

\* No page is added: each one that is left was there before.
LEMMA NoMorePages ==
  ASSUME OnePage, NEW d \in Nat, NEW e \in Nat, loading' = "no" => loading = "no",
         \A i \in 1 .. Len(asks') : Paging(asks', i) => i + d \in 1 .. Len(asks) /\ Paging(asks, i + d),
         \A j \in 1 .. Len(mail') : Replying(mail', j) => j + e \in 1 .. Len(mail) /\ Replying(mail, j + e)
  PROVE  OnePage'
<1> DEFINE A == 1 .. Len(asks)
           M == 1 .. Len(mail)
<1>1. /\ \A i, j \in A : Paging(asks, i) /\ Paging(asks, j) => i = j
      /\ \A i, j \in M : Replying(mail, i) /\ Replying(mail, j) => i = j
      /\ \A i \in A, j \in M : ~(Paging(asks, i) /\ Replying(mail, j))
      /\ loading = "no" => (\A i \in A : ~Paging(asks, i)) /\ (\A j \in M : ~Replying(mail, j))
  BY DEF OnePage
<1>2. /\ \A i \in 1 .. Len(asks') : i \in Int /\ (Paging(asks', i) => i + d \in A /\ Paging(asks, i + d))
      /\ \A j \in 1 .. Len(mail') : j \in Int /\ (Replying(mail', j) => j + e \in M /\ Replying(mail, j + e))
  OBVIOUS
<1> DEFINE P(i) == Paging(asks', i)
           R(j) == Replying(mail', j)
<1>3. OnePage' <=>
        /\ \A i, j \in 1 .. Len(asks') : P(i) /\ P(j) => i = j
        /\ \A i, j \in 1 .. Len(mail') : R(i) /\ R(j) => i = j
        /\ \A i \in 1 .. Len(asks'), j \in 1 .. Len(mail') : ~(P(i) /\ R(j))
        /\ loading' = "no" => (\A i \in 1 .. Len(asks') : ~P(i)) /\ (\A j \in 1 .. Len(mail') : ~R(j))
  BY DEF OnePage, Paging, Replying
<1> HIDE DEF A, M
<1>4. ASSUME NEW i \in 1 .. Len(asks'), NEW j \in 1 .. Len(asks'), P(i), P(j)
      PROVE  i = j
  <2>1. i + d = j + d
    BY <1>1, <1>2, <1>4
  <2> QED BY <1>2, <2>1
<1>5. ASSUME NEW i \in 1 .. Len(mail'), NEW j \in 1 .. Len(mail'), R(i), R(j)
      PROVE  i = j
  <2>1. i + e = j + e
    BY <1>1, <1>2, <1>5
  <2> QED BY <1>2, <2>1
<1>6. \A i \in 1 .. Len(asks'), j \in 1 .. Len(mail') : ~(P(i) /\ R(j))
  BY <1>1, <1>2
<1>7. loading' = "no" => (\A i \in 1 .. Len(asks') : ~P(i)) /\ (\A j \in 1 .. Len(mail') : ~R(j))
  BY <1>1, <1>2
<1> HIDE DEF P, R
<1> QED BY <1>3, <1>4, <1>5, <1>6, <1>7

\* A queue without its head, or with one more: the pages in it.
LEMMA PagesRead ==
  ASSUME NEW T, NEW q \in Seq(T), q # <<>>
  PROVE  /\ 1 \in 1 .. Len(q) /\ Head(q) = q[1]
         /\ \A i \in 1 .. Len(Tail(q)) : i + 1 \in 1 .. Len(q) /\ i + 1 # 1 /\ Tail(q)[i] = q[i + 1]
<1>1. Len(q) \in Nat \ {0} /\ Head(q) = q[1] /\ Len(Tail(q)) \in Nat
      /\ \A i \in 1 .. Len(Tail(q)) : i + 1 \in 1 .. Len(q) /\ Tail(q)[i] = q[i + 1]
  BY HeadTailIs
<1>2. \A i \in 1 .. Len(Tail(q)) : i + 1 # 1
  OBVIOUS
<1> QED BY <1>1, <1>2

LEMMA PagesKept ==
  ASSUME TalkTypes, OnePage, [TalkNext]_talkVars
  PROVE  OnePage'
<1>1. /\ asks \in Seq(Requests) /\ mail \in Seq(Letters) /\ Len(asks) \in Nat /\ Len(mail) \in Nat
      /\ \A i \in 1 .. Len(asks) : i + 0 = i
      /\ \A i \in 1 .. Len(mail) : i + 0 = i
  BY LenProperties DEF TalkTypes
<1>2. /\ \A i, j \in 1 .. Len(asks) : Paging(asks, i) /\ Paging(asks, j) => i = j
      /\ \A i, j \in 1 .. Len(mail) : Replying(mail, i) /\ Replying(mail, j) => i = j
      /\ \A i \in 1 .. Len(asks), j \in 1 .. Len(mail) : ~(Paging(asks, i) /\ Replying(mail, j))
      /\ loading = "no" => /\ \A i \in 1 .. Len(asks) : ~Paging(asks, i)
                           /\ \A j \in 1 .. Len(mail) : ~Replying(mail, j)
  BY DEF OnePage
<1>3. ASSUME asks' = asks
      PROVE  \A i \in 1 .. Len(asks') : Paging(asks', i) => i + 0 \in 1 .. Len(asks) /\ Paging(asks, i + 0)
  BY <1>1, <1>3 DEF Paging
<1>4. ASSUME mail' = mail
      PROVE  \A j \in 1 .. Len(mail') : Replying(mail', j) => j + 0 \in 1 .. Len(mail) /\ Replying(mail, j + 0)
  BY <1>1, <1>4 DEF Replying
<1>5. ASSUME asks # <<>>, asks' = Tail(asks)
      PROVE  \A i \in 1 .. Len(asks') : Paging(asks', i) => i + 1 \in 1 .. Len(asks) /\ Paging(asks, i + 1)
  BY <1>1, <1>5, PagesRead DEF Paging
<1>6. ASSUME mail # <<>>, mail' = Tail(mail)
      PROVE  \A j \in 1 .. Len(mail') : Replying(mail', j) => j + 1 \in 1 .. Len(mail) /\ Replying(mail, j + 1)
  BY <1>1, <1>6, PagesRead DEF Replying
<1>7. ASSUME UNCHANGED <<asks, mail>>, loading' = "no" => loading = "no" PROVE OnePage'
  BY <1>3, <1>4, <1>7, NoMorePages
<1>8. CASE \/ \E s \in TalkSessions, kind \in Kinds : AddRecord(s, kind)
           \/ \E x \in sources : SendEvent(x)
           \/ DropTalkFrame \/ LoseMux \/ FoldSlice
  BY <1>7, <1>8 DEF AddRecord, SendEvent, DropTalkFrame, NextTalkFrame, LoseMux, FoldSlice, screen
<1>9. CASE TakeSubscribe \/ TakeUnsubscribe
  <2>1. PICK type : NextAsk(type)
    BY <1>9 DEF TakeSubscribe, TakeUnsubscribe
  <2>2. asks # <<>> /\ asks' = Tail(asks) /\ mail' = mail /\ loading' = loading
    BY <1>9, <2>1 DEF NextAsk, screen, TakeSubscribe, TakeUnsubscribe
  <2> QED BY <1>4, <1>5, <2>2, NoMorePages
<1>10. CASE TakePage
  <2>1. NextAsk("page")
    BY <1>10 DEF TakePage
  <2>2. asks # <<>> /\ Head(asks).type = "page" /\ asks' = Tail(asks) /\ loading' = loading
    BY <2>1 DEF NextAsk, screen
  <2>3. PICK m \in Letters : mail' = Append(mail, m)
    <3>1. ASSUME NEW f \in table, NEW rows \in Seq(Rows), AllOf(f.session, rows)
          PROVE  [type |-> "page", session |-> f.session, rows |-> rows] \in Letters
      <4>1. f.session \in TalkSessions
        BY TableIs
      <4> QED BY <3>1, <4>1, LetterIs
    <3> QED BY <1>10, <3>1, PageIs, LetterIs
  <2>4. 1 \in 1 .. Len(asks) /\ Paging(asks, 1)
    BY <1>1, <2>2, PagesRead DEF Paging
  <2>5. (\A j \in 1 .. Len(mail) : ~Replying(mail, j)) /\ loading # "no"
    BY <1>2, <2>4
  <2>6. ASSUME NEW i \in 1 .. Len(asks') PROVE ~Paging(asks', i)
    <3>1. i + 1 \in 1 .. Len(asks) /\ i + 1 # 1 /\ asks'[i] = asks[i + 1]
      BY <1>1, <2>2, PagesRead
    <3>2. ~Paging(asks, i + 1)
      BY <1>2, <2>4, <3>1
    <3> QED BY <3>1, <3>2 DEF Paging
  <2>7. ASSUME NEW j \in 1 .. Len(mail'), Replying(mail', j) PROVE j = Len(mail) + 1
    <3>1. /\ Len(mail') = Len(mail) + 1
          /\ \A i \in 1 .. Len(mail) : mail'[i] = mail[i]
          /\ \A i \in 1 .. Len(mail) + 1 : i \in 1 .. Len(mail) \/ i = Len(mail) + 1
      BY <1>1, <2>3, AppendIs
    <3> QED BY <2>5, <2>7, <3>1 DEF Replying
  <2> QED BY <2>2, <2>5, <2>6, <2>7 DEF OnePage
<1>11. CASE \E f \in table : Forward(f)
  <2>1. PICK f \in table : Forward(f)
    BY <1>11
  <2>2. NextTalkFrame
    BY <2>1 DEF Forward
  <2>3. asks' = asks /\ loading' = loading /\ Head(talkFrames).type \in {"snapshot", "event"}
    BY <2>2, FrameIs DEF NextTalkFrame, screen
  <2>4. PICK m \in Letters : m.type = Head(talkFrames).type /\ mail' = Append(mail, m)
    BY <2>1, ForwardIs
  <2>5. ASSUME NEW j \in 1 .. Len(mail'), Replying(mail', j)
        PROVE  j + 0 \in 1 .. Len(mail) /\ Replying(mail, j + 0)
    <3>1. /\ Len(mail') = Len(mail) + 1 /\ mail'[Len(mail) + 1] = m
          /\ \A i \in 1 .. Len(mail) : mail'[i] = mail[i]
          /\ \A i \in 1 .. Len(mail) + 1 : i \in 1 .. Len(mail) \/ i = Len(mail) + 1
      BY <1>1, <2>4, AppendIs
    <3>2. j \in 1 .. Len(mail)
      BY <2>3, <2>4, <2>5, <3>1 DEF Replying
    <3>3. Replying(mail, j)
      BY <2>5, <3>1, <3>2 DEF Replying
    <3> QED BY <1>1, <3>2, <3>3
  <2> QED BY <1>3, <2>3, <2>5, NoMorePages
<1>12. CASE (\E s \in TalkSessions : OpenSession(s)) \/ RefreshSession \/ ClientReconnects
  <2>1. CASE mail' = <<>> /\ \A i \in 1 .. Len(asks') : ~Paging(asks', i)
    <3>1. 1 .. Len(mail') = {}
      BY <2>1
    <3> QED BY <2>1, <3>1 DEF OnePage
  <2>2. CASE /\ mail' = mail /\ (loading' = "no" => loading = "no")
             /\ \A i \in 1 .. Len(asks') : Paging(asks', i) => i \in 1 .. Len(asks) /\ Paging(asks, i)
    <3>1. \A i \in 1 .. Len(asks') : Paging(asks', i) => i + 0 \in 1 .. Len(asks) /\ Paging(asks, i + 0)
      BY <1>1, <2>2
    <3> QED BY <1>4, <2>2, <3>1, NoMorePages
  <2> QED BY <1>12, <2>1, <2>2, AsksAgain
<1>13. CASE LoadOlder
  <2> DEFINE a == [type |-> "page", session |-> open, before |-> oldest]
  <2>1. asks' = Append(asks, a) /\ loading = "no" /\ loading' = "asked" /\ mail' = mail
    BY <1>13 DEF LoadOlder
  <2>2. a \in Requests
    BY <1>13, RequestIs DEF LoadOlder, TalkTypes
  <2> HIDE DEF a
  <2>3. ASSUME NEW j \in 1 .. Len(asks'), Paging(asks', j) PROVE j = Len(asks) + 1
    <3>1. /\ Len(asks') = Len(asks) + 1
          /\ \A i \in 1 .. Len(asks) : asks'[i] = asks[i]
          /\ \A i \in 1 .. Len(asks) + 1 : i \in 1 .. Len(asks) \/ i = Len(asks) + 1
      BY <1>1, <2>1, <2>2, AppendIs
    <3> QED BY <1>2, <2>1, <2>3, <3>1 DEF Paging
  <2>4. \A j \in 1 .. Len(mail') : ~Replying(mail', j)
    BY <1>2, <2>1 DEF Replying
  <2> QED BY <2>1, <2>3, <2>4 DEF OnePage
<1>14. CASE DropMail \/ TakeSnapshot \/ TakeEvent
  <2>1. PICK type : NextMail(type)
    BY <1>14 DEF DropMail, TakeSnapshot, TakeEvent
  <2>2. mail # <<>> /\ mail' = Tail(mail) /\ asks' = asks /\ (loading' = "no" => loading = "no")
    BY <1>14, <2>1 DEF NextMail, DropMail, TakeSnapshot, TakeEvent, screen
  <2> QED BY <1>3, <1>6, <2>2, NoMorePages
<1>15. CASE TakePageReply \/ TakeRefusal
  <2>1. PICK type \in {"page", "refused"} : NextMail(type)
    BY <1>15 DEF TakePageReply, TakeRefusal
  <2>2. mail # <<>> /\ mail' = Tail(mail) /\ asks' = asks /\ Head(mail).type = type
    BY <2>1 DEF NextMail
  <2>3. 1 \in 1 .. Len(mail) /\ Replying(mail, 1)
    BY <1>1, <2>2, PagesRead DEF Replying
  <2>4. \A i \in 1 .. Len(asks') : ~Paging(asks', i)
    BY <1>2, <2>2, <2>3 DEF Paging
  <2>5. ASSUME NEW j \in 1 .. Len(mail') PROVE ~Replying(mail', j)
    <3>1. j + 1 \in 1 .. Len(mail) /\ j + 1 # 1 /\ mail'[j] = mail[j + 1]
      BY <1>1, <2>2, PagesRead
    <3>2. ~Replying(mail, j + 1)
      BY <1>2, <2>3, <3>1
    <3> QED BY <3>1, <3>2 DEF Replying
  <2> QED BY <2>4, <2>5 DEF OnePage
<1>16. CASE UNCHANGED talkVars
  BY <1>7, <1>16 DEF talkVars, screen
<1> QED BY <1>8, <1>9, <1>10, <1>11, <1>12, <1>13, <1>14, <1>15, <1>16 DEF TalkNext

-----------------------------------------------------------------------------
\* What is on its way to the transcript, of stream id of session s: cursor is the last
\* record the sender passed on, sent the last one dsh has sent.

\* A page that is awaited is of session s, goes no further than the cursor and continues
\* the transcript.
Awaits(s, cursor) ==
  /\ oldest # 0
  /\ \A i \in 1 .. Len(asks) : Paging(asks, i) => asks[i].session = s /\ oldest <= asks[i].before
  /\ \A i \in 1 .. Len(mail) : mail[i].type = "page" =>
       /\ mail[i].session = s /\ Seqs(mail[i].rows) \subseteq 1 .. cursor
       /\ Continues(Seqs(mail[i].rows), log[s], oldest)

\* No stream is to be opened or let go.
Quiet == \A i \in 1 .. Len(asks) : Paging(asks, i)

\* While its snapshot is unread, all that the stream sent since is behind it.
Opening(id, sent) ==
  \A i \in 1 .. Len(talkFrames) : Opens(talkFrames[i], id) =>
    talkFrames[i].seq .. sent \subseteq FrameSeqs(talkFrames, id)

\* While a snapshot is on its way to the client, it and what follows it cover the session.
Sending(id, s, cursor, sent) ==
  ~SnapshotComes(talkFrames, id) => \A k \in 1 .. Len(mail) : LastSnapshot(mail, k, s) =>
    Covers(log[s], sent, cursor, Seqs(mail[k].rows) \cup EventSeqs(mail, k, s),
           FrameSeqs(talkFrames, id), 0)

\* With no snapshot to come, the transcript and what comes cover it.
Showing(id, s, cursor, sent) ==
  ~SnapshotComes(talkFrames, id) /\ NoSnapshot(mail, s) /\ ~torn =>
    /\ AllOf(s, items) /\ AllOf(s, unfolded)
    /\ Covers(log[s], sent, cursor, Seqs(items) \cup Seqs(unfolded) \cup EventSeqs(mail, 0, s),
              FrameSeqs(talkFrames, id), oldest)
    /\ loading = "asked" => Awaits(s, cursor)

Reaches(id, s, cursor, sent) ==
  Opening(id, sent) /\ Sending(id, s, cursor, sent) /\ Showing(id, s, cursor, sent)

Following ==
  Quiet => \A f \in table, x \in sources : f.session = open /\ x.id = f.id =>
    Reaches(f.id, f.session, f.cursor, x.sent)

TalkInv == TalkTypes /\ Streams /\ Delivery /\ AskedLast /\ OnePage /\ Following

\* What is awaited stays so while the transcript goes further back and the cursor on.
LEMMA AwaitsOn ==
  ASSUME NEW s, NEW cursor \in Nat, NEW cursor2 \in Nat, cursor <= cursor2, Awaits(s, cursor),
         oldest \in Nat, oldest <= cursor, oldest' \in Nat \ {0}, oldest' <= oldest,
         \A n \in 1 .. cursor : log'[s][n] = "message" => log[s][n] = "message",
         \A i \in 1 .. Len(asks') : Paging(asks', i) => \E j \in 1 .. Len(asks) : asks'[i] = asks[j],
         \A i \in 1 .. Len(mail') : mail'[i].type = "page" => \E j \in 1 .. Len(mail) : mail'[i] = mail[j],
         \A i \in 1 .. Len(asks) : Paging(asks, i) => asks[i].before \in Nat
  PROVE  Awaits(s, cursor2)'
<1>1. ASSUME NEW i \in 1 .. Len(asks'), Paging(asks', i)
      PROVE  asks'[i].session = s /\ oldest' <= asks'[i].before
  <2>1. PICK j \in 1 .. Len(asks) : asks'[i] = asks[j]
    BY <1>1
  <2>2. Paging(asks, j)
    BY <1>1, <2>1 DEF Paging
  <2>3. asks[j].session = s /\ oldest <= asks[j].before /\ asks[j].before \in Nat
    BY <2>2 DEF Awaits
  <2> QED BY <2>1, <2>3
<1>2. ASSUME NEW i \in 1 .. Len(mail'), mail'[i].type = "page"
      PROVE  /\ mail'[i].session = s /\ Seqs(mail'[i].rows) \subseteq 1 .. cursor2
             /\ Continues(Seqs(mail'[i].rows), log'[s], oldest')
  <2>1. PICK j \in 1 .. Len(mail) : mail'[i] = mail[j]
    BY <1>2
  <2> DEFINE ns == Seqs(mail[j].rows)
  <2>2. mail[j].session = s /\ ns \subseteq 1 .. cursor /\ Continues(ns, log[s], oldest)
    BY <1>2, <2>1 DEF Awaits
  <2> HIDE DEF ns
  <2>3. ns \subseteq 1 .. cursor2
    BY <2>2
  <2>4. PICK a \in Nat : /\ \A n \in ns : a <= n
                         /\ \A n \in a .. oldest - 1 : n # 0 /\ log[s][n] = "message" => n \in ns
    BY <2>2 DEF Continues
  <2>5. \A n \in a .. oldest' - 1 : n # 0 => n \in 1 .. cursor /\ n \in a .. oldest - 1
    OBVIOUS
  <2>6. \A n \in a .. oldest' - 1 : n # 0 /\ log'[s][n] = "message" => n \in ns
    BY <2>4, <2>5
  <2>7. Continues(ns, log'[s], oldest')
    BY <2>4, <2>6 DEF Continues
  <2> QED BY <2>1, <2>2, <2>3, <2>7 DEF ns
<1>3. Awaits(s, cursor2)' <=>
        /\ oldest' # 0
        /\ \A i \in 1 .. Len(asks') : Paging(asks', i) => asks'[i].session = s /\ oldest' <= asks'[i].before
        /\ \A i \in 1 .. Len(mail') : mail'[i].type = "page" =>
             /\ mail'[i].session = s /\ Seqs(mail'[i].rows) \subseteq 1 .. cursor2
             /\ Continues(Seqs(mail'[i].rows), log'[s], oldest')
  BY DEF Awaits, Paging, Seqs, Continues
<1> QED BY <1>1, <1>2, <1>3

LEMMA CoversLog ==
  ASSUME NEW l, NEW l2, NEW sent \in Nat, NEW cursor, NEW had, NEW due, NEW old,
         Covers(l, sent, cursor, had, due, old),
         \A n \in 1 .. sent : l2[n] = "message" => l[n] = "message"
  PROVE  Covers(l2, sent, cursor, had, due, old)
<1>1. PICK b \in Nat :
        /\ b <= TailFrom(sent) /\ (old # 0 => b <= old)
        /\ \A n \in had \cup due : b <= n
        /\ \A n \in b .. sent : n # 0 /\ l[n] = "message" => n \in had \cup due
  BY DEF Covers
<1>2. \A n \in b .. sent : n # 0 => n \in 1 .. sent
  OBVIOUS
<1>3. \A n \in b .. sent : n # 0 /\ l2[n] = "message" => n \in had \cup due
  BY <1>1, <1>2
<1> QED BY <1>1, <1>3 DEF Covers

\* The kinds of what is asked for.
LEMMA BeforeIs ==
  ASSUME TalkTypes
  PROVE  \A i \in 1 .. Len(asks) : Paging(asks, i) => asks[i].before \in Nat
<1>1. \A i \in 1 .. Len(asks) : asks[i] \in Requests
  BY ElementOfSeq DEF TalkTypes
<1> QED BY <1>1, RequestIs DEF Paging

\* With requests and messages as they were, or fewer.
LEMMA AwaitsStill ==
  ASSUME TalkTypes, NEW s, NEW cursor \in Nat, NEW cursor2 \in Nat, cursor <= cursor2,
         Awaits(s, cursor), oldest <= cursor, oldest' \in Nat \ {0}, oldest' <= oldest,
         \A n \in 1 .. cursor : log'[s][n] = "message" => log[s][n] = "message",
         asks' = asks, mail' = mail \/ (mail # <<>> /\ mail' = Tail(mail))
  PROVE  Awaits(s, cursor2)'
<1>1. oldest \in Nat /\ mail \in Seq(Letters)
  BY DEF TalkTypes
<1>2. \A i \in 1 .. Len(asks') : Paging(asks', i) => \E j \in 1 .. Len(asks) : asks'[i] = asks[j]
  OBVIOUS
<1>3. \A i \in 1 .. Len(mail') : mail'[i].type = "page" => \E j \in 1 .. Len(mail) : mail'[i] = mail[j]
  <2>1. CASE mail' = mail
    BY <2>1
  <2>2. CASE mail # <<>> /\ mail' = Tail(mail)
    BY <1>1, <2>2, PagesRead
  <2> QED BY <2>1, <2>2
<1> QED BY <1>1, <1>2, <1>3, BeforeIs, AwaitsOn

LEMMA RecordReaches ==
  ASSUME TalkTypes, NEW r \in TalkSessions, NEW kind \in Kinds, AddRecord(r, kind),
         NEW id, NEW s \in TalkSessions, NEW cursor \in Nat, NEW sent \in Nat,
         cursor <= sent, sent <= Len(log[s]), Reaches(id, s, cursor, sent)
  PROVE  Reaches(id, s, cursor, sent)'
<1>1. log' = [log EXCEPT ![r] = Append(log[r], kind)]
      /\ UNCHANGED <<talkFrames, asks, mail, items, unfolded, oldest, loading, torn>>
  BY DEF AddRecord, screen
<1>2. \A n \in 1 .. sent : log'[s][n] = log[s][n]
  <2>1. log \in [TalkSessions -> Seq(Kinds)] /\ log[s] \in Seq(Kinds) /\ log[r] \in Seq(Kinds) /\ Len(log[s]) \in Nat
    BY LogIs DEF TalkTypes
  <2>2. CASE r = s
    <3>1. log'[s] = Append(log[s], kind)
      BY <1>1, <2>1, <2>2
    <3>2. \A n \in 1 .. Len(log[s]) : log'[s][n] = log[s][n]
      BY <2>1, <3>1, AppendIs
    <3> QED BY <2>1, <3>2
  <2>3. CASE r # s
    BY <1>1, <2>1, <2>3
  <2> QED BY <2>2, <2>3
<1>3. Opening(id, sent)'
  BY <1>1 DEF Reaches, Opening
<1>4. Sending(id, s, cursor, sent)'
  <2>1. Sending(id, s, cursor, sent)
    BY DEF Reaches
  <2>2. SUFFICES ASSUME ~SnapshotComes(talkFrames, id), NEW k \in 1 .. Len(mail), LastSnapshot(mail, k, s)
                 PROVE  Covers(log'[s], sent, cursor, Seqs(mail[k].rows) \cup EventSeqs(mail, k, s),
                               FrameSeqs(talkFrames, id), 0)
    BY <1>1 DEF Sending
  <2>3. Covers(log[s], sent, cursor, Seqs(mail[k].rows) \cup EventSeqs(mail, k, s), FrameSeqs(talkFrames, id), 0)
    BY <2>1, <2>2 DEF Sending
  <2> QED BY <1>2, <2>3, CoversLog
<1>5. Showing(id, s, cursor, sent)'
  <2> DEFINE had == Seqs(items) \cup Seqs(unfolded) \cup EventSeqs(mail, 0, s)
             due == FrameSeqs(talkFrames, id)
  <2>1. SUFFICES ASSUME ~SnapshotComes(talkFrames, id), NoSnapshot(mail, s), ~torn
                 PROVE  /\ AllOf(s, items) /\ AllOf(s, unfolded)
                        /\ Covers(log'[s], sent, cursor, had, due, oldest)
                        /\ loading = "asked" => Awaits(s, cursor)'
    BY <1>1 DEF Showing
  <2>2. /\ AllOf(s, items) /\ AllOf(s, unfolded) /\ Covers(log[s], sent, cursor, had, due, oldest)
        /\ loading = "asked" => Awaits(s, cursor)
    BY <2>1 DEF Reaches, Showing
  <2> HIDE DEF had, due
  <2>3. Covers(log'[s], sent, cursor, had, due, oldest)
    BY <1>2, <2>2, CoversLog
  <2>4. ASSUME loading = "asked" PROVE Awaits(s, cursor)'
    <3>1. oldest <= cursor
      BY <2>2 DEF Covers
    <3>2. Awaits(s, cursor) /\ oldest # 0 /\ oldest' = oldest /\ oldest \in Nat
      BY <1>1, <2>2, <2>4 DEF Awaits, TalkTypes
    <3>3. \A n \in 1 .. cursor : log'[s][n] = "message" => log[s][n] = "message"
      BY <1>2
    <3> QED BY <1>1, <3>1, <3>2, <3>3, AwaitsStill
  <2> QED BY <2>2, <2>3, <2>4
<1> QED BY <1>3, <1>4, <1>5 DEF Reaches

\* dsh sends an event of the stream, or of another one.
LEMMA EventReaches ==
  ASSUME TalkTypes, NEW h \in Heard, h.type = "event", talkFrames' = Append(talkFrames, h),
         UNCHANGED <<log, asks, mail, screen>>,
         NEW id, NEW s \in TalkSessions, NEW cursor \in Nat, NEW sent \in Nat, NEW sent2 \in Nat,
         cursor <= sent, Reaches(id, s, cursor, sent),
         IF h.id = id THEN h.seq = sent + 1 /\ sent2 = sent + 1 ELSE sent2 = sent
  PROVE  Reaches(id, s, cursor, sent2)'
<1> DEFINE due == FrameSeqs(talkFrames, id)
           due2 == FrameSeqs(talkFrames', id)
           n == Len(talkFrames)
<1>1. talkFrames \in Seq(Heard) /\ due2 = due \cup OfStream(h, id)
      /\ (SnapshotComes(talkFrames', id) <=> SnapshotComes(talkFrames, id))
  BY FrameAppended DEF TalkTypes, Opens
<1>2. OfStream(h, id) = sent + 1 .. sent2
  <2>1. sent + 1 .. sent + 1 = {sent + 1} /\ sent + 1 .. sent = {}
    OBVIOUS
  <2> QED BY <2>1 DEF OfStream
<1>3. UNCHANGED <<items, unfolded, oldest, loading, torn>>
  BY DEF screen
<1>4. Opening(id, sent2)'
  <2>1. Opening(id, sent)
    BY DEF Reaches
  <2>2. SUFFICES ASSUME NEW i \in 1 .. Len(talkFrames'), Opens(talkFrames'[i], id)
                 PROVE  talkFrames'[i].seq .. sent2 \subseteq due2
    BY DEF Opening
  <2>3. /\ Len(talkFrames') = n + 1 /\ talkFrames'[n + 1] = h
        /\ \A j \in 1 .. n : talkFrames'[j] = talkFrames[j]
        /\ \A j \in 1 .. n + 1 : j \in 1 .. n \/ j = n + 1
    BY <1>1, AppendIs
  <2>4. i \in 1 .. n /\ talkFrames'[i] = talkFrames[i]
    BY <2>2, <2>3 DEF Opens
  <2>5. talkFrames[i].seq .. sent \subseteq due /\ talkFrames[i].seq \in Nat
    BY <2>1, <2>2, <2>4, TableIs DEF Opening
  <2> HIDE DEF due, due2
  <2>6. \A m \in talkFrames[i].seq .. sent2 : m \in talkFrames[i].seq .. sent \/ m \in sent + 1 .. sent2
    BY <2>5
  <2> QED BY <1>1, <1>2, <2>4, <2>5, <2>6
<1>5. ASSUME NEW had, NEW old, Covers(log[s], sent, cursor, had, due, old)
      PROVE  Covers(log[s], sent2, cursor, had, due2, old)
  <2> HIDE DEF due, due2
  <2>1. CASE h.id = id
    <3>1. sent2 = sent + 1 /\ due2 = due \cup {sent + 1}
      BY <1>1, <2>1 DEF OfStream
    <3> QED BY <1>5, <3>1, CoversNext
  <2>2. CASE h.id # id
    BY <1>1, <1>5, <2>2 DEF OfStream
  <2> QED BY <2>1, <2>2
<1>6. Sending(id, s, cursor, sent2)'
  <2>1. SUFFICES ASSUME ~SnapshotComes(talkFrames', id), NEW k \in 1 .. Len(mail), LastSnapshot(mail, k, s)
                 PROVE  Covers(log[s], sent2, cursor, Seqs(mail[k].rows) \cup EventSeqs(mail, k, s), due2, 0)
    BY DEF Sending
  <2>2. Covers(log[s], sent, cursor, Seqs(mail[k].rows) \cup EventSeqs(mail, k, s), due, 0)
    BY <1>1, <2>1 DEF Reaches, Sending
  <2> HIDE DEF due, due2
  <2> QED BY <1>5, <2>2
<1>7. Showing(id, s, cursor, sent2)'
  <2> DEFINE had == Seqs(items) \cup Seqs(unfolded) \cup EventSeqs(mail, 0, s)
  <2>1. SUFFICES ASSUME ~SnapshotComes(talkFrames', id), NoSnapshot(mail, s), ~torn
                 PROVE  /\ AllOf(s, items) /\ AllOf(s, unfolded)
                        /\ Covers(log[s], sent2, cursor, had, due2, oldest)
                        /\ loading = "asked" => Awaits(s, cursor)'
    BY <1>3 DEF Showing
  <2>2. /\ AllOf(s, items) /\ AllOf(s, unfolded) /\ Covers(log[s], sent, cursor, had, due, oldest)
        /\ loading = "asked" => Awaits(s, cursor)
    BY <1>1, <2>1 DEF Reaches, Showing
  <2>3. Awaits(s, cursor)' <=> Awaits(s, cursor)
    BY <1>3 DEF Awaits
  <2> HIDE DEF had, due, due2
  <2> QED BY <1>5, <2>2, <2>3
<1> QED BY <1>4, <1>6, <1>7 DEF Reaches

\* Nothing that matters to the stream is added to what is on its way or taken off.
LEMMA SameReaches ==
  ASSUME NEW id, NEW s, NEW cursor, NEW sent, Reaches(id, s, cursor, sent),
         UNCHANGED <<log, items, unfolded, oldest, torn>>,
         FrameSeqs(talkFrames', id) = FrameSeqs(talkFrames, id),
         SnapshotComes(talkFrames', id) <=> SnapshotComes(talkFrames, id),
         \A i \in 1 .. Len(talkFrames') : Opens(talkFrames'[i], id) =>
           \E j \in 1 .. Len(talkFrames) : talkFrames'[i] = talkFrames[j],
         NoSnapshot(mail', s) => NoSnapshot(mail, s),
         \A k : LastSnapshot(mail', k, s) => \E j \in 1 .. Len(mail) :
           LastSnapshot(mail, j, s) /\ mail'[k] = mail[j] /\ EventSeqs(mail', k, s) = EventSeqs(mail, j, s),
         EventSeqs(mail', 0, s) = EventSeqs(mail, 0, s),
         oldest <= cursor /\ (loading = "asked" => Awaits(s, cursor)) /\ loading' = "asked" =>
           Awaits(s, cursor)'
  PROVE  Reaches(id, s, cursor, sent)'
<1> DEFINE due == FrameSeqs(talkFrames, id)
<1>1. Opening(id, sent)'
  <2>1. SUFFICES ASSUME NEW i \in 1 .. Len(talkFrames'), Opens(talkFrames'[i], id)
                 PROVE  talkFrames'[i].seq .. sent \subseteq due
    BY DEF Opening
  <2>2. PICK j \in 1 .. Len(talkFrames) : talkFrames'[i] = talkFrames[j]
    BY <2>1
  <2> QED BY <2>1, <2>2 DEF Reaches, Opening
<1>2. Sending(id, s, cursor, sent)'
  <2>1. SUFFICES ASSUME ~SnapshotComes(talkFrames, id), NEW k \in 1 .. Len(mail'), LastSnapshot(mail', k, s)
                 PROVE  Covers(log[s], sent, cursor, Seqs(mail'[k].rows) \cup EventSeqs(mail', k, s), due, 0)
    BY DEF Sending
  <2>2. PICK j \in 1 .. Len(mail) :
          LastSnapshot(mail, j, s) /\ mail'[k] = mail[j] /\ EventSeqs(mail', k, s) = EventSeqs(mail, j, s)
    BY <2>1
  <2>3. Covers(log[s], sent, cursor, Seqs(mail[j].rows) \cup EventSeqs(mail, j, s), due, 0)
    BY <2>1, <2>2 DEF Reaches, Sending
  <2> QED BY <2>2, <2>3
<1>3. Showing(id, s, cursor, sent)'
  <2> DEFINE had == Seqs(items) \cup Seqs(unfolded) \cup EventSeqs(mail, 0, s)
  <2>1. SUFFICES ASSUME ~SnapshotComes(talkFrames, id), NoSnapshot(mail', s), ~torn
                 PROVE  /\ AllOf(s, items) /\ AllOf(s, unfolded)
                        /\ Covers(log[s], sent, cursor, had, due, oldest)
                        /\ loading' = "asked" => Awaits(s, cursor)'
    BY DEF Showing
  <2>2. /\ AllOf(s, items) /\ AllOf(s, unfolded) /\ Covers(log[s], sent, cursor, had, due, oldest)
        /\ loading = "asked" => Awaits(s, cursor)
    BY <2>1 DEF Reaches, Showing
  <2>3. oldest <= cursor
    BY <2>2 DEF Covers
  <2> QED BY <2>2, <2>3
<1> QED BY <1>1, <1>2, <1>3 DEF Reaches

\* What those facts are for a message added, a message read and a frame read.
LEMMA OtherLetter ==
  ASSUME TalkTypes, NEW m \in Letters, NEW s, ~IsSnapshot(m, s), EventOf(m, s) = {},
         mail' = Append(mail, m)
  PROVE  /\ NoSnapshot(mail', s) => NoSnapshot(mail, s)
         /\ \A k : LastSnapshot(mail', k, s) => \E j \in 1 .. Len(mail) :
              LastSnapshot(mail, j, s) /\ mail'[k] = mail[j] /\ EventSeqs(mail', k, s) = EventSeqs(mail, j, s)
         /\ EventSeqs(mail', 0, s) = EventSeqs(mail, 0, s)
<1>1. mail \in Seq(Letters) /\ Len(mail) \in Nat
  BY LenProperties DEF TalkTypes
<1>2. /\ \A k \in 0 .. Len(mail) : EventSeqs(mail', k, s) = EventSeqs(mail, k, s) \cup EventOf(m, s)
      /\ \A k \in 1 .. Len(mail) : mail'[k] = mail[k]
      /\ NoSnapshot(mail', s) <=> NoSnapshot(mail, s)
      /\ \A k : LastSnapshot(mail', k, s) => LastSnapshot(mail, k, s)
  <2> DEFINE q == mail
             a == mail'
  <2>1. q \in Seq(Letters) /\ a = Append(q, m)
    BY <1>1
  <2>2. ~IsSnapshot(m, s) /\ EventOf(m, s) = {}
    OBVIOUS
  <2> HIDE DEF q, a
  <2>3. ASSUME NEW k \in 0 .. Len(q) PROVE EventSeqs(a, k, s) = EventSeqs(q, k, s) \cup EventOf(m, s)
    <3>1. EventSeqs(Append(q, m), k, s) = EventSeqs(q, k, s) \cup EventOf(m, s)
      BY <2>1, EventsAppended
    <3> QED BY <2>1, <3>1
  <2>4. \A k \in 1 .. Len(q) : a[k] = q[k]
    BY <2>1, LetterAppended
  <2>5. NoSnapshot(a, s) <=> NoSnapshot(q, s)
    BY <2>1, <2>2, LetterAppended
  <2>6. \A k : LastSnapshot(a, k, s) => LastSnapshot(q, k, s)
    BY <2>1, <2>2, LetterAppended
  <2> QED BY <2>3, <2>4, <2>5, <2>6 DEF q, a
<1>3. ASSUME NEW k, LastSnapshot(mail', k, s)
      PROVE  \E j \in 1 .. Len(mail) :
               LastSnapshot(mail, j, s) /\ mail'[k] = mail[j] /\ EventSeqs(mail', k, s) = EventSeqs(mail, j, s)
  <2>1. LastSnapshot(mail, k, s)
    BY <1>2, <1>3
  <2>2. k \in 1 .. Len(mail) /\ k \in 0 .. Len(mail)
    BY <2>1 DEF LastSnapshot
  <2> QED BY <1>2, <2>1, <2>2
<1>4. 0 \in 0 .. Len(mail)
  BY <1>1
<1> QED BY <1>2, <1>3, <1>4

LEMMA LetterGone ==
  ASSUME TalkTypes, NEW s, mail # <<>>, mail' = Tail(mail)
  PROVE  /\ ~IsSnapshot(Head(mail), s) => (NoSnapshot(mail', s) => NoSnapshot(mail, s))
         /\ \A k : LastSnapshot(mail', k, s) => \E j \in 1 .. Len(mail) :
              LastSnapshot(mail, j, s) /\ mail'[k] = mail[j] /\ EventSeqs(mail', k, s) = EventSeqs(mail, j, s)
         /\ EventOf(Head(mail), s) = {} => EventSeqs(mail', 0, s) = EventSeqs(mail, 0, s)
<1>1. mail \in Seq(Letters)
  BY DEF TalkTypes
<1>2. /\ EventSeqs(mail, 0, s) = EventOf(Head(mail), s) \cup EventSeqs(mail, 1, s)
      /\ \A k \in Nat : EventSeqs(mail', k, s) = EventSeqs(mail, k + 1, s)
      /\ \A k : LastSnapshot(mail', k, s) =>
           k \in Nat /\ LastSnapshot(mail, k + 1, s) /\ mail'[k] = mail[k + 1]
      /\ NoSnapshot(mail, s) <=> ~IsSnapshot(Head(mail), s) /\ NoSnapshot(mail', s)
  BY <1>1, LetterRead
<1>3. ASSUME NEW k, LastSnapshot(mail', k, s)
      PROVE  \E j \in 1 .. Len(mail) :
               LastSnapshot(mail, j, s) /\ mail'[k] = mail[j] /\ EventSeqs(mail', k, s) = EventSeqs(mail, j, s)
  <2>1. k \in Nat /\ LastSnapshot(mail, k + 1, s) /\ mail'[k] = mail[k + 1]
        /\ EventSeqs(mail', k, s) = EventSeqs(mail, k + 1, s)
    BY <1>2, <1>3
  <2>2. k + 1 \in 1 .. Len(mail)
    BY <2>1 DEF LastSnapshot
  <2> QED BY <2>1, <2>2
<1>4. EventSeqs(mail', 0, s) = EventSeqs(mail, 1, s)
  <2>1. 0 \in Nat /\ 0 + 1 = 1
    OBVIOUS
  <2> QED BY <1>2, <2>1
<1> QED BY <1>2, <1>3, <1>4

LEMMA FrameGone ==
  ASSUME TalkTypes, NEW id, talkFrames # <<>>, talkFrames' = Tail(talkFrames), Head(talkFrames).id # id
  PROVE  /\ FrameSeqs(talkFrames', id) = FrameSeqs(talkFrames, id)
         /\ SnapshotComes(talkFrames', id) <=> SnapshotComes(talkFrames, id)
         /\ \A i \in 1 .. Len(talkFrames') : \E j \in 1 .. Len(talkFrames) : talkFrames'[i] = talkFrames[j]
<1>1. talkFrames \in Seq(Heard)
  BY DEF TalkTypes
<1>2. ~Opens(Head(talkFrames), id) /\ OfStream(Head(talkFrames), id) = {}
  BY DEF Opens, OfStream
<1>3. FrameSeqs(talkFrames', id) = FrameSeqs(talkFrames, id)
      /\ (SnapshotComes(talkFrames', id) <=> SnapshotComes(talkFrames, id))
  <2>1. /\ FrameSeqs(talkFrames, id) = OfStream(Head(talkFrames), id) \cup FrameSeqs(talkFrames', id)
        /\ SnapshotComes(talkFrames, id) <=> Opens(Head(talkFrames), id) \/ SnapshotComes(talkFrames', id)
    BY <1>1, FrameRead
  <2> QED BY <1>2, <2>1
<1> QED BY <1>1, <1>3, PagesRead

LEMMA AwaitsSent ==
  ASSUME TalkTypes, NEW m \in Letters, m.type # "page", mail' = Append(mail, m),
         UNCHANGED <<log, asks, oldest>>, NEW s, NEW cursor \in Nat, NEW cursor2 \in Nat, cursor <= cursor2,
         Awaits(s, cursor), oldest <= cursor
  PROVE  Awaits(s, cursor2)'
<1>1. oldest \in Nat /\ oldest # 0 /\ mail \in Seq(Letters)
  BY DEF TalkTypes, Awaits
<1>2. \A i \in 1 .. Len(asks') : Paging(asks', i) => \E j \in 1 .. Len(asks) : asks'[i] = asks[j]
  OBVIOUS
<1>3. ASSUME NEW i \in 1 .. Len(mail'), mail'[i].type = "page"
      PROVE  \E j \in 1 .. Len(mail) : mail'[i] = mail[j]
  <2> DEFINE n == Len(mail)
  <2>1. /\ Len(mail') = n + 1 /\ mail'[n + 1] = m
        /\ \A j \in 1 .. n : mail'[j] = mail[j]
        /\ \A j \in 1 .. n + 1 : j \in 1 .. n \/ j = n + 1
    BY <1>1, AppendIs
  <2>2. i \in 1 .. n
    BY <1>3, <2>1
  <2> QED BY <2>1, <2>2
<1>4. oldest' \in Nat \ {0} /\ oldest' <= oldest
  BY <1>1
<1> QED BY <1>1, <1>2, <1>3, <1>4, BeforeIs, AwaitsOn

\* A page is answered, or refused.
LEMMA PageReaches ==
  ASSUME TalkTypes, Streams, OnePage, TakePage,
         NEW f \in table, NEW sent, Reaches(f.id, f.session, f.cursor, sent)
  PROVE  Reaches(f.id, f.session, f.cursor, sent)'
<1> DEFINE s == f.session
           cursor == f.cursor
           id == f.id
<1>1. cursor \in Nat /\ oldest \in Nat /\ asks \in Seq(Requests) /\ mail \in Seq(Letters)
  BY TableIs DEF TalkTypes
<1>2. NextAsk("page") /\ UNCHANGED talkFrames
  BY DEF TakePage
<1>3. asks # <<>> /\ Head(asks).type = "page" /\ asks' = Tail(asks) /\ Head(asks).before \in Nat
      /\ UNCHANGED <<log, items, unfolded, oldest, loading, torn>>
  BY <1>2, AskIs DEF NextAsk, screen
<1>4. 1 \in 1 .. Len(asks) /\ Head(asks) = asks[1] /\ Paging(asks, 1)
  BY <1>1, <1>3, PagesRead DEF Paging
<1>5. \A j \in 1 .. Len(mail) : mail[j].type # "page"
  BY <1>4 DEF OnePage, Replying
<1>6. \A i \in 1 .. Len(asks') : ~Paging(asks', i)
  <2>1. SUFFICES ASSUME NEW i \in 1 .. Len(asks') PROVE ~Paging(asks', i)
    OBVIOUS
  <2>2. i + 1 \in 1 .. Len(asks) /\ i + 1 # 1 /\ asks'[i] = asks[i + 1]
    BY <1>1, <1>3, PagesRead
  <2>3. ~Paging(asks, i + 1)
    BY <1>4, <2>2 DEF OnePage
  <2> QED BY <2>2, <2>3 DEF Paging
<1>7. PICK m \in Letters :
        /\ mail' = Append(mail, m) /\ m.type \in {"page", "refused"}
        /\ Awaits(s, cursor) /\ oldest <= cursor /\ m.type = "page" =>
             m.session = s /\ Seqs(m.rows) \subseteq 1 .. cursor /\ Continues(Seqs(m.rows), log[s], oldest)
  <2>1. CASE mail' = Append(mail, [type |-> "refused"])
    BY <2>1, LetterIs
  <2>2. CASE mail' # Append(mail, [type |-> "refused"])
    <3>1. PICK g \in table :
            /\ g.session = Head(asks).session
            /\ LET last == LastOf(Head(asks).before, g.cursor)
                   rows == Wanted(g.session, FirstOf(last), last)
               IN  /\ mail' = Append(mail, [type |-> "page", session |-> g.session, rows |-> rows])
                   /\ last \in Nat /\ FirstOf(last) \in Nat \ {0}
                   /\ rows \in Seq(Rows) /\ AllOf(g.session, rows)
                   /\ Seqs(rows) = {n \in FirstOf(last) .. last : log[g.session][n] # "ignored"}
      BY <2>2, PageIs
    <3> DEFINE last == LastOf(Head(asks).before, g.cursor)
               first == FirstOf(last)
               rows == Wanted(g.session, first, last)
               m == [type |-> "page", session |-> g.session, rows |-> rows]
    <3>2. /\ mail' = Append(mail, m) /\ last \in Nat /\ first \in Nat \ {0}
          /\ rows \in Seq(Rows) /\ AllOf(g.session, rows)
          /\ Seqs(rows) = {n \in first .. last : log[g.session][n] # "ignored"}
      BY <3>1
    <3> HIDE DEF first, rows
    <3>3. m \in Letters /\ m.type = "page" /\ m.session = g.session /\ m.rows = rows
      <4>1. g.session \in TalkSessions
        BY TableIs
      <4> QED BY <3>2, <4>1, LetterIs
    <3> HIDE DEF m
    <3>4. ASSUME Awaits(s, cursor), oldest <= cursor
          PROVE  g.session = s /\ Seqs(rows) \subseteq 1 .. cursor /\ Continues(Seqs(rows), log[s], oldest)
      <4>1. g.session = s /\ oldest <= Head(asks).before /\ oldest # 0
        BY <1>4, <3>1, <3>4 DEF Awaits
      <4>2. g = f
        BY <4>1 DEF Streams
      <4>3. last <= cursor /\ oldest - 1 <= last
        BY <1>1, <1>3, <3>4, <4>1, <4>2 DEF LastOf
      <4> HIDE DEF cursor, last, s
      <4>4. Seqs(rows) \subseteq 1 .. cursor
        BY <1>1, <3>2, <4>3
      <4>5. \A n \in Seqs(rows) : first <= n
        BY <3>2
      <4>6. \A n \in first .. oldest - 1 : n \in first .. last
        BY <1>1, <3>2, <4>3
      <4>7. \A n \in first .. oldest - 1 : log[s][n] = "message" => n \in Seqs(rows)
        BY <3>2, <4>1, <4>6
      <4>8. Continues(Seqs(rows), log[s], oldest)
        BY <3>2, <4>5, <4>7 DEF Continues
      <4> QED BY <4>1, <4>4, <4>8
    <3> QED BY <3>2, <3>3, <3>4
  <2> QED BY <2>1, <2>2
<1>8. ~IsSnapshot(m, s) /\ EventOf(m, s) = {}
  BY <1>7 DEF IsSnapshot, EventOf
<1>9. ASSUME Awaits(s, cursor), oldest <= cursor PROVE Awaits(s, cursor)'
  <2> DEFINE n == Len(mail)
  <2>1. /\ Len(mail') = n + 1 /\ mail'[n + 1] = m
        /\ \A j \in 1 .. n : mail'[j] = mail[j]
        /\ \A j \in 1 .. n + 1 : j \in 1 .. n \/ j = n + 1
    BY <1>1, <1>7, AppendIs
  <2>2. ASSUME NEW i \in 1 .. Len(mail'), mail'[i].type = "page" PROVE mail'[i] = m
    <3>1. i \notin 1 .. n
      BY <1>5, <2>1, <2>2
    <3> QED BY <2>1, <3>1
  <2>3. oldest # 0
    BY <1>9 DEF Awaits
  <2>4. \A i \in 1 .. Len(mail') : mail'[i].type = "page" =>
          mail'[i].session = s /\ Seqs(mail'[i].rows) \subseteq 1 .. cursor
          /\ Continues(Seqs(mail'[i].rows), log[s], oldest)
    BY <1>7, <1>9, <2>2
  <2>5. Awaits(s, cursor)' <=>
          /\ oldest # 0
          /\ \A i \in 1 .. Len(asks') : Paging(asks', i) => asks'[i].session = s /\ oldest <= asks'[i].before
          /\ \A i \in 1 .. Len(mail') : mail'[i].type = "page" =>
               /\ mail'[i].session = s /\ Seqs(mail'[i].rows) \subseteq 1 .. cursor
               /\ Continues(Seqs(mail'[i].rows), log[s], oldest)
    BY <1>3 DEF Awaits, Paging, Seqs
  <2> QED BY <1>6, <2>3, <2>4, <2>5
<1> HIDE DEF s, cursor, id
<1>10. Reaches(id, s, cursor, sent)
  BY DEF s, cursor, id
<1>11. /\ NoSnapshot(mail', s) => NoSnapshot(mail, s)
       /\ \A k : LastSnapshot(mail', k, s) => \E j \in 1 .. Len(mail) :
            LastSnapshot(mail, j, s) /\ mail'[k] = mail[j] /\ EventSeqs(mail', k, s) = EventSeqs(mail, j, s)
       /\ EventSeqs(mail', 0, s) = EventSeqs(mail, 0, s)
  BY <1>7, <1>8, OtherLetter
<1>12. oldest <= cursor /\ (loading = "asked" => Awaits(s, cursor)) /\ loading' = "asked" => Awaits(s, cursor)'
  BY <1>3, <1>9
<1>13. /\ FrameSeqs(talkFrames', id) = FrameSeqs(talkFrames, id)
       /\ SnapshotComes(talkFrames', id) <=> SnapshotComes(talkFrames, id)
       /\ \A i \in 1 .. Len(talkFrames') : Opens(talkFrames'[i], id) =>
            \E j \in 1 .. Len(talkFrames) : talkFrames'[i] = talkFrames[j]
  BY <1>2
<1>14. Reaches(id, s, cursor, sent)'
  BY <1>3, <1>10, <1>11, <1>12, <1>13, SameReaches
<1> QED BY <1>14 DEF s, cursor, id

\* A frame is read that is not of this stream, and perhaps a message sent of another
\* session.
LEMMA OtherFrame ==
  ASSUME TalkTypes, NextTalkFrame, NEW id, Head(talkFrames).id # id,
         NEW s, NEW cursor \in Nat, NEW sent, Reaches(id, s, cursor, sent),
         \/ mail' = mail
         \/ \E m \in Letters : /\ m.type # "page" /\ ~IsSnapshot(m, s) /\ EventOf(m, s) = {}
                               /\ mail' = Append(mail, m)
  PROVE  Reaches(id, s, cursor, sent)'
<1>1. talkFrames # <<>> /\ talkFrames' = Tail(talkFrames)
      /\ UNCHANGED <<log, items, unfolded, oldest, loading, torn, asks>>
  BY DEF NextTalkFrame, screen
<1>2. /\ FrameSeqs(talkFrames', id) = FrameSeqs(talkFrames, id)
      /\ SnapshotComes(talkFrames', id) <=> SnapshotComes(talkFrames, id)
      /\ \A i \in 1 .. Len(talkFrames') : Opens(talkFrames'[i], id) =>
           \E j \in 1 .. Len(talkFrames) : talkFrames'[i] = talkFrames[j]
  BY <1>1, FrameGone
<1>3. CASE mail' = mail
  <2>1. /\ NoSnapshot(mail', s) => NoSnapshot(mail, s)
        /\ \A k : LastSnapshot(mail', k, s) => \E j \in 1 .. Len(mail) :
             LastSnapshot(mail, j, s) /\ mail'[k] = mail[j] /\ EventSeqs(mail', k, s) = EventSeqs(mail, j, s)
        /\ EventSeqs(mail', 0, s) = EventSeqs(mail, 0, s)
    BY <1>3 DEF LastSnapshot
  <2>2. Awaits(s, cursor) => Awaits(s, cursor)'
    BY <1>1, <1>3 DEF Awaits
  <2> QED BY <1>1, <1>2, <2>1, <2>2, SameReaches
<1>4. CASE \E m \in Letters : /\ m.type # "page" /\ ~IsSnapshot(m, s) /\ EventOf(m, s) = {}
                              /\ mail' = Append(mail, m)
  <2>1. PICK m \in Letters : /\ m.type # "page" /\ ~IsSnapshot(m, s) /\ EventOf(m, s) = {}
                             /\ mail' = Append(mail, m)
    BY <1>4
  <2>2. /\ NoSnapshot(mail', s) => NoSnapshot(mail, s)
        /\ \A k : LastSnapshot(mail', k, s) => \E j \in 1 .. Len(mail) :
             LastSnapshot(mail, j, s) /\ mail'[k] = mail[j] /\ EventSeqs(mail', k, s) = EventSeqs(mail, j, s)
        /\ EventSeqs(mail', 0, s) = EventSeqs(mail, 0, s)
    BY <2>1, OtherLetter
  <2>3. cursor <= cursor
    OBVIOUS
  <2>4. Awaits(s, cursor) /\ oldest <= cursor => Awaits(s, cursor)'
    BY <1>1, <2>1, <2>3, AwaitsSent
  <2> QED BY <1>1, <1>2, <2>2, <2>4, SameReaches
<1> QED BY <1>3, <1>4

LEMMA DropReaches ==
  ASSUME TalkTypes, Delivery, DropTalkFrame,
         NEW f \in table, NEW sent, Reaches(f.id, f.session, f.cursor, sent)
  PROVE  Reaches(f.id, f.session, f.cursor, sent)'
<1> DEFINE h == Head(talkFrames)
<1>1. NextTalkFrame /\ mail' = mail /\ (h.id = f.id => h.type = "event" /\ h.seq <= f.cursor)
  BY DEF DropTalkFrame
<1>2. f.cursor \in Nat /\ h.seq \in Nat
  BY <1>1, TableIs, FrameIs
<1>3. PICK k \in 1 .. Len(talkFrames) : h = talkFrames[k]
  BY <1>1, DeliveryShrinks
<1>4. h.id # f.id
  <2>1. ASSUME h.id = f.id PROVE FALSE
    <3>1. f.cursor < h.seq
      BY <1>1, <1>3, <2>1 DEF Delivery
    <3> QED BY <1>1, <1>2, <2>1, <3>1
  <2> QED BY <2>1
<1> DEFINE s == f.session
           cursor == f.cursor
           id == f.id
<1>5. Reaches(id, s, cursor, sent) /\ cursor \in Nat /\ Head(talkFrames).id # id
  BY <1>2, <1>4
<1> HIDE DEF s, cursor, id, h
<1>6. Reaches(id, s, cursor, sent)'
  BY <1>1, <1>5, OtherFrame
<1> QED BY <1>6 DEF s, cursor, id

LEMMA OtherForward ==
  ASSUME TalkTypes, Streams, NEW g \in table, Forward(g),
         NEW f \in table, f # g, NEW sent, Reaches(f.id, f.session, f.cursor, sent)
  PROVE  Reaches(f.id, f.session, f.cursor, sent)'
<1>1. NextTalkFrame /\ g.id = Head(talkFrames).id
  BY DEF Forward
<1>2. f.id # g.id /\ f.session # g.session /\ f.cursor \in Nat
  BY TableIs DEF Streams
<1>3. PICK m \in Letters : m.type = Head(talkFrames).type /\ m.session = g.session /\ mail' = Append(mail, m)
  BY ForwardIs
<1>4. m.type # "page"
  BY <1>1, <1>3, FrameIs
<1> DEFINE s == f.session
           cursor == f.cursor
           id == f.id
<1>5. ~IsSnapshot(m, s) /\ EventOf(m, s) = {}
  BY <1>2, <1>3 DEF IsSnapshot, EventOf
<1>6. Reaches(id, s, cursor, sent) /\ cursor \in Nat /\ Head(talkFrames).id # id
  BY <1>1, <1>2
<1> HIDE DEF s, cursor, id
<1>7. Reaches(id, s, cursor, sent)'
  BY <1>1, <1>3, <1>4, <1>5, <1>6, OtherFrame
<1> QED BY <1>7 DEF s, cursor, id

\* The user asks for a page.
LEMMA LoadReaches ==
  ASSUME TalkTypes, OnePage, LoadOlder, NEW id, NEW s, s = open, NEW cursor, NEW sent,
         Reaches(id, s, cursor, sent)
  PROVE  Reaches(id, s, cursor, sent)'
<1> DEFINE a == [type |-> "page", session |-> open, before |-> oldest]
           n == Len(asks)
<1>1. /\ asks' = Append(asks, a) /\ loading = "no" /\ oldest > 0
      /\ UNCHANGED <<log, talkFrames, mail, items, unfolded, oldest, torn>>
  BY DEF LoadOlder
<1>2. oldest \in Nat \ {0} /\ asks \in Seq(Requests)
  BY <1>1 DEF TalkTypes
<1>3. a \in Requests /\ a.session = s /\ a.before = oldest
  BY <1>2, RequestIs DEF LoadOlder, TalkTypes
<1> HIDE DEF a
<1>4. /\ Len(asks') = n + 1 /\ asks'[n + 1] = a
      /\ \A i \in 1 .. n : asks'[i] = asks[i]
      /\ \A i \in 1 .. n + 1 : i \in 1 .. n \/ i = n + 1
  BY <1>1, <1>2, <1>3, AppendIs
<1>5. ASSUME NEW i \in 1 .. Len(asks'), Paging(asks', i)
      PROVE  asks'[i].session = s /\ oldest <= asks'[i].before
  <2>1. i = n + 1
    BY <1>1, <1>4, <1>5 DEF OnePage, Paging
  <2> QED BY <1>2, <1>3, <1>4, <2>1
<1>6. \A i \in 1 .. Len(mail) : mail[i].type # "page"
  BY <1>1 DEF OnePage, Replying
<1>7. Awaits(s, cursor)'
  <2>1. Awaits(s, cursor)' <=>
          /\ oldest # 0
          /\ \A i \in 1 .. Len(asks') : Paging(asks', i) => asks'[i].session = s /\ oldest <= asks'[i].before
          /\ \A i \in 1 .. Len(mail) : mail[i].type = "page" =>
               /\ mail[i].session = s /\ Seqs(mail[i].rows) \subseteq 1 .. cursor
               /\ Continues(Seqs(mail[i].rows), log[s], oldest)
    BY <1>1 DEF Awaits, Paging
  <2> QED BY <1>2, <1>5, <1>6, <2>1
<1>8. /\ NoSnapshot(mail', s) => NoSnapshot(mail, s)
      /\ \A k : LastSnapshot(mail', k, s) => \E j \in 1 .. Len(mail) :
           LastSnapshot(mail, j, s) /\ mail'[k] = mail[j] /\ EventSeqs(mail', k, s) = EventSeqs(mail, j, s)
      /\ EventSeqs(mail', 0, s) = EventSeqs(mail, 0, s)
  BY <1>1 DEF LastSnapshot
<1>9. /\ FrameSeqs(talkFrames', id) = FrameSeqs(talkFrames, id)
      /\ SnapshotComes(talkFrames', id) <=> SnapshotComes(talkFrames, id)
      /\ \A i \in 1 .. Len(talkFrames') : Opens(talkFrames'[i], id) =>
           \E j \in 1 .. Len(talkFrames) : talkFrames'[i] = talkFrames[j]
  BY <1>1
<1> QED BY <1>1, <1>7, <1>8, <1>9, SameReaches

\* A message is read that changes no transcript.
LEMMA PassedReaches ==
  ASSUME TalkTypes, DropMail \/ TakeRefusal, NEW id, NEW s, s = open, NEW cursor \in Nat, NEW sent,
         Reaches(id, s, cursor, sent)
  PROVE  Reaches(id, s, cursor, sent)'
<1>1. /\ mail # <<>> /\ mail' = Tail(mail)
      /\ ~IsSnapshot(Head(mail), s) /\ EventOf(Head(mail), s) = {}
      /\ UNCHANGED <<log, talkFrames, asks, items, unfolded, oldest, torn>>
      /\ loading' \in {"no", loading}
  <2>1. CASE DropMail
    BY <2>1 DEF DropMail, NextMail, IsSnapshot, EventOf, screen
  <2>2. CASE TakeRefusal
    BY <2>2 DEF TakeRefusal, NextMail, IsSnapshot, EventOf, screen
  <2> QED BY <2>1, <2>2
<1>2. /\ NoSnapshot(mail', s) => NoSnapshot(mail, s)
      /\ \A k : LastSnapshot(mail', k, s) => \E j \in 1 .. Len(mail) :
           LastSnapshot(mail, j, s) /\ mail'[k] = mail[j] /\ EventSeqs(mail', k, s) = EventSeqs(mail, j, s)
      /\ EventSeqs(mail', 0, s) = EventSeqs(mail, 0, s)
  BY <1>1, LetterGone
<1>3. /\ FrameSeqs(talkFrames', id) = FrameSeqs(talkFrames, id)
      /\ SnapshotComes(talkFrames', id) <=> SnapshotComes(talkFrames, id)
      /\ \A i \in 1 .. Len(talkFrames') : Opens(talkFrames'[i], id) =>
           \E j \in 1 .. Len(talkFrames) : talkFrames'[i] = talkFrames[j]
  BY <1>1
<1>4. ASSUME oldest <= cursor, loading = "asked" => Awaits(s, cursor), loading' = "asked"
      PROVE  Awaits(s, cursor)'
  <2>1. Awaits(s, cursor)
    BY <1>1, <1>4
  <2>2. oldest' \in Nat \ {0} /\ oldest' <= oldest /\ cursor <= cursor
    BY <1>1, <2>1 DEF Awaits, TalkTypes
  <2>3. \A n \in 1 .. cursor : log'[s][n] = "message" => log[s][n] = "message"
    BY <1>1
  <2> QED BY <1>1, <1>4, <2>1, <2>2, <2>3, AwaitsStill
<1> QED BY <1>1, <1>2, <1>3, <1>4, SameReaches

\* The snapshot of the stream is passed on: it is the last one on its way, and with what
\* is behind it in the stream covers the session.
LEMMA SnapshotForward ==
  ASSUME TalkTypes, Delivery, NEW f \in table, Forward(f), Head(talkFrames).type = "snapshot",
         NEW id, id = f.id, NEW s, s = f.session, NEW first, first = Head(talkFrames).seq,
         NEW sent \in Nat, first <= sent, Opening(id, sent)
  PROVE  Reaches(id, s, first, sent)'
<1> DEFINE h == Head(talkFrames)
           due == FrameSeqs(talkFrames', id)
           n == Len(mail)
<1>1. NextTalkFrame /\ id = h.id
  BY DEF Forward
<1>2. talkFrames # <<>> /\ talkFrames' = Tail(talkFrames) /\ talkFrames \in Seq(Heard) /\ first \in Nat
      /\ talkFrames' \in Seq(Heard) /\ UNCHANGED log /\ s \in TalkSessions
      /\ mail \in Seq(Letters)
  BY <1>1, FrameIs, TableIs DEF NextTalkFrame, TalkTypes
<1>3. PICK rows \in Seq(Rows), m \in Letters :
        /\ m.type = "snapshot" /\ m.session = s /\ m.rows = rows /\ mail' = Append(mail, m)
        /\ Seqs(rows) = {i \in TailFrom(first) .. first : log[s][i] # "ignored"}
  <2>1. PICK rows \in Seq(Rows) :
          LET m == [type |-> h.type, session |-> s, rows |-> rows]
          IN  /\ m \in Letters /\ m.type = h.type /\ m.session = s /\ m.rows = rows /\ mail' = Append(mail, m)
              /\ h.type = "snapshot" =>
                   Seqs(rows) = {i \in TailFrom(first) .. first : log[s][i] # "ignored"}
    BY ForwardIs
  <2> DEFINE m == [type |-> h.type, session |-> s, rows |-> rows]
  <2>2. m \in Letters /\ m.type = h.type /\ m.session = s /\ m.rows = rows /\ mail' = Append(mail, m)
        /\ (h.type = "snapshot" => Seqs(rows) = {i \in TailFrom(first) .. first : log[s][i] # "ignored"})
    BY <2>1
  <2> HIDE DEF m
  <2> QED BY <2>2
<1>4. \A i \in 1 .. Len(talkFrames') : talkFrames'[i].id = id =>
        talkFrames'[i].type = "event" /\ first < talkFrames'[i].seq
  BY <1>1, DeliveryShrinks
<1>5. ~SnapshotComes(talkFrames', id) /\ Opening(id, sent)'
  <2>1. \A i \in 1 .. Len(talkFrames') : ~Opens(talkFrames'[i], id)
    BY <1>4 DEF Opens
  <2> QED BY <2>1 DEF SnapshotComes, Opening
<1>6. \A i \in due : i \in Nat /\ first < i
  <2>1. ASSUME NEW i \in 1 .. Len(talkFrames'), NEW e \in OfStream(talkFrames'[i], id)
        PROVE  e \in Nat /\ first < e
    <3>1. talkFrames'[i] \in Heard
      BY <1>2, ElementOfSeq
    <3>2. talkFrames'[i].id = id /\ e = talkFrames'[i].seq
      BY <2>1 DEF OfStream
    <3> QED BY <1>4, <3>1, <3>2, HeardIs
  <2>2. due = UNION {OfStream(talkFrames'[i], id) : i \in 1 .. Len(talkFrames')}
    BY DEF FrameSeqs
  <2> HIDE DEF due
  <2> QED BY <2>1, <2>2
<1>7. \A i \in first + 1 .. sent : i \in due
  <2>1. FrameSeqs(talkFrames, id) = OfStream(h, id) \cup due
    BY <1>2, FrameRead
  <2>2. OfStream(h, id) = {first}
    BY <1>1 DEF OfStream
  <2>3. first .. sent \subseteq FrameSeqs(talkFrames, id)
    <3>1. 1 \in 1 .. Len(talkFrames) /\ h = talkFrames[1]
      BY <1>2, PagesRead
    <3>2. Opens(talkFrames[1], id)
      BY <1>1, <3>1 DEF Opens
    <3> QED BY <3>1, <3>2 DEF Opening
  <2> HIDE DEF due
  <2>4. \A i \in first + 1 .. sent : i \in first .. sent /\ i # first
    BY <1>2
  <2> QED BY <2>1, <2>2, <2>3, <2>4
<1>8. IsSnapshot(m, s)
  BY <1>3 DEF IsSnapshot
<1>9. Sending(id, s, first, sent)'
  <2>1. SUFFICES ASSUME NEW k \in 1 .. Len(mail'), LastSnapshot(mail', k, s)
                 PROVE  Covers(log[s], sent, first, Seqs(mail'[k].rows) \cup EventSeqs(mail', k, s), due, 0)
    BY <1>2 DEF Sending
  <2> DEFINE a == mail'
  <2>2. mail \in Seq(Letters) /\ a = Append(mail, m)
    BY <1>2, <1>3
  <2> HIDE DEF a, n
  <2>3. k = Len(mail) + 1 /\ a[Len(mail) + 1] = m /\ EventSeqs(a, Len(mail) + 1, s) = {}
    BY <1>8, <2>1, <2>2, LetterAppended DEF a
  <2>4. Seqs(a[k].rows) \cup EventSeqs(a, k, s) = {i \in TailFrom(first) .. first : log[s][i] # "ignored"}
    BY <1>3, <2>3
  <2> HIDE DEF due
  <2>5. first <= sent /\ first \in Nat
    BY <1>2
  <2>6. Covers(log[s], sent, first, Seqs(a[k].rows) \cup EventSeqs(a, k, s), due, 0)
    <3> DEFINE had == Seqs(a[k].rows) \cup EventSeqs(a, k, s)
    <3> HIDE DEF had
    <3>1. had = {i \in TailFrom(first) .. first : log[s][i] # "ignored"}
      BY <2>4 DEF had
    <3>2. Covers(log[s], sent, first, had, due, 0)
      BY <1>6, <1>7, <2>5, <3>1, CoversFirst
    <3> QED BY <3>2 DEF had
  <2> QED BY <2>6 DEF a
<1>10. Showing(id, s, first, sent)'
  <2>1. ~NoSnapshot(mail', s)
    <3> DEFINE a == mail'
    <3>1. mail \in Seq(Letters) /\ a = Append(mail, m)
      BY <1>2, <1>3
    <3> HIDE DEF a
    <3>2. ~NoSnapshot(a, s)
      BY <1>8, <3>1, LetterAppended
    <3> QED BY <3>2 DEF a
  <2> QED BY <2>1 DEF Showing
<1> QED BY <1>5, <1>9, <1>10 DEF Reaches

\* The same records, of which the client has or is sent others.
LEMMA CoversMoved ==
  ASSUME NEW l, NEW sent, NEW cursor, NEW cursor2, NEW had, NEW due, NEW had2, NEW due2, NEW old,
         Covers(l, sent, cursor, had, due, old),
         had2 \subseteq 1 .. cursor2, old <= cursor2, had2 \cup due2 = had \cup due
  PROVE  Covers(l, sent, cursor2, had2, due2, old)
<1>1. PICK b \in Nat :
        /\ b <= TailFrom(sent) /\ (old # 0 => b <= old)
        /\ \A n \in had \cup due : b <= n
        /\ \A n \in b .. sent : n # 0 /\ l[n] = "message" => n \in had \cup due
  BY DEF Covers
<1> QED BY <1>1 DEF Covers

\* An event of the stream is passed on: it is still on its way, to the client now.
LEMMA EventForward ==
  ASSUME TalkTypes, Delivery, NEW f \in table, Forward(f), Head(talkFrames).type = "event",
         NEW id, id = f.id, NEW s, s = f.session, NEW cursor, cursor = f.cursor,
         NEW next, next = Head(talkFrames).seq,
         NEW sent \in Nat, next <= sent, Reaches(id, s, cursor, sent)
  PROVE  Reaches(id, s, next, sent)'
<1> DEFINE h == Head(talkFrames)
           due == FrameSeqs(talkFrames, id)
           due2 == FrameSeqs(talkFrames', id)
<1>1. NextTalkFrame /\ id = h.id /\ cursor < next
  BY DEF Forward
<1>2. /\ talkFrames # <<>> /\ talkFrames' = Tail(talkFrames) /\ talkFrames \in Seq(Heard)
      /\ next \in Nat /\ cursor \in Nat /\ mail \in Seq(Letters) /\ oldest \in Nat
      /\ UNCHANGED <<log, asks, items, unfolded, oldest, loading, torn>>
  BY <1>1, FrameIs, TableIs DEF NextTalkFrame, TalkTypes, screen
<1>3. PICK m \in Letters : /\ m.type = "event" /\ m.session = s /\ Seqs(m.rows) = {next}
                           /\ mail' = Append(mail, m)
  <2>1. PICK rows \in Seq(Rows) :
          LET m == [type |-> h.type, session |-> s, rows |-> rows]
          IN  /\ m \in Letters /\ m.type = h.type /\ m.session = s /\ m.rows = rows /\ mail' = Append(mail, m)
              /\ h.type = "event" => Len(rows) = 1 /\ Seqs(rows) = {next}
    BY ForwardIs
  <2> DEFINE m == [type |-> h.type, session |-> s, rows |-> rows]
  <2>2. m \in Letters /\ m.type = h.type /\ m.session = s /\ m.rows = rows /\ mail' = Append(mail, m)
        /\ (h.type = "event" => Seqs(rows) = {next})
    BY <2>1
  <2> HIDE DEF m
  <2> QED BY <2>2
<1>4. ~IsSnapshot(m, s) /\ EventOf(m, s) = {next} /\ m.type # "page"
  BY <1>3 DEF IsSnapshot, EventOf
<1>5. \A i \in 1 .. Len(talkFrames') : ~Opens(talkFrames'[i], id)
  BY <1>1, DeliveryShrinks DEF Opens
<1>6. ~SnapshotComes(talkFrames', id) /\ ~SnapshotComes(talkFrames, id) /\ due = {next} \cup due2
  <2>1. ~SnapshotComes(talkFrames', id)
    BY <1>5 DEF SnapshotComes
  <2>2. ~Opens(h, id) /\ OfStream(h, id) = {next}
    BY <1>1 DEF Opens, OfStream
  <2>3. /\ FrameSeqs(talkFrames, id) = OfStream(h, id) \cup FrameSeqs(talkFrames', id)
        /\ SnapshotComes(talkFrames, id) <=> Opens(h, id) \/ SnapshotComes(talkFrames', id)
    BY <1>2, FrameRead
  <2> QED BY <2>1, <2>2, <2>3
<1> HIDE DEF due, due2
<1>7. ASSUME NEW had, NEW old \in Nat, Covers(log[s], sent, cursor, had, due, old)
      PROVE  Covers(log[s], sent, next, had \cup {next}, due2, old)
  <2>1. had \subseteq 1 .. cursor /\ old <= cursor
    BY <1>7 DEF Covers
  <2> DEFINE l == log[s]
             had2 == had \cup {next}
  <2>2. next \in 1 .. next /\ \A n \in 1 .. cursor : n \in 1 .. next
    BY <1>1, <1>2
  <2>3. had2 \subseteq 1 .. next
    BY <2>1, <2>2
  <2>4. old <= next
    BY <1>1, <1>2, <2>1
  <2>5. had2 \cup due2 = had \cup due
    BY <1>6
  <2>6. Covers(l, sent, cursor, had, due, old)
    BY <1>7
  <2> HIDE DEF l, had2
  <2>7. Covers(l, sent, next, had2, due2, old)
    BY <2>3, <2>4, <2>5, <2>6, CoversMoved
  <2> QED BY <2>7 DEF l, had2
<1>8. /\ \A k \in 1 .. Len(mail') : LastSnapshot(mail', k, s) =>
           /\ LastSnapshot(mail, k, s) /\ k \in 1 .. Len(mail) /\ mail'[k] = mail[k]
           /\ EventSeqs(mail', k, s) = EventSeqs(mail, k, s) \cup {next}
      /\ NoSnapshot(mail', s) => NoSnapshot(mail, s)
      /\ EventSeqs(mail', 0, s) = EventSeqs(mail, 0, s) \cup {next}
  <2> DEFINE q == mail
             a == mail'
  <2>1. q \in Seq(Letters) /\ a = Append(q, m)
    BY <1>2, <1>3
  <2> HIDE DEF q, a
  <2>2. \A k \in 1 .. Len(q) : a[k] = q[k]
    BY <2>1, LetterAppended
  <2>3. NoSnapshot(a, s) => NoSnapshot(q, s)
    BY <1>4, <2>1, LetterAppended
  <2>4. \A k : LastSnapshot(a, k, s) => LastSnapshot(q, k, s) /\ k \in 1 .. Len(q)
    BY <1>4, <2>1, LetterAppended DEF LastSnapshot
  <2>5. ASSUME NEW k \in 0 .. Len(q) PROVE EventSeqs(a, k, s) = EventSeqs(q, k, s) \cup {next}
    <3>1. EventSeqs(Append(q, m), k, s) = EventSeqs(q, k, s) \cup EventOf(m, s)
      BY <2>1, EventsAppended
    <3> QED BY <1>4, <2>1, <3>1
  <2>6. Len(q) \in Nat
    BY <2>1, LenProperties
  <2>7. 0 \in 0 .. Len(q) /\ \A k \in 1 .. Len(q) : k \in 0 .. Len(q)
    BY <2>6
  <2> QED BY <2>2, <2>3, <2>4, <2>5, <2>7 DEF q, a
<1>9. Opening(id, sent)'
  BY <1>5 DEF Opening
<1>10. Sending(id, s, next, sent)'
  <2>1. SUFFICES ASSUME NEW k \in 1 .. Len(mail'), LastSnapshot(mail', k, s)
                 PROVE  Covers(log[s], sent, next, Seqs(mail'[k].rows) \cup EventSeqs(mail', k, s), due2, 0)
    BY <1>2 DEF Sending, due2
  <2>2. /\ LastSnapshot(mail, k, s) /\ k \in 1 .. Len(mail) /\ mail'[k] = mail[k]
        /\ EventSeqs(mail', k, s) = EventSeqs(mail, k, s) \cup {next}
    BY <1>8, <2>1
  <2> DEFINE had == Seqs(mail[k].rows) \cup EventSeqs(mail, k, s)
  <2>3. Covers(log[s], sent, cursor, had, due, 0)
    BY <1>6, <2>2 DEF Reaches, Sending, due
  <2>4. Seqs(mail'[k].rows) \cup EventSeqs(mail', k, s) = had \cup {next}
    BY <2>2
  <2> HIDE DEF had
  <2>5. Covers(log[s], sent, next, had \cup {next}, due2, 0)
    BY <1>7, <2>3
  <2> QED BY <2>4, <2>5
<1>11. Showing(id, s, next, sent)'
  <2> DEFINE had == Seqs(items) \cup Seqs(unfolded) \cup EventSeqs(mail, 0, s)
  <2>1. SUFFICES ASSUME NoSnapshot(mail', s), ~torn
                 PROVE  /\ AllOf(s, items) /\ AllOf(s, unfolded)
                        /\ Covers(log[s], sent, next,
                                  Seqs(items) \cup Seqs(unfolded) \cup EventSeqs(mail', 0, s), due2, oldest)
                        /\ loading = "asked" => Awaits(s, next)'
    BY <1>2 DEF Showing, due2
  <2>2. /\ AllOf(s, items) /\ AllOf(s, unfolded) /\ Covers(log[s], sent, cursor, had, due, oldest)
        /\ loading = "asked" => Awaits(s, cursor)
    BY <1>6, <1>8, <2>1 DEF Reaches, Showing, due
  <2>3. Seqs(items) \cup Seqs(unfolded) \cup EventSeqs(mail', 0, s) = had \cup {next}
    BY <1>8
  <2> HIDE DEF had
  <2>4. Covers(log[s], sent, next, had \cup {next}, due2, oldest)
    BY <1>2, <1>7, <2>2
  <2>5. ASSUME loading = "asked" PROVE Awaits(s, next)'
    <3>1. Awaits(s, cursor) /\ oldest <= cursor /\ cursor <= next
      BY <1>1, <1>2, <2>2, <2>5 DEF Covers
    <3> QED BY <1>2, <1>3, <1>4, <3>1, AwaitsSent
  <2> QED BY <2>2, <2>3, <2>4, <2>5
<1> QED BY <1>9, <1>10, <1>11 DEF Reaches

\* The stream is opened: its snapshot is the only frame of it.
LEMMA OpenedReaches ==
  ASSUME TalkTypes, Delivery, NEW h \in Heard, h.type = "snapshot", h.id = nextId,
         talkFrames' = Append(talkFrames, h), NEW id, id = nextId,
         NEW s, NEW cursor, NEW sent, sent = h.seq
  PROVE  Reaches(id, s, cursor, sent)'
<1> DEFINE n == Len(talkFrames)
<1>1. /\ n \in Nat /\ Len(talkFrames') = n + 1 /\ talkFrames'[n + 1] = h
      /\ \A j \in 1 .. n : talkFrames'[j] = talkFrames[j]
      /\ \A j \in 1 .. n + 1 : j \in 1 .. n \/ j = n + 1
  BY AppendIs DEF TalkTypes
<1>2. FrameSeqs(talkFrames', id) = FrameSeqs(talkFrames, id) \cup {sent} /\ SnapshotComes(talkFrames', id)
  <2>1. OfStream(h, id) = {sent} /\ Opens(h, id)
    BY DEF OfStream, Opens
  <2>2. /\ FrameSeqs(Append(talkFrames, h), id) = FrameSeqs(talkFrames, id) \cup OfStream(h, id)
        /\ SnapshotComes(Append(talkFrames, h), id) <=> SnapshotComes(talkFrames, id) \/ Opens(h, id)
    BY FrameAppended DEF TalkTypes
  <2> QED BY <2>1, <2>2
<1>3. Opening(id, sent)'
  <2>1. SUFFICES ASSUME NEW i \in 1 .. Len(talkFrames'), Opens(talkFrames'[i], id)
                 PROVE  talkFrames'[i].seq .. sent \subseteq FrameSeqs(talkFrames', id)
    BY DEF Opening
  <2>2. \A j \in 1 .. n : talkFrames[j].id # id
    <3>1. \A j \in 1 .. n : talkFrames[j].id < nextId /\ talkFrames[j].id \in Nat
      BY TableIs DEF Delivery
    <3> QED BY <3>1 DEF TalkTypes
  <2>3. i = n + 1
    BY <1>1, <2>1, <2>2 DEF Opens
  <2>4. talkFrames'[i].seq = sent /\ sent \in Nat
    BY <1>1, <2>3, HeardIs
  <2>5. sent .. sent = {sent}
    BY <2>4
  <2> QED BY <1>2, <2>4, <2>5
<1>4. Sending(id, s, cursor, sent)' /\ Showing(id, s, cursor, sent)'
  BY <1>2 DEF Sending, Showing
<1> QED BY <1>3, <1>4 DEF Reaches

LEMMA LetterTaken ==
  ASSUME TalkTypes, NEW s, mail # <<>>, mail' = Tail(mail)
  PROVE  /\ EventSeqs(mail, 0, s) = EventOf(Head(mail), s) \cup EventSeqs(mail', 0, s)
         /\ IsSnapshot(Head(mail), s) /\ NoSnapshot(mail', s) =>
              /\ 1 \in 1 .. Len(mail) /\ mail[1] = Head(mail) /\ LastSnapshot(mail, 1, s)
              /\ EventSeqs(mail', 0, s) = EventSeqs(mail, 1, s)
<1>1. mail \in Seq(Letters)
  BY DEF TalkTypes
<1>2. /\ EventSeqs(mail, 0, s) = EventOf(Head(mail), s) \cup EventSeqs(mail, 1, s)
      /\ \A k \in Nat : EventSeqs(mail', k, s) = EventSeqs(mail, k + 1, s)
      /\ IsSnapshot(Head(mail), s) /\ NoSnapshot(mail', s) => LastSnapshot(mail, 1, s)
  BY <1>1, LetterRead
<1>3. EventSeqs(mail', 0, s) = EventSeqs(mail, 1, s)
  <2>1. 0 \in Nat /\ 0 + 1 = 1
    OBVIOUS
  <2> QED BY <1>2, <2>1
<1>4. 1 \in 1 .. Len(mail) /\ mail[1] = Head(mail)
  BY <1>1, PagesRead
<1> QED BY <1>2, <1>3, <1>4

\* The frames and snapshots to come, when at most a message is read.
LEMMA ComingReaches ==
  ASSUME TalkTypes, UNCHANGED <<log, talkFrames>>, mail' = mail \/ (mail # <<>> /\ mail' = Tail(mail)),
         NEW id, NEW s, NEW cursor, NEW sent, Reaches(id, s, cursor, sent)
  PROVE  Opening(id, sent)' /\ Sending(id, s, cursor, sent)'
<1>1. Opening(id, sent)'
  BY DEF Reaches, Opening
<1>2. \A k : LastSnapshot(mail', k, s) => \E j \in 1 .. Len(mail) :
        LastSnapshot(mail, j, s) /\ mail'[k] = mail[j] /\ EventSeqs(mail', k, s) = EventSeqs(mail, j, s)
  <2>1. CASE mail' = mail
    BY <2>1 DEF LastSnapshot
  <2>2. CASE mail # <<>> /\ mail' = Tail(mail)
    BY <2>2, LetterGone
  <2> QED BY <2>1, <2>2
<1>3. Sending(id, s, cursor, sent)'
  <2> DEFINE due == FrameSeqs(talkFrames, id)
  <2>1. SUFFICES ASSUME ~SnapshotComes(talkFrames, id), NEW k \in 1 .. Len(mail'), LastSnapshot(mail', k, s)
                 PROVE  Covers(log[s], sent, cursor, Seqs(mail'[k].rows) \cup EventSeqs(mail', k, s), due, 0)
    BY DEF Sending
  <2>2. PICK j \in 1 .. Len(mail) :
          LastSnapshot(mail, j, s) /\ mail'[k] = mail[j] /\ EventSeqs(mail', k, s) = EventSeqs(mail, j, s)
    BY <1>2, <2>1
  <2>3. Covers(log[s], sent, cursor, Seqs(mail[j].rows) \cup EventSeqs(mail, j, s), due, 0)
    BY <2>1, <2>2 DEF Reaches, Sending
  <2> QED BY <2>2, <2>3
<1> QED BY <1>1, <1>3

\* The snapshot arrives: its rows are those to be folded.
LEMMA SnapshotReaches ==
  ASSUME TalkTypes, TakeSnapshot, NEW id, NEW s, s = open, NEW cursor, NEW sent,
         Reaches(id, s, cursor, sent)
  PROVE  Reaches(id, s, cursor, sent)'
<1>1. NextMail("snapshot") /\ Head(mail).session = s
  BY DEF TakeSnapshot
<1>2. /\ mail # <<>> /\ mail' = Tail(mail) /\ UNCHANGED <<log, talkFrames>>
      /\ IsSnapshot(Head(mail), s) /\ AllOf(s, Head(mail).rows)
  BY <1>1, MailIs DEF NextMail, IsSnapshot
<1>3. items' = <<>> /\ oldest' = 0 /\ unfolded' = Head(mail).rows /\ loading' # "asked"
  BY DEF TakeSnapshot
<1>4. Opening(id, sent)' /\ Sending(id, s, cursor, sent)'
  BY <1>2, ComingReaches
<1>5. Showing(id, s, cursor, sent)'
  <2>1. SUFFICES ASSUME ~SnapshotComes(talkFrames, id), NoSnapshot(mail', s)
                 PROVE  /\ AllOf(s, items') /\ AllOf(s, unfolded')
                        /\ Covers(log[s], sent, cursor,
                                  Seqs(items') \cup Seqs(unfolded') \cup EventSeqs(mail', 0, s),
                                  FrameSeqs(talkFrames, id), 0)
    BY <1>2, <1>3 DEF Showing
  <2>2. 1 \in 1 .. Len(mail) /\ mail[1] = Head(mail) /\ LastSnapshot(mail, 1, s)
        /\ EventSeqs(mail', 0, s) = EventSeqs(mail, 1, s)
    BY <1>2, <2>1, LetterTaken
  <2>3. Covers(log[s], sent, cursor, Seqs(mail[1].rows) \cup EventSeqs(mail, 1, s), FrameSeqs(talkFrames, id), 0)
    BY <2>1, <2>2 DEF Reaches, Sending
  <2>4. Seqs(items') = {} /\ AllOf(s, items')
    <3>1. <<>> \in Seq(Rows)
      OBVIOUS
    <3> QED BY <1>3, <3>1, SeqsRange
  <2>5. Seqs(items') \cup Seqs(unfolded') \cup EventSeqs(mail', 0, s) = Seqs(mail[1].rows) \cup EventSeqs(mail, 1, s)
    BY <1>3, <2>2, <2>4
  <2> QED BY <1>2, <1>3, <2>3, <2>4, <2>5
<1> QED BY <1>4, <1>5 DEF Reaches

\* Of what the client has, some is folded, and no message is left out.
LEMMA CoversFolded ==
  ASSUME NEW l, NEW sent, NEW cursor, NEW had0, NEW had1, NEW ns, NEW rest, NEW due, NEW old, NEW old2,
         Covers(l, sent, cursor, had0 \cup ns \cup rest, due, old),
         had0 \subseteq had1, had1 \subseteq had0 \cup ns,
         \A n \in ns : l[n] = "message" => n \in had1,
         old2 \in {old} \cup ns
  PROVE  Covers(l, sent, cursor, had1 \cup rest, due, old2)
<1> DEFINE had == had0 \cup ns \cup rest
           had2 == had1 \cup rest
<1>1. /\ had \subseteq 1 .. cursor /\ old <= cursor
      /\ \E b \in Nat :
           /\ b <= TailFrom(sent) /\ (old # 0 => b <= old)
           /\ \A n \in had \cup due : b <= n
           /\ \A n \in b .. sent : n # 0 /\ l[n] = "message" => n \in had \cup due
  BY DEF Covers
<1>2. PICK b \in Nat :
        /\ b <= TailFrom(sent) /\ (old # 0 => b <= old)
        /\ \A n \in had \cup due : b <= n
        /\ \A n \in b .. sent : n # 0 /\ l[n] = "message" => n \in had \cup due
  BY <1>1
<1>3. had2 \subseteq 1 .. cursor /\ \A n \in had2 \cup due : b <= n
  BY <1>1, <1>2
<1>4. \A n \in b .. sent : n # 0 /\ l[n] = "message" => n \in had2 \cup due
  BY <1>2
<1>5. old2 <= cursor /\ (old2 # 0 => b <= old2)
  <2>1. CASE old2 = old
    BY <1>1, <1>2, <2>1
  <2>2. CASE old2 \in ns
    <3>1. old2 \in 1 .. cursor /\ old2 \in had
      BY <1>1, <2>2
    <3>2. old2 <= cursor
      BY <3>1
    <3> QED BY <1>2, <3>1, <3>2
  <2> QED BY <2>1, <2>2
<1> QED BY <1>2, <1>3, <1>4, <1>5 DEF Covers

\* Rows of numbers ns are folded into the transcript.
LEMMA GainReaches ==
  ASSUME TalkTypes, NEW id, NEW s, NEW cursor \in Nat, NEW sent \in Nat, Reaches(id, s, cursor, sent),
         NEW ns, NEW u \in Transcripts, Hold(u),
         AllOf(s, unfolded) => AllOf(s, unfolded') /\ Gained(s, Held, ns, u),
         UNCHANGED <<log, talkFrames, asks, loading, torn>>,
         mail' = mail \/ (mail # <<>> /\ mail' = Tail(mail)),
         NoSnapshot(mail', s) => NoSnapshot(mail, s),
         Seqs(unfolded) \cup EventSeqs(mail, 0, s) = ns \cup (Seqs(unfolded') \cup EventSeqs(mail', 0, s))
  PROVE  Reaches(id, s, cursor, sent)'
<1> DEFINE rest == Seqs(unfolded') \cup EventSeqs(mail', 0, s)
           due == FrameSeqs(talkFrames, id)
<1>1. Opening(id, sent)' /\ Sending(id, s, cursor, sent)'
  BY ComingReaches
<1>2. Showing(id, s, cursor, sent)'
  <2>1. SUFFICES ASSUME ~SnapshotComes(talkFrames, id), NoSnapshot(mail', s), ~torn
                 PROVE  /\ AllOf(s, items') /\ AllOf(s, unfolded')
                        /\ Covers(log[s], sent, cursor,
                                  Seqs(items') \cup Seqs(unfolded') \cup EventSeqs(mail', 0, s), due, oldest')
                        /\ loading = "asked" => Awaits(s, cursor)'
    BY DEF Showing
  <2>2. /\ AllOf(s, items) /\ AllOf(s, unfolded)
        /\ Covers(log[s], sent, cursor, Seqs(items) \cup Seqs(unfolded) \cup EventSeqs(mail, 0, s), due, oldest)
        /\ loading = "asked" => Awaits(s, cursor)
    BY <2>1 DEF Reaches, Showing
  <2>3. Held.rows = items /\ Held.oldest = oldest /\ items' = u.rows /\ oldest' = u.oldest
        /\ oldest \in Nat /\ oldest' \in Nat
    BY HeldIsTranscript, HoldTypes DEF Hold, TalkTypes
  <2> HIDE DEF rest, due
  <2> DEFINE old == oldest
             old2 == oldest'
             had0 == Seqs(items)
             had1 == Seqs(items')
             l == log[s]
  <2>4. /\ had0 \subseteq had1 /\ had1 \subseteq had0 \cup ns
        /\ \A n \in ns : l[n] = "message" => n \in had1
        /\ AllOf(s, items')
        /\ old2 \in {old} \cup ns /\ (old # 0 => old2 # 0 /\ old2 <= old)
    BY <2>2, <2>3 DEF Gained
  <2>5. Covers(l, sent, cursor, had0 \cup ns \cup rest, due, old)
    <3>1. Seqs(items) \cup Seqs(unfolded) \cup EventSeqs(mail, 0, s) = had0 \cup ns \cup rest
      BY DEF rest
    <3> QED BY <2>2, <3>1
  <2>6. Seqs(items') \cup Seqs(unfolded') \cup EventSeqs(mail', 0, s) = had1 \cup rest
    BY DEF rest
  <2>7. old \in Nat /\ old2 \in Nat
    BY <2>3
  <2>8. loading = "asked" => Awaits(s, cursor)'
    <3>1. SUFFICES ASSUME loading = "asked" PROVE Awaits(s, cursor)'
      OBVIOUS
    <3>2. Awaits(s, cursor) /\ old # 0 /\ old <= cursor
      BY <2>2, <2>5, <3>1 DEF Awaits, Covers
    <3>3. oldest' \in Nat \ {0} /\ oldest' <= oldest /\ oldest <= cursor /\ cursor <= cursor
      BY <2>4, <2>7, <3>2
    <3>4. \A n \in 1 .. cursor : log'[s][n] = "message" => log[s][n] = "message"
      OBVIOUS
    <3> QED BY <3>2, <3>3, <3>4, AwaitsStill
  <2> HIDE DEF old, old2, had0, had1, l
  <2>9. Covers(l, sent, cursor, had1 \cup rest, due, old2)
    BY <2>4, <2>5, CoversFolded
  <2> QED BY <2>2, <2>4, <2>6, <2>8, <2>9 DEF old2, l
<1> QED BY <1>1, <1>2 DEF Reaches

LEMMA TakenReaches ==
  ASSUME TalkTypes, TakeEvent, NEW id, NEW s, s = open, NEW cursor \in Nat, NEW sent \in Nat,
         Reaches(id, s, cursor, sent)
  PROVE  Reaches(id, s, cursor, sent)'
<1> DEFINE rows == Head(mail).rows
           r == Head(rows)
           u == FoldRow(Held, r)
<1>1. NextMail("event") /\ Head(mail).session = s /\ Hold(u) /\ UNCHANGED <<unfolded, loading, torn>>
  BY DEF TakeEvent
<1>2. /\ mail # <<>> /\ mail' = Tail(mail) /\ UNCHANGED <<log, talkFrames, asks>> /\ Head(mail).type = "event"
      /\ rows \in Seq(Rows) /\ Len(rows) = 1 /\ AllOf(s, rows)
  BY <1>1, MailIs DEF NextMail
<1>3. r \in Rows /\ r.session = s /\ Seqs(rows) = {r.seq}
  <2>5. rows \in Seq(Rows) /\ Len(rows) = 1
    BY <1>2
  <2> HIDE DEF rows
  <2>1. rows # <<>>
    BY <2>5, EmptySeq
  <2>4. 1 .. 1 = {1}
    OBVIOUS
  <2>2. r = rows[1] /\ r \in Rows
    BY <1>2, <2>1, HeadTailIs
  <2>3. r.session = s
    BY <1>2, <2>2, <2>4 DEF AllOf
  <2> QED BY <1>2, <2>2, <2>3, <2>4 DEF Seqs
<1>4. ~IsSnapshot(Head(mail), s) /\ EventOf(Head(mail), s) = {r.seq}
  BY <1>1, <1>2, <1>3 DEF IsSnapshot, EventOf
<1> HIDE DEF rows, r
<1>5. Held \in Transcripts
  BY HeldIsTranscript
<1>6. u \in Transcripts /\ Gained(s, Held, {r.seq}, u)
  BY <1>3, <1>5, FoldRowIs
<1> HIDE DEF u
<1> DEFINE ns == {r.seq}
<1>7. NoSnapshot(mail', s) => NoSnapshot(mail, s)
  BY <1>2, <1>4, LetterGone
<1>8. Seqs(unfolded) \cup EventSeqs(mail, 0, s) = ns \cup (Seqs(unfolded') \cup EventSeqs(mail', 0, s))
  <2>1. EventSeqs(mail, 0, s) = EventOf(Head(mail), s) \cup EventSeqs(mail', 0, s)
    BY <1>2, LetterTaken
  <2> QED BY <1>1, <1>4, <2>1
<1>9. Gained(s, Held, ns, u)
  BY <1>6
<1> HIDE DEF ns
<1> QED BY <1>1, <1>2, <1>6, <1>7, <1>8, <1>9, GainReaches

LEMMA SliceReaches ==
  ASSUME TalkTypes, FoldSlice, NEW id, NEW s, NEW cursor \in Nat, NEW sent \in Nat,
         Reaches(id, s, cursor, sent)
  PROVE  Reaches(id, s, cursor, sent)'
<1> DEFINE n == IF Len(unfolded) < SliceSize THEN Len(unfolded) ELSE SliceSize
           p == SubSeq(unfolded, 1, n)
           q == SubSeq(unfolded, n + 1, Len(unfolded))
           u == Folded(Held, p)
           ns == Seqs(p)
<1>1. Hold(u) /\ unfolded' = q /\ UNCHANGED <<log, talkFrames, asks, mail, loading, torn>>
  BY DEF FoldSlice
<1>2. unfolded \in Seq(Rows) /\ n \in 0 .. Len(unfolded)
  <2>1. Len(unfolded) \in Nat /\ SliceSize \in Nat
    BY LenProperties, TalkAssumption DEF TalkTypes
  <2> QED BY <2>1 DEF TalkTypes
<1> HIDE DEF n
<1>3. p \in Seq(Rows) /\ Seqs(unfolded) = ns \cup Seqs(q)
      /\ (AllOf(s, unfolded) => AllOf(s, p) /\ AllOf(s, q))
  BY <1>2, CutSeqs
<1>4. Held \in Transcripts
  BY HeldIsTranscript
<1> HIDE DEF p, q
<1>5. u \in Transcripts /\ (AllOf(s, p) => Gained(s, Held, ns, u))
  BY <1>3, <1>4, FoldGains
<1> HIDE DEF u, ns
<1>6. AllOf(s, unfolded) => AllOf(s, unfolded') /\ Gained(s, Held, ns, u)
  BY <1>1, <1>3, <1>5
<1>7. Seqs(unfolded) \cup EventSeqs(mail, 0, s) = ns \cup (Seqs(unfolded') \cup EventSeqs(mail', 0, s))
  BY <1>1, <1>3
<1>8. NoSnapshot(mail', s) => NoSnapshot(mail, s)
  BY <1>1
<1> QED BY <1>1, <1>5, <1>6, <1>7, <1>8, GainReaches

\* A page arrives: it is the awaited one, unless the transcript was replaced meanwhile.
LEMMA RepliedReaches ==
  ASSUME TalkTypes, OnePage, TakePageReply, NEW id, NEW s, s = open, NEW cursor \in Nat, NEW sent \in Nat,
         Reaches(id, s, cursor, sent)
  PROVE  Reaches(id, s, cursor, sent)'
<1> DEFINE rows == Head(mail).rows
           t == Folded(Held, rows)
           ns == Seqs(rows)
           rest == Seqs(unfolded) \cup EventSeqs(mail, 0, s)
           due == FrameSeqs(talkFrames, id)
           l == log[s]
<1>1. /\ NextMail("page") /\ Hold([t EXCEPT !.rows = Sorted(t.rows)])
      /\ loading' = "no" /\ torn' = (torn \/ loading = "stale") /\ unfolded' = unfolded
  BY DEF TakePageReply
<1>2. /\ mail # <<>> /\ mail' = Tail(mail) /\ UNCHANGED <<log, talkFrames>> /\ Head(mail).type = "page"
      /\ rows \in Seq(Rows) /\ AllOf(Head(mail).session, rows)
  BY <1>1, MailIs DEF NextMail
<1>3. Held \in Transcripts /\ Held.rows = items /\ Held.oldest = oldest
  BY HeldIsTranscript
<1> HIDE DEF rows
<1>4. t \in Transcripts /\ (AllOf(s, rows) => Gained(s, Held, ns, t))
  BY <1>2, <1>3, FoldGains
<1> HIDE DEF t
<1>5. items' = Sorted(t.rows) /\ oldest' = t.oldest
  <2>1. [t EXCEPT !.rows = Sorted(t.rows)].rows = Sorted(t.rows)
        /\ [t EXCEPT !.rows = Sorted(t.rows)].oldest = t.oldest
    BY <1>4 DEF Transcripts
  <2> QED BY <1>1, <2>1 DEF Hold
<1>6. Seqs(items') = Seqs(t.rows) /\ (AllOf(s, t.rows) => AllOf(s, items'))
  BY <1>4, <1>5, TranscriptIs, SortedSeqs
<1>7. Opening(id, sent)' /\ Sending(id, s, cursor, sent)'
  BY <1>2, ComingReaches
<1>8. 1 \in 1 .. Len(mail) /\ mail[1] = Head(mail) /\ loading # "no"
  <2>1. 1 \in 1 .. Len(mail) /\ mail[1] = Head(mail)
    BY <1>2, PagesRead DEF TalkTypes
  <2> QED BY <1>2, <2>1 DEF OnePage, Replying
<1>9. ~IsSnapshot(Head(mail), s) /\ EventOf(Head(mail), s) = {}
  BY <1>2 DEF IsSnapshot, EventOf
<1>10. NoSnapshot(mail', s) => NoSnapshot(mail, s)
  BY <1>2, <1>9, LetterGone
<1>11. EventSeqs(mail', 0, s) = EventSeqs(mail, 0, s)
  BY <1>2, <1>9, LetterGone
<1>12. Showing(id, s, cursor, sent)'
  <2>1. SUFFICES ASSUME ~SnapshotComes(talkFrames, id), NoSnapshot(mail', s), ~torn, loading # "stale"
                 PROVE  /\ AllOf(s, items') /\ AllOf(s, unfolded)
                        /\ Covers(l, sent, cursor, Seqs(items') \cup Seqs(unfolded) \cup EventSeqs(mail', 0, s),
                                  due, oldest')
    BY <1>1, <1>2 DEF Showing
  <2>2. loading = "asked"
    BY <1>8, <2>1 DEF TalkTypes
  <2>3. /\ AllOf(s, items) /\ AllOf(s, unfolded)
        /\ Covers(l, sent, cursor, Seqs(items) \cup Seqs(unfolded) \cup EventSeqs(mail, 0, s), due, oldest)
        /\ Awaits(s, cursor)
    BY <1>10, <2>1, <2>2 DEF Reaches, Showing
  <2>4. oldest # 0 /\ Head(mail).session = s /\ ns \subseteq 1 .. cursor /\ Continues(ns, l, oldest)
    BY <1>2, <1>8, <2>3 DEF Awaits, rows
  <2>5. Gained(s, Held, ns, t)
    BY <1>2, <1>4, <2>4
  <2> DEFINE had0 == Seqs(items)
             had1 == Seqs(items')
             old == oldest
             old2 == oldest'
  <2>6. /\ had0 \subseteq had1 /\ had1 \subseteq had0 \cup ns
        /\ \A n \in ns : l[n] = "message" => n \in had1
        /\ AllOf(s, items')
        /\ old2 \in {old} \cup ns /\ old2 # 0 /\ old2 <= old
    BY <1>3, <1>5, <1>6, <2>3, <2>4, <2>5 DEF Gained
  <2>7. old \in Nat \ {0} /\ old2 \in Nat \ {0}
    BY <1>4, <1>5, <2>4, <2>6, TranscriptIs DEF TalkTypes
  <2>8. Covers(l, sent, cursor, had0 \cup rest, due, old)
    <3>1. Seqs(items) \cup Seqs(unfolded) \cup EventSeqs(mail, 0, s) = had0 \cup rest
      OBVIOUS
    <3> QED BY <2>3, <3>1
  <2>9. Seqs(items') \cup Seqs(unfolded) \cup EventSeqs(mail', 0, s) = had1 \cup rest
    BY <1>11
  <2>10. due \in SUBSET Nat
    <3>1. \A i \in 1 .. Len(talkFrames) : OfStream(talkFrames[i], id) \subseteq Nat
      BY TableIs DEF OfStream
    <3> QED BY <3>1 DEF FrameSeqs
  <2> HIDE DEF ns, rest, due, l, had0, had1, old, old2
  <2>11. Covers(l, sent, cursor, had1 \cup rest, due, old2)
    <3> DEFINE had == had0 \cup rest
               had2 == had1 \cup rest
    <3>1. had \subseteq had2 /\ had2 \subseteq had \cup ns /\ \A n \in ns : l[n] = "message" => n \in had2
      BY <2>6
    <3>2. Covers(l, sent, cursor, had, due, old) /\ Continues(ns, l, old) /\ ns \subseteq 1 .. cursor
      BY <2>4, <2>8 DEF old
    <3> HIDE DEF had, had2
    <3>3. Covers(l, sent, cursor, had2, due, old2)
      BY <2>6, <2>7, <2>10, <3>1, <3>2, CoversPage
    <3> QED BY <3>3 DEF had2
  <2> QED BY <2>3, <2>6, <2>9, <2>11 DEF old2
<1> QED BY <1>7, <1>12 DEF Reaches

-----------------------------------------------------------------------------
\* The steps.

\* When no stream is to be opened or let go after a step, none was before, but for the
\* subscribe of the open session.
LEMMA QuietIs ==
  ASSUME TalkTypes, AskedLast, Quiet'
  PROVE  /\ asks' = asks => Quiet
         /\ TakePage \/ LoadOlder => Quiet
         /\ TakeSubscribe => Head(asks).session = open
         /\ ~TakeUnsubscribe
         /\ ~((\E s \in TalkSessions : OpenSession(s)) \/ RefreshSession \/ ClientReconnects)
<1>1. asks \in Seq(Requests) /\ Len(asks) \in Nat /\ (open # "none" => open \in TalkSessions)
  BY LenProperties DEF TalkTypes
<1>2. \A i \in 1 .. Len(asks') : asks'[i].type = "page"
  BY DEF Quiet, Paging
<1>3. asks' = asks => Quiet
  BY <1>2 DEF Quiet, Paging
<1>4. ASSUME NEW type, NextAsk(type)
      PROVE  /\ \A i \in 1 .. Len(asks) : i = 1 \/ asks[i].type = "page"
             /\ 1 \in 1 .. Len(asks) /\ asks[1] = Head(asks) /\ Head(asks).type = type
  <2>1. asks # <<>> /\ asks' = Tail(asks) /\ Head(asks).type = type
    BY <1>4 DEF NextAsk
  <2>2. /\ Head(asks) = asks[1]
        /\ \A i \in 1 .. Len(asks) : i = 1 \/ (i - 1 \in 1 .. Len(asks') /\ asks'[i - 1] = asks[i])
    BY <1>1, <2>1, HeadTailIs
  <2>3. 1 \in 1 .. Len(asks)
    BY <1>1, <2>1, PagesRead
  <2>4. ASSUME NEW i \in 1 .. Len(asks), i # 1 PROVE asks[i].type = "page"
    <3>1. i - 1 \in 1 .. Len(asks') /\ asks'[i - 1] = asks[i]
      BY <2>2, <2>4
    <3> QED BY <1>2, <3>1
  <2> QED BY <2>1, <2>2, <2>3, <2>4
<1>5. ASSUME TakePage PROVE Quiet
  BY <1>4, <1>5 DEF TakePage, Quiet, Paging
<1>6. ASSUME LoadOlder PROVE Quiet
  <2> DEFINE a == [type |-> "page", session |-> open, before |-> oldest]
             n == Len(asks)
  <2>1. asks' = Append(asks, a)
    BY <1>6 DEF LoadOlder
  <2>2. a \in Requests
    BY <1>6, RequestIs DEF LoadOlder, TalkTypes
  <2> HIDE DEF a
  <2>3. Len(asks') = n + 1 /\ \A i \in 1 .. n : i \in 1 .. n + 1 /\ asks'[i] = asks[i]
    BY <1>1, <2>1, <2>2, AppendIs
  <2> QED BY <1>2, <2>3 DEF Quiet, Paging
<1>7. ASSUME NEW type \in {"subscribe", "unsubscribe"}, NextAsk(type)
      PROVE  open \in TalkSessions /\ Head(asks) = Ask("subscribe", open)
  <2>1. /\ \A i \in 1 .. Len(asks) : i = 1 \/ asks[i].type = "page"
        /\ 1 \in 1 .. Len(asks) /\ asks[1] = Head(asks) /\ asks[1].type = type
    BY <1>4, <1>7
  <2>2. PICK j \in 1 .. Len(asks) : 1 <= j /\ asks[j] = Ask("subscribe", open)
    BY <2>1 DEF AskedLast
  <2>3. Ask("subscribe", open).type # "page" /\ Ask("subscribe", open).session = open
    BY DEF Ask
  <2>4. Head(asks) = Ask("subscribe", open)
    BY <2>1, <2>2, <2>3
  <2>5. Head(asks).session \in TalkSessions
    BY <1>7, AskIs
  <2> QED BY <2>3, <2>4, <2>5
<1>8. ASSUME TakeSubscribe PROVE Head(asks).session = open
  <2>1. Head(asks) = Ask("subscribe", open)
    BY <1>7, <1>8 DEF TakeSubscribe
  <2> QED BY <2>1 DEF Ask
<1>9. ASSUME TakeUnsubscribe PROVE FALSE
  <2>1. Head(asks) = Ask("subscribe", open) /\ NextAsk("unsubscribe")
    BY <1>7, <1>9 DEF TakeUnsubscribe
  <2> QED BY <2>1 DEF Ask, NextAsk
<1>10. ASSUME (\E s \in TalkSessions : OpenSession(s)) \/ RefreshSession \/ ClientReconnects PROVE FALSE
  <2>1. Len(asks') \in Nat \ {0} /\ asks'[Len(asks')] = Ask("subscribe", open')
    BY <1>10, AsksAgain
  <2>2. Ask("subscribe", open').type = "subscribe"
    BY DEF Ask
  <2> DEFINE n == Len(asks')
  <2> HIDE DEF n
  <2>3. n \in 1 .. n
    BY <2>1 DEF n
  <2>4. asks'[n].type = "page"
    BY <1>2, <2>3 DEF n
  <2> QED BY <2>1, <2>2, <2>4 DEF n
<1> QED BY <1>3, <1>5, <1>6, <1>8, <1>9, <1>10

LEMMA StreamReaches ==
  ASSUME TalkTypes, Streams, Following, Quiet,
         NEW f \in table, NEW x \in sources, f.session = open, x.id = f.id
  PROVE  /\ Reaches(f.id, f.session, f.cursor, x.sent)
         /\ x.session = f.session /\ f.cursor <= x.sent /\ x.sent <= Len(log[f.session])
         /\ f.session \in TalkSessions /\ f.cursor \in Nat /\ x.sent \in Nat
<1>1. PICK y \in sources : y.id = f.id /\ y.session = f.session /\ f.cursor <= y.sent
  BY DEF Streams
<1>2. y = x
  BY <1>1 DEF Streams
<1>3. x.sent <= Len(log[x.session])
  BY DEF Streams
<1>4. Reaches(f.id, f.session, f.cursor, x.sent)
  BY DEF Following
<1> QED BY <1>1, <1>2, <1>3, <1>4, TableIs

\* The streams and the session shown stay what they were.
LEMMA FollowingOn ==
  ASSUME TalkTypes, Streams, Following, Quiet' => Quiet, UNCHANGED <<table, sources, open>>,
         \A f \in table, x \in sources :
           /\ f.session = open /\ x.id = f.id /\ Reaches(f.id, f.session, f.cursor, x.sent)
           /\ f.session \in TalkSessions /\ f.cursor \in Nat /\ x.sent \in Nat
           /\ f.cursor <= x.sent /\ x.sent <= Len(log[f.session])
           => Reaches(f.id, f.session, f.cursor, x.sent)'
  PROVE  Following'
<1> SUFFICES ASSUME Quiet', NEW f \in table, NEW x \in sources, f.session = open, x.id = f.id
             PROVE  Reaches(f.id, f.session, f.cursor, x.sent)'
  BY DEF Following
<1>1. Reaches(f.id, f.session, f.cursor, x.sent) /\ f.session \in TalkSessions
      /\ f.cursor \in Nat /\ x.sent \in Nat /\ f.cursor <= x.sent /\ x.sent <= Len(log[f.session])
  BY StreamReaches
<1> QED BY <1>1

LEMMA DshFollows ==
  ASSUME TalkTypes, Streams, AskedLast, Following,
         \/ \E s \in TalkSessions, kind \in Kinds : AddRecord(s, kind)
         \/ \E x \in sources : SendEvent(x)
  PROVE  Following'
<1>1. ASSUME NEW r \in TalkSessions, NEW kind \in Kinds, AddRecord(r, kind)
      PROVE  Following'
  <2>1. UNCHANGED <<table, sources, open>> /\ asks' = asks
    BY <1>1 DEF AddRecord, sender, screen
  <2>2. Quiet' => Quiet
    BY <2>1, QuietIs
  <2>3. ASSUME NEW f \in table, NEW x \in sources, Reaches(f.id, f.session, f.cursor, x.sent),
               f.session \in TalkSessions, f.cursor \in Nat, x.sent \in Nat,
               f.cursor <= x.sent, x.sent <= Len(log[f.session])
        PROVE  Reaches(f.id, f.session, f.cursor, x.sent)'
    BY <1>1, <2>3, RecordReaches
  <2> QED BY <2>1, <2>2, <2>3, FollowingOn
<1>2. ASSUME NEW y \in sources, SendEvent(y)
      PROVE  Following'
  <2> DEFINE h == [type |-> "event", id |-> y.id, seq |-> y.sent + 1]
             z == [y EXCEPT !.sent = @ + 1]
  <2>1. sources' = (sources \ {y}) \cup {z} /\ talkFrames' = Append(talkFrames, h)
        /\ UNCHANGED <<log, asks, mail, screen>> /\ UNCHANGED <<table, open>>
    BY <1>2 DEF SendEvent, sender, screen
  <2>2. y.id \in Nat /\ y.sent \in Nat /\ z.id = y.id /\ z.session = y.session /\ z.sent = y.sent + 1
    BY TableIs, SourceIs
  <2>3. h \in Heard /\ h.type = "event" /\ h.id = y.id /\ h.seq = y.sent + 1
    BY <2>2, HeardIs
  <2>4. Quiet' => Quiet
    BY <2>1, QuietIs
  <2> HIDE DEF h, z
  <2> SUFFICES ASSUME Quiet', NEW f \in table, NEW w \in sources', f.session = open, w.id = f.id
               PROVE  Reaches(f.id, f.session, f.cursor, w.sent)'
    BY <2>1 DEF Following
  <2>5. CASE w = z
    <3>1. y.id = f.id /\ w.sent = y.sent + 1 /\ w.sent \in Nat
      BY <2>2, <2>5
    <3>2. Reaches(f.id, f.session, f.cursor, y.sent) /\ f.session \in TalkSessions
          /\ f.cursor \in Nat /\ f.cursor <= y.sent
      BY <2>4, <3>1, StreamReaches
    <3>3. h.id = f.id /\ h.seq = y.sent + 1
      BY <2>3, <3>1
    <3> QED BY <2>1, <2>2, <2>3, <3>1, <3>2, <3>3, EventReaches
  <2>6. CASE w \in sources /\ w # y
    <3>1. h.id # f.id
      BY <2>3, <2>6 DEF Streams
    <3>2. Reaches(f.id, f.session, f.cursor, w.sent) /\ f.session \in TalkSessions
          /\ f.cursor \in Nat /\ w.sent \in Nat /\ f.cursor <= w.sent
      BY <2>4, <2>6, StreamReaches
    <3> QED BY <2>1, <2>3, <3>1, <3>2, EventReaches
  <2> QED BY <2>1, <2>5, <2>6
<1> QED BY <1>1, <1>2

LEMMA StreamFollows ==
  ASSUME TalkTypes, Streams, Delivery, AskedLast, TakeSubscribe
  PROVE  Following'
<1> DEFINE s == Head(asks).session
           h == [type |-> "snapshot", id |-> nextId, seq |-> Len(log[s])]
           g == [id |-> nextId, session |-> s, cursor |-> 0]
           y == [id |-> nextId, session |-> s, sent |-> Len(log[s])]
<1>1. table' = {f \in table : f.session # s} \cup {g} /\ talkFrames' = Append(talkFrames, h)
      /\ sources' = {x \in sources : x.session # s} \cup {y} /\ open' = open /\ NextAsk("subscribe")
  BY DEF TakeSubscribe, NextAsk, screen
<1>2. nextId \in Nat /\ s \in TalkSessions /\ Len(log[s]) \in Nat
  BY <1>1, AskIs, LogIs DEF TalkTypes
<1>3. h \in Heard /\ h.type = "snapshot" /\ h.id = nextId /\ h.seq = Len(log[s])
  BY <1>2, HeardIs
<1>4. g.id = nextId /\ g.session = s /\ y.id = nextId /\ y.sent = Len(log[s])
  OBVIOUS
<1>5. Quiet' => s = open
  BY QuietIs
<1> HIDE DEF h, g, y, s
<1> SUFFICES ASSUME Quiet', NEW f \in table', NEW x \in sources', f.session = open', x.id = f.id
             PROVE  Reaches(f.id, f.session, f.cursor, x.sent)'
  BY DEF Following
<1>6. f = g
  BY <1>1, <1>5
<1>7. x = y
  <2>1. x \in sources => x.id < nextId /\ x.id \in Nat
    BY TableIs DEF Streams
  <2>2. x.id = nextId
    BY <1>4, <1>6
  <2> QED BY <1>1, <1>2, <2>1, <2>2
<1>8. f.id = nextId /\ x.sent = h.seq
  BY <1>3, <1>4, <1>6, <1>7
<1> QED BY <1>1, <1>3, <1>8, OpenedReaches

LEMMA ForwardFollows ==
  ASSUME TalkTypes, Streams, Delivery, AskedLast, Following, NEW g \in table, Forward(g)
  PROVE  Following'
<1> DEFINE first == Head(talkFrames).seq
           z == [g EXCEPT !.cursor = first]
<1>1. table' = (table \ {g}) \cup {z} /\ NextTalkFrame /\ UNCHANGED <<sources, open>> /\ asks' = asks
      /\ g.id = Head(talkFrames).id
  BY DEF Forward, NextTalkFrame, screen
<1>2. talkFrames # <<>> /\ first \in Nat /\ Head(talkFrames).type \in {"snapshot", "event"}
      /\ talkFrames \in Seq(Heard)
  BY <1>1, FrameIs DEF TalkTypes
<1>3. z.id = g.id /\ z.session = g.session /\ z.cursor = first
  BY <1>2, TableIs, FollowedIs
<1>4. Quiet' => Quiet
  BY <1>1, QuietIs
<1> HIDE DEF z
<1> SUFFICES ASSUME Quiet', NEW f \in table', NEW x \in sources, f.session = open, x.id = f.id
             PROVE  Reaches(f.id, f.session, f.cursor, x.sent)'
  BY <1>1 DEF Following
<1>5. CASE f \in table /\ f # g
  <2>1. Reaches(f.id, f.session, f.cursor, x.sent)
    BY <1>4, <1>5, StreamReaches
  <2> QED BY <1>5, <2>1, OtherForward
<1>6. CASE f = z
  <2>1. f.id = g.id /\ f.session = g.session /\ f.cursor = first
    BY <1>3, <1>6
  <2>2. Reaches(g.id, g.session, g.cursor, x.sent) /\ g.cursor \in Nat /\ x.sent \in Nat
    BY <1>4, <2>1, StreamReaches
  <2>3. first <= x.sent
    <3>1. 1 \in 1 .. Len(talkFrames) /\ Head(talkFrames) = talkFrames[1]
      BY <1>2, PagesRead
    <3> QED BY <1>1, <2>1, <3>1 DEF Delivery
  <2>4. CASE Head(talkFrames).type = "snapshot"
    <3>1. Opening(f.id, x.sent)
      BY <2>1, <2>2 DEF Reaches
    <3> QED BY <2>1, <2>2, <2>3, <2>4, <3>1, SnapshotForward
  <2>5. CASE Head(talkFrames).type = "event"
    <3>1. Reaches(f.id, f.session, g.cursor, x.sent)
      BY <2>1, <2>2
    <3> QED BY <2>1, <2>2, <2>3, <2>5, <3>1, EventForward
  <2> QED BY <1>2, <2>4, <2>5
<1> QED BY <1>1, <1>5, <1>6

LEMMA ReadFollows ==
  ASSUME TalkTypes, Streams, Delivery, AskedLast, OnePage, Following, TakePage \/ DropTalkFrame
  PROVE  Following'
<1>1. UNCHANGED <<table, sources, open>>
  BY DEF TakePage, NextAsk, DropTalkFrame, NextTalkFrame, sender, screen
<1>2. Quiet' => Quiet
  <2>1. DropTalkFrame => asks' = asks
    BY DEF DropTalkFrame, NextTalkFrame
  <2> QED BY <2>1, QuietIs
<1>3. ASSUME NEW f \in table, NEW x \in sources, Reaches(f.id, f.session, f.cursor, x.sent)
      PROVE  Reaches(f.id, f.session, f.cursor, x.sent)'
  BY <1>3, PageReaches, DropReaches
<1> QED BY <1>1, <1>2, <1>3, FollowingOn

LEMMA ClientFollows ==
  ASSUME TalkTypes, Streams, AskedLast, OnePage, Following,
         \/ LoadOlder \/ DropMail \/ TakeRefusal \/ TakeSnapshot \/ TakeEvent \/ TakePageReply \/ FoldSlice
  PROVE  Following'
<1>1. UNCHANGED <<table, sources, open>>
  BY DEF LoadOlder, DropMail, TakeRefusal, TakeSnapshot, TakeEvent, TakePageReply, FoldSlice, NextMail, sender
<1>2. Quiet' => Quiet
  <2>1. LoadOlder \/ asks' = asks
    BY DEF DropMail, TakeRefusal, TakeSnapshot, TakeEvent, TakePageReply, FoldSlice, NextMail
  <2> QED BY <2>1, QuietIs
<1>3. ASSUME NEW f \in table, NEW x \in sources, f.session = open,
             Reaches(f.id, f.session, f.cursor, x.sent), f.cursor \in Nat, x.sent \in Nat
      PROVE  Reaches(f.id, f.session, f.cursor, x.sent)'
  <2>1. CASE LoadOlder
    BY <1>3, <2>1, LoadReaches
  <2>2. CASE DropMail \/ TakeRefusal
    BY <1>3, <2>2, PassedReaches
  <2>3. CASE TakeSnapshot
    BY <1>3, <2>3, SnapshotReaches
  <2>4. CASE TakeEvent
    BY <1>3, <2>4, TakenReaches
  <2>5. CASE TakePageReply
    BY <1>3, <2>5, RepliedReaches
  <2>6. CASE FoldSlice
    BY <1>3, <2>6, SliceReaches
  <2> QED BY <2>1, <2>2, <2>3, <2>4, <2>5, <2>6
<1> QED BY <1>1, <1>2, <1>3, FollowingOn

LEMMA FollowingKept ==
  ASSUME TalkInv, [TalkNext]_talkVars
  PROVE  Following'
<1> USE DEF TalkInv
<1>1. CASE \/ \E s \in TalkSessions, kind \in Kinds : AddRecord(s, kind)
           \/ \E x \in sources : SendEvent(x)
  BY <1>1, DshFollows
<1>2. CASE TakeSubscribe
  BY <1>2, StreamFollows
<1>3. CASE TakePage \/ DropTalkFrame
  BY <1>3, ReadFollows
<1>4. CASE \E f \in table : Forward(f)
  BY <1>4, ForwardFollows
<1>5. CASE \/ LoadOlder \/ DropMail \/ TakeRefusal \/ TakeSnapshot \/ TakeEvent \/ TakePageReply
           \/ FoldSlice
  BY <1>5, ClientFollows
<1>6. CASE \/ TakeUnsubscribe \/ (\E s \in TalkSessions : OpenSession(s)) \/ RefreshSession
           \/ ClientReconnects
  <2>1. ~Quiet'
    BY <1>6, QuietIs
  <2> QED BY <2>1 DEF Following
<1>7. CASE LoseMux
  BY <1>7 DEF LoseMux, Following
<1>8. CASE UNCHANGED talkVars
  <2>1. UNCHANGED <<table, sources, open, asks, log, items, unfolded, oldest, torn, loading, talkFrames, mail>>
    BY <1>8 DEF talkVars, sender, screen
  <2>2. Quiet' <=> Quiet
    BY <2>1 DEF Quiet, Paging
  <2>3. ASSUME NEW f \in table, NEW x \in sources, Reaches(f.id, f.session, f.cursor, x.sent)
        PROVE  Reaches(f.id, f.session, f.cursor, x.sent)'
    BY <2>1, <2>3 DEF Reaches, Opening, Sending, Showing, Awaits, Paging
  <2> QED BY <2>1, <2>2, <2>3, FollowingOn
<1> QED BY <1>1, <1>2, <1>3, <1>4, <1>5, <1>6, <1>7, <1>8 DEF TalkNext

LEMMA NothingIs ==
  ASSUME NEW q, q = <<>>
  PROVE  /\ Len(q) = 0 /\ 1 .. Len(q) = {} /\ Seqs(q) = {}
         /\ \A id : FrameSeqs(q, id) = {} /\ ~SnapshotComes(q, id)
         /\ \A s : NoSnapshot(q, s) /\ EventSeqs(q, 0, s) = {} /\ AllOf(s, q)
<1>1. Len(q) = 0
  BY EmptySeq
<1>2. 1 .. Len(q) = {}
  BY <1>1
<1> QED BY <1>1, <1>2 DEF Seqs, FrameSeqs, SnapshotComes, NoSnapshot, EventSeqs, AllOf

LEMMA TalkInitially == TalkInit => TalkInv
<1> SUFFICES ASSUME TalkInit PROVE TalkInv
  OBVIOUS
<1>1. TalkTypes
  <2>1. <<>> \in Seq(Kinds) /\ <<>> \in Seq(Heard) /\ <<>> \in Seq(Requests) /\ <<>> \in Seq(Letters)
        /\ <<>> \in Seq(Rows)
    BY EmptySeq
  <2>2. log \in [TalkSessions -> Seq(Kinds)]
    BY <2>1 DEF TalkInit
  <2> QED BY <2>1, <2>2 DEF TalkInit, TalkTypes
<1>2. sources = {} /\ table = {}
  BY DEF TalkInit
<1>3. 1 .. Len(talkFrames) = {} /\ 1 .. Len(asks) = {} /\ 1 .. Len(mail) = {}
  BY NothingIs DEF TalkInit
<1> QED BY <1>1, <1>2, <1>3 DEF TalkInv, Streams, Delivery, AskedLast, OnePage, Following

LEMMA TalkStep ==
  ASSUME TalkInv, [TalkNext]_talkVars
  PROVE  TalkInv'
<1>1. TalkTypes /\ Streams /\ Delivery /\ AskedLast /\ OnePage
  BY DEF TalkInv
<1>2. TalkTypes'
  <2>1. CASE UNCHANGED talkVars
    BY <1>1, <2>1 DEF TalkTypes, talkVars, sender, screen
  <2> QED BY <1>1, <2>1, DshTypes, SenderTypes, UserTypes, ClientTypes DEF TalkNext
<1>3. Streams' /\ Delivery' /\ AskedLast' /\ OnePage'
  BY <1>1, StreamsKept, AsksKept, PagesKept
<1>4. Following'
  BY FollowingKept
<1> QED BY <1>2, <1>3, <1>4 DEF TalkInv

\* What holds of a conversation between any two steps, for any sessions, records, tails,
\* slices and pages: a followed session is one stream of dsh's and its frames come in
\* order (start_follow, forward_follow_value), the open session is asked for last
\* (openSession), one page is on its way at most (loadOlder), and unless a stream is yet
\* to be opened what is on its way together with the transcript shows the open session.
THEOREM ConversationInvariant == TalkSpec => []TalkInv
BY TalkInitially, TalkStep, PTL DEF TalkSpec

LEMMA ShownThen == TalkInv => EveryMessageShown
<1> SUFFICES ASSUME TalkInv, Settled, ~torn, NEW n \in DOMAIN log[open], log[open][n] = "message",
                    n >= TailFrom(Len(log[open])) \/ (oldest # 0 /\ n >= oldest)
             PROVE  \E i \in DOMAIN items : items[i] = [session |-> open, seq |-> n]
  BY DEF EveryMessageShown
<1>1. TalkTypes /\ Streams /\ Following
  BY DEF TalkInv
<1>2. PICK x \in sources : x.session = open /\ x.sent = Len(log[open])
  BY DEF Settled
<1>3. PICK f \in table : f.id = x.id /\ f.session = open
  BY <1>1, <1>2 DEF Streams
<1>4. Quiet
  BY NothingIs DEF Settled, Quiet
<1> DEFINE s == f.session
           sent == x.sent
<1>5. s = open /\ s \in TalkSessions /\ sent \in Nat /\ Reaches(f.id, s, f.cursor, sent)
  BY <1>1, <1>3, <1>4, StreamReaches
<1>6. n \in 1 .. sent
  <2>1. log[s] \in Seq(Kinds)
    BY <1>1, <1>5, LogIs
  <2>2. DOMAIN log[s] = 1 .. Len(log[s])
    BY <2>1, LenProperties
  <2> QED BY <1>2, <1>5, <2>2
<1> HIDE DEF s, sent
<1>7. AllOf(s, items) /\ Covers(log[s], sent, f.cursor, Seqs(items), {}, oldest)
  <2>1. /\ ~SnapshotComes(talkFrames, f.id) /\ FrameSeqs(talkFrames, f.id) = {}
        /\ NoSnapshot(mail, s) /\ EventSeqs(mail, 0, s) = {} /\ Seqs(unfolded) = {}
    BY NothingIs DEF Settled
  <2>2. Showing(f.id, s, f.cursor, sent)
    BY <1>5 DEF Reaches
  <2>3. /\ AllOf(s, items)
        /\ Covers(log[s], sent, f.cursor, Seqs(items) \cup Seqs(unfolded) \cup EventSeqs(mail, 0, s),
                  FrameSeqs(talkFrames, f.id), oldest)
    BY <2>1, <2>2 DEF Showing
  <2>4. Seqs(items) \cup Seqs(unfolded) \cup EventSeqs(mail, 0, s) = Seqs(items)
    BY <2>1
  <2> QED BY <2>1, <2>3, <2>4
<1>8. PICK b \in Nat : /\ b <= TailFrom(sent) /\ (oldest # 0 => b <= oldest)
                       /\ \A m \in b .. sent : m # 0 /\ log[s][m] = "message" => m \in Seqs(items) \cup {}
  BY <1>7 DEF Covers
<1>9. n \in Seqs(items)
  <2>1. b <= n
    <3>1. TailFrom(sent) \in Nat /\ oldest \in Nat /\ n \in Nat
      BY <1>1, <1>5, <1>6, TailFromIs DEF TalkTypes
    <3>2. TailFrom(sent) = TailFrom(Len(log[open]))
      BY <1>2 DEF sent
    <3> QED BY <1>8, <3>1, <3>2
  <2>2. n \in b .. sent /\ n # 0 /\ log[s][n] = "message"
    BY <1>5, <1>6, <2>1
  <2> QED BY <1>8, <2>2
<1>10. PICK i \in 1 .. Len(items) : items[i].seq = n
  BY <1>9 DEF Seqs
<1>11. items \in Seq(Rows)
  BY <1>1 DEF TalkTypes
<1>12. i \in DOMAIN items /\ items[i] \in Rows
  BY <1>10, <1>11, LenProperties, ElementOfSeq
<1>13. items[i].session = open
  BY <1>5, <1>7, <1>10 DEF AllOf
<1> QED BY <1>10, <1>12, <1>13, RowIs

\* Whatever was opened, refreshed, paged, lost or asked for again, and whichever records
\* dsh added meanwhile: when all is delivered and folded, the transcript shows every
\* message of the open session from its oldest record on and at least those a snapshot
\* carries, unless a page crossed a replacement of the transcript
\* (forward_follow_value, _applySnapshot, _applyEvents, prependHistory).
THEOREM MessagesAreShown == TalkSpec => []EveryMessageShown
BY ConversationInvariant, ShownThen, PTL
===============================================================================
