----------------------------- MODULE Conversation -----------------------------
(***************************************************************************)
(* A conversation on a client: the follow stream of dsh, what the sender   *)
(* forwards of it (agent/main.c start_follow, forward_follow_value,        *)
(* session/page), and the transcript the client folds from it              *)
(* (relay/session_store.dart, state/relay_session.dart).  Three queues lie *)
(* between them: requests to the sender, frames of dsh on the mux, and     *)
(* messages through the relay to the client.  Each of them keeps its order *)
(* (RelayServer, MuxReader); a connection that breaks empties its own.     *)
(*                                                                         *)
(* A record of a session is its number and a kind: a message is a row of   *)
(* the transcript, a chunk a piece of a reply being written, kept here as  *)
(* a row of its own, and the rest are kinds the client ignores.            *)
(***************************************************************************)
EXTENDS Integers, Sequences, SequencesExt, Sublists

CONSTANTS TalkSessions,  \* sessions
          MaxTail,       \* SNAPSHOT_MAX_RECORDS
          SliceSize,     \* records folded between two frames of the screen
          PageSize,      \* olderPageSize
          MaxRecords,    \* bound: records of all sessions
          MaxSteps       \* bound: what the user and the links do

ASSUME TalkAssumption ==
  /\ {MaxTail, SliceSize, PageSize} \subseteq Nat \ {0}
  /\ MaxRecords \in Nat /\ MaxSteps \in Nat

VARIABLES
  log,        \* dsh's records of a session, as their kinds
  sources,    \* follow streams dsh has open: id, session, last record sent
  talkFrames, \* frames of dsh the sender has not read
  table,      \* the sender's follow table: id, session, cursor
  nextId,     \* next_stream_num
  asks,       \* requests on their way to the sender
  mail,       \* messages on their way to the client
  open,       \* openSessionId, or "none"
  items,      \* the rows of the transcript
  unfolded,   \* _pendingRecords
  chunks,     \* _foldedChunks
  oldest,     \* oldestSeq
  loading,    \* _loadingOlder; "stale" when the transcript was replaced meanwhile
  torn,       \* history: did a page cross a replacement of this transcript
  steps

sender == <<table, nextId>>
screen == <<open, items, unfolded, chunks, oldest, loading, torn>>
talkVars == <<log, sources, talkFrames, sender, asks, mail, screen, steps>>

Kinds == {"message", "chunk", "ignored"}
RecordCount == FoldFunction(LAMBDA l, n : Len(l) + n, 0, log)
Row == [session : TalkSessions, seq : 1 .. MaxRecords]

TalkTypeOK ==
  /\ \A s \in TalkSessions : log[s] \in Seq(Kinds)
  /\ \A x \in sources : x.session \in TalkSessions /\ x.sent \in 0 .. Len(log[x.session])
  /\ \A f \in table : f.session \in TalkSessions /\ f.cursor \in 0 .. Len(log[f.session])
  /\ open \in TalkSessions \cup {"none"}
  /\ items \in Seq(Row) /\ unfolded \in Seq(Row)
  /\ chunks \subseteq 1 .. MaxRecords /\ oldest \in 0 .. MaxRecords
  /\ loading \in {"no", "asked", "stale"} /\ torn \in BOOLEAN
  /\ nextId \in 1 .. 2 * MaxSteps + 1 /\ steps \in 0 .. MaxSteps

TalkInit ==
  /\ log = [s \in TalkSessions |-> <<>>] /\ sources = {} /\ talkFrames = <<>>
  /\ table = {} /\ nextId = 1 /\ asks = <<>> /\ mail = <<>>
  /\ open = "none" /\ items = <<>> /\ unfolded = <<>> /\ chunks = {} /\ oldest = 0
  /\ loading = "no" /\ torn = FALSE /\ steps = 0

-----------------------------------------------------------------------------
\* dsh.

AddRecord(s, kind) ==
  /\ RecordCount < MaxRecords
  /\ log' = [log EXCEPT ![s] = Append(@, kind)]
  /\ UNCHANGED <<sources, talkFrames, sender, asks, mail, screen, steps>>

SendEvent(x) ==
  /\ x.sent < Len(log[x.session])
  /\ sources' = (sources \ {x}) \cup {[x EXCEPT !.sent = @ + 1]}
  /\ talkFrames' = Append(talkFrames, [type |-> "event", id |-> x.id, seq |-> x.sent + 1])
  /\ UNCHANGED <<log, sender, asks, mail, screen, steps>>

\* The records of s from one number to another, as rows; the client's kinds only.
Wanted(s, from, to) ==
  Kept([i \in 1 .. to - from + 1 |-> [session |-> s, seq |-> from + i - 1]],
       {[session |-> s, seq |-> n] : n \in {m \in from .. to : log[s][m] # "ignored"}})

Later(m, n) == IF m < n THEN n ELSE m
TailFrom(n) == Later(1, n - MaxTail + 1)

-----------------------------------------------------------------------------
\* The sender.

NextAsk(type) ==
  /\ asks # <<>> /\ Head(asks).type = type /\ asks' = Tail(asks)
  /\ UNCHANGED <<log, screen, steps>>

\* Mutant: a session that is followed already keeps its stream.
ReuseStream ==
  /\ NextAsk("subscribe")
  /\ LET s == Head(asks).session
     IN  IF \E f \in table : f.session = s
         THEN UNCHANGED <<table, sources, talkFrames, nextId>>
         ELSE /\ table' = table \cup {[id |-> nextId, session |-> s, cursor |-> 0]}
              /\ sources' = sources \cup {[id |-> nextId, session |-> s, sent |-> Len(log[s])]}
              /\ talkFrames' = Append(talkFrames, [type |-> "snapshot", id |-> nextId, seq |-> Len(log[s])])
              /\ nextId' = nextId + 1
  /\ UNCHANGED mail

\* session/subscribe: the stream is opened, or opened again, and begins with a
\* snapshot of the log.
TakeSubscribe ==
  /\ NextAsk("subscribe")
  /\ LET s == Head(asks).session
     IN  /\ table' = {f \in table : f.session # s}
                       \cup {[id |-> nextId, session |-> s, cursor |-> 0]}
         /\ sources' = {x \in sources : x.session # s}
                         \cup {[id |-> nextId, session |-> s, sent |-> Len(log[s])]}
         /\ talkFrames' = Append(talkFrames,
                            [type |-> "snapshot", id |-> nextId, seq |-> Len(log[s])])
  /\ nextId' = nextId + 1
  /\ UNCHANGED mail

TakeUnsubscribe ==
  /\ NextAsk("unsubscribe")
  /\ table' = {f \in table : f.session # Head(asks).session}
  /\ sources' = {x \in sources : x.session # Head(asks).session}
  /\ UNCHANGED <<talkFrames, nextId, mail>>

\* session/page: what precedes the given record, through the cursor; refused for a
\* session that is not followed.
TakePage ==
  /\ NextAsk("page")
  /\ LET s == Head(asks).session
         last(cursor) == IF Head(asks).before <= cursor THEN Head(asks).before - 1 ELSE cursor
     IN  \/ \E f \in table : f.session = s /\
              mail' = Append(mail, [type |-> "page", session |-> s,
                        rows |-> Wanted(s, Later(1, last(f.cursor) - PageSize + 1), last(f.cursor))])
         \/ /\ \A f \in table : f.session # s
            /\ mail' = Append(mail, [type |-> "refused"])
  /\ UNCHANGED <<sources, talkFrames, sender>>

NextTalkFrame ==
  /\ talkFrames # <<>> /\ talkFrames' = Tail(talkFrames)
  /\ UNCHANGED <<log, sources, nextId, asks, screen, steps>>

\* Of a stream that was replaced or cancelled, or already delivered.
DropTalkFrame ==
  /\ NextTalkFrame
  /\ \A f \in table : f.id = Head(talkFrames).id =>
       Head(talkFrames).type = "event" /\ Head(talkFrames).seq <= f.cursor
  /\ UNCHANGED <<table, mail>>

\* forward_follow_value: the tail of a snapshot, or the next event whatever its kind.
Forward(f) ==
  LET frame == Head(talkFrames)
  IN  /\ NextTalkFrame /\ f.id = frame.id
      /\ frame.type = "event" => frame.seq > f.cursor
      /\ table' = (table \ {f}) \cup {[f EXCEPT !.cursor = frame.seq]}
      /\ mail' = Append(mail, [type |-> frame.type, session |-> f.session,
           rows |-> IF frame.type = "snapshot"
                    THEN Wanted(f.session, TailFrom(frame.seq), frame.seq)
                    ELSE <<[session |-> f.session, seq |-> frame.seq]>>])

-----------------------------------------------------------------------------
\* The client.

Step == steps < MaxSteps /\ steps' = steps + 1

\* _resetTranscript.
EmptyTranscript ==
  /\ items' = <<>> /\ chunks' = {} /\ oldest' = 0 /\ torn' = FALSE
  /\ loading' = IF loading = "no" THEN "no" ELSE "stale"
  /\ UNCHANGED unfolded

Ask(type, s) == [type |-> type, session |-> s]

\* openSession: the stream of the session before is let go.  What is left of a
\* snapshot stays in _pendingRecords.
OpenSession(s) ==
  /\ Step /\ open' = s /\ s # open
  /\ EmptyTranscript
  /\ asks' = asks \o (IF open = "none" THEN <<>> ELSE <<Ask("unsubscribe", open)>>)
                  \o <<Ask("subscribe", s)>>
  /\ UNCHANGED <<log, sources, talkFrames, sender, mail>>

\* refreshAll: the transcript is dropped and asked for again.
RefreshSession ==
  /\ Step /\ open # "none"
  /\ EmptyTranscript
  /\ asks' = Append(asks, Ask("subscribe", open))
  /\ UNCHANGED <<log, sources, talkFrames, sender, mail, open>>

\* The connection broke and is back: what was on its way is lost but for requests
\* the relay has passed on, all of them have failed for the client, and the session
\* is subscribed to again and keeps its transcript meanwhile.
ClientReconnects ==
  /\ Step /\ open # "none"
  /\ \E n \in 0 .. Len(asks) :
       asks' = Append(Kept(SubSeq(asks, 1, n), {ask \in Range(asks) : ask.type # "page"}),
                      Ask("subscribe", open))
  /\ mail' = <<>> /\ loading' = "no"
  /\ UNCHANGED <<log, sources, talkFrames, sender, open, items, unfolded, chunks, oldest, torn>>

\* loadOlder.
LoadOlder ==
  /\ Step /\ open # "none" /\ loading = "no" /\ oldest > 0
  /\ loading' = "asked"
  /\ asks' = Append(asks, [type |-> "page", session |-> open, before |-> oldest])
  /\ UNCHANGED <<log, sources, talkFrames, sender, mail, open, items, unfolded, chunks, oldest, torn>>

\* A transcript: rows, the chunks folded and the oldest number.
Held == [rows |-> items, chunks |-> chunks, oldest |-> oldest]

\* _applyEvent and _append: no two rows of one number, no chunk twice.
FoldRow(t, r) ==
  LET kind == log[r.session][r.seq]
      new  == kind # "ignored" /\ (\A i \in DOMAIN t.rows : t.rows[i].seq # r.seq)
                /\ (kind = "chunk" => r.seq \notin t.chunks)
  IN  [rows   |-> IF new THEN Append(t.rows, r) ELSE t.rows,
       chunks |-> IF kind = "chunk" THEN t.chunks \cup {r.seq} ELSE t.chunks,
       oldest |-> IF t.oldest = 0 \/ r.seq < t.oldest THEN r.seq ELSE t.oldest]

Folded(t, rows) ==
  LET folded[n \in 0 .. Len(rows)] == IF n = 0 THEN t ELSE FoldRow(folded[n - 1], rows[n])
  IN  folded[Len(rows)]

Hold(t) == items' = t.rows /\ chunks' = t.chunks /\ oldest' = t.oldest

NextMail(type) ==
  /\ mail # <<>> /\ Head(mail).type = type /\ mail' = Tail(mail)
  /\ UNCHANGED <<log, sources, talkFrames, sender, asks, open, steps>>

\* A snapshot or an event of another session than the open one.
DropMail ==
  /\ \E type \in {"snapshot", "event"} : NextMail(type)
  /\ Head(mail).session # open
  /\ UNCHANGED screen

\* _applySnapshot: the rows are replaced by those to come.
TakeSnapshot ==
  /\ NextMail("snapshot") /\ Head(mail).session = open
  /\ items' = <<>> /\ oldest' = 0 /\ unfolded' = Head(mail).rows
  /\ loading' = (IF loading = "no" THEN "no" ELSE "stale") /\ torn' = FALSE
  /\ UNCHANGED chunks

\* _applyEvents: at once, also while a snapshot is being folded.
TakeEvent ==
  /\ NextMail("event") /\ Head(mail).session = open
  /\ Hold(FoldRow(Held, Head(Head(mail).rows)))
  /\ UNCHANGED <<unfolded, loading, torn>>

\* Rows in the order of their numbers, each inserted behind those that go before it.
Inserted(s, r) == Kept(s, {x \in Range(s) : x.seq <= r.seq}) \o <<r>>
                    \o Kept(s, {x \in Range(s) : x.seq > r.seq})
Sorted(rows) ==
  LET sorted[n \in 0 .. Len(rows)] == IF n = 0 THEN <<>> ELSE Inserted(sorted[n - 1], rows[n])
  IN  sorted[Len(rows)]

\* prependHistory: the page is folded, then the rows are sorted.  Which session it
\* is of, and whether the transcript it was asked for is still there, is not looked at.
TakePageReply ==
  /\ NextMail("page")
  /\ LET t == Folded(Held, Head(mail).rows)
     IN  Hold([t EXCEPT !.rows = Sorted(@)])
  /\ loading' = "no" /\ torn' = (torn \/ loading = "stale")
  /\ UNCHANGED unfolded

TakeRefusal == NextMail("refused") /\ loading' = "no" /\ UNCHANGED <<items, unfolded, chunks, oldest, torn>>

\* foldSnapshotSlice, once per frame of the screen.
FoldSlice ==
  /\ unfolded # <<>>
  /\ LET n == IF Len(unfolded) < SliceSize THEN Len(unfolded) ELSE SliceSize
     IN  /\ Hold(Folded(Held, SubSeq(unfolded, 1, n)))
         /\ unfolded' = SubSeq(unfolded, n + 1, Len(unfolded))
  /\ UNCHANGED <<log, sources, talkFrames, sender, asks, mail, open, loading, torn, steps>>

\* The mux drops: no stream is left, and nobody tells the client.
LoseMux ==
  /\ Step /\ sources # {}
  /\ sources' = {} /\ talkFrames' = <<>> /\ table' = {}
  /\ UNCHANGED <<log, nextId, asks, mail, screen>>

TalkNext ==
  \/ \E s \in TalkSessions, kind \in Kinds : AddRecord(s, kind)
  \/ \E x \in sources : SendEvent(x)
  \/ TakeSubscribe \/ TakeUnsubscribe \/ TakePage
  \/ DropTalkFrame \/ \E f \in table : Forward(f)
  \/ \E s \in TalkSessions : OpenSession(s)
  \/ RefreshSession \/ ClientReconnects \/ LoadOlder
  \/ DropMail \/ TakeSnapshot \/ TakeEvent \/ TakePageReply \/ TakeRefusal \/ FoldSlice
  \/ LoseMux

TalkSpec == TalkInit /\ [][TalkNext]_talkVars

-----------------------------------------------------------------------------
\* Properties.

Settled ==
  /\ asks = <<>> /\ talkFrames = <<>> /\ mail = <<>> /\ unfolded = <<>>
  /\ \E x \in sources : x.session = open /\ x.sent = Len(log[open])

\* When all is delivered and folded the transcript shows every message of the open
\* session from its oldest record on and at least those a snapshot carries,
\* whatever was opened, refreshed, paged or lost in between, unless a page crossed
\* a replacement of the transcript (forward_follow_value, prependHistory).
EveryMessageShown ==
  Settled /\ ~torn => \A n \in DOMAIN log[open] :
    /\ log[open][n] = "message"
    /\ n >= TailFrom(Len(log[open])) \/ (oldest # 0 /\ n >= oldest)
    => \E i \in DOMAIN items : items[i] = [session |-> open, seq |-> n]

\* session_store.dart:260, opening a session discards any previously folded
\* transcript, and 415, only a snapshot for the session on screen counts: the rows
\* are all of the open session.
RowsOfOpenSession == \A i \in DOMAIN items : items[i].session = open
=============================================================================
