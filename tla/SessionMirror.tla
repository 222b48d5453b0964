---------------------------- MODULE SessionMirror ----------------------------
(***************************************************************************)
(* What the sender tells clients of dsh's session list (agent/main.c       *)
(* mirror_session_list, capture_vanished, build_sessions_payload and the   *)
(* answer to sessions/list).  A list that differs from the cached one is   *)
(* pushed, together with the last description of the sessions that left    *)
(* it; a client may also ask, and is answered from a list read at that     *)
(* moment.  SenderLinks models when the list is read; here is what the     *)
(* payload says, and what a client makes of it (session_store.dart): it    *)
(* replaces its list and gathers the descriptions.  The relay replays the  *)
(* last push to a client that connects.                                    *)
(***************************************************************************)
EXTENDS Integers, FiniteSets

CONSTANTS ListSessions,   \* session ids
          MaxVersions,    \* bound: versions of a session's summary
          MaxListChanges, \* bound: changes of dsh's list
          MaxTunnels      \* bound: tunnels and client connections made

ASSUME MirrorAssumption ==
  MaxVersions \in Nat \ {0} /\ MaxListChanges \in Nat /\ MaxTunnels \in Nat

VARIABLES
  listed,       \* dsh's session list
  cached,      \* is there a sessions_cache
  cache,       \* its items
  digests,     \* vanished_digests
  followed,    \* sessions with a follow stream
  up,          \* relay_ready
  push,        \* the last payload pushed through this tunnel
  clientList,  \* _sessions of a client
  described,   \* its archivedDigests
  seen,        \* history: the last summaries pushed to it through this tunnel
  listChanges, connections

clientVars == <<clientList, described, seen>>
mirrorVars == <<listed, cached, cache, digests, followed, up, push, clientVars,
                listChanges, connections>>

Summary == [id : ListSessions, version : 1 .. MaxVersions]
ListedIds(l) == {x.id : x \in l}
Lists == {l \in SUBSET Summary : \A x, y \in l : x.id = y.id => x = y}

\* The summaries of new, and those of old whose session new does not have.
Over(old, new) == new \cup {x \in old : x.id \notin ListedIds(new)}

MirrorTypeOK ==
  /\ {listed, cache, digests, clientList, described, seen} \subseteq Lists
  /\ cached \in BOOLEAN /\ up \in BOOLEAN /\ followed \subseteq ListSessions
  /\ push.sessions \in Lists /\ push.digests \in Lists
  /\ push.wide \subseteq ListedIds(push.sessions)
  /\ listChanges \in 0 .. MaxListChanges /\ connections \in 0 .. MaxTunnels

NoPayload == [sessions |-> {}, digests |-> {}, wide |-> {}]

MirrorInit ==
  /\ listed = {} /\ cached = FALSE /\ cache = {} /\ digests = {} /\ followed = {}
  /\ up = FALSE /\ push = NoPayload
  /\ clientList = {} /\ described = {} /\ seen = {}
  /\ listChanges = 0 /\ connections = 0

-----------------------------------------------------------------------------
\* dsh: a session appears, is renamed, is archived or restored.
ListSteps(new) ==
  /\ listChanges < MaxListChanges /\ listChanges' = listChanges + 1
  /\ listed' = new
  /\ UNCHANGED <<cached, cache, digests, followed, up, push, clientVars, connections>>

DescribeSession(x) == x \notin listed /\ ListSteps({y \in listed : y.id # x.id} \cup {x})

ArchiveOne(x) == x \in listed /\ ListSteps(listed \ {x})

-----------------------------------------------------------------------------
\* The sender.

\* build_sessions_payload: a session that is followed keeps all its projections
\* (session_is_followed, projection_is_wanted), the others two of them.
BuildPayload(list, gone) ==
  [sessions |-> list, digests |-> gone, wide |-> followed \cap ListedIds(list)]

\* Mutant: descriptions are added to those of the same session.
GatherAll(p) ==
  clientList' = p.sessions /\ described' = described \cup p.digests

\* The client takes a payload: the list is replaced, descriptions are gathered.
TakePayload(p) ==
  clientList' = p.sessions /\ described' = Over(described, p.digests)

\* Mutant: the cache is replaced before what vanished is looked up.
CaptureTooLate(before, now) == {x \in now : x.id \notin ListedIds(now)}

\* capture_vanished: nothing to compare with leaves the digests as they are.
CaptureVanished(before, now) ==
  IF cached THEN {x \in before : x.id \notin ListedIds(now)} ELSE digests

\* mirror_session_list: the list is pushed when it differs from the cache, which is
\* replaced also when the tunnel is down or fails on it.
MirrorList ==
  /\ ~cached \/ cache # listed
  /\ cached' = TRUE /\ cache' = listed
  /\ digests' = CaptureVanished(cache, listed)
  /\ \/ /\ up /\ push' = BuildPayload(listed, digests')
        /\ TakePayload(push') /\ seen' = Over(seen, listed) /\ UNCHANGED up
     \/ up' = FALSE /\ UNCHANGED <<push, clientVars>>
  /\ UNCHANGED <<listed, followed, listChanges, connections>>

\* sessions/list: read now, with the digests of the last mirrored list.
AnswerList ==
  /\ up /\ TakePayload(BuildPayload(listed, digests))
  /\ UNCHANGED <<listed, cached, cache, digests, followed, up, push, seen,
                 listChanges, connections>>

\* A client opens or leaves a session.
ToggleFollow(s) ==
  /\ up /\ followed' = (followed \cup {s}) \ (followed \cap {s})
  /\ UNCHANGED <<listed, cached, cache, digests, up, push, clientVars, listChanges, connections>>

\* A fresh tunnel empties the cache and ends the follows; the digests stay.
FreshTunnel ==
  /\ connections < MaxTunnels /\ connections' = connections + 1
  /\ up' = TRUE /\ push' = NoPayload
  /\ cached' = FALSE /\ cache' = {} /\ followed' = {}
  /\ seen' = {}
  /\ UNCHANGED <<listed, digests, clientList, described, listChanges>>

\* A client connects again: its mirror is cleared and the last push replayed.
ClientReturns ==
  /\ up /\ connections < MaxTunnels /\ connections' = connections + 1
  /\ clientList' = push.sessions /\ described' = push.digests /\ seen' = push.sessions
  /\ UNCHANGED <<listed, cached, cache, digests, followed, up, push, listChanges>>

MirrorNext ==
  \/ \E x \in Summary : DescribeSession(x) \/ ArchiveOne(x)
  \/ MirrorList \/ AnswerList \/ FreshTunnel \/ ClientReturns
  \/ \E s \in ListSessions : ToggleFollow(s)

MirrorSpec == MirrorInit /\ [][MirrorNext]_mirrorVars

-----------------------------------------------------------------------------
\* Properties.

\* A session that was pushed to a client and is on the pushed list no more is
\* described to it by the summary it was last pushed with: dsh does not list an
\* archived session again (capture_vanished, mirror_session_list).
VanishedAreDescribed ==
  up => \A x \in seen : x.id \in ListedIds(push.sessions) \/ x \in described
=============================================================================
