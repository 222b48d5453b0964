-------------------------- MODULE WorkspaceRegistry --------------------------
(***************************************************************************)
(* The sender's copy of dsh's workspace registry (agent/main.c, the        *)
(* workspaces_* and workspace_* functions): places filled by the frames of  *)
(* the workspace feed, a baseline once and then changes addressed by id,   *)
(* and the array every session list carries.  The feed is opened again on  *)
(* a fresh tunnel over the same mux, so that an earlier stream may still   *)
(* be delivering; a mux that drops takes what was on its way with it.      *)
(* dsh's registry is modelled from the frames the sender understands.      *)
(***************************************************************************)
EXTENDS Integers, Sequences, SequencesExt, Sublists

CONSTANTS Workspaces,    \* workspace ids
          MaxWorkspaces, \* DSH_MAX_WORKSPACES
          MaxViews,      \* bound: versions of a workspace's view
          MaxRegistryChanges,    \* bound: changes of dsh's registry
          MaxOpens       \* bound: times the feed is opened

ASSUME WorkspaceAssumption ==
  /\ MaxWorkspaces \in Nat \ {0} /\ MaxViews \in Nat \ {0}
  /\ MaxRegistryChanges \in Nat /\ MaxOpens \in Nat

VARIABLES
  registry,     \* dsh's workspaces, in order
  feeds,        \* the workspace streams dsh has open
  feedFrames,   \* their frames, which the sender has not read
  feed,         \* workspace_stream_id as a number; 0 before the first
  places,        \* workspace_ids and workspace_json
  workspaces,   \* the published array
  overflowed,   \* history: has the registry outgrown the places since the baseline
  registrySteps

wsVars == <<registry, feeds, feedFrames, feed, places, workspaces, overflowed, registrySteps>>

Views == [id : Workspaces, view : 1 .. MaxViews]
IdsOf(s) == [i \in DOMAIN s |-> s[i].id]
Named(s, id) == {i \in DOMAIN s : s[i].id = id}
Has(s, id) == Named(s, id) # {}

But(id) == {w \in Views : w.id # id}

Baseline(items) == [type |-> "baseline", items |-> items]
Upsert(w)       == [type |-> "upsert", workspace |-> w]
Removal(id)     == [type |-> "remove", id |-> id]
Order(ids)      == [type |-> "order", ids |-> ids]
Archived        == [type |-> "archived"]

WorkspaceTypeOK ==
  /\ registry \in Seq(Views) /\ places \in Seq(Views) /\ workspaces \in Seq(Views)
  /\ feeds \subseteq 1 .. MaxOpens /\ feed \in 0 .. MaxOpens
  /\ \A i \in DOMAIN feedFrames : feedFrames[i].feed \in 1 .. MaxOpens
  /\ overflowed \in BOOLEAN /\ registrySteps \in 0 .. MaxRegistryChanges

WorkspaceInit ==
  /\ registry = <<>> /\ feeds = {} /\ feedFrames = <<>> /\ feed = 0
  /\ places = <<>> /\ workspaces = <<>> /\ overflowed = FALSE /\ registrySteps = 0

-----------------------------------------------------------------------------
\* dsh.

\* One frame on every open stream.
Tell(frame) ==
  feedFrames' = feedFrames \o
    SetToSeq({[feed |-> f, frame |-> frame] : f \in feeds})

\* The registry with w in its place, or at the end.
Placed(s, w) ==
  IF Has(s, w.id) THEN [i \in DOMAIN s |-> IF s[i].id = w.id THEN w ELSE s[i]]
                  ELSE Append(s, w)

RegistryChanges(new, frame) ==
  /\ registrySteps < MaxRegistryChanges /\ registrySteps' = registrySteps + 1
  /\ registry' = new /\ Tell(frame)
  /\ overflowed' = (overflowed \/ Len(new) > MaxWorkspaces)
  /\ UNCHANGED <<feeds, feed, places, workspaces>>

PutWorkspace(w) == RegistryChanges(Placed(registry, w), Upsert(w))

TakeWorkspace(id) ==
  /\ Has(registry, id)
  /\ RegistryChanges(Kept(registry, But(id)), Removal(id))

\* Any other order of the same workspaces.
OrderWorkspaces(new) ==
  /\ Len(new) = Len(registry) /\ Range(new) = Range(registry) /\ new # registry
  /\ RegistryChanges(new, Order(IdsOf(new)))

ArchiveSession == RegistryChanges(registry, Archived)

-----------------------------------------------------------------------------
\* The sender.

\* subscribe_workspace: on a fresh tunnel the stream of before is not cancelled; on
\* a fresh mux nothing of the old one is left.
OpenFeed(freshMux) ==
  /\ feed < MaxOpens /\ feed' = feed + 1
  /\ LET old == IF freshMux THEN <<>> ELSE feedFrames
     IN  feedFrames' = Append(old, [feed |-> feed + 1, frame |-> Baseline(registry)])
  /\ feeds' = (IF freshMux THEN {} ELSE feeds) \cup {feed + 1}
  /\ overflowed' = (Len(registry) > MaxWorkspaces)
  /\ UNCHANGED <<registry, places, workspaces, registrySteps>>

\* workspace_store: its own slot, a fresh one, or none.
Place(s, w) == IF Has(s, w.id) \/ Len(s) < MaxWorkspaces THEN Placed(s, w) ELSE s

\* The items of a baseline, each stored in places that were emptied.
Filled(items) ==
  LET filled[n \in 0 .. Len(items)] == IF n = 0 THEN <<>> ELSE Place(filled[n - 1], items[n])
  IN  filled[Len(items)]

SlotOf(s, id) == s[CHOOSE i \in Named(s, id) : TRUE]

\* The ids of a frame that have a place, and the places of no such id.
NamedIds(s, ids) == Kept(ids, {id \in Workspaces : Has(s, id)})
Unnamed(s, ids) == Kept(s, {w \in Views : w.id \notin Range(NamedIds(s, ids))})

\* Mutant: places the frame does not name are put first.
UnnamedFirst(s, ids) ==
  LET named == NamedIds(s, ids)
  IN  Unnamed(s, ids) \o [i \in DOMAIN named |-> SlotOf(s, named[Len(named) + 1 - i])]

\* workspaces_reorder: the named places in the frame's order, then the others.
Reordered(s, ids) ==
  LET named == NamedIds(s, ids)
  IN  [i \in DOMAIN named |-> SlotOf(s, named[i])] \o Unnamed(s, ids)

\* workspaces_apply to the places s.  An archived frame changes no slot.
Apply(s, frame) ==
  CASE frame.type = "baseline" -> Filled(frame.items)
    [] frame.type = "upsert"   -> Place(s, frame.workspace)
    [] frame.type = "remove"   -> Kept(s, But(frame.id))
    [] frame.type = "order"    -> Reordered(s, frame.ids)
    [] frame.type = "archived" -> s

NextFeedFrame ==
  /\ feedFrames # <<>> /\ feedFrames' = Tail(feedFrames)
  /\ UNCHANGED <<registry, feeds, feed, overflowed, registrySteps>>

\* A frame of an earlier stream is of none the sender knows.
IgnoreFrame ==
  /\ NextFeedFrame /\ Head(feedFrames).feed # feed
  /\ UNCHANGED <<places, workspaces>>

\* handle_mux_message: the frame is applied and the array published.
TakeFrame ==
  /\ NextFeedFrame /\ Head(feedFrames).feed = feed
  /\ places' = Apply(places, Head(feedFrames).frame)
  /\ workspaces' = places'

\* The mux drops: the frames on their way are lost, the array stays.
LoseFeeds ==
  /\ feeds # {} /\ feeds' = {} /\ feedFrames' = <<>>
  /\ UNCHANGED <<registry, feed, places, workspaces, overflowed, registrySteps>>

WorkspaceNext ==
  \/ \E w \in Views : PutWorkspace(w)
  \/ \E id \in Workspaces : TakeWorkspace(id)
  \/ \E p \in Permutations(DOMAIN registry) :
       OrderWorkspaces([i \in DOMAIN registry |-> registry[p[i]]])
  \/ ArchiveSession
  \/ OpenFeed(FALSE) \/ OpenFeed(TRUE) \/ LoseFeeds
  \/ IgnoreFrame \/ TakeFrame

WorkspaceSpec == WorkspaceInit /\ [][WorkspaceNext]_wsVars

-----------------------------------------------------------------------------
\* Properties.

\* No workspace has two places, the places never run over, and the published array
\* is what they hold.
NoTwoSlots == \A i, j \in DOMAIN places : places[i].id = places[j].id => i = j
SlotsSound == NoTwoSlots /\ Len(places) <= MaxWorkspaces /\ workspaces = places

\* The places are sound, and once every frame is read the array shows dsh's registry
\* in its order, whichever streams delivered and broke before; when the registry
\* outgrew the places it still shows no workspace that is gone and no old view
\* (workspace_store, workspaces_reorder, workspaces_publish, workspaces_apply).
RegistryMirrored ==
  /\ SlotsSound
  /\ feed \in feeds /\ feedFrames = <<>> =>
       /\ Range(workspaces) \subseteq Range(registry)
       /\ ~overflowed => workspaces = registry
=============================================================================
