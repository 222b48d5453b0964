----------------------------- MODULE ReplayRing -----------------------------
(***************************************************************************)
(* The replay buffer of one sender: the circular array of string builders  *)
(* peer.replay with replay_head and replay_count, the store that every     *)
(* EVENTS and SNAPSHOT frame makes, and the loop of send_catch_up_locked   *)
(* that reads it for a client that has just joined.                        *)
(*                                                                         *)
(* Frames are numbered 1, 2, ... in the order they are offered; a slot     *)
(* whose builder is empty holds NoFrame.  A builder remembers that it ran  *)
(* out of memory (dsh_sb.oom) and dsh_sb_reset does not forget it, so a    *)
(* slot in "oom" refuses every later frame and the head never leaves it.   *)
(***************************************************************************)
EXTENDS Integers, Sequences

CONSTANTS Depth,      \* DSH_REPLAY_DEPTH
          MaxOffered  \* bound: frames offered in one behaviour

ASSUME RingAssumption == /\ Depth \in Nat \ {0}
                         /\ MaxOffered \in Nat

VARIABLES slots,      \* peer.replay
          oom,        \* the slots whose builder has its oom flag set
          head,       \* peer.replay_head
          count,      \* peer.replay_count
          offered,    \* how many frames the sender has offered
          last        \* the newest frame that was retained

vars == <<slots, oom, head, count, offered, last>>

NoFrame == 0
Slots == 0 .. Depth - 1

-----------------------------------------------------------------------------
Init == /\ slots = [j \in Slots |-> NoFrame]
        /\ oom = {}
        /\ head = 0
        /\ count = 0
        /\ offered = 0
        /\ last = 0

Advance(h) == (h + 1) % Depth

\* dsh_sb_reset, dsh_sb_put, then the head and the count move on.
Retain == /\ slots' = [slots EXCEPT ![head] = offered + 1]
          /\ head' = Advance(head)
          /\ count' = IF count < Depth THEN count + 1 ELSE count
          /\ last' = offered + 1
          /\ UNCHANGED oom

\* Mutant: the head moves on past a slot that could not be written.
RefuseAndAdvance == /\ slots' = [slots EXCEPT ![head] = NoFrame]
                    /\ oom' = oom \cup {head}
                    /\ head' = Advance(head)
                    /\ UNCHANGED <<count, last>>

\* The slot is reset, nothing is written into it, and the head stays.
Refuse == /\ slots' = [slots EXCEPT ![head] = NoFrame]
          /\ oom' = oom \cup {head}
          /\ UNCHANGED <<head, count, last>>

\* The EVENTS and SNAPSHOT cases of handle_sender_message; "memory" says
\* whether the allocator can grow the slot's builder.
Store(memory) ==
  /\ offered < MaxOffered
  /\ offered' = offered + 1
  /\ IF memory /\ head \notin oom THEN Retain ELSE Refuse

Next == \E memory \in BOOLEAN : Store(memory)

Spec == Init /\ [][Next]_vars

-----------------------------------------------------------------------------
\* Mutant: the reader starts at the head even when the ring is not full.
IndexFromHead(i) == (head + i) % Depth

\* The slot the catch-up loop reads at its step i, oldest frame first.
Index(i) == (head - count + i + Depth * 2) % Depth

\* What the loop has sent after i steps: every slot it read that is not empty.
SentAfter[i \in 0 .. count] ==
  IF i = 0 THEN <<>>
  ELSE IF slots[Index(i - 1)] = NoFrame THEN SentAfter[i - 1]
  ELSE Append(SentAfter[i - 1], slots[Index(i - 1)])

CatchUp == SentAfter[count]

-----------------------------------------------------------------------------
TypeOK == /\ slots \in [Slots -> Nat]
          /\ oom \subseteq Slots
          /\ head \in Slots
          /\ count \in 0 .. Depth
          /\ offered \in Nat
          /\ last \in 0 .. offered

\* A late client is sent an unbroken run of frames in the order the sender
\* offered them, ending with the newest one retained and missing at most the
\* oldest slot of a wedged ring: send_catch_up_locked's loop and the store of
\* handle_sender_message agree on the wrap-around.
CatchUpIsAWindow ==
  LET n == Len(CatchUp)
  IN  /\ CatchUp = [i \in 1 .. n |-> last - n + i]
      /\ n >= count - 1
      /\ oom = {} => n = (IF offered < Depth THEN offered ELSE Depth)

\* The ring as its abstract log: the occupied slots in reading order.  Only
\* the oldest slot can be empty, when a full ring has wedged.
Skipped == IF oom # {} /\ count = Depth THEN 1 ELSE 0
Recent == [i \in 1 .. count - Skipped |-> slots[Index(i - 1 + Skipped)]]

Log == INSTANCE ReplayLog WITH Frames <- 1 .. MaxOffered,
                               recent <- Recent, wedged <- (oom # {})

\* The circular array behaves as the bounded log of ReplayLog.
ImplementsLog == Log!Spec
=============================================================================
