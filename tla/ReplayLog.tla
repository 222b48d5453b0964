----------------------------- MODULE ReplayLog -----------------------------
(***************************************************************************)
(* What one sender's replay buffer promises (server/main.c): the newest    *)
(* Depth frames, oldest first.  Frames are numbered in the order in which  *)
(* the sender's connection thread offers them.  A failed allocation wedges *)
(* the buffer: from then on it keeps what it has and takes nothing more.   *)
(* ReplayRing is the circular array that implements this.                  *)
(***************************************************************************)
EXTENDS Naturals, Sequences

CONSTANTS Depth,    \* DSH_REPLAY_DEPTH
          Frames    \* what a sender may offer

VARIABLES recent,   \* the frames a client that joins now would be sent
          wedged    \* an allocation has failed

vars == <<recent, wedged>>

Init == /\ recent = <<>>
        /\ wedged = FALSE

\* A full buffer gives up its oldest frame for the new one.
Keep(f) == /\ ~wedged
           /\ recent' = IF Len(recent) < Depth THEN Append(recent, f)
                                               ELSE Append(Tail(recent), f)
           /\ UNCHANGED wedged

\* The slot of the oldest frame was already cleared when the allocation failed.
Wedge == /\ ~wedged
         /\ wedged' = TRUE
         /\ recent' = IF Len(recent) < Depth THEN recent ELSE Tail(recent)

Next == Wedge \/ \E f \in Frames : Keep(f)

Spec == Init /\ [][Next]_vars
=============================================================================
