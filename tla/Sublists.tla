------------------------------- MODULE Sublists -------------------------------
(***************************************************************************)
(* What is left of a list when entries are taken out of it, as a recursive *)
(* function, by which theorems can be proved.                              *)
(***************************************************************************)
EXTENDS Integers, Sequences

\* What is in S of a sequence, in its order.
Kept(s, S) ==
  LET kept[n \in 0 .. Len(s)] == IF n = 0 THEN <<>>
                                 ELSE IF s[n] \in S THEN Append(kept[n - 1], s[n])
                                 ELSE kept[n - 1]
  IN  kept[Len(s)]
==============================================================================
