--------------------------- MODULE MCSenderLinks ---------------------------
(* Sessions are interchangeable: nothing orders them. *)
EXTENDS SenderLinks, TLC

Symmetry == Permutations(Sessions)
=============================================================================
