--------------------------- MODULE MCRelayServer ---------------------------
(***************************************************************************)
(* Small instances of RelayServer for TLC.  Connection slots are           *)
(* interchangeable (the registry orders peers by serial, not by slot) and  *)
(* so are device names; liveness is checked without the symmetry.          *)
(***************************************************************************)
EXTENDS RelayServer, TLC

Symmetry == Permutations(Senders) \cup Permutations(Clients) \cup Permutations(Devices)
=============================================================================
