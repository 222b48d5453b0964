------------------------------ MODULE MuxReader ------------------------------
(***************************************************************************)
(* The WebSocket between the sender and dsh (common/net/dsh_ws.c) and the  *)
(* pump that drains it (agent/main.c pump_mux).  dsh sends messages, each  *)
(* in one frame or in fragments, with pings between any two frames; the    *)
(* loop pumps a bounded number of messages and looks at the relay between  *)
(* two pumps.  Within a frame the reader blocks, so a frame arrives whole. *)
(* A frame dsh sends before the first request would be lost with the       *)
(* upgrade's headers (dsh_ws.c:145): dsh speaks when it is spoken to.      *)
(***************************************************************************)
EXTENDS Integers, Sequences, SequencesExt

CONSTANTS MuxMessages,    \* bound: messages dsh sends on one connection
          MaxFragments,   \* bound: frames of one message
          MuxMaxMessage,  \* WS_MAX_MESSAGE, in fragments
          PumpBudget,     \* messages one call of pump_mux takes
          MaxPings,       \* bound: pings on one connection
          MaxMuxes        \* bound: connections made

ASSUME MuxAssumption ==
  /\ {MuxMessages, MaxFragments, MuxMaxMessage, MaxPings, MaxMuxes} \subseteq Nat
  /\ PumpBudget \in Nat \ {0}

VARIABLES
  ws,         \* "closed" or "open": ws_ready
  inflight,   \* frames dsh has sent and the sender has not read
  pending,    \* fragments of the message being read
  handled,    \* history: messages given to handle_mux_message on this connection
  pongs,      \* history: pings answered
  pump,       \* messages the running call of pump_mux may still take; 0 between calls
  muxSent,    \* messages dsh has sent on this connection
  sending,    \* fragments of the message dsh is in the middle of
  pings, muxes

muxDsh  == <<inflight, muxSent, sending, pings>>
muxVars == <<ws, muxDsh, pending, handled, pongs, pump, muxes>>

Fragment(m, i, fin) == [op |-> "data", message |-> m, part |-> i, fin |-> fin]
Ping == [op |-> "ping"]
Close == [op |-> "close"]

MuxTypeOK ==
  /\ ws \in {"closed", "open"}
  /\ \A f \in Range(inflight) : f.op \in {"data", "ping", "close"}
  /\ \A f \in Range(pending) : f.op = "data"
  /\ handled \in Seq(0 .. MuxMessages) /\ pongs \in 0 .. MaxPings
  /\ pump \in 0 .. PumpBudget
  /\ muxSent \in 0 .. MuxMessages /\ sending \in 0 .. MaxFragments - 1
  /\ pings \in 0 .. MaxPings /\ muxes \in 0 .. MaxMuxes

MuxInit ==
  /\ ws = "closed" /\ inflight = <<>> /\ pending = <<>> /\ handled = <<>>
  /\ pongs = 0 /\ pump = 0 /\ muxSent = 0 /\ sending = 0 /\ pings = 0 /\ muxes = 0

-----------------------------------------------------------------------------
\* dsh.

MuxKeeps == UNCHANGED <<ws, pending, handled, pongs, pump, muxes>>

\* One more frame of the message in progress, or the first of the next.
SendFragment(fin) ==
  /\ ws = "open" /\ muxSent < MuxMessages
  /\ ~fin => sending + 1 < MaxFragments
  /\ inflight' = Append(inflight, Fragment(muxSent + 1, sending + 1, fin))
  /\ sending' = IF fin THEN 0 ELSE sending + 1
  /\ muxSent' = IF fin THEN muxSent + 1 ELSE muxSent
  /\ MuxKeeps /\ UNCHANGED pings

SendPing ==
  /\ ws = "open" /\ pings < MaxPings
  /\ pings' = pings + 1 /\ inflight' = Append(inflight, Ping)
  /\ MuxKeeps /\ UNCHANGED <<muxSent, sending>>

SendClose ==
  /\ ws = "open" /\ inflight' = Append(inflight, Close)
  /\ Close \notin Range(inflight)
  /\ MuxKeeps /\ UNCHANGED <<muxSent, sending, pings>>

-----------------------------------------------------------------------------
\* The sender.

\* dsh_ws_connect: what the last connection left is gone.
OpenMux ==
  /\ ws = "closed" /\ pump = 0 /\ muxes < MaxMuxes /\ muxes' = muxes + 1
  /\ ws' = "open"
  /\ inflight' = <<>> /\ pending' = <<>> /\ handled' = <<>> /\ pongs' = 0
  /\ muxSent' = 0 /\ sending' = 0 /\ pings' = 0
  /\ UNCHANGED pump

StartPump ==
  /\ ws = "open" /\ pump = 0 /\ pump' = PumpBudget
  /\ UNCHANGED <<ws, muxDsh, pending, handled, pongs, muxes>>

\* dsh_ws_recv fails: the mux is closed and reopened on a later cycle.
DropMux == ws' = "closed" /\ pump' = 0

\* Mutant: fragments are forgotten when the rest is not there yet.
ForgetFragments ==
  /\ pump > 0 /\ inflight = <<>>
  /\ pump' = 0 /\ pending' = <<>>
  /\ UNCHANGED <<ws, muxDsh, handled, pongs, muxes>>

\* Nothing to read: the pump ends; fragments wait in pending for the next one.
NothingYet ==
  /\ pump > 0 /\ inflight = <<>>
  /\ pump' = 0
  /\ UNCHANGED <<ws, muxDsh, pending, handled, pongs, muxes>>

\* The connection fails while it is waited on.
MuxFails ==
  /\ pump > 0 /\ DropMux
  /\ UNCHANGED <<muxDsh, pending, handled, pongs, muxes>>

NextFrame(f) ==
  /\ pump > 0 /\ inflight # <<>> /\ Head(inflight) = f
  /\ inflight' = Tail(inflight)
  /\ UNCHANGED <<muxSent, sending, pings, muxes>>

\* Mutant: a ping ends the pump and stays at the head.
PingStays ==
  /\ pump > 0 /\ inflight # <<>> /\ Head(inflight) = Ping /\ pump' = 0
  /\ UNCHANGED <<ws, muxDsh, pending, handled, pongs, muxes>>

ReadPing ==
  /\ NextFrame(Ping) /\ pongs' = pongs + 1
  /\ UNCHANGED <<ws, pending, handled, pump>>

ReadClose ==
  /\ NextFrame(Close) /\ DropMux
  /\ UNCHANGED <<pending, handled, pongs>>

\* A fragment waits for the rest of its message, or completes it; too long a
\* message is an error.
ReadFragment(f) ==
  LET all == Append(pending, f)
  IN  /\ f.op = "data" /\ NextFrame(f)
      /\ IF Len(all) > MuxMaxMessage THEN
           DropMux /\ pending' = <<>> /\ UNCHANGED handled
         ELSE IF f.fin THEN
           /\ handled' = Append(handled, IF \A i \in DOMAIN all : all[i].message = f.message
                                                                 /\ all[i].part = i
                                         THEN f.message ELSE 0)
           /\ pending' = <<>> /\ pump' = pump - 1 /\ UNCHANGED ws
         ELSE pending' = all /\ UNCHANGED <<handled, pump, ws>>
      /\ UNCHANGED pongs

MuxRead ==
  \/ NothingYet \/ ReadPing \/ ReadClose
  \/ inflight # <<>> /\ ReadFragment(Head(inflight))

MuxNext ==
  \/ OpenMux \/ StartPump \/ MuxFails \/ MuxRead
  \/ \E fin \in BOOLEAN : SendFragment(fin)
  \/ SendPing \/ SendClose

MuxSpec == MuxInit /\ [][MuxNext]_muxVars /\ WF_muxVars(StartPump) /\ WF_muxVars(MuxRead)

-----------------------------------------------------------------------------
\* Properties.

\* The messages handled on one connection are those dsh sent on it, whole and in
\* order from the first, whatever pings and pauses come between their fragments
\* and however they fall on calls of pump_mux (dsh_ws_recv).
MessagesAreWhole == \A i \in DOMAIN handled : handled[i] = i

\* Each message dsh has sent is handled in the end unless the mux is dropped, also
\* when nothing more arrives to wake the loop (pump_mux, dsh_ws_recv).
MessagesArrive ==
  \A m \in 1 .. MuxMessages : (ws = "open" /\ muxSent >= m) ~> (Len(handled) >= m \/ ws = "closed")
=============================================================================
