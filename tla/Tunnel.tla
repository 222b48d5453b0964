------------------------------- MODULE Tunnel -------------------------------
(***************************************************************************)
(* The encrypted tunnel between a sender and the relay: the handshake      *)
(* (agent/main.c relay_handshake, server/main.c do_handshake), the frames  *)
(* (common/wire/dsh_wire.c, common/net/dsh_net.c) and the two ends that    *)
(* read and write them.                                                    *)
(*                                                                         *)
(* The sender is one thread.  At the relay one thread reads and any thread *)
(* may write, holding g_lock from the sealing of a frame to the end of its *)
(* write.  A key is the passphrase it is derived from and the connection   *)
(* whose salt and nonces go into it; a payload is its length, of which     *)
(* three matter: one that fits, the longest that is still sealed, which    *)
(* pads to more than a reader takes, and one that is refused.              *)
(*                                                                         *)
(* The path between two hosts may be lost without either being told.       *)
(***************************************************************************)
EXTENDS Integers, Sequences

CONSTANTS Passphrases,  \* values a user gives to the two ends
          Writers,      \* threads of the relay that send to this peer
          NumberMod,       \* numbers a frame can carry, 2^32 in the program
          MaxTunnels,   \* bound: connections made
          MaxFrames     \* bound: frames sealed by each end of one

ASSUME TunnelAssumption ==
  /\ Passphrases # {} /\ NumberMod \in Nat \ {0, 1} /\ MaxTunnels \in Nat /\ MaxFrames \in Nat
  /\ "free" \notin Writers

VARIABLES
  secret,     \* passphrase of each end
  rightPort,  \* is the sender configured with the sender port
  peer,       \* "off", "hello" (waiting for the ack), "up" (relay_ready), "down"
  relay,      \* "none", "hello", "proved", "up", "leaving", "closed"
  closing,    \* the peer's closing flag at the relay
  key,        \* key of each end, or NoKey
  sendSeq,    \* send_seq of each end
  recvSeq,    \* recv_seq of each end
  wire,       \* frames on their way from each end
  path,       \* does anything still get through
  g_lock,     \* the writer that holds it, or "free"
  held,       \* the frame a writer has sealed and not yet written
  sealed,     \* history: frames sealed by each end
  got,        \* history: those each end has opened, in order
  refused,    \* history: why each end refused a frame
  tunnels     \* connections made

ends     == <<peer, relay, closing>>
counters == <<key, sendSeq, recvSeq>>
locks    == <<g_lock, held>>
history  == <<sealed, got, refused>>
tunnelVars == <<secret, rightPort, ends, counters, wire, path, locks, history, tunnels>>

Ends == {"peer", "relay"}
Other(e) == IF e = "peer" THEN "relay" ELSE "peer"

NoKey == <<>>
Lengths == {"fits", "longest", "over"}

Hello(p, r)      == [kind |-> "hello", secret |-> p, agent |-> r]
Ack              == [kind |-> "ack"]
Data(k, s, l, n) == [kind |-> "data", key |-> k, seq |-> s, len |-> l, n |-> n]
Torn             == [kind |-> "torn"]

Keys == Passphrases \X (1 .. MaxTunnels)
Sealed == [kind : {"data"}, key : Keys, seq : 0 .. NumberMod - 1, len : Lengths, n : 1 .. MaxFrames]
Frames == Sealed \cup {Ack, Torn} \cup {Hello(p, r) : p \in Passphrases, r \in BOOLEAN}

TunnelTypeOK ==
  /\ secret \in [Ends -> Passphrases] /\ rightPort \in BOOLEAN
  /\ peer \in {"off", "hello", "up", "down"}
  /\ relay \in {"none", "hello", "proved", "up", "leaving", "closed"}
  /\ closing \in BOOLEAN /\ path \in BOOLEAN
  /\ key \in [Ends -> Keys \cup {NoKey}]
  /\ sendSeq \in [Ends -> 0 .. NumberMod - 1] /\ recvSeq \in [Ends -> 0 .. NumberMod - 1]
  /\ wire \in [Ends -> Seq(Frames)]
  /\ g_lock \in Writers \cup {"free"} /\ held \in [Writers -> Sealed \cup {Torn}]
  /\ sealed \in [Ends -> 0 .. MaxFrames]
  /\ got \in [Ends -> Seq(1 .. MaxFrames)]
  /\ refused \in [Ends -> {"no", "key", "length", "number", "garbled"}]
  /\ tunnels \in 0 .. MaxTunnels

TunnelInit ==
  /\ secret \in [Ends -> Passphrases] /\ rightPort \in BOOLEAN
  /\ peer = "off" /\ relay = "none" /\ closing = FALSE
  /\ key = [e \in Ends |-> NoKey]
  /\ sendSeq = [e \in Ends |-> 1] /\ recvSeq = [e \in Ends |-> 0]
  /\ wire = [e \in Ends |-> <<>>] /\ path = TRUE
  /\ g_lock = "free" /\ held = [w \in Writers |-> Torn]
  /\ sealed = [e \in Ends |-> 0] /\ got = [e \in Ends |-> <<>>]
  /\ refused = [e \in Ends |-> "no"]
  /\ tunnels = 0

-----------------------------------------------------------------------------
\* Keys and frames.

\* dsh_crypto_derive: numbers start at 1, so that nothing seen yet is 0.
Derive(e) ==
  /\ key' = [key EXCEPT ![e] = <<secret[e], tunnels>>]
  /\ sendSeq' = [sendSeq EXCEPT ![e] = 1] /\ recvSeq' = [recvSeq EXCEPT ![e] = 0]

\* dsh_wire_seal takes the next number and gives it back when the payload is too
\* long to be sealed.
Sealing(e, len) == Data(key[e], sendSeq[e], len, sealed[e] + 1)

\* Mutant: the counter is wider than the number on the wire.
SealUnwrapped(e) ==
  /\ sealed[e] < MaxFrames /\ sealed' = [sealed EXCEPT ![e] = @ + 1]
  /\ sendSeq' = [sendSeq EXCEPT ![e] = @ + 1]

SealNext(e) ==
  /\ sealed[e] < MaxFrames /\ sealed' = [sealed EXCEPT ![e] = @ + 1]
  /\ sendSeq' = [sendSeq EXCEPT ![e] = (@ + 1) % NumberMod]

\* Why dsh_message_read and dsh_wire_open give back the frame f, "no" when they
\* open it: its length is looked at before the rest is read, its number only when
\* the tag over it has been verified.
Verdict(e, f) ==
  IF f.kind # "data" THEN "garbled"
  ELSE IF f.len = "longest" THEN "length"
  ELSE IF f.key # key[e] THEN "key"
  ELSE IF f.seq <= recvSeq[e] THEN "number" ELSE "no"

\* Half a frame with nothing behind it keeps its reader waiting.
Readable(e) ==
  LET in == wire[Other(e)]
  IN  /\ path /\ in # <<>>
      /\ Head(in).kind = "torn" => Len(in) > 1

\* One frame is read and opened, or read and refused.
Opens(e) ==
  LET f == Head(wire[Other(e)])
  IN  /\ Readable(e) /\ Verdict(e, f) = "no"
      /\ recvSeq' = [recvSeq EXCEPT ![e] = f.seq]
      /\ got' = [got EXCEPT ![e] = Append(@, f.n)]
      /\ wire' = [wire EXCEPT ![Other(e)] = Tail(@)]
      /\ UNCHANGED <<key, sendSeq, sealed, refused>>

Refuses(e) ==
  LET f == Head(wire[Other(e)])
  IN  /\ Readable(e) /\ Verdict(e, f) # "no"
      /\ refused' = [refused EXCEPT ![e] = Verdict(e, f)]
      /\ wire' = [wire EXCEPT ![Other(e)] = Tail(@)]
      /\ UNCHANGED <<counters, sealed, got>>

Put(e, f) == wire' = [wire EXCEPT ![e] = Append(@, f)]

-----------------------------------------------------------------------------
\* The sender.

\* relay_connect, with the HELLO; the relay accepts and gives the connection a
\* thread.
DialRelay ==
  /\ peer = "off" /\ relay \in {"none", "closed"} /\ tunnels < MaxTunnels
  /\ tunnels' = tunnels + 1
  /\ relay' = "hello" /\ closing' = FALSE /\ path' = TRUE
  /\ \/ /\ peer' = "hello"
        /\ wire' = [e \in Ends |-> IF e = "peer" THEN <<Hello(secret["peer"], TRUE)>> ELSE <<>>]
     \/ peer' = "off" /\ wire' = [e \in Ends |-> <<>>]
  /\ key' = [e \in Ends |-> NoKey]
  /\ sendSeq' = [e \in Ends |-> 1] /\ recvSeq' = [e \in Ends |-> 0]
  /\ sealed' = [e \in Ends |-> 0] /\ got' = [e \in Ends |-> <<>>]
  /\ refused' = [e \in Ends |-> "no"]
  /\ UNCHANGED <<secret, rightPort, locks>>

\* The rest of relay_handshake, with send_hello.
PeerAck ==
  /\ peer = "hello" /\ path /\ wire["relay"] # <<>> /\ Head(wire["relay"]) = Ack
  /\ key' = [key EXCEPT !["peer"] = <<secret["peer"], tunnels>>]
  /\ recvSeq' = [recvSeq EXCEPT !["peer"] = 0]
  /\ SealNext("peer")
  /\ \E f \in {Data(<<secret["peer"], tunnels>>, 1, "fits", 1), Torn} :
       /\ wire' = [wire EXCEPT !["relay"] = Tail(@), !["peer"] = Append(@, f)]
       /\ peer' = IF f = Torn THEN "down" ELSE "up"
  /\ UNCHANGED <<secret, rightPort, relay, closing, path, locks, got, refused, tunnels>>

\* relay_send.
PeerSend(len) ==
  /\ peer = "up"
  /\ \/ /\ len = "over" /\ peer' = "down"
        /\ UNCHANGED <<wire, sendSeq, sealed>>
     \/ /\ len # "over" /\ SealNext("peer")
        /\ \/ Put("peer", Sealing("peer", len)) /\ UNCHANGED peer
           \/ Put("peer", Torn) /\ peer' = "down"
  /\ UNCHANGED <<secret, rightPort, relay, closing, key, recvSeq, path, locks, got, refused, tunnels>>

\* on_relay_readable.
PeerRead ==
  /\ peer = "up"
  /\ \/ Opens("peer") /\ UNCHANGED peer
     \/ Refuses("peer") /\ peer' = "down"
  /\ UNCHANGED <<secret, rightPort, relay, closing, path, locks, tunnels>>

\* The relay's close arrives; what was in flight may be lost with it.
PeerEnds ==
  /\ peer \in {"hello", "up"} /\ relay = "closed" /\ path
  /\ peer' = IF peer = "hello" THEN "off" ELSE "down"
  /\ UNCHANGED <<secret, rightPort, relay, closing, counters, wire, path, locks, history, tunnels>>

\* The loop closes a socket whose link is not ready.
PeerClose ==
  /\ peer = "down" /\ peer' = "off"
  /\ UNCHANGED <<secret, rightPort, relay, closing, counters, wire, path, locks, history, tunnels>>

-----------------------------------------------------------------------------
\* The relay's thread for this peer.

RelayKeeps == UNCHANGED <<secret, rightPort, peer, path, tunnels>>

\* do_handshake up to the proof: a HELLO, of the role its port stands for, from
\* someone who knows the passphrase, or the connection is closed.
RelayHello ==
  /\ relay = "hello" /\ path /\ wire["peer"] # <<>>
  /\ LET f == Head(wire["peer"])
     IN  relay' = IF f.agent = rightPort /\ f.secret = secret["relay"] THEN "proved" ELSE "closed"
  /\ wire' = [wire EXCEPT !["peer"] = Tail(@)]
  /\ RelayKeeps /\ UNCHANGED <<closing, counters, locks, history>>

\* No HELLO within DSH_HANDSHAKE_TIMEOUT_MS.
HelloTimesOut ==
  /\ relay = "hello" /\ ~path /\ relay' = "closed"
  /\ RelayKeeps /\ UNCHANGED <<closing, counters, wire, locks, history>>

\* The rest of do_handshake.  The passphrase is read a second time, and the ack is
\* written without g_lock: nobody else knows this peer yet.
RelayDerive ==
  /\ relay = "proved" /\ Derive("relay")
  /\ \/ relay' = "up" /\ Put("relay", Ack)
     \/ relay' = "closed" /\ UNCHANGED wire
  /\ RelayKeeps /\ UNCHANGED <<closing, locks, history>>

\* connection_loop.
RelayRead ==
  /\ relay = "up"
  /\ \/ Opens("relay") /\ relay' = IF closing THEN "leaving" ELSE "up"
     \/ Refuses("relay") /\ relay' = "leaving"
  /\ RelayKeeps /\ UNCHANGED <<closing, locks>>

\* The sender's close arrives after what it sent, or ahead of it as a reset; the
\* relay may also read nothing more after it has been closed on.
RelayEnds ==
  /\ relay \in {"hello", "up"} /\ peer = "off" /\ path
  /\ relay' = IF relay = "hello" THEN "closed" ELSE "leaving"
  /\ RelayKeeps /\ UNCHANGED <<closing, counters, wire, locks, history>>

\* It leaves the registry, which takes the lock, before its socket is closed.
RelayLeave ==
  /\ relay = "leaving" /\ g_lock = "free" /\ relay' = "closed"
  /\ RelayKeeps /\ UNCHANGED <<closing, counters, wire, locks, history>>

-----------------------------------------------------------------------------
\* The relay's writers: deliver and deliver_raw.

Registered == relay \in {"up", "leaving"}

\* Mutant: the flag of a failed write is not looked at.
SealUnlessGone(w) ==
  /\ Registered /\ g_lock = "free" /\ g_lock' = w
  /\ SealNext("relay") /\ held' = [held EXCEPT ![w] = Sealing("relay", "fits")]
  /\ RelayKeeps /\ UNCHANGED <<relay, closing, key, recvSeq, wire, got, refused>>

\* Mutant: the lock is taken for the write only.
SealUnlocked(w) ==
  /\ Registered /\ ~closing /\ held[w] = Torn /\ g_lock' = g_lock
  /\ SealNext("relay") /\ held' = [held EXCEPT ![w] = Sealing("relay", "fits")]
  /\ RelayKeeps /\ UNCHANGED <<relay, closing, key, recvSeq, wire, got, refused>>

Seal(w) ==
  /\ Registered /\ ~closing /\ g_lock = "free" /\ g_lock' = w
  /\ SealNext("relay") /\ held' = [held EXCEPT ![w] = Sealing("relay", "fits")]
  /\ RelayKeeps /\ UNCHANGED <<relay, closing, key, recvSeq, wire, got, refused>>

\* All of it is written, or the 5 s of a send run out in the middle of it.
Write(w) ==
  /\ held[w] # Torn
  /\ \/ Put("relay", held[w]) /\ UNCHANGED closing
     \/ Put("relay", Torn) /\ closing' = TRUE
  /\ held' = [held EXCEPT ![w] = Torn] /\ g_lock' = "free"
  /\ RelayKeeps /\ UNCHANGED <<relay, counters, history>>

-----------------------------------------------------------------------------
\* Around them.

\* serve_set_passphrase, while a connection of the run before it is still in its
\* handshake; a sender's is changed between two of its runs.
Rekey(p) ==
  /\ p # secret["relay"] /\ relay = "proved" /\ secret' = [secret EXCEPT !["relay"] = p]
  /\ UNCHANGED <<rightPort, ends, counters, wire, path, locks, history, tunnels>>

Vanish ==
  /\ path /\ peer # "off" /\ path' = FALSE
  /\ UNCHANGED <<secret, rightPort, ends, counters, wire, locks, history, tunnels>>

Peer  == PeerAck \/ PeerRead \/ PeerEnds \/ PeerClose
Relay == RelayHello \/ HelloTimesOut \/ RelayDerive \/ RelayRead \/ RelayEnds \/ RelayLeave

TunnelNext ==
  \/ DialRelay \/ Vanish \/ Peer \/ Relay
  \/ \E len \in Lengths : PeerSend(len)
  \/ \E w \in Writers : Seal(w) \/ Write(w)
  \/ \E p \in Passphrases : Rekey(p)

TunnelSpec == TunnelInit /\ [][TunnelNext]_tunnelVars

-----------------------------------------------------------------------------
\* Properties.

\* What an end opens is what the other sealed, in that order and with nothing left
\* out in between, whichever threads sent it (deliver, dsh_wire_seal).
DeliveredInOrder == \A e \in Ends : \A i \in 1 .. Len(got[e]) : got[e][i] = i

\* A frame is refused only because the passphrases differ, because it is one that
\* pads past the limit, or because the numbers have come full circle; never as the
\* remains of a write that failed (dsh_message_read, dsh_wire_open).
RefusedForCause ==
  \A e \in Ends :
    /\ refused[e] # "garbled"
    /\ refused[e] = "key" => key["peer"] # key["relay"]
    /\ refused[e] = "number" => sealed[Other(e)] >= NumberMod
=============================================================================
