------------------------------ MODULE MCLinks ------------------------------
(***************************************************************************)
(* The parts that wait for somebody, each on its own and chosen at the     *)
(* start: the relay's listeners, one tunnel, the mux reader, the sender's  *)
(* request handling and a client's connection.  They share no state; part  *)
(* says whose behaviour this is, and the others stay where they begin.     *)
(***************************************************************************)
EXTENDS RelayHost, Tunnel, MuxReader, DshCalls, ClientLink

VARIABLE part

linksVars == <<part, hostVars, tunnelVars, muxVars, callsVars, clientLinkVars>>

\* What another part begins with makes no difference.
AnyOne(e) == e = CHOOSE x \in Passphrases : TRUE

LinksInit ==
  /\ part \in {"host", "tunnel", "mux", "calls", "client"}
  /\ HostInit /\ TunnelInit /\ MuxInit /\ CallsInit /\ ClientLinkInit
  /\ part # "host" => console
  /\ part # "tunnel" => rightPort /\ \A e \in DOMAIN secret : AnyOne(secret[e])
  /\ part # "calls" => dshReady /\ plainName

Is(p) == part = p /\ UNCHANGED part

LinksNext ==
  \/ Is("host") /\ HostNext /\ UNCHANGED <<tunnelVars, muxVars, callsVars, clientLinkVars>>
  \/ Is("tunnel") /\ TunnelNext /\ UNCHANGED <<hostVars, muxVars, callsVars, clientLinkVars>>
  \/ Is("mux") /\ MuxNext /\ UNCHANGED <<hostVars, tunnelVars, callsVars, clientLinkVars>>
  \/ Is("calls") /\ CallsNext /\ UNCHANGED <<hostVars, tunnelVars, muxVars, clientLinkVars>>
  \/ Is("client") /\ ClientLinkNext /\ UNCHANGED <<hostVars, tunnelVars, muxVars, callsVars>>

\* The fairness of each module, for its own behaviours.
LinksFairness ==
  /\ WF_hostVars(part = "host" /\ Program)
  /\ \A l \in LoopIds : WF_hostVars(part = "host" /\ Loop(l))
  /\ WF_muxVars(part = "mux" /\ StartPump) /\ WF_muxVars(part = "mux" /\ MuxRead)
  /\ WF_callsVars(part = "calls" /\ CallsReturn)
  /\ \A c \in RelayClients :
       /\ WF_clientLinkVars(part = "client" /\ Runs(c))
       /\ WF_clientLinkVars(part = "client" /\ LinkEnds(c))
  /\ WF_clientLinkVars(part = "client" /\ RetryFires)
  /\ WF_clientLinkVars(part = "client" /\ Heartbeat)

\* Every part keeps its state within its types.
LinksTypeOK == HostTypeOK /\ TunnelTypeOK /\ MuxTypeOK /\ CallsTypeOK /\ ClientLinkTypeOK

LinksSpec == LinksInit /\ [][LinksNext]_linksVars /\ LinksFairness
=============================================================================
