------------------------------- MODULE MCData -------------------------------
(***************************************************************************)
(* The parts that keep data right, each on its own and chosen at the       *)
(* start: the replay ring, the workspace registry, the session mirror, a   *)
(* conversation, the settings file, the HTTP reader and a window's log.    *)
(* They share no state; part says whose behaviour this is, and the others  *)
(* stay where they begin.                                                  *)
(***************************************************************************)
EXTENDS ReplayRing, WorkspaceRegistry, SessionMirror, Conversation, ConfigFile, HttpReader,
        LogRing

VARIABLE part

ringVars == <<slots, oom, head, count, offered, last>>
dataVars == <<part, ringVars, wsVars, mirrorVars, talkVars, cfgVars, httpVars, logVars>>

\* What each program asks the settings for, and the bytes of an answer.
MCAsked == [p \in {"server", "sender"} |->
              IF p = "server" THEN {"port", "passphrase"} ELSE {"passphrase", "device_name"}]
MCBody == <<1, 2, 3, 4>>

DataInit ==
  /\ part \in {"ring", "workspaces", "mirror", "conversation", "config", "http", "log"}
  /\ Init /\ WorkspaceInit /\ MirrorInit /\ TalkInit /\ ConfigInit /\ HttpInit /\ LogInit
  /\ part # "http" => framing = "length" /\ incoming = Headers(1) \o Bytes(HttpBody)

Is(p) == part = p /\ UNCHANGED part

DataNext ==
  \/ /\ Is("ring") /\ Next
     /\ UNCHANGED <<wsVars, mirrorVars, talkVars, cfgVars, httpVars, logVars>>
  \/ /\ Is("workspaces") /\ WorkspaceNext
     /\ UNCHANGED <<ringVars, mirrorVars, talkVars, cfgVars, httpVars, logVars>>
  \/ /\ Is("mirror") /\ MirrorNext
     /\ UNCHANGED <<ringVars, wsVars, talkVars, cfgVars, httpVars, logVars>>
  \/ /\ Is("conversation") /\ TalkNext
     /\ UNCHANGED <<ringVars, wsVars, mirrorVars, cfgVars, httpVars, logVars>>
  \/ /\ Is("config") /\ ConfigNext
     /\ UNCHANGED <<ringVars, wsVars, mirrorVars, talkVars, httpVars, logVars>>
  \/ /\ Is("http") /\ HttpNext
     /\ UNCHANGED <<ringVars, wsVars, mirrorVars, talkVars, cfgVars, logVars>>
  \/ /\ Is("log") /\ LogNext
     /\ UNCHANGED <<ringVars, wsVars, mirrorVars, talkVars, cfgVars, httpVars>>

DataSpec == DataInit /\ [][DataNext]_dataVars

\* Every part keeps its state within its types.
DataTypeOK ==
  TypeOK /\ WorkspaceTypeOK /\ MirrorTypeOK /\ TalkTypeOK
  /\ ConfigTypeOK /\ HttpTypeOK /\ LogTypeOK
=============================================================================
