------------------------------ MODULE DshCalls ------------------------------
(***************************************************************************)
(* What the sender does with a request of a client (agent/main.c           *)
(* handle_request) and with the call to dsh it may need                    *)
(* (common/net/dsh_http.c dsh_rpc_call).  One thread takes the requests in *)
(* order and is blocked while a call is out; dsh carries a call out on its *)
(* own time, also after the sender has stopped waiting for the answer.     *)
(* What dsh answers is modelled from how the sender reads it.              *)
(*                                                                         *)
(* A request is a method and whether it has the fields the method needs.   *)
(* The mapped methods and the ones passed through differ in the shape of   *)
(* their arguments only: "mapped" stands for both.  session/page and       *)
(* session/prompt stand in METHOD_MAP too, and are never reached there.    *)
(***************************************************************************)
EXTENDS Integers, Sequences, SequencesExt

CONSTANTS Requests,      \* requests that reach the sender
          MaxOutages     \* bound: changes of what is connected

ASSUME CallsAssumption == MaxOutages \in Nat /\ "none" \notin Requests

VARIABLES
  relayUp, dshReady, wsReady,  \* relay_ready, dsh_ready, ws_ready
  following,   \* does the session asked about have a follow stream
  eventsId,    \* events_client_id: "" or whether its stream is still open
  plainName,   \* device_name holds nothing that JSON escapes
  method,      \* the method of a request that has been read
  current,     \* the request being handled, or "none"
  todo,        \* the calls it still needs
  collected,   \* is what was collected for it so far JSON
  posted,      \* calls dsh has been sent and has not carried out
  effects,     \* how often dsh, or mkdir, has carried a request out
  answers,     \* the codes a request was answered with; "result" is a value
  outages

linkVars  == <<relayUp, dshReady, wsReady, following, eventsId, outages>>
workVars  == <<method, current, todo, collected>>
dshVars   == <<posted, effects>>
callsVars == <<linkVars, plainName, workVars, dshVars, answers>>

Local   == {"status", "browse", "mkdir", "subscribe", "unsubscribe", "refresh"}
Changes == {"respond", "prompt", "mapped"}
Methods == Local \cup Changes \cup {"too long", "bundle", "sessions", "balance", "page"}

Unanswered == {"relay/transport", "relay/http-error", "relay/bad-response"}
Refused == {"relay/bad-request", "relay/mux-unavailable", "relay/dsh-unavailable",
            "relay/not-subscribed", "relay/not-connected", "relay/not-following",
            "relay/browse-failed", "relay/mkdir-failed", "dsh"}
Codes == {"result", "relay/balance-unavailable"} \cup Unanswered \cup Refused

CallsTypeOK ==
  /\ {relayUp, dshReady, wsReady, following, plainName, collected} \subseteq BOOLEAN
  /\ eventsId \in {"", "open", "gone"}
  /\ method \in [Requests -> Methods \cup {"none"}] /\ current \in Requests \cup {"none"}
  /\ todo \in Seq({"call", "list", "catalog", "balance"})
  /\ posted \subseteq Requests /\ effects \in [Requests -> Nat]
  /\ answers \in [Requests -> Seq(Codes)]
  /\ outages \in 0 .. MaxOutages

CallsInit ==
  /\ relayUp = TRUE /\ dshReady \in BOOLEAN /\ wsReady = FALSE /\ following = FALSE
  /\ eventsId = "" /\ plainName \in BOOLEAN
  /\ method = [r \in Requests |-> "none"] /\ current = "none"
  /\ todo = <<>> /\ collected = TRUE
  /\ posted = {} /\ effects = [r \in Requests |-> 0]
  /\ answers = [r \in Requests |-> <<>>]
  /\ outages = 0

-----------------------------------------------------------------------------
\* Answers.

\* reply_result and reply_error: relay_send when the link is up.  The relay drops a
\* sender whose frame is not JSON (dsh_message_read).
Reply(r, code, json) ==
  IF relayUp
  THEN /\ answers' = [answers EXCEPT ![r] = Append(@, code)]
       /\ relayUp' = json
  ELSE UNCHANGED <<answers, relayUp>>

Done == current' = "none" /\ todo' = <<>> /\ collected' = TRUE

\* Why a request is refused without being tried, or "none".
Refusal(m, complete) ==
  CASE m = "too long" -> "relay/bad-request"
    [] m \in {"status", "browse", "mkdir", "bundle", "sessions", "unsubscribe"} -> "none"
    [] m = "subscribe" -> IF ~wsReady THEN "relay/mux-unavailable"
                          ELSE IF ~complete THEN "relay/bad-request" ELSE "none"
    [] ~dshReady -> "relay/dsh-unavailable"
    [] m \in {"respond", "page", "prompt"} /\ ~complete -> "relay/bad-request"
    [] m = "respond" /\ eventsId = "" -> "relay/not-subscribed"
    [] m = "refresh" /\ ~wsReady -> "relay/not-connected"
    [] m = "page" /\ ~following -> "relay/not-following"
    [] OTHER -> "none"

\* The next request: nothing is read while a call is out.
Reads(r, m) ==
  /\ current = "none" /\ relayUp /\ method[r] = "none"
  /\ method' = [method EXCEPT ![r] = m]

Refuse(r, m, complete) ==
  /\ Reads(r, m) /\ Refusal(m, complete) # "none"
  /\ Reply(r, Refusal(m, complete), TRUE)
  /\ UNCHANGED <<dshReady, wsReady, following, eventsId, outages, plainName,
                 current, todo, collected, dshVars>>

\* What the sender answers by itself: its status, the file system, its streams.
\* Opening the events stream again forgets the client id until the ready frame.
AnswerLocally(r, m, complete) ==
  /\ Reads(r, m) /\ m \in Local /\ Refusal(m, complete) = "none"
  /\ \/ /\ Reply(r, "result", m = "status" => plainName)
        /\ effects' = IF m = "mkdir" THEN [effects EXCEPT ![r] = @ + 1] ELSE effects
     \/ /\ m \in {"browse", "mkdir"} /\ UNCHANGED effects
        /\ Reply(r, IF m = "browse" THEN "relay/browse-failed" ELSE "relay/mkdir-failed", TRUE)
  /\ following' = CASE m = "subscribe" -> TRUE [] m = "unsubscribe" -> FALSE [] OTHER -> following
  /\ eventsId' = IF m = "refresh" THEN "" ELSE eventsId
  /\ UNCHANGED <<dshReady, wsReady, outages, plainName, current, todo, collected, posted>>

\* A client that gives throughSeq pages without a stream, and one that leaves a
\* part of the bundle out saves its call.
CallsOf(m) ==
  CASE m = "bundle"   -> {a \o b \o c : a \in {<<>>, <<"list">>}, b \in {<<>>, <<"catalog">>},
                                  c \in {<<>>, <<"balance">>}}
    [] m = "sessions" -> {<<"list">>}
    [] m = "balance"  -> {<<"balance">>}
    [] OTHER          -> {<<"call">>}

StartCalls(r, m, complete) ==
  /\ Reads(r, m) /\ m \notin Local
  /\ Refusal(m, complete) \in {"none"} \cup (IF m = "page" THEN {"relay/not-following"} ELSE {})
  /\ todo' \in CallsOf(m)
  /\ current' = r /\ collected' = (m = "bundle" => plainName)
  /\ posted' = IF m \in Changes THEN posted \cup {r} ELSE posted
  /\ UNCHANGED <<linkVars, plainName, effects, answers>>

-----------------------------------------------------------------------------
\* dsh.

\* It carries a call out, once, whether or not the sender still waits for it.
CarryOut(r) ==
  /\ r \in posted /\ posted' = posted \ {r}
  /\ effects' = [effects EXCEPT ![r] = @ + 1]
  /\ UNCHANGED <<linkVars, plainName, workVars, answers>>

\* How dsh_rpc_call ends: the call never reached dsh, dsh refused it, it was done
\* and the answer came whole or cut short, it failed behind a status of its own, or
\* nothing came for 15 s.  A client id that is gone names nothing, and is refused.
Outcomes(r) ==
  LET change == method[r] \in Changes
      carried == ~change \/ r \notin posted
      stale  == method[r] = "respond" /\ eventsId = "gone"
  IN  (IF carried /\ ~stale THEN {<<"result", posted>>, <<"relay/bad-response", posted>>} ELSE {})
        \cup (IF change => ~carried
              THEN {<<"dsh", posted \ {r}>>, <<"relay/transport", posted \ {r}>>} ELSE {})
        \cup {<<"relay/http-error", posted \ {r}>>, <<"relay/transport", posted>>}

Calling(call) == current # "none" /\ todo # <<>> /\ Head(todo) = call

\* Mutant: an answer with another status than 200 is taken for a refusal of dsh.
StatusIsRefusal ==
  /\ Calling("call")
  /\ \E o \in Outcomes(current) :
       /\ Reply(current, IF o[1] = "relay/http-error" THEN "dsh" ELSE o[1], TRUE)
       /\ posted' = o[2]
  /\ Done
  /\ UNCHANGED <<dshReady, wsReady, following, eventsId, outages, plainName, method, effects>>

\* call_and_reply.
CallReturns ==
  /\ Calling("call")
  /\ \E o \in Outcomes(current) : Reply(current, o[1], TRUE) /\ posted' = o[2]
  /\ Done
  /\ UNCHANGED <<dshReady, wsReady, following, eventsId, outages, plainName, method, effects>>

\* Mutant: a list that cannot be read is not answered.
ListFailsSilently ==
  /\ Calling("list") /\ method[current] = "sessions"
  /\ \E o \in Outcomes(current) : IF o[1] = "result" THEN Reply(current, o[1], TRUE)
                                   ELSE UNCHANGED <<answers, relayUp>>
  /\ Done
  /\ UNCHANGED <<dshReady, wsReady, following, eventsId, outages, plainName, method, dshVars>>

\* sessions/list.
ListReturns ==
  /\ Calling("list") /\ method[current] = "sessions"
  /\ \E o \in Outcomes(current) : Reply(current, o[1], TRUE)
  /\ Done
  /\ UNCHANGED <<dshReady, wsReady, following, eventsId, outages, plainName, method, dshVars>>

\* balance/get forwards the body as it came, whatever it is.
BalanceReturns ==
  /\ Calling("balance") /\ method[current] = "balance"
  /\ \/ Reply(current, "relay/balance-unavailable", TRUE)
     \/ \E json \in BOOLEAN : Reply(current, "result", json)
  /\ Done
  /\ UNCHANGED <<dshReady, wsReady, following, eventsId, outages, plainName, method, dshVars>>

\* relay/bundle: a part that fails is listed as failed, the others follow.
BundlePart ==
  /\ current # "none" /\ todo # <<>> /\ method[current] = "bundle"
  /\ todo' = Tail(todo)
  /\ \/ UNCHANGED collected
     \/ Head(todo) = "balance" /\ collected' = FALSE
  /\ UNCHANGED <<linkVars, plainName, method, current, dshVars, answers>>

BundleReturns ==
  /\ current # "none" /\ todo = <<>>
  /\ Reply(current, "result", collected)
  /\ Done
  /\ UNCHANGED <<dshReady, wsReady, following, eventsId, outages, plainName, method, dshVars>>

-----------------------------------------------------------------------------
\* Around them, between two requests, as the loop finds it.

Between == current = "none" /\ outages < MaxOutages /\ outages' = outages + 1
           /\ UNCHANGED <<plainName, workVars, dshVars, answers>>

\* The link may also fail while a call is out: the reply is then lost.
LinkFails ==
  /\ relayUp /\ relayUp' = FALSE /\ outages < MaxOutages /\ outages' = outages + 1
  /\ UNCHANGED <<dshReady, wsReady, following, eventsId, plainName, workVars, dshVars, answers>>

LinkReturns == ~relayUp /\ relayUp' = TRUE /\ UNCHANGED <<dshReady, wsReady, following, eventsId>> /\ Between

DshAnswers(up) == dshReady # up /\ dshReady' = up /\ UNCHANGED <<relayUp, wsReady, following, eventsId>> /\ Between

\* A mux that opens has no streams; one that drops leaves the client id behind.
MuxOpens == ~wsReady /\ wsReady' = TRUE /\ UNCHANGED <<relayUp, dshReady, following, eventsId>> /\ Between

MuxDrops ==
  /\ wsReady /\ wsReady' = FALSE /\ following' = FALSE
  /\ eventsId' = IF eventsId = "" THEN "" ELSE "gone"
  /\ UNCHANGED <<relayUp, dshReady>> /\ Between

ReadyFrame == wsReady /\ eventsId' = "open" /\ UNCHANGED <<relayUp, dshReady, wsReady, following>> /\ Between

CallsReturn == CallReturns \/ ListReturns \/ BalanceReturns \/ BundlePart \/ BundleReturns

CallsNext ==
  \/ \E r \in Requests, m \in Methods, complete \in BOOLEAN :
       Refuse(r, m, complete) \/ AnswerLocally(r, m, complete) \/ StartCalls(r, m, complete)
  \/ \E r \in Requests : CarryOut(r)
  \/ CallsReturn
  \/ LinkFails \/ LinkReturns \/ MuxOpens \/ MuxDrops \/ ReadyFrame
  \/ \E up \in BOOLEAN : DshAnswers(up)

\* Every call ends: its socket has a timeout.
CallsSpec == CallsInit /\ [][CallsNext]_callsVars /\ WF_callsVars(CallsReturn)

-----------------------------------------------------------------------------
\* Properties.

\* What a client is told, it is told once, and it is so, then and later: a value means
\* that the request was carried out, a refusal that it was not and will not be; only
\* transport, status and unreadable answers leave it open (handle_request,
\* call_and_reply, dsh_rpc_call).
AnswersAreTrue ==
  \A r \in Requests :
    /\ Len(answers[r]) <= 1
    /\ method[r] \in Changes \cup {"mkdir"} =>
         /\ "result" \in Range(answers[r]) => effects[r] = 1
         /\ Range(answers[r]) \cap Refused # {} => effects[r] = 0 /\ r \notin posted
         /\ effects[r] <= 1

\* A request that needs dsh is answered in the end, however its calls go, unless
\* the link fails first (handle_request).
EveryRequestAnswered ==
  \A r \in Requests : (current = r /\ relayUp) ~> (answers[r] # <<>> \/ ~relayUp)
=============================================================================
