----------------------------- MODULE RequestReply -----------------------------
(***************************************************************************)
(* Calls and answers: EmserverAdapter (client/src/emserveradapter.cpp)     *)
(* numbers and sends the calls, EmserverProcessor (common/src/             *)
(* processoremserver.cpp) dispatches the messages on either side, CServer  *)
(* (cserver/cserver.cpp) runs the user's callback and answers.             *)
(*                                                                         *)
(* A connection keeps the order of its messages (TcpSessionSend,           *)
(* TcpSessionRead); when it breaks, what is under way is lost, and each    *)
(* side learns of it in its own time.  Callers are the threads of the      *)
(* client's user; a side's messages are dispatched one by one by the       *)
(* processing thread of its session.  The user's code is the examples':    *)
(* the client keeps a table of its calls (examples/native_client/          *)
(* emserveradapterqt.cpp), the server answers in its callback and sends an *)
(* active sensor after it (examples/native_cserver/main.cpp), but it may   *)
(* as well keep a request and answer later.                                *)
(***************************************************************************)
EXTENDS Integers, Sequences, FiniteSets, SequencesExt

CONSTANTS Callers,
          Edge,          \* the first number that int32_t does not have
          MaxCalls,      \* bound: calls of the client's user
          MaxPushes,     \* bound: messages the server's user sends unasked
          MaxBreaks      \* bound: times the connection breaks

ASSUME BoundAssumption ==
  /\ Edge \in Nat \ {0}
  /\ {MaxCalls, MaxPushes, MaxBreaks} \subseteq Nat

VARIABLES methodCounter,
          call,          \* where each caller stands, with what
          m_calls,       \* the client user's table of calls
          clientHas,     \* the client's m_session is set
          serverHas,     \* the server's m_session is set
          link,          \* the socket of the two is open
          toServer, toClient,  \* messages under way
          server,        \* where the server's processing thread stands
          late,          \* the requests the server's user has kept for later
          issued,        \* history: the ids given to calls
          got,           \* history: the callbacks of the client's user
          waiting,       \* history: requests sent since the connection was made, no result yet
          refused,       \* history: the requests that were answered with invalid data
          delayed,       \* history: the requests that were answered after their callback
          adrift,        \* history: calls whose result came before their entry, or was lost
          pushes, breaks

client == <<methodCounter, call, issued, m_calls, adrift>>
session == <<clientHas, serverHas, link, breaks>>
marks == <<refused, delayed>>
vars == <<methodCounter, call, m_calls, clientHas, serverHas, link, toServer, toClient, server,
          late, issued, got, waiting, refused, delayed, adrift,
          pushes, breaks>>

\* EmserverProcessor::MethodCode, and the codes that its switch has a case for.
MethodCode == {"RequestCapabilites", "ResponseCapabilities", "ServerRuntimeNotification",
               "SensorsConfigurationControl", "SensorControl", "SensorActivated"}
Dispatched == MethodCode \ {"SensorsConfigurationControl"}

\* The callbacks that each side registers.
AtServer == {"RequestCapabilites", "SensorControl"}
AtClient == {"ResponseCapabilities", "ServerRuntimeNotification", "SensorActivated"}

\* commonCallbackProcessing: the codes that lead to a callback.
Runs(m, registered) == m.type \in Dispatched \intersect registered

Message(type, id) == [type |-> type, id |-> id]

\* int64_t to int32_t, to uint32_t.
ToUint32(n) == n % (2 * Edge)
ToInt32(n) == IF ToUint32(n) < Edge THEN ToUint32(n) ELSE ToUint32(n) - 2 * Edge

-----------------------------------------------------------------------------
Init ==
  /\ methodCounter = 1
  /\ call = [c \in Callers |-> [at |-> "idle", id |-> 0]]
  /\ m_calls = {} /\ adrift = {}
  /\ clientHas = TRUE /\ serverHas = TRUE /\ link = TRUE
  /\ toServer = <<>> /\ toClient = <<>>
  /\ server = [at |-> "idle", id |-> 0]
  /\ late = {}
  /\ issued = <<>> /\ got = <<>> /\ waiting = {}
  /\ refused = {} /\ delayed = {}
  /\ pushes = 0 /\ breaks = 0

-----------------------------------------------------------------------------
(* The client.                                                                 *)

\* callCode: methodCounter++, which is neither atomic nor under a lock.
LoadCounter(c) ==
  /\ call[c].at = "idle"
  /\ Len(issued) < MaxCalls
  /\ call' = [call EXCEPT ![c] = [at |-> "store", id |-> methodCounter]]
  /\ UNCHANGED <<methodCounter, issued, m_calls, adrift, session, toServer, toClient, server,
                 late, got, waiting, marks, pushes>>

StoreCounter(c) ==
  /\ call[c].at = "store"
  /\ methodCounter' = call[c].id + 1
  /\ call' = [call EXCEPT ![c] = [at |-> "send", id |-> ToInt32(call[c].id)]]
  /\ issued' = Append(issued, ToInt32(call[c].id))
  /\ UNCHANGED <<m_calls, adrift, session, toServer, toClient, server, late, got,
                 waiting, marks, pushes>>

\* Where the example's user stands after a call: it has an entry to make for one of
\* sendRequestCapabilities that returned a number.
Returned(c, type) ==
  call' = [call EXCEPT ![c].at = IF type = "RequestCapabilites" /\ clientHas
                                 THEN "record" ELSE "idle"]

\* sendRequestCapabilities and sendSensorsControl: without a session InvalidSessionError,
\* which is negative; with one that is broken the message is lost.
SendRequest(c) ==
  /\ call[c].at = "send"
  /\ \E type \in {"RequestCapabilites", "SensorsConfigurationControl"} :
       /\ Returned(c, type)
       /\ IF clientHas /\ link
          THEN /\ toServer' = Append(toServer, Message(type, call[c].id))
               /\ waiting' = waiting \union {Message(type, call[c].id)}
               /\ UNCHANGED adrift
          ELSE adrift' = adrift \union {call[c].id} /\ UNCHANGED <<toServer, waiting>>
  /\ UNCHANGED <<methodCounter, issued, m_calls, session, toClient, server, late, got,
                 marks, pushes>>

\* The example's entry for the call, made when it has returned.
RecordCall(c) ==
  /\ call[c].at = "record"
  /\ call' = [call EXCEPT ![c].at = "idle"]
  /\ m_calls' = m_calls \union {call[c].id}
  /\ UNCHANGED <<methodCounter, issued, adrift, session, toServer, toClient, server, late,
                 got, waiting, marks, pushes>>

\* onServerRuntimeNotification: the methodCode that the user is told of a result.
AnsweredCall(m) == IF m.type = "ServerRuntimeNotification" THEN {m.id} ELSE {}

\* A message for the client: the callback of its code, if the code has a case and the
\* callback is registered.  The example's takes the call of a result off its table.
ClientDispatch ==
  /\ toClient # <<>>
  /\ LET m == Head(toClient)
         answered == AnsweredCall(m) IN
       /\ got' = IF Runs(m, AtClient) THEN Append(got, m) ELSE got
       /\ waiting' = {w \in waiting : ToUint32(w.id) \notin answered}
       /\ m_calls' = m_calls \ answered
       /\ adrift' = adrift \union (answered \ (m_calls \union {0}))
  /\ toClient' = Tail(toClient)
  /\ UNCHANGED <<methodCounter, call, issued, session, toServer, server, late,
                 marks, pushes>>

-----------------------------------------------------------------------------
(* The server.                                                                 *)

\* m_session->sendData, if there is a session; lost if it is broken.
ServerSends(m) == toClient' = IF serverHas /\ link THEN Append(toClient, m) ELSE toClient

Result(id) == Message("ServerRuntimeNotification", ToUint32(id))

\* send_capabilities: data that is not valid is answered with a result of its own.
SendCapabilities(id) ==
  \/ /\ ServerSends(Message("ResponseCapabilities", id))
     /\ UNCHANGED refused
  \/ /\ ServerSends(Result(id))
     /\ refused' = refused \union {id}

ServerDispatch ==
  /\ server.at = "idle"
  /\ toServer # <<>>
  /\ LET m == Head(toServer)
     IN  server' = IF Runs(m, AtServer) THEN [at |-> "callback", id |-> m.id] ELSE server
  /\ toServer' = Tail(toServer)
  /\ UNCHANGED <<client, session, toClient, late, got, waiting, marks, pushes>>

\* Mutant: capabilities are sent without the request's number.
NoId ==
  /\ server.at = "callback"
  /\ server' = [server EXCEPT !.at = "result"]
  /\ SendCapabilities(-1)
  /\ UNCHANGED <<client, session, toServer, late, got, waiting, delayed, pushes>>

\* Mutant: the result is sent before the capabilities.
ResultFirst ==
  /\ server.at = "callback"
  /\ server' = [server EXCEPT !.at = "idle"]
  /\ serverHas /\ link
  /\ toClient' = toClient \o <<Result(server.id), Message("ResponseCapabilities", server.id)>>
  /\ UNCHANGED <<client, session, toServer, late, got, waiting, marks, pushes>>

\* The user's callback: it answers at once with send_capabilities,
CallbackReplies ==
  /\ server.at = "callback"
  /\ server' = [server EXCEPT !.at = "result"]
  /\ SendCapabilities(server.id)
  /\ UNCHANGED <<client, session, toServer, late, got, waiting, delayed, pushes>>

\* Mutant: the return after the result of a request that is not initialized is missing.
NoReturn ==
  /\ server.at = "callback"
  /\ server' = [server EXCEPT !.at = "result"]
  /\ ServerSends(Result(server.id))
  /\ UNCHANGED <<client, session, toServer, late, got, waiting, marks, pushes>>

\* Mutant: without a registered callback the request is forgotten.
NoResult ==
  /\ server.at = "callback"
  /\ server' = [server EXCEPT !.at = "idle"]
  /\ UNCHANGED <<client, session, toServer, toClient, late, got, waiting, marks, pushes>>

\* or not at all, as when none is registered, or keeps the request for later.
CallbackReturns ==
  /\ server.at = "callback"
  /\ server' = [server EXCEPT !.at = "result"]
  /\ late' \in {late, late \union {server.id}}
  /\ UNCHANGED <<client, session, toServer, toClient, got, waiting, marks, pushes>>

\* Mutant: the result does not say which call it is of.
NoMethodId ==
  /\ server.at = "result"
  /\ server' = [server EXCEPT !.at = "idle"]
  /\ ServerSends(Result(0))
  /\ UNCHANGED <<client, session, toServer, late, got, waiting, marks, pushes>>

SendMethodCallResult ==
  /\ server.at = "result"
  /\ server' = [server EXCEPT !.at = "idle"]
  /\ ServerSends(Result(server.id))
  /\ UNCHANGED <<client, session, toServer, late, got, waiting, marks, pushes>>

\* send_capabilities of another thread, whichever session there is by then.
ReplyLate ==
  \E id \in late :
    /\ late' = late \ {id}
    /\ SendCapabilities(id)
    /\ delayed' = delayed \union {id}
    /\ UNCHANGED <<client, session, toServer, server, got, waiting, pushes>>

\* server_runtime_error, whose methodId is 0,
RuntimeError ==
  /\ pushes < MaxPushes
  /\ pushes' = pushes + 1
  /\ ServerSends(Result(0))
  /\ UNCHANGED <<client, session, toServer, server, late, got, waiting, marks>>

\* and send_activesensor, whose number is the server user's own, 0 here; of a sensor
\* that is not valid a result is sent instead.
SendActivatedSensorState ==
  /\ pushes < MaxPushes
  /\ pushes' = pushes + 1
  /\ \/ ServerSends(Message("SensorActivated", 0))
     \/ ServerSends(Result(0))
  /\ UNCHANGED <<client, session, toServer, server, late, got, waiting, marks>>

-----------------------------------------------------------------------------
(* The connection.                                                             *)

Break ==
  /\ link
  /\ breaks < MaxBreaks
  /\ breaks' = breaks + 1
  /\ link' = FALSE
  /\ toServer' = <<>> /\ toClient' = <<>> /\ waiting' = {}
  /\ adrift' = adrift \union {w.id : w \in waiting}
  /\ UNCHANGED <<methodCounter, call, issued, m_calls, clientHas, serverHas, server, late,
                 got, marks, pushes>>

\* onSessionError and callbackSessionError: each side drops its session.
SideDrops ==
  /\ ~link
  /\ \/ clientHas /\ clientHas' = FALSE /\ UNCHANGED serverHas
     \/ serverHas /\ serverHas' = FALSE /\ UNCHANGED clientHas
  /\ UNCHANGED <<client, link, breaks, toServer, toClient, server, late, got, waiting,
                 marks, pushes>>

\* The server's session is destroyed, which joins its processing thread, before the
\* io thread takes the next client.
Reconnect ==
  /\ ~clientHas /\ ~serverHas /\ server.at = "idle"
  /\ clientHas' = TRUE /\ serverHas' = TRUE /\ link' = TRUE
  /\ UNCHANGED <<client, breaks, toServer, toClient, server, late, got, waiting, marks, pushes>>

-----------------------------------------------------------------------------
ServerRuns == ServerDispatch \/ CallbackReplies \/ CallbackReturns \/ SendMethodCallResult

\* Every call is made and answered, and nothing is under way.
Quiet ==
  /\ Len(issued) >= MaxCalls /\ \A c \in Callers : call[c].at = "idle"
  /\ toServer = <<>> /\ toClient = <<>> /\ server.at = "idle" /\ late = {}
  /\ UNCHANGED vars

Next == \/ \E c \in Callers : LoadCounter(c) \/ StoreCounter(c) \/ SendRequest(c) \/ RecordCall(c)
        \/ ClientDispatch \/ ServerRuns \/ ReplyLate \/ RuntimeError
        \/ SendActivatedSensorState
        \/ Break \/ SideDrops \/ Reconnect
        \/ Quiet

Spec == Init /\ [][Next]_vars

\* The processing threads run; the server's user returns from its callback.
FairSpec == Spec /\ WF_vars(ClientDispatch) /\ WF_vars(ServerRuns)

-----------------------------------------------------------------------------
Results == {i \in DOMAIN got : got[i].type = "ServerRuntimeNotification" /\ got[i].id # 0}
RuntimeErrors(seq) == {i \in DOMAIN seq : seq[i] = Message("ServerRuntimeNotification", 0)}

\* "methodCode: the identifier of the call" (client/hdr/interop.h, ErrorDescriptor): a
\* result names a call by the id the call returned, and methodCode 0 is left to the
\* runtime errors of the server (protocol/proto/emserver.proto).
ResultNamesCall ==
  /\ \A i \in Results : got[i].id \in Range(issued)
  /\ Cardinality(RuntimeErrors(got)) <= pushes

\* How often a message has come, and a number was given to a call.
Received(m) == Cardinality({i \in DOMAIN got : got[i] = m})
Calls(id) == Cardinality({i \in DOMAIN issued : issued[i] = id})

\* A call has one result over all the sessions it is answered in, and a second only if
\* the server's user answered it with invalid data.  Calls of two threads that were
\* given the same number have as many together.
OneResult ==
  \A i \in Results :
    Received(got[i]) <= Calls(got[i].id) * (IF got[i].id \in refused THEN 2 ELSE 1)

\* Capabilities answer a call of this client, over a later session perhaps, and none
\* but the callback's single answer.
CapabilitiesAsked ==
  \A i \in DOMAIN got :
    got[i].type = "ResponseCapabilities" => Received(got[i]) <= Calls(got[i].id)

\* The result is the last word of a call that the server's user answers in its callback
\* or not at all: after it no capabilities come for that call, so that the user may
\* forget it.
ResultIsLast ==
  \A i, j \in DOMAIN got :
    (got[i].type = "ServerRuntimeNotification" /\ got[j].type = "ResponseCapabilities"
       /\ got[i].id = got[j].id /\ Calls(got[i].id) = 1 /\ got[i].id \notin delayed)
      => j < i

\* The example's table does not fill up: an entry is erased when the call's result comes,
\* unless the result overtook the entry, which is made only after the call has returned,
\* or was lost with the connection; those entries stay for good.
CallForgotten == \A id \in 1 .. MaxCalls : id \in m_calls ~> id \notin m_calls \/ id \in adrift
=============================================================================
