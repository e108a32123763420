---------------------------- MODULE SessionTeardown ----------------------------
(***************************************************************************)
(* The end of a server's session.  Three threads work for it: the io       *)
(* thread, which runs its handlers and the user's connected callback; its  *)
(* processing thread, which runs the user's request callback and sends the *)
(* result; and a thread of the user's own.  Each may send, and each may    *)
(* reset CServer::m_session.  Whoever lets go of the last reference runs   *)
(* the destructor, which joins the processing thread (common/src/          *)
(* tcpsession.cpp, commonprocessor.cpp, cserver/cserver.cpp).              *)
(*                                                                         *)
(* m_session is a plain shared_ptr: a test of it and its use are two       *)
(* steps, and two threads may be in its reset at once.                     *)
(*                                                                         *)
(* The gate of sendData is the one of TcpSessionSend, in two steps: own    *)
(* m_sendSyncMutex, then write once m_inSendMode is down.  Only the io     *)
(* thread lowers that flag.  The gate is destroyed before the processing   *)
(* thread is joined; a step that needs it from then on does what it would  *)
(* have done, or anything.                                                 *)
(***************************************************************************)
EXTENDS Integers

CONSTANTS NoThread,       \* m_sendSyncMutex is free
          MaxSends,       \* bound: messages the server's user sends
          MaxRequests     \* bound: requests of the client

Threads == {"io", "processing", "user"}

ASSUME BoundAssumption == {MaxSends, MaxRequests} \subseteq Nat
ASSUME ThreadAssumption == NoThread \notin Threads

VARIABLES at,               \* where each thread stands
          back,             \* where it stood when it called sendData
          connected,        \* the io thread is in the connected handler, which refers
                            \* to the session too
          m_session,        \* "set", "null", or "dead": destroyed as a member of CServer
          dropped,          \* history: the thread that has reset m_session, or NoThread
          life,             \* of the session, see below
          m_sendSyncMutex,  \* the thread that owns it, or NoThread
          m_inSendMode,
          write,            \* the async_write: "none", "flying", "done" (its handler is queued)
          read,             \* the async_read: "pending", "off", or its handler is queued:
                            \* "arrived" or "failed"
          link,             \* "up" or "down"
          m_needExit,
          queued,           \* requests handed to the processing thread
          process,          \* "up", "terminated" or "undefined"
          releasing,        \* server_release has been called
          sends, requests

\* life: "alive"; "closing" when ~TcpSession has taken onSessionError_ away and closed the
\* socket; "joining" when the gate is destroyed and ~CommonProcessor joins; "gone".

calls   == <<at, back>>
session == <<connected, m_session, dropped, life>>
gate    == <<m_sendSyncMutex, m_inSendMode>>
network == <<read, link>>
worker  == <<m_needExit, queued>>
bounds  == <<releasing, sends, requests>>
vars == <<at, back, connected, m_session, dropped, life, m_sendSyncMutex, m_inSendMode, write,
          read, link, m_needExit, queued, process, releasing, sends, requests>>

Goto(t, step) == at' = [at EXCEPT ![t] = step]

\* Where a thread goes on that has let go of the session.
After(t) == CASE t = "io" -> IF connected THEN "callback" ELSE "idle"
              [] t = "user" -> IF releasing THEN "stop" ELSE "callback"
              [] OTHER -> "callback"

\* Memory that is no more was used: nothing else is known of this step.
Breaks ==
  /\ process' = "undefined"
  /\ UNCHANGED <<calls, session, gate, write, network, worker, bounds>>

-----------------------------------------------------------------------------
\* A client has just connected: the io thread is in the user's onClientConnected_, and
\* the session reads already; its first request may have come before that.
Init ==
  /\ at = [t \in Threads |-> IF t = "processing" THEN "idle" ELSE "callback"]
  /\ back = [t \in Threads |-> "idle"]
  /\ connected = TRUE /\ m_session = "set" /\ dropped = NoThread /\ life = "alive"
  /\ m_sendSyncMutex = NoThread /\ m_inSendMode = FALSE
  /\ write = "none" /\ read \in {"pending", "arrived"} /\ link = "up"
  /\ m_needExit = FALSE /\ queued = 0
  /\ process = "up"
  /\ releasing = FALSE /\ sends = 0 /\ requests = 0

-----------------------------------------------------------------------------
(* sendData, on any thread.                                                    *)

\* send_capabilities, send_activesensor and server_runtime_error: if(m_session).
UserSends(t) ==
  /\ at[t] = "callback" /\ ~releasing
  /\ m_session # "null"
  /\ sends < MaxSends
  /\ sends' = sends + 1
  /\ Goto(t, "use") /\ back' = [back EXCEPT ![t] = "callback"]
  /\ UNCHANGED <<session, gate, write, network, worker, process, releasing, requests>>

\* sendMethodCallResult, when the request callback has returned: the same test.
SendMethodCallResult ==
  /\ at["processing"] = "result"
  /\ Goto("processing", IF m_session = "null" THEN "idle" ELSE "use")
  /\ back' = [back EXCEPT !["processing"] = "idle"]
  /\ UNCHANGED <<session, gate, write, network, worker, process, bounds>>

\* m_session->sendData: it returns when the socket is closed.
UseSession(t) ==
  /\ at[t] = "use"
  /\ \/ /\ m_session # "null" /\ life # "gone"
        /\ Goto(t, IF life = "alive" THEN "lock" ELSE back[t])
        /\ UNCHANGED <<back, session, gate, write, network, worker, process, bounds>>
     \/ /\ m_session = "null" \/ life = "gone"
        /\ Breaks

LockSendSync(t) ==
  /\ at[t] = "lock" /\ life # "gone"
  /\ m_sendSyncMutex = NoThread
  /\ m_sendSyncMutex' = t
  /\ Goto(t, "gate")
  /\ UNCHANGED <<back, session, m_inSendMode, write, network, worker, process, bounds>>

\* On a socket that was closed meanwhile the write fails at once.
WriteFrame(t) ==
  /\ at[t] = "gate" /\ life # "gone"
  /\ ~m_inSendMode
  /\ m_inSendMode' = TRUE
  /\ m_sendSyncMutex' = NoThread
  /\ write' = IF life = "alive" THEN "flying" ELSE "done"
  /\ Goto(t, back[t])
  /\ UNCHANGED <<back, session, network, worker, process, bounds>>

InSendData(t) == at[t] \in {"lock", "gate"}

\* The mutexes, the condition variable and the flag are destroyed under the sender.
SendsOnJoining(t) == InSendData(t) /\ life = "joining" /\ Breaks

SendsOnGone(t) == InSendData(t) /\ life = "gone" /\ Breaks

-----------------------------------------------------------------------------
(* The network.  The io thread finds out that something is there when it waits. *)

\* All is written, or the connection has failed, or the socket was closed.
WriteCompletes ==
  /\ write = "flying"
  /\ write' = "done"
  /\ UNCHANGED <<calls, session, gate, network, worker, process, bounds>>

LinkBreaks ==
  /\ link = "up" /\ life = "alive"
  /\ link' = "down"
  /\ UNCHANGED <<calls, session, gate, write, read, worker, process, bounds>>

RequestArrives ==
  /\ read = "pending" /\ link = "up" /\ at["io"] = "idle"
  /\ requests < MaxRequests
  /\ requests' = requests + 1
  /\ read' = "arrived"
  /\ UNCHANGED <<calls, session, gate, write, link, worker, process, releasing, sends>>

ReadFails ==
  /\ read = "pending" /\ link = "down" /\ at["io"] = "idle"
  /\ read' = "failed"
  /\ UNCHANGED <<calls, session, gate, write, link, worker, process, bounds>>

-----------------------------------------------------------------------------
(* The io thread.                                                              *)

\* Mutant of HandlerWrite: the flag stays up.
FlagStaysUp ==
  /\ at["io"] = "idle" /\ write = "done"
  /\ write' = "none"
  /\ Goto("io", IF life = "alive" /\ link = "down" THEN "reset" ELSE "idle")
  /\ UNCHANGED <<back, session, gate, network, worker, process, bounds>>

\* handlerWrite: the flag goes down; an error that is not an abort goes to
\* onSessionError_, unless the destructor has taken that away.
HandlerWrite ==
  /\ at["io"] = "idle" /\ write = "done"
  /\ \/ /\ life # "gone"
        /\ write' = "none"
        /\ m_inSendMode' = FALSE
        /\ \/ Goto("io", "idle")
           \/ life = "alive" /\ link = "down" /\ Goto("io", "reset")
        /\ UNCHANGED <<back, session, m_sendSyncMutex, network, worker, process, bounds>>
     \/ life = "gone" /\ Breaks

\* The same with the gate destroyed.
HandlerWriteOnJoining ==
  at["io"] = "idle" /\ write = "done" /\ life = "joining" /\ Breaks

\* handlerRead with an error that is not an abort: likewise.
HandlerReadError ==
  /\ at["io"] = "idle" /\ read = "failed"
  /\ \/ /\ life # "gone"
        /\ read' = "off"
        /\ Goto("io", IF life = "alive" THEN "reset" ELSE "idle")
        /\ UNCHANGED <<back, session, gate, write, link, worker, process, bounds>>
     \/ life = "gone" /\ Breaks

\* handlerRead hands a request to the processing thread and reads on.  On a socket that
\* another thread has closed m_socket.available() throws, out of the io thread.
HandlerRead ==
  /\ at["io"] = "idle" /\ read = "arrived"
  /\ \/ /\ life = "alive"
        /\ queued' = queued + 1
        /\ read' = "pending"
        /\ UNCHANGED <<calls, session, gate, write, link, m_needExit, process, bounds>>
     \/ /\ life \in {"closing", "joining"}
        /\ process' = "terminated"
        /\ UNCHANGED <<calls, session, gate, write, network, worker, bounds>>
     \/ life = "gone" /\ Breaks

-----------------------------------------------------------------------------
(* The end of the session.                                                     *)

\* The last reference is let go on thread t: ~TcpSession closes the socket, which aborts
\* a pending read.
Destroy(t) ==
  /\ life' = "closing"
  /\ read' = IF read = "pending" THEN "off" ELSE read
  /\ Goto(t, "destroy")

\* server_close, called by the user on any of the three threads: if(m_session).
Close(t) ==
  /\ at[t] = "callback" /\ ~releasing
  /\ m_session # "null"
  /\ Goto(t, "reset")
  /\ UNCHANGED <<back, session, gate, write, network, worker, process, bounds>>

\* server_release: ~CServer drops the session if there is one, and then joins the io
\* thread in ~TransportServer.
Release ==
  /\ at["user"] = "callback"
  /\ releasing' = TRUE
  /\ Goto("user", "reset")
  /\ UNCHANGED <<back, session, gate, write, network, worker, process, sends, requests>>

\* Mutant of ResetSession: m_session is taken for the only reference.
ResetIsLast(t) ==
  /\ at[t] = "reset" /\ m_session = "set"
  /\ m_session' = IF releasing /\ t = "user" THEN "dead" ELSE "null"
  /\ dropped' = t
  /\ Destroy(t)
  /\ UNCHANGED <<back, connected, gate, write, link, worker, process, bounds>>

\* m_session.reset() in close and callbackSessionError, the member's destruction in
\* ~CServer: the session is destroyed unless the connected handler still refers to it.
ResetSession(t) ==
  /\ at[t] = "reset" /\ m_session = "set"
  /\ m_session' = IF releasing /\ t = "user" THEN "dead" ELSE "null"
  /\ dropped' = t
  /\ IF connected THEN Goto(t, After(t)) /\ UNCHANGED <<life, read>>
                  ELSE Destroy(t)
  /\ UNCHANGED <<back, connected, gate, write, link, worker, process, bounds>>

NothingToReset(t) ==
  /\ at[t] = "reset" /\ m_session = "null"
  /\ Goto(t, After(t))
  /\ UNCHANGED <<back, session, gate, write, network, worker, process, bounds>>

\* Two threads in the reset both take the reference and let go of it twice.
ResetsAtOnce(t) ==
  /\ at[t] = "reset" /\ m_session = "set"
  /\ \E u \in Threads \ {t} : at[u] = "reset"
  /\ Breaks

\* A reset of what ~CServer has destroyed.
ResetsDead(t) == at[t] = "reset" /\ m_session = "dead" /\ Breaks

\* The members of TcpSession go, the gate first; ~CommonProcessor tells the processing
\* thread to end.  A thread that joins itself throws out of the destructor.
DestroyGate(t) ==
  /\ at[t] = "destroy"
  /\ life' = "joining"
  /\ m_needExit' = TRUE
  /\ Goto(t, "join")
  /\ process' = IF t = "processing" THEN "terminated" ELSE process
  /\ UNCHANGED <<back, connected, m_session, dropped, gate, write, network, queued, bounds>>

\* Mutant of Join: the processing thread is detached.
Detaches(t) ==
  /\ at[t] = "join"
  /\ life' = "gone"
  /\ Goto(t, After(t))
  /\ UNCHANGED <<back, connected, m_session, dropped, gate, write, network, worker, process,
                 bounds>>

Join(t) ==
  /\ at[t] = "join" /\ at["processing"] = "exit"
  /\ life' = "gone"
  /\ Goto(t, After(t))
  /\ UNCHANGED <<back, connected, m_session, dropped, gate, write, network, worker, process,
                 bounds>>

\* onClientConnected_ returns, and with it the handler and its references.
ConnectedReturns ==
  /\ at["io"] = "callback"
  /\ connected' = FALSE
  /\ IF m_session = "set" THEN Goto("io", "idle") /\ UNCHANGED <<life, read>>
                          ELSE Destroy("io")
  /\ UNCHANGED <<back, m_session, dropped, gate, write, link, worker, process, bounds>>

\* io_context::run returns when no operation is left.
JoinIoThread ==
  /\ at["user"] = "stop"
  /\ at["io"] = "idle" /\ write = "none" /\ read = "off"
  /\ Goto("user", "exit")
  /\ UNCHANGED <<back, session, gate, write, network, worker, process, bounds>>

-----------------------------------------------------------------------------
(* The processing thread.                                                      *)

TakeRequest ==
  /\ at["processing"] = "idle" /\ ~m_needExit
  /\ queued > 0
  /\ queued' = queued - 1
  /\ Goto("processing", "callback")
  /\ UNCHANGED <<back, session, gate, write, network, m_needExit, process, bounds>>

CallbackReturns ==
  /\ at["processing"] = "callback"
  /\ Goto("processing", "result")
  /\ UNCHANGED <<back, session, gate, write, network, worker, process, bounds>>

\* Mutant of Exit: the thread leaves only when it has taken every request.
ExitsWhenDrained ==
  /\ at["processing"] = "idle" /\ m_needExit
  /\ queued = 0
  /\ Goto("processing", "exit")
  /\ UNCHANGED <<back, session, gate, write, network, worker, process, bounds>>

Exit ==
  /\ at["processing"] = "idle" /\ m_needExit
  /\ Goto("processing", "exit")
  /\ UNCHANGED <<back, session, gate, write, network, worker, process, bounds>>

-----------------------------------------------------------------------------
Sending(t) == UseSession(t) \/ LockSendSync(t) \/ WriteFrame(t) \/ SendsOnGone(t)

Dropping(t) == ResetSession(t) \/ NothingToReset(t) \/ ResetsDead(t) \/ DestroyGate(t) \/ Join(t)

IoThread == HandlerWrite \/ HandlerReadError \/ HandlerRead \/ ConnectedReturns

ProcessingThread == TakeRequest \/ CallbackReturns \/ SendMethodCallResult \/ Exit

Network == WriteCompletes \/ ReadFails

\* What a race or a destroyed gate may do besides.
Undefined == \/ HandlerWriteOnJoining
             \/ \E t \in Threads : SendsOnJoining(t) \/ ResetsAtOnce(t)

\* A process that is no more does nothing.
Next == /\ process = "up"
        /\ \/ \E t \in Threads : UserSends(t) \/ Sending(t) \/ Close(t) \/ Dropping(t)
           \/ Release \/ JoinIoThread
           \/ IoThread \/ ProcessingThread
           \/ Network \/ LinkBreaks \/ RequestArrives
           \/ Undefined

Spec == Init /\ [][Next]_vars

\* Threads run, callbacks return, the peer reads or the connection fails; nobody need
\* send or close, and nothing undefined need come of a race or of the destroyed gate.  The
\* user's thread and the processing thread may lock the mutex in any order, and both
\* will, as each sends a bounded number of times.
FairSpec ==
  /\ Spec
  /\ WF_vars(process = "up" /\ IoThread) /\ WF_vars(process = "up" /\ ProcessingThread)
  /\ WF_vars(process = "up" /\ Network)
  /\ WF_vars(process = "up" /\ JoinIoThread)
  /\ \A t \in Threads : /\ WF_vars(process = "up" /\ Sending(t))
                        /\ WF_vars(process = "up" /\ Dropping(t))

-----------------------------------------------------------------------------
TypeOK ==
  /\ at \in [Threads -> {"idle", "callback", "use", "lock", "gate", "result", "reset",
                         "destroy", "join", "stop", "exit"}]
  /\ back \in [Threads -> {"idle", "callback"}]
  /\ connected \in BOOLEAN
  /\ m_session \in {"set", "null", "dead"}
  /\ dropped \in Threads \union {NoThread}
  /\ life \in {"alive", "closing", "joining", "gone"}
  /\ m_sendSyncMutex \in Threads \union {NoThread}
  /\ {m_inSendMode, m_needExit} \subseteq BOOLEAN
  /\ write \in {"none", "flying", "done"}
  /\ read \in {"pending", "arrived", "failed", "off"}
  /\ link \in {"up", "down"}
  /\ releasing \in BOOLEAN
  /\ process \in {"up", "terminated", "undefined"}
  /\ sends \in 0 .. MaxSends /\ requests \in 0 .. MaxRequests /\ queued \in Nat

\* Whichever of three threads drops the session, in a process that lives one of them
\* destroys it: never under the connected handler, which refers to it, always when that
\* handler and m_session have let go of it, and to the end, with its processing thread.
DestroyedOnce ==
  process = "up" =>
    /\ \A t, u \in Threads : {at[t], at[u]} \subseteq {"destroy", "join"} => t = u
    /\ life = "alive" <=> connected \/ m_session = "set"
    /\ life \in {"closing", "joining"} <=> \E t \in Threads : at[t] \in {"destroy", "join"}
    /\ life = "gone" => at["processing"] = "exit"

\* When server_close of a thread of the user's own has dropped the session and returned, no
\* request callback of that client runs or will be started, also when the session itself
\* outlives the call in the connected handler of the io thread.
QuietAfterClose ==
  process = "up" /\ dropped = "user" /\ at["user"] = "callback" =>
    at["processing"] = "exit" \/ (at["processing"] = "idle" /\ queued = 0)

\* A call of sendData returns, unless the io thread, which alone lowers the flag, is in
\* sendData itself or joins the processing thread.
SendReturns ==
  \A t \in Threads :
    InSendData(t) ~> \/ ~InSendData(t)
                     \/ InSendData("io") \/ at["io"] = "join"
                     \/ process # "up"

\* server_close of a thread of the user's own returns, whatever the other two threads do:
\* where it destroys the session the io thread is not in sendData and joins nothing, so
\* it answers the processing thread; where the connected handler keeps the session, the
\* call joins nothing itself.
UserCloseReturns ==
  at["user"] = "reset" ~> at["user"] \in {"callback", "stop"} \/ process # "up"

\* "The full stop of the server, destruction of what it has allocated" (cserver/
\* api_server.h, server_release): it returns, if the process lives and the io thread does
\* not itself wait in sendData.
ReleaseReturns == releasing ~> at["user"] = "exit" \/ InSendData("io") \/ process # "up"
=============================================================================
