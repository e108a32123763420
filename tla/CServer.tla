------------------------------- MODULE CServer -------------------------------
(***************************************************************************)
(* The server's connection: TransportServer (server/src/transport.cpp),    *)
(* which listens and accepts, and CServer (cserver/cserver.cpp), which     *)
(* serves one client at a time: it stops listening when a client is        *)
(* accepted and listens again when the session fails.                      *)
(*                                                                         *)
(* Every server_listen makes a new TransportServer, with an io thread of   *)
(* its own, and destroys the one before, whose destructor waits until that *)
(* thread has nothing left to do; server_release destroys the last.        *)
(* Neither class has a lock, so the user's thread and the io threads       *)
(* interleave between any two accesses to m_session and to the acceptors;  *)
(* each access itself is one step.  A session that has been read is        *)
(* destroyed with a join of its processing thread: on the io thread of its *)
(* own that may last for good, as SessionTeardown shows.                   *)
(***************************************************************************)
EXTENDS Integers

CONSTANTS Sessions,       \* bound: the TcpSession objects that can exist at a time
          NoSession,      \* a null pointer
          MaxListens      \* bound: calls of server_listen

ASSUME SessionAssumption == NoSession \notin Sessions
ASSUME MaxListensAssumption == MaxListens \in Nat

\* The TransportServer objects, numbered as they are made.
Transports == 1 .. MaxListens

VARIABLES m_server,      \* the TransportServer that CServer has, 0 for none
          dying,         \* the one whose destructor the user's thread is in, or 0
          m_acceptor,    \* of each: "open" between listen(true) and listen(false)
          m_cbConnected, \* those whose connected callback has been set
          phase,         \* what each session object is in the middle of
          m_ioService,   \* the transport on whose io thread a session's handlers run
          m_session,
          reading,       \* the sessions with a pending async_read
          io,            \* where each io thread stands, and with which session
          user,          \* where the user's thread stands
          process,       \* "undefined" after a null or a dead object was used
          wanted,        \* history: the user's last call
          reported,      \* history: whether there is a client, as far as the user knows
          gaveUp         \* history: what has left the server without client and accept

transports == <<m_server, dying, m_acceptor, m_cbConnected>>
objects == <<phase, m_ioService, m_session, reading>>
asked == <<user, wanted>>
told  == <<reported, gaveUp>>
vars  == <<m_server, dying, m_acceptor, m_cbConnected, phase, m_ioService, m_session,
           reading, io, user, process, wanted, reported, gaveUp>>

IoAt(step, s) == [step |-> step, session |-> s]
Idle == IoAt("idle", NoSession)

Goto(t, step, s) == io' = [io EXCEPT ![t] = IoAt(step, s)]

\* An io thread that replaces or drops a session waits in ~CommonProcessor for a thread
\* that waits for the io thread.
WaitsForGood == {"replacing", "dropping"}
Blocked == \E t \in Transports : io[t].step \in WaitsForGood

\* Destroying that session may do so: there is a client, whose requests are answered.
MayBlock(t, s) == s \in reading /\ m_ioService[s] = t /\ phase[s] = "connected"

\* The sessions whose handler is queued; "failed" when the accept went wrong, or the
\* client has gone before the handler runs.
Queued == {s \in Sessions : phase[s] \in {"accepted", "failed"}}
Accepts == {s \in Sessions : phase[s] = "accepting"} \union Queued

-----------------------------------------------------------------------------
Init ==
  /\ m_server = 0 /\ dying = 0
  /\ m_acceptor = [t \in Transports |-> "closed"]
  /\ m_cbConnected = {}
  /\ phase = [s \in Sessions |-> "none"]
  /\ m_ioService = [s \in Sessions |-> 0]
  /\ m_session = NoSession
  /\ reading = {}
  /\ io = [t \in Transports |-> Idle]
  /\ user = "idle" /\ wanted = "nothing" /\ process = "up"
  /\ reported = "disconnected" /\ gaveUp = "no"

\* acceptNewConnection of m_server: a new session for the next client.
AcceptNewConnection ==
  IF m_acceptor[m_server] = "closed" THEN UNCHANGED <<phase, m_ioService>>
  ELSE \E s \in Sessions :
         /\ phase[s] = "none"
         /\ phase' = [phase EXCEPT ![s] = "accepting"]
         /\ m_ioService' = [m_ioService EXCEPT ![s] = m_server]

\* listen(false): the pending accept is cancelled, its handler only returns and its
\* session is destroyed; a handler that is queued already comes too late for that.
StopListening(t) ==
  /\ m_acceptor' = [m_acceptor EXCEPT ![t] = "closed"]
  /\ phase' = [s \in Sessions |->
                 IF phase[s] = "accepting" /\ m_ioService[s] = t THEN "none" ELSE phase[s]]

\* m_session.reset(): the session is destroyed unless the handler that an io thread
\* runs holds another reference.
ResetSession ==
  /\ m_session' = NoSession
  /\ reading' = reading \ {m_session}
  /\ phase' = [s \in Sessions |->
                 IF s = m_session /\ \A t \in Transports : s # io[t].session
                 THEN "none" ELSE phase[s]]

-----------------------------------------------------------------------------
(* The user's thread.                                                          *)

\* server_listen: the new transport takes the place of the old, and then the old one's
\* destructor cancels its accept.
Listen ==
  /\ user = "idle" /\ wanted # "released"
  /\ m_server < MaxListens
  /\ m_server' = m_server + 1
  /\ dying' = m_server
  /\ IF m_server = 0 THEN UNCHANGED <<m_acceptor, phase>> ELSE StopListening(m_server)
  /\ user' = IF m_server = 0 THEN "configure" ELSE "join"
  /\ wanted' = "nothing"
  /\ UNCHANGED <<m_cbConnected, m_ioService, m_session, reading, io, process, told>>

\* Mutant: the io thread is left to itself.
Detached ==
  /\ user = "join"
  /\ dying' = 0
  /\ user' = IF wanted = "released" THEN "end" ELSE "configure"
  /\ UNCHANGED <<m_server, m_acceptor, m_cbConnected, objects, io, process, wanted, told>>

\* Mutant: the destructor keeps the io_service's work.
WorkKept == user = "join" /\ FALSE /\ UNCHANGED vars

\* m_threadPool.join(): no handler is running or queued, no session reads.
JoinIoThread ==
  /\ user = "join"
  /\ io[dying] = Idle
  /\ \A s \in Sessions : m_ioService[s] = dying => s \notin Accepts \union reading
  /\ dying' = 0
  /\ user' = IF wanted = "released" THEN "end" ELSE "configure"
  /\ UNCHANGED <<m_server, m_acceptor, m_cbConnected, objects, io, process, wanted, told>>

SetConnectedCallback ==
  /\ user = "configure"
  /\ m_cbConnected' = m_cbConnected \union {m_server}
  /\ user' = "listen"
  /\ UNCHANGED <<m_server, dying, m_acceptor, objects, io, process, wanted, told>>

\* listen(true) fails on a port that is taken, be it by the io thread's own listening.
ListenTrue ==
  /\ user = "listen"
  /\ \/ /\ m_acceptor[m_server] = "closed"
        /\ m_acceptor' = [m_acceptor EXCEPT ![m_server] = "open"]
        /\ user' = "accept"
     \/ user' = "idle" /\ UNCHANGED m_acceptor
  /\ UNCHANGED <<m_server, dying, m_cbConnected, objects, io, process, wanted, told>>

\* The io thread of the transport before may have had this one listen already and given
\* it a client.  A server that listens, and has no session, has no client: the user
\* knows, even if the last one was aborted unreported or was reported across a
\* server_close.
AcceptFirst ==
  /\ user = "accept"
  /\ AcceptNewConnection
  /\ user' = "idle"
  /\ wanted' = IF io[m_server] = Idle /\ \A s \in Sessions : phase[s] = "none"
               THEN "listening" ELSE "listening twice"
  /\ gaveUp' = IF m_acceptor[m_server] = "open" THEN "no" ELSE gaveUp
  /\ reported' = IF m_session = NoSession THEN "disconnected" ELSE reported
  /\ UNCHANGED <<transports, m_session, reading, io, process>>

\* server_close: stop listening,
Close ==
  /\ user = "idle" /\ wanted # "released"
  /\ m_server # 0
  /\ user' = "reset"
  /\ StopListening(m_server)
  /\ UNCHANGED <<m_server, dying, m_cbConnected, m_ioService, m_session, reading, io,
                 process, wanted, told>>

\* and drop the session.
CloseResetsSession ==
  /\ user = "reset"
  /\ user' = "idle"
  /\ wanted' = "closed"
  /\ reported' = "disconnected"
  /\ ResetSession
  /\ UNCHANGED <<transports, m_ioService, io, process, gaveUp>>

\* server_release: ~CServer drops the session,
Release ==
  /\ user = "idle" /\ wanted # "released"
  /\ user' = IF m_server = 0 THEN "end" ELSE "release"
  /\ wanted' = "released"
  /\ ResetSession
  /\ UNCHANGED <<transports, m_ioService, io, process, told>>

\* and destroys the transport.
ReleaseTransport ==
  /\ user = "release"
  /\ user' = "join"
  /\ dying' = m_server
  /\ StopListening(m_server)
  /\ UNCHANGED <<m_server, m_cbConnected, m_ioService, m_session, reading, io, process,
                 wanted, told>>

-----------------------------------------------------------------------------
(* The network.                                                                *)

AcceptCompletes(s) ==
  /\ phase[s] = "accepting"
  /\ \E outcome \in {"accepted", "failed"} : phase' = [phase EXCEPT ![s] = outcome]
  /\ UNCHANGED <<transports, m_ioService, m_session, reading, io, asked, process, told>>

-----------------------------------------------------------------------------
(* The io threads.                                                             *)

\* A handler of the io thread reaches a CServer whose members are destroyed.
UsesReleased(t) ==
  /\ wanted = "released"
  /\ \/ io[t] = Idle /\ t \in m_cbConnected /\ \E s \in Queued : m_ioService[s] = t
     \/ io[t] # Idle /\ io[t].step \notin WaitsForGood
  /\ process' = "undefined"
  /\ UNCHANGED <<transports, objects, io, asked, told>>

\* An accept that failed goes on to the connected callback all the same.  A transport
\* that has no callback yet lets the session go.
HandlerAccept(t, s) ==
  /\ io[t] = Idle /\ m_ioService[s] = t /\ s \in Queued
  /\ IF t \in m_cbConnected
     THEN /\ phase' = [phase EXCEPT ![s] = IF @ = "accepted" THEN "connected" ELSE "dead"]
          /\ Goto(t, "take", s)
     ELSE phase' = [phase EXCEPT ![s] = "none"] /\ UNCHANGED io
  /\ UNCHANGED <<transports, m_ioService, m_session, reading, asked, process, told>>

\* transportClientConnectedCallback: the server takes the session; one it still had
\* is destroyed.
TakeSession(t) ==
  /\ io[t].step = "take"
  /\ m_session' = io[t].session
  /\ reading' = reading \ {m_session}
  /\ phase' = [s \in Sessions |->
                 IF s = m_session /\ \A u \in Transports : s # io[u].session
                 THEN "none" ELSE phase[s]]
  /\ \/ Goto(t, "stop", io[t].session)
     \/ MayBlock(t, m_session) /\ Goto(t, "replacing", io[t].session)
  /\ UNCHANGED <<transports, m_ioService, asked, process, told>>

\* Mutant: the server goes on listening.
KeepsListening(t) ==
  /\ io[t].step = "stop"
  /\ Goto(t, "read", io[t].session)
  /\ UNCHANGED <<transports, objects, asked, process, told>>

OneClientOnly(t) ==
  /\ io[t].step = "stop"
  /\ StopListening(m_server)
  /\ Goto(t, "read", io[t].session)
  /\ UNCHANGED <<m_server, dying, m_cbConnected, m_ioService, m_session, reading, asked,
                 process, told>>

\* Mutant: the session of the handler reads, not the one the server has now.
ReadsOwnSession(t) ==
  /\ io[t].step = "read"
  /\ Goto(t, "report", io[t].session)
  /\ reading' = reading \union {io[t].session}
  /\ UNCHANGED <<transports, phase, m_ioService, m_session, asked, process, told>>

\* Mutant: a null session is registered for reading.
ReadsNull(t) ==
  /\ io[t].step = "read"
  /\ Goto(t, "report", io[t].session)
  /\ reading' = reading \union {m_session}
  /\ UNCHANGED <<transports, phase, m_ioService, m_session, asked, process, told>>

\* m_session is used without a test: it may be null by now.
StartReading(t) ==
  /\ io[t].step = "read"
  /\ IF m_session = NoSession
     THEN process' = "undefined" /\ UNCHANGED <<io, reading>>
     ELSE /\ Goto(t, "report", io[t].session)
          /\ reading' = reading \union {m_session}
          /\ UNCHANGED process
  /\ UNCHANGED <<transports, phase, m_ioService, m_session, asked, told>>

\* The user's callback, with the client's address and port; without a client the port
\* is 0, which says "disconnected".  Then the handler's own reference ends.
ReportConnected(t) ==
  LET s == io[t].session IN
  /\ io[t].step = "report"
  /\ reported' = IF phase[s] = "connected" THEN "connected" ELSE "disconnected"
  /\ phase' = [phase EXCEPT ![s] = IF m_session = s THEN @ ELSE "none"]
  /\ io' = [io EXCEPT ![t] = Idle]
  /\ UNCHANGED <<transports, m_ioService, m_session, reading, asked, process, gaveUp>>

\* Mutant: every error is treated as an abort.
AllAborts(t, s, aborted) ==
  /\ io[t] = Idle /\ m_ioService[s] = t
  /\ s \in reading
  /\ ResetSession
  /\ UNCHANGED <<transports, m_ioService, io, asked, process, told>>

\* A session reports an error of a read or a write: callbackSessionError drops it, and
\* does nothing more when the code is one of three kinds of abort, which a session that
\* never had a client does not meet.  It goes on when the processing thread has ended.
CallbackSessionError(t, s, aborted) ==
  /\ io[t] = Idle /\ m_ioService[s] = t
  /\ s \in reading
  /\ aborted => phase[s] = "connected"
  /\ ResetSession
  /\ \/ aborted /\ gaveUp' = "aborted" /\ UNCHANGED io
     \/ ~aborted /\ Goto(t, "lost", NoSession) /\ UNCHANGED gaveUp
     \/ MayBlock(t, s) /\ Goto(t, "dropping", NoSession) /\ UNCHANGED gaveUp
  /\ UNCHANGED <<transports, m_ioService, asked, process, reported>>

\* Mutant: listening again without telling the user.
LostSilently(t) ==
  /\ io[t].step = "lost"
  /\ Goto(t, "relisten", NoSession)
  /\ UNCHANGED <<transports, objects, asked, process, told>>

ReportDisconnected(t) ==
  /\ io[t].step = "lost"
  /\ reported' = "disconnected"
  /\ Goto(t, "relisten", NoSession)
  /\ UNCHANGED <<transports, objects, asked, process, gaveUp>>

\* listen(true) of the transport that the server has by now, whatever the user has asked
\* for in the meantime.
ListenAgain(t) ==
  /\ io[t].step = "relisten"
  /\ \/ /\ m_acceptor[m_server] = "closed"
        /\ m_acceptor' = [m_acceptor EXCEPT ![m_server] = "open"]
        /\ Goto(t, "accept", NoSession)
        /\ UNCHANGED gaveUp
     \/ /\ io' = [io EXCEPT ![t] = Idle]
        /\ gaveUp' = "port taken"
        /\ UNCHANGED m_acceptor
  /\ UNCHANGED <<m_server, dying, m_cbConnected, objects, asked, process, reported>>

\* Mutant: listening, and no accept to take the client.
ListensOnly(t) ==
  /\ io[t].step = "accept"
  /\ io' = [io EXCEPT ![t] = Idle]
  /\ UNCHANGED <<transports, objects, asked, process, told>>

AcceptAgain(t) ==
  /\ io[t].step = "accept"
  /\ AcceptNewConnection
  /\ io' = [io EXCEPT ![t] = Idle]
  /\ UNCHANGED <<transports, m_session, reading, asked, process, told>>

-----------------------------------------------------------------------------
UserSteps == \/ JoinIoThread \/ SetConnectedCallback \/ ListenTrue \/ AcceptFirst
             \/ CloseResetsSession \/ ReleaseTransport

Handlers(t) == \/ TakeSession(t) \/ OneClientOnly(t) \/ StartReading(t)
               \/ ReportConnected(t) \/ ReportDisconnected(t) \/ ListenAgain(t)
               \/ AcceptAgain(t)

IoThread(t) == IF wanted = "released" THEN UsesReleased(t)
               ELSE Handlers(t) \/ \E s \in Sessions : HandlerAccept(t, s)

\* A process that is no more does nothing.
Next == /\ process = "up"
        /\ \/ Listen \/ Close \/ Release \/ UserSteps
           \/ \E s \in Sessions : AcceptCompletes(s)
           \/ \E t \in Transports :
                \/ IoThread(t)
                \/ \E s \in Sessions, aborted \in BOOLEAN : CallbackSessionError(t, s, aborted)

Spec == Init /\ [][Next]_vars

\* The threads run, a read without a client fails, and clients keep trying.
FairSpec ==
  /\ Spec
  /\ WF_vars(process = "up" /\ UserSteps)
  /\ \A t \in Transports : WF_vars(process = "up" /\ IoThread(t))
  /\ \A s \in Sessions :
       /\ WF_vars(process = "up" /\ AcceptCompletes(s))
       /\ WF_vars(/\ process = "up" /\ phase[s] = "dead"
                  /\ \E t \in Transports : CallbackSessionError(t, s, FALSE))
       /\ SF_vars(process = "up" /\ AcceptCompletes(s) /\ phase'[s] = "accepted")

-----------------------------------------------------------------------------
IoSteps == {"idle", "take", "stop", "read", "report", "lost", "relisten", "accept"}
             \union WaitsForGood

TypeOK ==
  /\ m_server \in 0 .. MaxListens /\ dying \in 0 .. m_server
  /\ m_acceptor \in [Transports -> {"open", "closed"}]
  /\ m_cbConnected \subseteq 1 .. m_server
  /\ phase \in [Sessions -> {"none", "accepting", "accepted", "failed", "connected", "dead"}]
  /\ m_ioService \in [Sessions -> 0 .. MaxListens]
  /\ m_session \in Sessions \union {NoSession}
  /\ reading \subseteq Sessions
  /\ io \in [Transports -> [step : IoSteps, session : Sessions \union {NoSession}]]
  /\ user \in {"idle", "join", "configure", "listen", "accept", "reset", "release", "end"}
  /\ process \in {"up", "undefined"}
  /\ wanted \in {"nothing", "listening", "listening twice", "closed", "released"}
  /\ reported \in {"connected", "disconnected"}
  /\ gaveUp \in {"no", "aborted", "port taken"}

\* The user's last call was server_listen, which may have found the new transport
\* listening already.
Listening == wanted \in {"listening", "listening twice"}

NoHandlerRuns == process = "up" /\ \A t \in Transports : io[t] = Idle

\* One client at a time: at any step of its handlers a server that listens has one
\* session object at most, be it accepting, held by a handler or connected, and once a
\* handler is through with a session the server does not listen.  It is not so after a
\* second server_listen that has found its transport at work.
OneClient ==
  (user = "idle" /\ wanted = "listening") =>
    /\ \A r, s \in Sessions : phase[r] # "none" /\ phase[s] # "none" => r = s
    /\ m_session # NoSession /\ NoHandlerRuns => m_acceptor[m_server] = "closed"

\* No session is left behind: the only session that lives outside an accept and a
\* running handler is the server's, and no other one delivers requests to it.
NoOrphan ==
  /\ reading \subseteq {m_session}
  /\ \A s \in Sessions : phase[s] \in {"connected", "dead"} =>
       s = m_session \/ \E t \in Transports : s = io[t].session

\* The server is never deaf: while it should listen and has no session, an accept is
\* pending or its handler queued, a failed accept and a lost client included.  Only an
\* aborted session or a port that is taken makes it give up.
NeverDeaf ==
  (Listening /\ user = "idle" /\ m_session = NoSession /\ NoHandlerRuns)
     => Accepts # {} \/ gaveUp # "no"

\* A client that keeps trying is served, again and again, until the server is closed,
\* released, made to listen anew, or gives up; but an io thread that destroys a session
\* may wait for its processing thread for good.
Serves ==
  (Listening /\ gaveUp = "no")
     ~> \/ m_session # NoSession /\ phase[m_session] = "connected"
        \/ user # "idle"
        \/ gaveUp # "no"
        \/ process # "up" \/ Blocked

\* onClientConnected_ tells the user of every client that comes and goes but one whose
\* session was aborted: between two handlers what it last said is whether there is one.
ClientReported ==
  (NoHandlerRuns /\ user = "idle" /\ Listening /\ gaveUp # "aborted")
     => (reported = "connected"
           <=> \E s \in Sessions : s = m_session /\ phase[s] = "connected")

\* No TransportServer is destroyed under a handler: when its destructor has returned
\* nothing is left that its io thread would run, and no later server_listen or
\* server_close works on it.
NothingOutlivesTransport ==
  \A t \in Transports : t < m_server /\ t # dying =>
    /\ io[t] = Idle /\ m_acceptor[t] = "closed"
    /\ \A s \in Sessions : m_ioService[s] = t => s \notin Accepts \union reading

\* A second server_listen, or server_release, returns, unless a client that is connected
\* stays: the destructor waits for the end of its session.  It waits for good if the io
\* thread does.
JoinReturns ==
  user = "join" ~> user # "join" \/ m_session # NoSession \/ process # "up" \/ Blocked
=============================================================================
