----------------------------- MODULE CServerProofs -----------------------------
(***************************************************************************)
(* What CServer promises without fairness, for any number of sessions and  *)
(* of calls of server_listen: no session is left behind, no transport is   *)
(* destroyed under its io thread, and what the user of a listening server  *)
(* can rely on.                                                            *)
(***************************************************************************)
EXTENDS CServer, TLAPS

-----------------------------------------------------------------------------
(* The invariant.                                                              *)

PastAccept == {"connected", "dead"}
HoldsSession == {"take", "stop", "read", "report", "replacing"}

\* A handler holds a session exactly while it takes it over, a session of its own thread.
HandlerSession ==
  \A t \in Transports :
    /\ io[t].session # NoSession <=> io[t].step \in HoldsSession
    /\ io[t].session # NoSession => m_ioService[io[t].session] = t

\* What CServer or a handler refers to is past its accept, and nothing else is.
Owned ==
  \A s \in Sessions :
    phase[s] \in PastAccept <=> s = m_session \/ \E t \in Transports : s = io[t].session

\* Sessions are owned, and only the server's reads.
Ownership == HandlerSession /\ Owned /\ reading \subseteq {m_session}

\* The server's session reads, or the handler that has brought it will make it read.
Taken ==
  m_session # NoSession =>
    \/ m_session \in reading
    \/ \E t \in Transports :
         io[t].session = m_session /\ io[t].step \in {"stop", "read", "replacing"}

\* Where the user's thread stands, and the transport it destroys: one that nobody listens
\* with, nor will.
UserCalls ==
  /\ user \in {"configure", "listen", "accept", "reset", "release", "join"} => m_server >= 1
  /\ user # "join" => dying = 0
  /\ user = "join" => /\ dying >= 1 /\ m_acceptor[dying] = "closed"
                      /\ dying = m_server => wanted = "released"
  /\ user \in {"release", "end"} => wanted = "released"

\* A transport that has been destroyed.
Retired(t) ==
  /\ io[t] = Idle /\ m_acceptor[t] = "closed"
  /\ \A s \in Sessions : m_ioService[s] = t => s \notin Accepts \union reading

\* The actions, all of them.
LEMMA NextCases ==
  ASSUME Next
  PROVE  \/ Listen \/ JoinIoThread \/ SetConnectedCallback \/ ListenTrue \/ AcceptFirst
         \/ Close \/ CloseResetsSession \/ Release \/ ReleaseTransport
         \/ \E s \in Sessions : AcceptCompletes(s)
         \/ \E t \in Transports :
              \/ UsesReleased(t)
              \/ TakeSession(t) \/ OneClientOnly(t) \/ StartReading(t)
              \/ ReportConnected(t) \/ ReportDisconnected(t)
              \/ wanted # "released" /\ ListenAgain(t)
              \/ AcceptAgain(t)
              \/ \E s \in Sessions : HandlerAccept(t, s)
              \/ \E s \in Sessions, aborted \in BOOLEAN : CallbackSessionError(t, s, aborted)
BY DEF Next, UserSteps, IoThread, Handlers

-----------------------------------------------------------------------------
(* What the shared operations do to the session objects.                       *)

Phases == {"none", "accepting", "accepted", "failed", "connected", "dead"}

\* listen(false) touches no session that is past its accept, and queues none.
LEMMA StopListeningEffect ==
  ASSUME TypeOK, NEW t, StopListening(t)
  PROVE  /\ phase' \in [Sessions -> Phases]
         /\ m_acceptor' \in [Transports -> {"open", "closed"}]
         /\ \A u \in Transports :
              m_acceptor'[u] = IF u = t THEN "closed" ELSE m_acceptor[u]
         /\ \A s \in Sessions : phase'[s] # phase[s] => phase[s] = "accepting"
                                                       /\ phase'[s] = "none"
BY DEF TypeOK, StopListening, Phases

\* An accept makes one session, out of none.
LEMMA AcceptEffect ==
  ASSUME TypeOK, AcceptNewConnection
  PROVE  /\ phase' \in [Sessions -> Phases]
         /\ m_ioService' \in [Sessions -> 0 .. MaxListens]
         /\ \A s \in Sessions : phase'[s] # phase[s] => phase[s] = "none"
                                                       /\ phase'[s] = "accepting"
                                                       /\ m_ioService'[s] = m_server
         /\ \A s \in Sessions : phase'[s] = phase[s] => m_ioService'[s] = m_ioService[s]
<1>1. CASE m_acceptor[m_server] = "closed"
  BY <1>1 DEF TypeOK, AcceptNewConnection, Phases
<1>2. CASE m_acceptor[m_server] # "closed"
  <2>1. PICK s \in Sessions :
          /\ phase[s] = "none"
          /\ phase' = [phase EXCEPT ![s] = "accepting"]
          /\ m_ioService' = [m_ioService EXCEPT ![s] = m_server]
    BY <1>2 DEF AcceptNewConnection
  <2>. QED
    BY <2>1, MaxListensAssumption DEF TypeOK, Phases
<1>. QED
  BY <1>1, <1>2

\* m_session.reset() destroys the session unless a handler holds it.
LEMMA ResetEffect ==
  ASSUME TypeOK, ResetSession
  PROVE  /\ phase' \in [Sessions -> Phases]
         /\ m_session' = NoSession /\ reading' = reading \ {m_session}
         /\ \A s \in Sessions :
              phase'[s] = IF s = m_session /\ \A t \in Transports : s # io[t].session
                          THEN "none" ELSE phase[s]
BY DEF TypeOK, ResetSession, Phases

\* A handler goes to another of its steps, or ends.
IoStates == [Transports -> [step : IoSteps, session : Sessions \union {NoSession}]]

LEMMA GotoEffect ==
  ASSUME TypeOK, NEW t, NEW step \in IoSteps, NEW s \in Sessions \union {NoSession},
         Goto(t, step, s) \/ io' = [io EXCEPT ![t] = Idle] \/ UNCHANGED io
  PROVE  io' \in IoStates
<1>1. /\ io \in IoStates
      /\ IoAt(step, s) \in [step : IoSteps, session : Sessions \union {NoSession}]
      /\ Idle \in [step : IoSteps, session : Sessions \union {NoSession}]
  BY DEF TypeOK, IoStates, IoAt, Idle, IoSteps
<1>. QED
  BY <1>1 DEF IoStates, Goto

\* The other threads stay where they are.
LEMMA OthersStay ==
  ASSUME TypeOK, NEW t \in Transports, NEW step, NEW s,
         Goto(t, step, s) \/ (io' = [io EXCEPT ![t] = Idle] /\ IoAt(step, s) = Idle)
  PROVE  /\ io'[t].step = step /\ io'[t].session = s
         /\ \A u \in Transports \ {t} : io'[u] = io[u]
<1>1. io' = [io EXCEPT ![t] = IoAt(step, s)]
  BY DEF Goto
<1>. QED
  BY <1>1 DEF TypeOK, IoAt

-----------------------------------------------------------------------------
(* Each part is preserved.                                                     *)

\* The type invariant.
LEMMA TypeStep == UserCalls /\ TypeOK /\ [Next]_vars => TypeOK'
<1>. SUFFICES ASSUME UserCalls, TypeOK, Next \/ UNCHANGED vars PROVE TypeOK'
  OBVIOUS
<1>. USE SessionAssumption, MaxListensAssumption
<1>. /\ m_server \in 0 .. MaxListens /\ dying \in 0 .. m_server
     /\ m_cbConnected \subseteq 1 .. m_server
  BY DEF TypeOK
<1>1. CASE Listen
  <2>1. /\ m_server' \in 0 .. MaxListens /\ dying' \in 0 .. m_server'
        /\ m_cbConnected' \subseteq 1 .. m_server'
    BY <1>1 DEF Listen
  <2>2. /\ phase' \in [Sessions -> Phases]
        /\ m_acceptor' \in [Transports -> {"open", "closed"}]
    <3>1. CASE m_server = 0
      BY <1>1, <3>1 DEF Listen, TypeOK, Phases
    <3>2. CASE m_server # 0
      BY <1>1, <3>2, StopListeningEffect DEF Listen
    <3>. QED
      BY <3>1, <3>2
  <2>3. user' \in {"configure", "join"}
    BY <1>1 DEF Listen
  <2>. QED
    BY <1>1, <2>1, <2>2, <2>3 DEF Listen, TypeOK, told, Phases
<1>2. CASE JoinIoThread
  <2>1. user' \in {"end", "configure"} /\ dying' \in 0 .. m_server'
    BY <1>2 DEF JoinIoThread
  <2>. QED
    BY <1>2, <2>1 DEF JoinIoThread, TypeOK, objects, told
<1>3. CASE SetConnectedCallback
  <2>1. m_cbConnected' \subseteq 1 .. m_server
    BY <1>3 DEF SetConnectedCallback, UserCalls
  <2>. QED
    BY <1>3, <2>1 DEF SetConnectedCallback, TypeOK, objects, told
<1>4. CASE ListenTrue
  BY <1>4 DEF ListenTrue, TypeOK, objects, told
<1>5. CASE AcceptFirst
  <2>1. /\ phase' \in [Sessions -> Phases]
        /\ m_ioService' \in [Sessions -> 0 .. MaxListens]
    BY <1>5, AcceptEffect DEF AcceptFirst
  <2>. QED
    BY <1>5, <2>1 DEF AcceptFirst, TypeOK, transports, Phases
<1>6. CASE Close
  <2>1. /\ phase' \in [Sessions -> Phases]
        /\ m_acceptor' \in [Transports -> {"open", "closed"}]
    BY <1>6, StopListeningEffect DEF Close
  <2>. QED
    BY <1>6, <2>1 DEF Close, TypeOK, told, Phases
<1>7. CASE CloseResetsSession
  <2>1. phase' \in [Sessions -> Phases]
    BY <1>7, ResetEffect DEF CloseResetsSession
  <2>. QED
    BY <1>7, <2>1 DEF CloseResetsSession, ResetSession, TypeOK, transports, Phases
<1>8. CASE Release
  <2>1. phase' \in [Sessions -> Phases]
    BY <1>8, ResetEffect DEF Release
  <2>. QED
    BY <1>8, <2>1 DEF Release, ResetSession, TypeOK, transports, told, Phases
<1>9. CASE ReleaseTransport
  <2>1. /\ phase' \in [Sessions -> Phases]
        /\ m_acceptor' \in [Transports -> {"open", "closed"}]
    BY <1>9, StopListeningEffect DEF ReleaseTransport
  <2>2. m_server' = m_server /\ dying' \in 0 .. m_server'
    BY <1>9 DEF ReleaseTransport
  <2>. QED
    BY <1>9, <2>1, <2>2 DEF ReleaseTransport, TypeOK, told, Phases
<1>10. ASSUME NEW s \in Sessions, AcceptCompletes(s) PROVE TypeOK'
  <2>1. PICK outcome \in {"accepted", "failed"} : phase' = [phase EXCEPT ![s] = outcome]
    BY <1>10 DEF AcceptCompletes
  <2>2. phase' \in [Sessions -> Phases]
    BY <2>1 DEF TypeOK, Phases
  <2>3. UNCHANGED <<transports, m_ioService, m_session, reading, io, asked, process, told>>
    BY <1>10 DEF AcceptCompletes
  <2>. QED
    BY <2>2, <2>3 DEF TypeOK, Phases, transports, asked, told
<1>11. ASSUME NEW t \in Transports, UsesReleased(t) PROVE TypeOK'
  BY <1>11 DEF UsesReleased, TypeOK, transports, objects, asked, told
<1>12. ASSUME NEW t \in Transports, TakeSession(t) PROVE TypeOK'
  <2>1. phase' \in [Sessions -> Phases]
    BY <1>12 DEF TakeSession, TypeOK, Phases
  <2>2. io[t].session \in Sessions \union {NoSession}
    BY DEF TypeOK
  <2>3. io' \in IoStates
    BY <1>12, <2>2, GotoEffect DEF TakeSession, IoSteps, WaitsForGood
  <2>4. m_session' \in Sessions \union {NoSession} /\ reading' \subseteq Sessions
    BY <1>12, <2>2 DEF TakeSession, TypeOK
  <2>. QED
    BY <1>12, <2>1, <2>3, <2>4
    DEF TakeSession, TypeOK, transports, asked, told, Phases, IoStates
<1>13. ASSUME NEW t \in Transports, OneClientOnly(t) PROVE TypeOK'
  <2>1. /\ phase' \in [Sessions -> Phases]
        /\ m_acceptor' \in [Transports -> {"open", "closed"}]
    BY <1>13, StopListeningEffect DEF OneClientOnly
  <2>2. io' \in IoStates
    <3>1. io[t].session \in Sessions \union {NoSession}
      BY DEF TypeOK
    <3>. QED
      BY <1>13, <3>1, GotoEffect DEF OneClientOnly, IoSteps
  <2>. QED
    BY <1>13, <2>1, <2>2 DEF OneClientOnly, TypeOK, asked, told, Phases, IoStates
<1>14. ASSUME NEW t \in Transports, StartReading(t) PROVE TypeOK'
  <2>1. io[t].session \in Sessions \union {NoSession}
    BY DEF TypeOK
  <2>2. io' \in IoStates
    BY <1>14, <2>1, GotoEffect DEF StartReading, IoSteps
  <2>3. reading' \subseteq Sessions /\ process' \in {"up", "undefined"}
    BY <1>14 DEF StartReading, TypeOK
  <2>. QED
    BY <1>14, <2>2, <2>3 DEF StartReading, TypeOK, transports, asked, told, IoStates
<1>15. ASSUME NEW t \in Transports, ReportConnected(t) PROVE TypeOK'
  <2>1. io[t].session \in Sessions \union {NoSession}
    BY DEF TypeOK
  <2>2. phase' \in [Sessions -> Phases]
    BY <1>15 DEF ReportConnected, TypeOK, Phases
  <2>. QED
    BY <1>15, <2>2
    DEF ReportConnected, TypeOK, transports, asked, Idle, IoAt, IoSteps, Phases
<1>16. ASSUME NEW t \in Transports, ReportDisconnected(t) PROVE TypeOK'
  BY <1>16
  DEF ReportDisconnected, TypeOK, transports, objects, asked, Goto, IoAt, IoSteps
<1>17. ASSUME NEW t \in Transports, ListenAgain(t) PROVE TypeOK'
  <2>1. io' \in IoStates
    BY <1>17, GotoEffect DEF ListenAgain, IoSteps
  <2>2. /\ m_acceptor' \in [Transports -> {"open", "closed"}]
        /\ gaveUp' \in {"no", "aborted", "port taken"}
    BY <1>17 DEF ListenAgain, TypeOK
  <2>. QED
    BY <1>17, <2>1, <2>2 DEF ListenAgain, TypeOK, objects, asked, IoStates
<1>18. ASSUME NEW t \in Transports, AcceptAgain(t) PROVE TypeOK'
  <2>1. /\ phase' \in [Sessions -> Phases]
        /\ m_ioService' \in [Sessions -> 0 .. MaxListens]
    BY <1>18, AcceptEffect DEF AcceptAgain
  <2>2. io' \in IoStates
    BY <1>18, GotoEffect DEF AcceptAgain, IoSteps
  <2>. QED
    BY <1>18, <2>1, <2>2
    DEF AcceptAgain, TypeOK, transports, asked, told, Phases, IoStates
<1>19. ASSUME NEW t \in Transports, NEW s \in Sessions, HandlerAccept(t, s)
       PROVE  TypeOK'
  <2>1. io' \in IoStates
    BY <1>19, GotoEffect DEF HandlerAccept, IoSteps
  <2>2. phase' \in [Sessions -> Phases]
    <3>1. PICK p \in Phases : phase' = [phase EXCEPT ![s] = p]
      BY <1>19 DEF HandlerAccept, Phases
    <3>. QED
      BY <3>1 DEF TypeOK, Phases
  <2>. QED
    BY <1>19, <2>1, <2>2 DEF HandlerAccept, TypeOK, transports, asked, told, Phases, IoStates
<1>20. ASSUME NEW t \in Transports, NEW s \in Sessions, NEW aborted \in BOOLEAN,
              CallbackSessionError(t, s, aborted)
       PROVE  TypeOK'
  <2>1. phase' \in [Sessions -> Phases]
    BY <1>20, ResetEffect DEF CallbackSessionError
  <2>2. io' \in IoStates
    BY <1>20, GotoEffect DEF CallbackSessionError, IoSteps, WaitsForGood
  <2>3. gaveUp' \in {gaveUp, "aborted"}
    BY <1>20 DEF CallbackSessionError
  <2>. QED
    BY <1>20, <2>1, <2>2, <2>3
    DEF CallbackSessionError, ResetSession, TypeOK, transports, asked, Phases, IoStates
<1>21. CASE UNCHANGED vars
  BY <1>21 DEF vars, TypeOK
<1>. QED
  BY NextCases, <1>1, <1>2, <1>3, <1>4, <1>5, <1>6, <1>7, <1>8, <1>9, <1>10, <1>11,
     <1>12, <1>13, <1>14, <1>15, <1>16, <1>17, <1>18, <1>19, <1>20, <1>21

\* The user's thread destroys a transport in one call, and none in between.
LEMMA UserStep == TypeOK /\ UserCalls /\ [Next]_vars => UserCalls'
<1>. SUFFICES ASSUME TypeOK, UserCalls, Next \/ UNCHANGED vars PROVE UserCalls'
  OBVIOUS
<1>. m_server \in 0 .. MaxListens /\ dying \in 0 .. m_server /\ MaxListens \in Nat
     /\ (dying >= 1 => dying \in Transports)
  <2>1. m_server \in 0 .. MaxListens /\ dying \in 0 .. m_server
    BY DEF TypeOK
  <2>. QED
    BY <2>1, MaxListensAssumption DEF Transports
<1>1. CASE Listen
  <2>1. CASE m_server = 0
    BY <1>1, <2>1 DEF Listen, UserCalls
  <2>2. CASE m_server # 0
    <3>1. m_acceptor'[m_server] = "closed"
      BY <1>1, <2>2, StopListeningEffect DEF Listen, Transports
    <3>. QED
      BY <1>1, <2>2, <3>1 DEF Listen, UserCalls
  <2>. QED
    BY <2>1, <2>2
<1>2. CASE JoinIoThread
  BY <1>2 DEF JoinIoThread, UserCalls
<1>3. CASE SetConnectedCallback
  BY <1>3 DEF SetConnectedCallback, UserCalls
<1>4. CASE ListenTrue
  BY <1>4 DEF ListenTrue, UserCalls
<1>5. CASE AcceptFirst
  BY <1>5 DEF AcceptFirst, UserCalls, transports
<1>6. CASE Close
  BY <1>6 DEF Close, UserCalls
<1>7. CASE CloseResetsSession
  BY <1>7 DEF CloseResetsSession, UserCalls, transports
<1>8. CASE Release
  BY <1>8 DEF Release, UserCalls, transports
<1>9. CASE ReleaseTransport
  <2>1. m_acceptor'[m_server] = "closed"
    BY <1>9, StopListeningEffect DEF ReleaseTransport, UserCalls, Transports
  <2>. QED
    BY <1>9, <2>1 DEF ReleaseTransport, UserCalls
<1>10. ASSUME NEW s \in Sessions, AcceptCompletes(s) PROVE UserCalls'
  BY <1>10 DEF AcceptCompletes, UserCalls, transports, asked
<1>11. ASSUME NEW t \in Transports,
              UsesReleased(t) \/ TakeSession(t) \/ StartReading(t) \/ ReportConnected(t)
                \/ ReportDisconnected(t) \/ AcceptAgain(t)
       PROVE  UserCalls'
  BY <1>11 DEF UsesReleased, TakeSession, StartReading, ReportConnected,
               ReportDisconnected, AcceptAgain, UserCalls, transports, asked
<1>12. ASSUME NEW t \in Transports, OneClientOnly(t) PROVE UserCalls'
  <2>1. dying \in Transports => m_acceptor'[dying] \in {m_acceptor[dying], "closed"}
    BY <1>12, StopListeningEffect DEF OneClientOnly
  <2>. QED
    BY <1>12, <2>1 DEF OneClientOnly, UserCalls, asked
<1>13. ASSUME NEW t \in Transports, wanted # "released" /\ ListenAgain(t) PROVE UserCalls'
  <2>1. dying \in Transports \ {m_server} => m_acceptor'[dying] = m_acceptor[dying]
    BY <1>13 DEF ListenAgain, TypeOK
  <2>. QED
    BY <1>13, <2>1 DEF ListenAgain, UserCalls, asked
<1>14. ASSUME NEW t \in Transports, NEW s \in Sessions,
              HandlerAccept(t, s) \/ \E aborted \in BOOLEAN : CallbackSessionError(t, s, aborted)
       PROVE  UserCalls'
  BY <1>14 DEF HandlerAccept, CallbackSessionError, UserCalls, transports, asked
<1>15. CASE UNCHANGED vars
  BY <1>15 DEF vars, UserCalls
<1>. QED
  BY NextCases, <1>1, <1>2, <1>3, <1>4, <1>5, <1>6, <1>7, <1>8, <1>9, <1>10, <1>11,
     <1>12, <1>13, <1>14, <1>15

\* The session that a handler holds.
LEMMA HeldSession ==
  ASSUME TypeOK, Ownership, NEW t \in Transports, io[t].step \in HoldsSession
  PROVE  /\ io[t].session \in Sessions
         /\ m_ioService[io[t].session] = t
         /\ phase[io[t].session] \in PastAccept
<1>1. io[t].session \in Sessions \union {NoSession}
  BY DEF TypeOK
<1>. QED
  BY <1>1 DEF Ownership, HandlerSession, Owned

\* Steps that take and drop no session keep what is owned as it is.
LEMMA OwnershipKept ==
  ASSUME TypeOK, Ownership, UNCHANGED <<m_session, reading>>,
         \A t \in Transports :
           /\ io'[t].session = io[t].session
           /\ io'[t].step \in HoldsSession <=> io[t].step \in HoldsSession,
         \A s \in Sessions :
           /\ phase'[s] \in PastAccept <=> phase[s] \in PastAccept
           /\ phase[s] \in PastAccept => m_ioService'[s] = m_ioService[s]
  PROVE  Ownership'
<1>1. HandlerSession'
  <2>1. \A t \in Transports : io[t].session # NoSession => phase[io[t].session] \in PastAccept
                                                          /\ io[t].session \in Sessions
    BY DEF TypeOK, Ownership, Owned
  <2>. QED
    BY <2>1 DEF Ownership, HandlerSession
<1>2. Owned'
  BY DEF Ownership, Owned
<1>3. reading' \subseteq {m_session'}
  BY DEF Ownership
<1>. QED
  BY <1>1, <1>2, <1>3 DEF Ownership

\* m_session.reset() leaves no session to nobody.
LEMMA OwnershipReset ==
  ASSUME TypeOK, Ownership, ResetSession, UNCHANGED m_ioService,
         \A t \in Transports :
           /\ io'[t].session = io[t].session
           /\ io'[t].step \in HoldsSession <=> io[t].step \in HoldsSession
  PROVE  Ownership'
<1>. USE SessionAssumption
<1>1. HandlerSession'
  BY DEF Ownership, HandlerSession
<1>2. Owned'
  BY ResetEffect DEF Ownership, Owned, PastAccept
<1>3. reading' \subseteq {m_session'}
  BY ResetEffect DEF Ownership
<1>. QED
  BY <1>1, <1>2, <1>3 DEF Ownership

\* A session is destroyed with its last reference, and not before.
LEMMA OwnershipStep == TypeOK /\ Ownership /\ [Next]_vars => Ownership'
<1>. SUFFICES ASSUME TypeOK, Ownership, Next \/ UNCHANGED vars PROVE Ownership'
  OBVIOUS
<1>. USE SessionAssumption
<1>1. CASE Listen
  <2>1. \A s \in Sessions : phase'[s] \in PastAccept <=> phase[s] \in PastAccept
    <3>1. CASE m_server = 0
      BY <1>1, <3>1 DEF Listen
    <3>2. CASE m_server # 0
      BY <1>1, <3>2, StopListeningEffect DEF Listen, PastAccept
    <3>. QED
      BY <3>1, <3>2
  <2>. QED
    BY <1>1, <2>1, OwnershipKept DEF Listen
<1>2. CASE JoinIoThread \/ SetConnectedCallback \/ ListenTrue
  BY <1>2, OwnershipKept DEF JoinIoThread, SetConnectedCallback, ListenTrue, objects
<1>3. CASE AcceptFirst
  <2>1. \A s \in Sessions : /\ phase'[s] \in PastAccept <=> phase[s] \in PastAccept
                            /\ phase[s] \in PastAccept => m_ioService'[s] = m_ioService[s]
    BY <1>3, AcceptEffect DEF AcceptFirst, PastAccept
  <2>. QED
    BY <1>3, <2>1, OwnershipKept DEF AcceptFirst
<1>4. CASE Close \/ ReleaseTransport
  <2>1. \A s \in Sessions : phase'[s] \in PastAccept <=> phase[s] \in PastAccept
    BY <1>4, StopListeningEffect DEF Close, ReleaseTransport, PastAccept
  <2>. QED
    BY <1>4, <2>1, OwnershipKept DEF Close, ReleaseTransport
<1>5. CASE CloseResetsSession \/ Release
  BY <1>5, OwnershipReset DEF CloseResetsSession, Release
<1>6. ASSUME NEW s \in Sessions, AcceptCompletes(s) PROVE Ownership'
  <2>1. \A r \in Sessions : phase'[r] \in PastAccept <=> phase[r] \in PastAccept
    BY <1>6 DEF AcceptCompletes, TypeOK, PastAccept
  <2>. QED
    BY <1>6, <2>1, OwnershipKept DEF AcceptCompletes
<1>7. ASSUME NEW t \in Transports, UsesReleased(t) PROVE Ownership'
  BY <1>7, OwnershipKept DEF UsesReleased, objects
<1>8. ASSUME NEW t \in Transports, NEW s \in Sessions, HandlerAccept(t, s)
      PROVE  Ownership'
  <2>1. phase[s] \in {"accepted", "failed"} /\ io[t] = Idle
    BY <1>8 DEF HandlerAccept, Queued
  <2>2. s # m_session /\ \A u \in Transports : s # io[u].session
    BY <2>1 DEF Ownership, Owned, PastAccept
  <2>3. CASE t \in m_cbConnected
    <3>1. /\ io' = [io EXCEPT ![t] = IoAt("take", s)]
          /\ \A r \in Sessions \ {s} : phase'[r] = phase[r]
          /\ phase'[s] \in PastAccept
      BY <1>8, <2>3 DEF HandlerAccept, Goto, TypeOK, PastAccept
    <3>2. io'[t] = IoAt("take", s) /\ \A u \in Transports \ {t} : io'[u] = io[u]
      BY <3>1 DEF TypeOK
    <3>3. HandlerSession'
      BY <1>8, <3>2 DEF HandlerAccept, Ownership, HandlerSession, IoAt, HoldsSession
    <3>4. Owned'
      BY <1>8, <2>1, <2>2, <3>1, <3>2 DEF HandlerAccept, Ownership, Owned, IoAt, Idle
    <3>. QED
      BY <1>8, <3>3, <3>4 DEF HandlerAccept, Ownership
  <2>4. CASE t \notin m_cbConnected
    <3>1. \A r \in Sessions : phase'[r] \in PastAccept <=> phase[r] \in PastAccept
      BY <1>8, <2>1, <2>4 DEF HandlerAccept, TypeOK, PastAccept
    <3>. QED
      BY <1>8, <2>4, <3>1, OwnershipKept DEF HandlerAccept
  <2>. QED
    BY <2>3, <2>4
<1>9. ASSUME NEW t \in Transports, TakeSession(t) PROVE Ownership'
  <2>1. /\ io'[t].step \in {"stop", "replacing"} /\ io'[t].session = io[t].session
        /\ \A u \in Transports \ {t} : io'[u] = io[u]
    BY <1>9, OthersStay DEF TakeSession
  <2>2. io[t].session \in Sessions /\ phase[io[t].session] \in PastAccept
    BY <1>9, HeldSession DEF TakeSession, HoldsSession
  <2>3. HandlerSession'
    BY <1>9, <2>1 DEF TakeSession, Ownership, HandlerSession, HoldsSession
  <2>4. Owned'
    <3>1. \A u \in Transports : io'[u].session = io[u].session
      BY <2>1
    <3>2. \A s \in Sessions :
            phase'[s] = IF s = m_session /\ \A u \in Transports : s # io[u].session
                        THEN "none" ELSE phase[s]
      BY <1>9 DEF TakeSession
    <3>. QED
      BY <1>9, <2>2, <3>1, <3>2 DEF TakeSession, Ownership, Owned, PastAccept
  <2>5. reading' \subseteq {m_session'}
    BY <1>9 DEF TakeSession, Ownership
  <2>. QED
    BY <2>3, <2>4, <2>5 DEF Ownership
<1>10. ASSUME NEW t \in Transports, OneClientOnly(t) PROVE Ownership'
  <2>1. \A s \in Sessions : phase'[s] \in PastAccept <=> phase[s] \in PastAccept
    BY <1>10, StopListeningEffect DEF OneClientOnly, PastAccept
  <2>2. \A u \in Transports :
          /\ io'[u].session = io[u].session
          /\ io'[u].step \in HoldsSession <=> io[u].step \in HoldsSession
    BY <1>10 DEF OneClientOnly, Goto, IoAt, TypeOK, HoldsSession
  <2>. QED
    BY <1>10, <2>1, <2>2, OwnershipKept DEF OneClientOnly
<1>11. ASSUME NEW t \in Transports, StartReading(t) PROVE Ownership'
  <2>1. \A u \in Transports :
          /\ io'[u].session = io[u].session
          /\ io'[u].step \in HoldsSession <=> io[u].step \in HoldsSession
    <3>1. CASE m_session = NoSession
      BY <1>11, <3>1 DEF StartReading
    <3>2. CASE m_session # NoSession
      BY <1>11, <3>2, OthersStay DEF StartReading, HoldsSession
    <3>. QED
      BY <3>1, <3>2
  <2>2. HandlerSession' /\ Owned'
    BY <1>11, <2>1 DEF StartReading, Ownership, HandlerSession, Owned
  <2>3. reading' \subseteq {m_session'}
    BY <1>11 DEF StartReading, Ownership
  <2>. QED
    BY <2>2, <2>3 DEF Ownership
<1>12. ASSUME NEW t \in Transports, ReportConnected(t) PROVE Ownership'
  <2>1. /\ io'[t].step = "idle" /\ io'[t].session = NoSession
        /\ \A u \in Transports \ {t} : io'[u] = io[u]
    BY <1>12, OthersStay DEF ReportConnected, Idle
  <2>2. /\ io[t].session \in Sessions
        /\ m_ioService[io[t].session] = t
        /\ phase[io[t].session] \in PastAccept
    BY <1>12, HeldSession DEF ReportConnected, HoldsSession
  <2>3. \A u \in Transports \ {t} : io[u].session # io[t].session
    BY <2>2 DEF Ownership, HandlerSession
  <2>4. HandlerSession'
    BY <1>12, <2>1 DEF ReportConnected, Ownership, HandlerSession, HoldsSession
  <2>5. Owned'
    <3>1. \A s \in Sessions : phase'[s] =
            IF s = io[t].session /\ m_session # s THEN "none" ELSE phase[s]
      BY <1>12, <2>2 DEF ReportConnected, TypeOK
    <3>2. m_session' = m_session
      BY <1>12 DEF ReportConnected
    <3>. QED
      BY <2>1, <2>2, <2>3, <3>1, <3>2 DEF Ownership, Owned, PastAccept
  <2>. QED
    BY <1>12, <2>4, <2>5 DEF ReportConnected, Ownership
<1>13. ASSUME NEW t \in Transports,
              ReportDisconnected(t) \/ ListenAgain(t) \/ AcceptAgain(t)
       PROVE  Ownership'
  <2>1. io[t].step \notin HoldsSession
    BY <1>13 DEF ReportDisconnected, ListenAgain, AcceptAgain, HoldsSession
  <2>2. io[t].session = NoSession
    BY <2>1 DEF Ownership, HandlerSession
  <2>3. io'[t].session = NoSession /\ io'[t].step \notin HoldsSession
        /\ \A u \in Transports \ {t} : io'[u] = io[u]
    <3>1. \E step \in {"relisten", "accept", "idle"} : Goto(t, step, NoSession)
      BY <1>13 DEF ReportDisconnected, ListenAgain, AcceptAgain, Goto, Idle
    <3>. QED
      BY <3>1, OthersStay DEF HoldsSession
  <2>4. \A s \in Sessions : /\ phase'[s] \in PastAccept <=> phase[s] \in PastAccept
                            /\ phase[s] \in PastAccept => m_ioService'[s] = m_ioService[s]
    BY <1>13, AcceptEffect
    DEF ReportDisconnected, ListenAgain, AcceptAgain, objects, PastAccept
  <2>. QED
    BY <1>13, <2>1, <2>2, <2>3, <2>4, OwnershipKept
    DEF ReportDisconnected, ListenAgain, AcceptAgain, objects
<1>14. ASSUME NEW t \in Transports, NEW s \in Sessions, NEW aborted \in BOOLEAN,
              CallbackSessionError(t, s, aborted)
       PROVE  Ownership'
  <2>1. io[t].session = NoSession /\ io[t].step \notin HoldsSession
    BY <1>14 DEF CallbackSessionError, Idle, IoAt, HoldsSession
  <2>2. io'[t].session = NoSession /\ io'[t].step \notin HoldsSession
        /\ \A u \in Transports \ {t} : io'[u] = io[u]
    <3>1. CASE UNCHANGED io
      BY <2>1, <3>1
    <3>2. ASSUME NEW step \in {"lost", "dropping"}, Goto(t, step, NoSession)
          PROVE  io'[t].session = NoSession /\ io'[t].step \notin HoldsSession
                 /\ \A u \in Transports \ {t} : io'[u] = io[u]
      BY <3>2, OthersStay DEF HoldsSession
    <3>. QED
      BY <1>14, <3>1, <3>2 DEF CallbackSessionError
  <2>. QED
    BY <1>14, <2>1, <2>2, OwnershipReset DEF CallbackSessionError
<1>15. CASE UNCHANGED vars
  BY <1>15, OwnershipKept DEF vars
<1>. QED
  BY NextCases, <1>1, <1>2, <1>3, <1>4, <1>5, <1>6, <1>7, <1>8, <1>9, <1>10, <1>11,
     <1>12, <1>13, <1>14, <1>15

\* A session that the server takes is one that it will read from.
LEMMA TakenStep == TypeOK /\ Ownership /\ Taken /\ [Next]_vars => Taken'
<1>. SUFFICES ASSUME TypeOK, Ownership, Taken, Next \/ UNCHANGED vars PROVE Taken'
  OBVIOUS
<1>1. CASE \/ Listen \/ JoinIoThread \/ SetConnectedCallback \/ ListenTrue
           \/ AcceptFirst \/ Close \/ ReleaseTransport
  <2>1. UNCHANGED <<m_session, reading, io>>
    BY <1>1 DEF Listen, JoinIoThread, SetConnectedCallback, ListenTrue, AcceptFirst, Close,
                ReleaseTransport, objects
  <2>. QED
    BY <2>1 DEF Taken
<1>2. CASE CloseResetsSession \/ Release
  BY <1>2 DEF CloseResetsSession, Release, ResetSession, Taken
<1>3. ASSUME NEW s \in Sessions, AcceptCompletes(s) PROVE Taken'
  BY <1>3 DEF AcceptCompletes, Taken
<1>4. ASSUME NEW t \in Transports, UsesReleased(t) PROVE Taken'
  BY <1>4 DEF UsesReleased, objects, Taken
<1>5. ASSUME NEW t \in Transports, TakeSession(t) PROVE Taken'
  BY <1>5, OthersStay DEF TakeSession, Taken
<1>6. ASSUME NEW t \in Transports, OneClientOnly(t) PROVE Taken'
  <2>1. /\ io'[t].step = "read" /\ io'[t].session = io[t].session
        /\ \A u \in Transports \ {t} : io'[u] = io[u]
    BY <1>6, OthersStay DEF OneClientOnly
  <2>. QED
    BY <1>6, <2>1 DEF OneClientOnly, Taken
<1>7. ASSUME NEW t \in Transports, StartReading(t) PROVE Taken'
  BY <1>7 DEF StartReading, Taken
<1>8. ASSUME NEW t \in Transports, ReportConnected(t) PROVE Taken'
  <2>1. \A u \in Transports \ {t} : io'[u] = io[u]
    BY <1>8 DEF ReportConnected, TypeOK
  <2>. QED
    BY <1>8, <2>1 DEF ReportConnected, Taken
<1>9. ASSUME NEW t \in Transports,
             ReportDisconnected(t) \/ ListenAgain(t) \/ AcceptAgain(t)
      PROVE  Taken'
  <2>1. \E step \in {"relisten", "accept", "idle"} : Goto(t, step, NoSession)
    BY <1>9 DEF ReportDisconnected, ListenAgain, AcceptAgain, Goto, Idle
  <2>2. \A u \in Transports \ {t} : io'[u] = io[u]
    BY <2>1, OthersStay
  <2>3. io[t].step \notin {"stop", "read", "replacing"} /\ UNCHANGED <<m_session, reading>>
    BY <1>9 DEF ReportDisconnected, ListenAgain, AcceptAgain, objects
  <2>. QED
    BY <2>2, <2>3 DEF Taken
<1>10. ASSUME NEW t \in Transports, NEW s \in Sessions, HandlerAccept(t, s) PROVE Taken'
  <2>1. io[t].step \notin {"stop", "read", "replacing"}
    BY <1>10 DEF HandlerAccept, Idle, IoAt
  <2>2. \A u \in Transports \ {t} : io'[u] = io[u]
    BY <1>10, OthersStay DEF HandlerAccept
  <2>. QED
    BY <1>10, <2>1, <2>2 DEF HandlerAccept, Taken
<1>11. ASSUME NEW t \in Transports, NEW s \in Sessions, NEW aborted \in BOOLEAN,
              CallbackSessionError(t, s, aborted)
       PROVE  Taken'
  BY <1>11 DEF CallbackSessionError, ResetSession, Taken
<1>12. CASE UNCHANGED vars
  BY <1>12 DEF vars, Taken
<1>. QED
  BY NextCases, <1>1, <1>2, <1>3, <1>4, <1>5, <1>6, <1>7, <1>8, <1>9, <1>10, <1>11, <1>12

\* A transport that is destroyed, and is not the server's, gets nothing new to run.
LEMMA RetiredStep ==
  ASSUME TypeOK, Ownership, Taken, Next \/ UNCHANGED vars,
         NEW u \in Transports, u # m_server, Retired(u)
  PROVE  Retired(u)'
<1>. USE SessionAssumption
<1>1. CASE Listen
  <2>1. /\ m_acceptor'[u] = m_acceptor[u]
        /\ \A s \in Sessions : phase'[s] \in {"none", phase[s]}
    <3>1. CASE m_server = 0
      BY <1>1, <3>1 DEF Listen
    <3>2. CASE m_server # 0
      BY <1>1, <3>2, StopListeningEffect DEF Listen
    <3>. QED
      BY <3>1, <3>2
  <2>. QED
    BY <1>1, <2>1 DEF Listen, Retired, Accepts, Queued, Idle
<1>2. CASE JoinIoThread \/ SetConnectedCallback
  BY <1>2 DEF JoinIoThread, SetConnectedCallback, objects, Retired, Accepts, Queued, Idle
<1>3. CASE ListenTrue
  <2>1. m_acceptor'[u] = m_acceptor[u]
    BY <1>3 DEF ListenTrue, TypeOK
  <2>. QED
    BY <1>3, <2>1 DEF ListenTrue, objects, Retired, Accepts, Queued, Idle
<1>4. CASE AcceptFirst
  BY <1>4, AcceptEffect DEF AcceptFirst, transports, Retired, Accepts, Queued, Idle
<1>5. CASE Close \/ ReleaseTransport
  BY <1>5, StopListeningEffect
  DEF Close, ReleaseTransport, Retired, Accepts, Queued, Idle
<1>6. CASE CloseResetsSession \/ Release
  BY <1>6, ResetEffect
  DEF CloseResetsSession, Release, transports, Retired, Accepts, Queued, Idle
<1>7. ASSUME NEW s \in Sessions, AcceptCompletes(s) PROVE Retired(u)'
  <2>1. /\ phase[s] = "accepting"
        /\ \A r \in Sessions \ {s} : phase'[r] = phase[r]
    BY <1>7 DEF AcceptCompletes, TypeOK
  <2>. QED
    BY <1>7, <2>1 DEF AcceptCompletes, transports, Retired, Accepts, Queued, Idle
<1>8. ASSUME NEW t \in Transports, UsesReleased(t) PROVE Retired(u)'
  BY <1>8 DEF UsesReleased, transports, objects, Retired, Accepts, Queued, Idle
<1>9. ASSUME NEW t \in Transports, TakeSession(t) PROVE Retired(u)'
  <2>1. t # u
    BY <1>9 DEF TakeSession, Retired, Idle, IoAt
  <2>2. io'[u] = io[u]
    BY <1>9, <2>1, OthersStay DEF TakeSession
  <2>3. \A s \in Sessions : phase'[s] \in {"none", phase[s]}
    BY <1>9 DEF TakeSession
  <2>. QED
    BY <1>9, <2>2, <2>3 DEF TakeSession, transports, Retired, Accepts, Queued, Idle
<1>10. ASSUME NEW t \in Transports, OneClientOnly(t) PROVE Retired(u)'
  <2>1. t # u
    BY <1>10 DEF OneClientOnly, Retired, Idle, IoAt
  <2>2. io'[u] = io[u]
    BY <1>10, <2>1, OthersStay DEF OneClientOnly
  <2>. QED
    BY <1>10, <2>2, StopListeningEffect DEF OneClientOnly, Retired, Accepts, Queued, Idle
<1>11. ASSUME NEW t \in Transports, StartReading(t) PROVE Retired(u)'
  <2>1. t # u
    BY <1>11 DEF StartReading, Retired, Idle, IoAt
  <2>2. io'[u] = io[u]
    BY <1>11, <2>1, OthersStay DEF StartReading
  <2>3. m_session # NoSession => m_session \in reading \/ m_ioService[m_session] # u
    BY DEF Taken, Retired, Ownership, HandlerSession, Idle, IoAt
  <2>4. \A s \in reading' : s \in reading \/ m_ioService[s] # u
    BY <1>11, <2>3 DEF StartReading
  <2>. QED
    BY <1>11, <2>2, <2>4 DEF StartReading, transports, Retired, Accepts, Queued, Idle
<1>12. ASSUME NEW t \in Transports, ReportConnected(t) PROVE Retired(u)'
  <2>1. t # u
    BY <1>12 DEF ReportConnected, Retired, Idle, IoAt
  <2>2. io'[u] = io[u]
    BY <1>12, <2>1 DEF ReportConnected, TypeOK
  <2>3. \A s \in Sessions : phase'[s] \in {"none", phase[s]}
    BY <1>12 DEF ReportConnected, TypeOK
  <2>. QED
    BY <1>12, <2>2, <2>3 DEF ReportConnected, transports, Retired, Accepts, Queued, Idle
<1>13. ASSUME NEW t \in Transports, ReportDisconnected(t) \/ ListenAgain(t) PROVE Retired(u)'
  <2>1. t # u
    <3>1. io[t].step \in {"lost", "relisten"}
      BY <1>13 DEF ReportDisconnected, ListenAgain
    <3>. QED
      BY <3>1 DEF Retired, Idle, IoAt
  <2>2. io'[u] = io[u] /\ m_acceptor'[u] = m_acceptor[u]
    BY <1>13, <2>1 DEF ReportDisconnected, ListenAgain, transports, Goto, TypeOK
  <2>. QED
    BY <1>13, <2>2 DEF ReportDisconnected, ListenAgain, objects, Retired, Accepts, Queued, Idle
<1>14. ASSUME NEW t \in Transports, AcceptAgain(t) PROVE Retired(u)'
  <2>1. t # u
    BY <1>14 DEF AcceptAgain, Retired, Idle, IoAt
  <2>2. io'[u] = io[u]
    BY <1>14, <2>1 DEF AcceptAgain, TypeOK
  <2>. QED
    BY <1>14, <2>2, AcceptEffect DEF AcceptAgain, transports, Retired, Accepts, Queued, Idle
<1>15. ASSUME NEW t \in Transports, NEW s \in Sessions, HandlerAccept(t, s)
       PROVE  Retired(u)'
  <2>1. t # u
    BY <1>15 DEF HandlerAccept, Retired, Accepts
  <2>2. io'[u] = io[u]
    BY <1>15, <2>1, OthersStay DEF HandlerAccept
  <2>3. \A r \in Sessions : phase'[r] \in {"none", "connected", "dead", phase[r]}
    BY <1>15 DEF HandlerAccept, TypeOK
  <2>. QED
    BY <1>15, <2>2, <2>3 DEF HandlerAccept, transports, Retired, Accepts, Queued, Idle
<1>16. ASSUME NEW t \in Transports, NEW s \in Sessions, NEW aborted \in BOOLEAN,
              CallbackSessionError(t, s, aborted)
       PROVE  Retired(u)'
  <2>1. t # u
    BY <1>16 DEF CallbackSessionError, Retired
  <2>2. io'[u] = io[u]
    BY <1>16, <2>1, OthersStay DEF CallbackSessionError
  <2>. QED
    BY <1>16, <2>2, ResetEffect
    DEF CallbackSessionError, transports, Retired, Accepts, Queued, Idle
<1>17. CASE UNCHANGED vars
  BY <1>17 DEF vars, Retired, Accepts, Queued, Idle
<1>. QED
  BY NextCases, <1>1, <1>2, <1>3, <1>4, <1>5, <1>6, <1>7, <1>8, <1>9, <1>10, <1>11,
     <1>12, <1>13, <1>14, <1>15, <1>16, <1>17

\* A transport is destroyed only when it has nothing left to run.
LEMMA TransportStep ==
  TypeOK /\ UserCalls /\ Ownership /\ Taken /\ NothingOutlivesTransport /\ [Next]_vars
    => NothingOutlivesTransport'
<1>. SUFFICES ASSUME TypeOK, UserCalls, Ownership, Taken, NothingOutlivesTransport,
                     Next \/ UNCHANGED vars,
                     NEW u \in Transports, u < m_server', u # dying'
              PROVE  Retired(u)'
  BY DEF NothingOutlivesTransport, Retired
<1>1. m_server \in Int /\ u \in Int /\ 1 <= u
  <2>1. m_server \in 0 .. MaxListens
    BY DEF TypeOK
  <2>. QED
    BY <2>1, MaxListensAssumption DEF Transports
<1>3. CASE u = dying /\ u # m_server
  <2>1. CASE JoinIoThread
    <3>1. Retired(u)
      BY <1>3, <2>1 DEF JoinIoThread, UserCalls, Retired, Accepts, Queued
    <3>. QED
      BY <1>3, <3>1, RetiredStep
  <2>2. CASE ~JoinIoThread
    <3>1. user = "join"
      BY <1>1, <1>3 DEF UserCalls
    <3>2. dying' = dying
      BY <2>2, <3>1, NextCases
      DEF vars, Listen, SetConnectedCallback, ListenTrue, AcceptFirst, Close,
          CloseResetsSession, Release, ReleaseTransport, AcceptCompletes, UsesReleased,
          TakeSession, OneClientOnly, StartReading, ReportConnected, ReportDisconnected,
          ListenAgain, AcceptAgain, HandlerAccept, CallbackSessionError, transports
    <3>. QED
      BY <1>3, <3>2
  <2>. QED
    BY <2>1, <2>2
<1>4. CASE u # dying \/ u = m_server
  <2>1. m_server' = m_server \/ (m_server' = m_server + 1 /\ dying' = m_server)
    BY NextCases
    DEF vars, Listen, JoinIoThread, SetConnectedCallback, ListenTrue, AcceptFirst, Close,
        CloseResetsSession, Release, ReleaseTransport, AcceptCompletes, UsesReleased,
        TakeSession, OneClientOnly, StartReading, ReportConnected, ReportDisconnected,
        ListenAgain, AcceptAgain, HandlerAccept, CallbackSessionError, transports
  <2>2. u < m_server
    BY <1>1, <2>1
  <2>3. u # dying /\ u # m_server
    BY <1>1, <1>4, <2>2
  <2>4. Retired(u)
    BY <2>2, <2>3 DEF NothingOutlivesTransport, Retired
  <2>. QED
    BY <2>3, <2>4, RetiredStep
<1>. QED
  BY <1>3, <1>4

-----------------------------------------------------------------------------
(* The theorems.                                                               *)

\* The invariant that the theorems rest on.
IInv == TypeOK /\ UserCalls /\ Ownership /\ Taken /\ NothingOutlivesTransport

LEMMA Invariance == Spec => []IInv
<1>1. Init => IInv
  <2>. SUFFICES ASSUME Init PROVE IInv
    OBVIOUS
  <2>. USE SessionAssumption, MaxListensAssumption DEF Init
  <2>1. TypeOK
    BY DEF TypeOK, Transports, Idle, IoAt, IoSteps
  <2>2. UserCalls /\ Taken
    BY DEF UserCalls, Taken
  <2>3. Ownership
    BY DEF Ownership, HandlerSession, Owned, PastAccept, HoldsSession, Idle, IoAt
  <2>4. NothingOutlivesTransport
    BY DEF NothingOutlivesTransport
  <2>. QED
    BY <2>1, <2>2, <2>3, <2>4 DEF IInv
<1>2. IInv /\ [Next]_vars => IInv'
  BY TypeStep, UserStep, OwnershipStep, TakenStep, TransportStep DEF IInv
<1>. QED
  BY <1>1, <1>2, PTL DEF Spec

\* Every variable keeps its type: the transports, the session objects and the places of
\* the threads.
THEOREM TypeCorrect == Spec => []TypeOK
<1>1. IInv => TypeOK
  BY DEF IInv
<1>. QED
  BY <1>1, Invariance, PTL

\* No session is left behind, whoever closes, loses or replaces it (cserver.cpp:190,
\* 355, 379): what lives is the server's or a handler's, and what reads is the server's.
THEOREM NoSessionOrphaned == Spec => []NoOrphan
<1>1. IInv => NoOrphan
  BY DEF IInv, Ownership, Owned, PastAccept, NoOrphan
<1>. QED
  BY <1>1, Invariance, PTL

\* A TransportServer is destroyed only after its io thread has nothing left to run, however
\* often server_listen makes another (cserver.cpp:146, transport.cpp).
THEOREM TransportOutlived == Spec => []NothingOutlivesTransport
<1>1. IInv => NothingOutlivesTransport
  BY DEF IInv
<1>. QED
  BY <1>1, Invariance, PTL

-----------------------------------------------------------------------------
(***************************************************************************)
(* What the user of a listening server can rely on without fairness, for   *)
(* any number of sessions and of calls of server_listen: one client at a   *)
(* time, a server that is never deaf, and a user who knows of the client.  *)
(***************************************************************************)

(* The invariant.                                                              *)

\* A transport works only from its server_listen on, and hands sessions up, or reports
\* their errors, only once its callback is set.
Made ==
  /\ \A t \in Transports : io[t].step # "idle" => t \in m_cbConnected
  /\ \A s \in Sessions :
       /\ m_ioService[s] <= m_server
       /\ phase[s] # "none" => m_ioService[s] >= 1
       /\ phase[s] \in PastAccept => m_ioService[s] \in m_cbConnected

\* The user sets it before listening.
Configures ==
  /\ user \in {"configure", "listen", "accept"} => wanted = "nothing"
  /\ user = "join" => wanted \in {"nothing", "released"}
  /\ IF user = "configure" \/ (user = "join" /\ wanted = "nothing")
     THEN m_server \notin m_cbConnected
     ELSE m_server >= 1 => m_server \in m_cbConnected
  /\ Listening => m_server >= 1

\* The server listens, or server_listen has joined the transport before.
Serving == user \in {"configure", "listen", "accept"} \/ (user = "idle" /\ Listening)

\* A server that listens has a session, will get one, or has given up.
Alive ==
  m_session # NoSession \/ Accepts # {} \/ io[m_server].step # "idle" \/ gaveUp # "no"

\* What a handler of the server's transport, the only one at work, has achieved.
Progress ==
  Serving =>
    /\ io[m_server].step \in {"stop", "read", "report"} => m_session = io[m_server].session
    /\ io[m_server].step \in {"lost", "relisten", "accept"} => m_session = NoSession
    /\ io[m_server].step = "accept" => m_acceptor[m_server] = "open"
    /\ user = "accept" => m_acceptor[m_server] = "open" \/ Alive
    /\ user = "idle" => Alive

\* What the user knows by then.
Knows ==
  Serving =>
    /\ io[m_server].step \in {"relisten", "accept"} => reported = "disconnected"
    /\ (io[m_server].step = "idle" /\ m_session # NoSession)
         => (reported = "connected" <=> phase[m_session] = "connected")
    /\ (user = "idle" /\ io[m_server].step = "idle" /\ m_session = NoSession)
         => reported = "disconnected" \/ gaveUp = "aborted"

\* A server_listen that found its transport unused: one session at a time.
Single ==
  (user = "idle" /\ wanted = "listening") =>
    /\ \A r, s \in Sessions : phase[r] # "none" /\ phase[s] # "none" => r = s
    /\ io[m_server].step = "take" => m_session = NoSession
    /\ io[m_server].step \in {"lost", "relisten", "accept"}
         => \A s \in Sessions : phase[s] = "none"
    /\ \/ io[m_server].step \in {"read", "report"}
       \/ io[m_server].step = "idle" /\ m_session # NoSession
       => m_acceptor[m_server] = "closed"

\* No other transport has anything to do.
Alone ==
  /\ m_server \in Transports
  /\ \A t \in Transports : t # m_server => io[t].step = "idle"
  /\ \A s \in Sessions : phase[s] # "none" => m_ioService[s] = m_server

\* A thread that runs no handler holds no session.
LEMMA IdleStep ==
  ASSUME TypeOK, Ownership, NEW t \in Transports
  PROVE  /\ io[t].step = "idle" => io[t].session = NoSession
         /\ io[t] = Idle <=> io[t].step = "idle"
<1>1. io[t] \in [step : IoSteps, session : Sessions \union {NoSession}]
  BY DEF TypeOK
<1>2. io[t].step = "idle" => io[t].session = NoSession
  BY DEF Ownership, HandlerSession, HoldsSession
<1>. QED
  BY <1>1, <1>2 DEF Idle, IoAt

\* While the server serves, its transport is the only one at work.
LEMMA ServesAlone ==
  ASSUME IInv, Made, Configures, Serving
  PROVE  Alone
<1>. USE SessionAssumption DEF IInv
<1>1. /\ dying = 0 /\ m_server \in Transports /\ MaxListens \in Nat
      /\ \A s \in Sessions : m_ioService[s] \in 0 .. MaxListens
  <2>1. m_server \in 0 .. MaxListens /\ \A s \in Sessions : m_ioService[s] \in 0 .. MaxListens
    BY DEF TypeOK
  <2>2. m_server >= 1 /\ dying = 0
    BY DEF Serving, UserCalls, Configures
  <2>. QED
    BY <2>1, <2>2, MaxListensAssumption DEF Transports
<1>2. \A t \in Transports : t # m_server => io[t].step = "idle"
  <2>. SUFFICES ASSUME NEW t \in Transports, t # m_server, io[t].step # "idle" PROVE FALSE
    OBVIOUS
  <2>1. t \in 1 .. m_server
    BY DEF Made, TypeOK
  <2>2. t < m_server /\ t # dying
    BY <1>1, <2>1 DEF Transports
  <2>3. io[t] = Idle
    BY <2>2 DEF NothingOutlivesTransport
  <2>. QED
    BY <2>3 DEF Idle, IoAt
<1>3. ASSUME NEW s \in Sessions, phase[s] # "none", m_ioService[s] # m_server
      PROVE  FALSE
  <2>1. m_ioService[s] < m_server
    BY <1>1, <1>3 DEF Made, Transports
  <2>2. CASE m_ioService[s] >= 1
    <3>1. m_ioService[s] \in Transports /\ m_ioService[s] # dying
      BY <1>1, <2>2 DEF Transports
    <3>2. s \notin Accepts \union reading
      BY <2>1, <3>1 DEF NothingOutlivesTransport
    <3>3. phase[s] \in PastAccept
      BY <1>3, <3>2 DEF Accepts, Queued, PastAccept, TypeOK
    <3>4. PICK t \in Transports : s = io[t].session
      BY <3>2, <3>3 DEF Ownership, Owned, Taken
    <3>5. io[t].step # "idle" /\ m_ioService[s] = t
      BY <3>4 DEF Ownership, HandlerSession, HoldsSession
    <3>. QED
      BY <1>2, <1>3, <3>5
  <2>. QED
    BY <1>3, <2>2 DEF Made
<1>. QED
  BY <1>1, <1>2, <1>3 DEF Alone

-----------------------------------------------------------------------------
(* Each part is preserved.                                                     *)

\* m_cbConnected comes before the first handler of a transport.
LEMMA MadeStep ==
  IInv /\ Made /\ [Next]_vars => Made'
<1>. SUFFICES ASSUME IInv, Made, Next \/ UNCHANGED vars PROVE Made'
  OBVIOUS
<1>. /\ TypeOK /\ Ownership /\ UserCalls
  BY DEF IInv
<1>0. /\ m_server \in 0 .. MaxListens /\ MaxListens \in Nat
      /\ \A s \in Sessions : m_ioService[s] \in 0 .. MaxListens
      /\ \A t \in m_cbConnected : m_server >= 1
  <2>1. m_server \in 0 .. MaxListens /\ m_cbConnected \subseteq 1 .. m_server
        /\ \A s \in Sessions : m_ioService[s] \in 0 .. MaxListens
    BY DEF TypeOK
  <2>. QED
    BY <2>1, MaxListensAssumption
<1>1. CASE Listen
  <2>1. /\ m_server' = m_server + 1 /\ UNCHANGED <<io, m_cbConnected, m_ioService>>
        /\ \A s \in Sessions : phase'[s] \in {"none", phase[s]}
    <3>1. CASE m_server = 0
      BY <1>1, <3>1 DEF Listen
    <3>2. CASE m_server # 0
      BY <1>1, <3>2, StopListeningEffect DEF Listen
    <3>. QED
      BY <3>1, <3>2
  <2>. QED
    BY <1>0, <2>1 DEF Made, PastAccept
<1>2. CASE JoinIoThread \/ ListenTrue
  BY <1>2 DEF JoinIoThread, ListenTrue, objects, Made
<1>3. CASE SetConnectedCallback
  BY <1>3 DEF SetConnectedCallback, objects, Made
<1>4. CASE AcceptFirst
  <2>1. m_server >= 1
    BY <1>4 DEF AcceptFirst, UserCalls
  <2>2. UNCHANGED <<m_server, m_cbConnected, io>> /\ AcceptNewConnection
    BY <1>4 DEF AcceptFirst, transports
  <2>. QED
    BY <1>0, <2>1, <2>2, AcceptEffect DEF Made, PastAccept
<1>5. CASE Close \/ ReleaseTransport
  BY <1>5, StopListeningEffect DEF Close, ReleaseTransport, Made, PastAccept
<1>6. CASE CloseResetsSession \/ Release
  BY <1>6, ResetEffect DEF CloseResetsSession, Release, transports, Made, PastAccept
<1>7. ASSUME NEW s \in Sessions, AcceptCompletes(s) PROVE Made'
  <2>1. /\ phase[s] # "none"
        /\ \A r \in Sessions \ {s} : phase'[r] = phase[r]
        /\ phase'[s] \notin PastAccept
    BY <1>7 DEF AcceptCompletes, TypeOK, PastAccept
  <2>. QED
    BY <1>7, <2>1 DEF AcceptCompletes, transports, Made
<1>8. ASSUME NEW t \in Transports, UsesReleased(t) PROVE Made'
  BY <1>8 DEF UsesReleased, transports, objects, Made
<1>9. ASSUME NEW t \in Transports,
             TakeSession(t) \/ OneClientOnly(t) \/ StartReading(t) \/ ReportConnected(t)
               \/ ReportDisconnected(t) \/ ListenAgain(t) \/ AcceptAgain(t)
      PROVE  Made'
  <2>1. io[t].step # "idle"
    BY <1>9 DEF TakeSession, OneClientOnly, StartReading, ReportConnected,
                ReportDisconnected, ListenAgain, AcceptAgain
  <2>2. \A u \in Transports \ {t} : io'[u] = io[u]
    BY <1>9 DEF TakeSession, OneClientOnly, StartReading, ReportConnected,
                ReportDisconnected, ListenAgain, AcceptAgain, Goto, TypeOK
  <2>3. m_cbConnected' = m_cbConnected /\ m_server' = m_server
    BY <1>9 DEF TakeSession, OneClientOnly, StartReading, ReportConnected,
                ReportDisconnected, ListenAgain, AcceptAgain, transports
  <2>4. \A u \in Transports : io'[u].step # "idle" => u \in m_cbConnected'
    BY <2>1, <2>2, <2>3 DEF Made
  <2>5. CASE AcceptAgain(t)
    <3>1. m_server >= 1
      BY <1>0, <2>1 DEF Made
    <3>. QED
      BY <1>0, <2>3, <2>4, <2>5, <3>1, AcceptEffect DEF AcceptAgain, Made, PastAccept
  <2>6. CASE ~AcceptAgain(t)
    <3>1. m_ioService' = m_ioService /\ \A s \in Sessions : phase'[s] \in {"none", phase[s]}
      BY <1>9, <2>6, StopListeningEffect
      DEF TakeSession, OneClientOnly, StartReading, ReportConnected,
          ReportDisconnected, ListenAgain, objects, TypeOK
    <3>. QED
      BY <2>3, <2>4, <3>1 DEF Made, PastAccept
  <2>. QED
    BY <2>5, <2>6
<1>10. ASSUME NEW t \in Transports, NEW s \in Sessions, HandlerAccept(t, s) PROVE Made'
  <2>1. /\ phase[s] # "none" /\ m_ioService[s] = t
        /\ \A r \in Sessions \ {s} : phase'[r] = phase[r]
        /\ phase'[s] \in PastAccept => t \in m_cbConnected
    BY <1>10 DEF HandlerAccept, Queued, TypeOK, PastAccept
  <2>2. \A u \in Transports \ {t} : io'[u] = io[u]
    BY <1>10, OthersStay DEF HandlerAccept
  <2>3. io'[t].step # "idle" => t \in m_cbConnected
    BY <1>10 DEF HandlerAccept, Idle, IoAt
  <2>. QED
    BY <1>10, <2>1, <2>2, <2>3 DEF HandlerAccept, transports, Made
<1>11. ASSUME NEW t \in Transports, NEW s \in Sessions, NEW aborted \in BOOLEAN,
              CallbackSessionError(t, s, aborted)
       PROVE  Made'
  <2>1. t \in m_cbConnected
    BY <1>11 DEF CallbackSessionError, Ownership, Owned, Made
  <2>2. \A u \in Transports \ {t} : io'[u] = io[u]
    BY <1>11, OthersStay DEF CallbackSessionError
  <2>. QED
    BY <1>11, <2>1, <2>2, ResetEffect DEF CallbackSessionError, transports, Made, PastAccept
<1>12. CASE UNCHANGED vars
  BY <1>12 DEF vars, Made
<1>. QED
  BY NextCases, <1>1, <1>2, <1>3, <1>4, <1>5, <1>6, <1>7, <1>8, <1>9, <1>10, <1>11, <1>12

\* A transport that is made new has no callback yet.
LEMMA ConfiguresStep ==
  TypeOK /\ UserCalls /\ Configures /\ [Next]_vars => Configures'
<1>. SUFFICES ASSUME TypeOK, UserCalls, Configures, Next \/ UNCHANGED vars PROVE Configures'
  OBVIOUS
<1>0. m_server \in Nat /\ m_server + 1 \notin m_cbConnected
  <2>1. m_server \in 0 .. MaxListens /\ m_cbConnected \subseteq 1 .. m_server
    BY DEF TypeOK
  <2>. QED
    BY <2>1, MaxListensAssumption
<1>1. CASE Listen
  <2>1. /\ m_server' = m_server + 1 /\ m_cbConnected' = m_cbConnected
        /\ user' \in {"configure", "join"} /\ wanted' = "nothing"
    BY <1>1 DEF Listen
  <2>. QED
    BY <1>0, <2>1 DEF Configures, Listening
<1>2. CASE JoinIoThread
  BY <1>2 DEF JoinIoThread, Configures, Listening
<1>3. CASE SetConnectedCallback
  BY <1>3 DEF SetConnectedCallback, Configures, Listening
<1>4. CASE ListenTrue
  BY <1>4 DEF ListenTrue, Configures, Listening
<1>5. CASE AcceptFirst
  BY <1>5 DEF AcceptFirst, transports, UserCalls, Configures, Listening
<1>6. CASE Close
  BY <1>6 DEF Close, Configures, Listening
<1>7. CASE CloseResetsSession
  BY <1>7 DEF CloseResetsSession, transports, Configures, Listening
<1>8. CASE Release
  BY <1>8 DEF Release, transports, Configures, Listening
<1>9. CASE ReleaseTransport
  BY <1>9 DEF ReleaseTransport, UserCalls, Configures, Listening
<1>10. CASE /\ UNCHANGED <<m_server, m_cbConnected, user, wanted>>
  BY <1>10 DEF Configures, Listening
<1>11. CASE \/ UNCHANGED vars \/ \E s \in Sessions : AcceptCompletes(s)
            \/ \E t \in Transports :
                 \/ UsesReleased(t) \/ TakeSession(t) \/ OneClientOnly(t)
                 \/ StartReading(t) \/ ReportConnected(t) \/ ReportDisconnected(t)
                 \/ ListenAgain(t) \/ AcceptAgain(t)
                 \/ \E s \in Sessions : HandlerAccept(t, s)
                 \/ \E s \in Sessions, aborted \in BOOLEAN : CallbackSessionError(t, s, aborted)
  <2>1. UNCHANGED <<m_server, m_cbConnected, user, wanted>>
    BY <1>11
    DEF vars, AcceptCompletes, UsesReleased, TakeSession, OneClientOnly, StartReading,
      ReportConnected, ReportDisconnected, ListenAgain, AcceptAgain, HandlerAccept,
      CallbackSessionError, transports, asked
  <2>. QED
    BY <1>10, <2>1
<1>. QED
  BY NextCases, <1>1, <1>2, <1>3, <1>4, <1>5, <1>6, <1>7, <1>8, <1>9, <1>11

\* An open acceptor gives one session that is accepting.
LEMMA AcceptOpens ==
  ASSUME TypeOK, AcceptNewConnection, m_acceptor[m_server] = "open"
  PROVE  \E s \in Sessions : /\ phase[s] = "none" /\ phase'[s] = "accepting"
                             /\ \A r \in Sessions \ {s} : phase'[r] = phase[r]
BY DEF TypeOK, AcceptNewConnection

\* server_listen starts with a transport that nothing works for, and without a session.
Begins ==
  user' = "configure" /\ m_session' = NoSession /\ io'[m_server'].step = "idle"

LEMMA ListenBegins ==
  ASSUME IInv, Made, Configures, Listen, Serving'
  PROVE  Begins
<1>. USE SessionAssumption DEF IInv
<1>1. m_server = 0 /\ m_server' = 1 /\ user' = "configure" /\ UNCHANGED <<m_session, io>>
  <2>1. user' \in {"configure", "join"} /\ m_server' = m_server + 1
    BY DEF Listen
  <2>2. user' # "join"
    BY DEF Serving
  <2>. QED
    BY <2>1, <2>2 DEF Listen
<1>2. m_cbConnected = {} /\ 1 \in Transports
  <2>1. m_cbConnected \subseteq 1 .. m_server
    BY DEF TypeOK
  <2>2. 0 < MaxListens
    BY <1>1 DEF Listen
  <2>. QED
    BY <1>1, <2>1, <2>2, MaxListensAssumption DEF Transports
<1>3. io[1].step = "idle"
  BY <1>2 DEF Made
<1>4. m_session = NoSession
  BY <1>2 DEF Made, Ownership, Owned, TypeOK
<1>. QED
  BY <1>1, <1>3, <1>4 DEF Begins

LEMMA JoinBegins ==
  ASSUME IInv, Made, Configures, JoinIoThread, Serving'
  PROVE  Begins
<1>. USE SessionAssumption DEF IInv
<1>1. /\ user = "join" /\ wanted = "nothing" /\ user' = "configure"
      /\ UNCHANGED <<m_session, io, m_server>>
  <2>1. user' = "configure"
    BY DEF JoinIoThread, Serving
  <2>. QED
    BY <2>1 DEF JoinIoThread, Configures, objects
<1>2. m_server \notin m_cbConnected /\ m_server \in Transports
  <2>1. m_server \in 0 .. MaxListens /\ m_server >= 1
    BY <1>1 DEF TypeOK, UserCalls
  <2>. QED
    BY <1>1, <2>1, MaxListensAssumption DEF Configures, Transports
<1>3. io[m_server].step = "idle"
  BY <1>2 DEF Made
<1>4. ASSUME m_session # NoSession PROVE FALSE
  <2>. DEFINE t == m_ioService[m_session]
  <2>1. m_session \in Sessions /\ phase[m_session] \in PastAccept
    BY <1>4 DEF TypeOK, Ownership, Owned
  <2>2. t \in m_cbConnected /\ t # m_server /\ t <= m_server /\ t \in 0 .. MaxListens /\ t >= 1
    BY <1>2, <2>1 DEF Made, TypeOK, PastAccept
  <2>3. t \in Transports /\ t < m_server
    BY <1>2, <2>2, MaxListensAssumption DEF Transports
  <2>4. io[t].step = "idle" /\ m_session \notin reading
    <3>1. CASE t = dying
      BY <2>1, <3>1 DEF JoinIoThread, Idle, IoAt
    <3>2. CASE t # dying
      <4>. HIDE DEF t
      <4>1. io[t] = Idle /\ (m_ioService[m_session] = t => m_session \notin reading)
        BY <2>1, <2>3, <3>2 DEF NothingOutlivesTransport
      <4>. QED
        BY <4>1 DEF Idle, IoAt, t
    <3>. QED
      BY <3>1, <3>2
  <2>. QED
    BY <1>4, <2>4 DEF Taken, Ownership, HandlerSession
<1>. QED
  BY <1>1, <1>3, <1>4 DEF Begins

\* The steps that begin, continue or end what a server does that serves.
IoStep(t) ==
  \/ TakeSession(t) \/ OneClientOnly(t) \/ StartReading(t) \/ ReportConnected(t)
  \/ ReportDisconnected(t) \/ ListenAgain(t) \/ AcceptAgain(t)
  \/ \E s \in Sessions : HandlerAccept(t, s)
  \/ \E s \in Sessions, aborted \in BOOLEAN : CallbackSessionError(t, s, aborted)

LEMMA IoStepAsks ==
  ASSUME NEW t, IoStep(t) \/ \E s \in Sessions : AcceptCompletes(s)
  PROVE  UNCHANGED <<m_server, m_cbConnected, user, wanted>>
BY DEF IoStep, TakeSession, OneClientOnly, StartReading, ReportConnected,
       ReportDisconnected, ListenAgain, AcceptAgain, HandlerAccept, CallbackSessionError,
       AcceptCompletes, transports, asked

LEMMA ServingCases ==
  ASSUME IInv, Made, Configures, Next \/ UNCHANGED vars, Serving'
  PROVE  \/ Begins
         \/ /\ Serving /\ Alone
            /\ \/ SetConnectedCallback \/ (ListenTrue /\ user' = "accept") \/ AcceptFirst
               \/ UNCHANGED vars
               \/ \E s \in Sessions : AcceptCompletes(s)
               \/ IoStep(m_server)
<1>. /\ TypeOK /\ Ownership
  BY DEF IInv
<1>1. CASE Listen \/ JoinIoThread
  BY <1>1, ListenBegins, JoinBegins
<1>2. CASE SetConnectedCallback \/ AcceptFirst
  <2>1. Serving
    BY <1>2 DEF SetConnectedCallback, AcceptFirst, Serving
  <2>2. Alone
    BY <2>1, ServesAlone
  <2>. QED
    BY <1>2, <2>1, <2>2
<1>3. CASE ListenTrue
  <2>1. user = "listen" /\ wanted' = "nothing" /\ user' \in {"accept", "idle"}
    BY <1>3 DEF ListenTrue, Configures
  <2>2. Serving /\ user' = "accept"
    BY <2>1 DEF Serving, Listening
  <2>. QED
    BY <1>3, <2>2, ServesAlone
<1>4. CASE Close \/ CloseResetsSession \/ Release \/ ReleaseTransport
  BY <1>4 DEF Close, CloseResetsSession, Release, ReleaseTransport, Serving, Listening
<1>5. CASE UNCHANGED vars
  <2>1. Serving
    BY <1>5 DEF vars, Serving, Listening
  <2>. QED
    BY <1>5, <2>1, ServesAlone
<1>6. CASE \E s \in Sessions : AcceptCompletes(s)
  <2>1. Serving
    BY <1>6, IoStepAsks DEF Serving, Listening
  <2>. QED
    BY <1>6, <2>1, ServesAlone
<1>7. ASSUME NEW t \in Transports, UsesReleased(t) PROVE FALSE
  BY <1>7 DEF UsesReleased, asked, Serving, Listening, Configures
<1>8. ASSUME NEW t \in Transports, IoStep(t)
      PROVE  Serving /\ Alone /\ IoStep(m_server)
  <2>1. Serving
    BY <1>8, IoStepAsks DEF Serving, Listening
  <2>2. Alone
    BY <2>1, ServesAlone
  <2>3. t = m_server
    <3>1. CASE io[t].step # "idle"
      BY <2>2, <3>1 DEF Alone
    <3>2. CASE io[t].step = "idle"
      <4>1. PICK s \in Sessions : m_ioService[s] = t /\ (s \in Queued \/ s \in reading)
        BY <1>8, <3>2
        DEF IoStep, TakeSession, OneClientOnly, StartReading, ReportConnected,
            ReportDisconnected, ListenAgain, AcceptAgain, HandlerAccept, CallbackSessionError
      <4>2. phase[s] # "none"
        BY <4>1, SessionAssumption DEF Queued, Ownership, Owned, PastAccept
      <4>. QED
        BY <2>2, <4>1, <4>2 DEF Alone
    <3>. QED
      BY <3>1, <3>2
  <2>. QED
    BY <1>8, <2>1, <2>2, <2>3
<1>. QED
  BY NextCases, <1>1, <1>2, <1>3, <1>4, <1>5, <1>6, <1>7, <1>8 DEF IoStep

\* A server that listens is on its way to a session, has one, or has given up.
LEMMA ProgressStep ==
  IInv /\ Made /\ Configures /\ Progress /\ [Next]_vars => Progress'
<1>. SUFFICES ASSUME IInv, Made, Configures, Progress, Next \/ UNCHANGED vars, Serving'
              PROVE  Progress'
  BY DEF Progress
<1>. USE SessionAssumption
<1>. /\ TypeOK /\ Ownership
  BY DEF IInv
<1>1. CASE Begins
  BY <1>1 DEF Begins, Progress
<1>2. ASSUME Serving, Alone
      PROVE  /\ m_server \in Transports
             /\ io[m_server] = Idle <=> io[m_server].step = "idle"
  BY <1>2, IdleStep DEF Alone
<1>3. ASSUME Serving, Alone, SetConnectedCallback PROVE Progress'
  BY <1>3 DEF SetConnectedCallback, objects, Progress
<1>4. ASSUME Serving, Alone, ListenTrue, user' = "accept" PROVE Progress'
  <2>1. m_acceptor'[m_server] = "open" /\ m_server' = m_server /\ UNCHANGED <<io, m_session>>
    BY <1>2, <1>4 DEF ListenTrue, TypeOK, objects
  <2>. QED
    BY <1>4, <2>1 DEF Progress
<1>5. ASSUME Serving, Alone, AcceptFirst PROVE Progress'
  <2>1. UNCHANGED <<m_server, m_acceptor, io, m_session>> /\ user = "accept" /\ user' = "idle"
    BY <1>5 DEF AcceptFirst, transports
  <2>2. CASE m_acceptor[m_server] = "open"
    <3>1. Accepts' # {}
      BY <1>5, <2>2, AcceptOpens DEF AcceptFirst, Accepts
    <3>. QED
      BY <1>5, <2>1, <3>1 DEF Progress, Alive
  <2>3. CASE m_acceptor[m_server] # "open"
    <3>1. UNCHANGED <<phase, gaveUp>>
      BY <1>2, <1>5, <2>3 DEF AcceptFirst, AcceptNewConnection, TypeOK
    <3>. QED
      BY <1>5, <2>1, <2>3, <3>1 DEF Progress, Alive, Accepts, Queued
  <2>. QED
    BY <2>2, <2>3
<1>6. ASSUME Serving, Alone, NEW s \in Sessions, AcceptCompletes(s) PROVE Progress'
  <2>1. UNCHANGED <<m_server, m_acceptor, user, io, m_session, gaveUp>>
    BY <1>6 DEF AcceptCompletes, transports, asked, told
  <2>2. s \in Accepts'
    BY <1>6 DEF AcceptCompletes, TypeOK, Accepts, Queued
  <2>. QED
    BY <1>6, <2>1, <2>2 DEF Progress, Alive
<1>7. ASSUME Serving, Alone, TakeSession(m_server) PROVE Progress'
  <2>1. UNCHANGED <<m_server, m_acceptor>>
    BY <1>7 DEF TakeSession, transports
  <2>2. /\ io'[m_server].step \in {"stop", "replacing"}
        /\ m_session' = io[m_server].session
        /\ io'[m_server].session = io[m_server].session
    BY <1>2, <1>7, OthersStay DEF TakeSession
  <2>. QED
    BY <2>1, <2>2 DEF Progress, Alive
<1>8. ASSUME Serving, Alone, OneClientOnly(m_server) PROVE Progress'
  <2>1. /\ io'[m_server].step = "read" /\ io'[m_server].session = io[m_server].session
        /\ UNCHANGED <<m_session, m_server>>
    BY <1>2, <1>8, OthersStay DEF OneClientOnly
  <2>2. io[m_server].step = "stop"
    BY <1>8 DEF OneClientOnly
  <2>. QED
    BY <1>8, <2>1, <2>2 DEF Progress, Alive
<1>9. ASSUME Serving, Alone, StartReading(m_server) PROVE Progress'
  <2>1. io[m_server].step = "read" /\ UNCHANGED <<m_server, m_session>>
    BY <1>9 DEF StartReading, transports
  <2>2. m_session # NoSession
    BY <1>2, <1>9, <2>1, HeldSession DEF Progress, HoldsSession
  <2>3. io'[m_server].step = "report" /\ io'[m_server].session = io[m_server].session
    BY <1>2, <1>9, <2>2, OthersStay DEF StartReading
  <2>. QED
    BY <1>9, <2>1, <2>3 DEF Progress, Alive
<1>10. ASSUME Serving, Alone, ReportConnected(m_server) PROVE Progress'
  <2>1. io[m_server].step = "report" /\ UNCHANGED <<m_server, m_session>>
    BY <1>10 DEF ReportConnected, transports
  <2>2. m_session # NoSession
    BY <1>2, <1>10, <2>1, HeldSession DEF Progress, HoldsSession
  <2>3. io'[m_server].step = "idle"
    BY <1>2, <1>10, OthersStay DEF ReportConnected, Idle
  <2>. QED
    BY <1>10, <2>1, <2>2, <2>3 DEF Progress, Alive
<1>11. ASSUME Serving, Alone, ReportDisconnected(m_server) PROVE Progress'
  <2>1. /\ io[m_server].step = "lost" /\ UNCHANGED <<m_server, m_session>>
        /\ io'[m_server].step = "relisten"
    BY <1>2, <1>11, OthersStay DEF ReportDisconnected, transports, objects
  <2>. QED
    BY <1>11, <2>1 DEF Progress, Alive
<1>12. ASSUME Serving, Alone, ListenAgain(m_server) PROVE Progress'
  <2>1. io[m_server].step = "relisten" /\ UNCHANGED <<m_server, m_session>>
    BY <1>12 DEF ListenAgain, objects
  <2>2. \/ io'[m_server].step = "accept" /\ m_acceptor'[m_server] = "open"
        \/ io'[m_server].step = "idle" /\ gaveUp' = "port taken"
    <3>0. m_server \in Transports
      BY <1>2, <1>12
    <3>1. CASE /\ m_acceptor' = [m_acceptor EXCEPT ![m_server] = "open"]
               /\ Goto(m_server, "accept", NoSession)
      <4>1. m_acceptor'[m_server] = "open"
        BY <3>0, <3>1 DEF TypeOK
      <4>2. io'[m_server].step = "accept"
        BY <3>0, <3>1, OthersStay
      <4>. QED
        BY <4>1, <4>2
    <3>2. CASE io' = [io EXCEPT ![m_server] = Idle] /\ gaveUp' = "port taken"
      <4>1. io'[m_server].step = "idle"
        BY <3>0, <3>2 DEF TypeOK, Idle, IoAt
      <4>. QED
        BY <3>2, <4>1
    <3>. QED
      BY <1>12, <3>1, <3>2 DEF ListenAgain
  <2>. QED
    BY <1>12, <2>1, <2>2 DEF Progress, Alive
<1>13. ASSUME Serving, Alone, AcceptAgain(m_server) PROVE Progress'
  <2>1. /\ io[m_server].step = "accept" /\ UNCHANGED <<m_server, m_session>>
        /\ io'[m_server].step = "idle"
    BY <1>2, <1>13, OthersStay DEF AcceptAgain, transports, Idle
  <2>2. Accepts' # {}
    BY <1>13, <2>1, AcceptOpens DEF Progress, AcceptAgain, Accepts
  <2>. QED
    BY <1>13, <2>1, <2>2 DEF Progress, Alive
<1>14. ASSUME Serving, Alone, NEW s \in Sessions, HandlerAccept(m_server, s) PROVE Progress'
  <2>1. /\ io[m_server].step = "idle"
        /\ UNCHANGED <<m_server, m_acceptor, m_cbConnected, m_session, user, gaveUp>>
    BY <1>14 DEF HandlerAccept, transports, asked, told, Idle, IoAt
  <2>2. CASE m_server \in m_cbConnected
    <3>1. io'[m_server].step = "take"
      BY <1>2, <1>14, <2>2, OthersStay DEF HandlerAccept
    <3>. QED
      BY <1>14, <2>1, <3>1 DEF Progress, Alive
  <2>3. CASE m_server \notin m_cbConnected
    <3>1. io' = io
      BY <1>14, <2>3 DEF HandlerAccept
    <3>2. user \notin {"accept", "idle"}
      BY <1>2, <1>14, <2>3 DEF Configures, Transports
    <3>. QED
      BY <1>14, <2>1, <3>1, <3>2 DEF Progress
  <2>. QED
    BY <2>2, <2>3
<1>15. ASSUME Serving, Alone, NEW s \in Sessions, NEW aborted \in BOOLEAN,
              CallbackSessionError(m_server, s, aborted)
       PROVE  Progress'
  <2>1. /\ io[m_server].step = "idle" /\ m_session' = NoSession
        /\ UNCHANGED <<m_server, m_acceptor>>
    BY <1>15, ResetEffect DEF CallbackSessionError, transports, Idle, IoAt
  <2>2. \/ io'[m_server].step \in {"lost", "dropping"}
        \/ io'[m_server].step = "idle" /\ gaveUp' = "aborted"
    BY <1>2, <1>15, <2>1, OthersStay DEF CallbackSessionError
  <2>. QED
    BY <1>15, <2>1, <2>2 DEF Progress, Alive
<1>16. CASE UNCHANGED vars
  BY <1>16 DEF vars, Progress, Serving, Listening, Alive, Accepts, Queued
<1>. QED
  BY ServingCases, <1>1, <1>3, <1>4, <1>5, <1>6, <1>7, <1>8, <1>9, <1>10, <1>11, <1>12,
     <1>13, <1>14, <1>15, <1>16 DEF IoStep

\* The user knows whether there is a client once the handler is through.
LEMMA KnowsStep ==
  IInv /\ Made /\ Configures /\ Progress /\ Knows /\ [Next]_vars => Knows'
<1>. SUFFICES ASSUME IInv, Made, Configures, Progress, Knows, Next \/ UNCHANGED vars, Serving'
              PROVE  Knows'
  BY DEF Knows
<1>. USE SessionAssumption
<1>. /\ TypeOK /\ Ownership
  BY DEF IInv
<1>1. CASE Begins
  BY <1>1 DEF Begins, Knows
<1>2. ASSUME Serving, Alone
      PROVE  /\ m_server \in Transports
             /\ io[m_server] = Idle <=> io[m_server].step = "idle"
             /\ m_session # NoSession
                  => m_session \in Sessions /\ phase[m_session] \in PastAccept
  BY <1>2, IdleStep DEF Alone, Ownership, Owned, TypeOK
<1>3. ASSUME Serving, Alone, SetConnectedCallback \/ (ListenTrue /\ user' = "accept")
      PROVE  Knows'
  <2>1. UNCHANGED <<m_server, io, m_session, phase, reported>> /\ user' # "idle"
    BY <1>3 DEF SetConnectedCallback, ListenTrue, objects, told
  <2>. QED
    BY <1>3, <2>1 DEF Knows
<1>4. ASSUME Serving, Alone, AcceptFirst PROVE Knows'
  <2>1. /\ UNCHANGED <<m_server, io, m_session>>
        /\ reported' = IF m_session = NoSession THEN "disconnected" ELSE reported
        /\ m_session # NoSession => phase'[m_session] = phase[m_session]
    BY <1>2, <1>4, AcceptEffect DEF AcceptFirst, transports, PastAccept
  <2>. QED
    BY <1>4, <2>1 DEF Knows
<1>5. ASSUME Serving, Alone, NEW s \in Sessions, AcceptCompletes(s) PROVE Knows'
  <2>1. /\ UNCHANGED <<m_server, user, io, m_session, reported, gaveUp>>
        /\ m_session # NoSession => phase'[m_session] = phase[m_session]
    BY <1>2, <1>5 DEF AcceptCompletes, transports, asked, told, PastAccept, TypeOK
  <2>. QED
    BY <1>5, <2>1 DEF Knows
<1>6. ASSUME Serving, Alone,
             TakeSession(m_server) \/ OneClientOnly(m_server) \/ StartReading(m_server)
      PROVE  Knows'
  <2>1. /\ m_server' = m_server
        /\ io[m_server].step = "read" => m_session # NoSession
    BY <1>2, <1>6, HeldSession
    DEF TakeSession, OneClientOnly, StartReading, transports, Progress, HoldsSession
  <2>2. io'[m_server].step \in {"stop", "replacing", "read", "report"}
    BY <1>2, <1>6, <2>1, OthersStay DEF TakeSession, OneClientOnly, StartReading
  <2>. QED
    BY <2>1, <2>2 DEF Knows
<1>7. ASSUME Serving, Alone, ReportConnected(m_server) PROVE Knows'
  <2>1. io[m_server].step = "report" /\ UNCHANGED <<m_server, m_session>>
    BY <1>7 DEF ReportConnected, transports
  <2>2. m_session # NoSession /\ m_session = io[m_server].session
    BY <1>2, <1>7, <2>1, HeldSession DEF Progress, HoldsSession
  <2>3. io'[m_server].step = "idle"
    BY <1>2, <1>7, OthersStay DEF ReportConnected, Idle
  <2>4. /\ phase'[m_session] = phase[m_session]
        /\ reported' = "connected" <=> phase[m_session] = "connected"
    BY <1>2, <1>7, <2>2 DEF ReportConnected, TypeOK
  <2>. QED
    BY <2>1, <2>2, <2>3, <2>4 DEF Knows
<1>8. ASSUME Serving, Alone, ReportDisconnected(m_server) PROVE Knows'
  <2>1. /\ m_server' = m_server /\ reported' = "disconnected"
        /\ io'[m_server].step = "relisten"
    BY <1>2, <1>8, OthersStay DEF ReportDisconnected, transports
  <2>. QED
    BY <2>1 DEF Knows
<1>9. ASSUME Serving, Alone, ListenAgain(m_server) \/ AcceptAgain(m_server) PROVE Knows'
  <2>1. /\ io[m_server].step \in {"relisten", "accept"}
        /\ UNCHANGED <<m_server, m_session, reported>>
    BY <1>9 DEF ListenAgain, AcceptAgain, transports, objects, told
  <2>2. m_session = NoSession /\ reported = "disconnected"
    BY <1>9, <2>1 DEF Progress, Knows
  <2>. QED
    BY <2>1, <2>2 DEF Knows
<1>10. ASSUME Serving, Alone, NEW s \in Sessions, HandlerAccept(m_server, s) PROVE Knows'
  <2>1. /\ io[m_server].step = "idle" /\ phase[s] \notin PastAccept
        /\ UNCHANGED <<m_server, m_cbConnected, m_session, user, reported>>
    BY <1>10 DEF HandlerAccept, transports, asked, told, Idle, IoAt, Queued, PastAccept
  <2>2. CASE m_server \in m_cbConnected
    <3>1. io'[m_server].step = "take"
      BY <1>2, <1>10, <2>2, OthersStay DEF HandlerAccept
    <3>. QED
      BY <2>1, <3>1 DEF Knows
  <2>3. CASE m_server \notin m_cbConnected
    <3>1. io' = io /\ \A r \in Sessions \ {s} : phase'[r] = phase[r]
      BY <1>10, <2>3 DEF HandlerAccept, TypeOK
    <3>2. user # "idle"
      BY <1>2, <1>10, <2>3 DEF Configures, Transports
    <3>. QED
      BY <1>2, <1>10, <2>1, <3>1, <3>2 DEF Knows
  <2>. QED
    BY <2>2, <2>3
<1>11. ASSUME Serving, Alone, NEW s \in Sessions, NEW aborted \in BOOLEAN,
              CallbackSessionError(m_server, s, aborted)
       PROVE  Knows'
  <2>1. m_session' = NoSession /\ m_server' = m_server /\ io[m_server].step = "idle"
    BY <1>11, ResetEffect DEF CallbackSessionError, transports, Idle, IoAt
  <2>2. \/ io'[m_server].step \in {"lost", "dropping"}
        \/ io'[m_server].step = "idle" /\ gaveUp' = "aborted"
    BY <1>2, <1>11, <2>1, OthersStay DEF CallbackSessionError
  <2>. QED
    BY <2>1, <2>2 DEF Knows
<1>12. CASE UNCHANGED vars
  BY <1>12 DEF vars, Knows, Serving, Listening
<1>. QED
  BY ServingCases, <1>1, <1>3, <1>4, <1>5, <1>6, <1>7, <1>8, <1>9, <1>10, <1>11, <1>12
  DEF IoStep

\* The one session of a server that listens gives way before the next is accepted.
LEMMA SingleStep ==
  IInv /\ Made /\ Configures /\ Progress /\ Single /\ [Next]_vars => Single'
<1>. SUFFICES ASSUME IInv, Made, Configures, Progress, Single, Next \/ UNCHANGED vars,
                     user' = "idle", wanted' = "listening"
              PROVE  Single'
  BY DEF Single
<1>. USE SessionAssumption
<1>. /\ TypeOK /\ Ownership
  BY DEF IInv
<1>0. Serving'
  BY DEF Serving, Listening
<1>1. ASSUME Serving, Alone
      PROVE  /\ m_server \in Transports
             /\ io[m_server] = Idle <=> io[m_server].step = "idle"
             /\ \A t \in Transports : io[t].step = "idle" => io[t].session = NoSession
             /\ m_session # NoSession => m_session \in Sessions /\ phase[m_session] # "none"
             /\ m_session \in Sessions \union {NoSession}
  BY <1>1, IdleStep DEF Alone, Ownership, Owned, TypeOK, PastAccept
<1>2. ASSUME Serving, Alone, AcceptFirst PROVE Single'
  <2>1. /\ UNCHANGED <<m_server, m_session, io>> /\ AcceptNewConnection
        /\ io[m_server].step = "idle" /\ \A s \in Sessions : phase[s] = "none"
    BY <1>1, <1>2 DEF AcceptFirst, transports
  <2>2. \A r, s \in Sessions : phase'[r] # "none" /\ phase'[s] # "none" => r = s
    <3>1. CASE m_acceptor[m_server] = "open"
      BY <2>1, <3>1, AcceptOpens
    <3>2. CASE m_acceptor[m_server] # "open"
      <4>1. m_acceptor[m_server] = "closed"
        BY <1>1, <1>2, <3>2 DEF TypeOK
      <4>2. phase' = phase
        BY <2>1, <4>1 DEF AcceptNewConnection
      <4>. QED
        BY <2>1, <4>2
    <3>. QED
      BY <3>1, <3>2
  <2>3. m_session = NoSession
    BY <1>1, <1>2, <2>1
  <2>. QED
    BY <2>1, <2>2, <2>3 DEF Single
<1>3. ASSUME Serving, Alone, NEW s \in Sessions, AcceptCompletes(s) PROVE Single'
  <2>1. /\ UNCHANGED <<m_server, m_session, io, user, wanted, m_acceptor>>
        /\ \A r \in Sessions : phase'[r] = "none" <=> phase[r] = "none"
    BY <1>3 DEF AcceptCompletes, transports, asked, TypeOK
  <2>. QED
    BY <2>1 DEF Single
<1>4. ASSUME Serving, Alone, IoStep(m_server),
             \A s \in Sessions : phase'[s] # "none" => phase[s] # "none"
      PROVE  /\ m_server' = m_server /\ user = "idle" /\ wanted = "listening"
             /\ \A r, s \in Sessions : phase'[r] # "none" /\ phase'[s] # "none" => r = s
  BY <1>4, IoStepAsks DEF Single
<1>5. ASSUME Serving, Alone, TakeSession(m_server) PROVE Single'
  <2>1. \A s \in Sessions : phase'[s] # "none" => phase[s] # "none"
    BY <1>5 DEF TakeSession
  <2>2. io'[m_server].step \in {"stop", "replacing"}
    BY <1>1, <1>5, OthersStay DEF TakeSession
  <2>. QED
    BY <1>4, <1>5, <2>1, <2>2 DEF Single, IoStep
<1>6. ASSUME Serving, Alone, OneClientOnly(m_server) PROVE Single'
  <2>1. /\ \A s \in Sessions : phase'[s] # "none" => phase[s] # "none"
        /\ m_acceptor'[m_server] = "closed"
    BY <1>1, <1>6, StopListeningEffect DEF OneClientOnly
  <2>2. io'[m_server].step = "read"
    BY <1>1, <1>6, OthersStay DEF OneClientOnly
  <2>. QED
    BY <1>4, <1>6, <2>1, <2>2 DEF Single, IoStep
<1>7. ASSUME Serving, Alone, StartReading(m_server) PROVE Single'
  <2>1. /\ \A s \in Sessions : phase'[s] # "none" => phase[s] # "none"
        /\ m_acceptor' = m_acceptor /\ io[m_server].step = "read"
    BY <1>7 DEF StartReading, transports
  <2>2. io'[m_server].step \in {"read", "report"}
    BY <1>1, <1>7, OthersStay DEF StartReading
  <2>. QED
    BY <1>4, <1>7, <2>1, <2>2 DEF Single, IoStep
<1>8. ASSUME Serving, Alone, ReportConnected(m_server) PROVE Single'
  <2>1. /\ \A s \in Sessions : phase'[s] # "none" => phase[s] # "none"
        /\ m_acceptor' = m_acceptor /\ io[m_server].step = "report"
    BY <1>8 DEF ReportConnected, transports, TypeOK
  <2>2. io'[m_server].step = "idle"
    BY <1>1, <1>8, OthersStay DEF ReportConnected, Idle
  <2>. QED
    BY <1>4, <1>8, <2>1, <2>2 DEF Single, IoStep
<1>9. ASSUME Serving, Alone, ReportDisconnected(m_server) PROVE Single'
  <2>1. /\ phase' = phase /\ io[m_server].step = "lost" /\ io'[m_server].step = "relisten"
    BY <1>1, <1>9, OthersStay DEF ReportDisconnected, objects
  <2>. QED
    BY <1>4, <1>9, <2>1 DEF Single, IoStep
<1>10. ASSUME Serving, Alone, ListenAgain(m_server) PROVE Single'
  <2>1. /\ UNCHANGED <<phase, m_session>> /\ io[m_server].step = "relisten"
    BY <1>10 DEF ListenAgain, objects
  <2>2. io'[m_server].step \in {"accept", "idle"}
    BY <1>1, <1>10, OthersStay DEF ListenAgain, Idle
  <2>3. m_session = NoSession
    BY <1>10, <2>1 DEF Progress
  <2>. QED
    BY <1>4, <1>10, <2>1, <2>2, <2>3 DEF Single, IoStep
<1>11. ASSUME Serving, Alone, AcceptAgain(m_server) PROVE Single'
  <2>1. /\ UNCHANGED <<m_session, m_server, user, wanted>> /\ AcceptNewConnection
        /\ io[m_server].step = "accept"
    BY <1>11, IoStepAsks DEF AcceptAgain, IoStep
  <2>2. m_session = NoSession /\ \A s \in Sessions : phase[s] = "none"
    BY <1>11, <2>1 DEF Progress, Single
  <2>3. m_acceptor[m_server] = "open"
    BY <1>11, <2>1 DEF Progress
  <2>4. io'[m_server].step = "idle"
    BY <1>1, <1>11, OthersStay DEF AcceptAgain, Idle
  <2>. QED
    BY <2>1, <2>2, <2>3, <2>4, AcceptOpens DEF Single
<1>12. ASSUME Serving, Alone, NEW s \in Sessions, HandlerAccept(m_server, s) PROVE Single'
  <2>1. /\ phase[s] # "none" /\ phase[s] \notin PastAccept
        /\ UNCHANGED <<m_session, m_acceptor>> /\ io[m_server].step = "idle"
    BY <1>12 DEF HandlerAccept, Queued, PastAccept, transports, Idle, IoAt
  <2>5. \A r \in Sessions \ {s} : phase'[r] = phase[r]
    BY <1>12 DEF HandlerAccept, TypeOK
  <2>2. io' = io \/ io'[m_server].step = "take"
    BY <1>1, <1>12, OthersStay DEF HandlerAccept
  <2>3. user = "idle" /\ wanted = "listening"
    BY <1>4, <1>12, <2>1, <2>5 DEF IoStep
  <2>4. m_session = NoSession
    <3>1. m_session # s
      BY <2>1 DEF Ownership, Owned
    <3>. QED
      BY <1>1, <1>12, <2>1, <2>3, <3>1 DEF Single
  <2>. QED
    BY <1>4, <1>12, <2>1, <2>2, <2>4, <2>5 DEF Single, IoStep
<1>13. ASSUME Serving, Alone, NEW s \in Sessions, NEW aborted \in BOOLEAN,
              CallbackSessionError(m_server, s, aborted)
       PROVE  Single'
  <2>1. /\ m_session' = NoSession /\ io[m_server].step = "idle" /\ s = m_session
        /\ \A r \in Sessions :
             phase'[r] = IF r = m_session /\ \A t \in Transports : r # io[t].session
                         THEN "none" ELSE phase[r]
    BY <1>13, ResetEffect DEF CallbackSessionError, Ownership, Idle, IoAt
  <2>2. \A r \in Sessions : phase'[r] # "none" => phase[r] # "none"
    BY <2>1
  <2>3. io'[m_server].step \in {"lost", "dropping", "idle"}
    BY <1>1, <1>13, <2>1, OthersStay DEF CallbackSessionError
  <2>4. \A t \in Transports : io[t].session = NoSession
    BY <1>1, <1>13, <2>1 DEF Alone
  <2>5. phase[s] # "none" /\ phase'[s] = "none"
    BY <1>1, <1>13, <2>1, <2>4
  <2>6. \A r \in Sessions : phase'[r] = "none"
    BY <1>4, <1>13, <2>1, <2>2, <2>5 DEF Single, IoStep
  <2>. QED
    BY <1>4, <1>13, <2>1, <2>2, <2>3, <2>6 DEF Single, IoStep
<1>14. CASE UNCHANGED vars
  BY <1>14 DEF vars, Single
<1>15. ~Begins /\ ~SetConnectedCallback /\ user' # "accept"
  BY DEF Begins, SetConnectedCallback
<1>. QED
  BY <1>0, ServingCases, <1>2, <1>3, <1>5, <1>6, <1>7, <1>8, <1>9, <1>10, <1>11, <1>12,
     <1>13, <1>14, <1>15 DEF IoStep

-----------------------------------------------------------------------------
(* The theorems.                                                               *)

LEMMA ServingInvariance == Spec => [](IInv /\ Made /\ Configures /\ Progress /\ Knows /\ Single)
<1>. DEFINE Inv == Made /\ Configures /\ Progress /\ Knows /\ Single
<1>1. Init => Inv
  BY DEF Init, Made, Configures, Progress, Knows, Single, Serving, Listening, PastAccept,
         Idle, IoAt
<1>2. IInv /\ Inv /\ [Next]_vars => Inv'
  BY MadeStep, ConfiguresStep, ProgressStep, KnowsStep, SingleStep DEF IInv
<1>. QED
  BY <1>1, <1>2, Invariance, PTL DEF Spec

\* No handler runs: every thread is at rest.
LEMMA AtRest ==
  ASSUME IInv, NoHandlerRuns
  PROVE  \A t \in Transports : io[t].step = "idle"
BY DEF NoHandlerRuns, Idle, IoAt

\* A server that listens has one session object at most, and no longer listens once a
\* handler is through with it, if the user has not listened twice (cserver.cpp:358).
THEOREM ServesOneClient == Spec => []OneClient
<1>1. IInv /\ Made /\ Configures /\ Single => OneClient
  <2>. SUFFICES ASSUME IInv, Made, Configures, Single,
                       m_session # NoSession, NoHandlerRuns, wanted = "listening", user = "idle"
                PROVE  m_acceptor[m_server] = "closed"
    BY DEF OneClient, Single
  <2>1. Alone
    BY ServesAlone DEF Serving, Listening
  <2>2. io[m_server].step = "idle"
    BY <2>1, AtRest DEF Alone
  <2>. QED
    BY <2>2 DEF Single
<1>. QED
  BY <1>1, ServingInvariance, PTL

\* While it should listen and has no session, an accept is pending or its handler queued,
\* unless a session was aborted or the port was taken (cserver.cpp:380, 410).
THEOREM ListensOn == Spec => []NeverDeaf
<1>1. IInv /\ Made /\ Configures /\ Progress => NeverDeaf
  <2>. SUFFICES ASSUME IInv, Made, Configures, Progress,
                       Listening, user = "idle", m_session = NoSession, NoHandlerRuns
                PROVE  Accepts # {} \/ gaveUp # "no"
    BY DEF NeverDeaf
  <2>1. Alone
    BY ServesAlone DEF Serving
  <2>2. io[m_server].step = "idle"
    BY <2>1, AtRest DEF Alone
  <2>. QED
    BY <2>2 DEF Progress, Serving, Alive
<1>. QED
  BY <1>1, ServingInvariance, PTL

\* The user knows of each client that comes and goes, but for an aborted session
\* (cserver.cpp:363, 399).
THEOREM ClientIsReported == Spec => []ClientReported
<1>1. IInv /\ Made /\ Configures /\ Knows => ClientReported
  <2>. SUFFICES ASSUME IInv, Made, Configures, Knows,
                       NoHandlerRuns, user = "idle", Listening, gaveUp # "aborted"
                PROVE  reported = "connected"
                         <=> \E s \in Sessions : s = m_session /\ phase[s] = "connected"
    BY DEF ClientReported
  <2>1. Alone
    BY ServesAlone DEF Serving
  <2>2. io[m_server].step = "idle"
    BY <2>1, AtRest DEF Alone
  <2>3. m_session \in Sessions \union {NoSession} /\ NoSession \notin Sessions
    BY SessionAssumption DEF IInv, TypeOK
  <2>. QED
    BY <2>2, <2>3 DEF Knows, Serving
<1>. QED
  BY <1>1, ServingInvariance, PTL
================================================================================
