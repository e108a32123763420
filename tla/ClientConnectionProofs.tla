------------------------ MODULE ClientConnectionProofs ------------------------
(***************************************************************************)
(* What ClientConnection promises without fairness, for any number of      *)
(* sessions: no session is left behind, the client never gives up, and the *)
(* user knows the state.                                                   *)
(***************************************************************************)
EXTENDS ClientConnection, TLAPS

-----------------------------------------------------------------------------
(* The invariant.                                                              *)

\* A handler holds a session exactly while it takes it over, which it may never finish.
TakingOver == {"find", "test", "params", "report", "check", "read"}

HandlerSession ==
  /\ io.step \in TakingOver \union {"connected"} => io.session # NoSession
  /\ io.session # NoSession => io.step \in TakingOver \union {"connected", "blocked"}

\* From the moment a handler has taken a session over, and until one has lost it, the
\* timer stands in for a session that is not there.
TimerStandsIn ==
  (wanted = "open" /\ user = "idle" /\ m_session = NoSession
     /\ io.step \in TakingOver \union {"idle"})
   => timerArmed \/ timerQueued \/ "retry" \in owed

\* What the user of an adapter that was never closed knows at each step of the io thread.
StateKnown ==
  ~everClosed =>
    /\ user \in {"idle", "arm"} /\ m_clientCallbacks
    /\ io.step = "idle" /\ "report" \notin owed
         => (reported = "connected" <=> m_session # NoSession)
    /\ io.step \in TakingOver => m_session # NoSession
    /\ io.step \in {"check", "read"} => reported = "connected"
    /\ io.step \in {"disconnected", "reopen"} => m_session = NoSession
    /\ io.step = "reopen" => reported = "disconnected"

\* The actions, all of them.
LEMMA NextCases ==
  ASSUME Next
  PROVE  \/ ConnectionOpen \/ ConnectionOpened \/ Destroy
         \/ ConnectionClose \/ CloseResetsSession \/ CloseReports \/ JoinIoThread
         \/ TimerExpires \/ OnReconnectTimerTimeout
         \/ \E s \in Sessions : \/ OnHandlerResolved(s) \/ ResolutionFailed(s)
                                \/ ConnectFailed(s) \/ OnHandlerAccepted(s)
                                \/ \E aborted \in BOOLEAN : OnSessionError(s, aborted)
         \/ OnClientConnected \/ FindCallback \/ TestSession \/ ReadParameters
         \/ ReportConnected \/ CheckSession \/ StartReading \/ UsesNull
         \/ ReportDisconnected \/ Reopen
         \/ UsesDestroyed
BY DEF Next, UserThread, IoThread, Adapter, Resolve, Connect

-----------------------------------------------------------------------------
(* Each part is preserved.                                                     *)

LEMMA TypeStep == TypeOK /\ [Next]_vars => TypeOK'
<1>. SUFFICES ASSUME TypeOK, [Next]_vars PROVE TypeOK'
  OBVIOUS
<1>. USE SessionAssumption
     DEF TypeOK, timer, alive, asked, told, vars, IoAt, Idle, Unused, StartAttempt, ArmTimer,
         OpenConnection, EndHandler, ResetSession, ReportState
<1>1. CASE ConnectionOpen \/ ConnectionOpened
  BY <1>1 DEF ConnectionOpen, ConnectionOpened
<1>2. CASE Destroy
  <2>1. /\ user' = "close" /\ m_clientCallbacks' = FALSE /\ everClosed' = TRUE
        /\ UNCHANGED <<phase, timer, m_session, reading, io, wanted, process, cancelled, told>>
    BY <1>2 DEF Destroy
  <2>2. {m_clientCallbacks', cancelled'} \subseteq BOOLEAN
    BY <2>1
  <2>3. UNCHANGED <<phase, timerArmed, timerQueued, m_session, reading, io, process, wanted,
                    reported, owed>>
    BY <2>1
  <2>. QED
    BY <2>1, <2>2, <2>3
<1>3. CASE ConnectionClose
  BY <1>3 DEF ConnectionClose
<1>4. CASE CloseResetsSession
  BY <1>4 DEF CloseResetsSession
<1>5. CASE CloseReports
  <2>1. phase' \in [Sessions -> {"none", "resolving", "connecting", "connected"}]
    BY <1>5 DEF CloseReports
  <2>2. /\ m_session' \in {m_session, NoSession} /\ reading' \subseteq reading
        /\ reported' \in {"connected", "disconnected"} /\ owed' \subseteq owed
    BY <1>5 DEF CloseReports
  <2>3. /\ user' \in {"idle", "join"} /\ wanted' = "closed"
        /\ UNCHANGED <<timer, io, everClosed, alive>>
    BY <1>5 DEF CloseReports
  <2>. QED
    BY <2>1, <2>2, <2>3
<1>6. CASE JoinIoThread
  BY <1>6 DEF JoinIoThread
<1>7. CASE TimerExpires
  <2>1. timerArmed' \in BOOLEAN /\ timerQueued' \in BOOLEAN
    BY <1>7 DEF TimerExpires
  <2>2. UNCHANGED <<phase, m_session, reading, io, asked, told>>
    BY <1>7 DEF TimerExpires
  <2>. QED
    BY <2>1, <2>2
<1>8. CASE OnReconnectTimerTimeout
  BY <1>8 DEF OnReconnectTimerTimeout
<1>9. ASSUME NEW s \in Sessions, OnHandlerResolved(s) PROVE TypeOK'
  BY <1>9 DEF OnHandlerResolved
<1>10. ASSUME NEW s \in Sessions, ResolutionFailed(s) PROVE TypeOK'
  BY <1>10 DEF ResolutionFailed
<1>11. ASSUME NEW s \in Sessions, ConnectFailed(s) PROVE TypeOK'
  BY <1>11 DEF ConnectFailed
<1>12. ASSUME NEW s \in Sessions, OnHandlerAccepted(s) PROVE TypeOK'
  BY <1>12 DEF OnHandlerAccepted
<1>13. ASSUME NEW s \in Sessions, NEW aborted \in BOOLEAN, OnSessionError(s, aborted)
       PROVE  TypeOK'
  <2>1. phase' \in [Sessions -> {"none", "resolving", "connecting", "connected"}]
    BY <1>13 DEF OnSessionError
  <2>2. /\ io' \in {Idle, IoAt("disconnected", NoSession), IoAt("blocked", NoSession)}
        /\ owed' \in {owed, {"report", "retry"}}
    BY <1>13 DEF OnSessionError
  <2>. QED
    BY <1>13, <2>1, <2>2 DEF OnSessionError
<1>14. CASE OnClientConnected
  BY <1>14 DEF OnClientConnected
<1>15. CASE FindCallback \/ TestSession \/ ReadParameters
  <2>1. io' \in [step : {"test", "params", "report", "check"}, session : {io.session}]
    BY <1>15 DEF FindCallback, TestSession, ReadParameters
  <2>2. UNCHANGED <<phase, timer, m_session, reading, asked, told>>
    BY <1>15 DEF FindCallback, TestSession, ReadParameters
  <2>. QED
    BY <2>1, <2>2
<1>16. CASE CheckSession
  <2>1. phase' \in [Sessions -> {"none", "resolving", "connecting", "connected"}]
    BY <1>16 DEF CheckSession
  <2>2. io' \in {Idle, IoAt("read", io.session)}
    BY <1>16 DEF CheckSession
  <2>. QED
    BY <1>16, <2>1, <2>2 DEF CheckSession
<1>17. CASE ReportConnected
  <2>1. io' = IoAt("check", io.session) /\ UNCHANGED <<phase, timer, m_session, reading, asked>>
    BY <1>17 DEF ReportConnected
  <2>2. reported' \in {"connected", "disconnected"} /\ owed' \subseteq owed
    BY <1>17 DEF ReportConnected
  <2>. QED
    BY <2>1, <2>2
<1>18. CASE StartReading
  <2>1. phase' \in [Sessions -> {"none", "resolving", "connecting", "connected"}]
    BY <1>18 DEF StartReading
  <2>2. io' = Idle /\ reading' \subseteq Sessions
    BY <1>18 DEF StartReading
  <2>. QED
    BY <1>18, <2>1, <2>2 DEF StartReading
<1>19. CASE ReportDisconnected
  <2>1. io' = IoAt("reopen", NoSession) /\ UNCHANGED <<phase, timer, m_session, reading, asked>>
    BY <1>19 DEF ReportDisconnected
  <2>2. reported' \in {"connected", "disconnected"} /\ owed' \subseteq owed
    BY <1>19 DEF ReportDisconnected
  <2>. QED
    BY <2>1, <2>2
<1>20. CASE Reopen
  BY <1>20 DEF Reopen
<1>21. CASE UsesDestroyed \/ UsesNull
  <2>1. /\ process' = "undefined"
        /\ UNCHANGED <<phase, timer, m_session, reading, io, user, m_clientCallbacks, wanted,
                       everClosed, cancelled, told>>
    BY <1>21 DEF UsesDestroyed, UsesNull
  <2>. QED
    BY <2>1
<1>22. CASE UNCHANGED vars
  BY <1>22
<1>. QED
  BY NextCases, <1>1, <1>2, <1>3, <1>4, <1>5, <1>6, <1>7, <1>8, <1>9, <1>10, <1>11, <1>12,
     <1>13, <1>14, <1>15, <1>16, <1>17, <1>18, <1>19, <1>20, <1>21, <1>22

\* A handler takes its session with its first step and lets it go with its last.
LEMMA HandlerStep == TypeOK /\ HandlerSession /\ [Next]_vars => HandlerSession'
<1>. SUFFICES ASSUME TypeOK, HandlerSession, [Next]_vars PROVE HandlerSession'
  OBVIOUS
<1>. USE SessionAssumption
     DEF TypeOK, HandlerSession, TakingOver,
         timer, alive, asked, told, vars, IoAt, Idle, Unused, StartAttempt, ArmTimer,
         OpenConnection, EndHandler, ResetSession, ReportState
<1>1. CASE ConnectionOpen \/ ConnectionOpened \/ Destroy \/ ConnectionClose
  BY <1>1 DEF ConnectionOpen, ConnectionOpened, Destroy, ConnectionClose
<1>2. CASE CloseResetsSession \/ CloseReports \/ JoinIoThread
  BY <1>2 DEF CloseResetsSession, CloseReports, JoinIoThread
<1>3. CASE TimerExpires \/ OnReconnectTimerTimeout \/ UsesDestroyed
  BY <1>3 DEF TimerExpires, OnReconnectTimerTimeout, UsesDestroyed
<1>4. ASSUME NEW s \in Sessions, OnHandlerResolved(s) \/ ConnectFailed(s)
      PROVE  HandlerSession'
  BY <1>4 DEF OnHandlerResolved, ConnectFailed
<1>5. ASSUME NEW s \in Sessions, ResolutionFailed(s)
      PROVE  HandlerSession'
  BY <1>5 DEF ResolutionFailed
<1>6. ASSUME NEW s \in Sessions, OnHandlerAccepted(s)
      PROVE  HandlerSession'
  BY <1>6 DEF OnHandlerAccepted
<1>7. ASSUME NEW s \in Sessions, NEW aborted \in BOOLEAN, OnSessionError(s, aborted)
      PROVE  HandlerSession'
  BY <1>7 DEF OnSessionError
<1>8. CASE OnClientConnected
  BY <1>8 DEF OnClientConnected
<1>9. CASE FindCallback \/ TestSession \/ ReadParameters \/ ReportConnected \/ UsesNull
  BY <1>9 DEF FindCallback, TestSession, ReadParameters, ReportConnected, UsesNull
<1>10. CASE CheckSession \/ StartReading
  BY <1>10 DEF CheckSession, StartReading
<1>11. CASE ReportDisconnected \/ Reopen
  BY <1>11 DEF ReportDisconnected, Reopen
<1>12. CASE UNCHANGED vars
  BY <1>12
<1>. QED
  BY NextCases, <1>1, <1>2, <1>3, <1>4, <1>5, <1>6, <1>7, <1>8, <1>9, <1>10, <1>11, <1>12

\* A session that leaves m_session is destroyed, or is in the hands of a handler.
LEMMA OrphanStep == TypeOK /\ HandlerSession /\ NoOrphan /\ [Next]_vars => NoOrphan'
<1>. SUFFICES ASSUME TypeOK, HandlerSession, NoOrphan, [Next]_vars PROVE NoOrphan'
  OBVIOUS
<1>. USE SessionAssumption
     DEF TypeOK, HandlerSession, TakingOver, NoOrphan,
         timer, alive, asked, told, vars, IoAt, Idle, Unused, StartAttempt, ArmTimer,
         OpenConnection, EndHandler, ResetSession, ReportState
<1>1. CASE ConnectionOpen \/ ConnectionOpened \/ Destroy \/ ConnectionClose
  BY <1>1 DEF ConnectionOpen, ConnectionOpened, Destroy, ConnectionClose
<1>2. CASE CloseResetsSession \/ CloseReports \/ JoinIoThread
  BY <1>2 DEF CloseResetsSession, CloseReports, JoinIoThread
<1>3. CASE TimerExpires \/ OnReconnectTimerTimeout \/ UsesDestroyed
  BY <1>3 DEF TimerExpires, OnReconnectTimerTimeout, UsesDestroyed
<1>4. ASSUME NEW s \in Sessions, OnHandlerResolved(s) \/ ConnectFailed(s)
      PROVE  NoOrphan'
  BY <1>4 DEF OnHandlerResolved, ConnectFailed
<1>5. ASSUME NEW s \in Sessions, ResolutionFailed(s)
      PROVE  NoOrphan'
  BY <1>5 DEF ResolutionFailed
<1>6. ASSUME NEW s \in Sessions, OnHandlerAccepted(s)
      PROVE  NoOrphan'
  BY <1>6 DEF OnHandlerAccepted
<1>7. ASSUME NEW s \in Sessions, NEW aborted \in BOOLEAN, OnSessionError(s, aborted)
      PROVE  NoOrphan'
  BY <1>7 DEF OnSessionError
<1>8. CASE OnClientConnected
  BY <1>8 DEF OnClientConnected
<1>9. CASE FindCallback \/ TestSession \/ ReadParameters \/ ReportConnected \/ UsesNull
  BY <1>9 DEF FindCallback, TestSession, ReadParameters, ReportConnected, UsesNull
<1>10. CASE CheckSession \/ StartReading
  BY <1>10 DEF CheckSession, StartReading
<1>11. CASE ReportDisconnected \/ Reopen
  BY <1>11 DEF ReportDisconnected, Reopen
<1>12. CASE UNCHANGED vars
  BY <1>12
<1>. QED
  BY NextCases, <1>1, <1>2, <1>3, <1>4, <1>5, <1>6, <1>7, <1>8, <1>9, <1>10, <1>11, <1>12

\* The timer is cancelled with a session at hand, or by a user who closes.
LEMMA TimerStep == TypeOK /\ HandlerSession /\ TimerStandsIn /\ [Next]_vars => TimerStandsIn'
<1>. SUFFICES ASSUME TypeOK, HandlerSession, TimerStandsIn, [Next]_vars PROVE TimerStandsIn'
  OBVIOUS
<1>. USE SessionAssumption
     DEF TypeOK, HandlerSession, TakingOver, TimerStandsIn,
         timer, alive, asked, told, vars, IoAt, Idle, Unused, StartAttempt, ArmTimer,
         OpenConnection, EndHandler, ResetSession, ReportState
<1>1. CASE ConnectionOpen \/ ConnectionOpened \/ Destroy \/ ConnectionClose
  BY <1>1 DEF ConnectionOpen, ConnectionOpened, Destroy, ConnectionClose
<1>2. CASE CloseResetsSession \/ CloseReports \/ JoinIoThread
  BY <1>2 DEF CloseResetsSession, CloseReports, JoinIoThread
<1>3. CASE TimerExpires \/ OnReconnectTimerTimeout \/ UsesDestroyed
  BY <1>3 DEF TimerExpires, OnReconnectTimerTimeout, UsesDestroyed
<1>4. ASSUME NEW s \in Sessions, OnHandlerResolved(s) \/ ConnectFailed(s)
      PROVE  TimerStandsIn'
  BY <1>4 DEF OnHandlerResolved, ConnectFailed
<1>5. ASSUME NEW s \in Sessions, ResolutionFailed(s)
      PROVE  TimerStandsIn'
  BY <1>5 DEF ResolutionFailed
<1>6. ASSUME NEW s \in Sessions, OnHandlerAccepted(s)
      PROVE  TimerStandsIn'
  BY <1>6 DEF OnHandlerAccepted
<1>7. ASSUME NEW s \in Sessions, NEW aborted \in BOOLEAN, OnSessionError(s, aborted)
      PROVE  TimerStandsIn'
  BY <1>7 DEF OnSessionError
<1>8. CASE OnClientConnected
  BY <1>8 DEF OnClientConnected
<1>9. CASE FindCallback \/ TestSession \/ ReadParameters \/ ReportConnected \/ UsesNull
  BY <1>9 DEF FindCallback, TestSession, ReadParameters, ReportConnected, UsesNull
<1>10. CASE CheckSession \/ StartReading
  BY <1>10 DEF CheckSession, StartReading
<1>11. CASE ReportDisconnected \/ Reopen
  BY <1>11 DEF ReportDisconnected, Reopen
<1>12. CASE UNCHANGED vars
  BY <1>12
<1>. QED
  BY NextCases, <1>1, <1>2, <1>3, <1>4, <1>5, <1>6, <1>7, <1>8, <1>9, <1>10, <1>11, <1>12

\* The state is told after m_session is set or reset, and before the handler ends.
LEMMA StateStep == TypeOK /\ HandlerSession /\ StateKnown /\ [Next]_vars => StateKnown'
<1>. SUFFICES ASSUME TypeOK, HandlerSession, StateKnown, [Next]_vars PROVE StateKnown'
  OBVIOUS
<1>. USE SessionAssumption
     DEF TypeOK, HandlerSession, TakingOver, StateKnown,
         timer, alive, asked, told, vars, IoAt, Idle, Unused, StartAttempt, ArmTimer,
         OpenConnection, EndHandler, ResetSession, ReportState
<1>1. CASE ConnectionOpen \/ ConnectionOpened \/ Destroy \/ ConnectionClose
  BY <1>1 DEF ConnectionOpen, ConnectionOpened, Destroy, ConnectionClose
<1>2. CASE CloseResetsSession \/ CloseReports \/ JoinIoThread
  BY <1>2 DEF CloseResetsSession, CloseReports, JoinIoThread
<1>3. CASE TimerExpires \/ OnReconnectTimerTimeout \/ UsesDestroyed
  BY <1>3 DEF TimerExpires, OnReconnectTimerTimeout, UsesDestroyed
<1>4. ASSUME NEW s \in Sessions, OnHandlerResolved(s) \/ ConnectFailed(s)
      PROVE  StateKnown'
  BY <1>4 DEF OnHandlerResolved, ConnectFailed
<1>5. ASSUME NEW s \in Sessions, ResolutionFailed(s)
      PROVE  StateKnown'
  BY <1>5 DEF ResolutionFailed
<1>6. ASSUME NEW s \in Sessions, OnHandlerAccepted(s)
      PROVE  StateKnown'
  BY <1>6 DEF OnHandlerAccepted
<1>7. ASSUME NEW s \in Sessions, NEW aborted \in BOOLEAN, OnSessionError(s, aborted)
      PROVE  StateKnown'
  BY <1>7 DEF OnSessionError
<1>8. CASE OnClientConnected
  BY <1>8 DEF OnClientConnected
<1>9. CASE FindCallback \/ TestSession \/ ReadParameters \/ ReportConnected \/ UsesNull
  BY <1>9 DEF FindCallback, TestSession, ReadParameters, ReportConnected, UsesNull
<1>10. CASE CheckSession \/ StartReading
  BY <1>10 DEF CheckSession, StartReading
<1>11. CASE ReportDisconnected \/ Reopen
  BY <1>11 DEF ReportDisconnected, Reopen
<1>12. CASE UNCHANGED vars
  BY <1>12
<1>. QED
  BY NextCases, <1>1, <1>2, <1>3, <1>4, <1>5, <1>6, <1>7, <1>8, <1>9, <1>10, <1>11, <1>12

-----------------------------------------------------------------------------
(* The theorems.                                                               *)

\* The type invariant, and with it the parts of the invariant.
THEOREM TypeCorrect == Spec => []TypeOK
<1>1. Init => TypeOK
  <2>. SUFFICES ASSUME Init PROVE TypeOK
    OBVIOUS
  <2>1. phase \in [Sessions -> {"none"}]
    BY DEF Init
  <2>2. io \in [step : {"idle"}, session : {NoSession}]
    BY DEF Init, Idle, IoAt
  <2>3. {timerArmed, timerQueued, m_clientCallbacks, everClosed, cancelled} \subseteq BOOLEAN
    BY DEF Init
  <2>. QED
    BY <2>1, <2>2, <2>3 DEF Init, TypeOK
<1>. QED
  BY <1>1, TypeStep, PTL DEF Spec

\* A handler of the io thread has a session from its first step to its last.
LEMMA HandlersHoldSessions == Spec => []HandlerSession
<1>1. Init => HandlerSession
  BY SessionAssumption DEF Init, HandlerSession, TakingOver, Idle, IoAt
<1>. QED
  BY <1>1, TypeCorrect, HandlerStep, PTL DEF Spec

\* No session is left behind: emserveradapter.cpp, onClientConnected and onSessionError
\* against connectionClose of another thread, whatever attempts overlap.
THEOREM NoSessionOrphaned == Spec => []NoOrphan
<1>1. Init => NoOrphan
  BY DEF Init, NoOrphan
<1>. QED
  BY <1>1, TypeCorrect, HandlersHoldSessions, OrphanStep, PTL DEF Spec

\* The client never gives up: transport_client.cpp, whose timer is cancelled by
\* onHandlerAccepted and armed by every openConnection.
THEOREM ClientPersists == Spec => []NeverGivesUp
<1>1. Init => TimerStandsIn
  BY DEF Init, TimerStandsIn, TakingOver
<1>2. TypeOK /\ TimerStandsIn => NeverGivesUp
  BY DEF TimerStandsIn, TakingOver, NeverGivesUp, Idle, IoAt
<1>. QED
  BY <1>1, <1>2, TypeCorrect, HandlersHoldSessions, TimerStep, PTL DEF Spec

\* The user of an adapter that was never closed knows the state: emserveradapter.cpp,
\* onClientConnected and onSessionError.
THEOREM StateIsReported == Spec => []StateReported
<1>1. Init => StateKnown
  BY DEF Init, StateKnown, TakingOver, Idle, IoAt
<1>2. StateKnown => StateReported
  BY DEF StateKnown, TakingOver, StateReported, Idle, IoAt
<1>. QED
  BY <1>1, <1>2, TypeCorrect, HandlersHoldSessions, StateStep, PTL DEF Spec
=============================================================================
