-------------------------- MODULE ClientConnection --------------------------
(***************************************************************************)
(* The client's connection: TransportClient (client/src/                   *)
(* transport_client.cpp), which resolves, connects and re-arms a 5 s       *)
(* reconnect timer, and EmserverAdapter (client/src/emserveradapter.cpp),  *)
(* which holds the session and tells the user of it.                       *)
(*                                                                         *)
(* Two threads: the user's, which opens, closes and destroys, and the io   *)
(* thread, which runs the handlers.  Neither class has a lock, so the two  *)
(* interleave between any two accesses to m_session and the timer that the *)
(* other thread can tell apart; a test of m_session and its use are two    *)
(* steps.  A session that has been read is destroyed with a join of its    *)
(* processing thread: on the io thread that may last for good, as          *)
(* SessionTeardown shows.  The adapter's destructor closes, destroys the   *)
(* adapter's members and then waits for the io thread to run dry.          *)
(***************************************************************************)
EXTENDS Integers, FiniteSets

CONSTANTS Sessions,       \* bound: the TcpSession objects that can exist at a time
          NoSession       \* a null pointer

ASSUME SessionAssumption == NoSession \notin Sessions

VARIABLES phase,         \* what each session object is in the middle of
          timerArmed,    \* an async_wait is pending on m_reconnectTimer
          timerQueued,   \* its handler has been queued: cancel comes too late
          m_session,
          reading,       \* the sessions with a pending async_read
          io,            \* where the io thread stands, and with which session
          user,          \* where the user's thread stands
          m_clientCallbacks, \* the user's callbacks are registered
          process,       \* "undefined" after a dead member or a null pointer was used
          wanted,        \* history: the user's last completed call
          everClosed,    \* history: the user has closed or destroyed
          reported,      \* history: the state the user was last told
          owed,          \* history: what the end of an aborted session has left undone
          cancelled      \* history: the destructor's cancel came in time, and the timer
                         \* has not been armed since

timer == <<timerArmed, timerQueued>>
alive == <<m_clientCallbacks, process, cancelled>>
asked == <<user, wanted, everClosed, alive>>
told  == <<reported, owed>>
vars  == <<phase, timerArmed, timerQueued, m_session, reading, io, user,
           m_clientCallbacks, process, wanted, everClosed, reported, owed,
           cancelled>>

Unused == {s \in Sessions : phase[s] = "none"}

IoAt(step, s) == [step |-> step, session |-> s]
Idle == IoAt("idle", NoSession)

\* The io thread waits in ~CommonProcessor for a thread that waits for the io thread.
Blocked == io.step = "blocked"

-----------------------------------------------------------------------------
Init ==
  /\ phase = [s \in Sessions |-> "none"]
  /\ timerArmed = FALSE /\ timerQueued = FALSE
  /\ m_session = NoSession
  /\ reading = {}
  /\ io = Idle
  /\ user = "idle" /\ m_clientCallbacks = TRUE /\ process = "up"
  /\ wanted = "closed" /\ everClosed = FALSE /\ cancelled = FALSE
  /\ reported = "disconnected" /\ owed = {}

\* openConnection: a new session and its resolution,
StartAttempt == \E s \in Unused : phase' = [phase EXCEPT ![s] = "resolving"]

\* and the timer armed afresh, which cancels the wait that was pending.
ArmTimer == timerArmed' = TRUE /\ owed' = owed \ {"retry"}

\* Both on the io thread, whose handlers wait: a user who cancels in between might as
\* well have done so before.
OpenConnection ==
  /\ StartAttempt
  /\ ArmTimer
  /\ cancelled' = FALSE

\* The user's emserverConnectedStateChanging callback, if it is registered.
ReportState(state) ==
  IF m_clientCallbacks
  THEN reported' = state /\ owed' = owed \ {"report"}
  ELSE UNCHANGED told

\* m_session.reset(): the session is destroyed unless the handler that the io thread
\* runs holds another reference.
ResetSession ==
  /\ m_session' = NoSession
  /\ reading' = reading \ {m_session}
  /\ phase' = [s \in Sessions |-> IF s = m_session /\ s # io.session THEN "none" ELSE phase[s]]

-----------------------------------------------------------------------------
(* The user's thread.                                                          *)

\* Bound: the user leaves a session unused, for the io thread to reconnect with.
ConnectionOpen ==
  /\ user = "idle"
  /\ Cardinality(Unused) > 1
  /\ user' = "arm"
  /\ StartAttempt
  /\ UNCHANGED <<timer, m_session, reading, io, wanted, everClosed, alive, told>>

\* The handlers of the attempt need not wait for the user's thread to come here.
ConnectionOpened ==
  /\ user = "arm"
  /\ user' = "idle"
  /\ wanted' = "open"
  /\ ArmTimer
  /\ UNCHANGED <<phase, timerQueued, m_session, reading, io, everClosed, alive, reported>>

\* ~EmserverAdapter: no more callbacks.
Destroy ==
  /\ user = "idle"
  /\ user' = "close"
  /\ m_clientCallbacks' = FALSE
  /\ everClosed' = TRUE
  /\ UNCHANGED <<phase, timer, m_session, reading, io, wanted, process, cancelled, told>>

\* Mutant: the timer goes on.
TimerLeft ==
  /\ user \in {"idle", "close"}
  /\ user' = "reset"
  /\ everClosed' = TRUE
  /\ cancelled' = (user = "close" /\ ~timerQueued)
  /\ UNCHANGED <<phase, timer, m_session, reading, io, m_clientCallbacks, process, wanted, told>>

\* connectionClose, of the user or of the destructor: cancel the timer,
ConnectionClose ==
  /\ user \in {"idle", "close"}
  /\ user' = "reset"
  /\ everClosed' = TRUE
  /\ timerArmed' = FALSE
  /\ cancelled' = (user = "close" /\ ~timerQueued)
  /\ UNCHANGED <<phase, timerQueued, m_session, reading, io, m_clientCallbacks, process, wanted,
                 told>>

\* drop the session,
CloseResetsSession ==
  /\ user = "reset"
  /\ user' = "callback"
  /\ ResetSession
  /\ UNCHANGED <<timer, io, wanted, everClosed, alive, told>>

\* and call the state callback, connected before or not.  The destructor finds none, and
\* destroys all members but the transport.
CloseReports ==
  /\ user = "callback"
  /\ user' = IF m_clientCallbacks THEN "idle" ELSE "join"
  /\ wanted' = "closed"
  /\ ReportState("disconnected")
  /\ IF m_clientCallbacks THEN UNCHANGED <<phase, m_session, reading>> ELSE ResetSession
  /\ UNCHANGED <<timer, io, everClosed, alive>>

\* ~TransportClient: no handler runs or is queued, no attempt, timer or read is left.
JoinIoThread ==
  /\ user = "join"
  /\ io = Idle /\ ~timerArmed /\ ~timerQueued
  /\ \A s \in Sessions : phase[s] = "none"
  /\ user' = "end"
  /\ UNCHANGED <<phase, timer, m_session, reading, io, wanted, everClosed, alive, told>>

-----------------------------------------------------------------------------
(* The io thread.                                                              *)

\* A handler, or the end of an attempt, that goes on to the adapter finds its members
\* destroyed.
UsesDestroyed ==
  /\ user = "join"
  /\ process' = "undefined"
  /\ UNCHANGED <<phase, timer, m_session, reading, io, user, m_clientCallbacks, wanted,
                 everClosed, cancelled, told>>

\* The timer runs out: its handler joins the queue of the io thread.
TimerExpires ==
  /\ timerArmed
  /\ timerArmed' = FALSE
  /\ timerQueued' = TRUE
  /\ UNCHANGED <<phase, m_session, reading, io, asked, told>>

\* A cancelled wait only returns; one that ran out starts the next attempt.
OnReconnectTimerTimeout ==
  /\ io = Idle
  /\ timerQueued
  /\ timerQueued' = FALSE
  /\ OpenConnection
  /\ UNCHANGED <<m_session, reading, io, user, wanted, everClosed, m_clientCallbacks, process,
                 reported>>

OnHandlerResolved(s) ==
  /\ io = Idle
  /\ phase[s] = "resolving"
  /\ phase' = [phase EXCEPT ![s] = "connecting"]
  /\ UNCHANGED <<timer, m_session, reading, io, asked, told>>

\* Mutant: a failed resolution drops the session and reopens, and tells nobody.
FailsSilently(s) ==
  /\ io = Idle /\ user # "join"
  /\ phase[s] = "resolving"
  /\ m_session' = NoSession
  /\ reading' = reading \ {m_session}
  /\ phase' = [r \in Sessions |-> IF r \in {s, m_session} THEN "none" ELSE phase[r]]
  /\ io' = IoAt("reopen", NoSession)
  /\ UNCHANGED <<timer, asked, told>>

\* A failed resolution goes to m_callbackError, EmserverAdapter::onSessionError,
\* which drops the session the adapter has, whichever attempt it came from, and goes on
\* when its processing thread has ended.
ResolutionFailed(s) ==
  /\ io = Idle /\ user # "join"
  /\ phase[s] = "resolving"
  /\ m_session' = NoSession
  /\ reading' = reading \ {m_session}
  /\ phase' = [r \in Sessions |-> IF r \in {s, m_session} THEN "none" ELSE phase[r]]
  /\ \/ io' = IoAt("disconnected", NoSession)
     \/ m_session \in reading /\ io' = IoAt("blocked", NoSession)
  /\ UNCHANGED <<timer, asked, told>>

\* Mutant: the timer is cancelled before the error of the connection is looked at.
CancelFirst(s) ==
  /\ io = Idle
  /\ phase[s] = "connecting"
  /\ phase' = [phase EXCEPT ![s] = "none"]
  /\ timerArmed' = FALSE
  /\ UNCHANGED <<timerQueued, m_session, reading, io, asked, told>>

\* A refused connection leaves the rest to the timer.
ConnectFailed(s) ==
  /\ io = Idle
  /\ phase[s] = "connecting"
  /\ phase' = [phase EXCEPT ![s] = "none"]
  /\ UNCHANGED <<timer, m_session, reading, io, asked, told>>

OnHandlerAccepted(s) ==
  /\ io = Idle /\ user # "join"
  /\ phase[s] = "connecting"
  /\ phase' = [phase EXCEPT ![s] = "connected"]
  /\ timerArmed' = FALSE
  /\ io' = IoAt("connected", s)
  /\ UNCHANGED <<timerQueued, m_session, reading, asked, told>>

\* onClientConnected: the adapter takes the session; the one it had is destroyed.
OnClientConnected ==
  /\ io.step = "connected"
  /\ m_session' = io.session
  /\ reading' = reading \ {m_session}
  /\ phase' = [s \in Sessions |-> IF s = m_session THEN "none" ELSE phase[s]]
  /\ \/ io' = IoAt("find", io.session)
     \/ m_session \in reading /\ io' = IoAt("blocked", io.session)
  /\ UNCHANGED <<timer, asked, told>>

FindCallback ==
  /\ io.step = "find"
  /\ io' = IoAt(IF m_clientCallbacks THEN "test" ELSE "check", io.session)
  /\ UNCHANGED <<phase, timer, m_session, reading, asked, told>>

\* If the session is still there by now,
TestSession ==
  /\ io.step = "test"
  /\ io' = IoAt(IF m_session # NoSession THEN "params" ELSE "check", io.session)
  /\ UNCHANGED <<phase, timer, m_session, reading, asked, told>>

\* its addresses are asked for,
ReadParameters ==
  /\ io.step = "params" /\ m_session # NoSession
  /\ io' = IoAt("report", io.session)
  /\ UNCHANGED <<phase, timer, m_session, reading, asked, told>>

\* and the copy of the state callback is called.
ReportConnected ==
  /\ io.step = "report"
  /\ reported' = "connected" /\ owed' = owed \ {"report"}
  /\ io' = IoAt("check", io.session)
  /\ UNCHANGED <<phase, timer, m_session, reading, asked>>

\* The handler's own reference ends.
EndHandler ==
  /\ phase' = [phase EXCEPT ![io.session] = IF m_session = io.session THEN @ ELSE "none"]
  /\ io' = Idle

\* Mutant of CheckSession: m_session is used without the test that it is still there.
ReadsNull ==
  /\ io.step = "check"
  /\ reading' = reading \union {m_session}
  /\ EndHandler
  /\ UNCHANGED <<timer, m_session, asked, told>>

\* If it is still there now,
CheckSession ==
  /\ io.step = "check"
  /\ IF m_session # NoSession THEN io' = IoAt("read", io.session) /\ UNCHANGED phase
                              ELSE EndHandler
  /\ UNCHANGED <<timer, m_session, reading, asked, told>>

\* Mutant of StartReading: the session of the handler reads, not the adapter's.
ReadsOwnSession ==
  /\ io.step = "read"
  /\ reading' = reading \union {io.session}
  /\ io' = Idle
  /\ UNCHANGED <<phase, timer, m_session, asked, told>>

\* registerReadCallback and waitReading.
StartReading ==
  /\ io.step = "read" /\ m_session # NoSession
  /\ reading' = reading \union {m_session}
  /\ EndHandler
  /\ UNCHANGED <<timer, m_session, asked, told>>

\* connectionClose has reset m_session between a test and a use of it.
UsesNull ==
  /\ io.step \in {"params", "read"} /\ m_session = NoSession
  /\ process' = "undefined"
  /\ UNCHANGED <<phase, timer, m_session, reading, io, user, m_clientCallbacks, wanted,
                 everClosed, cancelled, told>>

\* A session reports an error of a read or a write: onSessionError drops it, and
\* says nothing more when the code is one of three kinds of abort.
OnSessionError(s, aborted) ==
  /\ io = Idle
  /\ s \in reading
  /\ ResetSession
  /\ \/ aborted /\ io' = Idle /\ owed' = {"report", "retry"}
     \/ ~aborted /\ io' = IoAt("disconnected", NoSession) /\ UNCHANGED owed
     \/ io' = IoAt("blocked", NoSession) /\ UNCHANGED owed
  /\ UNCHANGED <<timer, asked, reported>>

\* Mutant: the error is reported and nothing is opened again.
ReportOnly ==
  /\ io.step = "disconnected"
  /\ ReportState("disconnected")
  /\ io' = Idle
  /\ UNCHANGED <<phase, timer, m_session, reading, asked>>

ReportDisconnected ==
  /\ io.step = "disconnected"
  /\ ReportState("disconnected")
  /\ io' = IoAt("reopen", NoSession)
  /\ UNCHANGED <<phase, timer, m_session, reading, asked>>

Reopen ==
  /\ io.step = "reopen"
  /\ OpenConnection
  /\ io' = Idle
  /\ UNCHANGED <<timerQueued, m_session, reading, user, wanted, everClosed, m_clientCallbacks,
                 process, reported>>

-----------------------------------------------------------------------------
Adapter == \/ OnClientConnected \/ FindCallback \/ TestSession \/ ReadParameters
           \/ ReportConnected \/ CheckSession \/ StartReading \/ UsesNull
           \/ ReportDisconnected \/ Reopen

IoThread == \/ OnReconnectTimerTimeout
            \/ user # "join" /\ Adapter
            \/ io # Idle /\ ~Blocked /\ UsesDestroyed

Resolve(s) == \/ OnHandlerResolved(s) \/ ResolutionFailed(s)
              \/ io = Idle /\ phase[s] = "resolving" /\ UsesDestroyed
Connect(s) == \/ ConnectFailed(s) \/ OnHandlerAccepted(s)
              \/ io = Idle /\ phase[s] = "connecting" /\ UsesDestroyed

UserThread == \/ ConnectionOpened
              \/ ConnectionClose \/ CloseResetsSession \/ CloseReports \/ JoinIoThread

\* A process that is no more does nothing.
Next == /\ process = "up"
        /\ \/ ConnectionOpen \/ Destroy \/ UserThread
           \/ TimerExpires
           \/ \E s \in Sessions :
                \/ Resolve(s) \/ Connect(s)
                \/ \E aborted \in BOOLEAN : OnSessionError(s, aborted)
           \/ IoThread

Spec == Init /\ [][Next]_vars

\* The threads run, every attempt comes to an end and time passes; a server that
\* is tried again and again resolves and accepts in the end.
FairSpec ==
  /\ Spec
  /\ WF_vars(process = "up" /\ user # "idle" /\ UserThread)
  /\ WF_vars(process = "up" /\ IoThread) /\ WF_vars(process = "up" /\ TimerExpires)
  /\ \A s \in Sessions :
       /\ WF_vars(process = "up" /\ Resolve(s)) /\ WF_vars(process = "up" /\ Connect(s))
       /\ SF_vars(process = "up" /\ OnHandlerResolved(s))
       /\ SF_vars(process = "up" /\ OnHandlerAccepted(s))

-----------------------------------------------------------------------------
TypeOK ==
  /\ phase \in [Sessions -> {"none", "resolving", "connecting", "connected"}]
  /\ timerArmed \in BOOLEAN /\ timerQueued \in BOOLEAN
  /\ m_session \in Sessions \union {NoSession}
  /\ reading \subseteq Sessions
  /\ io \in [step : {"idle", "connected", "find", "test", "params", "report", "check", "read",
                    "disconnected", "reopen", "blocked"},
             session : Sessions \union {NoSession}]
  /\ user \in {"idle", "arm", "close", "reset", "callback", "join", "end"}
  /\ {m_clientCallbacks, cancelled} \subseteq BOOLEAN
  /\ process \in {"up", "undefined"}
  /\ wanted \in {"open", "closed"} /\ everClosed \in BOOLEAN
  /\ reported \in {"connected", "disconnected"}
  /\ owed \subseteq {"report", "retry"}

\* No session is left behind: the only session that lives outside an attempt and a
\* running handler is the adapter's, and no other one delivers messages to it.
NoOrphan ==
  /\ reading \subseteq {m_session}
  /\ \A s \in Sessions : phase[s] = "connected" => s \in {m_session, io.session}

\* The client never gives up: with the connection wanted, no session and no handler
\* at work, the reconnect timer is armed or its handler queued, so that not even a
\* refused connection, which reports nothing, ends the attempts.  Only a session that
\* was aborted is not opened again.
NeverGivesUp ==
  (wanted = "open" /\ user = "idle" /\ m_session = NoSession /\ io = Idle)
     => timerArmed \/ timerQueued \/ "retry" \in owed

\* A wanted connection is established again and again, whatever fails: a refusal, a
\* lost session, or a late failure to resolve that takes a working session away.  The
\* escapes: a close that crosses the connected handler leaves it a null pointer to use,
\* and the io thread that destroys a session may wait for its processing thread for good.
Reconnects ==
  (wanted = "open" /\ "retry" \notin owed)
     ~> \/ m_session # NoSession \/ wanted = "closed" \/ ~m_clientCallbacks
        \/ process # "up" \/ Blocked

\* "State updates come through emserverConnectedStateChanging" (client/hdr/
\* emserverfacade.h, connectionOpen): between two handlers the user knows whether
\* there is a session, overlapping attempts and late failures included.  It is not so
\* once a session was aborted, or the user has closed or destroyed, which may cross
\* the callback of a session that has just connected.
StateReported ==
  (io = Idle /\ "report" \notin owed /\ ~everClosed)
     => (reported = "connected" <=> m_session # NoSession)

\* An adapter may be destroyed while it is connected, or with attempts and handlers under
\* way: when the destructor's cancel comes before the timer has run out, and nothing opens
\* again in the few steps until the members are gone, the destructor returns, or a handler
\* reaches what it has destroyed, or the io thread waits for the processing thread.
DestructorReturns ==
  (user = "join" /\ cancelled) ~> (user = "end" \/ process # "up" \/ Blocked)

\* "Stops the attempts to connect or breaks the connection" (client/hdr/
\* emserverfacade.h, connectionClose): once it has returned there is no session until
\* the user opens again.
ClosedStaysClosed == (wanted = "closed" /\ user = "idle") => m_session = NoSession
=============================================================================
