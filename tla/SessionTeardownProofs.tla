------------------------- MODULE SessionTeardownProofs -------------------------
(***************************************************************************)
(* What SessionTeardown promises without fairness, for any number of       *)
(* messages and requests.                                                  *)
(***************************************************************************)
EXTENDS SessionTeardown, TLAPS

-----------------------------------------------------------------------------
(* The invariant.                                                              *)

Steps == {"idle", "callback", "use", "lock", "gate", "result", "reset",
          "destroy", "join", "stop", "exit"}

Destroys(t) == at[t] \in {"destroy", "join"}

\* The session is in its destructor exactly while one thread is, at the same place.
OneDestroyer ==
  /\ \A t, u \in Threads : Destroys(t) /\ Destroys(u) => t = u
  /\ \A t \in Threads : at[t] = "destroy" => life = "closing"
  /\ \A t \in Threads : at[t] = "join" => life = "joining"
  /\ life \in {"closing", "joining"} => \E t \in Threads : Destroys(t)

\* Two things refer to the session, and the processing thread ends after its gate.
Held ==
  /\ life = "alive" <=> connected \/ m_session = "set"
  /\ m_needExit <=> life \in {"joining", "gone"}
  /\ at["processing"] = "exit" => m_needExit
  /\ life = "gone" => at["processing"] = "exit"

\* In the connected handler the io thread has no other, so nothing is handed over.
InConnected ==
  /\ connected => /\ at["processing"] = "idle" /\ queued = 0
                  /\ at["io"] \in {"callback", "use", "lock", "gate", "reset"}
  /\ at["io"] = "callback" => connected
  /\ at["io"] \in {"use", "lock", "gate"} => connected /\ back["io"] = "callback"

\* What the user's own thread knows of the session that it has reset.
DroppedByUser ==
  /\ dropped = NoThread <=> m_session = "set"
  /\ dropped = "user" =>
       \/ Destroys("user")
       \/ at["processing"] = "exit"
       \/ at["processing"] = "idle" /\ queued = 0 /\ (connected \/ life # "alive")

TeardownInv == OneDestroyer /\ Held /\ InConnected /\ DroppedByUser

-----------------------------------------------------------------------------
(* Types.                                                                      *)

LEMMA GotoType ==
  ASSUME TypeOK, NEW t \in Threads, NEW step \in Steps, Goto(t, step)
  PROVE  at' \in [Threads -> Steps]
BY DEF TypeOK, Steps, Goto

LEMMA AfterType == ASSUME NEW t \in Threads PROVE After(t) \in {"idle", "callback", "stop"}
BY DEF After, Threads

LEMMA DestroyType ==
  ASSUME TypeOK, NEW t \in Threads, Destroy(t)
  PROVE  /\ at' \in [Threads -> Steps]
         /\ life' = "closing"
         /\ read' \in {"pending", "arrived", "failed", "off"}
<1>1. at' \in [Threads -> Steps]
  BY GotoType DEF Destroy, Steps
<1>. QED
  BY <1>1 DEF Destroy, TypeOK

LEMMA BreaksType == TypeOK /\ Breaks => TypeOK'
BY DEF TypeOK, Breaks, calls, session, gate, network, worker, bounds

LEMMA TypeStep == TypeOK /\ [Next]_vars => TypeOK'
<1>. SUFFICES ASSUME TypeOK, [Next]_vars PROVE TypeOK'
  OBVIOUS
<1>. USE BoundAssumption, ThreadAssumption
     DEF TypeOK, Threads, calls, session, gate, network, worker, bounds, vars
<1>1. ASSUME NEW t \in Threads, UserSends(t) PROVE TypeOK'
  BY <1>1 DEF UserSends, Goto
<1>2. ASSUME NEW t \in Threads, Sending(t) PROVE TypeOK'
  <2>1. CASE UseSession(t)
    <3>1. CASE Breaks
      BY <3>1, BreaksType
    <3>2. CASE Goto(t, IF life = "alive" THEN "lock" ELSE back[t])
               /\ UNCHANGED <<back, session, gate, write, network, worker, process, bounds>>
      BY <3>2 DEF Goto
    <3>. QED
      BY <2>1, <3>1, <3>2 DEF UseSession
  <2>2. CASE LockSendSync(t)
    BY <2>2 DEF LockSendSync, Goto
  <2>3. CASE WriteFrame(t)
    BY <2>3 DEF WriteFrame, Goto
  <2>4. CASE SendsOnGone(t)
    BY <2>4, BreaksType DEF SendsOnGone
  <2>. QED
    BY <1>2, <2>1, <2>2, <2>3, <2>4 DEF Sending
<1>3. ASSUME NEW t \in Threads, Close(t) PROVE TypeOK'
  BY <1>3 DEF Close, Goto
<1>4. ASSUME NEW t \in Threads, Dropping(t) PROVE TypeOK'
  <2>1. CASE ResetSession(t)
    <3>1. /\ m_session' \in {"dead", "null"} /\ dropped' = t
          /\ UNCHANGED <<back, connected, gate, write, link, worker, process, bounds>>
      BY <2>1 DEF ResetSession
    <3>2. CASE Goto(t, After(t)) /\ UNCHANGED <<life, read>>
      <4>1. at' \in [Threads -> Steps]
        BY <3>2, AfterType, GotoType DEF Steps
      <4>. QED
        BY <3>1, <3>2, <4>1 DEF Steps
    <3>3. CASE Destroy(t)
      BY <3>1, <3>3, DestroyType DEF Steps
    <3>. QED
      BY <2>1, <3>2, <3>3 DEF ResetSession
  <2>2. CASE NothingToReset(t)
    <3>1. at' \in [Threads -> Steps]
      BY <2>2, AfterType, GotoType DEF Steps, NothingToReset
    <3>. QED
      BY <2>2, <3>1 DEF NothingToReset, Steps
  <2>3. CASE ResetsDead(t)
    BY <2>3, BreaksType DEF ResetsDead
  <2>4. CASE DestroyGate(t)
    BY <2>4 DEF DestroyGate, Goto
  <2>5. CASE Join(t)
    <3>1. at' \in [Threads -> Steps]
      BY <2>5, AfterType, GotoType DEF Steps, Join
    <3>. QED
      BY <2>5, <3>1 DEF Join, Steps
  <2>. QED
    BY <1>4, <2>1, <2>2, <2>3, <2>4, <2>5 DEF Dropping
<1>5. CASE Release \/ JoinIoThread
  <2>1. PICK step \in {"reset", "exit"} : Goto("user", step)
    BY <1>5 DEF Release, JoinIoThread
  <2>2. at' \in [Threads -> Steps]
    BY <2>1, GotoType DEF Steps
  <2>3. releasing' \in BOOLEAN
    BY <1>5 DEF Release, JoinIoThread
  <2>4. /\ UNCHANGED <<back, session, gate, write, network, worker, process>>
        /\ UNCHANGED <<sends, requests>>
    BY <1>5 DEF Release, JoinIoThread
  <2>. QED
    BY <2>2, <2>3, <2>4 DEF Steps
<1>6. ASSUME IoThread PROVE TypeOK'
  <2>1. CASE HandlerWrite
    <3>1. CASE Breaks
      BY <3>1, BreaksType
    <3>2. CASE ~Breaks
      <4>1. /\ write' = "none" /\ m_inSendMode' = FALSE
            /\ UNCHANGED <<back, session, m_sendSyncMutex, network, worker, process, bounds>>
        BY <2>1, <3>2 DEF HandlerWrite
      <4>2. PICK step \in {"reset", "idle"} : Goto("io", step)
        BY <2>1, <3>2 DEF HandlerWrite
      <4>3. at' \in [Threads -> Steps]
        BY <4>2, GotoType DEF Steps
      <4>4. {m_inSendMode', m_needExit'} \subseteq BOOLEAN
        BY <4>1
      <4>. QED
        BY <4>1, <4>3, <4>4 DEF Steps
    <3>. QED
      BY <3>1, <3>2
  <2>2. CASE HandlerReadError
    BY <2>2, BreaksType DEF HandlerReadError, Goto
  <2>3. CASE HandlerRead
    BY <2>3, BreaksType DEF HandlerRead
  <2>4. CASE ConnectedReturns
    <3>1. /\ connected' = FALSE
          /\ UNCHANGED <<back, m_session, dropped, gate, write, link, worker, process, bounds>>
      BY <2>4 DEF ConnectedReturns
    <3>0. /\ {m_inSendMode', m_needExit'} \subseteq BOOLEAN /\ queued' \in Nat
          /\ back' \in [Threads -> {"idle", "callback"}]
          /\ sends' \in 0 .. MaxSends /\ requests' \in 0 .. MaxRequests
          /\ releasing' \in BOOLEAN /\ connected' \in BOOLEAN
      BY <3>1
    <3>2. CASE Goto("io", "idle") /\ UNCHANGED <<life, read>>
      <4>1. at' \in [Threads -> Steps]
        BY <3>2, GotoType DEF Steps
      <4>. QED
        BY <3>0, <3>1, <3>2, <4>1 DEF Steps
    <3>3. CASE Destroy("io")
      BY <3>0, <3>1, <3>3, DestroyType DEF Steps
    <3>. QED
      BY <2>4, <3>2, <3>3 DEF ConnectedReturns
  <2>. QED
    BY <1>6, <2>1, <2>2, <2>3, <2>4 DEF IoThread
<1>7. ASSUME ProcessingThread PROVE TypeOK'
  BY <1>7 DEF ProcessingThread, TakeRequest, CallbackReturns, SendMethodCallResult, Exit, Goto
<1>8. ASSUME Network \/ LinkBreaks \/ RequestArrives PROVE TypeOK'
  BY <1>8 DEF Network, WriteCompletes, ReadFails, LinkBreaks, RequestArrives
<1>9. ASSUME Undefined PROVE TypeOK'
  BY <1>9, BreaksType DEF Undefined, HandlerWriteOnJoining, SendsOnJoining, ResetsAtOnce
<1>10. CASE UNCHANGED vars
  BY <1>10
<1>. QED
  BY <1>1, <1>2, <1>3, <1>4, <1>5, <1>6, <1>7, <1>8, <1>9, <1>10 DEF Next

-----------------------------------------------------------------------------
(* The steps.                                                                  *)

\* A step that leaves the session, its worker and the threads where they are.
Still == UNCHANGED <<at, back, connected, m_session, dropped, life, m_needExit, queued>>

LEMMA StillStep == TeardownInv /\ Still => TeardownInv'
BY DEF Still, TeardownInv, OneDestroyer, Held, InConnected, DroppedByUser, Destroys

LEMMA BreaksStep == TeardownInv /\ Breaks => TeardownInv'
BY StillStep DEF Breaks, Still, calls, session, worker

\* A thread that walks about outside the destructor.
LEMMA WalkStep ==
  ASSUME TypeOK, TeardownInv, NEW t \in Threads, NEW step \in Steps \ {"destroy", "join"},
         ~Destroys(t), Goto(t, step), UNCHANGED <<session, worker>>,
         back' = back \/ (step = "use" /\ back' = [back EXCEPT ![t] = back'[t]]),
         t = "io" => /\ connected => step \in {"callback", "use", "lock", "gate", "reset"}
                     /\ step = "callback" => connected
                     /\ step \in {"use", "lock", "gate"} => connected /\ back'["io"] = "callback",
         t = "processing" => /\ connected => step = "idle"
                             /\ at[t] = "exit" => step = "exit"
                             /\ step = "exit" => m_needExit
                             /\ at[t] = "idle" => step \in {"idle", "exit"}
  PROVE  TeardownInv'
<1>. USE DEF TypeOK, TeardownInv, Threads, Goto, session, worker, Destroys
<1>1. OneDestroyer'
  BY DEF OneDestroyer
<1>2. Held'
  BY DEF Held
<1>3. InConnected'
  BY DEF InConnected
<1>4. DroppedByUser'
  BY DEF DroppedByUser
<1>. QED
  BY <1>1, <1>2, <1>3, <1>4

\* The last reference is let go.
LEMMA DestroyStep ==
  ASSUME TypeOK, TeardownInv, NEW t \in Threads, Destroy(t), life = "alive",
         ~connected', m_session' # "set",
         UNCHANGED <<back, worker>>,
         \/ dropped' = dropped /\ m_session' = m_session /\ t = "io" /\ connected
         \/ dropped' = t /\ m_session = "set" /\ ~connected,
         t \in {"io", "processing"} \/ at[t] # "exit",
         at["processing"] # "exit"
  PROVE  TeardownInv'
<1>. USE ThreadAssumption
     DEF TypeOK, TeardownInv, Threads, Goto, worker, Destroy, Destroys
<1>1. OneDestroyer'
  BY DEF OneDestroyer
<1>2. Held'
  BY DEF Held, OneDestroyer
<1>3. InConnected'
  BY DEF InConnected
<1>4. DroppedByUser'
  BY DEF DroppedByUser, InConnected
<1>. QED
  BY <1>1, <1>2, <1>3, <1>4

LEMMA SendingStep ==
  ASSUME TypeOK, TeardownInv, NEW t \in Threads, Sending(t) \/ UserSends(t) \/ Close(t)
  PROVE  TeardownInv'
<1>. USE DEF TypeOK
<1>1. CASE UserSends(t)
  BY <1>1, WalkStep DEF UserSends, Steps, Destroys, session, worker, TeardownInv, InConnected
<1>2. CASE Close(t)
  BY <1>2, WalkStep DEF Close, Steps, Destroys, session, worker, TeardownInv, InConnected
<1>3. CASE UseSession(t)
  <2>1. CASE Breaks
    BY <2>1, BreaksStep
  <2>2. CASE Goto(t, IF life = "alive" THEN "lock" ELSE back[t])
             /\ UNCHANGED <<back, session, worker>>
    BY <1>3, <2>2, WalkStep
    DEF UseSession, Steps, Destroys, TeardownInv, InConnected
  <2>. QED
    BY <1>3, <2>1, <2>2 DEF UseSession
<1>4. CASE LockSendSync(t)
  BY <1>4, WalkStep
  DEF LockSendSync, Steps, Destroys, session, worker, TeardownInv, InConnected
<1>5. CASE WriteFrame(t)
  BY <1>5, WalkStep
  DEF WriteFrame, Steps, Destroys, session, worker, TeardownInv, InConnected
<1>6. CASE SendsOnGone(t)
  BY <1>6, BreaksStep DEF SendsOnGone
<1>. QED
  BY <1>1, <1>2, <1>3, <1>4, <1>5, <1>6 DEF Sending

LEMMA DroppingStep ==
  ASSUME TypeOK, TeardownInv, NEW t \in Threads, Dropping(t)
  PROVE  TeardownInv'
<1>1. CASE ResetSession(t)
  <2>1. /\ at[t] = "reset" /\ m_session = "set" /\ life = "alive"
        /\ at["processing"] # "exit"
    BY <1>1 DEF ResetSession, TeardownInv, Held
  <2>2. /\ m_session' \in {"dead", "null"} /\ dropped' = t
        /\ UNCHANGED <<back, connected, worker>>
    BY <1>1 DEF ResetSession
  <2>3. CASE connected
    <3>1. Goto(t, After(t)) /\ life' = life
      BY <1>1, <2>3 DEF ResetSession
    <3>2. After(t) \in {"idle", "callback", "stop"} /\ (t = "io" => After(t) = "callback")
      BY <2>3, AfterType DEF After
    <3>. USE <2>1, <2>2, <2>3, <3>1, <3>2, ThreadAssumption
         DEF TypeOK, TeardownInv, Threads, Goto, worker, Destroys
    <3>3. t # "processing"
      BY DEF InConnected
    <3>4. OneDestroyer'
      BY DEF OneDestroyer
    <3>5. Held'
      BY <3>3 DEF Held
    <3>6. InConnected'
      BY <3>3 DEF InConnected
    <3>7. DroppedByUser'
      BY <3>3 DEF DroppedByUser, InConnected
    <3>. QED
      BY <3>4, <3>5, <3>6, <3>7
  <2>4. CASE ~connected
    <3>1. Destroy(t)
      BY <1>1, <2>4 DEF ResetSession
    <3>2. ~connected' /\ m_session' # "set"
      BY <2>2, <2>4
    <3>. QED
      BY <2>1, <2>2, <2>4, <3>1, <3>2, DestroyStep
  <2>. QED
    BY <2>3, <2>4
<1>2. CASE NothingToReset(t)
  <2>1. at[t] = "reset" /\ Goto(t, After(t)) /\ UNCHANGED <<back, session, worker>>
    BY <1>2 DEF NothingToReset
  <2>2. After(t) \in Steps \ {"destroy", "join"}
    BY AfterType DEF Steps
  <2>3. t = "io" => After(t) = IF connected THEN "callback" ELSE "idle"
    BY DEF After
  <2>4. t = "processing" => ~connected /\ After(t) = "callback"
    BY <2>1 DEF TeardownInv, InConnected, After
  <2>. QED
    BY <2>1, <2>2, <2>3, <2>4, WalkStep DEF Destroys
<1>3. CASE ResetsDead(t)
  BY <1>3, BreaksStep DEF ResetsDead
<1>4. CASE DestroyGate(t)
  <2>. USE <1>4 DEF DestroyGate, TypeOK, TeardownInv, Threads, Goto, Destroys
  <2>1. OneDestroyer'
    BY DEF OneDestroyer
  <2>2. Held'
    BY DEF Held, OneDestroyer
  <2>3. InConnected'
    BY DEF InConnected, OneDestroyer, Held
  <2>4. DroppedByUser'
    BY DEF DroppedByUser, OneDestroyer
  <2>. QED
    BY <2>1, <2>2, <2>3, <2>4
<1>5. CASE Join(t)
  <2>1. /\ at[t] = "join" /\ at["processing"] = "exit" /\ t # "processing"
        /\ life = "joining" /\ ~connected
        /\ life' = "gone" /\ Goto(t, After(t))
        /\ UNCHANGED <<back, connected, m_session, dropped, worker>>
    BY <1>5 DEF Join, TeardownInv, OneDestroyer, Held
  <2>2. After(t) \in {"idle", "callback", "stop"} /\ (t = "io" => After(t) = "idle")
    BY <2>1, AfterType DEF After
  <2>. USE <2>1, <2>2 DEF TypeOK, TeardownInv, Threads, Goto, worker, Destroys
  <2>3. OneDestroyer'
    BY DEF OneDestroyer
  <2>4. Held'
    BY DEF Held
  <2>5. InConnected'
    BY DEF InConnected
  <2>6. DroppedByUser'
    BY DEF DroppedByUser
  <2>. QED
    BY <2>3, <2>4, <2>5, <2>6
<1>. QED
  BY <1>1, <1>2, <1>3, <1>4, <1>5 DEF Dropping

LEMMA IoThreadStep ==
  ASSUME TypeOK, TeardownInv, IoThread
  PROVE  TeardownInv'
<1>. USE DEF Threads
<1>1. CASE HandlerWrite
  <2>1. CASE Breaks
    BY <2>1, BreaksStep
  <2>2. CASE ~Breaks
    <3>1. /\ at["io"] = "idle"
          /\ UNCHANGED <<back, session, worker>>
          /\ \E step \in {"reset", "idle"} : Goto("io", step)
      BY <1>1, <2>2 DEF HandlerWrite
    <3>2. PICK step \in {"reset", "idle"} : Goto("io", step)
      BY <3>1
    <3>3. ~connected
      BY <3>1 DEF TeardownInv, InConnected
    <3>. QED
      BY <3>1, <3>2, <3>3, WalkStep DEF Steps, Destroys
  <2>. QED
    BY <2>1, <2>2
<1>2. CASE HandlerReadError
  <2>1. CASE Breaks
    BY <2>1, BreaksStep
  <2>2. CASE ~Breaks
    <3>1. /\ at["io"] = "idle"
          /\ UNCHANGED <<back, session, worker>>
          /\ Goto("io", IF life = "alive" THEN "reset" ELSE "idle")
      BY <1>2, <2>2 DEF HandlerReadError
    <3>3. ~connected
      BY <3>1 DEF TeardownInv, InConnected
    <3>. QED
      BY <3>1, <3>3, WalkStep DEF Steps, Destroys
  <2>. QED
    BY <2>1, <2>2
<1>3. CASE HandlerRead
  <2>1. CASE Breaks
    BY <2>1, BreaksStep
  <2>2. CASE process' = "terminated" /\ UNCHANGED <<calls, session, worker>>
    BY <2>2, StillStep DEF Still, calls, session, worker
  <2>3. CASE life = "alive" /\ queued' = queued + 1 /\ UNCHANGED <<calls, session, m_needExit>>
    <3>1. at["io"] = "idle" /\ ~connected
      BY <1>3 DEF HandlerRead, TeardownInv, InConnected
    <3>. USE <2>3, <3>1 DEF TypeOK, TeardownInv, calls, session, Destroys
    <3>2. OneDestroyer' /\ Held' /\ InConnected'
      BY DEF OneDestroyer, Held, InConnected
    <3>3. DroppedByUser'
      BY DEF DroppedByUser
    <3>. QED
      BY <3>2, <3>3
  <2>. QED
    BY <1>3, <2>1, <2>2, <2>3 DEF HandlerRead
<1>4. CASE ConnectedReturns
  <2>1. /\ at["io"] = "callback" /\ connected /\ life = "alive" /\ ~connected'
        /\ at["processing"] = "idle"
        /\ UNCHANGED <<back, m_session, dropped, worker>>
    BY <1>4 DEF ConnectedReturns, TeardownInv, Held, InConnected
  <2>2. CASE m_session = "set"
    <3>1. Goto("io", "idle") /\ life' = life
      BY <1>4, <2>2 DEF ConnectedReturns
    <3>. USE <2>1, <2>2, <3>1 DEF TypeOK, TeardownInv, worker, Destroys, Goto
    <3>2. OneDestroyer'
      BY DEF OneDestroyer
    <3>3. Held'
      BY DEF Held
    <3>4. InConnected'
      BY DEF InConnected
    <3>5. DroppedByUser'
      BY ThreadAssumption DEF DroppedByUser
    <3>. QED
      BY <3>2, <3>3, <3>4, <3>5
  <2>3. CASE m_session # "set"
    <3>1. Destroy("io") /\ m_session' # "set"
      BY <1>4, <2>1, <2>3 DEF ConnectedReturns
    <3>. QED
      BY <2>1, <3>1, DestroyStep
  <2>. QED
    BY <2>2, <2>3
<1>. QED
  BY <1>1, <1>2, <1>3, <1>4 DEF IoThread

LEMMA ProcessingStep ==
  ASSUME TypeOK, TeardownInv, ProcessingThread
  PROVE  TeardownInv'
<1>. USE DEF Threads
<1>1. CASE TakeRequest
  <2>1. /\ at["processing"] = "idle" /\ ~m_needExit /\ queued > 0 /\ ~connected
        /\ queued' = queued - 1 /\ Goto("processing", "callback")
        /\ UNCHANGED <<back, session, m_needExit>>
    BY <1>1 DEF TakeRequest, TeardownInv, InConnected, TypeOK
  <2>. USE <2>1 DEF TypeOK, TeardownInv, session, Destroys, Goto
  <2>2. OneDestroyer'
    BY DEF OneDestroyer
  <2>3. Held'
    BY DEF Held
  <2>4. InConnected'
    BY DEF InConnected
  <2>5. DroppedByUser'
    BY DEF DroppedByUser
  <2>. QED
    BY <2>2, <2>3, <2>4, <2>5
<1>2. CASE CallbackReturns
  BY <1>2, WalkStep
  DEF CallbackReturns, Steps, Destroys, session, worker, TeardownInv, InConnected
<1>3. CASE SendMethodCallResult
  <2>1. PICK step \in {"idle", "use"} : Goto("processing", step)
    BY <1>3 DEF SendMethodCallResult
  <2>2. at["processing"] = "result" /\ ~connected /\ UNCHANGED <<session, worker>>
        /\ back' = [back EXCEPT !["processing"] = "idle"]
    BY <1>3 DEF SendMethodCallResult, TeardownInv, InConnected
  <2>. USE <2>1, <2>2 DEF TypeOK, TeardownInv, session, worker, Destroys, Goto
  <2>3. OneDestroyer'
    BY DEF OneDestroyer
  <2>4. Held'
    BY DEF Held
  <2>5. InConnected'
    BY DEF InConnected
  <2>6. DroppedByUser'
    BY DEF DroppedByUser
  <2>. QED
    BY <2>3, <2>4, <2>5, <2>6
<1>4. CASE Exit
  <2>1. ~connected
    BY <1>4 DEF Exit, TeardownInv, Held
  <2>. QED
    BY <1>4, <2>1, WalkStep DEF Exit, Steps, Destroys, session, worker
<1>. QED
  BY <1>1, <1>2, <1>3, <1>4 DEF ProcessingThread

LEMMA TeardownStep == TypeOK /\ TeardownInv /\ [Next]_vars => TeardownInv'
<1>. SUFFICES ASSUME TypeOK, TeardownInv, [Next]_vars PROVE TeardownInv'
  OBVIOUS
<1>1. ASSUME NEW t \in Threads, UserSends(t) \/ Sending(t) \/ Close(t) PROVE TeardownInv'
  BY <1>1, SendingStep
<1>2. ASSUME NEW t \in Threads, Dropping(t) PROVE TeardownInv'
  BY <1>2, DroppingStep
<1>3. CASE Release \/ JoinIoThread
  BY <1>3, WalkStep
  DEF Release, JoinIoThread, Steps, Destroys, session, worker, Threads
<1>4. CASE IoThread \/ ProcessingThread
  BY <1>4, IoThreadStep, ProcessingStep
<1>5. CASE Network \/ LinkBreaks \/ RequestArrives
  BY <1>5, StillStep
  DEF Network, WriteCompletes, ReadFails, LinkBreaks, RequestArrives, Still,
      calls, session, worker
<1>6. CASE Undefined
  BY <1>6, BreaksStep DEF Undefined, HandlerWriteOnJoining, SendsOnJoining, ResetsAtOnce
<1>7. CASE UNCHANGED vars
  BY <1>7, StillStep DEF vars, Still
<1>. QED
  BY <1>1, <1>2, <1>3, <1>4, <1>5, <1>6, <1>7 DEF Next

LEMMA TeardownInitially == Init => TeardownInv
BY ThreadAssumption
DEF Init, TeardownInv, OneDestroyer, Held, InConnected, DroppedByUser, Destroys, Threads

-----------------------------------------------------------------------------
(* The theorems.                                                               *)

\* The type invariant of the teardown.
THEOREM TypeCorrect == Spec => []TypeOK
<1>1. Init => TypeOK
  <2>. SUFFICES ASSUME Init PROVE TypeOK
    OBVIOUS
  <2>1. /\ at \in [Threads -> {"idle", "callback"}]
        /\ back \in [Threads -> {"idle"}]
    BY DEF Init
  <2>2. sends \in 0 .. MaxSends /\ requests \in 0 .. MaxRequests /\ queued \in Nat
    BY BoundAssumption DEF Init
  <2>. QED
    BY <2>1, <2>2 DEF Init, TypeOK
<1>. QED
  BY <1>1, TypeStep, PTL DEF Spec

\* In a process that lives, the session is destroyed by one thread, once, not under the
\* connected handler, and its processing thread ends with it: transport.cpp, the handler's
\* references; tcpsession.cpp and commonprocessor.cpp, the destructors.
THEOREM SessionDestroyedOnce == Spec => []DestroyedOnce
<1>1. TypeOK /\ TeardownInv => DestroyedOnce
  BY DEF TypeOK, TeardownInv, OneDestroyer, Held, DestroyedOnce, Destroys, Threads
<1>. QED
  BY <1>1, TypeCorrect, TeardownInitially, TeardownStep, PTL DEF Spec

\* After server_close of a thread of the user's own, no callback of that client: cserver.cpp,
\* close; commonprocessor.cpp, the destructor.
THEOREM ClosedIsQuiet == Spec => []QuietAfterClose
<1>1. TypeOK /\ TeardownInv => QuietAfterClose
  BY DEF TeardownInv, DroppedByUser, QuietAfterClose, Destroys
<1>. QED
  BY <1>1, TypeCorrect, TeardownInitially, TeardownStep, PTL DEF Spec
=============================================================================
