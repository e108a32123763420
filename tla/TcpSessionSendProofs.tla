------------------------ MODULE TcpSessionSendProofs ------------------------
(***************************************************************************)
(* Proofs about TcpSessionSend for any set of callers, any frame size and  *)
(* any number of calls.                                                    *)
(***************************************************************************)
EXTENDS TcpSessionSend, TLAPS

\* A frame is a non-empty sequence of pieces.
LEMMA FrameIsSeq ==
  ASSUME NEW n \in Nat \ {0}
  PROVE  /\ Frame(n) \in Seq(Piece)
         /\ Len(Frame(n)) = FrameParts
         /\ \A k \in 1..FrameParts : Frame(n)[k] = [frame |-> n, part |-> k]
<1>1. FrameParts \in Nat \ {0}
  BY FramePartsAssumption
<1>2. \A k \in 1..FrameParts : [frame |-> n, part |-> k] \in Piece
  BY <1>1 DEF Piece
<1>3. Frame(n) \in [1..FrameParts -> Piece]
  BY <1>2 DEF Frame
<1>. QED
  BY <1>1, <1>3 DEF Frame

\* What consume leaves is a stream again; consuming it all leaves nothing.
LEMMA ConsumeIsSeq ==
  ASSUME NEW s \in Seq(Piece), NEW n \in Nat
  PROVE  /\ Consume(s, n) \in Seq(Piece)
         /\ n >= Len(s) => Consume(s, n) = <<>>
<1>1. Len(s) \in Nat
  OBVIOUS
<1>2. \A k \in n + 1 .. Len(s) : s[k] \in Piece
  BY <1>1
<1>. QED
  BY <1>1, <1>2 DEF Consume

LEMMA InitInvariant == Init => GateInvariant
<1>. SUFFICES ASSUME Init PROVE GateInvariant
  OBVIOUS
<1>. USE DEF Init
<1>1. TypeOK
  <2>1. /\ <<>> \in Seq(Piece)
        /\ <<>> \in Seq(Callers)
    OBVIOUS
  <2>2. /\ pc \in [Callers -> CallerStates]
        /\ writes \subseteq [data : Seq(Piece), done : Nat]
    BY DEF CallerStates
  <2>. QED
    BY <2>1, <2>2 DEF TypeOK
<1>2. GateOwned
  BY CallersAssumption DEF GateOwned, InGate
<1>3. FlagTracksWrite
  BY DEF FlagTracksWrite
<1>4. WireTracksWrite
  BY DEF WireTracksWrite, WireAt
<1>5. WireFramed
  BY DEF WireFramed
<1>6. LossTracked
  BY DEF LossTracked, WholeFrames
<1>. QED
  BY <1>1, <1>2, <1>3, <1>4, <1>5, <1>6 DEF GateInvariant

LEMMA TypeStep == TypeOK /\ [Next]_vars => TypeOK'
<1>. SUFFICES ASSUME TypeOK, [Next]_vars PROVE TypeOK'
  OBVIOUS
<1>. USE DEF TypeOK, CallerStates, Goto, gate, stream, io
<1>1. ASSUME NEW t \in Callers, SendData(t) PROVE TypeOK'
  BY <1>1 DEF SendData
<1>2. ASSUME NEW t \in Callers, LockSendSync(t) PROVE TypeOK'
  BY <1>2 DEF LockSendSync
<1>3. ASSUME NEW t \in Callers, TestSendMode(t) PROVE TypeOK'
  BY <1>3 DEF TestSendMode
<1>4. ASSUME NEW t \in Callers, EnterWait(t) PROVE TypeOK'
  BY <1>4 DEF EnterWait
<1>5. ASSUME NEW t \in Callers, WaitTimeout(t) PROVE TypeOK'
  BY <1>5 DEF WaitTimeout
<1>7. ASSUME NEW t \in Callers, LeaveWait(t) PROVE TypeOK'
  BY <1>7 DEF LeaveWait
<1>8. ASSUME NEW t \in Callers, WriteFrame(t) PROVE TypeOK'
  <2>1. Len(accepted) + 1 \in Nat \ {0}
    OBVIOUS
  <2>. DEFINE data == m_streamSend \o Frame(Len(accepted) + 1)
  <2>2. data \in Seq(Piece)
    BY <2>1, FrameIsSeq
  <2>3. m_streamSend' = data /\ writes' = writes \union {[data |-> data, done |-> 0]}
    BY <1>8 DEF WriteFrame
  <2>. HIDE DEF data
  <2>6. /\ m_streamSend' \in Seq(Piece)
        /\ writes' \subseteq [data : Seq(Piece), done : Nat]
    BY <2>2, <2>3
  <2>4. /\ accepted' \in Seq(Callers)
        /\ pc' \in [Callers -> CallerStates]
        /\ m_sendSyncMutex' \in Callers \union {NoCaller}
        /\ m_inSendMode' \in BOOLEAN
    BY <1>8 DEF WriteFrame
  <2>5. UNCHANGED <<io, wire, socket>>
    BY <1>8 DEF WriteFrame
  <2>. QED
    BY <2>4, <2>5, <2>6
<1>9. ASSUME NEW w \in writes, Transmit(w) PROVE TypeOK'
  <2>1. /\ w \in [data : Seq(Piece), done : Nat]
        /\ w.done + 1 \in 1..Len(w.data)
    BY <1>9 DEF Transmit
  <2>2. w.data[w.done + 1] \in Piece
    <3>1. w.data \in Seq(Piece)
      BY <2>1
    <3>. QED
      BY ONLY <2>1, <3>1
  <2>3. [w EXCEPT !.done = @ + 1] \in [data : Seq(Piece), done : Nat]
    <3>1. w.done \in Nat
      BY <2>1
    <3>2. w.done + 1 \in Nat
      BY ONLY <3>1
    <3>. QED
      BY ONLY <2>1, <3>2
  <2>4. writes' \subseteq [data : Seq(Piece), done : Nat]
    BY <1>9, <2>3 DEF Transmit
  <2>5. wire' \in Seq(Piece)
    BY <1>9, <2>2 DEF Transmit
  <2>6. UNCHANGED <<gate, m_streamSend, accepted, io, socket>>
    BY <1>9 DEF Transmit
  <2>. QED
    BY <2>4, <2>5, <2>6
<1>10. CASE ConnectionLost
  BY <1>10 DEF ConnectionLost
<1>11. ASSUME NEW w \in writes, HandlerWrite(w) PROVE TypeOK'
  <2>1. 2 * w.done \in Nat
    OBVIOUS
  <2>2. Consume(m_streamSend, 2 * w.done) \in Seq(Piece)
    BY <2>1, ConsumeIsSeq
  <2>3. handlerCode' \in BOOLEAN
    BY <1>11 DEF HandlerWrite
  <2>4. writes' \subseteq [data : Seq(Piece), done : Nat]
    BY <1>11 DEF HandlerWrite
  <2>5. /\ UNCHANGED <<pc, m_sendSyncMutex, m_inSendMode, accepted, wire, socket,
                       sessionErrors>>
        /\ handler' = "clear"
        /\ m_streamSend' \in Seq(Piece)
    BY <1>11, <2>2 DEF HandlerWrite
  <2>. QED
    BY <2>3, <2>4, <2>5
<1>12. CASE HandlerClearsFlag
  BY <1>12 DEF HandlerClearsFlag
<1>13. CASE HandlerNotifies
  BY <1>13 DEF HandlerNotifies, Waiting
<1>14. CASE HandlerReports
  BY <1>14 DEF HandlerReports
<1>15. CASE Quiescent
  BY <1>15 DEF Quiescent, vars
<1>16. CASE UNCHANGED vars
  BY <1>16 DEF vars
<1>. QED
  BY <1>1, <1>2, <1>3, <1>4, <1>5, <1>7, <1>8, <1>9, <1>10, <1>11,
     <1>12, <1>13, <1>14, <1>15, <1>16
  DEF Next, CallerStep, Network, IoStep

\* Whatever holds of the mutex and of the callers' places is disturbed by the
\* callers' own steps and by the notification only.
LEMMA OwnerStep == TypeOK /\ GateOwned /\ [Next]_vars => GateOwned'
<1>. SUFFICES ASSUME TypeOK, GateOwned, [Next]_vars PROVE GateOwned'
  OBVIOUS
<1>. USE CallersAssumption
     DEF TypeOK, CallerStates, GateOwned, InGate, Goto, gate, stream, io
<1>1. ASSUME NEW t \in Callers, SendData(t) PROVE GateOwned'
  BY <1>1 DEF SendData
<1>2. ASSUME NEW t \in Callers, LockSendSync(t) PROVE GateOwned'
  BY <1>2 DEF LockSendSync
<1>3. ASSUME NEW t \in Callers, TestSendMode(t) PROVE GateOwned'
  BY <1>3 DEF TestSendMode
<1>4. ASSUME NEW t \in Callers, EnterWait(t) PROVE GateOwned'
  BY <1>4 DEF EnterWait
<1>5. ASSUME NEW t \in Callers, WaitTimeout(t) PROVE GateOwned'
  BY <1>5 DEF WaitTimeout
<1>7. ASSUME NEW t \in Callers, LeaveWait(t) PROVE GateOwned'
  BY <1>7 DEF LeaveWait
<1>8. ASSUME NEW t \in Callers, WriteFrame(t) PROVE GateOwned'
  BY <1>8 DEF WriteFrame
<1>9. CASE HandlerNotifies
  BY <1>9 DEF HandlerNotifies, Waiting
<1>10. CASE UNCHANGED gate
  BY <1>10
<1>. QED
  BY <1>1, <1>2, <1>3, <1>4, <1>5, <1>7, <1>8, <1>9, <1>10
  DEF Next, CallerStep, Network, IoStep, Transmit, ConnectionLost, HandlerWrite,
      HandlerClearsFlag, HandlerReports, Quiescent, vars

\* The flag and the writes: only WriteFrame raises, only handlerWrite lowers, and
\* the notification meets a caller that already sees the flag down.
LEMMA FlagStep ==
  TypeOK /\ GateOwned /\ FlagTracksWrite /\ [Next]_vars => FlagTracksWrite'
<1>. SUFFICES ASSUME TypeOK, GateOwned, FlagTracksWrite, [Next]_vars
              PROVE  FlagTracksWrite'
  OBVIOUS
<1>. USE CallersAssumption
     DEF TypeOK, CallerStates, GateOwned, FlagTracksWrite, InGate, Goto, gate, stream, io
<1>1. ASSUME NEW t \in Callers, SendData(t) PROVE FlagTracksWrite'
  BY <1>1 DEF SendData
<1>2. ASSUME NEW t \in Callers, LockSendSync(t) PROVE FlagTracksWrite'
  BY <1>2 DEF LockSendSync
<1>3. ASSUME NEW t \in Callers, TestSendMode(t) PROVE FlagTracksWrite'
  BY <1>3 DEF TestSendMode
<1>4. ASSUME NEW t \in Callers, EnterWait(t) PROVE FlagTracksWrite'
  BY <1>4 DEF EnterWait, SendAvaliableMutexFree
<1>5. ASSUME NEW t \in Callers, WaitTimeout(t) PROVE FlagTracksWrite'
  BY <1>5 DEF WaitTimeout
<1>6. ASSUME NEW t \in Callers, LeaveWait(t) PROVE FlagTracksWrite'
  BY <1>6 DEF LeaveWait
<1>7. ASSUME NEW t \in Callers, WriteFrame(t) PROVE FlagTracksWrite'
  <2>1. m_sendSyncMutex = t /\ ~m_inSendMode /\ writes = {} /\ handler # "clear"
    BY <1>7 DEF WriteFrame
  <2>2. \A u \in Callers : pc'[u] \in InGate => FALSE
    BY <1>7, <2>1 DEF WriteFrame
  <2>3. \A v, w \in writes' : v = w
    BY <1>7, <2>1 DEF WriteFrame
  <2>4. /\ handler' = "clear" => writes' = {}
        /\ m_inSendMode' <=> (writes' # {} \/ handler' = "clear")
    BY <1>7, <2>1 DEF WriteFrame
  <2>. QED
    BY <2>2, <2>3, <2>4
<1>8. ASSUME NEW w \in writes, Transmit(w) PROVE FlagTracksWrite'
  BY <1>8 DEF Transmit
<1>9. ASSUME NEW w \in writes, HandlerWrite(w) PROVE FlagTracksWrite'
  BY <1>9 DEF HandlerWrite
<1>10. CASE HandlerClearsFlag
  BY <1>10 DEF HandlerClearsFlag
<1>11. CASE HandlerNotifies
  BY <1>11 DEF HandlerNotifies, Waiting
<1>12. CASE HandlerReports
  BY <1>12 DEF HandlerReports
<1>13. CASE UNCHANGED <<gate, stream, io>>
  BY <1>13
<1>. QED
  BY <1>1, <1>2, <1>3, <1>4, <1>5, <1>6, <1>7, <1>8, <1>9, <1>10, <1>11, <1>12, <1>13
  DEF Next, CallerStep, Network, IoStep, ConnectionLost, Quiescent, vars

\* How many whole frames a wire holds that ends d pieces into frame n.
LEMMA WholeFramesAt ==
  ASSUME NEW n \in Nat \ {0}, NEW d \in 0..FrameParts, WireAt(n, d)
  PROVE  WholeFrames = IF d = FrameParts THEN n ELSE n - 1
BY FramePartsAssumption DEF WholeFrames, WireAt

\* Transmitting the next piece of the frame the wire is in keeps it framed.
LEMMA WireGrows ==
  ASSUME wire \in Seq(Piece), WireFramed,
         NEW n \in Nat \ {0}, NEW d \in 0..FrameParts - 1, WireAt(n, d),
         wire' = Append(wire, [frame |-> n, part |-> d + 1])
  PROVE  WireFramed' /\ WireAt(n, d + 1)'
<1>. DEFINE p == [frame |-> n, part |-> d + 1]
<1>1. /\ FrameParts \in Nat \ {0}
      /\ Len(wire) \in Nat
      /\ Len(wire') = Len(wire) + 1
      /\ wire'[Len(wire) + 1] = p
      /\ \A k \in 1..Len(wire) : wire'[k] = wire[k]
  BY FramePartsAssumption
<1>2. WireAt(n, d + 1)'
  BY <1>1 DEF WireAt
<1>3. CASE wire = <<>>
  <2>1. n = 1 /\ d = 0 /\ Len(wire) = 0
    BY <1>3 DEF WireAt
  <2>. QED
    BY <1>1, <1>2, <2>1 DEF WireFramed
<1>4. CASE wire # <<>>
  <2>1. Len(wire) >= 1 /\ ~(n = 1 /\ d = 0)
    BY <1>1, <1>4 DEF WireAt
  <2>2. Succ(wire[Len(wire)]) = p
    <3>1. CASE d = 0
      <4>1. wire[Len(wire)] = [frame |-> n - 1, part |-> FrameParts]
        BY <1>4, <2>1, <3>1 DEF WireAt
      <4>. QED
        BY <3>1, <4>1 DEF Succ
    <3>2. CASE d # 0
      <4>1. wire[Len(wire)] = [frame |-> n, part |-> d]
        BY <1>4, <2>1, <3>2 DEF WireAt
      <4>2. d # FrameParts
        BY <1>1
      <4>. QED
        BY <4>1, <4>2 DEF Succ
    <3>. QED
      BY <3>1, <3>2
  <2>3. wire'[1] = [frame |-> 1, part |-> 1]
    BY <1>1, <1>4, <2>1 DEF WireFramed
  <2>4. ASSUME NEW k \in 1..Len(wire') - 1 PROVE wire'[k + 1] = Succ(wire'[k])
    <3>1. CASE k = Len(wire)
      BY <1>1, <2>1, <2>2, <3>1
    <3>2. CASE k \in 1..Len(wire) - 1
      BY <1>1, <2>1, <3>2 DEF WireFramed
    <3>. QED
      BY <1>1, <3>1, <3>2
  <2>. QED
    BY <1>2, <2>3, <2>4 DEF WireFramed
<1>. QED
  BY <1>3, <1>4

\* The wire: only Transmit on a live connection writes to it, the next piece of
\* the one frame that is in flight.
LEMMA WireStep ==
  /\ TypeOK /\ GateOwned /\ FlagTracksWrite /\ WireTracksWrite /\ WireFramed
  /\ [Next]_vars
  => WireTracksWrite' /\ WireFramed'
<1>. SUFFICES ASSUME TypeOK, GateOwned, FlagTracksWrite, WireTracksWrite, WireFramed,
                     [Next]_vars
              PROVE  WireTracksWrite' /\ WireFramed'
  OBVIOUS
<1>0. /\ FrameParts \in Nat \ {0}
      /\ m_streamSend \in Seq(Piece) /\ Len(m_streamSend) \in Nat
      /\ accepted \in Seq(Callers) /\ Len(accepted) \in Nat
      /\ \A w \in writes : w \in [data : Seq(Piece), done : Nat]
      /\ wire \in Seq(Piece)
  BY FramePartsAssumption DEF TypeOK
<1>1. ASSUME NEW t \in Callers, WriteFrame(t) PROVE WireTracksWrite' /\ WireFramed'
  <2>0. PICK n \in Nat \ {0} : n = Len(accepted) + 1
    BY <1>0
  <2>. DEFINE data == m_streamSend \o Frame(n)
  <2>1. /\ writes = {}
        /\ wire' = wire /\ socket' = socket
        /\ accepted' = Append(accepted, t)
        /\ m_streamSend' = data
        /\ writes' = {[data |-> data, done |-> 0]}
    BY <1>1, <2>0 DEF WriteFrame, FlagTracksWrite
  <2>2. accepted' # <<>> /\ Len(accepted') = n
    <3>1. Len(Append(accepted, t)) = Len(accepted) + 1
      BY <1>0
    <3>. QED
      BY <1>0, <2>0, <2>1, <3>1
  <2>3. Frame(n) \in Seq(Piece) /\ Len(Frame(n)) = FrameParts
    BY <2>2, FrameIsSeq
  <2>4. Len(data) \in Nat \ {0}
    BY <1>0, <2>3
  <2>5. socket = "connected" => data = Frame(n) /\ WireAt(n, 0)
    BY <1>0, <2>0, <2>1, <2>3 DEF WireTracksWrite
  <2>6. WireAt(n, 0)' <=> WireAt(n, 0)
    BY <2>1 DEF WireAt
  <2>. HIDE DEF data
  <2>7. \A w \in writes' :
          /\ w.data = m_streamSend'
          /\ w.done = 0
          /\ w.done \in 0..Len(w.data)
          /\ w.done # Len(w.data)
    BY <2>1, <2>4
  <2>. QED
    BY <2>1, <2>2, <2>5, <2>6, <2>7 DEF WireTracksWrite, WireFramed, WireAt
<1>2. ASSUME NEW w \in writes, Transmit(w) PROVE WireTracksWrite' /\ WireFramed'
  <2>0. PICK n \in Nat : n = Len(accepted)
    BY <1>0
  <2>. DEFINE d == w.done
  <2>9. socket = "connected" /\ UNCHANGED <<m_streamSend, accepted, socket>>
    BY <1>2 DEF Transmit
  <2>1. /\ w.data = Frame(n) /\ w.data = m_streamSend
        /\ WireAt(n, d)
        /\ accepted # <<>>
    <3>1. w.data = Frame(Len(accepted))
      BY <2>9 DEF WireTracksWrite
    <3>3. w.data = m_streamSend
      BY DEF WireTracksWrite
    <3>4. accepted # <<>>
      BY <2>9 DEF WireTracksWrite
    <3>2. WireAt(Len(accepted), w.done)
      BY <2>9, Zenon DEF WireTracksWrite
    <3>. QED
      BY <2>0, <3>1, <3>2, <3>3, <3>4, Zenon
  <2>8. n \in Nat \ {0}
    BY <1>0, <2>0, <2>1
  <2>2. /\ Len(Frame(n)) = FrameParts
        /\ \A k \in 1..FrameParts : Frame(n)[k] = [frame |-> n, part |-> k]
    BY <2>8, FrameIsSeq
  <2>3. /\ d \in 0..FrameParts - 1
        /\ wire' = Append(wire, [frame |-> n, part |-> d + 1])
    BY <1>0, <1>2, <2>1, <2>2 DEF Transmit
  <2>4. WireFramed' /\ WireAt(n, d + 1)'
    BY <1>0, <2>1, <2>3, <2>8, WireGrows
  <2>5. writes' = {[w EXCEPT !.done = d + 1]}
    BY <1>2 DEF Transmit, FlagTracksWrite
  <2>6. \A v \in writes' : v.data = Frame(n) /\ v.done = d + 1
    BY <1>0, <2>1, <2>5
  <2>7. d + 1 = FrameParts => WholeFrames' = n
    <3>. SUFFICES ASSUME d + 1 = FrameParts PROVE WholeFrames' = n
      OBVIOUS
    <3>1. wire' # <<>> /\ wire'[Len(wire')] = [frame |-> n, part |-> FrameParts]
      BY <1>0, <2>1, <2>3, <2>4 DEF WireAt
    <3>. QED
      BY <3>1 DEF WholeFrames
  <2>10. ASSUME NEW v \in writes'
         PROVE  /\ v.data = m_streamSend'
                /\ v.done \in 0..Len(v.data)
                /\ v.done = Len(v.data) => WholeFrames' = Len(accepted')
    BY <2>0, <2>1, <2>2, <2>3, <2>6, <2>7, <2>9
  <2>11. ASSUME NEW v \in writes'
         PROVE  /\ accepted' # <<>>
                /\ v.data = Frame(Len(accepted'))
    BY <2>0, <2>1, <2>6, <2>9
  <2>12. ASSUME NEW v \in writes'
         PROVE  WireAt(Len(accepted), v.done)'
    BY <2>0, <2>4, <2>6, <2>9 DEF WireAt
  <2>13. writes' # {}
    BY <2>5
  <2>. QED
    BY <2>4, <2>10, <2>11, <2>12, <2>13 DEF WireTracksWrite
<1>3. ASSUME NEW w \in writes, HandlerWrite(w) PROVE WireTracksWrite' /\ WireFramed'
  <2>1. /\ UNCHANGED <<accepted, wire, socket>>
        /\ writes' = {}
        /\ m_streamSend' = Consume(m_streamSend, 2 * w.done)
    BY <1>3 DEF HandlerWrite, FlagTracksWrite
  <2>2. WireFramed' /\ (\A n, d : WireAt(n, d)' <=> WireAt(n, d))
    BY <2>1 DEF WireFramed, WireAt
  <2>3. ASSUME socket = "connected" PROVE m_streamSend' = <<>> /\ WireAt(Len(accepted) + 1, 0)
    <3>5. w.done = Len(w.data)
      BY <1>3, <2>3 DEF HandlerWrite
    <3>7. w.data = m_streamSend
      BY DEF WireTracksWrite
    <3>8. w.data = Frame(Len(accepted))
      BY <2>3 DEF WireTracksWrite
    <3>9. accepted # <<>>
      BY <2>3 DEF WireTracksWrite
    <3>1. w.data = m_streamSend /\ w.data = Frame(Len(accepted)) /\ accepted # <<>>
      BY <3>7, <3>8, <3>9
    <3>6. WireAt(Len(accepted), w.done)
      BY <2>3, Zenon DEF WireTracksWrite
    <3>4. Len(accepted) \in Nat \ {0}
      BY <1>0, <3>1
    <3>2. w.done = FrameParts
      BY <3>1, <3>4, <3>5, FrameIsSeq
    <3>3. m_streamSend' = <<>>
      BY <1>0, <2>1, <3>1, <3>5, ConsumeIsSeq
    <3>. QED
      BY <1>0, <3>1, <3>2, <3>3, <3>4, <3>6 DEF WireAt
  <2>. QED
    BY <2>1, <2>2, <2>3 DEF WireTracksWrite
<1>4. CASE ConnectionLost
  BY <1>4 DEF ConnectionLost, stream, WireTracksWrite, WireFramed, WholeFrames
<1>5. CASE UNCHANGED <<stream, wire, socket>>
  BY <1>5 DEF stream, WireTracksWrite, WireFramed, WholeFrames, WireAt
<1>. QED
  BY <1>1, <1>2, <1>3, <1>4, <1>5
  DEF Next, CallerStep, Network, IoStep, SendData, LockSendSync, TestSendMode, EnterWait,
      WaitTimeout, LeaveWait, HandlerClearsFlag, HandlerNotifies,
      HandlerReports, Quiescent, vars, stream

\* A frame that the wire lacks stays accounted for: its write is in flight, its
\* handler runs with an error code, or the error has been reported.
LEMMA LossStep ==
  /\ TypeOK /\ GateOwned /\ FlagTracksWrite /\ WireTracksWrite /\ LossTracked
  /\ [Next]_vars
  => LossTracked'
<1>. SUFFICES ASSUME TypeOK, GateOwned, FlagTracksWrite, WireTracksWrite, LossTracked,
                     [Next]_vars
              PROVE  LossTracked'
  OBVIOUS
<1>1. ASSUME NEW t \in Callers, WriteFrame(t) PROVE LossTracked'
  <2>1. writes' # {} /\ UNCHANGED <<handler, handlerCode>>
    BY <1>1 DEF WriteFrame, io
  <2>. QED
    BY <2>1 DEF LossTracked
<1>2. ASSUME NEW w \in writes, Transmit(w) PROVE LossTracked'
  <2>1. writes' # {} /\ UNCHANGED <<handler, handlerCode>>
    BY <1>2 DEF Transmit, io
  <2>. QED
    BY <2>1 DEF LossTracked
<1>3. ASSUME NEW w \in writes, HandlerWrite(w) PROVE LossTracked'
  <2>1. /\ handler' = "clear"
        /\ handlerCode' = (w.done < Len(w.data))
        /\ UNCHANGED <<accepted, wire>>
    BY <1>3 DEF HandlerWrite
  <2>2. WholeFrames' = WholeFrames
    BY <2>1 DEF WholeFrames
  <2>3. /\ w.done \in 0..Len(w.data) /\ Len(w.data) \in Nat
        /\ w.done = Len(w.data) => WholeFrames = Len(accepted)
    BY DEF WireTracksWrite, TypeOK
  <2>4. CASE w.done < Len(w.data)
    BY <2>1, <2>4 DEF LossTracked
  <2>5. CASE w.done = Len(w.data)
    <3>1. WholeFrames' = Len(accepted')
      BY <2>1, <2>2, <2>3, <2>5
    <3>2. ~(WholeFrames' < Len(accepted'))
      BY <2>1, <3>1 DEF TypeOK
    <3>. QED
      BY <2>1, <3>2 DEF LossTracked
  <2>. QED
    BY <2>3, <2>4, <2>5
<1>4. CASE HandlerClearsFlag
  BY <1>4 DEF HandlerClearsFlag, stream, LossTracked, WholeFrames
<1>5. CASE HandlerNotifies
  BY <1>5 DEF HandlerNotifies, stream, LossTracked, WholeFrames
<1>6. CASE HandlerReports
  <2>1. sessionErrors' > 0 /\ handler' = "idle"
    BY <1>6 DEF HandlerReports, TypeOK
  <2>. QED
    BY <2>1 DEF LossTracked
<1>7. CASE UNCHANGED <<stream, io, wire>>
  BY <1>7 DEF stream, io, LossTracked, WholeFrames
<1>. QED
  BY <1>1, <1>2, <1>3, <1>4, <1>5, <1>6, <1>7
  DEF Next, CallerStep, Network, IoStep, SendData, LockSendSync, TestSendMode, EnterWait,
      WaitTimeout, LeaveWait, ConnectionLost, Quiescent, vars, stream, io

LEMMA InvariantStep ==
  GateInvariant /\ [Next]_vars => GateInvariant'
BY TypeStep, OwnerStep, FlagStep, WireStep, LossStep DEF GateInvariant

-----------------------------------------------------------------------------
\* Every variable of the sending half keeps its type.
THEOREM TypeCorrect == Spec => []TypeOK
<1>1. Init => TypeOK
  BY InitInvariant DEF GateInvariant
<1>. QED
  BY <1>1, TypeStep, PTL DEF Spec

\* The inductive invariant of the gate: every step of the callers, the io thread and
\* the connection preserves it.
THEOREM GateInvariance == Spec => []GateInvariant
<1>1. GateInvariant /\ [Next]_vars => GateInvariant'
  BY InvariantStep
<1>. QED
  BY <1>1, InitInvariant, PTL DEF Spec

\* A session never has two writes in flight, and no caller appends to the stream
\* while one is.
THEOREM WritesExclude == Spec => []WriteExclusion
<1>1. GateInvariant => WriteExclusion
  BY DEF GateInvariant, FlagTracksWrite, WireTracksWrite, WriteExclusion
<1>. QED
  BY <1>1, GateInvariance, PTL

\* The peer reads whole frames, in the order the gate accepted them, each once.
THEOREM WireIsFramed == Spec => []WireFramed
<1>1. GateInvariant => WireFramed
  BY DEF GateInvariant
<1>. QED
  BY <1>1, GateInvariance, PTL

\* With the flag down and the connection up the peer has every accepted frame.
THEOREM NoFrameLost == Spec => []NothingLost
<1>1. ASSUME GateInvariant PROVE NothingLost
  <2>. SUFFICES ASSUME ~m_inSendMode, socket = "connected"
                PROVE  m_streamSend = <<>> /\ WholeFrames = Len(accepted)
    BY DEF NothingLost
  <2>1. /\ wire \in Seq(Piece)
        /\ Len(accepted) \in Nat
        /\ FrameParts \in Nat \ {0}
    BY <1>1, FramePartsAssumption DEF GateInvariant, TypeOK
  <2>2. writes = {}
    BY <1>1 DEF GateInvariant, FlagTracksWrite
  <2>3. m_streamSend = <<>> /\ WireAt(Len(accepted) + 1, 0)
    BY <1>1, <2>2 DEF GateInvariant, WireTracksWrite
  <2>4. WholeFrames = Len(accepted)
    BY <2>1, <2>3 DEF WireAt, WholeFrames
  <2>. QED
    BY <2>3, <2>4
<1>. QED
  BY <1>1, GateInvariance, PTL

\* No frame is lost without a call of onSessionError_.
THEOREM LossIsReported == Spec => []LossReported
<1>1. GateInvariant => LossReported
  BY DEF GateInvariant, LossTracked, LossReported
<1>. QED
  BY <1>1, GateInvariance, PTL

-----------------------------------------------------------------------------
\* The gate implements the channel of FrameChannel: WriteFrame is its Accept, the
\* transmission of a frame's last piece its Deliver, ConnectionLost its Fail, and
\* every other step leaves the channel alone.
THEOREM SessionImplementsChannel ==
  Spec => Channel!SafeSpec
<1>1. Init => Channel!ChannelInit
  BY DEF Init, Channel!ChannelInit, WholeFrames
<1>2. GateInvariant /\ [Next]_vars => [Channel!ChannelNext]_(Channel!cvars)
  <2>. SUFFICES ASSUME GateInvariant, [Next]_vars
                PROVE  Channel!ChannelNext \/ UNCHANGED Channel!cvars
    BY DEF Channel!cvars
  <2>0. /\ FrameParts \in Nat \ {0}
        /\ accepted \in Seq(Callers) /\ Len(accepted) \in Nat
        /\ \A w \in writes : w \in [data : Seq(Piece), done : Nat]
        /\ wire \in Seq(Piece)
    BY FramePartsAssumption DEF GateInvariant, TypeOK
  <2>1. ASSUME NEW t \in Callers, WriteFrame(t) PROVE Channel!Accept(t)
    <3>1. /\ accepted' = Append(accepted, t)
          /\ UNCHANGED <<wire, socket>>
          /\ pc[t] = "write"
      BY <2>1 DEF WriteFrame
    <3>2. writes = {}
      BY <3>1 DEF GateInvariant, FlagTracksWrite
    <3>3. socket = "connected" => WireAt(Len(accepted) + 1, 0)
      BY <3>2 DEF GateInvariant, WireTracksWrite
    <3>4. socket = "connected" => WholeFrames = Len(accepted)
      BY <2>0, <3>3 DEF WireAt, WholeFrames
    <3>5. WholeFrames' = WholeFrames
      BY <3>1 DEF WholeFrames
    <3>. QED
      BY <3>1, <3>4, <3>5 DEF Channel!Accept
  <2>2. ASSUME NEW w \in writes, Transmit(w)
        PROVE  Channel!Deliver \/ UNCHANGED Channel!cvars
    <3>0. PICK n \in Nat : n = Len(accepted)
      BY <2>0
    <3>1. /\ socket = "connected" /\ UNCHANGED <<accepted, socket>>
          /\ w.done < Len(w.data)
          /\ wire' = Append(wire, w.data[w.done + 1])
      BY <2>2 DEF Transmit
    <3>2. /\ w.data = Frame(n) /\ accepted # <<>> /\ w.done \in Nat
          /\ WireAt(n, w.done)
      BY <2>0, <3>0, <3>1 DEF GateInvariant, WireTracksWrite
    <3>3. n \in Nat \ {0}
      BY <2>0, <3>0, <3>2
    <3>4. /\ w.done \in 0..FrameParts - 1
          /\ wire' = Append(wire, [frame |-> n, part |-> w.done + 1])
      BY <2>0, <3>1, <3>2, <3>3, FrameIsSeq
    <3>5. WholeFrames = n - 1
      BY <2>0, <3>2, <3>3, <3>4, WholeFramesAt
    <3>6. WholeFrames' = IF w.done + 1 = FrameParts THEN n ELSE n - 1
      <4>1. wire' # <<>> /\ wire'[Len(wire')] = [frame |-> n, part |-> w.done + 1]
        BY <2>0, <3>4
      <4>. QED
        BY <2>0, <4>1 DEF WholeFrames
    <3>. QED
      BY <3>0, <3>1, <3>3, <3>5, <3>6 DEF Channel!Deliver, Channel!cvars
  <2>3. CASE ConnectionLost
    <3>1. UNCHANGED <<accepted, wire>> /\ socket = "connected" /\ socket' = "broken"
      BY <2>3 DEF ConnectionLost, stream
    <3>2. WholeFrames' = WholeFrames
      BY <3>1 DEF WholeFrames
    <3>. QED
      BY <3>1, <3>2 DEF Channel!Fail, Channel!ChannelNext
  <2>4. CASE UNCHANGED <<accepted, wire, socket>>
    BY <2>4 DEF Channel!cvars, WholeFrames
  <2>. QED
    BY <2>1, <2>2, <2>3, <2>4
    DEF Next, CallerStep, Network, IoStep, SendData, LockSendSync, TestSendMode, EnterWait,
        WaitTimeout, LeaveWait, HandlerWrite, HandlerClearsFlag,
        HandlerNotifies, HandlerReports, Quiescent, vars, stream, Channel!ChannelNext
<1>. QED
  BY <1>1, <1>2, GateInvariance, PTL DEF Spec, Channel!SafeSpec

=============================================================================
