--------------------------- MODULE TcpSessionSend ---------------------------
(***************************************************************************)
(* The sending half of TcpSession (common/src/tcpsession.cpp): any number  *)
(* of threads call sendData, one io thread runs the completion handler     *)
(* handlerWrite, and the operating system moves bytes to the peer between  *)
(* the two.  A frame handed to sendData is FrameParts pieces of data; a    *)
(* write may be transmitted piece by piece.                                *)
(*                                                                         *)
(* The gate is three members: m_sendSyncMutex (at most one caller in the   *)
(* gate), the plain bool m_inSendMode (a write is in flight), and the      *)
(* condition variable m_cv with m_sendAvaliableMutex, on which the caller  *)
(* in the gate waits with a 500 ms limit.                                  *)
(***************************************************************************)
EXTENDS Integers, Sequences

CONSTANTS Callers,          \* threads that call sendData on the session
          NoCaller,         \* m_sendSyncMutex is free
          FrameParts,       \* pieces of one protocol frame
          MaxSends          \* bound: calls that are let in

ASSUME CallersAssumption == NoCaller \notin Callers
ASSUME FramePartsAssumption == FrameParts \in Nat \ {0}
ASSUME MaxSendsAssumption == MaxSends \in Nat

VARIABLES pc,               \* where each caller stands in sendData
          m_sendSyncMutex,  \* the caller that owns it, or NoCaller
          m_inSendMode,
          m_streamSend,     \* the pieces the streambuf holds
          writes,           \* the async_write operations not yet completed
          handler,          \* where the io thread stands in handlerWrite
          handlerCode,      \* its argument: did the write fail?
          accepted,         \* history: the callers, in the order their frames entered the stream
          wire,             \* history: the pieces that reached the peer
          socket,           \* "closed" (not open), "connected" or "broken"
          sessionErrors     \* calls of onSessionError_ by handlerWrite

gate  == <<pc, m_sendSyncMutex, m_inSendMode>>
stream == <<m_streamSend, writes, accepted>>
io    == <<handler, handlerCode, sessionErrors>>
vars  == <<pc, m_sendSyncMutex, m_inSendMode, m_streamSend, writes, accepted,
           handler, handlerCode, sessionErrors, wire, socket>>

Piece == [frame : Nat \ {0}, part : 1..FrameParts]

\* Mutant of Frame: os.write goes on over the end of the chunk.
BeyondChunk(n) == [k \in 1..FrameParts + 1 |-> [frame |-> n, part |-> k]]

\* What os.write takes of the chunk that prepareData makes of the n-th accepted message.
Frame(n) == [k \in 1..FrameParts |-> [frame |-> n, part |-> k]]

\* streambuf::consume(n): at most what is there.
Consume(s, n) == SubSeq(s, n + 1, Len(s))

IsOpen == socket # "closed"

\* Mutant of SendAvaliableMutexFree: lg.unlock() before m_cv.notify_one().
UnlockBeforeNotify == handler # "clear"

\* handlerWrite holds m_sendAvaliableMutex from its first line to lg.unlock().
SendAvaliableMutexFree == handler \notin {"clear", "notify"}

Waiting == {t \in Callers : pc[t] = "wait"}

-----------------------------------------------------------------------------
Init ==
  /\ pc = [t \in Callers |-> "idle"]
  /\ m_sendSyncMutex = NoCaller
  /\ m_inSendMode = FALSE
  /\ m_streamSend = <<>>
  /\ writes = {}
  /\ handler = "idle"
  /\ handlerCode = FALSE
  /\ accepted = <<>>
  /\ wire = <<>>
  /\ socket \in {"closed", "connected"}
  /\ sessionErrors = 0

Goto(t, label) == pc' = [pc EXCEPT ![t] = label]

\* A thread calls sendData: a socket that is not open makes it return at once.
SendData(t) ==
  /\ pc[t] = "idle"
  /\ Len(accepted) < MaxSends
  /\ IsOpen
  /\ Goto(t, "lock")
  /\ UNCHANGED <<m_sendSyncMutex, m_inSendMode, stream, io, wire, socket>>

\* Mutant of LockSendSync: the lock on m_sendSyncMutex is left out.
NoSendSync(t) ==
  /\ pc[t] = "lock"
  /\ m_sendSyncMutex' = t
  /\ Goto(t, "test")
  /\ UNCHANGED <<m_inSendMode, stream, io, wire, socket>>

\* std::unique_lock canSend(m_sendSyncMutex)
LockSendSync(t) ==
  /\ pc[t] = "lock"
  /\ m_sendSyncMutex = NoCaller
  /\ m_sendSyncMutex' = t
  /\ Goto(t, "test")
  /\ UNCHANGED <<m_inSendMode, stream, io, wire, socket>>

\* Mutant of TestSendMode: the flag is not looked at.
NoTest(t) ==
  /\ pc[t] = "test"
  /\ Goto(t, "write")
  /\ UNCHANGED <<m_sendSyncMutex, m_inSendMode, stream, io, wire, socket>>

\* while(m_inSendMode): the flag is read without m_sendAvaliableMutex.
TestSendMode(t) ==
  /\ pc[t] = "test"
  /\ Goto(t, IF m_inSendMode THEN "enter" ELSE "write")
  /\ UNCHANGED <<m_sendSyncMutex, m_inSendMode, stream, io, wire, socket>>

\* Lock m_sendAvaliableMutex and release it again inside wait_for.
EnterWait(t) ==
  /\ pc[t] = "enter"
  /\ SendAvaliableMutexFree
  /\ Goto(t, "wait")
  /\ UNCHANGED <<m_sendSyncMutex, m_inSendMode, stream, io, wire, socket>>

\* Mutant of WaitTimeout: the limit breaks out of the loop like a notification.
BreakOnTimeout(t) ==
  /\ pc[t] = "wait"
  /\ SendAvaliableMutexFree
  /\ Goto(t, "write")
  /\ UNCHANGED <<m_sendSyncMutex, m_inSendMode, stream, io, wire, socket>>

\* Mutant of WaitTimeout: m_cv.wait without a limit.
WaitWithoutLimit(t) == pc[t] = "wait" /\ FALSE /\ UNCHANGED vars

\* wait_for gives cv_status::timeout: around the loop again.
WaitTimeout(t) ==
  /\ pc[t] = "wait"
  /\ SendAvaliableMutexFree
  /\ Goto(t, "test")
  /\ UNCHANGED <<m_sendSyncMutex, m_inSendMode, stream, io, wire, socket>>

\* wait_for wakes although nobody notified, which the standard permits.
WakeSpuriously(t) ==
  /\ pc[t] = "wait"
  /\ Goto(t, "woken")
  /\ UNCHANGED <<m_sendSyncMutex, m_inSendMode, stream, io, wire, socket>>

\* A woken wait_for takes the mutex back and gives no_timeout, which leaves the
\* loop without another look at m_inSendMode; or timeout, when the 500 ms are over.
LeaveWait(t) ==
  /\ pc[t] = "woken"
  /\ SendAvaliableMutexFree
  /\ \E label \in {"write", "test"} : Goto(t, label)
  /\ UNCHANGED <<m_sendSyncMutex, m_inSendMode, stream, io, wire, socket>>

\* Raise the flag, append the frame to the stream, start an async_write of all
\* that the stream holds, and let the next caller into the gate.
WriteFrame(t) ==
  LET data == m_streamSend \o Frame(Len(accepted) + 1) IN
  /\ pc[t] = "write"
  /\ m_inSendMode' = TRUE
  /\ m_streamSend' = data
  /\ writes' = writes \union {[data |-> data, done |-> 0]}
  /\ accepted' = Append(accepted, t)
  /\ m_sendSyncMutex' = NoCaller
  /\ Goto(t, "idle")
  /\ UNCHANGED <<io, wire, socket>>

-----------------------------------------------------------------------------
\* The operating system takes the next piece of a write to the peer.
Transmit(w) ==
  /\ socket = "connected"
  /\ w.done < Len(w.data)
  /\ wire' = Append(wire, w.data[w.done + 1])
  /\ writes' = (writes \ {w}) \union {[w EXCEPT !.done = @ + 1]}
  /\ UNCHANGED <<gate, m_streamSend, accepted, io, socket>>

\* The connection fails: writes complete with an error from now on.
ConnectionLost ==
  /\ socket = "connected"
  /\ socket' = "broken"
  /\ UNCHANGED <<gate, stream, io, wire>>

\* Mutant of HandlerWrite: an error after some bytes counts as a success.
PartialIsSuccess(w) ==
  /\ handler = "idle"
  /\ w.done = Len(w.data) \/ socket = "broken"
  /\ m_streamSend' = Consume(m_streamSend, 2 * w.done)
  /\ writes' = writes \ {w}
  /\ handler' = "clear"
  /\ handlerCode' = (w.done = 0)
  /\ UNCHANGED <<gate, accepted, sessionErrors, wire, socket>>

\* The write completes and the io thread enters handlerWrite.  The operation has
\* taken its bytes off the stream itself, so m_streamSend.consume runs a second time.
HandlerWrite(w) ==
  /\ handler = "idle"
  /\ w.done = Len(w.data) \/ socket = "broken"
  /\ m_streamSend' = Consume(m_streamSend, 2 * w.done)
  /\ writes' = writes \ {w}
  /\ handler' = "clear"
  /\ handlerCode' = (w.done < Len(w.data))
  /\ UNCHANGED <<gate, accepted, sessionErrors, wire, socket>>

\* m_inSendMode = false
HandlerClearsFlag ==
  /\ handler = "clear"
  /\ m_inSendMode' = FALSE
  /\ handler' = "notify"
  /\ UNCHANGED <<pc, m_sendSyncMutex, stream, handlerCode, sessionErrors, wire, socket>>

\* m_cv.notify_one(), then lg.unlock(): a notification nobody waits for is lost.
HandlerNotifies ==
  /\ handler = "notify"
  /\ handler' = IF handlerCode THEN "report" ELSE "idle"
  /\ IF Waiting = {}
       THEN pc' = pc
       ELSE \E t \in Waiting : Goto(t, "woken")
  /\ UNCHANGED <<m_sendSyncMutex, m_inSendMode, stream, handlerCode, sessionErrors, wire,
                 socket>>

\* if(code) onSessionError_(code): outside both mutexes.  The return on an abort comes
\* only when the session is being destroyed, which is the subject of SessionTeardown.
HandlerReports ==
  /\ handler = "report"
  /\ handler' = "idle"
  /\ sessionErrors' = sessionErrors + 1
  /\ UNCHANGED <<gate, stream, handlerCode, wire, socket>>

-----------------------------------------------------------------------------
CallerStep(t) == \/ LockSendSync(t) \/ TestSendMode(t) \/ EnterWait(t)
                 \/ WaitTimeout(t) \/ LeaveWait(t) \/ WriteFrame(t)

IoStep == \/ \E w \in writes : HandlerWrite(w)
          \/ HandlerClearsFlag
          \/ HandlerNotifies
          \/ HandlerReports

Network == \E w \in writes : Transmit(w)

\* Every call has returned and every write has completed.
Quiescent ==
  /\ \A t \in Callers : pc[t] = "idle"
  /\ writes = {} /\ handler = "idle"
  /\ UNCHANGED vars

Next == \/ \E t \in Callers : SendData(t) \/ CallerStep(t)
        \/ Network
        \/ ConnectionLost
        \/ IoStep
        \/ Quiescent

Spec == Init /\ [][Next]_vars

\* Threads are scheduled, wait_for ends after its 500 ms, the io thread runs what
\* is posted to it, and the peer of a live connection keeps reading.  Nobody has
\* to call, no link has to break, and std::mutex promises no order to its waiters.
FairSpec == /\ Spec
            /\ \A t \in Callers : WF_vars(CallerStep(t))
            /\ WF_vars(IoStep)
            /\ WF_vars(Network)

\* The same where wait_for may wake for no reason.
SpuriousSpec == Init /\ [][Next \/ \E t \in Callers : WakeSpuriously(t)]_vars

-----------------------------------------------------------------------------
CallerStates == {"idle", "lock", "test", "enter", "wait", "woken", "write"}

\* Every variable of the sending half stays within the values its C++ type and
\* the handler's control flow give it; what enters the stream are pieces of frames.
TypeOK ==
  /\ pc \in [Callers -> CallerStates]
  /\ m_sendSyncMutex \in Callers \union {NoCaller}
  /\ m_inSendMode \in BOOLEAN
  /\ m_streamSend \in Seq(Piece)
  /\ writes \subseteq [data : Seq(Piece), done : Nat]
  /\ handler \in {"idle", "clear", "notify", "report"}
  /\ handlerCode \in BOOLEAN
  /\ accepted \in Seq(Callers)
  /\ wire \in Seq(Piece)
  /\ socket \in {"closed", "connected", "broken"}
  /\ sessionErrors \in Nat

\* One async_write at a time: boost requires that no second composed write is
\* started on a socket before the first has called its handler, and a streambuf
\* must not be appended to while a write reads from it.  A caller about to run
\* sendData's last lines therefore finds no write and no raised flag, and on a
\* live connection nothing that an earlier write left in the stream.
WriteExclusion ==
  /\ \A v, w \in writes : v = w
  /\ \A t \in Callers : pc[t] = "write" =>
       /\ writes = {}
       /\ ~m_inSendMode
       /\ socket = "connected" => m_streamSend = <<>>

\* The piece that follows p in a stream of whole frames.
Succ(p) == IF p.part = FrameParts THEN [frame |-> p.frame + 1, part |-> 1]
                                  ELSE [p EXCEPT !.part = @ + 1]

\* The peer reads the frames of sendData's calls one after the other: in the
\* order the gate let them in, none interleaved with another, none twice.
WireFramed ==
  /\ wire # <<>> => wire[1] = [frame |-> 1, part |-> 1]
  /\ \A k \in 1..Len(wire) - 1 : wire[k + 1] = Succ(wire[k])

\* The number of whole frames the peer has, read off the last piece it got.
WholeFrames ==
  IF wire = <<>> THEN 0
  ELSE LET last == wire[Len(wire)]
       IN  IF last.part = FrameParts THEN last.frame ELSE last.frame - 1

\* While the connection lives, a lowered flag means that every frame accepted so
\* far has reached the peer to its last piece: consuming the bytes twice, in the
\* operation and in handlerWrite, has eaten none of them.
NothingLost ==
  (~m_inSendMode /\ socket = "connected") =>
     /\ m_streamSend = <<>>
     /\ WholeFrames = Len(accepted)

\* A frame that an idle session has not delivered was reported lost through
\* onSessionError_, however far its write had come when the connection failed.
LossReported ==
  (writes = {} /\ handler = "idle" /\ WholeFrames < Len(accepted))
     => sessionErrors > 0

\* A caller that is in the gate leaves it: the notification of handlerWrite may
\* fall between the test of m_inSendMode and the wait, the 500 ms limit makes up
\* for it.
GateReleased == \A t \in Callers : m_sendSyncMutex = t ~> m_sendSyncMutex # t

\* "Sends a one-time request" (client/hdr/emserverfacade.h, sendRequestCapabilities):
\* no part of a frame reaches the peer a second time.
OneTimeRequest == \A j, k \in 1..Len(wire) : wire[j] = wire[k] => j = k

\* What a session promises its users, whatever the gate does inside: a channel
\* that delivers accepted frames in order, once, one at a time.
Channel == INSTANCE FrameChannel WITH
             delivered <- WholeFrames,
             link <- IF socket = "connected" THEN "up" ELSE "down"

\* The gate implements that channel, its promise of delivery included.
ImplementsChannel == Channel!FairSpec

-----------------------------------------------------------------------------
(* The inductive invariant behind the four safety properties.                  *)

InGate == {"test", "enter", "wait", "woken", "write"}

\* m_sendSyncMutex belongs to the caller between its lines, and to no other.
GateOwned == \A t \in Callers : pc[t] \in InGate <=> m_sendSyncMutex = t

\* The flag is up exactly while a write is in flight or its handler has yet to
\* lower it; a caller that has been notified finds it down.
FlagTracksWrite ==
  /\ \A v, w \in writes : v = w
  /\ handler = "clear" => writes = {}
  /\ m_inSendMode <=> (writes # {} \/ handler = "clear")
  /\ \A t \in Callers : pc[t] \in {"woken", "write"} => ~m_inSendMode
  /\ \A t \in Callers : pc[t] = "wait" /\ handler = "notify" => ~m_inSendMode

\* The wire ends d pieces into the n-th frame.
WireAt(n, d) ==
  IF n = 1 /\ d = 0 THEN wire = <<>>
  ELSE /\ wire # <<>>
       /\ wire[Len(wire)] = IF d = 0 THEN [frame |-> n - 1, part |-> FrameParts]
                                      ELSE [frame |-> n, part |-> d]

\* On a live connection the only write is the last accepted frame, and the wire
\* has exactly what that write has transmitted; without one, everything.
WireTracksWrite ==
  /\ \A w \in writes :
       /\ w.data = m_streamSend
       /\ w.done \in 0..Len(w.data)
       /\ w.done = Len(w.data) => WholeFrames = Len(accepted)
  /\ socket = "connected" =>
       /\ \A w \in writes :
            /\ accepted # <<>>
            /\ w.data = Frame(Len(accepted))
            /\ WireAt(Len(accepted), w.done)
       /\ writes = {} => m_streamSend = <<>> /\ WireAt(Len(accepted) + 1, 0)

\* A lost frame is in a write that will fail, in a handler that will report it,
\* or reported.
LossTracked ==
  /\ WholeFrames < Len(accepted) =>
       \/ writes # {}
       \/ handler # "idle" /\ handlerCode
       \/ sessionErrors > 0
  /\ handler = "report" => handlerCode

\* What every step of the sending half preserves when wait_for wakes only for a
\* notification or its limit.
GateInvariant == /\ TypeOK
                 /\ GateOwned
                 /\ FlagTracksWrite
                 /\ WireTracksWrite
                 /\ WireFramed
                 /\ LossTracked
=============================================================================
