--------------------------- MODULE TcpSessionRead ---------------------------
(***************************************************************************)
(* The receiving half of TcpSession and its CommonProcessor: the io thread *)
(* reads the socket into m_buffer and hands it over as a chunk whenever    *)
(* the socket has run dry (tcpsession.cpp, handlerRead); the processing    *)
(* thread takes the chunks, extracts the messages and calls the specific   *)
(* processor (commonprocessor.cpp); the destructor stops and joins that    *)
(* thread.                                                                 *)
(*                                                                         *)
(* The stream is the pieces 1, 2, 3, ...; the pieces from (n-1)*FrameParts *)
(* + 1 to n*FrameParts are frame n.  What messages() does with them is the *)
(* subject of BufferProcessor: it returns the frames that are complete.    *)
(***************************************************************************)
EXTENDS Integers, Sequences, FiniteSetsExt, SequencesExt

CONSTANTS FrameParts,   \* pieces of one frame
          MaxFrames     \* bound: frames the peer sends

ASSUME FramePartsAssumption == FrameParts \in Nat \ {0}
ASSUME MaxFramesAssumption == MaxFrames \in Nat

VARIABLES peer,               \* "open", "eof" (it closed its side) or "reset"
          sent,               \* the pieces that have reached this host
          received,           \* of these, the ones in the socket's receive buffer
          m_buffer,
          want,               \* transfer_exactly(want) of the pending async_read
          owner,              \* the life of the session in the hands of its owner
          io,                 \* the io thread: "off", "reading" (a read is pending or done),
                              \* "handover"; once the session is destroyed a handler is queued
                              \* of a read that was done, "complete", or has failed, "late"
          m_readCallback,     \* is a specific processor registered?
          m_acceptorBuffer,   \* the pieces of the queued chunks, one behind the other
          m_needExit,
          pc,                 \* where bufferProcessingThreadFunc stands
          processing,         \* what its BufferProcessor holds
          messages,           \* the frames it has extracted and not delivered
          delivered,          \* history: the frames given to m_readCallback
          process             \* "up", "terminated" or "undefined"

socketVars == <<peer, sent, received>>
readVars   == <<m_buffer, want, io>>
threadVars == <<pc, processing, messages, delivered>>
vars == <<peer, sent, received, m_buffer, want, owner, io, m_readCallback,
          m_acceptorBuffer, m_needExit, pc, processing, messages, delivered, process>>

WholeFrames(s) ==
  {n \in 1..MaxFrames : \A k \in 1..FrameParts : Contains(s, (n - 1) * FrameParts + k)}

\* messages(): the complete frames in ascending order, and the pieces behind the end of
\* the last of them.
Extracted(s) ==
  [k \in 1..Cardinality(WholeFrames(s)) |->
     CHOOSE n \in WholeFrames(s) : Cardinality({m \in WholeFrames(s) : m <= n}) = k]
Remaining(s) ==
  LET ends == {i \in 1..Len(s) : \E n \in WholeFrames(s) : s[i] = n * FrameParts}
  IN  SubSeq(s, Max(ends \union {0}) + 1, Len(s))

-----------------------------------------------------------------------------
Init ==
  /\ peer = "open" /\ sent = 0 /\ received = <<>>
  /\ m_buffer = <<>> /\ want = 0 /\ io = "off"
  /\ owner = "created"
  /\ m_readCallback = FALSE
  /\ m_acceptorBuffer = <<>>
  /\ m_needExit = FALSE
  /\ pc = "top" /\ processing = <<>> /\ messages = <<>> /\ delivered = <<>>
  /\ process = "up"

-----------------------------------------------------------------------------
(* The network: pieces arrive; the peer ends the stream, or breaks it and what *)
(* has not been read is gone.                                                  *)

Arrive ==
  /\ peer = "open"
  /\ sent < MaxFrames * FrameParts
  /\ sent' = sent + 1
  /\ received' = Append(received, sent')
  /\ UNCHANGED <<peer, readVars, owner, m_readCallback, m_acceptorBuffer, m_needExit,
                 threadVars, process>>

PeerCloses ==
  /\ peer = "open"
  /\ \/ peer' = "eof" /\ UNCHANGED received
     \/ peer' = "reset" /\ received' = <<>>
  /\ UNCHANGED <<sent, readVars, owner, m_readCallback, m_acceptorBuffer, m_needExit,
                 threadVars, process>>

-----------------------------------------------------------------------------
(* The owner of the session, in its connected callback.                        *)

RegisterReadCallback ==
  /\ owner = "created"
  /\ owner' = "registered"
  /\ m_readCallback' = TRUE
  /\ UNCHANGED <<socketVars, readVars, m_acceptorBuffer, m_needExit, threadVars, process>>

WaitReading ==
  /\ owner = "registered"
  /\ owner' = "reading"
  /\ io' = "reading"
  /\ want' = 1
  /\ UNCHANGED <<socketVars, m_buffer, m_readCallback, m_acceptorBuffer, m_needExit,
                 threadVars, process>>

\* Mutant of HandlerRead: the next read asks for a byte more than is there.
OneByteMore ==
  /\ io = "reading"
  /\ Len(received) >= want
  /\ m_buffer' = m_buffer \o SubSeq(received, 1, want)
  /\ received' = SubSeq(received, want + 1, Len(received))
  /\ IF received' = <<>>
       THEN io' = "handover" /\ want' = want
       ELSE io' = io /\ want' = Len(received') + 1
  /\ UNCHANGED <<peer, sent, owner, m_readCallback, m_acceptorBuffer, m_needExit, threadVars,
                 process>>

\* handlerRead without an error: the read has brought all it wanted.  If the socket
\* has more, read that too; if not, hand over what there is.
HandlerRead ==
  /\ io = "reading"
  /\ Len(received) >= want
  /\ m_buffer' = m_buffer \o SubSeq(received, 1, want)
  /\ received' = SubSeq(received, want + 1, Len(received))
  /\ IF received' = <<>>
       THEN io' = "handover" /\ want' = want
       ELSE io' = io /\ want' = Len(received')
  /\ UNCHANGED <<peer, sent, owner, m_readCallback, m_acceptorBuffer, m_needExit, threadVars,
                 process>>

\* Mutant of OnReadedChunk: m_buffer is not cleared.
BufferKept ==
  /\ io = "handover" /\ owner # "destroyed"
  /\ m_acceptorBuffer' = m_acceptorBuffer \o m_buffer
  /\ pc' = IF pc = "wait" THEN "woken" ELSE pc
  /\ want' = 1
  /\ io' = IF owner = "joining" THEN "late" ELSE "reading"
  /\ UNCHANGED <<socketVars, m_buffer, owner, m_readCallback, m_needExit,
                 processing, messages, delivered, process>>

\* onReadedChunk: under m_mutexSync the chunk is queued and the processing thread
\* notified; then m_buffer is cleared and one more byte awaited, which fails on a
\* socket that was closed meanwhile.
OnReadedChunk ==
  /\ io = "handover" /\ owner # "destroyed"
  /\ m_acceptorBuffer' = m_acceptorBuffer \o m_buffer
  /\ pc' = IF pc = "wait" THEN "woken" ELSE pc
  /\ m_buffer' = <<>>
  /\ want' = 1
  /\ io' = IF owner = "joining" THEN "late" ELSE "reading"
  /\ UNCHANGED <<socketVars, owner, m_readCallback, m_needExit, processing, messages,
                 delivered, process>>

\* Mutant of HandlerReadError: the close is reported before the rest is read.
ErrorFirst ==
  /\ io = "reading"
  /\ peer # "open"
  /\ owner' = "failed"
  /\ io' = "off"
  /\ UNCHANGED <<socketVars, m_buffer, want, m_readCallback, m_acceptorBuffer, m_needExit,
                 threadVars, process>>

\* handlerRead with an error: onSessionError_, and no further read.
HandlerReadError ==
  /\ io = "reading"
  /\ peer # "open"
  /\ Len(received) < want
  /\ owner' = "failed"
  /\ io' = "off"
  /\ UNCHANGED <<socketVars, m_buffer, want, m_readCallback, m_acceptorBuffer, m_needExit,
                 threadVars, process>>

\* The last reference to the session goes: after an error, or because the owner closes
\* it, on whatever thread.  ~TcpSession closes the socket, which aborts a pending read;
\* the handler of one that was done or had failed may be queued already.  Then
\* ~CommonProcessor stops the processing thread, with a notification that is lost if the
\* thread does not wait.
DestroySession ==
  /\ owner \in {"created", "reading", "failed"}
  /\ owner' = "joining"
  /\ \/ io = "handover" /\ io' = io
     \/ io # "handover" /\ io' = "off"
     \/ io = "reading" /\ Len(received) >= want /\ io' = "complete"
     \/ io = "reading" /\ Len(received) < want /\ peer # "open" /\ io' = "late"
  /\ m_needExit' = TRUE
  /\ pc' = IF pc = "wait" THEN "woken" ELSE pc
  /\ UNCHANGED <<socketVars, m_buffer, want, m_readCallback, m_acceptorBuffer,
                 processing, messages, delivered, process>>

\* handlerRead for a session that is in its destructor or gone: available() throws on the
\* closed socket, out of the io thread; an error finds onSessionError_ taken away.  Of an
\* object that is gone nothing is known.
HandlerOfDestroyed ==
  /\ io \in {"handover", "complete", "late"}
  /\ owner = "destroyed" \/ (owner = "joining" /\ io # "handover")
  /\ io' = "off"
  /\ process' = CASE owner = "destroyed" -> "undefined"
                  [] owner = "joining" /\ io = "complete" -> "terminated"
                  [] OTHER -> process
  /\ UNCHANGED <<socketVars, m_buffer, want, owner, m_readCallback, m_acceptorBuffer,
                 m_needExit, threadVars>>

\* m_threadProcessing.join()
Join ==
  /\ owner = "joining"
  /\ pc = "exit"
  /\ owner' = "destroyed"
  /\ UNCHANGED <<socketVars, readVars, m_readCallback, m_acceptorBuffer, m_needExit,
                 threadVars, process>>

-----------------------------------------------------------------------------
(* bufferProcessingThreadFunc                                                  *)

others == <<socketVars, readVars, owner, m_readCallback, m_needExit, process>>

\* while(!m_needExit): the flag is read without m_mutexSync.
TestNeedExit ==
  /\ pc = "top"
  /\ pc' = IF m_needExit THEN "exit" ELSE "lock"
  /\ UNCHANGED <<others, m_acceptorBuffer, processing, messages, delivered>>

\* Under m_mutexSync: chunks are there, or the thread waits for a notification.
LockAcceptor ==
  /\ pc = "lock"
  /\ pc' = IF m_acceptorBuffer = <<>> THEN "wait" ELSE "take"
  /\ UNCHANGED <<others, m_acceptorBuffer, processing, messages, delivered>>

\* Mutant of WaitTimeout: a wait without a limit.
WaitWithoutLimit == pc = "wait" /\ FALSE /\ UNCHANGED vars

\* wait_for ends after 200 ms: around the loop, without a look at the chunks.
WaitTimeout ==
  /\ pc = "wait"
  /\ pc' = "top"
  /\ UNCHANGED <<others, m_acceptorBuffer, processing, messages, delivered>>

\* wait_for wakes for no reason.
WakeSpuriously ==
  /\ pc = "wait"
  /\ pc' = "woken"
  /\ UNCHANGED <<others, m_acceptorBuffer, processing, messages, delivered>>

\* A woken wait_for gives no_timeout, or timeout when the 200 ms are over.
LeaveWait ==
  /\ pc = "woken"
  /\ pc' \in {"take", "top"}
  /\ UNCHANGED <<others, m_acceptorBuffer, processing, messages, delivered>>

\* Mutant of TakeChunks: the BufferProcessor is a local of the loop's body.
FreshProcessor ==
  /\ pc = "take"
  /\ m_acceptorBuffer' = <<>>
  /\ IF m_readCallback
       THEN /\ messages' = Extracted(m_acceptorBuffer)
            /\ processing' = Remaining(m_acceptorBuffer)
            /\ pc' = IF messages' = <<>> THEN "top" ELSE "deliver"
       ELSE pc' = "top" /\ UNCHANGED <<messages, processing>>
  /\ UNCHANGED <<others, delivered>>

\* Swap the chunks out; without a callback they are dropped, else appended to the
\* buffer of the BufferProcessor, which gives up its complete frames.
TakeChunks ==
  LET accepted == processing \o m_acceptorBuffer IN
  /\ pc = "take"
  /\ m_acceptorBuffer' = <<>>
  /\ IF m_readCallback
       THEN /\ messages' = Extracted(accepted)
            /\ processing' = Remaining(accepted)
            /\ pc' = IF messages' = <<>> THEN "top" ELSE "deliver"
       ELSE pc' = "top" /\ UNCHANGED <<messages, processing>>
  /\ UNCHANGED <<others, delivered>>

\* The loop over the messages, before each call: stop when the session goes.
BeginCallback ==
  /\ pc = "deliver"
  /\ pc' = IF m_needExit THEN "top" ELSE "callback"
  /\ messages' = IF m_needExit THEN <<>> ELSE messages
  /\ UNCHANGED <<others, m_acceptorBuffer, processing, delivered>>

\* m_readCallback(cmsg) returns.
EndCallback ==
  /\ pc = "callback"
  /\ delivered' = Append(delivered, Head(messages))
  /\ messages' = Tail(messages)
  /\ pc' = IF messages' = <<>> THEN "top" ELSE "deliver"
  /\ UNCHANGED <<others, m_acceptorBuffer, processing>>

-----------------------------------------------------------------------------
IoThread == HandlerRead \/ OnReadedChunk \/ HandlerReadError \/ HandlerOfDestroyed

ProcessingThread == \/ TestNeedExit \/ LockAcceptor \/ WaitTimeout \/ LeaveWait
                    \/ TakeChunks \/ BeginCallback \/ EndCallback

\* The session is gone, or the process with it.
Gone == (owner = "destroyed" \/ process # "up") /\ UNCHANGED vars

Next == \/ /\ process = "up"
           /\ \/ Arrive \/ PeerCloses
              \/ RegisterReadCallback \/ WaitReading \/ DestroySession \/ Join
              \/ IoThread
              \/ ProcessingThread \/ WakeSpuriously
        \/ Gone

\* Both threads run, callbacks return, and the owner gives up a failed session;
\* nothing need arrive and nobody has to close a healthy session.
Spec == /\ Init /\ [][Next]_vars
        /\ WF_vars(process = "up" /\ RegisterReadCallback)
        /\ WF_vars(process = "up" /\ WaitReading)
        /\ WF_vars(process = "up" /\ IoThread)
        /\ WF_vars(process = "up" /\ ProcessingThread)
        /\ WF_vars(process = "up" /\ owner = "failed" /\ DestroySession)
        /\ WF_vars(process = "up" /\ Join)

-----------------------------------------------------------------------------
\* The specific processor gets the frames of the stream in order, each once, none left
\* out and none before its end has arrived, whatever the cuts between reads, chunks and
\* calls of messages().
DeliveredInOrder ==
  /\ Len(delivered) * FrameParts <= sent
  /\ \A k \in 1..Len(delivered) : delivered[k] = k

\* Bytes that have been read do not wait for bytes that may never come: m_buffer is
\* held back only while the socket already has all that the pending read wants.
NothingHeldBack ==
  (io = "reading" /\ m_buffer # <<>> /\ peer # "reset") => Len(received) >= want

\* When an orderly close of the peer is reported to the owner, all that the peer
\* sent before has been handed over to the processing thread.
CloseLosesNothing ==
  (owner = "failed" /\ peer = "eof") =>
    /\ received = <<>> /\ m_buffer = <<>>
    /\ \A n \in 1..sent \div FrameParts :
         \/ Contains(delivered \o messages, n)
         \/ n \in WholeFrames(processing \o m_acceptorBuffer)

\* A frame that has arrived to its end is delivered while the session lives and its
\* peer does not break it.
FramesDelivered ==
  \A n \in 1..MaxFrames :
    sent >= n * FrameParts
      ~> (Contains(delivered, n) \/ owner \in {"failed", "joining", "destroyed"})

\* The destructor returns, although its notification can fall between the thread's
\* test of m_needExit and its wait, unless a handler that was queued ends the process.
JoinReturns == owner = "joining" ~> owner = "destroyed" \/ process # "up"
=============================================================================
