# emserver in TLA+

emserver is a pair of C++ libraries by which a client asks a server, over one TCP
connection, for its sensors and their capabilities. This directory holds a formal
model of the two: TLA+ modules, TLC configurations, and proofs checked by TLAPS.
`PROJECT.json` relates every definition to the lines it models, and lists the runs,
the mutants of the code each property has been shown to catch, the findings, the
hazards and the theorems. Paths below are relative to the repository (`src/`).

## 1. The system

| part | state | operations | driven by |
|---|---|---|---|
| **TcpSession**, sending (`common/src/tcpsession.cpp`) | `m_sendSyncMutex`, `m_inSendMode`, `m_cv` + `m_sendAvaliableMutex`, `m_streamSend` | `sendData`, `handlerWrite` | any number of user threads, the io thread |
| **TcpSession**, reading, and **CommonProcessor** (`common/src/commonprocessor.cpp`) | `m_buffer`; `m_acceptorBuffer`, `m_needExit`, a `BufferProcessor` | `waitReading`, `handlerRead`, `onReadedChunk`, the processing thread's loop, the destructors | the io thread, one processing thread per session, whoever drops the session |
| **BufferProcessor**, **BaseProtocol** (`common/src/bufferprocessor.cpp`, `baseprotocol.cpp`) | `m_processingBuffer` | `appendBuffers`, `messages`, `makeProtocolMessage`, `extractFromRawData` | the processing thread |
| **EmserverProcessor** (`common/src/processoremserver.cpp`) | the registered callbacks | `makeMessage`, `callbackRecievedCommonMessage` | senders; the processing thread |
| **TransportClient**, **EmserverAdapter** (`client/src/transport_client.cpp`, `emserveradapter.cpp`) | the resolver, `m_reconnectTimer`, `m_session`, `methodCounter` | open, close, resolve, connect, time out, session error, calls, the destructor | the user's threads, the io thread, the processing thread |
| **sensors**: the C structures, protobuf messages and client classes (`cserver.cpp`, `client/src/dataconverter.cpp`, `interop_sensors.cpp`) | the server user's `hardware`, the client user's sensors and their states | the conversions, `send_capabilities`, `send_activesensor`, `updateState` | the server's user, the processing thread |
| **TransportServer**, **CServer** (`server/src/transport.cpp`, `cserver/cserver.cpp`) | `m_acceptor`, `m_session`, the C callbacks | `server_listen`, again and again, `server_close`, `server_release`, accept, session error, requests and replies | the user's threads, an io thread per transport, the processing thread |

How they interact. A transport creates a session per attempt (client) or per accept
(server) and passes it up in a connected callback; the adapter or the server keeps it
in `m_session`, registers its processor and starts reading. The session reports
errors of reads and writes through `onSessionError_`, upon which the owner drops it
and opens, or listens, again. Messages go down by `sendData` on the thread of the
caller and come up on the processing thread of the session, where the server runs
the user's callback and answers it. Between the owner's threads there is no lock.

What is hard here: the send gate is a plain flag, two mutexes and a condition
variable with a time limit; the chunks of a stream, its frames and the calls of the
handlers fall together in any way; attempts to connect overlap each other, their
timer and the user's close; either side loses the connection in its own time; a
session is destroyed by one thread while two others work for it.

What makes each part correct:

* sending: one write at a time; frames whole, in order, once; losses reported; nobody
  waits forever;
* reading: frames in order and once, none held back, all of them with the processing
  thread when an orderly close is reported (the owner that drops the session then throws
  away what is queued there); the processing thread can be joined;
* framing: exactly the complete frames, wherever the stream is cut, as long as no size
  field has the parser read outside of its buffer;
* connections: no session that nobody owns, one client at a time, attempts never end
  while a connection is wanted, the user knows the state, closed is closed, and no
  transport is destroyed under its io thread. Sessions and adapters are, at a close, which
  the models reach (`process` is `undefined` or `terminated`) and the properties except;
* the end of a session: in a process that lives one thread destroys it, with the last
  reference; a close by the user's thread returns, and no callback of that client comes
  after it. That a sender or `server_release` returns is not so in general: see the finding
  `release`;
* sensors: the client has them as they were sent, all or none;
* calls: a call is answered, by its own number, once, and the result comes last.

## 2. The modules

### TcpSessionSend, FrameChannel, TcpSessionSendProofs

`TcpSessionSend` has one action for each line of `sendData` and `handlerWrite` at
which another thread may come between: lock `m_sendSyncMutex` (`LockSendSync`), read
the flag (`TestSendMode`, which takes no lock), begin to wait (`EnterWait`), wake
(`WaitTimeout`, `LeaveWait`), write and unlock (`WriteFrame`), and on the io thread
`HandlerWrite`, `HandlerClearsFlag`, `HandlerNotifies`, `HandlerReports`.
`m_sendAvaliableMutex` needs no variable: it is held by `handlerWrite` between two of
its steps (`SendAvaliableMutexFree`), and by a caller only within a step. A frame is
`FrameParts` pieces, which `Transmit` moves to the peer one by one, so that the
connection may fail in the middle of one. `async_write` with a streambuf takes what
it has written off the buffer itself; `handlerWrite` consumes the same number again,
hence `Consume(m_streamSend, 2 * w.done)`.

`FrameChannel` is the abstract channel. The gate implements it under the mapping
`delivered <- WholeFrames`, `link <- ...` (property `ImplementsChannel`).

The standard lets `wait_for` wake for no reason. `Spec` leaves that out, `SpuriousSpec`
has it: see the findings.

### BufferProcessor, MCBufferProcessor, BufferProcessorProofs

Bytes are cells; a size field and a checksum are one cell each, and a checksum cell
carries the cells it covers, so that it matches those only. One action is one turn of
the loop in `messages()`: `ExtractMessage`, `SkipMarker`, `ReadOutside`, `ReturnMessages`.
`AppendBuffers` takes any number of the cells that are coming, which covers every cut
into chunks. `MCBufferProcessor` has the streams.

The total of header, payload and checksum is summed in `uint32_t` (`baseprotocol.cpp:26`,
`:36`), hence `TotalSize`, modulo `SizeValues`. A sum that wraps passes the test for
enough bytes. The total that comes out may be within the header, which matches no
checksum, so that the marker is skipped; or less than a checksum, upon which the code reads
before the magic and over the whole address space: `ReadOutside`, after which `process` is
`undefined`. Junk and payloads may hold any size field.

### TcpSessionRead, TcpSessionReadProofs

The io thread reads until the socket is dry and hands the chunk over; the processing
thread takes the chunks and delivers frames; the owner registers, starts, loses and
destroys the session. Frames are runs of piece numbers here: what is in them is
`BufferProcessor`'s subject, of which this module uses the result (`Extracted`,
`Remaining`), where no size wraps. The session may be destroyed by any thread at any time
(`DestroySession`), also while the io thread is in `handlerRead` or has it queued: what
that handler finds then is `HandlerOfDestroyed`. `m_acceptorBuffer` is a list of chunks in the code; as the processing thread
always takes all of it and appends chunk to chunk, it is here the pieces of the queued
chunks, one behind the other.

### SessionTeardown, SessionTeardownProofs

How a server's session ends. Three threads work for it (`Threads`): the io thread,
which runs its handlers and `onClientConnected_`; the processing thread, which runs the
request callback and sends its result; and one of the user's. Each may send through
the gate, here in two steps, and each may reset `m_session` (`ResetSession`): the io thread
in `callbackSessionError`, all three in `server_close` (`Close`), the user's also in
`server_release` (`Release`, `JoinIoThread`).

Two things refer to the session, `m_session` and, while it runs, the connected handler
(`connected`), by its bound pointer and its argument. A reset during that handler destroys
nothing; the io thread does, when the handler ends (`ConnectedReturns`). Whoever lets go of
the last reference is in the destructor, which has three stages (`life`): `~TcpSession` takes
`onSessionError_` away and closes the socket ("closing", `Destroy`); the members go, first the
gate, then `m_protocol`, whose destructor joins the processing thread ("joining",
`DestroyGate`); it is joined and the session is "gone" (`Join`).

What touches the wrong object ends the process, and then nothing happens:

* a handler or a sender that comes to a session that is gone, or uses `m_session` after
  another thread has reset it: `undefined`;
* a sender or `handlerWrite` that uses the mutexes, the condition or the flag when they are
  destroyed: it does what it would have done, or it is `undefined` (`SendsOnJoining`,
  `HandlerWriteOnJoining`), as destroyed memory is mostly still there;
* two threads in `m_session.reset()` at once: one of them is first, or it is `undefined`
  (`ResetsAtOnce`);
* the processing thread that joins itself, and `available()` on a closed socket, throw where
  nothing catches: `terminated`.

### ClientConnection, ClientConnectionProofs

A session object goes through `resolving`, `connecting`, `connected`; `timerArmed` and
`timerQueued` are the reconnect timer before and after `cancel` comes too late. A
handler of the io thread that touches `m_session` more than once is several actions,
with the place and the session in `io`: a test of `m_session` and its use are two, and a close
between them makes the process `undefined` (`UsesNull`). The user's `connectionOpen` is two
actions, `connectionClose` three. A session that has been read may hold the io thread that
destroys it for good (`Blocked`), which is the finding `release` seen from here. Any
number of attempts overlap, up to `Sessions`. The destructor (`Destroy`) closes, destroys
the adapter's members and waits for the io thread (`JoinIoThread`); a handler that
uses the adapter by then is `UsesDestroyed`.

### CServer, CServerProofs

The same for the server: a session is `accepting`, `accepted` or `failed` (its handler
is queued), `connected`, or `dead` (taken over although the accept failed). Each
`server_listen` makes a `TransportServer` with an io thread of its own, hence `io`,
`m_acceptor` and `m_ioService` by transport; it replaces `m_server`, whose destructor waits
until that thread has run dry (`dying`, `JoinIoThread`), then sets the connected callback
and listens. In between, the old thread's handlers reach the new transport already,
as `callbackSessionError` and `transportClientConnectedCallback` go through `m_server`.
`StartReading` uses `m_session` without a test, as the code does: if `server_close` has
reset it, or a handler runs after `server_release` (`UsesReleased`), the process is
`undefined` and nothing more happens. An io thread that drops or replaces a session of its
own may wait for that session's processing thread for good (`MayBlock`, `Blocked`).

### RequestReply, RequestReplyProofs

Two queues of messages, one connection that breaks and is made again, a counter that
is loaded and stored in two steps, the narrowing of call numbers to `int32_t` and
`uint32_t` (`Edge` stands for 2^31), the dispatch by code, and the server's callback, which may
reply at once, later from another thread, with invalid data, or never. The client's
user is the example, which enters a call in `m_calls` after the call has returned
(`RecordCall`) and erases it when its result comes (`examples/native_client/`).

### SensorExchange, SensorExchangeProofs

The sensors of the server's user become protobuf messages (`ProtoSensor`,
`ActiveSensorFromNative`) and the objects of the client's user (`NativeSensor`,
`FromCaps`, `NativeActivatedSensor`, `UpdateState`), one operator per function. Values
keep the form they have in a message: a number in field 1, which a bool and an `int32`
share. Messages carry, as history, the structures they were made of, for the
properties to compare with. Searching the sensor of a state is the user's part; it is
taken from `examples/native_client/emserveradapterqt.cpp` (`SensorOf`, `OnActivatedSensor`).

### How they fit

`TcpSessionSend` and `TcpSessionRead` with `BufferProcessor` justify the reliable,
ordered queues of `RequestReply` and `SensorExchange`; `ClientConnection` and `CServer` justify its
`SideDrops` and `Reconnect`. In `ClientConnection` and `CServer` a session is created, read from and
destroyed in one step each, of which the last may also never end; `SessionTeardown` has what
is in it.
`SessionTeardown` in turn takes the gate of `TcpSessionSend`, which wakes every caller in
the end, as two steps, and of `TcpSessionRead` the hand-over of a request as one.

## 3. The runs

The smaller runs take seconds, `teardown`, `client`, `server`, `calls` and `sensors` up to a
minute or two. "History"
variables are marked as such in the modules; they record what a property speaks about
and guard nothing but a bound.

| run | bounds | properties |
|---|---|---|
| `send` | 3 callers, frames of 2 pieces, 3 calls; 72 000 states | `TypeOK`, `WriteExclusion`, `WireFramed`, `NothingLost`, `LossReported`, `GateReleased`, `ImplementsChannel` |
| `parser_chunks` | 2 frames, 4 payloads, 6 kinds of junk, every cut, sizes modulo 16; 23 000 states | `ExtractedExactly`, `NoResidue`, `MessagesReturns` |
| `read_path` | 3 frames of 2 pieces; 29 000 states | `DeliveredInOrder`, `NothingHeldBack`, `CloseLosesNothing`, `FramesDelivered`, `JoinReturns` |
| `teardown` | 3 threads, 3 messages, 2 requests; 307 000 states | `DestroyedOnce`, `QuietAfterClose`, `SendReturns`, `UserCloseReturns` |
| `client` | 3 session objects at a time; 89 000 states | `TypeOK`, `NoOrphan`, `NeverGivesUp`, `StateReported`, `Reconnects`, `DestructorReturns` |
| `server` | 3 session objects at a time, 3 calls of `server_listen`; 122 000 states | `TypeOK`, `OneClient`, `NoOrphan`, `NeverDeaf`, `ClientReported`, `NothingOutlivesTransport`, `Serves`, `JoinReturns` |
| `calls` | 2 calls, 1 unasked message, 2 breaks, `Edge` 4; 282 000 states | `ResultNamesCall`, `OneResult`, `CapabilitiesAsked`, `ResultIsLast`, `CallForgotten` |
| `sensors` | 2 sensors, levels 0 and 5, 3 messages, 1 under way; 853 000 states | `ViewFaithful`, `StateFaithful` |

Why the bounds are enough. `send`: one caller in the gate, one waiting for the mutex
and one that arrives later are all the roles there are, and with two pieces a write
can be untouched, half done and done; the proofs remove these bounds. `parser_chunks`:
whatever happens at a marker depends on the frame there and the one after it; the junk has a
size for each way in which the sum may come out, and the proofs have any.
`read_path`: a frame delivered, one extracted and one in pieces exist at once.
`teardown`: each thread sends while another does and the third drops the session; a
request is under way while another waits. `client`: the adapter's session, one that is
handled and one that is attempted; `server`: the same with an accept, and three listens
have a transport destroyed, one being destroyed and a new one (four sessions with two
listens pass as well); their safety is proved without bounds. `calls`: two calls
whose answers are on their way together, over three connections in a row; the
numbers stay below the edge of `int32_t` (beyond it a result names no call: with
`Edge = 2`, `ResultNamesCall` fails at the second call, as it would after 2^31), and one
thread calls, since two may be given one number (`LoadCounter`, `StoreCounter`); its
invariants are proved for any number of threads.
`sensors`: every conversion is for one sensor or for each of a list; two sensors and
three messages give a list with one kind of each, an answer, a state and a later
answer; 0 and 5 tell a bool from a number.

Deadlock is not checked where the system may stop: a client or a server that was
closed, a session that is gone, a process that is no more, users who have sent all.

What the properties leave out on purpose.

* An aborted session is dropped by both sides without a word and without a new
  attempt (`emserveradapter.cpp:172`, `cserver.cpp:380`), and a port that is taken ends
  the server's listening (`cserver.cpp:410`). The history variables `owed` and `gaveUp`
  record these cases, and `NeverGivesUp`, `StateReported`, `Reconnects`, `NeverDeaf`,
  `ClientReported`, `Serves` say: nothing else has that effect.
* `StateReported` is about users that have not called `connectionClose`, which may cross
  the callback of a session that has just connected. `Reconnects` excepts a process that a
  crossing close has ended (`UsesNull`).
* `DestructorReturns` is about a destructor whose cancel came before the timer had run out,
  and after which nothing opens again (`cancelled`); attempts and handlers may be under
  way. It returns, or a handler reaches the members that it has destroyed already. Where the
  timer has run out the next attempt arms it again, and again: then a server that refuses
  keeps the destructor waiting as long as it does so.
* `Reconnects`, `DestructorReturns`, `Serves` and `JoinReturns` of `CServer` except an io thread that
  waits for good (`Blocked`), which is the finding `release`.
* `MessagesReturns` excepts a size that wraps to less than a checksum, and so do the
  two invariants of that run, as `messages()` does not come back then.
* `OneClient` is about a `server_listen` that found its transport unused (`wanted =
  "listening"`): when the loss of a client crosses a second `server_listen`, the old io
  thread has the new transport listen, the user's `listen(true)` fails on that
  ("listening twice"), and two accepts may be made. `NeverDeaf` and `ClientReported` hold
  there too. Nor is it about a server that was closed: that one may listen and be given a
  client by the io thread, and no property says that it must not (below).
* `CallForgotten` excepts the calls in `adrift`: a result that comes before the entry in
  `m_calls` is made, or is lost with the connection, leaves the entry for good.
* `SendReturns` excepts a sender beside an io thread that is in `sendData` or joins the
  processing thread itself: that is the finding `release`.
* `DestroyedOnce`, `QuietAfterClose`, `SendReturns` and `UserCloseReturns` are about processes that
  live (`process = "up"`); the `JoinReturns` of `TcpSessionRead` likewise.

### Findings

Four runs are expected to find a violation; each checks a sentence of the repository.

* `send_spurious` / `OneTimeRequest`: `sendData` leaves its loop on `no_timeout`
  without a look at `m_inSendMode`. A spurious wakeup starts a second `async_write` over
  the bytes of the first, and a request reaches the peer twice.
* `parser_nested` / `HalfMessageYieldsNothing`: while a frame is incomplete, `messages()`
  searches its payload; a whole frame in there is returned, and the outer one lost.
* `client_close` / `ClosedStaysClosed`: `connectionClose` cancels the timer only. An
  attempt that is under way connects after it has returned.
* `release` / `ReleaseReturns`: the client leaves between the two answers of a request.
  The io thread destroys the session and joins the processing thread, which waits for
  `m_inSendMode`, which only a handler of the io thread lowers. `server_release`, the full
  stop of the server, waits for the io thread and never returns.

Met on the way, without a run of their own; those that a schedule of the code reaches are
listed under "hazards".

* `server_close` promises to close the socket and disconnect the client
  (`cserver/api_server.h:136`), but a queued accept, or a session error under way, gives
  the closed server a client or has it listen again.
* `server_close` between two uses of `m_session` in `transportClientConnectedCallback`, and
  `connectionClose` between test and use in `onClientConnected`, leave a null pointer;
  handlers bound to a raw `this` run after the session, the adapter or the server is gone,
  or while the gate is destroyed (`process = "undefined"` in four modules); `server_close` in a
  request callback makes the processing thread join itself, and `available()` throws on
  the io thread when another has closed the socket (`"terminated"`).
* A size field near 2^32 wraps the sum of `extractFromRawData`, which then reads outside of
  the buffer (`ReadOutside`).
* The client sends sensor controls with a code for which the receiving side has no
  case (`emserveradapter.cpp:107`), so that the callback of `cserver/api_server.h:99` never runs.
  `DataConverter::sensorsToProto` adds no sensor to its result, and
  `CServer::nativeSensors` writes through a null `hardware`, but no message takes that way.
* Two calls of two threads may get one number. The example server numbers its active
  sensors from 0 of its own (`examples/native_cserver/main.cpp:63`), as the client does its
  calls; the client's user must not take the one for the other.

### Fairness

Weak fairness of every thread's step, since threads are scheduled and no step waits
for a condition that can be withdrawn, with these remarks.

* `TcpSessionSend`: `wait_for` ends (500 ms), the io thread runs what is posted, the
  peer of a live connection reads. `std::mutex` promises no order, so no caller is
  promised the gate: `GateReleased` says that who is in it leaves it.
* `TcpSessionRead`: the limit of 200 ms, callbacks return, a failed session is given up.
* `SessionTeardown`: each thread's part of `sendData` and of the destructor, and the io
  and the processing thread; the peer reads or the connection fails. Nobody need send,
  close or release, and what a race or a destroyed gate may do besides (`Undefined`) need
  not happen. A bounded number of messages lets every sender have the mutex.
* `ClientConnection`: every attempt ends, time passes, `connectionOpen`, `connectionClose` and the
  destructor go on once they are called; an io thread that destroys a session goes on or is
  `Blocked`, by choice; strong fairness of a successful
  resolution and connection: a server that is tried again and again accepts in the end.
* `CServer`: what the user has called goes on; each io thread runs, unless it is `Blocked`. Strong fairness of a
  successful accept: clients keep trying. A read on a socket that never had a client
  fails. Nobody need listen, close or release.
* `RequestReply`: the two processing threads; the server's user returns from its callback.
  Nothing is assumed of the link, the user's threads or late replies.

## 4. The proofs

Each proof module is about every value of its module's constants: any set of callers
and any size of a frame; any number of sessions, of calls of `server_listen`, of
messages and requests. The assumptions are the modules' own: the null value is none of
the objects, frames have at least one piece, bounds are natural numbers, and `uint32_t` has
more values than a frame without a payload has cells. Two modules have hypotheses in their
theorems, since the code does not keep the promise without them: `PlainStream` and
`PlainSizes` of `BufferProcessorProofs` and `NumbersFit` of `RequestReplyProofs`, all below.

| module | theorem | establishes |
|---|---|---|
| `TcpSessionSendProofs` | `TypeCorrect` | `Spec => []TypeOK` |
| | `GateInvariance` | `Spec => []GateInvariant` |
| | `WritesExclude` | `Spec => []WriteExclusion` |
| | `WireIsFramed` | `Spec => []WireFramed` |
| | `NoFrameLost` | `Spec => []NothingLost` |
| | `LossIsReported` | `Spec => []LossReported` |
| | `SessionImplementsChannel` | `Spec => Channel!SafeSpec` |
| `BufferProcessorProofs` | `FramesExtracted` | `Spec => []ExtractedExactly`, if `PlainStream` |
| | `BufferIsTrimmed` | `Spec => []NoResidue`, if `PlainStream` |
| | `HalfFrameIsHeld` | `Spec => []HalfMessageYieldsNothing`, if `PlainStream` |
| | `SearchStaysInside` | `Spec => []Inside` (`process = "up"`), if `PlainStream` and `PlainSizes` |
| `TcpSessionReadProofs` | `NothingIsHeldBack` | `Spec => []NothingHeldBack` |
| | `OrderlyCloseIsLast` | `Spec => []CloseReadsAll` |
| | `FramesDeliveredInOrder` | `Spec => []DeliveredInOrder` |
| | `OrderlyCloseLosesNothing` | `Spec => []CloseLosesNothing` |
| `SessionTeardownProofs` | `TypeCorrect` | `Spec => []TypeOK` |
| | `SessionDestroyedOnce` | `Spec => []DestroyedOnce` |
| | `ClosedIsQuiet` | `Spec => []QuietAfterClose` |
| `ClientConnectionProofs` | `TypeCorrect` | `Spec => []TypeOK` |
| | `NoSessionOrphaned` | `Spec => []NoOrphan` |
| | `ClientPersists` | `Spec => []NeverGivesUp` |
| | `StateIsReported` | `Spec => []StateReported` |
| `CServerProofs` | `TypeCorrect` | `Spec => []TypeOK` |
| | `NoSessionOrphaned` | `Spec => []NoOrphan` |
| | `TransportOutlived` | `Spec => []NothingOutlivesTransport` |
| | `ServesOneClient` | `Spec => []OneClient` |
| | `ListensOn` | `Spec => []NeverDeaf` |
| | `ClientIsReported` | `Spec => []ClientReported` |
| `RequestReplyProofs` | `ResultsNameCalls` | `Spec => []ResultNamesCall`, if `MaxCalls < Edge` |
| | `ResultComesLast` | `Spec => []ResultIsLast`, if `MaxCalls < Edge` |
| | `CallHasOneResult` | `Spec => []OneResult`, if `MaxCalls < Edge` |
| | `CapabilitiesWereAsked` | `Spec => []CapabilitiesAsked`, if `MaxCalls < Edge` |
| `SensorExchangeProofs` | `SensorsArriveAsSent` | `Spec => []ViewFaithful` |
| | `StatesArriveAsSent` | `Spec => []StateFaithful` |

**The send gate.** None of the four safety properties is inductive: that a caller about
to write finds no write in flight holds because the flag was down when it read it,
nobody else was in the gate to raise it, and only a finished write lowers it.
`GateInvariant` says so in parts, each with its own step lemma:

* `GateOwned`: the mutex belongs to the caller between its lines (`OwnerStep`);
* `FlagTracksWrite`: the flag is up exactly while a write is in flight or its handler
  has not lowered it yet; a caller that has been notified finds it down (`FlagStep`);
* `WireTracksWrite` and `WireFramed`: on a live connection the only write is the last
  accepted frame, and the wire ends just as far into it as the write has come
  (`WireStep`, from `WireGrows` and `WholeFramesAt`);
* `LossTracked`: a lost frame is in a write that will fail, in a handler that will
  report it, or reported (`LossStep`).

`InvariantStep` joins them. The second conjunct of `FlagTracksWrite` about `wait` and
`notify` is what fails when `wait_for` wakes spuriously, so the theorems are about `Spec`
and not `SpuriousSpec`.

**Reading.** That the bytes a read waits for are there already is true because the read was
asked for with the length of what the socket has, which only grows, and the first read
of a chunk is for one byte: `ReadsWhatIsThere`. With it, an orderly close can only be
met by the first read, when all before it has been handed over: `CloseReadsAll`, which is
the first half of `CloseLosesNothing`.

The order of the stream has an invariant of its own, `OrderInv`. `StreamUnbroken`: behind the
frames that were delivered or are in hand follow, without a gap, what the `BufferProcessor`
keeps, the queued chunks, `m_buffer` and the socket, each a run of pieces from the place
where the one before it ends (`AtProcessing` to `AtEnd`); the last ends with what has
arrived, unless a reset has thrown the socket's part away. This is broken in one way only:
`BeginCallback` drops the messages in hand when the session goes, and the thread delivers
nothing after that (`Leaving`, `LeavingStays`). `OwnerOrder` is there for `TakeChunks`, which
drops chunks that come without a registered processor: none do, as reading begins after
the registration. What `messages()` does with such a run is in `WholeOfRun`, `ExtractedOfRun`
and `RemainingOfRun`: it gives up the next frames in order and keeps a run that begins
where the last of them ends. Each action then has a lemma (`ArriveKeeps` to `EndKeeps`).

**Framing.** The theorems assume `PlainStream`: no payload and no junk holds a checksum cell,
that is, four bytes that are the CRC of what stands before them back to a magic, and the
peer sends no frame whose own total wraps. Without the first the promise is false, which
is the finding `parser_nested`: its payload is a frame. The payloads and the junk of
`parser_chunks`, with magics, headers and size fields that wrap in them, satisfy it.
`FramesExtracted`, `BufferIsTrimmed` and `HalfFrameIsHeld` allow such size fields: one that wraps to
a total within the header is skipped, one that wraps to less than a checksum ends the process inside
`messages()`, which then has returned nothing wrong, but returns no more. That the process
lives takes `PlainSizes` besides, that no size field in payloads or junk is one of those:
`SearchStaysInside`, from `NoneWraps` of what is in the buffer and what is coming.

In a plain stream every checksum that matches is that of a frame sent
(`Standing`), so that a frame found at a marker is one of those (`ExtractStep`), and a
marker that is skipped is not the beginning of one that is complete (`NonePassed`,
`SkipStep`). Frames do not overlap (`Apart`), hence the first that is found is the next,
and cutting the buffer behind it leaves the others where they are (`Returned`). When the
search has come to the end of the buffer, all complete frames have been returned.

**The end of a session.** `DestroyedOnce` and `QuietAfterClose` follow from `TeardownInv`, of which
neither half is inductive alone. `OneDestroyer`: who is in the destructor, and how far it has
come. `Held`: the session lives as long as one of its two references does. `InConnected`: while
the connected handler runs the io thread has no other, so that no request is handed
over; this is why a close by the user's thread is quiet although the session outlives it
in that handler. `DroppedByUser`: what the user's thread has left behind with its reset.

**The client's connection.** `NoOrphan` and the others speak of moments between handlers;
their invariants, of each step of a handler. `HandlerSession`: a handler holds a session
exactly while it takes it over. `TimerStandsIn`: until the session is taken, and from the
moment it is lost and the new attempt made, the timer is armed or its handler queued.
`StateKnown`: what the user has been told at each step of the io thread; a handler that is
through with its callback has reported (`check`, `read`).

**The server's connection.** `CServerProofs` has `Ownership` (`HandlerSession`, `Owned` and who
reads): what is past its accept is the server's session or in the hands of one handler, of
the thread it was made for. `Taken`: the server's session reads, or its handler will have
it read; this is what makes a transport whose io thread has run dry free of sessions, so
that its destructor may return. `UserCalls`: the transport that is destroyed is one that
nobody listens with. `RetiredStep` and `TransportStep` then give that it stays so.
The second half of the module adds what a serving transport has achieved: it is the only one with
work (`Alone`, from `Made` and the above); `Configures`, that its callback is set before it
listens; `Progress`, that at each step of a handler there is a session, an accept, or a
step that will make one; `Knows`, what the user has been told by then; `Single`, that
after a `server_listen` that found its transport unused there is one session at all,
which is the first half of `OneClient`.

**Calls and answers.** `RequestReplyProofs` assumes `NumbersFit`, that there are fewer calls than
`int32_t` has numbers; past the edge the theorems fail, as the code does. `Named`: every
number on its way, to either side, kept for later or about to be sent, was given to a
call. `ErrorsCounted`: the results without a number, in the queue and at the client, are no
more than the pushes. For a number that was given once there is one request, which is
about to be sent, under way or in the server's hands, never two of these (`OneRequest`).
So, while its answer is due, no result of it is anywhere, and a result
that is in the queue or at the client has all capabilities before it (`Ordered`). A
number that is given twice, by two threads that read one counter, has two requests, of
which the capabilities of one may follow the result of the other: the invariant is about
`Once(id)`, as `ResultIsLast` is about `Calls(id) = 1`.

`OneResult` and `CapabilitiesAsked` are about numbers that were given twice as well, and are
proved by counting (`CountedFor`). What there is of a number is weighed: `Asking`, calls about
to send, requests under way and the one in its callback; `Closing`, a result that is due;
`Kept`, a request kept for later; `Capabilities` and `Answers`, what the server has sent, in
the queue or arrived. Each step takes one weight for another: a request is sent for a
call, a callback ends with its result due, perhaps with the request kept, capabilities
or a refusal take the place of a request in its callback or kept. So asking, kept and
capabilities together are no more than the calls; the same holds of asking, closing and
answers while nothing of the number was refused; and both sums together, with refusals
counted among the answers, are no more than twice the calls. A break only takes away.

**Sensors.** Each conversion is undone by its counterpart: `SensorConverted` for a
configuration, `CapsConverted` for a list, `StateConverted` for a state. The queue holds
messages that were made of what their history says (`MadeOf`); between a message's being
sent and its arrival the server's user may add and change sensors, but no sensor's
id or kind ever changes (`From`, `Distinct`), so that a state finds its sensor, if the client has it,
and one of its kind. Nothing is dropped on the way (`Known` is not reached), since what is
sent has been found initialized.

Each invariant was checked by TLC before it was proved. Every invariant of a passing run is
now a theorem. Model-checked only: the liveness properties, which are out of the prover's
reach, as is ENABLED, and with them the fairness part of `ImplementsChannel`. The models that
are proved about use neither folds nor RECURSIVE operators: what `messages()` does is a loop
of actions in `BufferProcessor` and a set of frames in `TcpSessionRead`.

## 5. What is not modelled

* Data races on `m_session`, the timer and the acceptor as such: an access is one step, but for
  two resets of `m_session` at once in `SessionTeardown`. In `RequestReply` and for the senders of
  `TcpSessionSend`, test and use of `m_session` are one; in the connected callbacks of both
  sides and for the senders of `SessionTeardown` they are two. The server's global pointer `server`,
  which `server_release` resets while other calls may use it, is not modelled.
* The bytes of a frame. A code total of 4 to 8 bytes, which a size field just below the wrap
  gives, takes a checksum from within magic and size; in the model (totals 1 and 2) it
  never matches. `calculateChecksum` over some 2^64 bytes is undefined from the start. What
  `makeProtocolMessage` does with payloads of 2^32 - 9 bytes and more is left out.
* The end of a read that the destructor has aborted: its handler, which does nothing else,
  reads the destroyed `m_buffer` only to be destroyed itself.
* What happens after undefined behaviour (`process` is not "up"): nothing, in the models.
* The registration of callbacks, which are taken to be registered before a connection is
  opened or listened for; `server_create`, also after `server_release`; the facade, which only forwards;
  the numbers of bytes and messages that the server counts.
* The conversions from the client to the server (`sensorsToProto`, `sensorsFromProto`,
  `nativeSensors`), which no message takes.
* Addresses and the parameters of sockets, but for the failure to bind.
* `smlog` (logging), `IoServiceWrapper` (used by nothing), tests, build files; of the
  examples the window, its signals and `main`.
* protobuf's parser, taken to succeed on what the other side has serialised.

## 6. The plan

Done, in the order of importance: the send gate with its proofs, framing, the reading
half, the end of a session, the two connections with their destructors, calls and answers
and sensors, each with the proofs of all its invariants. What is left:

1. `TcpSessionRead` over `BufferProcessor`: `Extracted` and `Remaining` are what
   `FramesExtracted` and `BufferIsTrimmed` say of the loop, but the two are not joined by a
   refinement, as one counts pieces and the other has cells.
2. `ClientConnection` and `CServer` over one network: a refused connection is one the server
   does not accept. Each side has some 10^5 states, so with one session object less on either.
