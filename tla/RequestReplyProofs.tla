-------------------------- MODULE RequestReplyProofs --------------------------
(***************************************************************************)
(* What RequestReply promises for any callers and any bounds below the     *)
(* edge of int32_t: results name calls, no call has more answers than it   *)
(* may have, and the result of a call is the last word on it.              *)
(***************************************************************************)
EXTENDS RequestReply, FiniteSetTheorems, TLAPS

-----------------------------------------------------------------------------
(* The invariant.                                                              *)

Numbers == 1 .. MaxCalls
Packets == [type : MethodCode, id : Nat]

CallsTypeOK ==
  /\ issued \in Seq(Numbers)
  /\ methodCounter \in 1 .. Len(issued) + 1
  /\ call \in [Callers -> [at : {"idle", "store", "send", "record"}, id : Nat]]
  /\ \A c \in Callers : call[c].at = "store" =>
       call[c].id \in Numbers /\ call[c].id <= Len(issued) + 1
  /\ toServer \in Seq(Packets) /\ toClient \in Seq(Packets) /\ got \in Seq(Packets)
  /\ server \in [at : {"idle", "callback", "result"}, id : Nat]
  /\ pushes \in Nat

\* Answers have the number of a call; 0 is left to what was not asked for.
NamedAnswer(numbers, m) ==
  m.id \in numbers \/ (m.id = 0 /\ m.type # "ResponseCapabilities")

\* Whatever is on its way has a number that a call was given.
Named ==
  LET given == Range(issued) IN
  /\ \A c \in Callers : call[c].at = "send" => call[c].id \in given
  /\ \A k \in DOMAIN toServer : toServer[k].id \in given
  /\ server.at # "idle" => server.id \in given
  /\ late \subseteq given
  /\ \A k \in DOMAIN toClient : NamedAnswer(given, toClient[k])
  /\ \A k \in DOMAIN got : NamedAnswer(given, got[k])

\* Errors come from pushes.
ErrorsCounted ==
  Cardinality(RuntimeErrors(got)) + Cardinality(RuntimeErrors(toClient)) <= pushes

\* A number that was given to one call has one request.
Once(id) == \A i, j \in DOMAIN issued : issued[i] = id /\ issued[j] = id => i = j

Sends(c, id) == call[c].at = "send" /\ call[c].id = id
Requested(id) == \E k \in DOMAIN toServer : toServer[k].id = id

OneRequestFor(id) ==
  /\ \A c, d \in Callers : Sends(c, id) /\ Sends(d, id) => c = d
  /\ \A j, k \in DOMAIN toServer : toServer[j].id = id /\ toServer[k].id = id => j = k
  /\ \A c \in Callers : Sends(c, id) => ~Requested(id)
  /\ server.at # "idle" /\ server.id = id
       => ~Requested(id) /\ \A c \in Callers : ~Sends(c, id)

OneRequest == \A id \in Range(issued) : Once(id) => OneRequestFor(id)

\* While the answer is due there is no result; capabilities come before it.
AnswerDue(id) ==
  \/ \E c \in Callers : Sends(c, id)
  \/ Requested(id)
  \/ server.at = "callback" /\ server.id = id

IsResult(m, id) == m.type = "ServerRuntimeNotification" /\ m.id = id
IsCaps(m, id) == m.type = "ResponseCapabilities" /\ m.id = id

NoResultOf(seq, id) == \A k \in DOMAIN seq : ~IsResult(seq[k], id)
NoCapsOf(seq, id) == \A k \in DOMAIN seq : ~IsCaps(seq[k], id)
CapsFirst(seq, id) ==
  \A i, j \in DOMAIN seq : IsResult(seq[i], id) /\ IsCaps(seq[j], id) => j < i

OrderedFor(id) ==
  /\ AnswerDue(id) => NoResultOf(toClient, id) /\ NoResultOf(got, id)
  /\ CapsFirst(got, id) /\ CapsFirst(toClient, id)
  /\ NoResultOf(got, id) \/ NoCapsOf(toClient, id)

Ordered == \A id \in Range(issued) \ delayed : Once(id) => OrderedFor(id)

\* What there is of a number: calls and requests to be answered, the result that is due, a
\* request that is kept, capabilities and results that are sent or have come.
Places(seq, M) == {k \in DOMAIN seq : seq[k] \in M}
Count(seq, M) == Cardinality(Places(seq, M))
Flag(b) == IF b THEN 1 ELSE 0

Senders(id) == {c \in Callers : Sends(c, id)}
Asks(id) == [type : MethodCode, id : {id}]
Sent(m) == Count(toClient, {m}) + Count(got, {m})

Asking(id) ==
  Cardinality(Senders(id)) + Count(toServer, Asks(id))
    + Flag(server.at = "callback" /\ server.id = id)
Closing(id) == Flag(server.at = "result" /\ server.id = id)
Kept(id) == Flag(id \in late)
Capabilities(id) == Sent(Message("ResponseCapabilities", id))
Answers(id) == Sent(Message("ServerRuntimeNotification", id))

\* Each call of a number has one chance of capabilities and one of a result; a refusal
\* turns the first into a result.
CountedFor(id) ==
  /\ IsFiniteSet(Senders(id))
  /\ Asking(id) + Kept(id) + Capabilities(id) <= Calls(id)
  /\ id \notin refused => Asking(id) + Closing(id) + Answers(id) <= Calls(id)
  /\ 2 * Asking(id) + Closing(id) + Kept(id) + Capabilities(id) + Answers(id)
       <= 2 * Calls(id)

Counted == \A id \in Nat \ {0} : CountedFor(id)

NumbersFit == MaxCalls < Edge

-----------------------------------------------------------------------------
(* Below the edge a conversion keeps the number.                               *)

LEMMA NumbersKept ==
  ASSUME NumbersFit, NEW n \in Numbers \union {0}
  PROVE  ToInt32(n) = n /\ ToUint32(n) = n /\ n \in Nat
<1>1. n \in Nat /\ Edge \in Nat /\ n < Edge
  BY BoundAssumption DEF NumbersFit, Numbers
<1>2. n % (2 * Edge) = n
  BY <1>1
<1>. QED
  BY <1>1, <1>2 DEF ToInt32, ToUint32

\* A sequence with one element more.
LEMMA OneMore ==
  ASSUME NEW S, NEW seq \in Seq(S), NEW e \in S
  PROVE  /\ Append(seq, e) \in Seq(S)
         /\ DOMAIN Append(seq, e) = (DOMAIN seq) \union {Len(seq) + 1}
         /\ DOMAIN seq = 1 .. Len(seq) /\ Len(seq) \in Nat
         /\ \A k \in DOMAIN seq : Append(seq, e)[k] = seq[k]
         /\ Append(seq, e)[Len(seq) + 1] = e
         /\ Range(Append(seq, e)) = Range(seq) \union {e}
<1>1. /\ Append(seq, e) \in Seq(S) /\ Len(Append(seq, e)) = Len(seq) + 1
      /\ DOMAIN Append(seq, e) = (DOMAIN seq) \union {Len(seq) + 1}
      /\ DOMAIN seq = 1 .. Len(seq) /\ Len(seq) \in Nat
      /\ \A k \in DOMAIN seq : Append(seq, e)[k] = seq[k]
      /\ Append(seq, e)[Len(seq) + 1] = e
  OBVIOUS
<1>. QED
  BY <1>1 DEF Range

\* A sequence without its first element.
LEMMA OneLess ==
  ASSUME NEW S, NEW seq \in Seq(S), seq # <<>>
  PROVE  /\ Tail(seq) \in Seq(S) /\ Head(seq) \in S /\ Head(seq) = seq[1] /\ 1 \in DOMAIN seq
         /\ \A k \in DOMAIN Tail(seq) : /\ k + 1 \in DOMAIN seq /\ Tail(seq)[k] = seq[k + 1]
                                       /\ k \in Nat /\ k >= 1
OBVIOUS

-----------------------------------------------------------------------------
(* Types and numbers.                                                          *)

\* The server sends nothing but what is named.
LEMMA ServerSendsNamed ==
  ASSUME CallsTypeOK, Named, NEW m \in Packets, NamedAnswer(Range(issued), m), ServerSends(m)
  PROVE  /\ toClient' \in Seq(Packets)
         /\ \A k \in DOMAIN toClient' : NamedAnswer(Range(issued), toClient'[k])
<1>1. CASE toClient' = toClient
  BY <1>1 DEF CallsTypeOK, Named
<1>2. CASE toClient' = Append(toClient, m)
  BY <1>2, OneMore DEF CallsTypeOK, Named
<1>. QED
  BY <1>1, <1>2 DEF ServerSends

\* The messages of the server.
LEMMA AnswersNamed ==
  ASSUME NumbersFit, CallsTypeOK, NEW id \in Range(issued) \union {0}
  PROVE  /\ Result(id) = Message("ServerRuntimeNotification", id)
         /\ Result(id) \in Packets /\ NamedAnswer(Range(issued), Result(id))
         /\ id # 0 => /\ Message("ResponseCapabilities", id) \in Packets
                      /\ NamedAnswer(Range(issued), Message("ResponseCapabilities", id))
<1>1. id \in Numbers \union {0}
  BY DEF CallsTypeOK, Range
<1>. QED
  BY <1>1, NumbersKept DEF Result, Message, Packets, MethodCode, NamedAnswer

LEMMA GivenArePositive == ASSUME CallsTypeOK PROVE \A id \in Range(issued) : id \in Nat /\ id # 0
<1>. SUFFICES ASSUME NEW id \in Range(issued) PROVE id \in Nat /\ id # 0
  OBVIOUS
<1>1. id \in Numbers
  BY DEF CallsTypeOK, Range
<1>. QED
  BY <1>1, BoundAssumption DEF Numbers

\* What send_capabilities sends is named.
LEMMA SendCapabilitiesNamed ==
  ASSUME NumbersFit, CallsTypeOK, Named, NEW id \in Range(issued), SendCapabilities(id)
  PROVE  /\ toClient' \in Seq(Packets)
         /\ \A k \in DOMAIN toClient' : NamedAnswer(Range(issued), toClient'[k])
<1>1. CASE ServerSends(Message("ResponseCapabilities", id))
  BY <1>1, AnswersNamed, ServerSendsNamed, GivenArePositive
<1>2. CASE ServerSends(Result(id))
  BY <1>2, AnswersNamed, ServerSendsNamed
<1>. QED
  BY <1>1, <1>2 DEF SendCapabilities

LEMMA NamedStep ==
  NumbersFit /\ CallsTypeOK /\ Named /\ [Next]_vars => CallsTypeOK' /\ Named'
<1>. SUFFICES ASSUME NumbersFit, CallsTypeOK, Named, [Next]_vars
              PROVE  CallsTypeOK' /\ Named'
  OBVIOUS
<1>1. ASSUME NEW c \in Callers, LoadCounter(c) PROVE CallsTypeOK' /\ Named'
  <2>1. /\ Len(issued) < MaxCalls
        /\ call' = [call EXCEPT ![c] = [at |-> "store", id |-> methodCounter]]
        /\ UNCHANGED <<methodCounter, issued, toServer, toClient, server, late, got, pushes>>
    BY <1>1 DEF LoadCounter, session, marks
  <2>2. methodCounter \in Numbers /\ methodCounter \in Nat /\ methodCounter <= Len(issued) + 1
    BY <2>1, BoundAssumption DEF CallsTypeOK, Numbers
  <2>3. CallsTypeOK'
    BY <2>1, <2>2 DEF CallsTypeOK
  <2>. QED
    BY <2>1, <2>3 DEF CallsTypeOK, Named
<1>2. ASSUME NEW c \in Callers, StoreCounter(c) PROVE CallsTypeOK' /\ Named'
  <2>. DEFINE id == call[c].id
  <2>1. /\ id \in Numbers /\ id <= Len(issued) + 1
    BY <1>2 DEF StoreCounter, CallsTypeOK
  <2>2. /\ methodCounter' = id + 1
        /\ call' = [call EXCEPT ![c] = [at |-> "send", id |-> id]]
        /\ issued' = Append(issued, id)
        /\ UNCHANGED <<toServer, toClient, server, late, got, pushes>>
    BY <1>2, <2>1, NumbersKept DEF StoreCounter, session, marks
  <2>3. /\ issued' \in Seq(Numbers) /\ Len(issued') = Len(issued) + 1
        /\ Len(issued) \in Nat
        /\ Range(issued') = Range(issued) \union {id}
    BY <2>1, <2>2, OneMore DEF CallsTypeOK
  <2>4. CallsTypeOK'
    BY <2>1, <2>2, <2>3 DEF CallsTypeOK, Numbers
  <2>5. Named'
    BY <2>2, <2>3 DEF CallsTypeOK, Named, NamedAnswer
  <2>. QED
    BY <2>4, <2>5
<1>3. ASSUME NEW c \in Callers, SendRequest(c) PROVE CallsTypeOK' /\ Named'
  <2>1. PICK type \in {"RequestCapabilites", "SensorsConfigurationControl"} :
          /\ Returned(c, type)
          /\ toServer' \in {toServer, Append(toServer, Message(type, call[c].id))}
    BY <1>3 DEF SendRequest
  <2>2. /\ call[c].at = "send" /\ call[c].id \in Range(issued) /\ call[c].id \in Nat
        /\ UNCHANGED <<methodCounter, issued, toClient, server, late, got, pushes>>
    BY <1>3, GivenArePositive DEF SendRequest, session, marks, Named
  <2>3. PICK step \in {"record", "idle"} : call' = [call EXCEPT ![c].at = step]
    BY <2>1 DEF Returned
  <2>4. Message(type, call[c].id) \in Packets
    BY <2>2 DEF Message, Packets, MethodCode
  <2>5. /\ toServer' \in Seq(Packets)
        /\ \A k \in DOMAIN toServer' : toServer'[k].id \in Range(issued)
    <3>1. CASE toServer' = toServer
      BY <3>1 DEF CallsTypeOK, Named
    <3>2. CASE toServer' = Append(toServer, Message(type, call[c].id))
      BY <2>2, <2>4, <3>2, OneMore DEF CallsTypeOK, Named, Message
    <3>. QED
      BY <2>1, <3>1, <3>2
  <2>6. CallsTypeOK'
    BY <2>2, <2>3, <2>5 DEF CallsTypeOK
  <2>. QED
    BY <2>2, <2>3, <2>5, <2>6 DEF CallsTypeOK, Named
<1>4. ASSUME NEW c \in Callers, RecordCall(c) PROVE CallsTypeOK' /\ Named'
  <2>1. /\ call' = [call EXCEPT ![c].at = "idle"]
        /\ UNCHANGED <<methodCounter, issued, toServer, toClient, server, late, got, pushes>>
    BY <1>4 DEF RecordCall, session, marks
  <2>2. CallsTypeOK'
    BY <2>1 DEF CallsTypeOK
  <2>. QED
    BY <2>1, <2>2 DEF CallsTypeOK, Named
<1>5. ASSUME ClientDispatch PROVE CallsTypeOK' /\ Named'
  <2>1. /\ toClient # <<>> /\ toClient' = Tail(toClient)
        /\ got' \in {got, Append(got, Head(toClient))}
        /\ UNCHANGED <<methodCounter, call, issued, toServer, server, late, pushes>>
    BY <1>5 DEF ClientDispatch, session, marks
  <2>2. /\ toClient' \in Seq(Packets) /\ Head(toClient) \in Packets
        /\ NamedAnswer(Range(issued), Head(toClient))
        /\ \A k \in DOMAIN toClient' : NamedAnswer(Range(issued), toClient'[k])
    BY <2>1, OneLess DEF CallsTypeOK, Named
  <2>3. got' \in Seq(Packets) /\ \A k \in DOMAIN got' : NamedAnswer(Range(issued), got'[k])
    <3>1. CASE got' = got
      BY <3>1 DEF CallsTypeOK, Named
    <3>2. CASE got' = Append(got, Head(toClient))
      BY <2>2, <3>2, OneMore DEF CallsTypeOK, Named
    <3>. QED
      BY <2>1, <3>1, <3>2
  <2>. QED
    BY <2>1, <2>2, <2>3 DEF CallsTypeOK, Named
<1>6. ASSUME ServerDispatch PROVE CallsTypeOK' /\ Named'
  <2>1. /\ toServer # <<>> /\ toServer' = Tail(toServer)
        /\ server' \in {server, [at |-> "callback", id |-> Head(toServer).id]}
        /\ UNCHANGED <<methodCounter, call, issued, toClient, late, got, pushes>>
    BY <1>6 DEF ServerDispatch, client, session, marks
  <2>2. /\ toServer' \in Seq(Packets) /\ Head(toServer).id \in Nat
        /\ Head(toServer).id \in Range(issued)
        /\ \A k \in DOMAIN toServer' : toServer'[k].id \in Range(issued)
    <3>1. toServer \in Seq(Packets)
      BY DEF CallsTypeOK
    <3>2. Head(toServer) \in Packets /\ toServer' \in Seq(Packets)
      BY <2>1, <3>1, OneLess
    <3>3. /\ Head(toServer).id \in Range(issued)
          /\ \A k \in DOMAIN toServer' : toServer'[k].id \in Range(issued)
      BY <2>1, <3>1, OneLess DEF Named
    <3>. QED
      BY <3>2, <3>3 DEF Packets
  <2>3. CallsTypeOK'
    BY <2>1, <2>2 DEF CallsTypeOK
  <2>4. Named'
    BY <2>1, <2>2 DEF Named
  <2>. QED
    BY <2>3, <2>4
<1>7. ASSUME \/ CallbackReplies \/ SendMethodCallResult \/ ReplyLate \/ RuntimeError
             \/ SendActivatedSensorState
      PROVE  CallsTypeOK' /\ Named'
  <2>1. /\ UNCHANGED <<methodCounter, call, issued, toServer, got>>
        /\ server' \in {server, [server EXCEPT !.at = "result"], [server EXCEPT !.at = "idle"]}
        /\ server'.at # "idle" => server.at # "idle"
        /\ late' \subseteq late
        /\ pushes' \in {pushes, pushes + 1}
    BY <1>7 DEF CallbackReplies, SendMethodCallResult, ReplyLate, RuntimeError,
                SendActivatedSensorState, client, session, marks, CallsTypeOK
  <2>2. /\ toClient' \in Seq(Packets)
        /\ \A k \in DOMAIN toClient' : NamedAnswer(Range(issued), toClient'[k])
    <3>1. CASE CallbackReplies
      BY <3>1, SendCapabilitiesNamed DEF CallbackReplies, Named
    <3>2. CASE SendMethodCallResult
      BY <3>2, AnswersNamed, ServerSendsNamed DEF SendMethodCallResult, Named
    <3>3. CASE ReplyLate
      BY <3>3, SendCapabilitiesNamed DEF ReplyLate, Named
    <3>4. CASE RuntimeError
      BY <3>4, AnswersNamed, ServerSendsNamed DEF RuntimeError
    <3>5. CASE SendActivatedSensorState
      <4>1. /\ Message("SensorActivated", 0) \in Packets
            /\ NamedAnswer(Range(issued), Message("SensorActivated", 0))
        BY DEF Message, Packets, MethodCode, NamedAnswer
      <4>. QED
        BY <3>5, <4>1, AnswersNamed, ServerSendsNamed DEF SendActivatedSensorState
    <3>. QED
      BY <1>7, <3>1, <3>2, <3>3, <3>4, <3>5
  <2>3. CallsTypeOK'
    BY <2>1, <2>2 DEF CallsTypeOK
  <2>4. Named'
    BY <2>1, <2>2 DEF CallsTypeOK, Named
  <2>. QED
    BY <2>3, <2>4
<1>8. ASSUME CallbackReturns PROVE CallsTypeOK' /\ Named'
  <2>1. /\ server.at = "callback" /\ server' = [server EXCEPT !.at = "result"]
        /\ late' \in {late, late \union {server.id}}
        /\ UNCHANGED <<methodCounter, call, issued, toServer, toClient, got, pushes>>
    BY <1>8 DEF CallbackReturns, client, session, marks
  <2>. QED
    BY <2>1 DEF CallsTypeOK, Named
<1>9. ASSUME Break PROVE CallsTypeOK' /\ Named'
  BY <1>9 DEF Break, marks, CallsTypeOK, Named
<1>10. CASE SideDrops \/ Reconnect \/ Quiet \/ UNCHANGED vars
  BY <1>10 DEF SideDrops, Reconnect, Quiet, vars, client, marks, CallsTypeOK, Named
<1>. QED
  BY <1>1, <1>2, <1>3, <1>4, <1>5, <1>6, <1>7, <1>8, <1>9, <1>10 DEF Next, ServerRuns

-----------------------------------------------------------------------------
(* Counting in a sequence.                                                     *)

LEMMA CountIsNat ==
  ASSUME NEW S, NEW seq \in Seq(S), NEW M
  PROVE  IsFiniteSet(Places(seq, M)) /\ Count(seq, M) \in Nat
<1>1. Places(seq, M) \in SUBSET (1 .. Len(seq)) /\ Len(seq) \in Int
  BY DEF Places
<1>2. IsFiniteSet(1 .. Len(seq))
  BY <1>1, FS_Interval
<1>3. IsFiniteSet(Places(seq, M))
  BY <1>1, <1>2, FS_Subset
<1>. QED
  BY <1>3, FS_CardinalityType DEF Count

LEMMA CountAppended ==
  ASSUME NEW S, NEW seq \in Seq(S), NEW m \in S, NEW M
  PROVE  Count(Append(seq, m), M) = Count(seq, M) + Flag(m \in M)
<1>1. /\ DOMAIN Append(seq, m) = (DOMAIN seq) \union {Len(seq) + 1}
      /\ Len(seq) + 1 \notin DOMAIN seq
      /\ \A k \in DOMAIN seq : Append(seq, m)[k] = seq[k]
      /\ Append(seq, m)[Len(seq) + 1] = m
  BY OneMore
<1>2. Len(seq) + 1 \notin Places(seq, M)
  BY <1>1 DEF Places
<1>3. CASE m \in M
  <2>1. Places(Append(seq, m), M) = Places(seq, M) \union {Len(seq) + 1}
    BY <1>1, <1>3 DEF Places
  <2>. QED
    BY <1>2, <1>3, <2>1, CountIsNat, FS_AddElement DEF Count, Flag
<1>4. CASE m \notin M
  <2>1. Places(Append(seq, m), M) = Places(seq, M)
    BY <1>1, <1>4 DEF Places
  <2>. QED
    BY <1>4, <2>1, CountIsNat DEF Count, Flag
<1>. QED
  BY <1>3, <1>4

LEMMA CountTaken ==
  ASSUME NEW S, NEW seq \in Seq(S), seq # <<>>, NEW M
  PROVE  Count(Tail(seq), M) + Flag(Head(seq) \in M) <= Count(seq, M)
<1>. DEFINE rest == Places(seq, M) \ {1}
            f == [k \in Places(Tail(seq), M) |-> k + 1]
<1>1. /\ Tail(seq) \in Seq(S) /\ Head(seq) = seq[1] /\ 1 \in DOMAIN seq
      /\ \A k \in DOMAIN Tail(seq) : /\ k + 1 \in DOMAIN seq /\ Tail(seq)[k] = seq[k + 1]
                                    /\ k \in Nat /\ k >= 1
  BY OneLess
<1>2. \A k \in Places(Tail(seq), M) : k \in Nat /\ k + 1 \in rest
  BY <1>1 DEF Places
<1>3. f \in Injection(Places(Tail(seq), M), rest)
  <2>1. f \in [Places(Tail(seq), M) -> rest]
    BY <1>2
  <2>2. \A j, k \in Places(Tail(seq), M) : f[j] = f[k] => j = k
    BY <1>2
  <2>. QED
    BY <2>1, <2>2 DEF Injection, IsInjective
<1>4. /\ IsFiniteSet(Places(seq, M)) /\ Cardinality(Places(seq, M)) \in Nat
      /\ Cardinality(Places(Tail(seq), M)) \in Nat
  BY <1>1, CountIsNat DEF Count
<1>5. /\ IsFiniteSet(rest)
      /\ Cardinality(rest) = IF 1 \in Places(seq, M) THEN Cardinality(Places(seq, M)) - 1
                             ELSE Cardinality(Places(seq, M))
  BY <1>4, FS_RemoveElement
<1>6. Cardinality(Places(Tail(seq), M)) <= Cardinality(rest)
  BY <1>3, <1>5, FS_Injection
<1>7. 1 \in Places(seq, M) <=> Head(seq) \in M
  BY <1>1 DEF Places
<1>. QED
  BY <1>4, <1>5, <1>6, <1>7 DEF Count, Flag

LEMMA CountEmpty == ASSUME NEW M PROVE Count(<<>>, M) = 0
<1>1. Places(<<>>, M) = {}
  BY DEF Places
<1>. QED
  BY <1>1, FS_EmptySet DEF Count

-----------------------------------------------------------------------------
(* Errors are counted.                                                         *)

RuntimeErrorMessage == Message("ServerRuntimeNotification", 0)

LEMMA ErrorsAreCounted ==
  ASSUME NEW seq
  PROVE  Cardinality(RuntimeErrors(seq)) = Count(seq, {RuntimeErrorMessage})
BY DEF RuntimeErrors, Count, Places, RuntimeErrorMessage

LEMMA ErrorsFinite ==
  ASSUME NEW seq \in Seq(Packets) PROVE Cardinality(RuntimeErrors(seq)) \in Nat
BY ErrorsAreCounted, CountIsNat

LEMMA ErrorsAppended ==
  ASSUME NEW seq \in Seq(Packets), NEW m \in Packets
  PROVE  Cardinality(RuntimeErrors(Append(seq, m)))
           = Cardinality(RuntimeErrors(seq)) + (IF m = RuntimeErrorMessage THEN 1 ELSE 0)
<1>1. Count(Append(seq, m), {RuntimeErrorMessage})
        = Count(seq, {RuntimeErrorMessage}) + Flag(m \in {RuntimeErrorMessage})
  BY CountAppended
<1>. QED
  BY <1>1, ErrorsAreCounted DEF Flag

LEMMA ErrorsTaken ==
  ASSUME NEW seq \in Seq(Packets), seq # <<>>
  PROVE  Cardinality(RuntimeErrors(Tail(seq)))
             + (IF Head(seq) = RuntimeErrorMessage THEN 1 ELSE 0)
           <= Cardinality(RuntimeErrors(seq))
<1>1. Count(Tail(seq), {RuntimeErrorMessage}) + Flag(Head(seq) \in {RuntimeErrorMessage})
        <= Count(seq, {RuntimeErrorMessage})
  BY CountTaken
<1>2. /\ Cardinality(RuntimeErrors(Tail(seq))) = Count(Tail(seq), {RuntimeErrorMessage})
      /\ Cardinality(RuntimeErrors(seq)) = Count(seq, {RuntimeErrorMessage})
  BY ErrorsAreCounted
<1>3. Flag(Head(seq) \in {RuntimeErrorMessage})
        = IF Head(seq) = RuntimeErrorMessage THEN 1 ELSE 0
  BY DEF Flag
<1>. QED
  BY <1>1, <1>2, <1>3

\* An answer is no runtime error.
LEMMA ErrorsSent ==
  ASSUME CallsTypeOK, NEW m \in Packets, ServerSends(m)
  PROVE  /\ m # RuntimeErrorMessage =>
              Cardinality(RuntimeErrors(toClient')) = Cardinality(RuntimeErrors(toClient))
         /\ Cardinality(RuntimeErrors(toClient')) <= Cardinality(RuntimeErrors(toClient)) + 1
<1>1. toClient \in Seq(Packets) /\ Cardinality(RuntimeErrors(toClient)) \in Nat
  BY ErrorsFinite DEF CallsTypeOK
<1>2. CASE toClient' = toClient
  BY <1>1, <1>2
<1>3. CASE toClient' = Append(toClient, m)
  BY <1>1, <1>3, ErrorsAppended
<1>. QED
  BY <1>2, <1>3 DEF ServerSends

LEMMA AnswersAreNoErrors ==
  ASSUME NumbersFit, CallsTypeOK, NEW id \in Range(issued)
  PROVE  /\ Result(id) \in Packets /\ Message("ResponseCapabilities", id) \in Packets
         /\ Result(id) # RuntimeErrorMessage
         /\ Message("ResponseCapabilities", id) # RuntimeErrorMessage
<1>1. id # 0
  BY GivenArePositive
<1>. QED
  BY <1>1, AnswersNamed DEF Message, RuntimeErrorMessage

LEMMA ErrorsStep ==
  NumbersFit /\ CallsTypeOK /\ Named /\ ErrorsCounted /\ [Next]_vars => ErrorsCounted'
<1>. SUFFICES ASSUME NumbersFit, CallsTypeOK, Named, ErrorsCounted, [Next]_vars
              PROVE  ErrorsCounted'
  OBVIOUS
<1>. /\ toClient \in Seq(Packets) /\ got \in Seq(Packets) /\ pushes \in Nat
     /\ Cardinality(RuntimeErrors(toClient)) \in Nat /\ Cardinality(RuntimeErrors(got)) \in Nat
  BY ErrorsFinite DEF CallsTypeOK
<1>1. ASSUME ClientDispatch PROVE ErrorsCounted'
  <2>1. /\ toClient # <<>> /\ toClient' = Tail(toClient)
        /\ got' \in {got, Append(got, Head(toClient))} /\ pushes' = pushes
    BY <1>1 DEF ClientDispatch
  <2>2. Tail(toClient) \in Seq(Packets) /\ Head(toClient) \in Packets
    BY <2>1, OneLess
  <2>3. Cardinality(RuntimeErrors(Tail(toClient))) \in Nat
    BY <2>2, ErrorsFinite
  <2>4. CASE got' = got
    BY <2>1, <2>3, <2>4, ErrorsTaken DEF ErrorsCounted
  <2>5. CASE got' = Append(got, Head(toClient))
    BY <2>1, <2>2, <2>3, <2>5, ErrorsTaken, ErrorsAppended DEF ErrorsCounted
  <2>. QED
    BY <2>1, <2>4, <2>5
<1>2. ASSUME CallbackReplies \/ SendMethodCallResult \/ ReplyLate PROVE ErrorsCounted'
  <2>1. UNCHANGED <<got, pushes>>
    BY <1>2 DEF CallbackReplies, SendMethodCallResult, ReplyLate
  <2>2. PICK id \in Range(issued) :
          ServerSends(Result(id)) \/ ServerSends(Message("ResponseCapabilities", id))
    BY <1>2 DEF CallbackReplies, SendMethodCallResult, ReplyLate, SendCapabilities, Named
  <2>3. Cardinality(RuntimeErrors(toClient')) = Cardinality(RuntimeErrors(toClient))
    BY <2>2, AnswersAreNoErrors, ErrorsSent
  <2>. QED
    BY <2>1, <2>3 DEF ErrorsCounted
<1>3. ASSUME RuntimeError \/ SendActivatedSensorState PROVE ErrorsCounted'
  <2>1. got' = got /\ pushes' = pushes + 1
    BY <1>3 DEF RuntimeError, SendActivatedSensorState
  <2>2. PICK m \in {Result(0), Message("SensorActivated", 0)} : ServerSends(m)
    BY <1>3 DEF RuntimeError, SendActivatedSensorState
  <2>3. m \in Packets
    <3>1. Message("SensorActivated", 0) \in Packets
      BY DEF Message, Packets, MethodCode
    <3>. QED
      BY <2>2, <3>1, AnswersNamed
  <2>4. Cardinality(RuntimeErrors(toClient')) <= Cardinality(RuntimeErrors(toClient)) + 1
    BY <2>2, <2>3, ErrorsSent
  <2>5. Cardinality(RuntimeErrors(toClient')) \in Nat
    <3>1. toClient' \in Seq(Packets)
      BY NamedStep DEF CallsTypeOK
    <3>. QED
      BY <3>1, ErrorsFinite
  <2>. QED
    BY <2>1, <2>4, <2>5 DEF ErrorsCounted
<1>4. ASSUME Break PROVE ErrorsCounted'
  <2>1. got' = got /\ pushes' = pushes /\ RuntimeErrors(toClient') = {}
    BY <1>4 DEF Break, RuntimeErrors
  <2>. QED
    BY <2>1, FS_EmptySet DEF ErrorsCounted
<1>5. ASSUME \/ \E c \in Callers :
                  LoadCounter(c) \/ StoreCounter(c) \/ SendRequest(c) \/ RecordCall(c)
             \/ ServerDispatch \/ CallbackReturns \/ SideDrops \/ Reconnect \/ Quiet
             \/ UNCHANGED vars
      PROVE  UNCHANGED <<got, toClient, pushes>>
  BY <1>5 DEF LoadCounter, StoreCounter, SendRequest, RecordCall, ServerDispatch,
              CallbackReturns, SideDrops, Reconnect, Quiet, vars
<1>. QED
  BY <1>1, <1>2, <1>3, <1>4, <1>5 DEF Next, ServerRuns, ErrorsCounted

-----------------------------------------------------------------------------
(* A number that was given once has one request.                               *)

\* A number that was given once by now was given once before, unless it is new.
LEMMA OnceBefore ==
  ASSUME CallsTypeOK, NEW n \in Numbers, issued' = Append(issued, n),
         NEW id \in Range(issued'), Once(id)'
  PROVE  \/ id = n /\ id \notin Range(issued)
         \/ id # n /\ id \in Range(issued) /\ Once(id)
<1>1. /\ Range(issued') = Range(issued) \union {n}
      /\ DOMAIN issued' = (DOMAIN issued) \union {Len(issued) + 1}
      /\ Len(issued) + 1 \notin DOMAIN issued
      /\ \A k \in DOMAIN issued : issued'[k] = issued[k]
      /\ issued'[Len(issued) + 1] = n
  BY OneMore DEF CallsTypeOK
<1>2. CASE id = n
  <2>1. \A k \in DOMAIN issued : issued[k] # n
    BY <1>1, <1>2 DEF Once
  <2>. QED
    BY <1>2, <2>1 DEF Range
<1>3. CASE id # n
  BY <1>1, <1>3 DEF Once
<1>. QED
  BY <1>2, <1>3

\* Nothing is on its way with a number that was not given.
LEMMA NewIsUnused ==
  ASSUME CallsTypeOK, Named, NEW n \in Numbers, n \notin Range(issued)
  PROVE  /\ \A c \in Callers : ~Sends(c, n)
         /\ ~Requested(n)
         /\ ~(server.at # "idle" /\ server.id = n)
         /\ NoResultOf(toClient, n) /\ NoResultOf(got, n)
<1>1. n # 0
  BY BoundAssumption DEF Numbers
<1>. QED
  BY <1>1 DEF Named, Sends, Requested, NoResultOf, IsResult, NamedAnswer

\* The call whose counter is stored is at its request next.
LEMMA StoreEffect ==
  ASSUME NumbersFit, CallsTypeOK, NEW c \in Callers, StoreCounter(c)
  PROVE  LET n == call[c].id IN
         /\ n \in Numbers /\ issued' = Append(issued, n)
         /\ UNCHANGED <<toServer, toClient, server, got, delayed>>
         /\ \A d \in Callers : \A id : Sends(d, id)' <=> IF d = c THEN id = n ELSE Sends(d, id)
         /\ \A id : ~Sends(c, id)
<1>1. call[c].id \in Numbers /\ call[c].at = "store"
  BY DEF StoreCounter, CallsTypeOK
<1>2. /\ issued' = Append(issued, call[c].id)
      /\ call' = [call EXCEPT ![c] = [at |-> "send", id |-> call[c].id]]
      /\ UNCHANGED <<toServer, toClient, server, got, delayed>>
  BY <1>1, NumbersKept DEF StoreCounter, marks
<1>3. ASSUME NEW d \in Callers, NEW id
      PROVE  Sends(d, id)' <=> IF d = c THEN id = call[c].id ELSE Sends(d, id)
  BY <1>2 DEF Sends, CallsTypeOK
<1>. QED
  BY <1>1, <1>2, <1>3 DEF Sends

\* The request takes the place of its call.
LEMMA RequestEffect ==
  ASSUME CallsTypeOK, Named, NEW c \in Callers, SendRequest(c)
  PROVE  LET n == call[c].id IN
         /\ UNCHANGED <<issued, toClient, server, got, delayed>>
         /\ Sends(c, n)
         /\ \A d \in Callers : \A id : Sends(d, id)' => d # c /\ Sends(d, id)
         /\ \/ toServer' = toServer
            \/ \E m \in Packets : m.id = n /\ toServer' = Append(toServer, m)
<1>1. PICK type \in {"RequestCapabilites", "SensorsConfigurationControl"} :
        /\ Returned(c, type)
        /\ toServer' \in {toServer, Append(toServer, Message(type, call[c].id))}
  BY DEF SendRequest
<1>2. /\ call[c].at = "send" /\ call[c].id \in Nat
      /\ UNCHANGED <<issued, toClient, server, got, delayed>>
  BY GivenArePositive DEF SendRequest, marks, Named
<1>3. PICK step \in {"record", "idle"} : call' = [call EXCEPT ![c].at = step]
  BY <1>1 DEF Returned
<1>4. \A d \in Callers : \A id : Sends(d, id)' => d # c /\ Sends(d, id)
  BY <1>3 DEF Sends, CallsTypeOK
<1>5. Message(type, call[c].id) \in Packets /\ Message(type, call[c].id).id = call[c].id
  BY <1>2 DEF Message, Packets, MethodCode
<1>. QED
  BY <1>1, <1>2, <1>4, <1>5 DEF Sends

\* No other step of the client's user begins to send.
LEMMA OthersDoNotSend ==
  ASSUME CallsTypeOK,
         \/ \E c \in Callers : LoadCounter(c) \/ RecordCall(c)
         \/ call' = call
  PROVE  \A d \in Callers : \A id : Sends(d, id)' => Sends(d, id)
<1>1. ASSUME NEW c \in Callers, LoadCounter(c) \/ RecordCall(c), NEW d \in Callers, NEW id
      PROVE  Sends(d, id)' => Sends(d, id)
  <2>1. \/ call' = [call EXCEPT ![c] = [at |-> "store", id |-> methodCounter]]
        \/ call' = [call EXCEPT ![c].at = "idle"]
    BY <1>1 DEF LoadCounter, RecordCall
  <2>2. d = c => call'[d].at \in {"store", "idle"}
    BY <2>1 DEF CallsTypeOK
  <2>3. d # c => call'[d] = call[d]
    BY <2>1 DEF CallsTypeOK
  <2>. QED
    BY <2>2, <2>3 DEF Sends
<1>. QED
  BY <1>1 DEF Sends

\* The request that is taken is the first.
LEMMA DispatchEffect ==
  ASSUME CallsTypeOK, ServerDispatch
  PROVE  LET n == Head(toServer).id IN
         /\ toServer # <<>> /\ toServer \in Seq(Packets)
         /\ server.at = "idle"
         /\ server' \in {server, [at |-> "callback", id |-> n]}
         /\ toServer' = Tail(toServer)
         /\ Requested(n) /\ toServer[1].id = n /\ 1 \in DOMAIN toServer
         /\ \A k \in DOMAIN toServer' : /\ k + 1 \in DOMAIN toServer /\ k + 1 # 1
                                        /\ toServer'[k] = toServer[k + 1]
         /\ UNCHANGED <<call, issued, toClient, got, delayed>>
<1>1. /\ toServer # <<>> /\ toServer \in Seq(Packets)
      /\ server.at = "idle"
      /\ server' \in {server, [at |-> "callback", id |-> Head(toServer).id]}
      /\ toServer' = Tail(toServer)
      /\ UNCHANGED <<call, issued, toClient, got, delayed>>
  BY DEF ServerDispatch, client, marks, CallsTypeOK
<1>2. /\ Head(toServer) = toServer[1] /\ 1 \in DOMAIN toServer
      /\ \A k \in DOMAIN toServer' : /\ k + 1 \in DOMAIN toServer
                                     /\ toServer'[k] = toServer[k + 1] /\ k \in Nat /\ k >= 1
  BY <1>1, OneLess
<1>3. \A k \in DOMAIN toServer' : k + 1 # 1
  BY <1>2
<1>4. Requested(Head(toServer).id)
  BY <1>2 DEF Requested
<1>. QED
  BY <1>1, <1>2, <1>3, <1>4

LEMMA OneRequestStep ==
  NumbersFit /\ CallsTypeOK /\ Named /\ OneRequest /\ [Next]_vars => OneRequest'
<1>. SUFFICES ASSUME NumbersFit, CallsTypeOK, Named, OneRequest, [Next]_vars,
                     NEW id \in Range(issued)', Once(id)'
              PROVE  OneRequestFor(id)'
  BY DEF OneRequest
<1>1. ASSUME NEW c \in Callers, StoreCounter(c) PROVE OneRequestFor(id)'
  <2>. DEFINE n == call[c].id
  <2>1. /\ n \in Numbers /\ issued' = Append(issued, n)
        /\ UNCHANGED <<toServer, server>>
        /\ \A d \in Callers : Sends(d, id)' <=> IF d = c THEN id = n ELSE Sends(d, id)
        /\ ~Sends(c, id)
    BY <1>1, StoreEffect
  <2>2. CASE id = n /\ id \notin Range(issued)
    <3>1. /\ \A d \in Callers : ~Sends(d, id)
          /\ ~Requested(id)
          /\ ~(server.at # "idle" /\ server.id = id)
      BY <2>1, <2>2, NewIsUnused
    <3>. QED
      BY <2>1, <3>1 DEF OneRequestFor, Requested
  <2>3. CASE id # n /\ id \in Range(issued) /\ Once(id)
    BY <2>1, <2>3 DEF OneRequest, OneRequestFor, Requested
  <2>. QED
    BY <2>1, <2>2, <2>3, OnceBefore
<1>2. CASE issued' = issued
  <2>. id \in Range(issued) /\ Once(id) /\ OneRequestFor(id)
    BY <1>2 DEF Once, OneRequest
  <2>1. ASSUME NEW c \in Callers, SendRequest(c) PROVE OneRequestFor(id)'
    <3>. DEFINE n == call[c].id
    <3>1. /\ server' = server /\ Sends(c, n)
          /\ \A d \in Callers : Sends(d, id)' => d # c /\ Sends(d, id)
          /\ \/ toServer' = toServer
             \/ \E m \in Packets : m.id = n /\ toServer' = Append(toServer, m)
      BY <2>1, RequestEffect
    <3>2. CASE toServer' = toServer
      BY <3>1, <3>2 DEF OneRequestFor, Requested
    <3>3. CASE toServer' # toServer
      <4>1. PICK m \in Packets : m.id = n /\ toServer' = Append(toServer, m)
        BY <3>1, <3>3
      <4>2. /\ DOMAIN toServer' = (DOMAIN toServer) \union {Len(toServer) + 1}
            /\ \A k \in DOMAIN toServer : toServer'[k] = toServer[k]
            /\ toServer'[Len(toServer) + 1].id = n
        BY <4>1, OneMore DEF CallsTypeOK, Message
      <4>3. CASE id = n
        <5>1. /\ ~Requested(id) /\ ~(server.at # "idle" /\ server.id = id)
              /\ \A d \in Callers : Sends(d, id) => d = c
          BY <3>1, <4>3 DEF OneRequestFor
        <5>2. \A d \in Callers : ~Sends(d, id)'
          BY <3>1, <5>1
        <5>. QED
          BY <3>1, <4>2, <5>1, <5>2 DEF OneRequestFor, Requested
      <4>4. CASE id # n
        <5>1. Requested(id)' => Requested(id)
          BY <4>2, <4>4 DEF Requested
        <5>2. \A k \in DOMAIN toServer' : toServer'[k].id = id
                => k \in DOMAIN toServer /\ toServer[k].id = id
          BY <4>2, <4>4
        <5>. QED
          BY <3>1, <5>1, <5>2 DEF OneRequestFor
      <4>. QED
        BY <4>3, <4>4
    <3>. QED
      BY <3>2, <3>3
  <2>2. ASSUME ServerDispatch PROVE OneRequestFor(id)'
    <3>. DEFINE n == Head(toServer).id
    <3>1. /\ server' \in {server, [at |-> "callback", id |-> n]} /\ server.at = "idle"
          /\ toServer[1].id = n /\ 1 \in DOMAIN toServer
          /\ \A k \in DOMAIN toServer' : /\ k + 1 \in DOMAIN toServer /\ k + 1 # 1
                                         /\ toServer'[k] = toServer[k + 1]
          /\ toServer' \in Seq(Packets) /\ call' = call
      BY <2>2, DispatchEffect, OneLess
    <3>2. \A d \in Callers : Sends(d, id)' <=> Sends(d, id)
      BY <3>1 DEF Sends
    <3>3. Requested(id)' => Requested(id)
      BY <3>1 DEF Requested
    <3>4. \A j, k \in DOMAIN toServer' : toServer'[j].id = id /\ toServer'[k].id = id => j = k
      <4>1. \A j, k \in DOMAIN toServer' : toServer'[j].id = id /\ toServer'[k].id = id
              => j + 1 = k + 1
        BY <3>1 DEF OneRequestFor
      <4>2. \A k \in DOMAIN toServer' : k \in Int
        BY <3>1
      <4>. QED
        BY <4>1, <4>2
    <3>5. CASE id = n
      <4>1. Requested(id) /\ ~Requested(id)'
        BY <3>1, <3>5 DEF OneRequestFor, Requested
      <4>. QED
        BY <3>2, <3>4, <4>1 DEF OneRequestFor
    <3>6. CASE id # n
      BY <3>1, <3>2, <3>3, <3>4, <3>6 DEF OneRequestFor
    <3>. QED
      BY <3>5, <3>6
  <2>3. ASSUME Break PROVE OneRequestFor(id)'
    <3>1. toServer' = <<>> /\ UNCHANGED <<call, server>>
      BY <2>3 DEF Break
    <3>. QED
      BY <3>1 DEF OneRequestFor, Requested, Sends
  <2>4. ASSUME \/ \E c \in Callers : LoadCounter(c) \/ RecordCall(c)
               \/ ClientDispatch \/ CallbackReplies \/ CallbackReturns \/ SendMethodCallResult
               \/ ReplyLate \/ RuntimeError \/ SendActivatedSensorState
               \/ SideDrops \/ Reconnect \/ Quiet \/ UNCHANGED vars
        PROVE  OneRequestFor(id)'
    <3>1. /\ toServer' = toServer
          /\ (\E c \in Callers : LoadCounter(c) \/ RecordCall(c)) \/ call' = call
          /\ server'.at # "idle" => server.at # "idle" /\ server'.id = server.id
      BY <2>4 DEF LoadCounter, RecordCall, ClientDispatch, CallbackReplies, CallbackReturns,
                  SendMethodCallResult, ReplyLate, RuntimeError, SendActivatedSensorState,
                  SideDrops, Reconnect, Quiet, vars, client, CallsTypeOK
    <3>2. \A d \in Callers : Sends(d, id)' => Sends(d, id)
      BY <3>1, OthersDoNotSend
    <3>. QED
      BY <3>1, <3>2 DEF OneRequestFor, Requested
  <2>. QED
    BY <1>1, <2>1, <2>2, <2>3, <2>4 DEF Next, ServerRuns
<1>3. issued' = issued \/ \E c \in Callers : StoreCounter(c)
  BY DEF Next, ServerRuns, LoadCounter, SendRequest, RecordCall, ClientDispatch,
         ServerDispatch, CallbackReplies, CallbackReturns, SendMethodCallResult, ReplyLate,
         RuntimeError, SendActivatedSensorState, Break, SideDrops, Reconnect, Quiet, vars, client
<1>. QED
  BY <1>1, <1>2, <1>3

-----------------------------------------------------------------------------
(* Capabilities come before the result.                                        *)

\* A step that neither sends nor hands over, and asks for nothing new.
LEMMA QuietKeepsOrder ==
  ASSUME NEW id, OrderedFor(id), UNCHANGED <<toClient, got>>, AnswerDue(id)' => AnswerDue(id)
  PROVE  OrderedFor(id)'
BY DEF OrderedFor, NoResultOf, NoCapsOf, CapsFirst, IsResult, IsCaps

\* A message that is sent: capabilities while the answer is due, a result after that.
LEMMA SendingKeepsOrder ==
  ASSUME CallsTypeOK, NEW id, OrderedFor(id), NEW m \in Packets, ServerSends(m), got' = got,
         AnswerDue(id)' => AnswerDue(id),
         IsCaps(m, id) => AnswerDue(id),
         IsResult(m, id) => ~AnswerDue(id)'
  PROVE  OrderedFor(id)'
<1>1. CASE toClient' = toClient
  BY <1>1, QuietKeepsOrder
<1>2. CASE toClient' = Append(toClient, m)
  <2>1. /\ DOMAIN toClient' = (DOMAIN toClient) \union {Len(toClient) + 1}
        /\ DOMAIN toClient = 1 .. Len(toClient) /\ Len(toClient) \in Nat
        /\ \A k \in DOMAIN toClient : toClient'[k] = toClient[k]
        /\ toClient'[Len(toClient) + 1] = m
    BY <1>2, OneMore DEF CallsTypeOK
  <2>2. \A k \in DOMAIN toClient : k < Len(toClient) + 1
    BY <2>1
  <2>3. ~(IsCaps(m, id) /\ IsResult(m, id))
    BY DEF IsCaps, IsResult
  <2>4. /\ NoResultOf(toClient, id) /\ ~IsResult(m, id) => NoResultOf(toClient', id)
        /\ NoCapsOf(toClient, id) /\ ~IsCaps(m, id) => NoCapsOf(toClient', id)
    BY <2>1 DEF NoResultOf, NoCapsOf
  <2>5. CapsFirst(toClient', id)
    <3>1. CASE IsCaps(m, id)
      BY <2>3, <2>4, <3>1 DEF OrderedFor, NoResultOf, CapsFirst
    <3>2. CASE ~IsCaps(m, id)
      <4>. SUFFICES ASSUME NEW i \in DOMAIN toClient', NEW j \in DOMAIN toClient',
                           IsResult(toClient'[i], id), IsCaps(toClient'[j], id)
                    PROVE  j < i
        BY DEF CapsFirst
      <4>1. j \in DOMAIN toClient /\ IsCaps(toClient[j], id)
        BY <2>1, <3>2
      <4>. QED
        BY <2>1, <2>2, <4>1 DEF OrderedFor, CapsFirst
    <3>. QED
      BY <3>1, <3>2
  <2>6. AnswerDue(id)' => NoResultOf(toClient', id) /\ NoResultOf(got', id)
    BY <2>4 DEF OrderedFor
  <2>7. NoResultOf(got', id) \/ NoCapsOf(toClient', id)
    BY <2>4 DEF OrderedFor
  <2>8. CapsFirst(got', id)
    BY DEF OrderedFor
  <2>. QED
    BY <2>5, <2>6, <2>7, <2>8 DEF OrderedFor, NoResultOf, NoCapsOf, CapsFirst
<1>. QED
  BY <1>1, <1>2 DEF ServerSends

\* The first message is handed over.
LEMMA DispatchKeepsOrder ==
  ASSUME CallsTypeOK, ClientDispatch, NEW id, OrderedFor(id)
  PROVE  OrderedFor(id)'
<1>. DEFINE m == Head(toClient)
<1>1. /\ toClient # <<>> /\ toClient' = Tail(toClient) /\ toClient \in Seq(Packets)
      /\ got' \in {got, Append(got, m)} /\ UNCHANGED <<call, toServer, server>>
  BY DEF ClientDispatch, CallsTypeOK
<1>2. /\ m \in Packets /\ m = toClient[1] /\ 1 \in DOMAIN toClient
      /\ \A k \in DOMAIN toClient' : /\ k + 1 \in DOMAIN toClient /\ k \in Nat /\ k >= 1
                                     /\ toClient'[k] = toClient[k + 1]
  BY <1>1, OneLess
<1>3. AnswerDue(id)' => AnswerDue(id)
  BY <1>1 DEF AnswerDue, Sends, Requested
<1>4. /\ NoResultOf(toClient, id) => NoResultOf(toClient', id) /\ ~IsResult(m, id)
      /\ NoCapsOf(toClient, id) => NoCapsOf(toClient', id) /\ ~IsCaps(m, id)
  BY <1>2 DEF NoResultOf, NoCapsOf
<1>5. IsResult(m, id) => NoCapsOf(toClient', id)
  <2>. SUFFICES ASSUME IsResult(m, id), NEW k \in DOMAIN toClient', IsCaps(toClient'[k], id)
                PROVE  FALSE
    BY DEF NoCapsOf
  <2>1. k + 1 < 1
    BY <1>2 DEF OrderedFor, CapsFirst
  <2>. QED
    BY <1>2, <2>1
<1>6. CapsFirst(toClient', id)
  <2>. SUFFICES ASSUME NEW i \in DOMAIN toClient', NEW j \in DOMAIN toClient',
                       IsResult(toClient'[i], id), IsCaps(toClient'[j], id)
                PROVE  j < i
    BY DEF CapsFirst
  <2>1. j + 1 < i + 1
    BY <1>2 DEF OrderedFor, CapsFirst
  <2>. QED
    BY <1>2, <2>1
<1>7. CASE got' = got
  BY <1>3, <1>4, <1>6, <1>7 DEF OrderedFor, NoResultOf, NoCapsOf, CapsFirst
<1>8. CASE got' = Append(got, m)
  <2>1. /\ DOMAIN got' = (DOMAIN got) \union {Len(got) + 1}
        /\ DOMAIN got = 1 .. Len(got) /\ Len(got) \in Nat
        /\ \A k \in DOMAIN got : got'[k] = got[k]
        /\ got'[Len(got) + 1] = m
    BY <1>2, <1>8, OneMore DEF CallsTypeOK
  <2>2. \A k \in DOMAIN got : k < Len(got) + 1
    BY <2>1
  <2>3. NoResultOf(got, id) /\ ~IsResult(m, id) => NoResultOf(got', id)
    BY <2>1 DEF NoResultOf
  <2>4. IsCaps(m, id) => NoResultOf(got, id) /\ ~IsResult(m, id)
    BY <1>4 DEF OrderedFor, IsCaps, IsResult
  <2>5. CapsFirst(got', id)
    <3>1. CASE IsCaps(m, id)
      BY <2>3, <2>4, <3>1 DEF NoResultOf, CapsFirst
    <3>2. CASE ~IsCaps(m, id)
      <4>. SUFFICES ASSUME NEW i \in DOMAIN got', NEW j \in DOMAIN got',
                           IsResult(got'[i], id), IsCaps(got'[j], id)
                    PROVE  j < i
        BY DEF CapsFirst
      <4>1. j \in DOMAIN got /\ IsCaps(got[j], id)
        BY <2>1, <3>2
      <4>. QED
        BY <2>1, <2>2, <4>1 DEF OrderedFor, CapsFirst
    <3>. QED
      BY <3>1, <3>2
  <2>6. AnswerDue(id)' => NoResultOf(toClient', id) /\ NoResultOf(got', id)
    BY <1>3, <1>4, <2>3 DEF OrderedFor
  <2>7. NoResultOf(got', id) \/ NoCapsOf(toClient', id)
    BY <1>4, <1>5, <2>3 DEF OrderedFor
  <2>. QED
    BY <1>6, <2>5, <2>6, <2>7 DEF OrderedFor, NoResultOf, NoCapsOf, CapsFirst
<1>. QED
  BY <1>1, <1>7, <1>8

\* What the server sends in answer to a request; AnswersNamed says what it is.
LEMMA AnswerKeepsOrder ==
  ASSUME NumbersFit, CallsTypeOK, NEW n \in Range(issued), NEW id, OrderedFor(id), got' = got,
         AnswerDue(id)' => AnswerDue(id),
         \/ ServerSends(Result(n))
         \/ ServerSends(Message("ResponseCapabilities", n)) /\ (id = n => AnswerDue(id)),
         id = n => ~AnswerDue(id)'
  PROVE  OrderedFor(id)'
<1>1. /\ Result(n) \in Packets /\ ~IsCaps(Result(n), id) /\ (IsResult(Result(n), id) => id = n)
      /\ Message("ResponseCapabilities", n) \in Packets
      /\ ~IsResult(Message("ResponseCapabilities", n), id)
      /\ IsCaps(Message("ResponseCapabilities", n), id) => id = n
  BY AnswersNamed, GivenArePositive DEF Message, IsCaps, IsResult
<1>2. CASE ServerSends(Result(n))
  BY <1>1, <1>2, SendingKeepsOrder
<1>3. CASE ServerSends(Message("ResponseCapabilities", n)) /\ (id = n => AnswerDue(id))
  BY <1>1, <1>3, SendingKeepsOrder
<1>. QED
  BY <1>2, <1>3

LEMMA OrderedStep ==
  NumbersFit /\ CallsTypeOK /\ Named /\ OneRequest /\ Ordered /\ [Next]_vars => Ordered'
<1>. SUFFICES ASSUME NumbersFit, CallsTypeOK, Named, OneRequest, Ordered, [Next]_vars,
                     NEW id \in Range(issued)' \ delayed', Once(id)'
              PROVE  OrderedFor(id)'
  BY DEF Ordered
<1>1. ASSUME NEW c \in Callers, StoreCounter(c) PROVE OrderedFor(id)'
  <2>. DEFINE n == call[c].id
  <2>1. /\ n \in Numbers /\ issued' = Append(issued, n)
        /\ UNCHANGED <<toServer, toClient, server, got, delayed>>
        /\ \A d \in Callers : Sends(d, id)' <=> IF d = c THEN id = n ELSE Sends(d, id)
    BY <1>1, StoreEffect
  <2>2. CASE id = n /\ id \notin Range(issued)
    <3>1. NoResultOf(toClient, id) /\ NoResultOf(got, id)
      BY <2>1, <2>2, NewIsUnused
    <3>. QED
      BY <2>1, <3>1 DEF OrderedFor, NoResultOf, CapsFirst, IsResult
  <2>3. CASE id # n /\ id \in Range(issued) /\ Once(id)
    <3>1. OrderedFor(id)
      BY <2>1, <2>3 DEF Ordered
    <3>2. AnswerDue(id)' => AnswerDue(id)
      BY <2>1, <2>3 DEF AnswerDue, Requested
    <3>. QED
      BY <2>1, <3>1, <3>2, QuietKeepsOrder
  <2>. QED
    BY <2>1, <2>2, <2>3, OnceBefore
<1>2. CASE issued' = issued /\ delayed \subseteq delayed'
  <2>. /\ id \in Range(issued) /\ id \in Nat /\ id # 0
       /\ OneRequestFor(id) /\ OrderedFor(id)
    BY <1>2, GivenArePositive DEF Once, OneRequest, Ordered
  <2>1. ASSUME NEW c \in Callers, SendRequest(c) PROVE OrderedFor(id)'
    <3>. DEFINE n == call[c].id
    <3>1. /\ UNCHANGED <<toClient, server, got>> /\ Sends(c, n)
          /\ \A d \in Callers : Sends(d, id)' => Sends(d, id)
          /\ \/ toServer' = toServer
             \/ \E m \in Packets : m.id = n /\ toServer' = Append(toServer, m)
      BY <2>1, RequestEffect
    <3>2. Requested(id)' => Requested(id) \/ id = n
      <4>1. CASE toServer' = toServer
        BY <4>1 DEF Requested
      <4>2. CASE toServer' # toServer
        <5>1. PICK m \in Packets : m.id = n /\ toServer' = Append(toServer, m)
          BY <3>1, <4>2
        <5>. QED
          BY <5>1, OneMore DEF CallsTypeOK, Message, Requested
      <4>. QED
        BY <4>1, <4>2
    <3>3. AnswerDue(id)' => AnswerDue(id)
      BY <3>1, <3>2 DEF AnswerDue
    <3>. QED
      BY <3>1, <3>3, QuietKeepsOrder
  <2>2. ASSUME ServerDispatch PROVE OrderedFor(id)'
    <3>. DEFINE n == Head(toServer).id
    <3>1. /\ server' \in {server, [at |-> "callback", id |-> n]}
          /\ Requested(n)
          /\ \A k \in DOMAIN toServer' : /\ k + 1 \in DOMAIN toServer
                                         /\ toServer'[k] = toServer[k + 1]
          /\ UNCHANGED <<call, toClient, got>>
      BY <2>2, DispatchEffect
    <3>2. AnswerDue(id)' => AnswerDue(id)
      BY <3>1 DEF AnswerDue, Requested, Sends
    <3>. QED
      BY <3>1, <3>2, QuietKeepsOrder
  <2>3. ASSUME CallbackReplies PROVE OrderedFor(id)'
    <3>1. /\ server.at = "callback" /\ server.id \in Range(issued)
          /\ server' = [server EXCEPT !.at = "result"]
          /\ UNCHANGED <<call, toServer, got>>
          /\ \/ ServerSends(Message("ResponseCapabilities", server.id))
             \/ ServerSends(Result(server.id))
      BY <2>3 DEF CallbackReplies, client, SendCapabilities, Named
    <3>2. /\ server'.at = "result"
          /\ AnswerDue(id)' => AnswerDue(id)
          /\ id = server.id => AnswerDue(id)
      BY <3>1 DEF CallsTypeOK, AnswerDue, Sends, Requested
    <3>3. id = server.id => ~AnswerDue(id)'
      BY <3>1, <3>2 DEF OneRequestFor, AnswerDue, Sends, Requested
    <3>. QED
      BY <3>1, <3>2, <3>3, AnswerKeepsOrder
  <2>4. ASSUME SendMethodCallResult PROVE OrderedFor(id)'
    <3>1. /\ server.at = "result" /\ server.id \in Range(issued)
          /\ server' = [server EXCEPT !.at = "idle"]
          /\ UNCHANGED <<call, toServer, got>>
          /\ ServerSends(Result(server.id))
      BY <2>4 DEF SendMethodCallResult, client, Named
    <3>2. /\ server'.at = "idle"
          /\ AnswerDue(id)' => AnswerDue(id)
      BY <3>1 DEF CallsTypeOK, AnswerDue, Sends, Requested
    <3>3. id = server.id => ~AnswerDue(id)'
      BY <3>1, <3>2 DEF OneRequestFor, AnswerDue, Sends, Requested
    <3>. QED
      BY <3>1, <3>2, <3>3, AnswerKeepsOrder
  <2>5. ASSUME ReplyLate PROVE OrderedFor(id)'
    <3>1. PICK n \in late : /\ SendCapabilities(n) /\ delayed' = delayed \union {n}
                            /\ UNCHANGED <<call, toServer, server, got>>
      BY <2>5 DEF ReplyLate, client
    <3>2. n \in Range(issued) /\ id # n
      BY <3>1 DEF Named
    <3>3. AnswerDue(id)' => AnswerDue(id)
      BY <3>1 DEF AnswerDue, Sends, Requested
    <3>. QED
      BY <3>1, <3>2, <3>3, AnswerKeepsOrder DEF SendCapabilities
  <2>6. ASSUME RuntimeError \/ SendActivatedSensorState PROVE OrderedFor(id)'
    <3>1. UNCHANGED <<call, toServer, server, got>>
      BY <2>6 DEF RuntimeError, SendActivatedSensorState, client
    <3>2. PICK m \in {Result(0), Message("SensorActivated", 0)} : ServerSends(m)
      BY <2>6 DEF RuntimeError, SendActivatedSensorState
    <3>3. m \in Packets /\ ~IsResult(m, id) /\ ~IsCaps(m, id)
      <4>1. /\ Message("SensorActivated", 0) \in Packets
            /\ ~IsResult(Message("SensorActivated", 0), id)
            /\ ~IsCaps(Message("SensorActivated", 0), id)
        BY DEF Message, Packets, MethodCode, IsResult, IsCaps
      <4>2. Result(0) = Message("ServerRuntimeNotification", 0) /\ Result(0) \in Packets
        BY AnswersNamed
      <4>3. ~IsResult(Result(0), id) /\ ~IsCaps(Result(0), id)
        BY <4>2 DEF Message, IsResult, IsCaps
      <4>. QED
        BY <3>2, <4>1, <4>2, <4>3
    <3>4. AnswerDue(id)' => AnswerDue(id)
      BY <3>1 DEF AnswerDue, Sends, Requested
    <3>. QED
      BY <3>1, <3>2, <3>3, <3>4, SendingKeepsOrder
  <2>7. ASSUME Break PROVE OrderedFor(id)'
    <3>1. /\ toServer' = <<>> /\ toClient' = <<>> /\ UNCHANGED <<call, server, got>>
      BY <2>7 DEF Break
    <3>. QED
      BY <3>1 DEF OrderedFor, AnswerDue, Sends, Requested, NoResultOf, NoCapsOf, CapsFirst,
                  IsResult, IsCaps
  <2>8. ASSUME \/ \E c \in Callers : LoadCounter(c) \/ RecordCall(c)
               \/ CallbackReturns \/ SideDrops \/ Reconnect \/ Quiet \/ UNCHANGED vars
        PROVE  OrderedFor(id)'
    <3>1. /\ UNCHANGED <<toServer, toClient, got>>
          /\ (\E c \in Callers : LoadCounter(c) \/ RecordCall(c)) \/ call' = call
          /\ server'.at = "callback" => server' = server
      BY <2>8 DEF LoadCounter, RecordCall, CallbackReturns, SideDrops, Reconnect, Quiet, vars,
                  client, CallsTypeOK
    <3>2. \A d \in Callers : Sends(d, id)' => Sends(d, id)
      BY <3>1, OthersDoNotSend
    <3>3. AnswerDue(id)' => AnswerDue(id)
      BY <3>1, <3>2 DEF AnswerDue, Requested
    <3>. QED
      BY <3>1, <3>3, QuietKeepsOrder
  <2>. QED
    BY <1>1, <2>1, <2>2, <2>3, <2>4, <2>5, <2>6, <2>7, <2>8, DispatchKeepsOrder
       DEF Next, ServerRuns
<1>3. (issued' = issued /\ delayed \subseteq delayed') \/ \E c \in Callers : StoreCounter(c)
  BY DEF Next, ServerRuns, LoadCounter, SendRequest, RecordCall, ClientDispatch,
         ServerDispatch, CallbackReplies, CallbackReturns, SendMethodCallResult, ReplyLate,
         RuntimeError, SendActivatedSensorState, Break, SideDrops, Reconnect, Quiet, vars,
         client, marks
<1>. QED
  BY <1>1, <1>2, <1>3

-----------------------------------------------------------------------------
(* Requests, capabilities and results are counted.                             *)

LEMMA CallsAreCounted == ASSUME NEW id PROVE Calls(id) = Count(issued, {id})
BY DEF Calls, Count, Places

LEMMA WeightsAre ==
  ASSUME CallsTypeOK, NEW id, IsFiniteSet(Senders(id))
  PROVE  /\ Asking(id) \in Nat /\ Closing(id) \in {0, 1} /\ Kept(id) \in {0, 1}
         /\ Capabilities(id) \in Nat /\ Answers(id) \in Nat /\ Calls(id) \in Nat
         /\ Cardinality(Senders(id)) \in Nat /\ Count(toServer, Asks(id)) \in Nat
         /\ \A m : Sent(m) \in Nat
<1>1. \A M : Count(toServer, M) \in Nat /\ Count(toClient, M) \in Nat /\ Count(got, M) \in Nat
  BY CountIsNat DEF CallsTypeOK
<1>2. \A m : Sent(m) \in Nat
  BY <1>1 DEF Sent
<1>3. Cardinality(Senders(id)) \in Nat
  BY FS_CardinalityType
<1>4. Asking(id) \in Nat
  BY <1>1, <1>3 DEF Asking, Flag
<1>5. Calls(id) \in Nat
  BY CallsAreCounted, CountIsNat DEF CallsTypeOK
<1>6. Closing(id) \in {0, 1} /\ Kept(id) \in {0, 1}
  BY DEF Closing, Kept, Flag
<1>. QED
  BY <1>1, <1>2, <1>3, <1>4, <1>5, <1>6 DEF Capabilities, Answers

\* A step that makes no weight greater.
LEMMA LessKeepsCount ==
  ASSUME CallsTypeOK, NEW id, CountedFor(id), IsFiniteSet(Senders(id)'),
         Asking(id)' \in Nat, Asking(id)' <= Asking(id), Closing(id)' <= Closing(id),
         Kept(id)' <= Kept(id), Capabilities(id)' \in Nat, Answers(id)' \in Nat,
         Capabilities(id)' <= Capabilities(id), Answers(id)' <= Answers(id),
         Calls(id)' = Calls(id), refused \subseteq refused'
  PROVE  CountedFor(id)'
<1>1. /\ Asking(id) \in Nat /\ Closing(id) \in Nat /\ Kept(id) \in Nat
      /\ Capabilities(id) \in Nat /\ Answers(id) \in Nat /\ Calls(id) \in Nat
  BY WeightsAre DEF CountedFor
<1>2. Closing(id)' \in Nat /\ Kept(id)' \in Nat
  BY DEF Closing, Kept, Flag
<1>3. /\ Asking(id) + Kept(id) + Capabilities(id) <= Calls(id)
      /\ 2 * Asking(id) + Closing(id) + Kept(id) + Capabilities(id) + Answers(id)
           <= 2 * Calls(id)
      /\ id \notin refused' => Asking(id) + Closing(id) + Answers(id) <= Calls(id)
  BY DEF CountedFor
<1>4. Asking(id)' + Kept(id)' + Capabilities(id)' <= Calls(id)'
  BY <1>1, <1>2, <1>3
<1>5. id \notin refused' => Asking(id)' + Closing(id)' + Answers(id)' <= Calls(id)'
  BY <1>1, <1>2, <1>3
<1>6. 2 * Asking(id)' + Closing(id)' + Kept(id)' + Capabilities(id)' + Answers(id)'
        <= 2 * Calls(id)'
  BY <1>1, <1>2, <1>3
<1>. QED
  BY <1>4, <1>5, <1>6 DEF CountedFor

\* A message of the server, or the loss of it.
LEMMA SentOnce ==
  ASSUME CallsTypeOK, NEW m \in Packets, ServerSends(m), got' = got, NEW x
  PROVE  /\ Sent(x) \in Nat /\ Sent(x)' \in Nat
         /\ Sent(x)' <= Sent(x) + 1
         /\ x # m => Sent(x)' = Sent(x)
<1>1. /\ Count(toClient, {x}) \in Nat /\ Count(got, {x}) \in Nat
      /\ Sent(x)' = Count(toClient', {x}) + Count(got, {x})
  BY CountIsNat DEF CallsTypeOK, Sent
<1>2. CASE toClient' = toClient
  BY <1>1, <1>2 DEF Sent
<1>3. CASE toClient' = Append(toClient, m)
  <2>1. Count(toClient', {x}) = Count(toClient, {x}) + Flag(m \in {x})
    BY <1>3, CountAppended DEF CallsTypeOK
  <2>. QED
    BY <1>1, <2>1 DEF Sent, Flag
<1>. QED
  BY <1>2, <1>3 DEF ServerSends

LEMMA StoreCounts ==
  ASSUME NumbersFit, CallsTypeOK, NEW c \in Callers, StoreCounter(c),
         NEW id \in Nat \ {0}, CountedFor(id)
  PROVE  CountedFor(id)'
<1>. DEFINE n == call[c].id
<1>1. /\ n \in Numbers /\ issued' = Append(issued, n)
      /\ \A d \in Callers : Sends(d, id)' <=> IF d = c THEN id = n ELSE Sends(d, id)
      /\ ~Sends(c, id)
  BY StoreEffect
<1>2. UNCHANGED <<toServer, toClient, server, late, got, refused>>
  BY DEF StoreCounter, marks
<1>. HIDE DEF n
<1>3. Calls(id)' = Calls(id) + Flag(n \in {id})
  <2>1. Count(issued', {id}) = Count(issued, {id}) + Flag(n \in {id})
    BY <1>1, CountAppended DEF CallsTypeOK
  <2>2. Calls(id)' = Count(issued', {id})
    BY DEF Calls, Count, Places
  <2>. QED
    BY <2>1, <2>2, CallsAreCounted
<1>4. /\ Closing(id)' = Closing(id) /\ Kept(id)' = Kept(id)
      /\ Capabilities(id)' = Capabilities(id) /\ Answers(id)' = Answers(id)
  BY <1>2 DEF Closing, Kept, Capabilities, Answers, Sent
<1>5. /\ IsFiniteSet(Senders(id)) /\ Asking(id) \in Nat /\ Closing(id) \in Nat
      /\ Kept(id) \in Nat /\ Capabilities(id) \in Nat /\ Answers(id) \in Nat
      /\ Calls(id) \in Nat /\ Cardinality(Senders(id)) \in Nat
      /\ Count(toServer, Asks(id)) \in Nat
  BY WeightsAre DEF CountedFor
<1>6. IsFiniteSet(Senders(id)') /\ Asking(id)' = Asking(id) + Flag(n \in {id})
  <2>1. CASE id = n
    <3>1. Senders(id)' = Senders(id) \union {c} /\ c \notin Senders(id)
      BY <1>1, <2>1 DEF Senders
    <3>2. /\ IsFiniteSet(Senders(id)')
          /\ Cardinality(Senders(id)') = Cardinality(Senders(id)) + 1
      BY <1>5, <3>1, FS_AddElement
    <3>. QED
      BY <1>2, <1>5, <2>1, <3>2 DEF Asking, Flag
  <2>2. CASE id # n
    <3>1. Senders(id)' = Senders(id)
      BY <1>1, <2>2 DEF Senders
    <3>. QED
      BY <1>2, <1>5, <2>2, <3>1 DEF Asking, Flag
  <2>. QED
    BY <2>1, <2>2
<1>7. Flag(n \in {id}) \in {0, 1}
  BY DEF Flag
<1>8. /\ Asking(id) + Kept(id) + Capabilities(id) <= Calls(id)
      /\ 2 * Asking(id) + Closing(id) + Kept(id) + Capabilities(id) + Answers(id)
           <= 2 * Calls(id)
      /\ id \notin refused' => Asking(id) + Closing(id) + Answers(id) <= Calls(id)
  BY <1>2 DEF CountedFor
<1>9. Asking(id)' + Kept(id)' + Capabilities(id)' <= Calls(id)'
  BY <1>3, <1>4, <1>5, <1>6, <1>7, <1>8
<1>10. id \notin refused' => Asking(id)' + Closing(id)' + Answers(id)' <= Calls(id)'
  BY <1>3, <1>4, <1>5, <1>6, <1>7, <1>8
<1>11. 2 * Asking(id)' + Closing(id)' + Kept(id)' + Capabilities(id)' + Answers(id)'
         <= 2 * Calls(id)'
  BY <1>3, <1>4, <1>5, <1>6, <1>7, <1>8
<1>. QED
  BY <1>6, <1>9, <1>10, <1>11 DEF CountedFor

\* A request that is sent asks in its call's place.
LEMMA RequestCounts ==
  ASSUME CallsTypeOK, Named, NEW c \in Callers, SendRequest(c),
         NEW id \in Nat \ {0}, CountedFor(id)
  PROVE  CountedFor(id)'
<1>. DEFINE n == call[c].id
<1>1. /\ UNCHANGED <<issued, toClient, server, got>> /\ Sends(c, n)
      /\ \A d \in Callers : Sends(d, id)' => d # c /\ Sends(d, id)
      /\ \/ toServer' = toServer
         \/ \E m \in Packets : m.id = n /\ toServer' = Append(toServer, m)
  BY RequestEffect
<1>2. UNCHANGED <<late, refused>>
  BY DEF SendRequest, marks
<1>. HIDE DEF n
<1>3. /\ IsFiniteSet(Senders(id)) /\ Cardinality(Senders(id)) \in Nat
      /\ Count(toServer, Asks(id)) \in Nat /\ Capabilities(id) \in Nat /\ Answers(id) \in Nat
      /\ Closing(id) \in Nat /\ Kept(id) \in Nat
  BY WeightsAre DEF CountedFor
<1>4. /\ Closing(id)' = Closing(id) /\ Kept(id)' = Kept(id)
      /\ Capabilities(id)' = Capabilities(id) /\ Answers(id)' = Answers(id)
      /\ Calls(id)' = Calls(id)
  BY <1>1, <1>2 DEF Closing, Kept, Capabilities, Answers, Sent, Calls
<1>5. /\ IsFiniteSet(Senders(id)') /\ Cardinality(Senders(id)') \in Nat
      /\ Cardinality(Senders(id)') + Flag(n = id) <= Cardinality(Senders(id))
  <2>. DEFINE rest == Senders(id) \ {c}
  <2>1. Senders(id)' \subseteq rest
    BY <1>1 DEF Senders
  <2>2. c \in Senders(id) \/ n # id
    BY <1>1 DEF Senders
  <2>3. /\ IsFiniteSet(rest)
        /\ Cardinality(rest) = IF c \in Senders(id) THEN Cardinality(Senders(id)) - 1
                               ELSE Cardinality(Senders(id))
    BY <1>3, FS_RemoveElement
  <2>4. /\ IsFiniteSet(Senders(id)') /\ Cardinality(Senders(id)') \in Nat
        /\ Cardinality(Senders(id)') <= Cardinality(rest)
    BY <2>1, <2>3, FS_Subset, FS_CardinalityType
  <2>. HIDE DEF rest
  <2>. QED
    BY <1>3, <2>2, <2>3, <2>4 DEF Flag
<1>6. /\ Count(toServer', Asks(id)) \in Nat
      /\ Count(toServer', Asks(id)) <= Count(toServer, Asks(id)) + Flag(n = id)
  <2>1. CASE toServer' = toServer
    BY <1>3, <2>1 DEF Flag
  <2>2. CASE toServer' # toServer
    <3>1. PICK m \in Packets : m.id = n /\ toServer' = Append(toServer, m)
      BY <1>1, <2>2
    <3>2. Count(toServer', Asks(id)) = Count(toServer, Asks(id)) + Flag(m \in Asks(id))
      BY <3>1, CountAppended DEF CallsTypeOK
    <3>3. m \in Asks(id) => n = id
      BY <3>1 DEF Asks
    <3>. QED
      BY <1>3, <3>2, <3>3 DEF Flag
  <2>. QED
    BY <2>1, <2>2
<1>7. Asking(id)' \in Nat /\ Asking(id)' <= Asking(id)
  <2>1. Asking(id)' = Cardinality(Senders(id)') + Count(toServer', Asks(id))
                        + Flag(server.at = "callback" /\ server.id = id)
    BY <1>1 DEF Asking
  <2>2. Flag(n = id) \in {0, 1} /\ Flag(server.at = "callback" /\ server.id = id) \in {0, 1}
    BY DEF Flag
  <2>. QED
    BY <1>3, <1>5, <1>6, <2>1, <2>2 DEF Asking
<1>. QED
  BY <1>2, <1>3, <1>4, <1>5, <1>7, LessKeepsCount

\* A request that is dispatched asks in its callback.
LEMMA DispatchCounts ==
  ASSUME CallsTypeOK, Named, ServerDispatch, NEW id \in Nat \ {0}, CountedFor(id)
  PROVE  CountedFor(id)'
<1>. DEFINE n == Head(toServer).id
<1>1. /\ toServer # <<>> /\ toServer \in Seq(Packets) /\ toServer' = Tail(toServer)
      /\ server.at = "idle" /\ server' \in {server, [at |-> "callback", id |-> n]}
      /\ UNCHANGED <<call, issued, toClient, got>>
  BY DispatchEffect
<1>2. UNCHANGED <<late, refused>>
  BY DEF ServerDispatch, marks
<1>3. /\ IsFiniteSet(Senders(id)) /\ Cardinality(Senders(id)) \in Nat
      /\ Count(toServer, Asks(id)) \in Nat /\ Capabilities(id) \in Nat /\ Answers(id) \in Nat
      /\ Closing(id) \in Nat /\ Kept(id) \in Nat
  BY WeightsAre DEF CountedFor
<1>4. /\ Closing(id)' = Closing(id) /\ Kept(id)' = Kept(id)
      /\ Capabilities(id)' = Capabilities(id) /\ Answers(id)' = Answers(id)
      /\ Calls(id)' = Calls(id) /\ Senders(id)' = Senders(id)
  BY <1>1, <1>2 DEF Closing, Flag, Kept, Capabilities, Answers, Sent, Calls, Senders, Sends
<1>5. /\ Count(toServer', Asks(id)) \in Nat
      /\ Count(toServer', Asks(id)) + Flag(Head(toServer) \in Asks(id))
           <= Count(toServer, Asks(id))
  <2>1. Tail(toServer) \in Seq(Packets)
    BY <1>1, OneLess
  <2>. QED
    BY <1>1, <2>1, CountTaken, CountIsNat
<1>6. n = id => Head(toServer) \in Asks(id)
  <2>1. Head(toServer) \in Packets
    BY <1>1, OneLess
  <2>. QED
    BY <2>1 DEF Packets, Asks
<1>7. Asking(id)' \in Nat /\ Asking(id)' <= Asking(id)
  <2>1. Asking(id)' = Cardinality(Senders(id)) + Count(toServer', Asks(id))
                        + Flag(server'.at = "callback" /\ server'.id = id)
    BY <1>4 DEF Asking
  <2>2. Asking(id) = Cardinality(Senders(id)) + Count(toServer, Asks(id)) + 0
    BY <1>1 DEF Asking, Flag
  <2>3. /\ Flag(server'.at = "callback" /\ server'.id = id) \in {0, 1}
        /\ Flag(Head(toServer) \in Asks(id)) \in {0, 1}
        /\ Flag(server'.at = "callback" /\ server'.id = id)
             <= Flag(Head(toServer) \in Asks(id))
    BY <1>1, <1>6 DEF Flag
  <2>. QED
    BY ONLY <1>3, <1>5, <2>1, <2>2, <2>3
<1>. QED
  BY <1>2, <1>3, <1>4, <1>7, LessKeepsCount

\* A message that is handed over has come and is no longer on its way.
LEMMA HandingOverCounts ==
  ASSUME CallsTypeOK, ClientDispatch, NEW id \in Nat \ {0}, CountedFor(id)
  PROVE  CountedFor(id)'
<1>1. /\ toClient # <<>> /\ toClient' = Tail(toClient) /\ toClient \in Seq(Packets)
      /\ got' \in {got, Append(got, Head(toClient))} /\ got \in Seq(Packets)
      /\ UNCHANGED <<call, issued, toServer, server, late, refused>>
  BY DEF ClientDispatch, CallsTypeOK, marks
<1>2. Head(toClient) \in Packets /\ Tail(toClient) \in Seq(Packets)
  BY <1>1, OneLess
<1>3. ASSUME NEW m PROVE Sent(m)' \in Nat /\ Sent(m)' <= Sent(m)
  <2>1. /\ Count(toClient, {m}) \in Nat /\ Count(toClient', {m}) \in Nat
        /\ Count(toClient', {m}) + Flag(Head(toClient) \in {m}) <= Count(toClient, {m})
    BY <1>1, <1>2, CountTaken, CountIsNat
  <2>2. /\ Count(got, {m}) \in Nat /\ Count(got', {m}) \in Nat
        /\ Count(got', {m}) <= Count(got, {m}) + Flag(Head(toClient) \in {m})
    <3>1. Count(got, {m}) \in Nat /\ Flag(Head(toClient) \in {m}) \in {0, 1}
      BY <1>1, CountIsNat DEF Flag
    <3>2. CASE got' = got
      BY <3>1, <3>2
    <3>3. CASE got' = Append(got, Head(toClient))
      <4>1. Count(got', {m}) = Count(got, {m}) + Flag(Head(toClient) \in {m})
        BY <1>1, <1>2, <3>3, CountAppended
      <4>. QED
        BY <3>1, <4>1
    <3>. QED
      BY <1>1, <3>2, <3>3
  <2>3. Flag(Head(toClient) \in {m}) \in {0, 1}
    BY DEF Flag
  <2>4. Sent(m)' = Count(toClient', {m}) + Count(got', {m})
    BY DEF Sent
  <2>. QED
    BY <2>1, <2>2, <2>3, <2>4 DEF Sent
<1>4. /\ Asking(id)' = Asking(id) /\ Closing(id)' = Closing(id) /\ Kept(id)' = Kept(id)
      /\ Calls(id)' = Calls(id) /\ Senders(id)' = Senders(id)
  BY <1>1 DEF Asking, Closing, Kept, Calls, Senders, Sends
<1>5. /\ Capabilities(id)' \in Nat /\ Capabilities(id)' <= Capabilities(id)
      /\ Answers(id)' \in Nat /\ Answers(id)' <= Answers(id)
  BY <1>3 DEF Capabilities, Answers
<1>6. IsFiniteSet(Senders(id)) /\ Asking(id) \in Nat /\ Closing(id) \in Nat /\ Kept(id) \in Nat
  BY WeightsAre DEF CountedFor
<1>. QED
  BY <1>1, <1>4, <1>5, <1>6, LessKeepsCount

\* An answer takes the place of what it answers: of a request in its callback, of a result
\* that is due or of a request that was kept.
LEMMA AnswerCounts ==
  ASSUME NumbersFit, CallsTypeOK, Named, CallbackReplies \/ SendMethodCallResult \/ ReplyLate,
         NEW id \in Nat \ {0}, CountedFor(id)
  PROVE  CountedFor(id)'
<1>1. /\ UNCHANGED <<call, issued, toServer, got>> /\ refused \subseteq refused'
      /\ server' \in {server, [server EXCEPT !.at = "result"], [server EXCEPT !.at = "idle"]}
  BY DEF CallbackReplies, SendMethodCallResult, ReplyLate, SendCapabilities, client, marks
<1>2. /\ IsFiniteSet(Senders(id)) /\ Asking(id) \in Nat /\ Closing(id) \in {0, 1}
      /\ Kept(id) \in {0, 1} /\ Capabilities(id) \in Nat /\ Answers(id) \in Nat
      /\ Calls(id) \in Nat /\ Cardinality(Senders(id)) \in Nat
      /\ Count(toServer, Asks(id)) \in Nat
  BY WeightsAre DEF CountedFor
<1>3. Calls(id)' = Calls(id) /\ Senders(id)' = Senders(id)
  BY <1>1 DEF Calls, Senders, Sends
<1>4. /\ Asking(id)' = Cardinality(Senders(id)) + Count(toServer, Asks(id))
                         + Flag(server'.at = "callback" /\ server'.id = id)
      /\ Closing(id)' = Flag(server'.at = "result" /\ server'.id = id)
      /\ Kept(id)' = Flag(id \in late')
  BY <1>1, <1>3 DEF Asking, Closing, Kept
<1>5. /\ Asking(id) + Kept(id) + Capabilities(id) <= Calls(id)
      /\ 2 * Asking(id) + Closing(id) + Kept(id) + Capabilities(id) + Answers(id)
           <= 2 * Calls(id)
      /\ id \notin refused => Asking(id) + Closing(id) + Answers(id) <= Calls(id)
  BY DEF CountedFor
<1>6. ASSUME NEW n \in Range(issued), ServerSends(Result(n))
      PROVE  /\ Capabilities(id)' = Capabilities(id)
             /\ Answers(id)' \in Nat /\ Answers(id)' <= Answers(id) + Flag(n = id)
  <2>1. Result(n) = Message("ServerRuntimeNotification", n) /\ Result(n) \in Packets
    BY AnswersNamed
  <2>2. Message("ResponseCapabilities", id) # Result(n)
    BY <2>1 DEF Message
  <2>3. n # id => Message("ServerRuntimeNotification", id) # Result(n)
    BY <2>1 DEF Message
  <2>. QED
    BY <1>1, <1>6, <2>1, <2>2, <2>3, SentOnce DEF Capabilities, Answers, Flag
<1>7. ASSUME NEW n \in Range(issued), ServerSends(Message("ResponseCapabilities", n))
      PROVE  /\ Answers(id)' = Answers(id)
             /\ Capabilities(id)' \in Nat /\ Capabilities(id)' <= Capabilities(id) + Flag(n = id)
  <2>1. Message("ResponseCapabilities", n) \in Packets
    BY AnswersNamed, GivenArePositive
  <2>2. Message("ServerRuntimeNotification", id) # Message("ResponseCapabilities", n)
    BY DEF Message
  <2>3. n # id => Message("ResponseCapabilities", id) # Message("ResponseCapabilities", n)
    BY DEF Message
  <2>. QED
    BY <1>1, <1>7, <2>1, <2>2, <2>3, SentOnce DEF Capabilities, Answers, Flag
<1>8. ASSUME NEW n \in Range(issued), SendCapabilities(n)
      PROVE  /\ Capabilities(id)' \in Nat /\ Answers(id)' \in Nat
             /\ Capabilities(id)' + Answers(id)'
                  <= Capabilities(id) + Answers(id) + Flag(n = id)
             /\ Capabilities(id)' <= Capabilities(id) + Flag(n = id)
             /\ id \notin refused' => id \notin refused /\ Answers(id)' = Answers(id)
  <2>1. Flag(n = id) \in {0, 1} /\ (n # id => Flag(n = id) = 0)
    BY DEF Flag
  <2>2. CASE ServerSends(Message("ResponseCapabilities", n)) /\ UNCHANGED refused
    BY <1>2, <1>7, <2>1, <2>2
  <2>3. CASE ServerSends(Result(n)) /\ refused' = refused \union {n}
    <3>1. /\ Capabilities(id)' = Capabilities(id)
          /\ Answers(id)' \in Nat /\ Answers(id)' <= Answers(id) + Flag(n = id)
      BY <1>6, <2>3
    <3>2. id \notin refused' => id \notin refused /\ n # id
      BY <2>3
    <3>3. n # id => Answers(id)' = Answers(id)
      <4>1. Result(n) = Message("ServerRuntimeNotification", n) /\ Result(n) \in Packets
        BY AnswersNamed
      <4>2. n # id => Message("ServerRuntimeNotification", id) # Result(n)
        BY <4>1 DEF Message
      <4>. QED
        BY <1>1, <2>3, <4>1, <4>2, SentOnce DEF Answers
    <3>. QED
      BY <1>2, <2>1, <3>1, <3>2, <3>3
  <2>. QED
    BY <1>8, <2>2, <2>3 DEF SendCapabilities
<1>9. ASSUME CallbackReplies PROVE CountedFor(id)'
  <2>1. /\ server.at = "callback" /\ server.id \in Range(issued)
        /\ server' = [server EXCEPT !.at = "result"] /\ late' = late
        /\ SendCapabilities(server.id)
    BY <1>9 DEF CallbackReplies, Named
  <2>. DEFINE f == Flag(server.id = id)
  <2>2. f \in {0, 1}
    BY DEF Flag
  <2>3. /\ Asking(id) = Cardinality(Senders(id)) + Count(toServer, Asks(id)) + f
        /\ Asking(id)' = Cardinality(Senders(id)) + Count(toServer, Asks(id)) + 0
        /\ Closing(id) = 0 /\ Closing(id)' = f /\ Kept(id)' = Kept(id)
    BY <1>4, <2>1 DEF CallsTypeOK, Asking, Closing, Kept, Flag
  <2>4. /\ Capabilities(id)' \in Nat /\ Answers(id)' \in Nat
        /\ Capabilities(id)' + Answers(id)' <= Capabilities(id) + Answers(id) + f
        /\ Capabilities(id)' <= Capabilities(id) + f
        /\ id \notin refused' => id \notin refused /\ Answers(id)' = Answers(id)
    BY <1>8, <2>1
  <2>. HIDE DEF f
  <2>5. Asking(id)' \in Nat /\ Asking(id) = Asking(id)' + f
    BY <1>2, <2>2, <2>3
  <2>6. Asking(id)' + Kept(id)' + Capabilities(id)' <= Calls(id)'
    BY ONLY <1>2, <1>3, <1>5, <2>2, <2>3, <2>4, <2>5
  <2>7. id \notin refused' => Asking(id)' + Closing(id)' + Answers(id)' <= Calls(id)'
    BY ONLY <1>2, <1>3, <1>5, <2>2, <2>3, <2>4, <2>5
  <2>8. 2 * Asking(id)' + Closing(id)' + Kept(id)' + Capabilities(id)' + Answers(id)'
          <= 2 * Calls(id)'
    BY ONLY <1>2, <1>3, <1>5, <2>2, <2>3, <2>4, <2>5
  <2>. QED
    BY <1>2, <1>3, <2>6, <2>7, <2>8 DEF CountedFor
<1>10. ASSUME SendMethodCallResult PROVE CountedFor(id)'
  <2>1. /\ server.at = "result" /\ server.id \in Range(issued)
        /\ server' = [server EXCEPT !.at = "idle"] /\ late' = late /\ refused' = refused
        /\ ServerSends(Result(server.id))
    BY <1>10 DEF SendMethodCallResult, Named, marks
  <2>. DEFINE f == Flag(server.id = id)
  <2>2. f \in {0, 1}
    BY DEF Flag
  <2>3. /\ Asking(id)' = Asking(id) /\ Closing(id) = f /\ Closing(id)' = 0
        /\ Kept(id)' = Kept(id)
    BY <1>4, <2>1 DEF CallsTypeOK, Asking, Closing, Kept, Flag
  <2>4. /\ Capabilities(id)' = Capabilities(id)
        /\ Answers(id)' \in Nat /\ Answers(id)' <= Answers(id) + f
    BY <1>6, <2>1
  <2>. HIDE DEF f
  <2>5. Asking(id)' + Kept(id)' + Capabilities(id)' <= Calls(id)'
    BY ONLY <1>2, <1>3, <1>5, <2>2, <2>3, <2>4
  <2>6. id \notin refused' => Asking(id)' + Closing(id)' + Answers(id)' <= Calls(id)'
    BY ONLY <1>2, <1>3, <1>5, <2>1, <2>2, <2>3, <2>4
  <2>7. 2 * Asking(id)' + Closing(id)' + Kept(id)' + Capabilities(id)' + Answers(id)'
          <= 2 * Calls(id)'
    BY ONLY <1>2, <1>3, <1>5, <2>2, <2>3, <2>4
  <2>. QED
    BY <1>2, <1>3, <2>5, <2>6, <2>7 DEF CountedFor
<1>11. ASSUME ReplyLate PROVE CountedFor(id)'
  <2>1. server' = server
    BY <1>11 DEF ReplyLate
  <2>2. PICK n \in late : late' = late \ {n} /\ SendCapabilities(n)
    BY <1>11 DEF ReplyLate
  <2>. DEFINE f == Flag(n = id)
  <2>3. f \in {0, 1}
    BY DEF Flag
  <2>4. /\ Asking(id)' = Asking(id) /\ Closing(id)' = Closing(id)
        /\ Kept(id)' \in Nat /\ Kept(id)' + f = Kept(id)
    BY <1>4, <2>1, <2>2 DEF Asking, Closing, Kept, Flag
  <2>5. /\ Capabilities(id)' \in Nat /\ Answers(id)' \in Nat
        /\ Capabilities(id)' + Answers(id)' <= Capabilities(id) + Answers(id) + f
        /\ Capabilities(id)' <= Capabilities(id) + f
        /\ id \notin refused' => id \notin refused /\ Answers(id)' = Answers(id)
    BY <1>8, <2>2 DEF Named
  <2>. HIDE DEF f
  <2>6. Asking(id)' + Kept(id)' + Capabilities(id)' <= Calls(id)'
    BY ONLY <1>2, <1>3, <1>5, <2>3, <2>4, <2>5
  <2>7. id \notin refused' => Asking(id)' + Closing(id)' + Answers(id)' <= Calls(id)'
    BY ONLY <1>2, <1>3, <1>5, <2>3, <2>4, <2>5
  <2>8. 2 * Asking(id)' + Closing(id)' + Kept(id)' + Capabilities(id)' + Answers(id)'
          <= 2 * Calls(id)'
    BY ONLY <1>2, <1>3, <1>5, <2>3, <2>4, <2>5
  <2>. QED
    BY <1>2, <1>3, <2>6, <2>7, <2>8 DEF CountedFor
<1>. QED
  BY <1>9, <1>10, <1>11

\* A callback that returns leaves the result due, and perhaps the request kept.
LEMMA ReturnCounts ==
  ASSUME CallsTypeOK, CallbackReturns, NEW id \in Nat \ {0}, CountedFor(id)
  PROVE  CountedFor(id)'
<1>1. /\ server.at = "callback" /\ server' = [server EXCEPT !.at = "result"]
      /\ late' \in {late, late \union {server.id}}
      /\ UNCHANGED <<call, issued, toServer, toClient, got, refused>>
  BY DEF CallbackReturns, client, marks
<1>2. /\ IsFiniteSet(Senders(id)) /\ Asking(id) \in Nat /\ Kept(id) \in {0, 1}
      /\ Capabilities(id) \in Nat /\ Answers(id) \in Nat
      /\ Calls(id) \in Nat /\ Cardinality(Senders(id)) \in Nat
      /\ Count(toServer, Asks(id)) \in Nat
  BY WeightsAre DEF CountedFor
<1>3. /\ Calls(id)' = Calls(id) /\ Senders(id)' = Senders(id)
      /\ Capabilities(id)' = Capabilities(id) /\ Answers(id)' = Answers(id)
  BY <1>1 DEF Calls, Senders, Sends, Capabilities, Answers, Sent
<1>. DEFINE f == Flag(server.id = id)
<1>4. f \in {0, 1}
  BY DEF Flag
<1>5. /\ Asking(id) = Cardinality(Senders(id)) + Count(toServer, Asks(id)) + f
      /\ Asking(id)' = Cardinality(Senders(id)) + Count(toServer, Asks(id)) + 0
      /\ Closing(id) = 0 /\ Closing(id)' = f
  BY <1>1, <1>3 DEF CallsTypeOK, Asking, Closing, Flag
<1>6. Kept(id)' \in {0, 1} /\ Kept(id)' <= Kept(id) + f
  BY <1>1 DEF Kept, Flag
<1>. HIDE DEF f
<1>7. Asking(id)' \in Nat /\ Asking(id) = Asking(id)' + f
  BY <1>2, <1>4, <1>5
<1>8. /\ Asking(id) + Kept(id) + Capabilities(id) <= Calls(id)
      /\ 2 * Asking(id) + Closing(id) + Kept(id) + Capabilities(id) + Answers(id)
           <= 2 * Calls(id)
      /\ id \notin refused' => Asking(id) + Closing(id) + Answers(id) <= Calls(id)
  BY <1>1 DEF CountedFor
<1>9. Asking(id)' + Kept(id)' + Capabilities(id)' <= Calls(id)'
  BY ONLY <1>2, <1>3, <1>4, <1>5, <1>6, <1>7, <1>8
<1>10. id \notin refused' => Asking(id)' + Closing(id)' + Answers(id)' <= Calls(id)'
  BY ONLY <1>2, <1>3, <1>4, <1>5, <1>6, <1>7, <1>8
<1>11. 2 * Asking(id)' + Closing(id)' + Kept(id)' + Capabilities(id)' + Answers(id)'
         <= 2 * Calls(id)'
  BY ONLY <1>2, <1>3, <1>4, <1>5, <1>6, <1>7, <1>8
<1>. QED
  BY <1>2, <1>3, <1>9, <1>10, <1>11 DEF CountedFor

LEMMA CountedStep ==
  NumbersFit /\ CallsTypeOK /\ Named /\ Counted /\ [Next]_vars => Counted'
<1>. SUFFICES ASSUME NumbersFit, CallsTypeOK, Named, Counted, [Next]_vars,
                     NEW id \in Nat \ {0}
              PROVE  CountedFor(id)'
  BY DEF Counted
<1>. CountedFor(id)
  BY DEF Counted
<1>. /\ IsFiniteSet(Senders(id)) /\ Asking(id) \in Nat /\ Closing(id) \in Nat
     /\ Kept(id) \in Nat /\ Capabilities(id) \in Nat /\ Answers(id) \in Nat
     /\ Cardinality(Senders(id)) \in Nat /\ Count(toServer, Asks(id)) \in Nat
  BY WeightsAre DEF CountedFor
<1>1. ASSUME RuntimeError \/ SendActivatedSensorState PROVE CountedFor(id)'
  <2>1. UNCHANGED <<call, issued, toServer, server, late, got, refused>>
    BY <1>1 DEF RuntimeError, SendActivatedSensorState, client, marks
  <2>2. PICK m \in {Result(0), Message("SensorActivated", 0)} : ServerSends(m)
    BY <1>1 DEF RuntimeError, SendActivatedSensorState
  <2>3. /\ m \in Packets /\ m # Message("ResponseCapabilities", id)
        /\ m # Message("ServerRuntimeNotification", id)
    <3>1. /\ Message("SensorActivated", 0) \in Packets
          /\ Message("SensorActivated", 0) # Message("ResponseCapabilities", id)
          /\ Message("SensorActivated", 0) # Message("ServerRuntimeNotification", id)
      BY DEF Message, Packets, MethodCode
    <3>2. Result(0) = Message("ServerRuntimeNotification", 0) /\ Result(0) \in Packets
      BY AnswersNamed
    <3>3. /\ Result(0) # Message("ResponseCapabilities", id)
          /\ Result(0) # Message("ServerRuntimeNotification", id)
      BY <3>2 DEF Message
    <3>. QED
      BY <2>2, <3>1, <3>2, <3>3
  <2>4. Capabilities(id)' = Capabilities(id) /\ Answers(id)' = Answers(id)
    BY <2>1, <2>2, <2>3, SentOnce DEF Capabilities, Answers
  <2>5. /\ Asking(id)' = Asking(id) /\ Closing(id)' = Closing(id) /\ Kept(id)' = Kept(id)
        /\ Calls(id)' = Calls(id) /\ Senders(id)' = Senders(id)
    BY <2>1 DEF Asking, Closing, Kept, Calls, Senders, Sends
  <2>. QED
    BY <2>1, <2>4, <2>5, LessKeepsCount
<1>2. ASSUME Break PROVE CountedFor(id)'
  <2>1. /\ UNCHANGED <<call, issued, server, late, got, refused>>
        /\ toServer' = <<>> /\ toClient' = <<>>
    BY <1>2 DEF Break, marks
  <2>2. /\ Closing(id)' = Closing(id) /\ Kept(id)' = Kept(id)
        /\ Calls(id)' = Calls(id) /\ Senders(id)' = Senders(id)
    BY <2>1 DEF Closing, Kept, Calls, Senders, Sends
  <2>3. Asking(id)' \in Nat /\ Asking(id)' <= Asking(id)
    <3>1. Asking(id)' = Cardinality(Senders(id)) + 0
                          + Flag(server.at = "callback" /\ server.id = id)
      BY <2>1, <2>2, CountEmpty DEF Asking
    <3>2. Flag(server.at = "callback" /\ server.id = id) \in {0, 1}
      BY DEF Flag
    <3>. QED
      BY <3>1, <3>2 DEF Asking
  <2>4. ASSUME NEW m PROVE Sent(m)' \in Nat /\ Sent(m)' <= Sent(m)
    <3>1. Count(toClient, {m}) \in Nat /\ Count(got, {m}) \in Nat
      BY CountIsNat DEF CallsTypeOK
    <3>2. Sent(m)' = 0 + Count(got, {m})
      BY <2>1, CountEmpty DEF Sent
    <3>. QED
      BY <3>1, <3>2 DEF Sent
  <2>. QED
    BY <2>1, <2>2, <2>3, <2>4, LessKeepsCount DEF Capabilities, Answers
<1>3. ASSUME \/ \E c \in Callers : LoadCounter(c) \/ RecordCall(c)
             \/ SideDrops \/ Reconnect \/ Quiet \/ UNCHANGED vars
      PROVE  CountedFor(id)'
  <2>1. /\ UNCHANGED <<issued, toServer, toClient, server, late, got, refused>>
        /\ (\E c \in Callers : LoadCounter(c) \/ RecordCall(c)) \/ call' = call
    BY <1>3 DEF LoadCounter, RecordCall, SideDrops, Reconnect, Quiet, vars, client, marks
  <2>2. Senders(id)' \subseteq Senders(id)
    BY <2>1, OthersDoNotSend DEF Senders
  <2>3. /\ IsFiniteSet(Senders(id)') /\ Cardinality(Senders(id)') \in Nat
        /\ Cardinality(Senders(id)') <= Cardinality(Senders(id))
    BY <2>2, FS_Subset, FS_CardinalityType
  <2>4. /\ Closing(id)' = Closing(id) /\ Kept(id)' = Kept(id) /\ Calls(id)' = Calls(id)
        /\ Capabilities(id)' = Capabilities(id) /\ Answers(id)' = Answers(id)
    BY <2>1 DEF Closing, Kept, Calls, Capabilities, Answers, Sent
  <2>5. Asking(id)' \in Nat /\ Asking(id)' <= Asking(id)
    <3>1. Asking(id)' = Cardinality(Senders(id)') + Count(toServer, Asks(id))
                          + Flag(server.at = "callback" /\ server.id = id)
      BY <2>1 DEF Asking
    <3>2. Flag(server.at = "callback" /\ server.id = id) \in {0, 1}
      BY DEF Flag
    <3>. QED
      BY <2>3, <3>1, <3>2 DEF Asking
  <2>. QED
    BY <2>1, <2>3, <2>4, <2>5, LessKeepsCount
<1>. QED
  BY <1>1, <1>2, <1>3, StoreCounts, RequestCounts, DispatchCounts, HandingOverCounts,
     AnswerCounts, ReturnCounts DEF Next, ServerRuns

-----------------------------------------------------------------------------
(* The promises.                                                               *)

IInv == CallsTypeOK /\ Named /\ ErrorsCounted /\ OneRequest /\ Ordered /\ Counted

LEMMA Invariance == ASSUME NumbersFit PROVE Spec => []IInv
<1>1. Init => IInv
  <2>. SUFFICES ASSUME Init PROVE IInv
    OBVIOUS
  <2>1. /\ issued = <<>> /\ got = <<>> /\ toServer = <<>> /\ toClient = <<>>
        /\ pushes = 0 /\ methodCounter = 1 /\ server = [at |-> "idle", id |-> 0] /\ late = {}
        /\ call = [c \in Callers |-> [at |-> "idle", id |-> 0]]
    BY DEF Init
  <2>2. CallsTypeOK
    BY <2>1 DEF CallsTypeOK
  <2>3. Named
    BY <2>1 DEF Named
  <2>4. ErrorsCounted
    <3>1. RuntimeErrors(got) = {} /\ RuntimeErrors(toClient) = {}
      BY <2>1 DEF RuntimeErrors
    <3>2. Cardinality(RuntimeErrors(got)) = 0 /\ Cardinality(RuntimeErrors(toClient)) = 0
      BY <3>1, FS_EmptySet
    <3>. QED
      BY <2>1, <3>2 DEF ErrorsCounted
  <2>5. Range(issued) = {}
    <3>1. DOMAIN issued = {}
      BY <2>1
    <3>. QED
      BY <3>1 DEF Range
  <2>6. ASSUME NEW id \in Nat \ {0} PROVE CountedFor(id)
    <3>1. \A M : Count(toServer, M) = 0 /\ Count(toClient, M) = 0 /\ Count(got, M) = 0
      BY <2>1, CountEmpty
    <3>2. Senders(id) = {}
      BY <2>1 DEF Senders, Sends
    <3>3. IsFiniteSet(Senders(id)) /\ Cardinality(Senders(id)) = 0
      BY <3>2, FS_EmptySet
    <3>4. /\ Asking(id) = 0 /\ Closing(id) = 0 /\ Kept(id) = 0
          /\ Capabilities(id) = 0 /\ Answers(id) = 0
      BY <2>1, <3>1, <3>3 DEF Asking, Closing, Kept, Capabilities, Answers, Sent, Flag
    <3>5. Calls(id) = 0
      BY <2>1, CallsAreCounted, CountEmpty
    <3>. QED
      BY <3>3, <3>4, <3>5 DEF CountedFor
  <2>. QED
    BY <2>2, <2>3, <2>4, <2>5, <2>6 DEF IInv, OneRequest, Ordered, Counted
<1>2. IInv /\ [Next]_vars => IInv'
  BY NamedStep, ErrorsStep, OneRequestStep, OrderedStep, CountedStep DEF IInv
<1>. QED
  BY <1>1, <1>2, PTL DEF Spec

\* Every result the client's user is told of names a call by the number that the call
\* returned, and it is told of no more runtime errors than the server's user sent.
THEOREM ResultsNameCalls == ASSUME NumbersFit PROVE Spec => []ResultNamesCall
<1>1. IInv => ResultNamesCall
  <2>. SUFFICES ASSUME IInv PROVE ResultNamesCall
    OBVIOUS
  <2>1. \A i \in Results : got[i].id \in Range(issued)
    BY DEF IInv, Named, NamedAnswer, Results
  <2>2. Cardinality(RuntimeErrors(got)) <= pushes
    <3>1. /\ Cardinality(RuntimeErrors(got)) \in Nat
          /\ Cardinality(RuntimeErrors(toClient)) \in Nat /\ pushes \in Nat
      BY ErrorsFinite DEF IInv, CallsTypeOK
    <3>. QED
      BY <3>1 DEF IInv, ErrorsCounted
  <2>. QED
    BY <2>1, <2>2 DEF ResultNamesCall
<1>. QED
  BY <1>1, Invariance, PTL

\* After the result of a call no capabilities come for it, unless its number was given
\* twice or the server's user kept the request for later.
THEOREM ResultComesLast == ASSUME NumbersFit PROVE Spec => []ResultIsLast
<1>1. IInv => ResultIsLast
  <2>. SUFFICES ASSUME IInv, NEW i \in DOMAIN got, NEW j \in DOMAIN got,
                       got[i].type = "ServerRuntimeNotification",
                       got[j].type = "ResponseCapabilities",
                       got[i].id = got[j].id, Calls(got[i].id) = 1, got[i].id \notin delayed
                PROVE  j < i
    BY DEF ResultIsLast
  <2>. DEFINE id == got[j].id
              calls == {k \in DOMAIN issued : issued[k] = id}
  <2>1. id \in Range(issued)
    BY DEF IInv, Named, NamedAnswer
  <2>2. Once(id)
    <3>1. calls = Places(issued, {id})
      BY DEF Places
    <3>2. Cardinality(calls) = 1
      BY DEF Calls
    <3>. HIDE DEF calls
    <3>3. IsFiniteSet(Places(issued, {id}))
      BY CountIsNat DEF IInv, CallsTypeOK
    <3>4. \E k : calls = {k}
      BY <3>1, <3>2, <3>3, FS_Singleton
    <3>. QED
      BY <3>4 DEF calls, Once
  <2>3. OrderedFor(id)
    BY <2>1, <2>2 DEF IInv, Ordered
  <2>. QED
    BY <2>3 DEF OrderedFor, CapsFirst, IsResult, IsCaps
<1>. QED
  BY <1>1, Invariance, PTL

\* What has come of a message was sent.
LEMMA ReceivedWasSent ==
  ASSUME CallsTypeOK, Counted, NEW i \in DOMAIN got, got[i].id # 0
  PROVE  LET id == got[i].id IN
         /\ id \in Nat \ {0} /\ got[i] = Message(got[i].type, id)
         /\ CountedFor(id) /\ Received(got[i]) \in Nat
         /\ Received(got[i]) <= Sent(got[i])
<1>1. got \in Seq(Packets) /\ got[i] \in Packets
  BY DEF CallsTypeOK
<1>2. got[i] = Message(got[i].type, got[i].id) /\ got[i].id \in Nat \ {0}
  BY <1>1 DEF Packets, Message
<1>3. Received(got[i]) = Count(got, {got[i]})
  BY DEF Received, Count, Places
<1>4. Count(toClient, {got[i]}) \in Nat /\ Count(got, {got[i]}) \in Nat
  BY CountIsNat DEF CallsTypeOK
<1>. QED
  BY <1>2, <1>3, <1>4 DEF Counted, Sent

\* A call has one result over all the sessions it is answered in, a second only when its
\* capabilities were refused; two calls with one number have as many together
\* (cserver.cpp, callbackEmserverCapsRequest and sendCapabilities).
THEOREM CallHasOneResult == ASSUME NumbersFit PROVE Spec => []OneResult
<1>1. IInv => OneResult
  <2>. SUFFICES ASSUME IInv, NEW i \in Results
                PROVE  Received(got[i])
                         <= Calls(got[i].id) * (IF got[i].id \in refused THEN 2 ELSE 1)
    BY DEF OneResult
  <2>. DEFINE id == got[i].id
              n == Received(got[i])
  <2>1. i \in DOMAIN got /\ got[i].type = "ServerRuntimeNotification" /\ id # 0
    BY DEF Results
  <2>2. /\ id \in Nat \ {0} /\ CountedFor(id) /\ n \in Nat /\ n <= Answers(id)
    BY <2>1, ReceivedWasSent DEF IInv, Answers
  <2>3. /\ Asking(id) \in Nat /\ Closing(id) \in Nat /\ Kept(id) \in Nat
        /\ Capabilities(id) \in Nat /\ Answers(id) \in Nat /\ Calls(id) \in Nat
    BY <2>2, WeightsAre DEF IInv, CountedFor
  <2>. HIDE DEF id, n
  <2>4. n <= 2 * Calls(id) /\ (id \notin refused => n <= Calls(id))
    BY <2>2, <2>3 DEF CountedFor
  <2>5. n <= Calls(id) * (IF id \in refused THEN 2 ELSE 1)
    BY <2>2, <2>3, <2>4
  <2>. QED
    BY <2>5 DEF id, n
<1>. QED
  BY <1>1, Invariance, PTL

\* Capabilities come for a number no more often than calls were given it
\* (cserver.cpp, callbackEmserverCapsRequest and sendCapabilities).
THEOREM CapabilitiesWereAsked == ASSUME NumbersFit PROVE Spec => []CapabilitiesAsked
<1>1. IInv => CapabilitiesAsked
  <2>. SUFFICES ASSUME IInv, NEW i \in DOMAIN got, got[i].type = "ResponseCapabilities"
                PROVE  Received(got[i]) <= Calls(got[i].id)
    BY DEF CapabilitiesAsked
  <2>. DEFINE id == got[i].id
              n == Received(got[i])
  <2>1. id # 0
    <3>1. NamedAnswer(Range(issued), got[i])
      BY DEF IInv, Named
    <3>. QED
      BY <3>1, GivenArePositive DEF IInv, NamedAnswer
  <2>2. /\ id \in Nat \ {0} /\ CountedFor(id) /\ n \in Nat /\ n <= Capabilities(id)
    BY <2>1, ReceivedWasSent DEF IInv, Capabilities
  <2>3. /\ Asking(id) \in Nat /\ Kept(id) \in Nat
        /\ Capabilities(id) \in Nat /\ Calls(id) \in Nat
    BY <2>2, WeightsAre DEF IInv, CountedFor
  <2>. HIDE DEF id, n
  <2>4. n <= Calls(id)
    BY <2>2, <2>3 DEF CountedFor
  <2>. QED
    BY <2>4 DEF id, n
<1>. QED
  BY <1>1, Invariance, PTL
=============================================================================
