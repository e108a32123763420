------------------------- MODULE TcpSessionReadProofs -------------------------
(***************************************************************************)
(* What TcpSession's reading promises without fairness, for any number and *)
(* size of frames: no byte waits for one that may never come, the frames   *)
(* are delivered in order and none is left out, and an orderly close of    *)
(* the peer is reported when everything has been read and handed over.     *)
(***************************************************************************)
EXTENDS TcpSessionRead, SequenceTheorems, FiniteSetTheorems, TLAPS

-----------------------------------------------------------------------------
(* The invariant.                                                              *)

\* The types of what the io thread works with.
ReadTypeOK ==
  /\ peer \in {"open", "eof", "reset"}
  /\ received \in Seq(Nat) /\ m_buffer \in Seq(Nat)
  /\ sent \in Nat /\ want \in Nat
  /\ io \in {"off", "reading", "handover", "complete", "late"}
  /\ owner \in {"created", "registered", "reading", "failed", "joining", "destroyed"}

\* A read begins with one byte and an empty buffer, and goes on with all that the socket
\* has, which cannot become less but by a reset.
ReadsWhatIsThere ==
  /\ io = "reading" =>
       /\ m_buffer = <<>> => want = 1
       /\ m_buffer # <<>> /\ peer # "reset" => Len(received) >= want
  /\ owner \in {"created", "registered"} => io = "off" /\ m_buffer = <<>>
  /\ owner = "failed" => io = "off" /\ peer # "open"

\* When the peer has closed in order, and the owner is told, all is read and handed over.
CloseReadsAll == owner = "failed" /\ peer = "eof" => received = <<>> /\ m_buffer = <<>>

IInv == ReadTypeOK /\ ReadsWhatIsThere /\ CloseReadsAll

-----------------------------------------------------------------------------
(* It is preserved.                                                            *)

\* What is left of a sequence after its first n elements.
LEMMA RestOfSeq ==
  ASSUME NEW s \in Seq(Nat), NEW n \in Nat, n <= Len(s)
  PROVE  /\ SubSeq(s, n + 1, Len(s)) \in Seq(Nat)
         /\ SubSeq(s, 1, n) \in Seq(Nat) /\ Len(SubSeq(s, 1, n)) = n
OBVIOUS

\* The processing thread leaves the io thread's state alone.
LEMMA ProcessingKeeps ==
  ASSUME ProcessingThread \/ WakeSpuriously
  PROVE  UNCHANGED <<peer, sent, received, m_buffer, want, io, owner>>
BY DEF ProcessingThread, TestNeedExit, LockAcceptor, WaitTimeout, WakeSpuriously, LeaveWait,
       TakeChunks, BeginCallback, EndCallback, others, socketVars, readVars

LEMMA ReadStep == IInv /\ [Next]_vars => IInv'
<1>. SUFFICES ASSUME IInv, Next \/ UNCHANGED vars PROVE IInv'
  OBVIOUS
<1>. ReadTypeOK /\ ReadsWhatIsThere /\ CloseReadsAll
  BY DEF IInv
<1>1. CASE Arrive
  <2>1. /\ sent' \in Nat /\ received' \in Seq(Nat) /\ Len(received') = Len(received) + 1
        /\ peer = "open" /\ UNCHANGED <<peer, m_buffer, want, io, owner>>
    BY <1>1 DEF Arrive, ReadTypeOK, readVars
  <2>. QED
    BY <2>1 DEF IInv, ReadTypeOK, ReadsWhatIsThere, CloseReadsAll
<1>2. CASE PeerCloses
  <2>1. /\ peer = "open" /\ UNCHANGED <<sent, m_buffer, want, io, owner>>
        /\ \/ peer' = "eof" /\ received' = received
           \/ peer' = "reset" /\ received' = <<>>
    BY <1>2 DEF PeerCloses, readVars
  <2>2. <<>> \in Seq(Nat)
    OBVIOUS
  <2>3. owner # "failed"
    BY <2>1 DEF ReadsWhatIsThere
  <2>4. CASE peer' = "eof" /\ received' = received
    BY <2>1, <2>3, <2>4 DEF IInv, ReadTypeOK, ReadsWhatIsThere, CloseReadsAll
  <2>5. CASE peer' = "reset" /\ received' = <<>>
    BY <2>1, <2>2, <2>3, <2>5 DEF IInv, ReadTypeOK, ReadsWhatIsThere, CloseReadsAll
  <2>. QED
    BY <2>1, <2>4, <2>5
<1>3. CASE RegisterReadCallback \/ WaitReading
  BY <1>3 DEF RegisterReadCallback, WaitReading, socketVars, readVars, IInv, ReadTypeOK,
              ReadsWhatIsThere, CloseReadsAll
<1>4. CASE HandlerRead
  <2>1. /\ io = "reading" /\ want <= Len(received)
        /\ m_buffer' = m_buffer \o SubSeq(received, 1, want)
        /\ received' = SubSeq(received, want + 1, Len(received))
        /\ UNCHANGED <<peer, sent, owner>>
    BY <1>4 DEF HandlerRead
  <2>2. received' \in Seq(Nat) /\ m_buffer' \in Seq(Nat)
    BY <2>1, RestOfSeq DEF ReadTypeOK
  <2>3. CASE received' = <<>>
    <3>1. io' = "handover" /\ want' = want
      BY <1>4, <2>3 DEF HandlerRead
    <3>. QED
      BY <2>1, <2>2, <3>1 DEF IInv, ReadTypeOK, ReadsWhatIsThere, CloseReadsAll
  <2>4. CASE received' # <<>>
    <3>1. io' = io /\ want' = Len(received')
      BY <1>4, <2>4 DEF HandlerRead
    <3>2. want' \in Nat
      BY <2>2, <3>1
    <3>3. m_buffer' # <<>>
      <4>1. m_buffer # <<>> \/ want = 1
        BY <2>1 DEF ReadsWhatIsThere
      <4>2. CASE m_buffer # <<>>
        BY <2>1, <4>2, RestOfSeq DEF ReadTypeOK
      <4>3. CASE want = 1
        <5>1. Len(SubSeq(received, 1, want)) = 1 /\ SubSeq(received, 1, want) \in Seq(Nat)
          BY <2>1, <4>3, RestOfSeq DEF ReadTypeOK
        <5>2. Len(m_buffer') = Len(m_buffer) + 1
          BY <2>1, <5>1 DEF ReadTypeOK
        <5>. QED
          BY <2>2, <5>2 DEF ReadTypeOK
      <4>. QED
        BY <4>1, <4>2, <4>3
    <3>4. ReadTypeOK'
      BY <2>1, <2>2, <3>1, <3>2 DEF ReadTypeOK
    <3>5. Len(received') >= want'
      BY <3>1, <3>2
    <3>6. owner # "failed" /\ ~(owner \in {"created", "registered"})
      BY <2>1 DEF ReadsWhatIsThere
    <3>7. ReadsWhatIsThere'
      BY <2>1, <3>3, <3>5, <3>6 DEF ReadsWhatIsThere
    <3>8. CloseReadsAll'
      BY <2>1, <3>6 DEF CloseReadsAll
    <3>. QED
      BY <3>4, <3>7, <3>8 DEF IInv
  <2>. QED
    BY <2>3, <2>4
<1>5. CASE OnReadedChunk
  BY <1>5 DEF OnReadedChunk, socketVars, IInv, ReadTypeOK, ReadsWhatIsThere, CloseReadsAll
<1>6. CASE HandlerReadError
  <2>1. /\ io = "reading" /\ peer # "open" /\ Len(received) < want
        /\ owner' = "failed" /\ io' = "off"
        /\ UNCHANGED <<peer, sent, received, m_buffer, want>>
    BY <1>6 DEF HandlerReadError, socketVars
  <2>2. peer = "eof" => m_buffer = <<>> /\ want = 1
    BY <2>1 DEF ReadTypeOK, ReadsWhatIsThere
  <2>3. peer = "eof" => Len(received) = 0
    BY <2>1, <2>2 DEF ReadTypeOK
  <2>. QED
    BY <2>1, <2>2, <2>3 DEF IInv, ReadTypeOK, ReadsWhatIsThere, CloseReadsAll
<1>7. CASE DestroySession \/ HandlerOfDestroyed \/ Join
  BY <1>7 DEF DestroySession, HandlerOfDestroyed, Join, socketVars, readVars, IInv,
              ReadTypeOK, ReadsWhatIsThere, CloseReadsAll
<1>8. CASE ProcessingThread \/ WakeSpuriously
  BY <1>8, ProcessingKeeps DEF IInv, ReadTypeOK, ReadsWhatIsThere, CloseReadsAll
<1>9. CASE Gone \/ UNCHANGED vars
  BY <1>9 DEF Gone, vars, IInv, ReadTypeOK, ReadsWhatIsThere, CloseReadsAll
<1>. QED
  BY <1>1, <1>2, <1>3, <1>4, <1>5, <1>6, <1>7, <1>8, <1>9 DEF Next, IoThread

LEMMA Invariance == Spec => []IInv
<1>1. Init => IInv
  BY DEF Init, IInv, ReadTypeOK, ReadsWhatIsThere, CloseReadsAll
<1>. QED
  BY <1>1, ReadStep, PTL DEF Spec

-----------------------------------------------------------------------------
(* The theorems.                                                               *)

\* What has been read into m_buffer waits only for bytes that the socket has already
\* (tcpsession.cpp, handlerRead).
THEOREM NothingIsHeldBack == Spec => []NothingHeldBack
<1>1. IInv => NothingHeldBack
  BY DEF IInv, ReadsWhatIsThere, NothingHeldBack
<1>. QED
  BY <1>1, Invariance, PTL

\* The first half of CloseLosesNothing: an orderly close is reported to the owner only
\* when nothing is left in the socket or in m_buffer.
THEOREM OrderlyCloseIsLast == Spec => []CloseReadsAll
<1>1. IInv => CloseReadsAll
  BY DEF IInv
<1>. QED
  BY <1>1, Invariance, PTL

-----------------------------------------------------------------------------
(* The order of the stream: numbers and sequences.                             *)

LEMMA Multiples ==
  ASSUME NEW a \in Int, NEW b \in Int
  PROVE  /\ FrameParts * a \in Int /\ a * FrameParts = FrameParts * a
         /\ FrameParts * (a - 1) = FrameParts * a - FrameParts
         /\ a < b => FrameParts * a + FrameParts <= FrameParts * b
         /\ a <= b => FrameParts * a <= FrameParts * b
BY FramePartsAssumption

LEMMA Division ==
  ASSUME NEW n \in Nat
  PROVE  /\ n \div FrameParts \in Nat
         /\ FrameParts * (n \div FrameParts) <= n
         /\ n < FrameParts * (n \div FrameParts) + FrameParts
BY FramePartsAssumption

\* s is the run of pieces behind the first from.
Run(s, from) == \A i \in 1..Len(s) : s[i] = from + i

LEMMA RunJoined ==
  ASSUME NEW s \in Seq(Nat), NEW t \in Seq(Nat), NEW a \in Nat,
         Run(s, a), Run(t, a + Len(s))
  PROVE  /\ s \o t \in Seq(Nat) /\ Len(s \o t) = Len(s) + Len(t)
         /\ Run(s \o t, a)
<1>1. /\ s \o t \in Seq(Nat) /\ Len(s \o t) = Len(s) + Len(t)
      /\ Len(s) \in Nat /\ Len(t) \in Nat
  BY ConcatProperties, LenProperties
<1>2. ASSUME NEW i \in 1..Len(s) + Len(t) PROVE (s \o t)[i] = a + i
  <2>1. (s \o t)[i] = IF i <= Len(s) THEN s[i] ELSE t[i - Len(s)]
    BY ConcatProperties
  <2>2. CASE i <= Len(s)
    BY <1>1, <2>1, <2>2 DEF Run
  <2>3. CASE i > Len(s)
    <3>1. i - Len(s) \in 1..Len(t) /\ a + Len(s) + (i - Len(s)) = a + i
      BY ONLY <1>1, <2>3, i \in 1..Len(s) + Len(t), a \in Nat
    <3>2. t[i - Len(s)] = a + Len(s) + (i - Len(s))
      BY <3>1 DEF Run
    <3>. QED
      BY <1>1, <2>1, <2>3, <3>1, <3>2
  <2>. QED
    BY <1>1, <2>2, <2>3
<1>. QED
  BY <1>1, <1>2 DEF Run

LEMMA RunCut ==
  ASSUME NEW s \in Seq(Nat), NEW a \in Nat, NEW n \in 0..Len(s), Run(s, a)
  PROVE  /\ SubSeq(s, 1, n) \in Seq(Nat) /\ Len(SubSeq(s, 1, n)) = n
         /\ Run(SubSeq(s, 1, n), a)
         /\ SubSeq(s, n + 1, Len(s)) \in Seq(Nat)
         /\ Len(SubSeq(s, n + 1, Len(s))) = Len(s) - n
         /\ Run(SubSeq(s, n + 1, Len(s)), a + n)
<1>1. Len(s) \in Nat /\ n \in Nat /\ n <= Len(s)
  BY LenProperties
<1>2. \A i \in 1..n : i \in 1..Len(s)
  BY ONLY <1>1
<1>3. \A i \in n + 1..Len(s) : i \in 1..Len(s)
  BY ONLY <1>1
<1>4. \A i \in 1..Len(s) : s[i] \in Nat
  BY ElementOfSeq
<1>5. /\ SubSeq(s, 1, n) \in Seq(Nat) /\ Len(SubSeq(s, 1, n)) = n
      /\ \A i \in 1..n : SubSeq(s, 1, n)[i] = s[i]
  BY <1>1, <1>2, <1>4, SubSeqProperties
<1>6. /\ SubSeq(s, n + 1, Len(s)) \in Seq(Nat)
      /\ Len(SubSeq(s, n + 1, Len(s))) = Len(s) - n
      /\ \A i \in 1..Len(s) - n : SubSeq(s, n + 1, Len(s))[i] = s[n + i]
  <2>1. PICK m \in Nat : m = n + 1
    BY <1>1
  <2>2. \A i \in m..Len(s) : s[i] \in Nat
    BY <1>3, <1>4, <2>1
  <2>3. /\ SubSeq(s, m, Len(s)) \in Seq(Nat)
        /\ Len(SubSeq(s, m, Len(s))) = IF m <= Len(s) THEN Len(s) - m + 1 ELSE 0
        /\ \A i \in 1..Len(s) - m + 1 : SubSeq(s, m, Len(s))[i] = s[m + i - 1]
    BY <1>1, <2>2, SubSeqProperties
  <2>4. /\ Len(s) - m + 1 = Len(s) - n
        /\ (IF m <= Len(s) THEN Len(s) - m + 1 ELSE 0) = Len(s) - n
        /\ \A i \in 1..Len(s) - n : m + i - 1 = n + i
    BY ONLY <1>1, <2>1
  <2>. QED
    BY <2>1, <2>3, <2>4
<1>7. Run(SubSeq(s, 1, n), a)
  BY <1>2, <1>5 DEF Run
<1>8. Run(SubSeq(s, n + 1, Len(s)), a + n)
  <2>1. \A i \in 1..Len(s) - n : n + i \in 1..Len(s) /\ a + (n + i) = a + n + i
    BY ONLY <1>1, a \in Nat
  <2>. QED
    BY <1>6, <2>1 DEF Run
<1>. QED
  BY <1>5, <1>6, <1>7, <1>8

\* The frames that a run holds to their ends are the next ones.
LEMMA WholeOfRun ==
  ASSUME NEW s \in Seq(Nat), NEW d \in Nat, Run(s, FrameParts * d),
         FrameParts * d + Len(s) <= MaxFrames * FrameParts
  PROVE  WholeFrames(s) = d + 1..d + Len(s) \div FrameParts
<1>. DEFINE F == FrameParts
            l == Len(s)
            e == d + l \div F
<1>1. F \in Nat /\ F > 0 /\ l \in Nat /\ d \in Nat /\ MaxFrames \in Nat
  BY FramePartsAssumption, MaxFramesAssumption, LenProperties
<1>2. /\ e \in Nat /\ d <= e /\ F * d \in Nat /\ F * e \in Nat
      /\ F * e <= F * d + l /\ F * d + l < F * e + F
      /\ F * d + l <= F * MaxFrames
  <2>1. l \div F \in Nat /\ F * (l \div F) <= l /\ l < F * (l \div F) + F
    BY <1>1, Division
  <2>. DEFINE q == l \div F
  <2>. HIDE DEF F, l, q
  <2>2. F * d + F * q = F * (d + q) /\ F * d \in Nat /\ F * (d + q) \in Nat
    BY ONLY <1>1, <2>1 DEF q
  <2>3. MaxFrames * F = F * MaxFrames
    BY ONLY <1>1
  <2>4. F * d + l <= MaxFrames * F
    BY DEF F, l
  <2>. QED
    BY ONLY <1>1, <2>1, <2>2, <2>3, <2>4 DEF q
<1>3. \A x : Contains(s, x) <=> x \in F * d + 1..F * d + l
  <2>1. ASSUME NEW x, Contains(s, x) PROVE x \in F * d + 1..F * d + l
    <3>1. PICK i \in 1..l : s[i] = x
      BY <2>1 DEF Contains
    <3>. QED
      BY <1>1, <1>2, <3>1 DEF Run
  <2>2. ASSUME NEW x \in F * d + 1..F * d + l PROVE Contains(s, x)
    <3>1. x - F * d \in 1..l /\ F * d + (x - F * d) = x
      BY ONLY <1>1, <1>2, x \in F * d + 1..F * d + l
    <3>. QED
      BY <3>1 DEF Run, Contains
  <2>. QED
    BY <2>1, <2>2
<1>. HIDE DEF F, l, e
<1>4. ASSUME NEW n \in WholeFrames(s) PROVE n \in d + 1..e
  <2>1. n \in 1..MaxFrames /\ \A k \in 1..F : Contains(s, (n - 1) * F + k)
    BY DEF WholeFrames, F
  <2>2. /\ F * (n - 1) \in Int /\ (n - 1) * F = F * (n - 1)
        /\ F * (n - 1) = F * n - F /\ F * n \in Int
        /\ n - 1 < d => F * (n - 1) + F <= F * d
        /\ e < n => F * e + F <= F * n
    <3>1. n \in Int /\ n - 1 \in Int /\ d \in Int /\ e \in Int
      BY ONLY <1>1, <1>2, <2>1
    <3>2. F * (n - 1) \in Int /\ (n - 1) * F = F * (n - 1)
      BY ONLY <3>1, Multiples DEF F
    <3>3. F * (n - 1) = F * n - F /\ F * n \in Int
      BY ONLY <3>1, Multiples DEF F
    <3>4. n - 1 < d => F * (n - 1) + F <= F * d
      BY ONLY <3>1, Multiples DEF F
    <3>5. e < n => F * e + F <= F * n
      BY ONLY <3>1, Multiples DEF F
    <3>. QED
      BY <3>2, <3>3, <3>4, <3>5
  <2>3. Contains(s, (n - 1) * F + 1) /\ Contains(s, (n - 1) * F + F)
    <3>1. 1 \in 1..F /\ F \in 1..F
      BY ONLY <1>1
    <3>. QED
      BY ONLY <2>1, <3>1, Zenon
  <2>4. F * (n - 1) + 1 \in F * d + 1..F * d + l /\ F * (n - 1) + F \in F * d + 1..F * d + l
    BY <1>3, <2>2, <2>3
  <2>. QED
    BY ONLY <1>1, <1>2, <2>1, <2>2, <2>4
<1>5. ASSUME NEW n \in d + 1..e PROVE n \in WholeFrames(s)
  <2>1. n \in Nat /\ n >= 1 /\ d <= n - 1 /\ n <= e /\ n - 1 \in Int
    BY ONLY <1>1, <1>2, n \in d + 1..e
  <2>2. /\ F * (n - 1) \in Int /\ (n - 1) * F = F * (n - 1)
        /\ F * (n - 1) = F * n - F /\ F * n \in Int
        /\ F * d <= F * (n - 1) /\ F * n <= F * e
        /\ MaxFrames < n => F * MaxFrames + F <= F * n
    BY <1>1, <1>2, <2>1, Multiples DEF F
  <2>3. n \in 1..MaxFrames
    BY ONLY <1>1, <1>2, <2>1, <2>2
  <2>4. ASSUME NEW k \in 1..F PROVE Contains(s, (n - 1) * F + k)
    <3>1. F * (n - 1) + k \in F * d + 1..F * d + l
      BY ONLY <1>1, <1>2, <2>2, k \in 1..F
    <3>. QED
      BY <1>3, <2>2, <3>1
  <2>. QED
    BY <2>3, <2>4 DEF WholeFrames, F
<1>. QED
  BY <1>4, <1>5 DEF e, l, F

\* messages() gives them up in order and keeps what stands behind the last.
LEMMA ExtractedOfRun ==
  ASSUME NEW s \in Seq(Nat), NEW d \in Nat, NEW e \in Nat, d <= e,
         WholeFrames(s) = d + 1..e
  PROVE  /\ Extracted(s) \in Seq(Nat) /\ Len(Extracted(s)) = e - d
         /\ \A k \in 1..e - d : Extracted(s)[k] = d + k
<1>. DEFINE W == d + 1..e
            pick(k) == CHOOSE n \in W : Cardinality({m \in W : m <= n}) = k
<1>1. Cardinality(W) = e - d
  <2>1. Cardinality(W) = IF d + 1 > e THEN 0 ELSE e - (d + 1) + 1
    BY FS_Interval
  <2>. QED
    BY <2>1
<1>2. ASSUME NEW n \in W PROVE Cardinality({m \in W : m <= n}) = n - d
  <2>1. {m \in W : m <= n} = d + 1..n
    OBVIOUS
  <2>2. n \in Int /\ Cardinality(d + 1..n) = IF d + 1 > n THEN 0 ELSE n - (d + 1) + 1
    BY FS_Interval
  <2>3. (IF d + 1 > n THEN 0 ELSE n - (d + 1) + 1) = n - d
    OBVIOUS
  <2>. QED
    BY <2>1, <2>2, <2>3
<1>3. ASSUME NEW k \in 1..e - d PROVE pick(k) = d + k
  <2>1. d + k \in W /\ (d + k) - d = k
    OBVIOUS
  <2>2. \A n \in W : n - d = k => n = d + k
    OBVIOUS
  <2>. HIDE DEF W
  <2>3. \A n \in W : Cardinality({m \in W : m <= n}) = k <=> n = d + k
    BY <1>2, <2>1, <2>2
  <2>. QED
    BY <2>1, <2>3
<1>4. Extracted(s) = [k \in 1..e - d |-> pick(k)]
  BY <1>1 DEF Extracted
<1>. HIDE DEF W, pick
<1>5. Extracted(s) = [k \in 1..e - d |-> d + k]
  BY <1>3, <1>4
<1>. QED
  BY <1>5

LEMMA RemainingOfRun ==
  ASSUME NEW s \in Seq(Nat), NEW d \in Nat, NEW e \in Nat, d <= e,
         Run(s, FrameParts * d), FrameParts * e <= FrameParts * d + Len(s),
         WholeFrames(s) = d + 1..e
  PROVE  /\ Remaining(s) \in Seq(Nat)
         /\ Len(Remaining(s)) = FrameParts * d + Len(s) - FrameParts * e
         /\ Run(Remaining(s), FrameParts * e)
<1>. DEFINE F == FrameParts
            l == Len(s)
            cut == F * e - F * d
            ends == {i \in 1..l : \E n \in d + 1..e : s[i] = n * F}
<1>1. /\ F \in Nat /\ F > 0 /\ l \in Nat /\ F * d \in Nat /\ F * e \in Nat
      /\ F * d <= F * e /\ F * e <= F * d + l
  <2>1. F \in Nat /\ F > 0
    BY FramePartsAssumption
  <2>2. F * d \in Nat /\ F * e \in Nat
    BY ONLY <2>1, d \in Nat, e \in Nat
  <2>. QED
    BY <2>1, <2>2, LenProperties, Multiples
<1>. HIDE DEF F, l
<1>2. cut \in 0..l /\ F * d + cut = F * e
  BY ONLY <1>1
<1>3. cut \in ends \union {0}
  <2>1. CASE e = d
    BY <1>1, <2>1
  <2>2. CASE d < e
    <3>1. F * d + F <= F * e
      BY <2>2, Multiples DEF F
    <3>2. cut \in 1..l
      BY ONLY <1>1, <3>1
    <3>3. s[cut] = F * d + cut
      BY <3>2 DEF Run, F, l
    <3>4. e * F = F * e /\ e \in d + 1..e
      BY <2>2, Multiples DEF F
    <3>. QED
      BY <1>2, <3>2, <3>3, <3>4
  <2>. QED
    BY <2>1, <2>2
<1>4. ASSUME NEW i \in ends \union {0} PROVE i \in Nat /\ cut >= i
  <2>1. CASE i = 0
    BY <1>2, <2>1
  <2>2. CASE i \in ends
    <3>1. PICK n \in d + 1..e : i \in 1..l /\ s[i] = n * F
      BY <2>2
    <3>2. s[i] = F * d + i
      BY <3>1 DEF Run, F, l
    <3>3. n \in Int /\ e \in Int /\ n <= e
      OBVIOUS
    <3>4. n * F = F * n /\ F * n \in Int /\ F * n <= F * e
      BY ONLY <3>3, Multiples DEF F
    <3>5. F * d + i <= F * e /\ i \in Nat
      BY <3>1, <3>2, <3>4
    <3>. QED
      BY ONLY <1>1, <3>5
  <2>. QED
    BY <2>1, <2>2
<1>5. Max(ends \union {0}) = cut
  <2>. DEFINE E == ends \union {0}
  <2>1. cut \in E /\ \A i \in E : i \in Nat /\ cut >= i
    BY <1>3, <1>4
  <2>2. cut \in Nat
    BY <1>2
  <2>. HIDE DEF E, cut
  <2>3. \A x \in E : (\A y \in E : x >= y) <=> x = cut
    BY ONLY <2>1, <2>2
  <2>. QED
    BY <2>1, <2>3 DEF Max, E
<1>6. Remaining(s) = SubSeq(s, cut + 1, l)
  <2>1. ends = {i \in 1..Len(s) : \E n \in WholeFrames(s) : s[i] = n * FrameParts}
    BY DEF F, l
  <2>. HIDE DEF ends, cut
  <2>. QED
    BY <1>5, <2>1 DEF Remaining, l
<1>. HIDE DEF cut
<1>7. /\ SubSeq(s, cut + 1, l) \in Seq(Nat)
      /\ Len(SubSeq(s, cut + 1, l)) = l - cut
      /\ Run(SubSeq(s, cut + 1, l), F * d + cut)
  BY <1>1, <1>2, RunCut DEF F, l
<1>8. l - cut = F * d + l - F * e
  BY ONLY <1>1 DEF cut
<1>. QED
  BY <1>2, <1>6, <1>7, <1>8 DEF F, l

-----------------------------------------------------------------------------
(* The order of the stream: the invariant.                                     *)

\* The place in the stream behind the frames that messages() has returned, behind what the
\* BufferProcessor keeps, the queued chunks, and m_buffer.
Given        == Len(delivered) + Len(messages)
AtProcessing == FrameParts * Given
AtAcceptor   == AtProcessing + Len(processing)
AtBuffer     == AtAcceptor + Len(m_acceptorBuffer)
AtSocket     == AtBuffer + Len(m_buffer)
AtEnd        == AtSocket + Len(received)

StreamTypeOK ==
  /\ processing \in Seq(Nat) /\ m_acceptorBuffer \in Seq(Nat)
  /\ messages \in Seq(Nat) /\ delivered \in Seq(Nat)
  /\ m_readCallback \in BOOLEAN /\ m_needExit \in BOOLEAN
  /\ pc \in {"top", "lock", "wait", "woken", "take", "deliver", "callback", "exit"}
  /\ sent <= MaxFrames * FrameParts

\* The owner registers its processor before it reads, and stops the thread at the end.
OwnerOrder ==
  /\ owner \in {"registered", "reading", "failed"} => m_readCallback
  /\ ~m_readCallback => m_acceptorBuffer = <<>> /\ m_buffer = <<>> /\ io = "off"
  /\ m_needExit <=> owner \in {"joining", "destroyed"}
  /\ m_needExit => io # "reading"

\* The thread has messages in hand exactly while it hands them on.
MessagesInHand == pc \in {"deliver", "callback"} <=> messages # <<>>

\* They are the frames behind those delivered.
FramesInOrder ==
  /\ \A k \in 1..Len(delivered) : delivered[k] = k
  /\ \A k \in 1..Len(messages) : messages[k] = Len(delivered) + k

\* What is on its way is the rest of the stream, unless the thread has put messages aside
\* because it must go.
Leaving == m_needExit /\ pc \in {"top", "exit"}

StreamUnbroken ==
  \/ Leaving
  \/ /\ Run(processing, AtProcessing) /\ Run(m_acceptorBuffer, AtAcceptor)
     /\ Run(m_buffer, AtBuffer) /\ Run(received, AtSocket)
     /\ IF peer = "reset" THEN received = <<>> /\ AtEnd <= sent ELSE AtEnd = sent

\* What is delivered has arrived.
FramesArrived == FrameParts * Len(delivered) <= sent

OrderInv ==
  /\ StreamTypeOK /\ OwnerOrder /\ MessagesInHand /\ FramesInOrder /\ StreamUnbroken
  /\ FramesArrived

-----------------------------------------------------------------------------
(* The order of the stream is preserved.                                       *)

ThreadSteps == TestNeedExit \/ LockAcceptor \/ WaitTimeout \/ LeaveWait \/ WakeSpuriously

LEMMA Steps ==
  ASSUME [Next]_vars
  PROVE  \/ Arrive \/ PeerCloses
         \/ RegisterReadCallback \/ WaitReading \/ DestroySession \/ Join
         \/ HandlerRead \/ OnReadedChunk \/ HandlerReadError \/ HandlerOfDestroyed
         \/ ThreadSteps
         \/ TakeChunks \/ BeginCallback \/ EndCallback
         \/ UNCHANGED vars
BY DEF Next, IoThread, ProcessingThread, ThreadSteps, Gone

\* A thread that is leaving leaves.
LEMMA LeavingStays ==
  ASSUME StreamTypeOK, Leaving, [Next]_vars
  PROVE  Leaving'
<1>. m_needExit /\ pc \in {"top", "exit"}
  BY DEF Leaving
<1>1. CASE ThreadSteps
  BY <1>1 DEF ThreadSteps, TestNeedExit, LockAcceptor, WaitTimeout, LeaveWait, WakeSpuriously,
              others, Leaving
<1>2. CASE Arrive \/ PeerCloses \/ RegisterReadCallback \/ WaitReading \/ Join
  BY <1>2 DEF Arrive, PeerCloses, RegisterReadCallback, WaitReading, Join, threadVars, Leaving
<1>3. CASE HandlerRead \/ HandlerReadError \/ HandlerOfDestroyed
  BY <1>3 DEF HandlerRead, HandlerReadError, HandlerOfDestroyed, threadVars, Leaving
<1>4. CASE OnReadedChunk \/ DestroySession
  BY <1>4 DEF OnReadedChunk, DestroySession, Leaving
<1>5. CASE TakeChunks \/ BeginCallback \/ EndCallback
  BY <1>5 DEF TakeChunks, BeginCallback, EndCallback
<1>6. CASE UNCHANGED vars
  BY <1>6 DEF vars, Leaving
<1>. QED
  BY <1>1, <1>2, <1>3, <1>4, <1>5, <1>6, Steps

LEMMA OwnerStep ==
  ASSUME StreamTypeOK, OwnerOrder, ReadTypeOK, [Next]_vars
  PROVE  OwnerOrder'
<1>. USE DEF OwnerOrder
<1>1. CASE ThreadSteps
  BY <1>1 DEF ThreadSteps, TestNeedExit, LockAcceptor, WaitTimeout, LeaveWait, WakeSpuriously,
              others, readVars
<1>2. CASE Arrive \/ PeerCloses \/ Join \/ WaitReading
  BY <1>2 DEF Arrive, PeerCloses, Join, WaitReading, readVars
<1>3. CASE RegisterReadCallback
  BY <1>3 DEF RegisterReadCallback, readVars
<1>4. CASE HandlerRead \/ HandlerReadError \/ HandlerOfDestroyed
  BY <1>4 DEF HandlerRead, HandlerReadError, HandlerOfDestroyed
<1>5. CASE OnReadedChunk
  BY <1>5 DEF OnReadedChunk
<1>6. CASE DestroySession
  BY <1>6 DEF DestroySession
<1>7. CASE TakeChunks \/ BeginCallback \/ EndCallback
  BY <1>7 DEF TakeChunks, BeginCallback, EndCallback, others, readVars
<1>8. CASE UNCHANGED vars
  BY <1>8 DEF vars
<1>. QED
  BY <1>1, <1>2, <1>3, <1>4, <1>5, <1>6, <1>7, <1>8, Steps

\* The places are numbers, each behind the one before.
LEMMA PlacesAre ==
  ASSUME StreamTypeOK, ReadTypeOK
  PROVE  /\ Given \in Nat /\ AtProcessing \in Nat /\ AtAcceptor \in Nat /\ AtBuffer \in Nat
         /\ AtSocket \in Nat /\ AtEnd \in Nat
         /\ Len(processing) \in Nat /\ Len(m_acceptorBuffer) \in Nat
         /\ Len(m_buffer) \in Nat /\ Len(received) \in Nat
         /\ AtAcceptor = AtProcessing + Len(processing)
         /\ AtBuffer = AtAcceptor + Len(m_acceptorBuffer)
         /\ AtSocket = AtBuffer + Len(m_buffer) /\ AtEnd = AtSocket + Len(received)
<1>1. /\ Len(delivered) \in Nat /\ Len(messages) \in Nat
      /\ Len(processing) \in Nat /\ Len(m_acceptorBuffer) \in Nat
      /\ Len(m_buffer) \in Nat /\ Len(received) \in Nat
  BY LenProperties DEF StreamTypeOK, ReadTypeOK
<1>2. Given \in Nat
  BY <1>1 DEF Given
<1>3. AtProcessing \in Nat
  BY <1>2, FramePartsAssumption DEF AtProcessing
<1>. QED
  BY <1>1, <1>2, <1>3 DEF AtAcceptor, AtBuffer, AtSocket, AtEnd

\* A step of the io thread or of its network, which leaves what the processing thread has.
LEMMA ArriveKeeps ==
  ASSUME ReadTypeOK, StreamTypeOK, StreamUnbroken, Arrive
  PROVE  StreamTypeOK' /\ StreamUnbroken'
<1>1. /\ received' = Append(received, sent + 1) /\ sent' = sent + 1 /\ peer = "open"
      /\ sent < MaxFrames * FrameParts /\ sent \in Nat /\ received \in Seq(Nat)
      /\ UNCHANGED <<peer, processing, m_acceptorBuffer, m_buffer, messages, delivered, pc,
                     m_needExit, m_readCallback>>
  BY DEF Arrive, readVars, threadVars, ReadTypeOK
<1>2. /\ Len(received') = Len(received) + 1 /\ Len(received) \in Nat
      /\ received'[Len(received) + 1] = sent + 1
      /\ \A i \in 1..Len(received) : received'[i] = received[i]
  BY <1>1
<1>3. /\ AtProcessing' = AtProcessing /\ AtAcceptor' = AtAcceptor /\ AtBuffer' = AtBuffer
      /\ AtSocket' = AtSocket /\ AtEnd' = AtSocket + Len(received')
  BY <1>1 DEF Given, AtProcessing, AtAcceptor, AtBuffer, AtSocket, AtEnd
<1>4. StreamTypeOK'
  <2>1. MaxFrames * FrameParts \in Nat
    BY FramePartsAssumption, MaxFramesAssumption
  <2>2. sent' <= MaxFrames * FrameParts
    BY ONLY <1>1, <2>1
  <2>. QED
    BY <1>1, <2>2 DEF StreamTypeOK
<1>5. CASE Leaving
  BY <1>1, <1>4, <1>5 DEF StreamUnbroken, Leaving
<1>6. CASE ~Leaving
  <2>1. /\ Run(processing, AtProcessing) /\ Run(m_acceptorBuffer, AtAcceptor)
        /\ Run(m_buffer, AtBuffer) /\ Run(received, AtSocket) /\ AtEnd = sent
    BY <1>1, <1>6 DEF StreamUnbroken
  <2>2. AtSocket \in Nat /\ sent = AtSocket + Len(received)
    BY <2>1, PlacesAre
  <2>3. AtEnd' = sent'
    BY ONLY <1>1, <1>2, <1>3, <2>2
  <2>4. Run(received', AtSocket)
    <3>1. ASSUME NEW i \in 1..Len(received') PROVE received'[i] = AtSocket + i
      <4>1. i \in 1..Len(received) \/ i = Len(received) + 1
        BY <1>2
      <4>2. CASE i \in 1..Len(received)
        BY <1>2, <2>1, <4>2 DEF Run
      <4>3. CASE i = Len(received) + 1
        BY <1>2, <2>2, <4>3
      <4>. QED
        BY <4>1, <4>2, <4>3
    <3>. QED
      BY <3>1 DEF Run
  <2>. QED
    BY <1>1, <1>3, <1>4, <2>1, <2>3, <2>4 DEF StreamUnbroken
<1>. QED
  BY <1>4, <1>5, <1>6

LEMMA PeerClosesKeeps ==
  ASSUME ReadTypeOK, StreamTypeOK, StreamUnbroken, PeerCloses
  PROVE  StreamTypeOK' /\ StreamUnbroken'
<1>1. /\ peer = "open"
      /\ \/ peer' = "eof" /\ received' = received
         \/ peer' = "reset" /\ received' = <<>>
      /\ UNCHANGED <<sent, processing, m_acceptorBuffer, m_buffer, messages, delivered, pc,
                     m_needExit, m_readCallback>>
  BY DEF PeerCloses, readVars, threadVars
<1>2. /\ AtProcessing' = AtProcessing /\ AtAcceptor' = AtAcceptor /\ AtBuffer' = AtBuffer
      /\ AtSocket' = AtSocket /\ AtEnd' = AtSocket + Len(received')
  BY <1>1 DEF Given, AtProcessing, AtAcceptor, AtBuffer, AtSocket, AtEnd
<1>3. StreamTypeOK'
  BY <1>1 DEF StreamTypeOK
<1>4. CASE Leaving
  BY <1>1, <1>3, <1>4 DEF StreamUnbroken, Leaving
<1>5. CASE ~Leaving
  <2>1. /\ Run(processing, AtProcessing) /\ Run(m_acceptorBuffer, AtAcceptor)
        /\ Run(m_buffer, AtBuffer) /\ Run(received, AtSocket) /\ AtEnd = sent
    BY <1>1, <1>5 DEF StreamUnbroken
  <2>2. AtSocket \in Nat /\ Len(received) \in Nat /\ sent = AtSocket + Len(received)
    BY <2>1, PlacesAre
  <2>3. CASE peer' = "eof" /\ received' = received
    BY <1>1, <1>2, <1>3, <2>1, <2>2, <2>3 DEF StreamUnbroken
  <2>4. CASE peer' = "reset" /\ received' = <<>>
    <3>1. Len(received') = 0 /\ Run(received', AtSocket)
      BY <2>4 DEF Run
    <3>2. AtEnd' <= sent
      BY <1>2, <2>2, <3>1
    <3>. QED
      BY <1>1, <1>2, <1>3, <2>1, <2>4, <3>1, <3>2 DEF StreamUnbroken
  <2>. QED
    BY <1>1, <2>3, <2>4
<1>. QED
  BY <1>3, <1>4, <1>5

LEMMA ReadKeeps ==
  ASSUME ReadTypeOK, StreamTypeOK, StreamUnbroken, HandlerRead
  PROVE  StreamTypeOK' /\ StreamUnbroken'
<1>. DEFINE head == SubSeq(received, 1, want)
            rest == SubSeq(received, want + 1, Len(received))
<1>1. /\ want \in 0..Len(received) /\ m_buffer' = m_buffer \o head /\ received' = rest
      /\ received \in Seq(Nat) /\ m_buffer \in Seq(Nat) /\ Len(received) \in Nat
      /\ UNCHANGED <<peer, sent, processing, m_acceptorBuffer, messages, delivered, pc,
                     m_needExit, m_readCallback>>
  BY LenProperties DEF HandlerRead, threadVars, ReadTypeOK
<1>2. /\ AtProcessing' = AtProcessing /\ AtAcceptor' = AtAcceptor /\ AtBuffer' = AtBuffer
      /\ AtSocket' = AtBuffer + Len(m_buffer') /\ AtEnd' = AtSocket' + Len(received')
  BY <1>1 DEF Given, AtProcessing, AtAcceptor, AtBuffer, AtSocket, AtEnd
<1>3. StreamTypeOK'
  BY <1>1 DEF StreamTypeOK
<1>4. CASE Leaving
  BY <1>1, <1>3, <1>4 DEF StreamUnbroken, Leaving
<1>5. CASE ~Leaving
  <2>1. /\ Run(processing, AtProcessing) /\ Run(m_acceptorBuffer, AtAcceptor)
        /\ Run(m_buffer, AtBuffer) /\ Run(received, AtSocket)
        /\ IF peer = "reset" THEN received = <<>> /\ AtEnd <= sent ELSE AtEnd = sent
    BY <1>5 DEF StreamUnbroken
  <2>2. /\ AtBuffer \in Nat /\ AtSocket \in Nat /\ Len(m_buffer) \in Nat
        /\ AtSocket = AtBuffer + Len(m_buffer) /\ AtEnd = AtSocket + Len(received)
    BY PlacesAre
  <2>3. /\ head \in Seq(Nat) /\ Len(head) = want /\ Run(head, AtSocket)
        /\ rest \in Seq(Nat) /\ Len(rest) = Len(received) - want
        /\ Run(rest, AtSocket + want)
    BY <1>1, <2>1, <2>2, RunCut
  <2>. HIDE DEF head, rest
  <2>4. /\ m_buffer \o head \in Seq(Nat) /\ Run(m_buffer \o head, AtBuffer)
        /\ Len(m_buffer \o head) = Len(m_buffer) + Len(head)
    BY <1>1, <2>1, <2>2, <2>3, RunJoined
  <2>5. AtSocket' = AtSocket + want
    <3>1. AtSocket' = AtBuffer + (Len(m_buffer) + want)
      BY <1>1, <1>2, <2>3, <2>4
    <3>. QED
      BY ONLY <1>1, <2>2, <3>1
  <2>6. AtEnd' = AtEnd
    <3>1. AtEnd' = (AtSocket + want) + (Len(received) - want)
      BY <1>1, <1>2, <2>3, <2>5
    <3>. QED
      BY ONLY <1>1, <2>2, <3>1
  <2>7. received = <<>> => rest = <<>>
    <3>1. received = <<>> => Len(rest) = 0
      BY <1>1, <2>3
    <3>. QED
      BY <2>3, <3>1, EmptySeq
  <2>8. Run(m_buffer', AtBuffer') /\ Run(received', AtSocket')
    BY <1>1, <1>2, <2>3, <2>4, <2>5
  <2>. QED
    BY <1>1, <1>2, <1>3, <2>1, <2>6, <2>7, <2>8 DEF StreamUnbroken
<1>. QED
  BY <1>3, <1>4, <1>5

LEMMA ChunkKeeps ==
  ASSUME ReadTypeOK, StreamTypeOK, OwnerOrder, StreamUnbroken, OnReadedChunk
  PROVE  StreamTypeOK' /\ StreamUnbroken'
<1>1. /\ m_acceptorBuffer' = m_acceptorBuffer \o m_buffer /\ m_buffer' = <<>>
      /\ m_acceptorBuffer \in Seq(Nat) /\ m_buffer \in Seq(Nat)
      /\ pc' = (IF pc = "wait" THEN "woken" ELSE pc)
      /\ UNCHANGED <<peer, sent, received, processing, messages, delivered, m_needExit,
                     m_readCallback>>
  BY DEF OnReadedChunk, socketVars, StreamTypeOK, ReadTypeOK, OwnerOrder
<1>0. StreamTypeOK'
  BY <1>1, ConcatProperties DEF StreamTypeOK
<1>. SUFFICES ASSUME ~Leaving PROVE StreamUnbroken'
  BY <1>0, <1>1 DEF StreamUnbroken, Leaving
<1>2. /\ Run(processing, AtProcessing) /\ Run(m_acceptorBuffer, AtAcceptor)
      /\ Run(m_buffer, AtBuffer) /\ Run(received, AtSocket)
      /\ IF peer = "reset" THEN received = <<>> /\ AtEnd <= sent ELSE AtEnd = sent
  BY DEF StreamUnbroken
<1>3. /\ AtAcceptor \in Nat /\ AtBuffer = AtAcceptor + Len(m_acceptorBuffer)
      /\ AtSocket = AtBuffer + Len(m_buffer) /\ AtEnd = AtSocket + Len(received)
      /\ Len(m_acceptorBuffer) \in Nat /\ Len(m_buffer) \in Nat
  BY PlacesAre
<1>4. /\ m_acceptorBuffer' \in Seq(Nat) /\ Run(m_acceptorBuffer', AtAcceptor)
      /\ Len(m_acceptorBuffer') = Len(m_acceptorBuffer) + Len(m_buffer)
  BY <1>1, <1>2, <1>3, RunJoined
<1>5. Len(m_buffer') = 0
  BY <1>1
<1>6. /\ AtProcessing' = AtProcessing /\ AtAcceptor' = AtAcceptor
      /\ AtBuffer' = AtAcceptor + Len(m_acceptorBuffer')
      /\ AtSocket' = AtBuffer' + Len(m_buffer') /\ AtEnd' = AtSocket' + Len(received)
  BY <1>1 DEF Given, AtProcessing, AtAcceptor, AtBuffer, AtSocket, AtEnd
<1>7. AtBuffer' = AtSocket /\ AtSocket' = AtSocket
  BY ONLY <1>3, <1>4, <1>5, <1>6
<1>8. Run(m_buffer', AtBuffer')
  BY <1>5 DEF Run
<1>. QED
  BY <1>1, <1>2, <1>3, <1>4, <1>6, <1>7, <1>8 DEF StreamUnbroken

\* A step that leaves the pieces where they are.
LEMMA QuietKeeps ==
  ASSUME StreamUnbroken, Leaving => Leaving',
         UNCHANGED <<peer, sent, received, m_buffer, m_acceptorBuffer, processing, messages,
                     delivered>>
  PROVE  StreamUnbroken'
<1>1. /\ AtProcessing' = AtProcessing /\ AtAcceptor' = AtAcceptor /\ AtBuffer' = AtBuffer
      /\ AtSocket' = AtSocket /\ AtEnd' = AtEnd
  BY DEF Given, AtProcessing, AtAcceptor, AtBuffer, AtSocket, AtEnd
<1>. QED
  BY <1>1 DEF StreamUnbroken

\* TakeChunks: the BufferProcessor goes on where it stopped.
LEMMA TakeKeeps ==
  ASSUME ReadTypeOK, OrderInv, TakeChunks
  PROVE  StreamTypeOK' /\ MessagesInHand' /\ FramesInOrder' /\ StreamUnbroken'
<1>. DEFINE accepted == processing \o m_acceptorBuffer
<1>1. /\ StreamTypeOK /\ OwnerOrder /\ MessagesInHand /\ FramesInOrder /\ StreamUnbroken
      /\ pc = "take" /\ messages = <<>> /\ ~Leaving
  BY DEF OrderInv, TakeChunks, MessagesInHand, Leaving
<1>2. /\ m_acceptorBuffer' = <<>>
      /\ UNCHANGED <<peer, sent, received, m_buffer, delivered, m_needExit, m_readCallback>>
  BY DEF TakeChunks, others, socketVars, readVars
<1>3. /\ Run(processing, AtProcessing) /\ Run(m_acceptorBuffer, AtAcceptor)
      /\ Run(m_buffer, AtBuffer) /\ Run(received, AtSocket)
      /\ IF peer = "reset" THEN received = <<>> /\ AtEnd <= sent ELSE AtEnd = sent
  BY <1>1 DEF StreamUnbroken
<1>4. CASE ~m_readCallback
  <2>1. pc' = "top" /\ UNCHANGED <<messages, processing, m_acceptorBuffer>>
    BY <1>1, <1>2, <1>4 DEF TakeChunks, OwnerOrder
  <2>2. StreamUnbroken'
    BY <1>1, <1>2, <2>1, QuietKeeps
  <2>. QED
    BY <1>1, <1>2, <2>1, <2>2 DEF StreamTypeOK, MessagesInHand, FramesInOrder
<1>5. CASE m_readCallback
  <2>1. /\ messages' = Extracted(accepted) /\ processing' = Remaining(accepted)
        /\ pc' = (IF messages' = <<>> THEN "top" ELSE "deliver")
    BY <1>5 DEF TakeChunks
  <2>2. PICK d \in Nat : d = Len(delivered)
    BY <1>1, LenProperties DEF StreamTypeOK
  <2>3. /\ Given = d /\ AtProcessing = FrameParts * d /\ AtProcessing \in Nat
        /\ AtAcceptor = AtProcessing + Len(processing)
        /\ AtBuffer = AtAcceptor + Len(m_acceptorBuffer)
        /\ AtSocket = AtBuffer + Len(m_buffer) /\ AtEnd = AtSocket + Len(received)
        /\ Len(processing) \in Nat /\ Len(m_acceptorBuffer) \in Nat
        /\ Len(m_buffer) \in Nat /\ Len(received) \in Nat
    <3>1. Given = d
      BY <1>1, <2>2 DEF Given
    <3>. QED
      BY <1>1, <3>1, PlacesAre DEF AtProcessing
  <2>4. /\ accepted \in Seq(Nat) /\ Run(accepted, FrameParts * d)
        /\ Len(accepted) = Len(processing) + Len(m_acceptorBuffer)
    BY <1>1, <1>3, <2>3, RunJoined DEF StreamTypeOK
  <2>. HIDE DEF accepted
  <2>5. FrameParts * d + Len(accepted) = AtBuffer
    BY <2>3, <2>4
  <2>6. FrameParts * d + Len(accepted) <= MaxFrames * FrameParts
    <3>1. AtEnd <= sent /\ sent <= MaxFrames * FrameParts /\ sent \in Nat
      BY <1>1, <1>3, <2>3 DEF StreamTypeOK, ReadTypeOK
    <3>2. MaxFrames * FrameParts \in Nat
      BY FramePartsAssumption, MaxFramesAssumption
    <3>3. AtBuffer \in Nat /\ AtEnd \in Nat
      BY <1>1, PlacesAre
    <3>4. AtBuffer <= AtEnd
      <4>1. AtEnd = AtBuffer + Len(m_buffer) + Len(received)
        BY DEF AtEnd, AtSocket
      <4>2. Len(m_buffer) \in Nat /\ Len(received) \in Nat
        BY <2>3
      <4>. QED
        BY ONLY <3>3, <4>1, <4>2
    <3>. QED
      BY ONLY <2>5, <3>1, <3>2, <3>3, <3>4
  <2>7. PICK q \in Nat : /\ q = Len(accepted) \div FrameParts
                         /\ FrameParts * q <= Len(accepted) /\ Len(accepted) \in Nat
    BY <2>4, Division, LenProperties
  <2>. DEFINE e == d + q
  <2>8. /\ e \in Nat /\ d <= e /\ e = d + Len(accepted) \div FrameParts
         /\ FrameParts * e <= FrameParts * d + Len(accepted) /\ FrameParts * e \in Nat
    <3>1. FrameParts * (d + q) = FrameParts * d + FrameParts * q /\ FrameParts * (d + q) \in Nat
      BY ONLY FramePartsAssumption, d \in Nat, q \in Nat
    <3>2. d + q \in Nat /\ d <= d + q
      BY ONLY d \in Nat, q \in Nat
    <3>3. FrameParts * d + FrameParts * q <= FrameParts * d + Len(accepted)
      BY ONLY FramePartsAssumption, d \in Nat, q \in Nat, <2>7
    <3>. QED
      BY <2>7, <3>1, <3>2, <3>3
  <2>. HIDE DEF e
  <2>9. WholeFrames(accepted) = d + 1..e
    BY <2>4, <2>6, <2>8, WholeOfRun
  <2>10. /\ messages' \in Seq(Nat) /\ Len(messages') = e - d
        /\ \A k \in 1..e - d : messages'[k] = d + k
    BY <2>1, <2>4, <2>9, <2>8, ExtractedOfRun
  <2>11. /\ processing' \in Seq(Nat) /\ Run(processing', FrameParts * e)
         /\ FrameParts * e \in Nat
         /\ FrameParts * e + Len(processing') = FrameParts * d + Len(accepted)
    <3>1. /\ processing' \in Seq(Nat) /\ Run(processing', FrameParts * e)
          /\ Len(processing') = FrameParts * d + Len(accepted) - FrameParts * e
      BY <2>1, <2>4, <2>8, <2>9, RemainingOfRun
    <3>2. FrameParts * d \in Nat /\ FrameParts * e \in Nat /\ Len(accepted) \in Nat
      BY <2>3, <2>7, <2>8
    <3>3. Len(processing') \in Nat
      BY <3>1, LenProperties
    <3>4. PICK a, b, c, y \in Nat : /\ a = FrameParts * d /\ b = Len(accepted)
                                    /\ c = FrameParts * e /\ y = Len(processing')
      BY <3>2, <3>3
    <3>5. y = a + b - c
      BY ONLY <3>1, <3>4, Zenon
    <3>6. c + y = a + b
      BY ONLY <3>5, a \in Nat, b \in Nat, c \in Nat, y \in Nat
    <3>. QED
      BY ONLY <2>8, <3>1, <3>4, <3>6, Zenon
  <2>12. Given' = e
    <3>1. Given' = Len(delivered) + Len(messages')
      BY <1>2 DEF Given
    <3>2. d + (e - d) = e
      BY ONLY d \in Nat, <2>8
    <3>. QED
      BY <2>2, <2>10, <3>1, <3>2
  <2>13. AtProcessing' = FrameParts * e /\ AtAcceptor' = AtBuffer
    BY <2>5, <2>11, <2>12 DEF AtProcessing, AtAcceptor
  <2>14. AtBuffer' = AtBuffer /\ AtSocket' = AtSocket /\ AtEnd' = AtEnd
    <3>1. Len(m_acceptorBuffer') = 0
      BY <1>2
    <3>2. AtBuffer' = AtAcceptor' + Len(m_acceptorBuffer')
      BY DEF AtBuffer
    <3>3. AtBuffer' = AtBuffer
      BY <2>3, <2>13, <3>1, <3>2
    <3>. QED
      BY <1>2, <3>3 DEF AtSocket, AtEnd
  <2>15. StreamTypeOK'
    BY <1>1, <1>2, <2>1, <2>10, <2>11 DEF StreamTypeOK
  <2>16. MessagesInHand'
    BY <2>1 DEF MessagesInHand
  <2>17. FramesInOrder'
    <3>1. \A k \in 1..Len(messages') : messages'[k] = Len(delivered') + k
      BY <1>2, <2>2, <2>10
    <3>. QED
      BY <1>1, <1>2, <3>1 DEF FramesInOrder
  <2>18. Run(m_acceptorBuffer', AtAcceptor')
    BY <1>2 DEF Run
  <2>19. StreamUnbroken'
    BY <1>2, <1>3, <2>11, <2>13, <2>14, <2>18 DEF StreamUnbroken
  <2>. QED
    BY <2>15, <2>16, <2>17, <2>19
<1>. QED
  BY <1>4, <1>5

\* The loop over the messages.
LEMMA BeginKeeps ==
  ASSUME ReadTypeOK, OrderInv, BeginCallback
  PROVE  StreamTypeOK' /\ MessagesInHand' /\ FramesInOrder' /\ StreamUnbroken'
<1>1. /\ StreamTypeOK /\ MessagesInHand /\ FramesInOrder /\ StreamUnbroken
      /\ pc = "deliver" /\ messages # <<>> /\ ~Leaving
  BY DEF OrderInv, BeginCallback, MessagesInHand, Leaving
<1>2. UNCHANGED <<peer, sent, received, m_buffer, m_acceptorBuffer, processing, delivered,
                  m_needExit, m_readCallback>>
  BY DEF BeginCallback, others, socketVars, readVars
<1>3. CASE m_needExit
  <2>1. pc' = "top" /\ messages' = <<>>
    BY <1>3 DEF BeginCallback
  <2>. QED
    BY <1>1, <1>2, <1>3, <2>1
       DEF StreamTypeOK, MessagesInHand, FramesInOrder, StreamUnbroken, Leaving
<1>4. CASE ~m_needExit
  <2>1. pc' = "callback" /\ messages' = messages
    BY <1>4 DEF BeginCallback
  <2>2. StreamUnbroken'
    BY <1>1, <1>2, <2>1, QuietKeeps
  <2>. QED
    BY <1>1, <1>2, <2>1, <2>2 DEF StreamTypeOK, MessagesInHand, FramesInOrder
<1>. QED
  BY <1>3, <1>4

\* The message that is delivered is the next one.
LEMMA EndKeeps ==
  ASSUME ReadTypeOK, OrderInv, EndCallback
  PROVE  StreamTypeOK' /\ MessagesInHand' /\ FramesInOrder' /\ StreamUnbroken'
<1>1. /\ StreamTypeOK /\ MessagesInHand /\ FramesInOrder /\ StreamUnbroken
      /\ pc = "callback" /\ messages # <<>> /\ ~Leaving
      /\ messages \in Seq(Nat) /\ delivered \in Seq(Nat)
  BY DEF OrderInv, EndCallback, MessagesInHand, Leaving, StreamTypeOK
<1>2. /\ delivered' = Append(delivered, Head(messages)) /\ messages' = Tail(messages)
      /\ pc' = (IF messages' = <<>> THEN "top" ELSE "deliver")
      /\ UNCHANGED <<peer, sent, received, m_buffer, m_acceptorBuffer, processing, m_needExit,
                     m_readCallback>>
  BY DEF EndCallback, others, socketVars, readVars
<1>3. /\ messages' \in Seq(Nat) /\ Len(messages') = Len(messages) - 1
      /\ Head(messages) = messages[1] /\ messages[1] \in Nat
      /\ Len(messages) \in Nat /\ Len(messages) > 0
      /\ \A k \in 1..Len(messages') : messages'[k] = messages[k + 1]
    BY <1>1, <1>2, HeadTailProperties
<1>4. /\ delivered' \in Seq(Nat) /\ Len(delivered') = Len(delivered) + 1
      /\ Len(delivered) \in Nat
      /\ \A k \in 1..Len(delivered) : delivered'[k] = delivered[k]
      /\ delivered'[Len(delivered) + 1] = messages[1]
  BY <1>1, <1>2, <1>3, AppendProperties, LenProperties
<1>5. messages[1] = Len(delivered) + 1
  BY <1>1, <1>3 DEF FramesInOrder
<1>6. ASSUME NEW k \in 1..Len(delivered') PROVE delivered'[k] = k
  <2>1. k \in 1..Len(delivered) \/ k = Len(delivered) + 1
    BY <1>4
  <2>. QED
    BY <1>1, <1>4, <1>5, <2>1 DEF FramesInOrder
<1>7. ASSUME NEW k \in 1..Len(messages') PROVE messages'[k] = Len(delivered') + k
  <2>1. k + 1 \in 1..Len(messages) /\ Len(delivered) + (k + 1) = Len(delivered') + k
    BY <1>3, <1>4
  <2>. QED
    BY <1>1, <1>3, <2>1 DEF FramesInOrder
<1>8. FramesInOrder'
  BY <1>6, <1>7 DEF FramesInOrder
<1>9. StreamTypeOK'
  BY <1>1, <1>2, <1>3, <1>4 DEF StreamTypeOK
<1>10. MessagesInHand'
  BY <1>2 DEF MessagesInHand
<1>11. StreamUnbroken'
  <2>1. Given' = Given
    BY <1>3, <1>4 DEF Given
  <2>2. /\ AtProcessing' = AtProcessing /\ AtAcceptor' = AtAcceptor /\ AtBuffer' = AtBuffer
        /\ AtSocket' = AtSocket /\ AtEnd' = AtEnd
    BY <1>2, <2>1 DEF AtProcessing, AtAcceptor, AtBuffer, AtSocket, AtEnd
  <2>. QED
    BY <1>1, <1>2, <2>2 DEF StreamUnbroken
<1>. QED
  BY <1>8, <1>9, <1>10, <1>11

LEMMA ArrivedStep ==
  ASSUME ReadTypeOK, OrderInv, [Next]_vars
  PROVE  FramesArrived'
<1>1. /\ StreamTypeOK /\ MessagesInHand /\ StreamUnbroken /\ FramesArrived
      /\ FrameParts * Len(delivered) \in Nat /\ sent \in Nat
  BY FramePartsAssumption, LenProperties DEF OrderInv, StreamTypeOK, ReadTypeOK
<1>2. CASE EndCallback
  <2>1. /\ pc = "callback" /\ messages # <<>> /\ ~Leaving
        /\ delivered' = Append(delivered, Head(messages)) /\ sent' = sent
        /\ messages \in Seq(Nat) /\ delivered \in Seq(Nat)
    BY <1>1, <1>2 DEF EndCallback, MessagesInHand, Leaving, others, socketVars, StreamTypeOK
  <2>2. Head(messages) \in Nat /\ Len(messages) \in Nat /\ Len(messages) > 0
    BY <2>1, HeadTailProperties
  <2>3. Len(delivered') = Len(delivered) + 1 /\ Len(delivered) \in Nat
    BY <2>1, <2>2, AppendProperties, LenProperties
  <2>4. Len(delivered') \in Int /\ Given \in Int /\ Len(delivered') <= Given
    BY <2>2, <2>3 DEF Given
  <2>5. FrameParts * Len(delivered') <= AtProcessing /\ FrameParts * Len(delivered') \in Int
    BY <2>4, Multiples DEF AtProcessing
  <2>6. AtProcessing \in Nat /\ AtEnd \in Nat /\ AtProcessing <= AtEnd
    <3>1. /\ AtProcessing \in Nat /\ Len(processing) \in Nat
          /\ Len(m_acceptorBuffer) \in Nat /\ Len(m_buffer) \in Nat /\ Len(received) \in Nat
      BY <1>1, PlacesAre
    <3>2. AtEnd = AtProcessing + Len(processing) + Len(m_acceptorBuffer) + Len(m_buffer)
                    + Len(received)
      BY DEF AtEnd, AtSocket, AtBuffer, AtAcceptor
    <3>. QED
      BY ONLY <3>1, <3>2
  <2>7. AtEnd <= sent
    BY <1>1, <2>1 DEF StreamUnbroken
  <2>8. FrameParts * Len(delivered') <= sent
    <3>1. PICK a \in Int : a = FrameParts * Len(delivered')
      BY <2>5
    <3>. QED
      BY <1>1, <2>5, <2>6, <2>7, <3>1
  <2>. QED
    BY <2>1, <2>8 DEF FramesArrived
<1>3. CASE ~EndCallback
  <2>1. delivered' = delivered
    BY <1>3, Steps DEF Arrive, PeerCloses, RegisterReadCallback, WaitReading, DestroySession,
       Join, HandlerRead, OnReadedChunk, HandlerReadError, HandlerOfDestroyed, ThreadSteps,
       TestNeedExit, LockAcceptor, WaitTimeout, LeaveWait, WakeSpuriously, TakeChunks,
       BeginCallback, threadVars, vars
  <2>2. sent' = sent \/ sent' = sent + 1
    BY <1>3, Steps DEF Arrive, PeerCloses, RegisterReadCallback, WaitReading, DestroySession,
       Join, HandlerRead, OnReadedChunk, HandlerReadError, HandlerOfDestroyed, ThreadSteps,
       TestNeedExit, LockAcceptor, WaitTimeout, LeaveWait, WakeSpuriously, TakeChunks,
       BeginCallback, others, socketVars, vars
  <2>3. PICK a \in Nat : a = FrameParts * Len(delivered) /\ a <= sent
    BY <1>1 DEF FramesArrived
  <2>4. a <= sent'
    BY ONLY <1>1, <2>2, <2>3
  <2>. QED
    BY <2>1, <2>3, <2>4 DEF FramesArrived
<1>. QED
  BY <1>2, <1>3

LEMMA OrderStep ==
  ASSUME ReadTypeOK, OrderInv, [Next]_vars
  PROVE  OrderInv'
<1>1. /\ StreamTypeOK /\ OwnerOrder /\ MessagesInHand /\ FramesInOrder /\ StreamUnbroken
      /\ OwnerOrder' /\ FramesArrived'
  BY OwnerStep, ArrivedStep DEF OrderInv
<1>2. SUFFICES StreamTypeOK' /\ MessagesInHand' /\ FramesInOrder' /\ StreamUnbroken'
  BY <1>1 DEF OrderInv
<1>. DEFINE pieces == <<peer, sent, received, m_buffer, m_acceptorBuffer, processing, messages,
                        delivered>>
<1>3. CASE ThreadSteps
  <2>1. /\ UNCHANGED pieces /\ UNCHANGED <<m_needExit, m_readCallback>>
        /\ pc \notin {"deliver", "callback"}
        /\ pc' \in {"top", "lock", "wait", "woken", "take", "exit"}
    BY <1>3 DEF ThreadSteps, TestNeedExit, LockAcceptor, WaitTimeout, LeaveWait, WakeSpuriously,
                others, socketVars, readVars
  <2>. QED
    BY <1>1, <2>1, LeavingStays, QuietKeeps DEF StreamTypeOK, MessagesInHand, FramesInOrder
<1>4. CASE \/ RegisterReadCallback \/ WaitReading \/ HandlerReadError \/ HandlerOfDestroyed
           \/ Join \/ UNCHANGED vars
  <2>1. UNCHANGED pieces /\ UNCHANGED <<m_needExit, pc>> /\ m_readCallback' \in BOOLEAN
    BY <1>1, <1>4 DEF RegisterReadCallback, WaitReading, HandlerReadError, HandlerOfDestroyed,
                 Join, vars, socketVars, readVars, threadVars, StreamTypeOK
  <2>. QED
    BY <1>1, <2>1, LeavingStays, QuietKeeps DEF StreamTypeOK, MessagesInHand, FramesInOrder
<1>5. CASE DestroySession
  <2>1. UNCHANGED pieces /\ UNCHANGED m_readCallback /\ m_needExit' = TRUE
    BY <1>5 DEF DestroySession, socketVars
  <2>2. pc' = IF pc = "wait" THEN "woken" ELSE pc
    BY <1>5 DEF DestroySession
  <2>. QED
    BY <1>1, <2>1, <2>2, LeavingStays, QuietKeeps DEF StreamTypeOK, MessagesInHand, FramesInOrder
<1>6. CASE Arrive \/ PeerCloses \/ HandlerRead
  <2>1. UNCHANGED <<messages, delivered, pc>>
    BY <1>6 DEF Arrive, PeerCloses, HandlerRead, threadVars
  <2>. QED
    BY <1>1, <1>6, <2>1, ArriveKeeps, PeerClosesKeeps, ReadKeeps DEF MessagesInHand, FramesInOrder
<1>7. CASE OnReadedChunk
  <2>1. UNCHANGED <<messages, delivered>> /\ pc' = IF pc = "wait" THEN "woken" ELSE pc
    BY <1>7 DEF OnReadedChunk
  <2>. QED
    BY <1>1, <1>7, <2>1, ChunkKeeps DEF MessagesInHand, FramesInOrder
<1>. QED
  BY <1>3, <1>4, <1>5, <1>6, <1>7, TakeKeeps, BeginKeeps, EndKeeps, Steps

LEMMA OrderHoldsAtFirst == Init => OrderInv
<1>. SUFFICES ASSUME Init PROVE OrderInv
  OBVIOUS
<1>. USE DEF Init
<1>1. StreamTypeOK /\ OwnerOrder /\ MessagesInHand /\ FramesInOrder
  <2>1. 0 <= MaxFrames * FrameParts
    BY FramePartsAssumption, MaxFramesAssumption
  <2>2. <<>> \in Seq(Nat) /\ Len(<<>>) = 0
    OBVIOUS
  <2>3. StreamTypeOK
    BY <2>1, <2>2 DEF StreamTypeOK
  <2>4. OwnerOrder
    BY DEF OwnerOrder
  <2>5. MessagesInHand
    BY DEF MessagesInHand
  <2>6. FramesInOrder
    BY DEF FramesInOrder
  <2>. QED
    BY <2>3, <2>4, <2>5, <2>6
<1>2. Given = 0
  BY DEF Given
<1>3. AtProcessing = 0
  BY <1>2, FramePartsAssumption DEF AtProcessing
<1>4. AtEnd = 0
  BY <1>3 DEF AtAcceptor, AtBuffer, AtSocket, AtEnd
<1>5. StreamUnbroken
  BY <1>4 DEF StreamUnbroken, Run
<1>6. FramesArrived
  BY FramePartsAssumption DEF FramesArrived
<1>. QED
  BY <1>1, <1>5, <1>6 DEF OrderInv

LEMMA OrderInvariance == Spec => []OrderInv
<1>1. IInv /\ OrderInv /\ [Next]_vars => OrderInv'
  BY OrderStep DEF IInv
<1>. QED
  BY <1>1, Invariance, OrderHoldsAtFirst, PTL DEF Spec

-----------------------------------------------------------------------------
(* The theorems about the order of the stream.                                 *)

\* The specific processor gets the frames of the stream in order, each once, none left out
\* and none before its end has arrived, wherever reads, chunks and calls of messages() cut
\* the stream (commonprocessor.cpp, bufferProcessingThreadFunc).
THEOREM FramesDeliveredInOrder == Spec => []DeliveredInOrder
<1>1. OrderInv => DeliveredInOrder
  <2>1. OrderInv => Len(delivered) * FrameParts <= sent
    BY LenProperties, Multiples DEF OrderInv, StreamTypeOK, FramesArrived
  <2>. QED
    BY <2>1 DEF OrderInv, FramesInOrder, DeliveredInOrder
<1>. QED
  BY <1>1, OrderInvariance, PTL

\* All that the peer sent before an orderly close has been handed over to the processing
\* thread when the close is reported: each frame that has arrived to its end is delivered,
\* or in the thread's hands, or lies whole before it (tcpsession.cpp, handlerRead).
LEMMA NothingIsLost == IInv /\ OrderInv => CloseLosesNothing
<1>. SUFFICES ASSUME IInv, OrderInv, owner = "failed", peer = "eof"
              PROVE  /\ received = <<>> /\ m_buffer = <<>>
                     /\ \A n \in 1..sent \div FrameParts :
                          \/ Contains(delivered \o messages, n)
                          \/ n \in WholeFrames(processing \o m_acceptorBuffer)
  BY DEF CloseLosesNothing
<1>. DEFINE accepted == processing \o m_acceptorBuffer
<1>1. /\ ReadTypeOK /\ StreamTypeOK /\ OwnerOrder /\ FramesInOrder
      /\ received = <<>> /\ m_buffer = <<>>
  BY DEF IInv, CloseReadsAll, OrderInv
<1>2. ~Leaving
  BY <1>1 DEF OwnerOrder, Leaving
<1>3. Run(processing, AtProcessing) /\ Run(m_acceptorBuffer, AtAcceptor) /\ AtEnd = sent
  BY <1>2 DEF OrderInv, StreamUnbroken
<1>4. PICK d \in Nat : d = Given
  BY <1>1, PlacesAre
<1>5. /\ AtProcessing = FrameParts * d /\ AtProcessing \in Nat /\ AtAcceptor \in Nat
      /\ AtAcceptor = AtProcessing + Len(processing)
      /\ AtBuffer = AtAcceptor + Len(m_acceptorBuffer)
      /\ Len(processing) \in Nat /\ Len(m_acceptorBuffer) \in Nat
  BY <1>1, <1>4, PlacesAre DEF AtProcessing
<1>6. /\ accepted \in Seq(Nat) /\ Run(accepted, FrameParts * d)
      /\ Len(accepted) = Len(processing) + Len(m_acceptorBuffer)
  BY <1>1, <1>3, <1>5, RunJoined DEF StreamTypeOK
<1>. HIDE DEF accepted
<1>7. AtBuffer = sent
  <2>1. Len(received) = 0 /\ Len(m_buffer) = 0 /\ AtBuffer \in Nat
    BY <1>1, PlacesAre
  <2>2. AtEnd = AtBuffer + Len(m_buffer) + Len(received)
    BY DEF AtEnd, AtSocket
  <2>. QED
    BY <1>3, <2>1, <2>2
<1>8. FrameParts * d + Len(accepted) = sent /\ Len(accepted) \in Nat
  BY <1>5, <1>6, <1>7
<1>9. WholeFrames(accepted) = d + 1..d + Len(accepted) \div FrameParts
  <2>1. sent <= MaxFrames * FrameParts
    BY <1>1 DEF StreamTypeOK
  <2>. QED
    BY <1>6, <1>8, <2>1, WholeOfRun
<1>10. sent \div FrameParts <= d + Len(accepted) \div FrameParts
  <2>1. PICK a \in Nat : /\ a = Len(accepted) \div FrameParts
                         /\ Len(accepted) < FrameParts * a + FrameParts
    BY <1>8, Division
  <2>2. PICK b \in Nat : b = sent \div FrameParts /\ FrameParts * b <= sent
    BY <1>1, Division DEF ReadTypeOK
  <2>3. ASSUME d + a < b PROVE FALSE
    <3>1. FrameParts * (d + a) + FrameParts <= FrameParts * b
      <4>1. d + a \in Int /\ b \in Int
        OBVIOUS
      <4>. QED
        BY ONLY <2>3, <4>1, Multiples
    <3>2. FrameParts * (d + a) = FrameParts * d + FrameParts * a
      BY ONLY FramePartsAssumption, d \in Nat, a \in Nat
    <3>3. FrameParts * d \in Nat /\ FrameParts * a \in Nat /\ FrameParts * b \in Nat
      BY ONLY FramePartsAssumption, d \in Nat, a \in Nat, b \in Nat
    <3>. QED
      <4>1. PICK fa, fb, fd, l \in Nat : /\ fa = FrameParts * a /\ fb = FrameParts * b
                                         /\ fd = FrameParts * d /\ l = Len(accepted)
        BY <1>8, <3>3
      <4>2. /\ fd + fa + FrameParts <= fb /\ fd + l = sent /\ l < fa + FrameParts
            /\ fb <= sent
        BY <1>8, <2>1, <2>2, <3>1, <3>2, <4>1
      <4>. QED
        BY ONLY <4>2, FramePartsAssumption
  <2>4. b <= d + a
    BY <2>3
  <2>. QED
    BY <2>1, <2>2, <2>4
<1>11. ASSUME NEW n \in 1..sent \div FrameParts, n <= d PROVE Contains(delivered \o messages, n)
  <2>1. /\ delivered \in Seq(Nat) /\ messages \in Seq(Nat)
        /\ Len(delivered) \in Nat /\ Len(messages) \in Nat /\ d = Len(delivered) + Len(messages)
    BY <1>1, <1>4, LenProperties DEF StreamTypeOK, Given
  <2>2. n \in 1..Len(delivered) + Len(messages)
    BY <1>11, <2>1
  <2>3. Run(delivered, 0) /\ Run(messages, 0 + Len(delivered))
    BY <1>1, <2>1 DEF FramesInOrder, Run
  <2>4. /\ Len(delivered \o messages) = Len(delivered) + Len(messages)
        /\ Run(delivered \o messages, 0)
    BY <2>1, <2>3, RunJoined
  <2>5. n \in 1..Len(delivered \o messages) /\ (delivered \o messages)[n] = n
    BY <2>1, <2>2, <2>4 DEF Run
  <2>. QED
    BY <2>5 DEF Contains
<1>12. ASSUME NEW n \in 1..sent \div FrameParts, ~(n <= d) PROVE n \in WholeFrames(accepted)
  <2>1. sent \div FrameParts \in Nat /\ Len(accepted) \div FrameParts \in Nat
    BY <1>1, <1>8, Division DEF ReadTypeOK
  <2>. QED
    BY <1>9, <1>10, <1>12, <2>1
<1>. QED
  BY <1>1, <1>11, <1>12 DEF accepted

THEOREM OrderlyCloseLosesNothing == Spec => []CloseLosesNothing
BY NothingIsLost, Invariance, OrderInvariance, PTL
================================================================================
