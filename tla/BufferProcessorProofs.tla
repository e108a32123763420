------------------------ MODULE BufferProcessorProofs ------------------------
(***************************************************************************)
(* What BufferProcessor promises of a stream of any length, with frames of *)
(* any size, cut into chunks anywhere: exactly the complete frames are     *)
(* returned, and nothing older than the last of them stays in the buffer.  *)
(***************************************************************************)
EXTENDS BufferProcessor, SequenceTheorems, WellFoundedInduction, TLAPS

\* The cells of a payload and of what stands between the frames, and all of them.
PlainCell == [kind : {"magic", "byte", "size"}, size : Nat, over : {<<>>}]
Cell      == PlainCell \union [kind : {"crc"}, size : {0}, over : Seq(PlainCell)]

\* No payload, and nothing between the frames, holds the checksum of anything, and the
\* size of every frame the peer sends is below the wrap of uint32_t.  The size fields in
\* payloads and junk may hold any value.
PlainStream ==
  /\ Payloads \union Junk \subseteq Seq(PlainCell)
  /\ \A payload \in Payloads : FullSize(payload) < SizeValues

-----------------------------------------------------------------------------
(* The invariant.                                                              *)

\* The stream behind the last frame returned, and where in it frame k begins and ends.
Stream    == m_processingBuffer \o coming
Before    == arrived - Len(m_processingBuffer)
Finish(k) == sent[k].end - Before
Begin(k)  == Finish(k) - FullSize(sent[k].payload) + 1
Ahead     == (Len(extracted) + 1)..Len(sent)

BufferTypeOK ==
  /\ sent \in Seq([payload : Payloads, end : Nat])
  /\ coming \in Seq(Cell)
  /\ arrived \in Nat
  /\ m_processingBuffer \in Seq(Cell)
  /\ markerPos \in Nat
  /\ extracted \in Seq(Seq(Cell))

\* The frames lie one behind the other and within the stream.
Apart ==
  /\ \A k \in 1..Len(sent) :
       /\ 1 <= Begin(k) + Before
       /\ Finish(k) <= Len(Stream)
  /\ \A j, k \in 1..Len(sent) : j < k => Finish(j) < Begin(k)

\* What has been returned is where the stream was cut.
Returned ==
  /\ Len(extracted) <= Len(sent)
  /\ Before = IF extracted = <<>> THEN 0 ELSE sent[Len(extracted)].end
  /\ \A k \in 1..Len(extracted) : extracted[k] = sent[k].payload

\* The other frames stand in the stream, and no checksum but theirs.
Standing ==
  /\ \A k \in Ahead : \A i \in 1..FullSize(sent[k].payload) :
       Stream[Begin(k) + i - 1] = MakeProtocolMessage(sent[k].payload)[i]
  /\ \A i \in 1..Len(Stream) :
       Stream[i].kind = "crc" => \E k \in Ahead : i = Finish(k)

\* The search has passed no complete frame.
NonePassed ==
  /\ markerPos <= Len(m_processingBuffer) + 1
  /\ \A k \in Ahead : Finish(k) <= Len(m_processingBuffer) =>
       markerPos # 0 /\ markerPos <= Begin(k)

IInv == BufferTypeOK /\ Apart /\ Returned /\ Standing /\ NonePassed

-----------------------------------------------------------------------------
(* Frames and searches.                                                        *)

LEMMA Joined ==
  ASSUME NEW S, NEW s \in Seq(S), NEW t \in Seq(S)
  PROVE  /\ s \o t \in Seq(S)
         /\ Len(s) \in Nat /\ Len(t) \in Nat /\ Len(s \o t) = Len(s) + Len(t)
         /\ \A i \in 1..Len(s) : (s \o t)[i] = s[i]
         /\ \A i \in 1..Len(t) : (s \o t)[Len(s) + i] = t[i]
  BY ConcatProperties, LenProperties

LEMMA Regrouped ==
  ASSUME NEW S, NEW s \in Seq(S), NEW t \in Seq(S), NEW u \in Seq(S)
  PROVE  (s \o t) \o u = s \o (t \o u)
  BY ConcatAssociative

LEMMA Cut ==
  ASSUME NEW S, NEW s \in Seq(S), NEW n \in 0..Len(s)
  PROVE  /\ Drop(s, n) \in Seq(S)
         /\ Len(s) \in Nat /\ Len(Drop(s, n)) = Len(s) - n
         /\ \A i \in 1..Len(s) - n : Drop(s, n)[i] = s[i + n]
<1>1. \A i \in n + 1..Len(s) : s[i] \in S
  BY LenProperties
<1>. QED
  BY <1>1, LenProperties, SubSeqProperties DEF Drop

LEMMA Slice ==
  ASSUME NEW S, NEW s \in Seq(S), NEW a \in 1..Len(s) + 1, NEW b \in a - 1..Len(s)
  PROVE  /\ SubSeq(s, a, b) \in Seq(S)
         /\ Len(SubSeq(s, a, b)) = b - a + 1
         /\ \A i \in 1..b - a + 1 : SubSeq(s, a, b)[i] = s[a + i - 1]
<1>1. a \in Int /\ b \in Int /\ \A i \in a..b : i \in 1..Len(s)
  BY LenProperties
<1>2. \A i \in a..b : s[i] \in S
  BY <1>1, ElementOfSeq
<1>. QED
  BY <1>1, <1>2, SubSeqProperties

\* The total of a frame is a number, and where it does not wrap the sum it stands for.
LEMMA Totals ==
  ASSUME NEW n \in Nat
  PROVE  /\ TotalSize(n) \in Nat
         /\ n + 3 < SizeValues => TotalSize(n) = n + 3
<1>1. /\ n + 3 \in Nat /\ SizeValues \in Nat /\ SizeValues > 0
  BY SizeValuesAssumption
<1>2. \A x, m \in Nat : m > 0 => x % m \in 0..m - 1
  OBVIOUS
<1>3. \A x, m \in Nat : m > 0 /\ x < m => x % m = x
  OBVIOUS
<1>. QED
  BY <1>1, <1>2, <1>3 DEF TotalSize

Covered(payload) == <<Magic, Size(Len(payload))>> \o payload

LEMMA PlainIsCell == Seq(PlainCell) \subseteq Seq(Cell)
  BY DEF Cell

LEMMA PlainIsNoCrc ==
  ASSUME NEW s \in Seq(PlainCell)
  PROVE  \A i \in 1..Len(s) : s[i].kind # "crc"
<1>1. \A x \in PlainCell : x.kind # "crc"
  BY DEF PlainCell
<1>2. \A i \in 1..Len(s) : s[i] \in PlainCell
  BY ElementOfSeq
<1>. QED
  BY ONLY <1>1, <1>2

LEMMA CoveredCells ==
  ASSUME NEW payload \in Seq(PlainCell)
  PROVE  /\ Covered(payload) \in Seq(PlainCell)
         /\ Len(Covered(payload)) = Len(payload) + 2
         /\ Covered(payload)[1].kind = "magic"
         /\ Covered(payload)[2] = Size(Len(payload))
         /\ \A i \in 1..Len(payload) : Covered(payload)[i + 2] = payload[i]
<1>1. <<Magic, Size(Len(payload))>> \in Seq(PlainCell)
  BY DEF Magic, Size, PlainCell
<1>. QED
  BY <1>1 DEF Covered, Magic

\* A frame: a magic, the size of the payload, the payload and the checksum of all that.
LEMMA FrameCells ==
  ASSUME NEW payload \in Seq(PlainCell)
  PROVE  LET m == MakeProtocolMessage(payload) IN
         /\ m \in Seq(Cell)
         /\ Len(m) = FullSize(payload) /\ FullSize(payload) \in Nat
         /\ m[FullSize(payload)] = Crc(Covered(payload))
         /\ \A i \in 1..Len(payload) + 2 : m[i] = Covered(payload)[i] /\ m[i].kind # "crc"
<1>. DEFINE c == Covered(payload)
<1>1. c \in Seq(PlainCell) /\ Len(c) = Len(payload) + 2
  BY CoveredCells
<1>2. c \in Seq(Cell) /\ Crc(c) \in Cell
  BY <1>1 DEF Cell, Crc
<1>3. MakeProtocolMessage(payload) = Append(c, Crc(c))
  BY DEF MakeProtocolMessage, Covered
<1>4. \A i \in 1..Len(c) : c[i].kind # "crc"
  BY <1>1, PlainIsNoCrc
<1>. HIDE DEF c
<1>5. /\ Append(c, Crc(c)) \in Seq(Cell)
      /\ Len(Append(c, Crc(c))) = Len(c) + 1
      /\ Append(c, Crc(c))[Len(c) + 1] = Crc(c)
      /\ \A i \in 1..Len(c) : Append(c, Crc(c))[i] = c[i]
  BY <1>2
<1>. QED
  BY <1>1, <1>3, <1>4, <1>5 DEF FullSize, c

\* std::find_if: the first magic from p on, or the end.
LEMMA FindMagicIs ==
  ASSUME NEW s \in Seq(Cell), NEW p \in 1..Len(s) + 1
  PROVE  /\ FindMagic(s, p) \in p..Len(s) + 1
         /\ \A k \in p..Len(s) : s[k].kind = "magic" => FindMagic(s, p) <= k
<1>. DEFINE found == {k \in p..Len(s) : s[k].kind = "magic"}
             Less  == {ss \in Nat \X Nat : ss[1] < ss[2]}
<1>1. CASE found = {}
  BY <1>1 DEF FindMagic
<1>2. CASE found # {}
  <2>1. \E k \in found : \A j \in found : k <= j
    <3>1. IsWellFoundedOn(Less, Nat)
      BY NatLessThanWellFounded DEF OpToRel
    <3>2. found \subseteq Nat
      OBVIOUS
    <3>3. PICK k \in found : \A j \in found : <<j, k>> \notin Less
      BY ONLY <1>2, <3>1, <3>2, WFMin
    <3>4. ASSUME NEW j \in found PROVE k <= j
      <4>1. j \in Nat /\ k \in Nat
        BY <3>2
      <4>2. <<j, k>> \notin Less
        BY <3>3
      <4>. QED
        BY ONLY <4>1, <4>2
    <3>. QED
      BY <3>3, <3>4
  <2>. DEFINE m == CHOOSE k \in found : \A j \in found : k <= j
  <2>2. FindMagic(s, p) = m
    BY <1>2 DEF FindMagic
  <2>. HIDE DEF found
  <2>3. m \in found /\ \A j \in found : m <= j
    BY <2>1
  <2>. HIDE DEF m
  <2>. QED
    BY <2>2, <2>3 DEF found
<1>. QED
  BY <1>1, <1>2

-----------------------------------------------------------------------------
(* Each part is preserved.                                                     *)

\* The places of a frame are numbers, and a frame is at least its magic, size and checksum.
LEMMA Places ==
  ASSUME PlainStream, BufferTypeOK
  PROVE  /\ Before \in Int /\ Stream \in Seq(Cell)
         /\ Len(Stream) = Len(m_processingBuffer) + Len(coming)
         /\ Ahead \subseteq 1..Len(sent)
         /\ \A k \in 1..Len(sent) :
              /\ sent[k] \in [payload : Payloads, end : Nat]
              /\ sent[k].payload \in Seq(PlainCell)
              /\ FullSize(sent[k].payload) \in Nat
              /\ FullSize(sent[k].payload) = Len(sent[k].payload) + 3
              /\ Finish(k) \in Int /\ Finish(k) = sent[k].end - Before
              /\ Begin(k) \in Int
              /\ Begin(k) = Finish(k) - FullSize(sent[k].payload) + 1
              /\ Begin(k) < Finish(k)
<1>. USE DEF BufferTypeOK
<1>1. Before \in Int
  BY DEF Before
<1>2. Stream \in Seq(Cell) /\ Len(Stream) = Len(m_processingBuffer) + Len(coming)
  BY Joined DEF Stream
<1>3. Ahead \subseteq 1..Len(sent)
  BY DEF Ahead
<1>4. ASSUME NEW k \in 1..Len(sent)
      PROVE  /\ sent[k] \in [payload : Payloads, end : Nat]
             /\ sent[k].payload \in Seq(PlainCell)
             /\ FullSize(sent[k].payload) \in Nat
             /\ FullSize(sent[k].payload) = Len(sent[k].payload) + 3
             /\ Finish(k) \in Int /\ Finish(k) = sent[k].end - Before
             /\ Begin(k) \in Int /\ Begin(k) = Finish(k) - FullSize(sent[k].payload) + 1
             /\ Begin(k) < Finish(k)
  <2>1. sent[k] \in [payload : Payloads, end : Nat]
    BY ElementOfSeq
  <2>2. sent[k].payload \in Seq(PlainCell) /\ sent[k].end \in Nat
    BY <2>1 DEF PlainStream
  <2>3. Len(sent[k].payload) \in Nat
    BY <2>2
  <2>4. FullSize(sent[k].payload) = Len(sent[k].payload) + 3
    BY DEF FullSize
  <2>. QED
    <3>1. FullSize(sent[k].payload) \in Nat /\ FullSize(sent[k].payload) >= 3
      BY <2>3, <2>4
    <3>2. Finish(k) = sent[k].end - Before /\ Finish(k) \in Int
      BY <1>1, <2>2 DEF Finish
    <3>3. Begin(k) = Finish(k) - FullSize(sent[k].payload) + 1
      BY DEF Begin
    <3>4. Begin(k) \in Int /\ Begin(k) < Finish(k)
      BY ONLY <3>1, <3>2, <3>3
    <3>. QED
      BY <2>1, <2>2, <2>4, <3>1, <3>2, <3>3, <3>4
<1>. QED
  BY <1>1, <1>2, <1>3, <1>4

\* The frames to come stand behind what has been cut off.
LEMMA AheadBehind ==
  ASSUME PlainStream, BufferTypeOK, Apart, Returned
  PROVE  /\ Before \in Nat
         /\ \A k \in Ahead : /\ k \in 1..Len(sent) /\ 1 <= Begin(k)
                             /\ Finish(k) \in 1..Len(Stream)
<1>. DEFINE N == Len(extracted)
<1>1. /\ N \in Nat /\ Len(sent) \in Nat /\ N <= Len(sent) /\ Len(Stream) \in Nat
      /\ \A k \in Ahead : k \in 1..Len(sent) /\ k > N
  BY Places, LenProperties DEF BufferTypeOK, Returned, Ahead
<1>2. CASE extracted = <<>>
  <2>1. Before = 0
    BY <1>2 DEF Returned
  <2>. QED
    BY <1>1, <2>1, Places DEF Apart
<1>3. CASE extracted # <<>>
  <2>1. N \in 1..Len(sent) /\ Before = sent[N].end
    BY <1>1, <1>3, EmptySeq DEF BufferTypeOK, Returned
  <2>2. sent[N].end \in Nat /\ Finish(N) = 0
    BY <2>1, Places
  <2>3. \A k \in Ahead : Finish(N) < Begin(k)
    BY <1>1, <2>1 DEF Apart
  <2>. QED
    BY <1>1, <2>1, <2>2, <2>3, Places DEF Apart
<1>. QED
  BY <1>2, <1>3

LEMMA SendStep ==
  ASSUME PlainStream, IInv, NEW junk \in Junk, NEW payload \in Payloads,
         PeerSends(junk, payload)
  PROVE  IInv'
<1>. DEFINE m == MakeProtocolMessage(payload)
            more == junk \o m
<1>1. /\ payload \in Seq(PlainCell) /\ junk \in Seq(PlainCell)
      /\ sent \in Seq([payload : Payloads, end : Nat])
      /\ coming \in Seq(Cell) /\ m_processingBuffer \in Seq(Cell)
      /\ arrived \in Nat
  BY DEF PlainStream, IInv, BufferTypeOK
<1>2. /\ m \in Seq(Cell) /\ Len(m) = FullSize(payload)
      /\ FullSize(payload) = Len(payload) + 3
      /\ \A i \in 1..Len(payload) + 2 : m[i].kind # "crc"
  BY <1>1, FrameCells DEF FullSize
<1>3. /\ junk \in Seq(Cell)
      /\ \A i \in 1..Len(junk) : junk[i].kind # "crc"
  BY <1>1, PlainIsCell, PlainIsNoCrc
<1>4. /\ UNCHANGED <<arrived, m_processingBuffer, markerPos, extracted>>
      /\ coming' = coming \o junk \o m
      /\ sent' = Append(sent, [payload |-> payload, end |-> arrived + Len(coming')])
  BY DEF PeerSends
<1>. HIDE DEF m
<1>5. /\ more \in Seq(Cell) /\ Len(more) = Len(junk) + Len(m)
      /\ \A i \in 1..Len(junk) : more[i] = junk[i]
      /\ \A i \in 1..Len(m) : more[Len(junk) + i] = m[i]
  <2>1. junk \in Seq(Cell) /\ m \in Seq(Cell)
    BY <1>2, <1>3
  <2>. QED
    BY ONLY <2>1, Joined
<1>6. coming' = coming \o more
  <2>1. coming \in Seq(Cell) /\ junk \in Seq(Cell) /\ m \in Seq(Cell)
    BY <1>1, <1>2, <1>3
  <2>2. (coming \o junk) \o m = coming \o (junk \o m)
    BY ONLY <2>1, ConcatAssociative
  <2>. QED
    BY <1>4, <2>2
<1>. HIDE DEF more
<1>7. /\ coming' \in Seq(Cell) /\ Len(coming') = Len(coming) + Len(more)
      /\ Stream' = Stream \o more
  <2>1. m_processingBuffer \in Seq(Cell) /\ coming \in Seq(Cell) /\ more \in Seq(Cell)
    BY <1>1, <1>5
  <2>2. (m_processingBuffer \o coming) \o more = m_processingBuffer \o (coming \o more)
    BY ONLY <2>1, Regrouped, SMTT(20)
  <2>3. coming \o more \in Seq(Cell) /\ Len(coming \o more) = Len(coming) + Len(more)
    BY ONLY <2>1, Joined
  <2>. QED
    BY <1>4, <1>6, <2>2, <2>3 DEF Stream
<1>8. /\ Stream \in Seq(Cell) /\ Len(Stream) = Len(m_processingBuffer) + Len(coming)
      /\ Before \in Int /\ Before' = Before /\ Before = arrived - Len(m_processingBuffer)
  BY <1>1, <1>4, Joined DEF Stream, Before
<1>9. /\ Len(Stream') = Len(Stream) + Len(more)
      /\ \A i \in 1..Len(Stream) : Stream'[i] = Stream[i]
      /\ \A i \in 1..Len(more) : Stream'[Len(Stream) + i] = more[i]
  <2>1. Stream \in Seq(Cell) /\ more \in Seq(Cell) /\ Stream' = Stream \o more
    BY <1>5, <1>7, <1>8
  <2>. QED
    BY ONLY <2>1, Joined
<1>0. PICK n \in Nat : n = Len(sent) + 1
  BY <1>1, LenProperties
<1>10. /\ sent' \in Seq([payload : Payloads, end : Nat]) /\ Len(sent') = n
       /\ \A k \in 1..Len(sent) : sent'[k] = sent[k]
       /\ sent'[n] = [payload |-> payload, end |-> arrived + Len(coming')]
  BY <1>0, <1>1, <1>4, <1>7
<1>11. \A k \in 1..Len(sent) : Finish(k)' = Finish(k) /\ Begin(k)' = Begin(k)
  BY <1>8, <1>10 DEF Finish, Begin
<1>. DEFINE B == Len(m_processingBuffer)
            C == Len(coming)
            J == Len(junk)
            P == Len(payload)
            Z == Len(Stream)
<1>12. /\ B \in Nat /\ C \in Nat /\ J \in Nat /\ P \in Nat /\ Z \in Nat /\ Z = B + C
       /\ Len(sent) \in Nat /\ n = Len(sent) + 1 /\ arrived \in Nat
       /\ Len(m) = P + 3 /\ FullSize(payload) = P + 3 /\ Len(more) = J + P + 3
       /\ Len(coming') = C + J + P + 3 /\ Len(Stream') = Z + J + P + 3
       /\ Before = arrived - B
  <2>1. B \in Nat /\ C \in Nat /\ J \in Nat /\ P \in Nat /\ Z \in Nat /\ Len(sent) \in Nat
    BY <1>1, <1>8, LenProperties
  <2>2. Len(m) = P + 3 /\ FullSize(payload) = P + 3
    BY <1>2
  <2>3. /\ Len(more) = J + Len(m) /\ Len(coming') = C + Len(more)
        /\ Len(Stream') = Z + Len(more) /\ Z = B + C
    BY <1>5, <1>7, <1>8, <1>9
  <2>4. arrived \in Nat /\ Before = arrived - B
    BY <1>1, <1>8
  <2>. QED
    BY ONLY <1>0, <2>1, <2>2, <2>3, <2>4
<1>. HIDE DEF B, C, J, P, Z
<1>20. /\ Finish(n)' = Z + J + P + 3
       /\ Begin(n)' = Z + J + 1
       /\ sent'[n].payload = payload
  <2>1. sent'[n].end = arrived + Len(coming') /\ sent'[n].payload = payload
    BY <1>10
  <2>2. Finish(n)' = sent'[n].end - Before'
    BY DEF Finish
  <2>3. Before' = Before
    BY <1>8
  <2>4. Begin(n)' = Finish(n)' - FullSize(payload) + 1
    BY <2>1 DEF Begin
  <2>5. Finish(n)' = (arrived + (C + J + P + 3)) - (arrived - B)
    BY <1>12, <2>1, <2>2, <2>3
  <2>6. Finish(n)' = Z + J + P + 3
    BY ONLY <1>12, <2>5
  <2>7. Begin(n)' = (Z + J + P + 3) - (P + 3) + 1
    BY <1>12, <2>4, <2>6
  <2>8. Begin(n)' = Z + J + 1
    BY ONLY <1>12, <2>7
  <2>. QED
    BY <2>1, <2>6, <2>8
<1>13. BufferTypeOK'
  BY <1>4, <1>7, <1>10 DEF IInv, BufferTypeOK
<1>14. \A k \in 1..Len(sent) : /\ Finish(k) \in Int /\ Begin(k) \in Int
                               /\ Begin(k) < Finish(k)
                               /\ FullSize(sent[k].payload) \in Nat
                               /\ Begin(k) = Finish(k) - FullSize(sent[k].payload) + 1
  BY Places DEF IInv
<1>21. /\ Before \in Nat /\ 1 <= n /\ \A k \in 1..n : k = n \/ k \in 1..Len(sent)
       /\ \A k \in 1..Len(sent) : 1 <= Begin(k) + Before /\ Finish(k) <= Z
       /\ \A j, k \in 1..Len(sent) : j < k => Finish(j) < Begin(k)
  <2>1. Before \in Nat
    BY AheadBehind DEF IInv
  <2>2. \A k \in 1..n : k = n \/ k \in 1..Len(sent)
    BY ONLY <1>12
  <2>. QED
    BY <1>12, <2>1, <2>2 DEF IInv, Apart, Z
<1>15. Apart'
  <2>1. \A k \in 1..n : 1 <= Begin(k)' + Before' /\ Finish(k)' <= Len(Stream')
    <3>1. ASSUME NEW k \in 1..Len(sent)
          PROVE  1 <= Begin(k)' + Before' /\ Finish(k)' <= Len(Stream')
      <4>1. Begin(k)' = Begin(k) /\ Finish(k)' = Finish(k) /\ Before' = Before
        BY <1>8, <1>11
      <4>2. Finish(k) \in Int /\ Finish(k) <= Z /\ 1 <= Begin(k) + Before
        BY <1>14, <1>21
      <4>3. Finish(k) <= Len(Stream')
        BY ONLY <1>12, <4>2
      <4>. QED
        BY <4>1, <4>2, <4>3
    <3>2. 1 <= Begin(n)' + Before' /\ Finish(n)' <= Len(Stream')
      <4>1. Before' = Before
        BY <1>8
      <4>. QED
        BY ONLY <1>12, <1>20, <1>21, <4>1
    <3>. QED
      BY <1>21, <3>1, <3>2
  <2>2. \A j, k \in 1..n : j < k => Finish(j)' < Begin(k)'
    <3>1. ASSUME NEW j \in 1..Len(sent), NEW k \in 1..Len(sent), j < k
          PROVE  Finish(j)' < Begin(k)'
      BY <1>11, <1>21, <3>1
    <3>2. ASSUME NEW j \in 1..Len(sent) PROVE Finish(j)' < Begin(n)'
      <4>1. Finish(j)' = Finish(j) /\ Finish(j) \in Int /\ Finish(j) <= Z
        BY <1>11, <1>14, <1>21
      <4>2. Begin(n)' = Z + J + 1 /\ Z \in Nat /\ J \in Nat
        BY <1>12, <1>20
      <4>3. Finish(j) < Z + J + 1
        BY ONLY <4>1, <4>2
      <4>. QED
        BY <4>1, <4>2, <4>3
    <3>3. \A j, k \in 1..n : j < k => j \in 1..Len(sent)
      BY ONLY <1>12
    <3>. QED
      BY <1>21, <3>1, <3>2, <3>3
  <2>. QED
    BY <1>10, <2>1, <2>2 DEF Apart
<1>16. Returned'
  <2>1. /\ Len(extracted) \in Nat /\ Len(extracted) <= Len(sent)
        /\ extracted # <<>> => Len(extracted) \in 1..Len(sent)
    BY <1>12, LenProperties, EmptySeq DEF IInv, BufferTypeOK, Returned
  <2>2. Len(extracted) <= Len(sent')
    BY <1>10, <1>12, <2>1
  <2>3. \A k \in 1..Len(extracted) : k \in 1..Len(sent)
    BY ONLY <1>12, <2>1
  <2>. QED
    BY <1>4, <1>8, <1>10, <2>1, <2>2, <2>3 DEF IInv, Returned
<1>17. /\ n \in Ahead' /\ Ahead \subseteq Ahead' /\ Ahead \subseteq 1..Len(sent)
       /\ \A k \in Ahead' : k = n \/ k \in Ahead
  <2>1. Len(extracted) \in Nat /\ Len(extracted) <= Len(sent)
    BY LenProperties DEF IInv, BufferTypeOK, Returned
  <2>2. Ahead = Len(extracted) + 1..Len(sent) /\ Ahead' = Len(extracted) + 1..n
    BY <1>4, <1>10 DEF Ahead
  <2>. QED
    BY ONLY <1>12, <2>1, <2>2
<1>18. Standing'
  <2>1. ASSUME NEW k \in Ahead', NEW i \in 1..FullSize(sent'[k].payload)
        PROVE  Stream'[Begin(k)' + i - 1] = MakeProtocolMessage(sent'[k].payload)[i]
    <3>1. CASE k = n
      <4>1. i \in 1..Len(m) /\ Begin(k)' + i - 1 = Z + (J + i)
        BY <1>12, <1>20, <3>1
      <4>2. J + i \in 1..Len(more)
        BY ONLY <1>12, <4>1
      <4>3. Stream'[Begin(k)' + i - 1] = m[i]
        BY <1>5, <1>9, <4>1, <4>2 DEF Z, J
      <4>. QED
        BY <1>20, <3>1, <4>3 DEF m
    <3>2. CASE k \in Ahead
      <4>1. /\ sent'[k].payload = sent[k].payload /\ Begin(k)' = Begin(k)
            /\ k \in 1..Len(sent)
        BY <1>10, <1>11, <1>17, <3>2
      <4>2. 1 <= Begin(k)
        BY <3>2, AheadBehind DEF IInv
      <4>3. Begin(k) + i - 1 \in 1..Z
        <5>1. i \in 1..FullSize(sent[k].payload) /\ Finish(k) <= Z
          BY <1>21, <4>1
        <5>2. /\ Finish(k) \in Int /\ FullSize(sent[k].payload) \in Nat
              /\ Begin(k) = Finish(k) - FullSize(sent[k].payload) + 1
          BY <1>14, <4>1
        <5>3. Z \in Nat
          BY <1>12
        <5>. QED
          BY ONLY <4>2, <5>1, <5>2, <5>3
      <4>. QED
        BY <1>9, <3>2, <4>1, <4>3 DEF IInv, Standing, Z
    <3>. QED
      BY <1>17, <3>1, <3>2
  <2>2. ASSUME NEW i \in 1..Len(Stream'), Stream'[i].kind = "crc"
        PROVE  \E k \in Ahead' : i = Finish(k)'
    <3>1. CASE i \in 1..Len(Stream)
      <4>1. Stream[i].kind = "crc"
        BY <1>9, <2>2, <3>1
      <4>2. PICK k \in Ahead : i = Finish(k)
        BY <3>1, <4>1 DEF IInv, Standing
      <4>. QED
        BY <1>11, <1>17, <4>2
    <3>2. CASE i > Len(Stream)
      <4>1. PICK j \in 1..Len(more) : i = Z + j
        <5>1. i \in 1..Len(Stream') /\ i > Z
          BY <3>2 DEF Z
        <5>2. i - Z \in 1..Len(more) /\ i = Z + (i - Z)
          BY ONLY <1>12, <5>1
        <5>. QED
          BY <5>2
      <4>2. more[j].kind = "crc"
        BY <1>9, <2>2, <4>1 DEF Z
      <4>3. j \notin 1..J
        BY <1>3, <1>5, <4>2 DEF J
      <4>4. PICK h \in 1..Len(m) : j = J + h
        <5>1. j - J \in 1..Len(m) /\ j = J + (j - J)
          BY ONLY <1>12, <4>3, j \in 1..Len(more)
        <5>. QED
          BY <5>1
      <4>5. m[h].kind = "crc"
        BY <1>5, <4>2, <4>4 DEF J
      <4>6. h \notin 1..P + 2
        BY <1>2, <4>5 DEF P
      <4>7. i = Z + J + P + 3
        BY ONLY <1>12, <4>1, <4>4, <4>6, h \in 1..Len(m)
      <4>. QED
        BY <1>17, <1>20, <4>7
    <3>. QED
      BY <1>12, <3>1, <3>2 DEF Z
  <2>. QED
    BY <2>1, <2>2 DEF Standing
<1>19. NonePassed'
  <2>1. /\ UNCHANGED <<m_processingBuffer, markerPos>> /\ Finish(n)' > B
    <3>1. Finish(n)' > B
      BY ONLY <1>12, <1>20
    <3>. QED
      BY <1>4, <3>1
  <2>2. ASSUME NEW k \in Ahead', Finish(k)' <= Len(m_processingBuffer')
        PROVE  markerPos' # 0 /\ markerPos' <= Begin(k)'
    <3>1. Finish(k)' <= B
      BY <2>1, <2>2 DEF B
    <3>2. k \in Ahead
      BY ONLY <1>12, <1>17, <1>20, <2>1, <3>1, k \in Ahead'
    <3>3. Finish(k) <= B /\ Begin(k)' = Begin(k)
      BY <1>11, <1>17, <3>1, <3>2
    <3>. QED
      BY <2>1, <3>2, <3>3 DEF IInv, NonePassed, B
  <2>. QED
    BY <2>1, <2>2 DEF IInv, NonePassed
<1>. QED
  BY <1>13, <1>15, <1>16, <1>18, <1>19 DEF IInv

\* A frame to come lies in the stream from its magic to its checksum.
LEMMA FramesStand ==
  ASSUME PlainStream, BufferTypeOK, Apart, Returned, Standing, NEW k \in Ahead
  PROVE  LET payload == sent[k].payload IN
         /\ Begin(k) \in 1..Len(Stream) /\ Finish(k) \in 1..Len(Stream)
         /\ Begin(k) = Finish(k) - Len(payload) - 2
         /\ Stream[Begin(k)].kind = "magic"
         /\ Stream[Finish(k)] = Crc(Covered(payload))
         /\ \A i \in 1..Len(payload) + 2 : Stream[Begin(k) + i - 1] = Covered(payload)[i]
<1>. DEFINE payload == sent[k].payload
            m == MakeProtocolMessage(payload)
            P == Len(payload)
<1>1. /\ k \in 1..Len(sent) /\ payload \in Seq(PlainCell) /\ P \in Nat
      /\ FullSize(payload) = P + 3
      /\ Finish(k) \in Int /\ Begin(k) \in Int /\ Begin(k) = Finish(k) - (P + 3) + 1
  BY Places, LenProperties
<1>2. Begin(k) >= 1 /\ Finish(k) \in 1..Len(Stream)
  BY AheadBehind
<1>3. \A i \in 1..P + 3 : Stream[Begin(k) + i - 1] = m[i]
  BY <1>1 DEF Standing
<1>4. /\ m[P + 3] = Crc(Covered(payload))
      /\ \A i \in 1..P + 2 : m[i] = Covered(payload)[i]
  BY <1>1, FrameCells
<1>5. Covered(payload)[1].kind = "magic"
  BY <1>1, CoveredCells
<1>. HIDE DEF payload, m, P
<1>6. /\ Begin(k) + 1 - 1 = Begin(k) /\ Begin(k) + (P + 3) - 1 = Finish(k)
      /\ 1 \in 1..P + 2 /\ 1 \in 1..P + 3 /\ P + 3 \in 1..P + 3
      /\ \A i \in 1..P + 2 : i \in 1..P + 3
      /\ Begin(k) = Finish(k) - P - 2 /\ Begin(k) <= Finish(k)
  BY ONLY <1>1
<1>7. Stream[Begin(k)].kind = "magic" /\ Stream[Finish(k)] = Crc(Covered(payload))
  BY <1>3, <1>4, <1>5, <1>6
<1>8. \A i \in 1..P + 2 : Stream[Begin(k) + i - 1] = Covered(payload)[i]
  BY <1>3, <1>4, <1>6
<1>9. Begin(k) \in 1..Len(Stream)
  BY ONLY <1>1, <1>2, <1>6
<1>. QED
  BY <1>2, <1>6, <1>7, <1>8, <1>9 DEF payload, P

LEMMA AppendStep ==
  ASSUME PlainStream, IInv, NEW n \in 1..Len(coming), AppendBuffers(n)
  PROVE  IInv'
<1>. DEFINE chunk == SubSeq(coming, 1, n)
            B == Len(m_processingBuffer)
            C == Len(coming)
<1>1. /\ m_processingBuffer \in Seq(Cell) /\ coming \in Seq(Cell)
      /\ B \in Nat /\ C \in Nat /\ n \in 1..C /\ arrived \in Nat
  BY LenProperties DEF IInv, BufferTypeOK
<1>2. /\ m_processingBuffer' = m_processingBuffer \o chunk
      /\ coming' = Drop(coming, n) /\ arrived' = arrived + n /\ markerPos = 0
      /\ markerPos' = FindMagic(m_processingBuffer', 1)
      /\ UNCHANGED <<sent, extracted>>
  BY DEF AppendBuffers
<1>3. chunk \in Seq(Cell) /\ Len(chunk) = n
  <2>1. \A i \in 1..n : coming[i] \in Cell
    BY <1>1, ElementOfSeq
  <2>. QED
    BY <1>1, <2>1, SubSeqProperties
<1>4. /\ Drop(coming, n) \in Seq(Cell) /\ Len(Drop(coming, n)) = C - n
      /\ chunk \o Drop(coming, n) = coming
  <2>1. SubSeq(coming, 1, n) \o SubSeq(coming, n + 1, C) = SubSeq(coming, 1, C)
    BY <1>1, ConcatAdjacentSubSeq
  <2>2. SubSeq(coming, 1, C) = coming
    BY <1>1, SubSeqFull
  <2>3. n \in 0..C
    BY <1>1
  <2>. QED
    BY <1>1, <2>1, <2>2, <2>3, Cut DEF Drop
<1>. HIDE DEF chunk
<1>5. Stream' = Stream
  <2>1. m_processingBuffer \in Seq(Cell) /\ chunk \in Seq(Cell) /\ Drop(coming, n) \in Seq(Cell)
    BY <1>1, <1>3, <1>4
  <2>2. (m_processingBuffer \o chunk) \o Drop(coming, n)
          = m_processingBuffer \o (chunk \o Drop(coming, n))
    BY ONLY <2>1, ConcatAssociative
  <2>. QED
    BY <1>2, <1>4, <2>2 DEF Stream
<1>6. m_processingBuffer' \in Seq(Cell) /\ Len(m_processingBuffer') = B + n
  BY <1>1, <1>2, <1>3, Joined
<1>7. Before' = Before
  <2>1. Before' = (arrived + n) - (B + n) /\ Before = arrived - B
    BY <1>2, <1>6 DEF Before
  <2>. QED
    BY ONLY <1>1, <2>1
<1>8. /\ \A k : Finish(k)' = Finish(k) /\ Begin(k)' = Begin(k)
      /\ Ahead' = Ahead
  BY <1>2, <1>7 DEF Finish, Begin, Ahead
<1>9. /\ markerPos' \in 1..B + n + 1
      /\ \A k \in 1..B + n : m_processingBuffer'[k].kind = "magic" => markerPos' <= k
  <2>1. 1 \in 1..Len(m_processingBuffer') + 1
    BY <1>1, <1>6
  <2>. QED
    BY <1>2, <1>6, <2>1, FindMagicIs
<1>10. BufferTypeOK'
  BY <1>1, <1>2, <1>4, <1>6, <1>9 DEF IInv, BufferTypeOK
<1>11. Apart' /\ Returned' /\ Standing'
  BY <1>2, <1>5, <1>7, <1>8 DEF IInv, Apart, Returned, Standing
<1>12. ASSUME NEW k \in Ahead, Finish(k) <= B + n
       PROVE  markerPos' # 0 /\ markerPos' <= Begin(k)
  <2>1. /\ Begin(k) \in 1..Len(Stream) /\ Stream[Begin(k)].kind = "magic"
        /\ k \in 1..Len(sent) /\ Begin(k) < Finish(k)
    BY FramesStand, Places DEF IInv
  <2>2. Begin(k) \in Int /\ Finish(k) \in Int
    BY <2>1, Places DEF IInv
  <2>3. Begin(k) \in 1..B + n
    BY ONLY <1>1, <1>12, <2>1, <2>2
  <2>4. m_processingBuffer'[Begin(k)] = Stream'[Begin(k)]
    BY <1>6, <1>10, <2>3, Joined DEF BufferTypeOK, Stream
  <2>. QED
    BY <1>1, <1>5, <1>9, <2>1, <2>3, <2>4
<1>13. NonePassed'
  BY <1>2, <1>6, <1>8, <1>9, <1>12 DEF NonePassed
<1>. QED
  BY <1>10, <1>11, <1>13 DEF IInv

\* A complete frame at the marker is one that extractFromRawData finds.
LEMMA FrameIsFound ==
  ASSUME PlainStream, IInv, NEW k \in Ahead, Finish(k) <= Len(m_processingBuffer)
  PROVE  ExtractFromRawData(m_processingBuffer, Begin(k)) > 0
<1>. DEFINE s == m_processingBuffer
            p == Begin(k)
            payload == sent[k].payload
            P == Len(payload)
<1>1. /\ s \in Seq(Cell) /\ Len(s) \in Nat /\ payload \in Seq(PlainCell) /\ P \in Nat
      /\ Len(Stream) \in Nat
  BY Places, LenProperties DEF IInv, BufferTypeOK
<1>2. /\ p \in 1..Len(Stream) /\ Finish(k) \in 1..Len(Stream) /\ p = Finish(k) - P - 2
      /\ Stream[p].kind = "magic" /\ Stream[Finish(k)] = Crc(Covered(payload))
      /\ \A i \in 1..P + 2 : Stream[p + i - 1] = Covered(payload)[i]
  BY FramesStand DEF IInv
<1>3. \A i \in 1..Len(s) : s[i] = Stream[i]
  BY <1>1, Joined DEF IInv, BufferTypeOK, Stream
<1>4. /\ Covered(payload) \in Seq(PlainCell) /\ Len(Covered(payload)) = P + 2
      /\ Covered(payload)[2] = Size(P)
  BY <1>1, CoveredCells
<1>. HIDE DEF s, p, payload, P
<1>5. /\ p \in 1..Len(s) /\ p + 1 \in 1..Len(s) /\ p + P + 2 \in 1..Len(s)
      /\ p + P + 2 = Finish(k) /\ p + 1 = p + 2 - 1 /\ 2 \in 1..P + 2
      /\ p + 1 = p - 1 + 2 /\ Len(s) - p + 1 >= P + 3
      /\ p + (P + 3) - 1 = p + P + 2 /\ p + (P + 3) - 2 = p + P + 1
  <2>1. /\ p \in Int /\ 1 <= p /\ Finish(k) \in Int /\ p = Finish(k) - P - 2
        /\ Finish(k) <= Len(s)
    BY <1>1, <1>2 DEF s
  <2>2. Len(s) \in Nat /\ P \in Nat
    BY <1>1
  <2>3. p + P + 2 = Finish(k) /\ 1 <= p /\ p + P + 2 <= Len(s)
    BY ONLY <2>1, <2>2
  <2>4. p \in 1..Len(s) /\ p + 1 \in 1..Len(s) /\ p + P + 2 \in 1..Len(s)
    BY ONLY <2>1, <2>2, <2>3
  <2>5. /\ p + 1 = p + 2 - 1 /\ 2 \in 1..P + 2 /\ p + 1 = p - 1 + 2
        /\ p + (P + 3) - 1 = p + P + 2 /\ p + (P + 3) - 2 = p + P + 1
    BY ONLY <2>1, <2>2
  <2>6. Len(s) - p + 1 >= P + 3
    BY ONLY <2>1, <2>2, <2>3
  <2>. QED
    BY <2>3, <2>4, <2>5, <2>6
<1>6. s[p].kind = "magic" /\ s[p + 1] = Size(P) /\ s[p + P + 2] = Crc(Covered(payload))
  BY <1>2, <1>3, <1>4, <1>5
<1>7. s[p + 1].size = P /\ s[p + 1].kind = "size"
  BY <1>6 DEF Size
<1>8. SubSeq(s, p, p + P + 1) = Covered(payload)
  <2>1. \A i \in p..p + P + 1 : i \in 1..Len(s)
    BY ONLY <1>1, <1>5
  <2>2. /\ SubSeq(s, p, p + P + 1) \in Seq(Cell)
        /\ Len(SubSeq(s, p, p + P + 1)) = P + 2
        /\ \A i \in 1..P + 2 : SubSeq(s, p, p + P + 1)[i] = s[p + i - 1]
    <3>1. \A i \in p..p + P + 1 : s[i] \in Cell
      BY <1>1, <2>1, ElementOfSeq
    <3>2. p \in Int /\ p + P + 1 \in Int /\ p <= p + P + 1 /\ (p + P + 1) - p + 1 = P + 2
      BY ONLY <1>1, <1>5
    <3>. QED
      BY <3>1, <3>2, SubSeqProperties
  <2>3. \A i \in 1..P + 2 : s[p + i - 1] = Covered(payload)[i]
    <3>1. \A i \in 1..P + 2 : p + i - 1 \in 1..Len(s)
      BY ONLY <1>1, <1>5
    <3>. QED
      BY <1>2, <1>3, <3>1
  <2>. QED
    BY <1>4, <2>2, <2>3, SeqEqual, PlainIsCell
<1>9. ExtractFromRawData(s, p) = P + 3
  <2>1. Len(s) - p + 1 > 2
    BY ONLY <1>1, <1>5
  <2>2. TotalSize(P) = P + 3
    <3>1. FullSize(payload) < SizeValues
      BY Places DEF IInv, PlainStream, payload
    <3>. QED
      BY <1>1, <3>1, Totals DEF FullSize, P
  <2>3. HasHeader(s, p)
    BY <1>6, <1>7, <2>1 DEF HasHeader
  <2>4. TotalSize(s[p + 1].size) = P + 3 /\ P + 3 > 0 /\ Len(s) - p + 1 >= P + 3
    BY <1>1, <1>5, <1>7, <2>2
  <2>5. s[p + (P + 3) - 1] = Crc(SubSeq(s, p, p + (P + 3) - 2))
    BY <1>5, <1>6, <1>8
  <2>. QED
    BY <2>3, <2>4, <2>5 DEF ExtractFromRawData
<1>. QED
  BY <1>1, <1>9 DEF s, p

LEMMA SkipStep ==
  ASSUME PlainStream, IInv, SkipMarker
  PROVE  IInv'
<1>. DEFINE B == Len(m_processingBuffer)
            p == markerPos
<1>1. /\ m_processingBuffer \in Seq(Cell) /\ B \in Nat /\ p \in 1..B
      /\ ExtractFromRawData(m_processingBuffer, p) = 0
      /\ markerPos' = FindMagic(m_processingBuffer, p + 1)
      /\ UNCHANGED <<sent, coming, arrived, m_processingBuffer, extracted>>
  BY LenProperties DEF IInv, BufferTypeOK, SkipMarker, AtMarker
<1>2. /\ Stream' = Stream /\ Before' = Before /\ Ahead' = Ahead
      /\ \A k : Finish(k)' = Finish(k) /\ Begin(k)' = Begin(k)
  BY <1>1 DEF Stream, Before, Ahead, Finish, Begin
<1>3. /\ markerPos' \in p + 1..B + 1
      /\ \A k \in p + 1..B : m_processingBuffer[k].kind = "magic" => markerPos' <= k
  BY <1>1, FindMagicIs
<1>4. BufferTypeOK'
  BY <1>1, <1>3 DEF IInv, BufferTypeOK
<1>5. Apart' /\ Returned' /\ Standing'
  BY <1>1, <1>2 DEF IInv, Apart, Returned, Standing
<1>6. ASSUME NEW k \in Ahead, Finish(k) <= B
      PROVE  markerPos' # 0 /\ markerPos' <= Begin(k)
  <2>1. p <= Begin(k)
    BY <1>6 DEF IInv, NonePassed
  <2>2. Begin(k) # p
    BY <1>1, <1>6, FrameIsFound
  <2>3. /\ Begin(k) \in Int /\ Finish(k) \in Int /\ Begin(k) < Finish(k)
        /\ Begin(k) \in 1..Len(Stream) /\ Stream[Begin(k)].kind = "magic"
    BY FramesStand, Places DEF IInv
  <2>4. Begin(k) \in 1..B /\ Begin(k) \in p + 1..B
    BY ONLY <1>1, <1>6, <2>1, <2>2, <2>3
  <2>5. m_processingBuffer[Begin(k)] = Stream[Begin(k)]
    BY <1>1, <2>4, Joined DEF IInv, BufferTypeOK, Stream
  <2>. QED
    BY <1>1, <1>3, <2>3, <2>4, <2>5
<1>7. NonePassed'
  BY <1>1, <1>2, <1>3, <1>6 DEF NonePassed
<1>. QED
  BY <1>4, <1>5, <1>7 DEF IInv

LEMMA ReturnStep ==
  ASSUME PlainStream, IInv, ReturnMessages
  PROVE  IInv'
<1>1. /\ markerPos = Len(m_processingBuffer) + 1 /\ markerPos' = 0
      /\ Len(m_processingBuffer) \in Nat
      /\ UNCHANGED <<sent, coming, arrived, m_processingBuffer, extracted>>
  BY LenProperties DEF IInv, BufferTypeOK, ReturnMessages
<1>2. /\ Stream' = Stream /\ Before' = Before /\ Ahead' = Ahead
      /\ \A k : Finish(k)' = Finish(k) /\ Begin(k)' = Begin(k)
  BY <1>1 DEF Stream, Before, Ahead, Finish, Begin
<1>3. BufferTypeOK' /\ Apart' /\ Returned' /\ Standing'
  BY <1>1, <1>2 DEF IInv, BufferTypeOK, Apart, Returned, Standing
<1>4. ASSUME NEW k \in Ahead PROVE ~(Finish(k) <= Len(m_processingBuffer))
  <2>1. Begin(k) \in Int /\ Finish(k) \in Int /\ Begin(k) < Finish(k)
    BY Places DEF IInv
  <2>2. Finish(k) <= Len(m_processingBuffer) => markerPos <= Begin(k)
    BY DEF IInv, NonePassed
  <2>. QED
    BY ONLY <1>1, <2>1, <2>2
<1>5. NonePassed'
  BY <1>1, <1>2, <1>4 DEF NonePassed
<1>. QED
  BY <1>3, <1>5 DEF IInv

\* What extractFromRawData finds is the next frame: a checksum that matches is that of a
\* frame of the stream, over its very cells, and none before it is passed.
LEMMA FoundIsFrame ==
  ASSUME PlainStream, IInv, AtMarker,
         ExtractFromRawData(m_processingBuffer, markerPos) > 0
  PROVE  LET k == Len(extracted) + 1
             z == ExtractFromRawData(m_processingBuffer, markerPos)
         IN  /\ k \in Ahead
             /\ z = FullSize(sent[k].payload) /\ z \in Nat
             /\ Finish(k) = markerPos + z - 1
             /\ Finish(k) <= Len(m_processingBuffer)
             /\ SubSeq(m_processingBuffer, markerPos + 2, markerPos + z - 2) = sent[k].payload
<1>. DEFINE s == m_processingBuffer
            p == markerPos
            z == ExtractFromRawData(s, p)
            c == SubSeq(s, p, p + z - 2)
            L == Len(s)
<1>1. s \in Seq(Cell) /\ L \in Nat /\ p \in 1..L /\ z > 0
  BY LenProperties DEF IInv, BufferTypeOK, AtMarker
<1>2. /\ z = TotalSize(s[p + 1].size)
      /\ L - p + 1 > 2 /\ L - p + 1 >= z /\ s[p + z - 1] = Crc(c)
  <2>. DEFINE total == TotalSize(s[p + 1].size)
  <2>1. /\ HasHeader(s, p) /\ L - p + 1 >= total /\ z = total
        /\ s[p + total - 1] = Crc(SubSeq(s, p, p + total - 2))
    <3>. HIDE DEF total, s, p, L
    <3>1. ~(/\ HasHeader(s, p) /\ L - p + 1 >= total /\ total > 0
            /\ s[p + total - 1] = Crc(SubSeq(s, p, p + total - 2))) => z = 0
      BY DEF ExtractFromRawData, total, L
    <3>2. (/\ HasHeader(s, p) /\ L - p + 1 >= total /\ total > 0
           /\ s[p + total - 1] = Crc(SubSeq(s, p, p + total - 2))) => z = total
      BY DEF ExtractFromRawData, total, L
    <3>. QED
      BY <1>1, <3>1, <3>2
  <2>. HIDE DEF total, z
  <2>2. L - p + 1 > 2
    BY <2>1 DEF HasHeader
  <2>. QED
    BY <2>1, <2>2 DEF total
<1>3. L - p + 1 >= z /\ s[p + z - 1] = Crc(c)
  BY <1>2
<1>4. z \in Nat /\ z >= 1
  <2>1. p + 1 \in 1..L
    BY ONLY <1>1, <1>2
  <2>2. s[p + 1] \in Cell
    BY <1>1, <2>1, ElementOfSeq
  <2>3. s[p + 1].size \in Nat
    BY <2>2 DEF Cell, PlainCell
  <2>4. TotalSize(s[p + 1].size) \in Nat
    BY <2>3, Totals
  <2>. HIDE DEF z
  <2>. QED
    BY <1>1, <1>2, <2>4
<1>. HIDE DEF s, p, z, c, L
<1>5. p + z - 1 \in 1..L
  BY ONLY <1>1, <1>3, <1>4
<1>6. /\ Len(c) = z - 1
      /\ \A i \in 1..z - 1 : c[i] = s[p + i - 1]
  <2>1. PICK b \in p - 1..L : b = p + z - 2 /\ b - p + 1 = z - 1
    <3>1. p + z - 2 \in p - 1..L /\ (p + z - 2) - p + 1 = z - 1
      BY ONLY <1>1, <1>3, <1>4
    <3>. QED
      BY ONLY <3>1
  <2>2. p \in 1..L + 1
    BY ONLY <1>1
  <2>3. /\ Len(SubSeq(s, p, b)) = b - p + 1
        /\ \A i \in 1..b - p + 1 : SubSeq(s, p, b)[i] = s[p + i - 1]
    BY ONLY <1>1, <2>1, <2>2, Slice DEF L
  <2>. QED
    BY <2>1, <2>3 DEF c
<1>7. /\ Len(Stream) \in Nat /\ L <= Len(Stream)
      /\ \A i \in 1..L : Stream[i] = s[i]
  BY <1>1, Joined DEF IInv, BufferTypeOK, Stream, s, L
<1>8. PICK k \in Ahead : p + z - 1 = Finish(k)
  <2>1. Stream[p + z - 1].kind = "crc"
    BY <1>3, <1>5, <1>7 DEF Crc
  <2>2. p + z - 1 \in 1..Len(Stream)
    BY ONLY <1>5, <1>7, <1>1
  <2>. QED
    BY <2>1, <2>2 DEF IInv, Standing
<1>. DEFINE payload == sent[k].payload
            P == Len(payload)
<1>9. /\ Begin(k) = Finish(k) - P - 2 /\ Begin(k) \in Int /\ Finish(k) \in Int
      /\ Stream[Finish(k)] = Crc(Covered(payload))
      /\ payload \in Seq(PlainCell) /\ P \in Nat /\ FullSize(payload) = P + 3
  BY FramesStand, Places, LenProperties DEF IInv
<1>10. c = Covered(payload)
  <2>1. Crc(c) = Crc(Covered(payload))
    BY <1>3, <1>5, <1>7, <1>8, <1>9
  <2>. QED
    BY <2>1 DEF Crc
<1>11. /\ Len(Covered(payload)) = P + 2
       /\ \A i \in 1..P : Covered(payload)[i + 2] = payload[i]
  BY <1>9, CoveredCells
<1>12. z = P + 3 /\ Begin(k) = p
  <2>1. z - 1 = P + 2
    BY <1>6, <1>10, <1>11
  <2>. QED
    <3>1. p \in Nat
      BY ONLY <1>1
    <3>2. P \in Nat /\ z \in Nat
      BY <1>4, <1>9
    <3>3. z = P + 3
      BY ONLY <2>1, <3>2
    <3>4. Begin(k) = (p + (P + 3) - 1) - P - 2
      BY <1>8, <1>9, <3>3
    <3>5. \A x, y \in Nat : (x + (y + 3) - 1) - y - 2 = x
      OBVIOUS
    <3>. QED
      BY <3>1, <3>2, <3>3, <3>4, <3>5
<1>13. k = Len(extracted) + 1
  <2>. DEFINE j == Len(extracted) + 1
  <2>1. /\ Len(extracted) \in Nat /\ Len(sent) \in Nat /\ k \in j..Len(sent)
    BY LenProperties DEF IInv, BufferTypeOK, Ahead
  <2>2. SUFFICES ASSUME k # j PROVE FALSE
    OBVIOUS
  <2>3. j \in Ahead /\ j \in 1..Len(sent) /\ k \in 1..Len(sent) /\ j < k
    BY <2>1, <2>2 DEF Ahead
  <2>4. Finish(j) < Begin(k)
    BY <2>3 DEF IInv, Apart
  <2>5. Finish(j) \in Int /\ Begin(j) \in Int /\ Begin(j) < Finish(j)
    BY <2>3, Places DEF IInv
  <2>6. Finish(j) <= L => p <= Begin(j)
    BY <2>3 DEF IInv, NonePassed, L, p, s
  <2>. QED
    BY ONLY <1>1, <1>12, <2>4, <2>5, <2>6
<1>14. SubSeq(s, p + 2, p + z - 2) = payload
  <2>. DEFINE t == SubSeq(s, p + 2, p + z - 2)
  <2>1. PICK a \in 1..L + 1, b \in 0..L : a = p + 2 /\ b = p + z - 2 /\ b - a + 1 = P
    <3>1. /\ p + 2 \in 1..L + 1 /\ p + z - 2 \in 0..L
          /\ (p + z - 2) - (p + 2) + 1 = P
      <4>1. z = P + 3 /\ P \in Nat
        BY <1>9, <1>12
      <4>. QED
        BY ONLY <1>1, <1>3, <4>1
    <3>. QED
      BY ONLY <3>1
  <2>2. b \in a - 1..L
    BY ONLY <1>9, <2>1
  <2>3. /\ SubSeq(s, a, b) \in Seq(Cell) /\ Len(SubSeq(s, a, b)) = b - a + 1
        /\ \A i \in 1..b - a + 1 : SubSeq(s, a, b)[i] = s[a + i - 1]
    <3>1. s \in Seq(Cell) /\ a \in 1..Len(s) + 1 /\ b \in a - 1..Len(s)
      BY <1>1, <2>1, <2>2 DEF L
    <3>. QED
      BY ONLY <3>1, Slice
  <2>4. /\ t \in Seq(Cell) /\ Len(t) = P
        /\ \A i \in 1..P : t[i] = s[p + 2 + i - 1]
    BY <2>1, <2>3
  <2>5. \A i \in 1..P : /\ p + 2 + i - 1 = p + (i + 2) - 1
                        /\ i + 2 \in 1..z - 1
    BY ONLY <1>1, <1>9, <1>12
  <2>6. ASSUME NEW i \in 1..P PROVE t[i] = payload[i]
    <3>1. t[i] = s[p + (i + 2) - 1]
      BY <2>4, <2>5
    <3>2. s[p + (i + 2) - 1] = c[i + 2]
      BY <1>6, <2>5
    <3>. QED
      BY <1>10, <1>11, <3>1, <3>2
  <2>. QED
    BY <1>9, <2>4, <2>6, SeqEqual, PlainIsCell
<1>15. p + z - 1 <= L
  BY ONLY <1>1, <1>5
<1>. QED
  BY <1>4, <1>8, <1>9, <1>12, <1>13, <1>14, <1>15 DEF s, p, z, L

LEMMA ExtractStep ==
  ASSUME PlainStream, IInv, ExtractMessage
  PROVE  IInv'
<1>. DEFINE s == m_processingBuffer
            L == Len(s)
            Z == Len(Stream)
<1>0. PICK k \in Nat : k = Len(extracted) + 1
  BY LenProperties DEF IInv, BufferTypeOK
<1>. DEFINE d == Finish(k)
            payload == sent[k].payload
<1>1. /\ s \in Seq(Cell) /\ coming \in Seq(Cell) /\ L \in Nat /\ Z \in Nat
      /\ Z = L + Len(coming) /\ Len(coming) \in Nat /\ arrived \in Nat
      /\ Before \in Nat /\ Before = arrived - L
      /\ extracted \in Seq(Seq(Cell)) /\ Len(sent) \in Nat
  BY Places, AheadBehind, LenProperties DEF IInv, BufferTypeOK, Before
<1>2. /\ k \in Ahead /\ d \in Int /\ d <= L /\ 1 <= d /\ k \in 1..Len(sent)
      /\ sent[k].end = Before + d /\ payload \in Seq(Cell)
  <2>1. /\ k \in Ahead /\ d <= L
    BY <1>0, FoundIsFrame DEF ExtractMessage
  <2>2. d \in 1..Len(Stream) /\ k \in 1..Len(sent)
    BY <2>1, AheadBehind DEF IInv
  <2>3. payload \in Seq(Cell) /\ sent[k].end \in Nat /\ d = sent[k].end - Before
    BY <2>2, Places, PlainIsCell DEF IInv
  <2>4. d \in Int /\ 1 <= d /\ sent[k].end = Before + d
    BY ONLY <1>1, <2>2, <2>3
  <2>. QED
    BY <2>1, <2>2, <2>3, <2>4
<1>3. /\ extracted' = Append(extracted, payload)
      /\ m_processingBuffer' = Drop(s, d)
      /\ markerPos' = FindMagic(m_processingBuffer', 1)
      /\ UNCHANGED <<sent, coming, arrived>>
  <2>. DEFINE z == ExtractFromRawData(s, markerPos)
              t == SubSeq(s, markerPos + 2, markerPos + z - 2)
  <2>1. /\ t = payload /\ z = FullSize(payload) /\ d = markerPos + z - 1
        /\ z \in Nat
    BY <1>0, FoundIsFrame DEF ExtractMessage
  <2>2. /\ extracted' = Append(extracted, t)
        /\ m_processingBuffer' = Drop(s, markerPos - 1 + FullSize(t))
        /\ markerPos' = FindMagic(m_processingBuffer', 1)
        /\ UNCHANGED <<sent, coming, arrived>>
    BY DEF ExtractMessage
  <2>3. markerPos \in Nat
    BY DEF IInv, BufferTypeOK
  <2>. HIDE DEF z, t, d, payload
  <2>4. markerPos - 1 + z = d
    BY ONLY <2>1, <2>3
  <2>. QED
    BY <2>1, <2>2, <2>4
<1>. HIDE DEF s, L, Z, d, payload
<1>4. /\ Drop(s, d) \in Seq(Cell) /\ Len(Drop(s, d)) = L - d
      /\ \A i \in 1..L - d : Drop(s, d)[i] = s[i + d]
  <2>1. d \in 0..Len(s)
    BY <1>1, <1>2 DEF L
  <2>. QED
    BY ONLY <1>1, <2>1, Cut DEF L
<1>5. /\ Len(Stream') = Z - d
      /\ \A i \in 1..Z - d : Stream'[i] = Stream[i + d]
  <2>1. Stream' = Drop(s, d) \o coming
    BY <1>3 DEF Stream
  <2>2. /\ Len(Stream') = L - d + Len(coming)
        /\ \A i \in 1..L - d : Stream'[i] = Drop(s, d)[i]
        /\ \A i \in 1..Len(coming) : Stream'[L - d + i] = coming[i]
    <3>. DEFINE r == Drop(s, d)
    <3>1. r \in Seq(Cell) /\ coming \in Seq(Cell)
      BY <1>1, <1>4
    <3>2. Stream' = r \o coming
      BY <2>1
    <3>. HIDE DEF r
    <3>3. /\ Len(Stream') = Len(r) + Len(coming)
          /\ \A i \in 1..Len(r) : Stream'[i] = r[i]
          /\ \A i \in 1..Len(coming) : Stream'[Len(r) + i] = coming[i]
      BY ONLY <3>1, <3>2, Joined
    <3>4. Len(r) = L - d
      BY <1>4 DEF r
    <3>. QED
      BY <3>3, <3>4 DEF r
  <2>3. /\ \A i \in 1..L : Stream[i] = s[i]
        /\ \A i \in 1..Len(coming) : Stream[L + i] = coming[i]
    BY <1>1, Joined DEF Stream, s, L
  <2>4. ASSUME NEW i \in 1..Z - d PROVE Stream'[i] = Stream[i + d]
    <3>1. CASE i \in 1..L - d
      <4>1. i + d \in 1..L
        BY ONLY <1>1, <1>2, <3>1
      <4>. QED
        BY <1>4, <2>2, <2>3, <3>1, <4>1
    <3>2. CASE i > L - d
      <4>1. PICK j \in 1..Len(coming) : j = i - (L - d)
        BY ONLY <1>1, <1>2, <3>2, i \in 1..Z - d
      <4>2. i = L - d + j /\ i + d = L + j
        BY ONLY <1>1, <1>2, <4>1, i \in 1..Z - d
      <4>. QED
        BY <2>2, <2>3, <4>2
    <3>. QED
      BY ONLY <1>1, <1>2, <3>1, <3>2, i \in 1..Z - d
  <2>5. L - d + Len(coming) = Z - d
    BY ONLY <1>1, <1>2
  <2>. QED
    BY <2>2, <2>4, <2>5
<1>6. Before' = Before + d
  <2>1. Before' = arrived - (L - d)
    BY <1>3, <1>4 DEF Before
  <2>. QED
    BY ONLY <1>1, <1>2, <2>1
<1>7. \A j \in 1..Len(sent) :
        /\ Finish(j) \in Int /\ Begin(j) \in Int /\ Begin(j) < Finish(j)
        /\ Finish(j)' = Finish(j) - d /\ Begin(j)' = Begin(j) - d
        /\ FullSize(sent[j].payload) \in Nat
        /\ Begin(j) = Finish(j) - FullSize(sent[j].payload) + 1
  <2>. TAKE j \in 1..Len(sent)
  <2>1. /\ Finish(j) \in Int /\ Begin(j) \in Int /\ Begin(j) < Finish(j)
        /\ Finish(j) = sent[j].end - Before /\ sent[j].end \in Nat
        /\ FullSize(sent[j].payload) \in Nat
        /\ Begin(j) = Finish(j) - FullSize(sent[j].payload) + 1
    BY Places DEF IInv
  <2>2. /\ Finish(j)' = sent[j].end - (Before + d)
        /\ Begin(j)' = Finish(j)' - FullSize(sent[j].payload) + 1
    BY <1>3, <1>6 DEF Finish, Begin
  <2>5. Before \in Int /\ d \in Int
    BY <1>1, <1>2
  <2>3. Finish(j)' = Finish(j) - d
    <3>1. \A x, y, z \in Int : x - (y + z) = (x - y) - z
      OBVIOUS
    <3>. QED
      BY <2>1, <2>2, <2>5, <3>1
  <2>4. Begin(j)' = Begin(j) - d
    <3>1. PICK f \in Int, n \in Int, e \in Int :
            f = Finish(j) /\ n = FullSize(sent[j].payload) /\ e = d
      BY <2>1, <2>5
    <3>2. Begin(j) = f - n + 1 /\ Begin(j)' = (f - e) - n + 1
      BY <2>1, <2>2, <2>3, <3>1
    <3>3. (f - e) - n + 1 = (f - n + 1) - e
      OBVIOUS
    <3>. QED
      BY <3>1, <3>2, <3>3
  <2>. QED
    BY <2>1, <2>3, <2>4
<1>8. /\ extracted' \in Seq(Seq(Cell)) /\ Len(extracted') = k
      /\ extracted'[k] = payload
      /\ \A j \in 1..Len(extracted) : extracted'[j] = extracted[j]
  BY <1>0, <1>1, <1>2, <1>3, AppendProperties
<1>9. /\ \A j \in Ahead' : j \in Ahead /\ j \in 1..Len(sent) /\ k < j
      /\ \A j \in Ahead : j = k \/ j \in Ahead'
  <2>1. Ahead' = k + 1..Len(sent) /\ Ahead = k..Len(sent)
    BY <1>0, <1>3, <1>8 DEF Ahead
  <2>. QED
    BY ONLY <1>0, <1>1, <2>1
<1>10. /\ markerPos' \in 1..L - d + 1
       /\ \A i \in 1..L - d : m_processingBuffer'[i].kind = "magic" => markerPos' <= i
  <2>1. 1 \in 1..Len(Drop(s, d)) + 1 /\ Len(Drop(s, d)) = L - d
    BY <1>1, <1>2, <1>4
  <2>. QED
    BY <1>3, <1>4, <2>1, FindMagicIs
<1>11. BufferTypeOK'
  BY <1>1, <1>3, <1>4, <1>8, <1>10 DEF IInv, BufferTypeOK
<1>12. Apart'
  <2>1. ASSUME NEW j \in 1..Len(sent)
        PROVE  1 <= Begin(j)' + Before' /\ Finish(j)' <= Len(Stream')
    <3>1. 1 <= Begin(j) + Before /\ Finish(j) <= Z
      BY DEF IInv, Apart, Z
    <3>2. Begin(j) \in Int /\ Finish(j) \in Int /\ Before \in Int /\ Z \in Int /\ d \in Int
      BY <1>1, <1>2, <1>7
    <3>3. 1 <= (Begin(j) - d) + (Before + d) /\ Finish(j) - d <= Z - d
      BY ONLY <3>1, <3>2
    <3>. QED
      BY <1>5, <1>6, <1>7, <3>3
  <2>2. ASSUME NEW i \in 1..Len(sent), NEW j \in 1..Len(sent), i < j
        PROVE  Finish(i)' < Begin(j)'
    <3>1. Finish(i) < Begin(j)
      BY <2>2 DEF IInv, Apart
    <3>2. Begin(j) \in Int /\ Finish(i) \in Int /\ d \in Int
      BY <1>2, <1>7
    <3>3. Finish(i) - d < Begin(j) - d
      BY ONLY <3>1, <3>2
    <3>. QED
      BY <1>7, <3>3
  <2>. QED
    BY <1>3, <2>1, <2>2 DEF Apart
<1>13. Returned'
  <2>1. Before' = sent'[Len(extracted')].end
    BY <1>2, <1>3, <1>6, <1>8
  <2>2. extracted' # <<>>
    BY <1>0, <1>8
  <2>3. ASSUME NEW j \in 1..Len(extracted') PROVE extracted'[j] = sent'[j].payload
    <3>1. j = k \/ j \in 1..Len(extracted)
      BY <1>0, <1>8
    <3>. QED
      BY <1>3, <1>8, <3>1 DEF IInv, Returned, payload
  <2>4. Len(extracted') <= Len(sent')
    BY <1>2, <1>3, <1>8
  <2>. QED
    BY <2>1, <2>2, <2>3, <2>4 DEF Returned
<1>14. \A j \in Ahead' : d < Begin(j) /\ Finish(j) <= Z
  BY <1>2, <1>9 DEF IInv, Apart, d, Z
<1>15. Standing'
  <2>1. ASSUME NEW j \in Ahead', NEW i \in 1..FullSize(sent'[j].payload)
        PROVE  Stream'[Begin(j)' + i - 1] = MakeProtocolMessage(sent'[j].payload)[i]
    <3>1. i \in 1..FullSize(sent[j].payload) /\ j \in Ahead /\ j \in 1..Len(sent)
      BY <1>3, <1>9
    <3>2. Stream[Begin(j) + i - 1] = MakeProtocolMessage(sent[j].payload)[i]
      BY <3>1 DEF IInv, Standing
    <3>3. /\ Begin(j) - d + i - 1 \in 1..Z - d
          /\ Begin(j) - d + i - 1 + d = Begin(j) + i - 1
      <4>1. d < Begin(j) /\ Finish(j) <= Z
        BY <1>14
      <4>2. /\ Finish(j) \in Int /\ FullSize(sent[j].payload) \in Nat
            /\ Begin(j) = Finish(j) - FullSize(sent[j].payload) + 1
        BY <1>7, <3>1
      <4>3. PICK b, f, n, e, y \in Int :
              /\ b = Begin(j) /\ f = Finish(j) /\ n = FullSize(sent[j].payload)
              /\ e = d /\ y = Z
        BY <1>1, <1>2, <4>2
      <4>4. i \in 1..n /\ e < b /\ f <= y /\ b = f - n + 1
        BY <3>1, <4>1, <4>2, <4>3
      <4>5. b - e + i - 1 \in 1..y - e /\ b - e + i - 1 + e = b + i - 1
        BY ONLY <4>3, <4>4
      <4>. QED
        BY <4>3, <4>5
    <3>. QED
      BY <1>3, <1>5, <1>7, <3>1, <3>2, <3>3
  <2>2. ASSUME NEW i \in 1..Len(Stream'), Stream'[i].kind = "crc"
        PROVE  \E j \in Ahead' : i = Finish(j)'
    <3>1. i \in 1..Z - d /\ i + d \in 1..Z
      <4>1. i \in 1..Z - d /\ d \in Int /\ 1 <= d /\ Z \in Int
        BY <1>1, <1>2, <1>5
      <4>. QED
        BY ONLY <4>1
    <3>2. Stream[i + d].kind = "crc"
      BY <1>5, <2>2, <3>1
    <3>3. PICK j \in Ahead : i + d = Finish(j)
      BY <3>1, <3>2 DEF IInv, Standing, Z
    <3>4. j # k
      <4>1. i + d # d
        BY ONLY <1>1, <1>2, <3>1
      <4>. QED
        BY <3>3, <4>1 DEF d
    <3>5. j \in Ahead' /\ j \in 1..Len(sent)
      BY <1>9, <3>4
    <3>6. i = Finish(j) - d
      BY ONLY <1>2, <1>7, <3>1, <3>3, <3>5
    <3>. QED
      BY <1>7, <3>5, <3>6
  <2>. QED
    BY <2>1, <2>2 DEF Standing
<1>16. NonePassed'
  <2>1. ASSUME NEW j \in Ahead', Finish(j)' <= L - d
        PROVE  markerPos' # 0 /\ markerPos' <= Begin(j)'
    <3>1. j \in Ahead /\ j \in 1..Len(sent) /\ d < Begin(j)
      BY <1>9, <1>14
    <3>2. Stream[Begin(j)].kind = "magic"
      BY <3>1, FramesStand DEF IInv
    <3>3. Finish(j) - d <= L - d
      BY <1>7, <2>1, <3>1
    <3>4. Begin(j) - d \in 1..L - d /\ Begin(j) \in 1..L /\ Begin(j) - d + d = Begin(j)
      <4>1. /\ Begin(j) \in Int /\ Finish(j) \in Int /\ Begin(j) < Finish(j)
            /\ d \in Int /\ 1 <= d /\ L \in Int
        BY <1>1, <1>2, <1>7, <3>1
      <4>. QED
        BY ONLY <3>1, <3>3, <4>1
    <3>5. m_processingBuffer'[Begin(j) - d] = s[Begin(j)]
      BY <1>3, <1>4, <3>4
    <3>6. s[Begin(j)] = Stream[Begin(j)]
      BY <1>1, <3>4, Joined DEF Stream, s, L
    <3>. QED
      BY <1>7, <1>10, <3>1, <3>2, <3>4, <3>5, <3>6
  <2>. QED
    BY <1>3, <1>4, <1>10, <2>1 DEF NonePassed
<1>. QED
  BY <1>11, <1>12, <1>13, <1>15, <1>16 DEF IInv

-----------------------------------------------------------------------------
(* The invariant holds.                                                        *)

LEMMA InitHolds == ASSUME PlainStream, Init PROVE IInv
<1>1. sent = <<>> /\ coming = <<>> /\ arrived = 0 /\ m_processingBuffer = <<>>
      /\ markerPos = 0 /\ extracted = <<>>
  BY DEF Init
<1>2. BufferTypeOK /\ Len(sent) = 0 /\ Len(extracted) = 0 /\ Len(m_processingBuffer) = 0
  BY <1>1 DEF BufferTypeOK
<1>3. Ahead = {} /\ Before = 0
  <2>1. Ahead = 0 + 1..0 /\ Before = 0 - 0
    BY <1>1, <1>2 DEF Ahead, Before
  <2>. QED
    BY ONLY <2>1
<1>4. Stream \in Seq(Cell) /\ Len(Stream) = 0
  <2>1. <<>> \in Seq(Cell) /\ Len(<<>>) = 0
    BY EmptySeq
  <2>2. Stream = <<>> \o <<>>
    BY <1>1 DEF Stream
  <2>. QED
    BY ONLY <2>1, <2>2, Joined
<1>. QED
  BY <1>1, <1>2, <1>3, <1>4 DEF IInv, Apart, Returned, Standing, NonePassed

LEMMA StillHolds ==
  ASSUME PlainStream, IInv,
         UNCHANGED <<sent, coming, arrived, m_processingBuffer, markerPos, extracted>>
  PROVE  IInv'
<1>1. /\ Stream' = Stream /\ Before' = Before /\ Ahead' = Ahead
      /\ \A k : Finish(k)' = Finish(k) /\ Begin(k)' = Begin(k)
  BY DEF Stream, Before, Ahead, Finish, Begin
<1>2. BufferTypeOK' /\ Returned' /\ NonePassed'
  BY <1>1 DEF IInv, BufferTypeOK, Returned, NonePassed
<1>3. Apart' /\ Standing'
  BY <1>1 DEF IInv, Apart, Standing
<1>. QED
  BY <1>2, <1>3 DEF IInv

LEMMA StepHolds == ASSUME PlainStream, IInv, [Next]_vars PROVE IInv'
<1>1. CASE UNCHANGED vars
  BY <1>1, StillHolds DEF vars
<1>2. CASE ReadOutside
  <2>1. UNCHANGED <<sent, coming, arrived, m_processingBuffer, markerPos, extracted>>
    BY <1>2 DEF ReadOutside
  <2>. QED
    BY <2>1, StillHolds
<1>3. CASE Next
  BY <1>1, <1>2, <1>3, SendStep, AppendStep, ExtractStep, SkipStep, ReturnStep
     DEF Next, Messages, StreamEnd
<1>. QED
  BY <1>1, <1>3

THEOREM Invariance == PlainStream => (Spec => []IInv)
<1>. SUFFICES ASSUME PlainStream PROVE Spec => []IInv
  OBVIOUS
<1>1. Init => IInv
  BY InitHolds
<1>2. IInv /\ [Next]_vars => IInv'
  BY StepHolds
<1>. QED
  BY <1>1, <1>2, PTL DEF Spec

-----------------------------------------------------------------------------
(* What follows for the reader of the stream.                                  *)

LEMMA ReturnedIsComplete ==
  ASSUME PlainStream, IInv, NEW k \in 1..Len(extracted)
  PROVE  k \in 1..Len(sent) /\ sent[k].end <= arrived
<1>. DEFINE N == Len(extracted)
            B == Len(m_processingBuffer)
<1>1. /\ N \in Nat /\ Len(sent) \in Nat /\ N <= Len(sent) /\ B \in Nat /\ arrived \in Nat
      /\ Before \in Nat /\ Before = arrived - B
  BY AheadBehind, LenProperties DEF IInv, BufferTypeOK, Returned, Before
<1>2. k \in 1..Len(sent) /\ N \in 1..Len(sent) /\ (k = N \/ k < N)
  BY ONLY <1>1, k \in 1..N
<1>3. Before = sent[N].end
  BY <1>2, EmptySeq DEF IInv, Returned
<1>4. k < N => Finish(k) < Begin(N)
  BY <1>2 DEF IInv, Apart
<1>5. /\ Finish(k) = sent[k].end - Before /\ Finish(N) = sent[N].end - Before
      /\ Begin(N) < Finish(N) /\ Begin(N) \in Int
      /\ sent[k].end \in Nat /\ sent[N].end \in Nat
  BY <1>2, Places DEF IInv
<1>6. sent[k].end <= sent[N].end
  <2>1. CASE k < N
    <3>1. sent[k].end - Before < Begin(N) /\ Begin(N) < sent[N].end - Before
      BY <1>4, <1>5, <2>1
    <3>. QED
      BY ONLY <1>1, <1>5, <3>1
  <2>2. CASE k = N
    BY <1>5, <2>2
  <2>. QED
    BY <1>2, <2>1, <2>2
<1>7. sent[N].end <= arrived
  BY ONLY <1>1, <1>3
<1>. QED
  BY ONLY <1>1, <1>2, <1>5, <1>6, <1>7

\* messages() returns exactly the complete frames (bufferprocessor.cpp:26-59), in a stream
\* whose payloads and whose junk hold no checksum that matches something.
THEOREM FramesExtracted == PlainStream => (Spec => []ExtractedExactly)
<1>. SUFFICES ASSUME PlainStream PROVE Spec => []ExtractedExactly
  OBVIOUS
<1>1. ASSUME IInv, markerPos = 0
      PROVE  /\ extracted = [k \in 1..Len(extracted) |-> sent[k].payload]
             /\ Complete = 1..Len(extracted)
  <2>. DEFINE N == Len(extracted)
              B == Len(m_processingBuffer)
  <2>1. /\ N \in Nat /\ Len(sent) \in Nat /\ N <= Len(sent) /\ B \in Nat /\ arrived \in Nat
        /\ Before \in Nat /\ Before = arrived - B
    BY <1>1, AheadBehind, LenProperties DEF IInv, BufferTypeOK, Returned, Before
  <2>2. extracted = [k \in 1..N |-> sent[k].payload]
    <3>1. extracted = [k \in 1..N |-> extracted[k]]
      BY <1>1, LenProperties DEF IInv, BufferTypeOK
    <3>. QED
      BY <1>1, <3>1 DEF IInv, Returned
  <2>3. \A k \in 1..Len(sent) : k \in 1..N \/ k \in Ahead
    BY <2>1 DEF Ahead
  <2>4. ASSUME NEW k \in Ahead PROVE k \in 1..Len(sent) /\ ~(sent[k].end <= arrived)
    <3>1. k \in 1..Len(sent) /\ sent[k].end \in Nat /\ Finish(k) = sent[k].end - Before
      BY <1>1, Places DEF IInv
    <3>2. ~(Finish(k) <= B)
      BY <1>1 DEF IInv, NonePassed
    <3>. QED
      BY ONLY <2>1, <3>1, <3>2
  <2>5. \A k \in 1..N : k \in 1..Len(sent) /\ sent[k].end <= arrived
    BY <1>1, ReturnedIsComplete
  <2>6. \A k \in 1..N : k \notin Ahead
    BY <2>1 DEF Ahead
  <2>. QED
    BY <2>2, <2>3, <2>4, <2>5, <2>6 DEF Complete
<1>2. IInv => ExtractedExactly
  BY <1>1 DEF ExtractedExactly
<1>. QED
  BY <1>2, Invariance, PTL

\* What an earlier call has returned or skipped does not pile up in the buffer
\* (bufferprocessor.cpp:55).
THEOREM BufferIsTrimmed == PlainStream => (Spec => []NoResidue)
<1>. SUFFICES ASSUME PlainStream PROVE Spec => []NoResidue
  OBVIOUS
<1>1. IInv => NoResidue
  <2>. SUFFICES ASSUME IInv PROVE NoResidue
    OBVIOUS
  <2>1. /\ Len(m_processingBuffer) \in Nat /\ arrived \in Nat /\ Before \in Nat
        /\ Before = arrived - Len(m_processingBuffer)
    BY AheadBehind, LenProperties DEF IInv, BufferTypeOK, Before
  <2>2. Len(m_processingBuffer) = arrived - Before
    BY ONLY <2>1
  <2>. QED
    BY <2>2 DEF IInv, Returned, NoResidue
<1>. QED
  BY <1>1, Invariance, PTL

\* "HalfMessages" of test_bufferprocessor.cpp holds of such a stream: it takes a payload
\* that holds a whole frame to get a message out of half a one.
THEOREM HalfFrameIsHeld == PlainStream => (Spec => []HalfMessageYieldsNothing)
<1>. SUFFICES ASSUME PlainStream PROVE Spec => []HalfMessageYieldsNothing
  OBVIOUS
<1>1. IInv => HalfMessageYieldsNothing
  <2>. SUFFICES ASSUME IInv, extracted # <<>> PROVE Complete # {}
    BY DEF HalfMessageYieldsNothing
  <2>1. 1 \in 1..Len(extracted)
    BY EmptySeq DEF IInv, BufferTypeOK
  <2>. QED
    BY <2>1, ReturnedIsComplete DEF Complete
<1>. QED
  BY <1>1, Invariance, PTL

-----------------------------------------------------------------------------
(* When the search stays within the buffer.                                    *)

\* No size field in the stream announces a total that wraps to nothing.
NoneWraps(s) == \A i \in 1..Len(s) : s[i].kind = "size" => TotalSize(s[i].size) # 0

PlainSizes == \A s \in Payloads \union Junk : NoneWraps(s)

Inside ==
  IInv /\ NoneWraps(m_processingBuffer) /\ NoneWraps(coming) /\ process = "up"

LEMMA FrameSizes ==
  ASSUME PlainStream, PlainSizes, NEW payload \in Payloads
  PROVE  NoneWraps(MakeProtocolMessage(payload))
<1>. DEFINE m == MakeProtocolMessage(payload)
            P == Len(payload)
<1>1. payload \in Seq(PlainCell) /\ P \in Nat /\ P + 3 < SizeValues /\ NoneWraps(payload)
  BY LenProperties DEF PlainStream, PlainSizes, FullSize
<1>2. /\ m \in Seq(Cell) /\ Len(m) = P + 3
      /\ m[P + 3] = Crc(Covered(payload))
      /\ \A i \in 1..P + 2 : m[i] = Covered(payload)[i]
  BY <1>1, FrameCells DEF FullSize
<1>3. /\ Covered(payload)[1].kind = "magic" /\ Covered(payload)[2] = Size(P)
      /\ \A i \in 1..P : Covered(payload)[i + 2] = payload[i]
  BY <1>1, CoveredCells
<1>4. TotalSize(P) # 0
  <2>1. TotalSize(P) = P + 3
    BY <1>1, Totals
  <2>. QED
    BY <1>1, <2>1
<1>. SUFFICES ASSUME NEW i \in 1..Len(m), m[i].kind = "size"
              PROVE  TotalSize(m[i].size) # 0
  BY DEF NoneWraps
<1>. HIDE DEF m, P
<1>5. i = 1 \/ i = 2 \/ i = P + 3 \/ \E j \in 1..P : i = j + 2
  <2>1. i > 2 /\ i # P + 3 => i - 2 \in 1..P /\ i = (i - 2) + 2
    BY ONLY <1>1, <1>2, i \in 1..Len(m)
  <2>2. i \in Nat /\ (i = 1 \/ i = 2 \/ i > 2)
    BY ONLY <1>1, <1>2, i \in 1..Len(m)
  <2>. QED
    BY <2>1, <2>2
<1>6. CASE i = 1
  <2>1. m[1].kind = "magic"
    BY <1>1, <1>2, <1>3
  <2>. QED
    BY <1>6, <2>1
<1>7. CASE i = 2
  <2>1. m[2] = Size(P)
    BY <1>1, <1>2, <1>3
  <2>. QED
    BY <1>4, <1>7, <2>1 DEF Size
<1>8. CASE i = P + 3
  BY <1>2, <1>8 DEF Crc
<1>9. CASE \E j \in 1..P : i = j + 2
  <2>1. PICK j \in 1..P : i = j + 2
    BY <1>9
  <2>2. j + 2 \in 1..P + 2
    BY ONLY <1>1, <2>1
  <2>3. m[i] = payload[j]
    BY <1>2, <1>3, <2>1, <2>2
  <2>. QED
    BY <1>1, <2>3 DEF NoneWraps, P
<1>. QED
  BY <1>5, <1>6, <1>7, <1>8, <1>9

LEMMA JoinedSizes ==
  ASSUME NEW s \in Seq(Cell), NEW t \in Seq(Cell), NoneWraps(s), NoneWraps(t)
  PROVE  NoneWraps(s \o t)
<1>1. /\ Len(s) \in Nat /\ Len(t) \in Nat /\ Len(s \o t) = Len(s) + Len(t)
      /\ \A i \in 1..Len(s) : (s \o t)[i] = s[i]
      /\ \A i \in 1..Len(t) : (s \o t)[Len(s) + i] = t[i]
  BY Joined
<1>2. ASSUME NEW i \in 1..Len(s \o t), (s \o t)[i].kind = "size"
      PROVE  TotalSize((s \o t)[i].size) # 0
  <2>1. CASE i \in 1..Len(s)
    BY <1>1, <1>2, <2>1 DEF NoneWraps
  <2>2. CASE i \notin 1..Len(s)
    <3>1. PICK j \in 1..Len(t) : i = Len(s) + j
      <4>1. i - Len(s) \in 1..Len(t) /\ i = Len(s) + (i - Len(s))
        BY ONLY <1>1, <2>2, i \in 1..Len(s \o t)
      <4>. QED
        BY <4>1
    <3>. QED
      BY <1>1, <1>2, <3>1 DEF NoneWraps
  <2>. QED
    BY <2>1, <2>2
<1>. QED
  BY <1>2 DEF NoneWraps

LEMMA SliceSizes ==
  ASSUME NEW s \in Seq(Cell), NEW a \in 1..Len(s) + 1, NEW b \in a - 1..Len(s), NoneWraps(s)
  PROVE  NoneWraps(SubSeq(s, a, b))
<1>1. /\ Len(SubSeq(s, a, b)) = b - a + 1 /\ Len(s) \in Nat
      /\ \A i \in 1..b - a + 1 : SubSeq(s, a, b)[i] = s[a + i - 1]
  BY Slice, LenProperties
<1>2. \A i \in 1..b - a + 1 : a + i - 1 \in 1..Len(s)
  BY ONLY <1>1, a \in 1..Len(s) + 1, b \in a - 1..Len(s)
<1>. QED
  BY <1>1, <1>2 DEF NoneWraps

\* Of what is in the stream a step keeps a part, and what the peer adds has no such size.
LEMMA SizesKept ==
  ASSUME PlainStream, PlainSizes, Inside, [Next]_vars
  PROVE  NoneWraps(m_processingBuffer') /\ NoneWraps(coming')
<1>1. /\ m_processingBuffer \in Seq(Cell) /\ coming \in Seq(Cell)
      /\ Len(m_processingBuffer) \in Nat /\ Len(coming) \in Nat
      /\ NoneWraps(m_processingBuffer) /\ NoneWraps(coming)
  BY LenProperties DEF Inside, IInv, BufferTypeOK
<1>2. ASSUME NEW junk \in Junk, NEW payload \in Payloads, PeerSends(junk, payload)
      PROVE  NoneWraps(coming') /\ m_processingBuffer' = m_processingBuffer
  <2>. DEFINE m == MakeProtocolMessage(payload)
  <2>1. junk \in Seq(Cell) /\ NoneWraps(junk) /\ m \in Seq(Cell) /\ NoneWraps(m)
    <3>1. junk \in Seq(PlainCell) /\ payload \in Seq(PlainCell) /\ NoneWraps(junk)
      BY DEF PlainStream, PlainSizes
    <3>. QED
      BY <3>1, PlainIsCell, FrameCells, FrameSizes
  <2>2. coming' = (coming \o junk) \o m /\ m_processingBuffer' = m_processingBuffer
    BY <1>2 DEF PeerSends
  <2>. HIDE DEF m
  <2>3. coming \o junk \in Seq(Cell) /\ NoneWraps(coming \o junk)
    BY ONLY <1>1, <2>1, Joined, JoinedSizes
  <2>4. NoneWraps((coming \o junk) \o m)
    BY ONLY <2>1, <2>3, JoinedSizes
  <2>. QED
    BY <2>2, <2>4
<1>3. ASSUME NEW n \in 1..Len(coming), AppendBuffers(n)
      PROVE  NoneWraps(m_processingBuffer') /\ NoneWraps(coming')
  <2>1. /\ 1 \in 1..Len(coming) + 1 /\ n \in 1 - 1..Len(coming)
        /\ n + 1 \in 1..Len(coming) + 1 /\ Len(coming) \in (n + 1) - 1..Len(coming)
    BY ONLY <1>1, n \in 1..Len(coming)
  <2>2. /\ SubSeq(coming, 1, n) \in Seq(Cell) /\ NoneWraps(SubSeq(coming, 1, n))
        /\ NoneWraps(SubSeq(coming, n + 1, Len(coming)))
    BY ONLY <1>1, <2>1, Slice, SliceSizes
  <2>3. /\ m_processingBuffer' = m_processingBuffer \o SubSeq(coming, 1, n)
        /\ coming' = SubSeq(coming, n + 1, Len(coming))
    BY <1>3 DEF AppendBuffers, Drop
  <2>4. NoneWraps(m_processingBuffer \o SubSeq(coming, 1, n))
    BY ONLY <1>1, <2>2, JoinedSizes
  <2>. QED
    BY <2>2, <2>3, <2>4
<1>4. ASSUME ExtractMessage PROVE NoneWraps(m_processingBuffer') /\ coming' = coming
  <2>. DEFINE s == m_processingBuffer
              z == ExtractFromRawData(s, markerPos)
              t == SubSeq(s, markerPos + 2, markerPos + z - 2)
              n == markerPos - 1 + FullSize(t)
              payload == sent[Len(extracted) + 1].payload
  <2>1. AtMarker /\ z > 0 /\ s' = Drop(s, n) /\ coming' = coming
    BY <1>4 DEF ExtractMessage
  <2>2. /\ t = payload /\ z = FullSize(payload) /\ z \in Nat
        /\ Finish(Len(extracted) + 1) = markerPos + z - 1
        /\ Finish(Len(extracted) + 1) <= Len(s)
    BY <2>1, FoundIsFrame DEF Inside
  <2>3. markerPos \in 1..Len(s)
    BY <2>1 DEF AtMarker
  <2>4. n = markerPos - 1 + z
    BY <2>2
  <2>. HIDE DEF z, t, n
  <2>5. n + 1 \in 1..Len(s) + 1 /\ Len(s) \in (n + 1) - 1..Len(s)
    BY ONLY <1>1, <2>2, <2>3, <2>4
  <2>6. NoneWraps(SubSeq(s, n + 1, Len(s)))
    BY ONLY <1>1, <2>5, SliceSizes
  <2>. QED
    BY <2>1, <2>6 DEF Drop
<1>. QED
  BY <1>1, <1>2, <1>3, <1>4
     DEF Next, Messages, StreamEnd, SkipMarker, ReadOutside, ReturnMessages, vars

\* extractFromRawData reads within the buffer (baseprotocol.cpp:43-45) and messages()
\* lives, in a stream of which no size field, sent or junk, wraps around.
THEOREM SearchStaysInside == PlainStream /\ PlainSizes => (Spec => []Inside)
<1>. SUFFICES ASSUME PlainStream, PlainSizes PROVE Spec => []Inside
  OBVIOUS
<1>1. Init => Inside
  <2>. SUFFICES ASSUME Init PROVE Inside
    OBVIOUS
  <2>1. coming = <<>> /\ m_processingBuffer = <<>> /\ process = "up"
    BY DEF Init
  <2>2. Len(<<>>) = 0 /\ 1..0 = {}
    OBVIOUS
  <2>3. NoneWraps(<<>>)
    BY <2>2 DEF NoneWraps
  <2>. QED
    BY <2>1, <2>3, InitHolds DEF Inside
<1>2. Inside /\ [Next]_vars => Inside'
  <2>. SUFFICES ASSUME Inside, [Next]_vars PROVE Inside'
    OBVIOUS
  <2>1. IInv' /\ NoneWraps(m_processingBuffer)' /\ NoneWraps(coming)'
    BY StepHolds, SizesKept DEF Inside, NoneWraps, TotalSize
  <2>2. ~ReadOutside
    <3>. SUFFICES ASSUME ReadOutside PROVE FALSE
      OBVIOUS
    <3>. DEFINE s == m_processingBuffer
                p == markerPos
    <3>1. /\ s \in Seq(Cell) /\ Len(s) \in Nat /\ p \in 1..Len(s)
          /\ HasHeader(s, p) /\ TotalSize(s[p + 1].size) = 0
      BY LenProperties DEF Inside, IInv, BufferTypeOK, ReadOutside, AtMarker, ReadsOutside
    <3>2. s[p + 1].kind = "size" /\ Len(s) - p + 1 > 2
      BY <3>1 DEF HasHeader
    <3>3. NoneWraps(s)
      BY DEF Inside
    <3>. HIDE DEF s, p
    <3>4. p + 1 \in 1..Len(s)
      BY ONLY <3>1, <3>2
    <3>. QED
      BY <3>1, <3>2, <3>3, <3>4 DEF NoneWraps
  <2>3. process' = process
    BY <2>2 DEF Next, Messages, PeerSends, AppendBuffers, ExtractMessage, SkipMarker,
                ReturnMessages, StreamEnd, vars
  <2>. QED
    BY <2>1, <2>3 DEF Inside
<1>. QED
  BY <1>1, <1>2, PTL DEF Spec
================================================================================
