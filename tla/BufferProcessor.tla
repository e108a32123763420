--------------------------- MODULE BufferProcessor ---------------------------
(***************************************************************************)
(* The framing of the byte stream: BaseProtocol (common/src/               *)
(* baseprotocol.cpp) lays a payload out as magic, size, payload, checksum; *)
(* BufferProcessor (common/src/bufferprocessor.cpp) finds such frames in   *)
(* what has arrived so far, however the stream was cut and whatever else   *)
(* stands between the frames.                                              *)
(*                                                                         *)
(* A cell is one byte, except that the four bytes of a size field or of a  *)
(* checksum are one cell.  A checksum cell carries the cells it covers:    *)
(* it matches those and no others (a CRC without collisions).  The sizes   *)
(* are counted in uint32_t, which has SizeValues values, and the total of  *)
(* a frame wraps around: the code's totals 0 to 3 are the model's 0, its   *)
(* 4 to 8 the model's 1 and 2, where the place of the checksum lies in the *)
(* magic and the size themselves and never holds it.  Of the bytes behind  *)
(* a magic that are no size field no size is read: as one they announce    *)
(* more than there is, or a frame without a checksum.                      *)
(***************************************************************************)
EXTENDS Integers, Sequences

CONSTANTS Payloads,   \* the payloads the peer may send
          Junk,       \* what may stand before a frame
          MaxFrames,  \* bound: frames in one stream
          SizeValues  \* the number of values of uint32_t: 2^32 in the build

ASSUME MaxFramesAssumption == MaxFrames \in Nat
ASSUME SizeValuesAssumption == SizeValues \in Nat /\ SizeValues > 3

Magic   == [kind |-> "magic", size |-> 0, over |-> <<>>]
Byte    == [kind |-> "byte", size |-> 0, over |-> <<>>]
Size(n) == [kind |-> "size", size |-> n, over |-> <<>>]
Crc(s)  == [kind |-> "crc", size |-> 0, over |-> s]

VARIABLES sent,                \* history: the frames in the stream, in order: payload and
                               \* the offset in the stream at which the frame ends
          coming,              \* the cells that have not arrived
          arrived,             \* history: the number of cells that have
          m_processingBuffer,
          markerPos,           \* where messages() stands; 0 outside of it
          extracted,           \* history: the payloads messages() has returned
          process              \* "up", or "undefined" once memory was read outside of the buffer

vars == <<sent, coming, arrived, m_processingBuffer, markerPos, extracted, process>>

-----------------------------------------------------------------------------
\* makeProtocolMessage: the checksum covers all that stands before it.
MakeProtocolMessage(payload) ==
  LET covered == <<Magic, Size(Len(payload))>> \o payload
  IN  Append(covered, Crc(covered))

\* fullSize: magic, size and checksum around the payload.
FullSize(payload) == Len(payload) + 3

\* totalMessageSize, a uint32_t.
TotalSize(n) == (n + 3) % SizeValues

\* extractFromRawData looks at the size field behind the magic at position p of s.
HasHeader(s, p) ==
  /\ s[p].kind = "magic"
  /\ Len(s) - p + 1 > 2
  /\ s[p + 1].kind = "size"

\* A size that wraps to less than a checksum: the checksum is read from before the
\* magic, and computed over the whole address space.
ReadsOutside(s, p) == HasHeader(s, p) /\ TotalSize(s[p + 1].size) = 0

\* extractFromRawData at position p of s: the number of cells of the frame that
\* starts there, or 0 when there is none: no magic, fewer cells than a header and
\* a byte, a size field that is not one, fewer cells than the size announces, or
\* a checksum that does not match.
ExtractFromRawData(s, p) ==
  LET available == Len(s) - p + 1
      total     == TotalSize(s[p + 1].size)
  IN  IF /\ HasHeader(s, p)
         /\ available >= total /\ total > 0
         /\ s[p + total - 1] = Crc(SubSeq(s, p, p + total - 2))
        THEN total
        ELSE 0

\* std::find_if from position p on; Len(s) + 1 is end().
FindMagic(s, p) ==
  LET found == {k \in p..Len(s) : s[k].kind = "magic"}
  IN  IF found = {} THEN Len(s) + 1
      ELSE CHOOSE k \in found : \A j \in found : k <= j

Drop(s, n) == SubSeq(s, n + 1, Len(s))

-----------------------------------------------------------------------------
Init ==
  /\ sent = <<>>
  /\ coming = <<>>
  /\ arrived = 0
  /\ m_processingBuffer = <<>>
  /\ markerPos = 0
  /\ extracted = <<>>
  /\ process = "up"

\* The peer sends a frame, perhaps with junk before it.
PeerSends(junk, payload) ==
  LET cells == coming \o junk \o MakeProtocolMessage(payload) IN
  /\ Len(sent) < MaxFrames
  /\ coming' = cells
  /\ sent' = Append(sent, [payload |-> payload, end |-> arrived + Len(cells)])
  /\ UNCHANGED <<arrived, m_processingBuffer, markerPos, extracted, process>>

\* appendBuffers with all the chunks accepted since the last call, then the first
\* search of messages().
AppendBuffers(n) ==
  /\ markerPos = 0
  /\ m_processingBuffer' = m_processingBuffer \o SubSeq(coming, 1, n)
  /\ coming' = Drop(coming, n)
  /\ arrived' = arrived + n
  /\ markerPos' = FindMagic(m_processingBuffer', 1)
  /\ UNCHANGED <<sent, extracted, process>>

AtMarker == process = "up" /\ markerPos \in 1..Len(m_processingBuffer)

\* Mutant of ExtractMessage: the frame is not erased.
NotErased ==
  LET size == ExtractFromRawData(m_processingBuffer, markerPos) IN
  /\ AtMarker
  /\ size > 0
  /\ extracted' = extracted
  /\ markerPos' = FindMagic(m_processingBuffer, 1)
  /\ UNCHANGED <<sent, coming, arrived, m_processingBuffer, process>>

\* Mutant of ExtractMessage: only the frame is erased, the junk before it stays.
JunkKept ==
  LET size    == ExtractFromRawData(m_processingBuffer, markerPos)
      payload == SubSeq(m_processingBuffer, markerPos + 2, markerPos + size - 2)
  IN
  /\ AtMarker
  /\ size > 0
  /\ extracted' = Append(extracted, payload)
  /\ m_processingBuffer' = SubSeq(m_processingBuffer, 1, markerPos - 1)
                             \o Drop(m_processingBuffer, markerPos - 1 + FullSize(payload))
  /\ markerPos' = FindMagic(m_processingBuffer', 1)
  /\ UNCHANGED <<sent, coming, arrived, process>>

\* A frame at the marker: it goes to the result, the buffer loses everything up
\* to its end, and the search starts again at the front.
ExtractMessage ==
  LET size    == ExtractFromRawData(m_processingBuffer, markerPos)
      payload == SubSeq(m_processingBuffer, markerPos + 2, markerPos + size - 2)
  IN
  /\ AtMarker
  /\ size > 0
  /\ extracted' = Append(extracted, payload)
  /\ m_processingBuffer' = Drop(m_processingBuffer, markerPos - 1 + FullSize(payload))
  /\ markerPos' = FindMagic(m_processingBuffer', 1)
  /\ UNCHANGED <<sent, coming, arrived, process>>

\* Mutant of SkipMarker: the first marker without a frame ends the search.
GiveUpAtMarker ==
  /\ AtMarker
  /\ ~ReadsOutside(m_processingBuffer, markerPos)
  /\ ExtractFromRawData(m_processingBuffer, markerPos) = 0
  /\ markerPos' = Len(m_processingBuffer) + 1
  /\ UNCHANGED <<sent, coming, arrived, m_processingBuffer, extracted, process>>

\* No frame at the marker, for whatever reason: on to the next magic.
SkipMarker ==
  /\ AtMarker
  /\ ~ReadsOutside(m_processingBuffer, markerPos)
  /\ ExtractFromRawData(m_processingBuffer, markerPos) = 0
  /\ markerPos' = FindMagic(m_processingBuffer, markerPos + 1)
  /\ UNCHANGED <<sent, coming, arrived, m_processingBuffer, extracted, process>>

\* A size that wraps at the marker: what happens is undefined.
ReadOutside ==
  /\ AtMarker
  /\ ReadsOutside(m_processingBuffer, markerPos)
  /\ process' = "undefined"
  /\ UNCHANGED <<sent, coming, arrived, m_processingBuffer, markerPos, extracted>>

\* messages() returns; what is left stays for the next chunk.
ReturnMessages ==
  /\ markerPos = Len(m_processingBuffer) + 1
  /\ markerPos' = 0
  /\ UNCHANGED <<sent, coming, arrived, m_processingBuffer, extracted, process>>

\* The stream is over, or the process is no more.
StreamEnd ==
  /\ process # "up" \/ (markerPos = 0 /\ coming = <<>>)
  /\ UNCHANGED vars

\* messages() is a loop on one thread.
Messages == ExtractMessage \/ SkipMarker \/ ReadOutside \/ ReturnMessages

Next == \/ \E junk \in Junk, payload \in Payloads : PeerSends(junk, payload)
        \/ \E n \in 1..Len(coming) : AppendBuffers(n)
        \/ Messages
        \/ StreamEnd

Spec == Init /\ [][Next]_vars /\ WF_vars(Messages)

-----------------------------------------------------------------------------
\* The frames of the stream that have arrived to their last cell.
Complete == {k \in 1..Len(sent) : sent[k].end <= arrived}

\* Between two calls of messages() exactly the complete frames of the stream have
\* been returned, in order and each once, however the stream was cut into chunks
\* and whatever stands between the frames: junk that begins like a frame, be it
\* with a size that wraps around, hides none, and a payload with the magic or a
\* header in it is not cut.  From a size that wraps to no frame at all messages()
\* does not come back.
ExtractedExactly ==
  markerPos = 0 =>
    extracted = [k \in 1..Len(extracted) |-> sent[k].payload]
      /\ Complete = 1..Len(extracted)

\* Between two calls the buffer holds what has arrived since the end of the last
\* frame returned and nothing older: no junk that an earlier frame has ended, and
\* nothing at all after a stream that ends with a frame.
NoResidue ==
  markerPos = 0 =>
    Len(m_processingBuffer) =
      arrived - (IF extracted = <<>> THEN 0 ELSE sent[Len(extracted)].end)

\* messages() returns: the search that starts over at the front of the buffer
\* after each frame comes to an end.  Only a size that wraps takes it out of the buffer.
MessagesReturns == markerPos # 0 ~> markerPos = 0 \/ process # "up"

\* "HalfMessages" of common/tests/test_bufferprocessor.cpp: as long as no frame
\* has arrived to its end, messages() returns nothing.
HalfMessageYieldsNothing == Complete = {} => extracted = <<>>
=============================================================================
