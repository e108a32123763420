-------------------------- MODULE MCBufferProcessor --------------------------
(* Streams for TLC: payloads that are empty, that hold the magic byte, or that *)
(* begin like a frame; junk that holds the magic byte or begins like a frame   *)
(* that would reach into the next one, or whose size wraps around: to a total  *)
(* within the header, or to none.                                              *)
EXTENDS BufferProcessor

PlainPayloads == {<<>>, <<Byte>>, <<Magic, Byte>>, <<Magic, Size(0), Byte>>}

MCJunk == {<<>>, <<Byte>>, <<Magic>>, <<Magic, Size(2)>>,
           <<Magic, Size(SizeValues - 2)>>, <<Magic, Size(SizeValues - 3)>>}

\* A payload that holds a whole frame.
NestedPayloads == {MakeProtocolMessage(<<Byte>>)}
=============================================================================
