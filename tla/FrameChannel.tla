---------------------------- MODULE FrameChannel ----------------------------
(***************************************************************************)
(* What one direction of a TcpSession promises to the threads that use it: *)
(* a channel that takes whole frames from its callers and delivers them to *)
(* the peer in the order it took them, each once, until the link fails.    *)
(* It takes a frame only when it has delivered all earlier ones, so at     *)
(* most one frame is lost unnoticed by the gate when the link fails.       *)
(***************************************************************************)
EXTENDS Naturals, Sequences

CONSTANT Callers

VARIABLES accepted,    \* who handed in the frames taken so far, in order
          delivered,   \* how many of them the peer has
          link         \* "up" or "down"

cvars == <<accepted, delivered, link>>

ChannelInit == accepted = <<>> /\ delivered = 0 /\ link \in {"up", "down"}

\* Without a connection frames are still taken, and lost.
Accept(t) ==
  /\ link = "up" => delivered = Len(accepted)
  /\ accepted' = Append(accepted, t)
  /\ UNCHANGED <<delivered, link>>

Deliver ==
  /\ link = "up"
  /\ delivered < Len(accepted)
  /\ delivered' = delivered + 1
  /\ UNCHANGED <<accepted, link>>

Fail ==
  /\ link = "up"
  /\ link' = "down"
  /\ UNCHANGED <<accepted, delivered>>

ChannelNext == (\E t \in Callers : Accept(t)) \/ Deliver \/ Fail

SafeSpec == ChannelInit /\ [][ChannelNext]_cvars

FairSpec == SafeSpec /\ WF_cvars(Deliver)
=============================================================================
