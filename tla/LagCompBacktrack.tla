-------------------------- MODULE LagCompBacktrack --------------------------
(***************************************************************************)
(* The store of LagCompHistory implements Backtrack: its rings, of Backup  *)
(* slots each, are logs that keep the last Backup packets.                 *)
(***************************************************************************)
EXTENDS LagCompHistory

(***************************************************************************)
(* The refinement mapping.  A slot that holds no packet is no packet of    *)
(* the log; of the record that a player is posed from, the base and the    *)
(* edits are left out.                                                     *)
(***************************************************************************)
Present(t) == IF IsActive(t) THEN gen[t] ELSE 0
Current(t) == hist[Server][SlotOf(serverFrame)][t]
Pose(r)    == [view |-> r.view, stamp |-> r.stamp, who |-> r.who]
Packets(c) == {frames[c][s] : s \in Slot} \ {NoFrame}

player  == [t \in Client |-> Present(t)]
sampled == [t \in Client |-> IF Current(t).stamp = serverFrame THEN Current(t).who ELSE 0]
log     == [c \in Client |-> Packets(c)]
posed   == [t \in Client |-> Pose(params[t])]
compensated == thinker # Server /\ ~nofind

Log == INSTANCE Backtrack WITH
  Keep <- Backup, now <- serverFrame, next <- out, running <- thinker

\* A client is judged by the packet it acknowledged, as if all packets were remembered, for
\* as long as its acknowledgement is no older than the ring; and a command leaves nothing
\* of its view behind (PlayerPreThinkPre, PlayerPostThinkPost, AddToFullPackPost).
Backtracks == Log!Spec
=============================================================================
