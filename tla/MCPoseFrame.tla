----------------------------- MODULE MCPoseFrame -----------------------------
(* Instance of PoseFrame for TLC: the games and the bounds are in the .cfg. *)
EXTENDS PoseFrame
=============================================================================
