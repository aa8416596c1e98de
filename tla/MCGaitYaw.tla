------------------------------ MODULE MCGaitYaw ------------------------------
(* Instance of GaitYaw for TLC.  The directions meet every case of the turns: *)
(* in front, beside, beyond 120 degrees on either side, and behind.           *)
EXTENDS GaitYaw

At(yaw, pitch) == [yaw |-> yaw, pitch |-> pitch]
Views    == {At(-170, -20), At(0, 20), At(100, 4)}
Headings == {-170, 100}
Elapses  == {-1, 20, 150}
BlendLow == -45
=============================================================================
