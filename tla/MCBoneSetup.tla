----------------------------- MODULE MCBoneSetup -----------------------------
(* Instance of BoneSetup for TLC: a skeleton with a leg before and one after  *)
(* the torso, sequences of one and of several blends, blends on either side   *)
(* of the middle.                                                             *)
EXTENDS BoneSetup

Models == {
  [parent |-> <<0, 1, 2, 2, 4, 2>>,
   name   |-> <<"other", "pelvis", "other", "spine", "other", "other">>]}

Numbers == [CS |-> (0 :> 1 @@ 1 :> 9), HL |-> (0 :> 4 @@ 1 :> 2)]

Pair(s, t) == (0 :> s @@ 1 :> t)
Blends == {Pair(20, 200), Pair(128, 128)}
=============================================================================
