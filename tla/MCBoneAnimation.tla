--------------------------- MODULE MCBoneAnimation ---------------------------
(* Instance of BoneAnimation for TLC: every compression of up to four frames,    *)
(* with the values 1 and 9.                                                      *)
EXTENDS BoneAnimation

\* A span of total frames with its values.
Spans(total) ==
  {<<Len(v) + 256 * total>> \o v : v \in UNION {[1..n -> {1, 9}] : n \in 1..total}}

\* The compressions of n frames.
Compressed[n \in Nat] ==
  IF n = 0 THEN {<<>>}
  ELSE UNION {{span \o rest : span \in Spans(total), rest \in Compressed[n - total]} : total \in 1..n}

AllAnimations ==
  UNION {[numframes : {n}, looping : BOOLEAN, words : Compressed[n]] : n \in 1..4}

Elapses == {-1, 1, 7}
=============================================================================
