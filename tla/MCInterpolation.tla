--------------------------- MODULE MCInterpolation ---------------------------
(* Instance of Interpolation for TLC: a ring of five, two packets more than   *)
(* a round.                                                                   *)
EXTENDS Interpolation
=============================================================================
