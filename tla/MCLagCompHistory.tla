-------------------------- MODULE MCLagCompHistory --------------------------
(* LagCompHistory on small rosters: one human with one bot, and two bots. *)
EXTENDS LagCompBacktrack, TLC

\* The humans of a run are interchangeable, and so are its bots.
Roster == Permutations(Client \ Fake) \cup Permutations(Fake)
=============================================================================
