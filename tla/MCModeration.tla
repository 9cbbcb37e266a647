--------------------------- MODULE MCModeration ---------------------------
(* Symmetry for the run of Moderation: the server's threads are alike.     *)
EXTENDS Moderation, TLC
Symmetry == Permutations(Threads)
===========================================================================
