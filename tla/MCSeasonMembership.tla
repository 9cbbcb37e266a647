------------------------- MODULE MCSeasonMembership -------------------------
(* Symmetry for the run of SeasonMembership: browsers, seasons and handles *)
(* are alike among themselves.                                             *)
EXTENDS SeasonMembership, TLC
Symmetry == Permutations(Clients) \cup Permutations(Seasons) \cup Permutations(Handles)
=============================================================================
