--------------------------- MODULE MCLeaderboard ---------------------------
(* The instance of Leaderboard for TLC.  The threads are alike; the        *)
(* participants are not, for their handles.                                *)
EXTENDS Leaderboard, TLC

CONSTANTS t1, t2

MCThreads == {t1, t2}
Symmetry  == Permutations(MCThreads)
============================================================================
