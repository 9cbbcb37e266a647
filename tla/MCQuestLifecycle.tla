-------------------------- MODULE MCQuestLifecycle --------------------------
(* Symmetry for the runs of QuestLifecycle: the server's threads are alike. *)
EXTENDS QuestLifecycle, TLC
Symmetry == Permutations(Threads)
=============================================================================
