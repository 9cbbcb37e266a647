----------------------- MODULE MCAssignmentSubmission -----------------------
(* The instances of AssignmentSubmission that TLC checks.  The POSTs of the *)
(* participant are alike, and so are the hosts' requests.                   *)
EXTENDS AssignmentSubmission, TLC
Symmetry == Permutations(Posts) \cup Permutations(Hosts)
=============================================================================
