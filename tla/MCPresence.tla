---------------------------- MODULE MCPresence ----------------------------
(* The instance of Presence for TLC: a participant with two tabs, and      *)
(* another one.                                                            *)
EXTENDS Presence

CONSTANTS p1, p2, a1, a2, b1

MCParticipants == {p1, p2}
MCConns        == {a1, a2, b1}
MCOwner        == [c \in MCConns |-> IF c = b1 THEN p2 ELSE p1]
===========================================================================
