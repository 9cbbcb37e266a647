-------------------------- MODULE AssignmentPromise -------------------------
(***************************************************************************)
(* What submit_assignment and score_submission promise about one quest     *)
(* assignment (apps/submissions/views.py): a POST is saved as a whole or   *)
(* not at all, saving decides the status and the draft flag together, and  *)
(* a score is recorded with its status and its audit entry and closes the  *)
(* submission for the participant.                                         *)
(***************************************************************************)
EXTENDS Naturals, Sequences, FiniteSets, Functions

CONSTANTS
  Texts, Blank, Scores, MaxMedia, None,
  MediaIds     (* the names of the media rows *)

VARIABLES
  status,      (* of the assignment                                       *)
  content,     (* what the participant has saved                          *)
  gallery,     (* its media: id |-> place                                 *)
  scoreLog     (* the scores given so far, each with the one it replaced  *)

vars == <<status, content, gallery, scoreLog>>

Content == [saved : BOOLEAN, text : Texts, draft : BOOLEAN, score : Scores \cup {None}]
Nothing == [saved |-> FALSE, text |-> Blank, draft |-> FALSE, score |-> None]

(* The media take the places 0, 1, 2, ... without a gap. *)
InPlace(g) == IsInjective(g) /\ Range(g) = 0 .. Cardinality(DOMAIN g) - 1

Init ==
  /\ status = "pending"
  /\ content = Nothing
  /\ gallery = [m \in {} |-> 0]
  /\ scoreLog = <<>>

Save ==
  /\ ~(content.saved /\ status = "scored")
  /\ status' \in {"pending", "submitted"}
  /\ content' \in Content
  /\ content'.saved
  /\ content'.draft = (status' = "pending")
  /\ content'.score = content.score
  /\ DOMAIN gallery' \subseteq MediaIds
  /\ Cardinality(DOMAIN gallery') <= MaxMedia
  /\ InPlace(gallery')
  /\ content'.text # Blank \/ DOMAIN gallery' # {}
  /\ UNCHANGED scoreLog

Score ==
  /\ content.saved
  /\ \E s \in Scores :
       /\ content' = [content EXCEPT !.score = s]
       /\ scoreLog' = Append(scoreLog, [old |-> content.score, new |-> s])
  /\ status' = "scored"
  /\ UNCHANGED gallery

Next == Save \/ Score

Spec == Init /\ [][Next]_vars
=============================================================================
