--------------------------- MODULE SeasonRecords ---------------------------
(***************************************************************************)
(* Who has a place in which quest of a season, and what for: the quests,   *)
(* the assignments a participant gets by enrolling (quests/views.py) or by *)
(* opening a drop-in quest (submissions/views.py), their submissions and   *)
(* scores, and the deletion of a quest with all of them, after which a     *)
(* host's edit may bring it back, empty.                                   *)
(*                                                                         *)
(* How a quest moves, what a submission holds and how it is scored are the *)
(* subjects of QuestLifecycle and AssignmentSubmission; here these are     *)
(* steps of the environment, each the one statement that counts.  The      *)
(* foreign keys are checked when a transaction commits.                    *)
(***************************************************************************)
EXTENDS Naturals, FiniteSets

CONSTANTS
  Quests,
  DropIn,       (* the quests of the mode open; the others are scheduled        *)
  Participants, (* of the season, in the order of their handles                 *)
  Threads,      (* the server's, for the requests modelled here                 *)
  MaxScore,
  None,         (* no score yet                                                 *)
  NoRow         (* no submission                                                *)

Scores == 0 .. MaxScore

ASSUME DropInTyped == DropIn \subseteq Quests
ASSUME ParticipantsTyped == Participants \subseteq Nat /\ IsFiniteSet(Participants)
ASSUME MaxScoreTyped == MaxScore \in Nat
ASSUME NoneIsNoScore == {None, NoRow} \cap Nat = {} /\ None # NoRow
ASSUME QuestsAreFinite == IsFiniteSet(Quests)

VARIABLES
  quest,        (* whether each SeasonQuest row is active; every other status   *)
                (* is "closed" here                                             *)
  rows,         (* how many QuestAssignment rows there are for quest and        *)
                (* participant                                                  *)
  score,        (* of the Submission of that assignment                         *)
  request       (* the request each thread serves, or its answer; lost, for the *)
                (* properties only: the quest has been deleted since it began   *)

vars == <<quest, rows, score, request>>

Pairs == Quests \X Participants
Of(q) == {q} \X Participants

Exists(q)  == quest[q] # "gone"
Handed     == {r \in Pairs : score[r] # NoRow}

(* "done" is every answer but the redirect to the assignment, "enrolled",  *)
(* and the server error.                                                   *)
Answers == {"done", "enrolled", "error"}
NoPair  == <<>>
Request(pc, r) == [pc |-> pc, pair |-> r, taken |-> {}, handed |-> {}, lost |-> FALSE]
Free(t)        == request[t].pc \in Answers
Answer(t, pc)  == request' = [request EXCEPT ![t] = Request(pc, NoPair)]
Step(t, pc)    == request' = [request EXCEPT ![t].pc = pc]

-----------------------------------------------------------------------------
(* enroll_scheduled_quest and submit_open_quest.                           *)

(* The row as read is all that is looked at.  Who is not in the season,    *)
(* asks too often, has the wrong mode or the wrong code is turned away.    *)
EnrollScheduledQuest(t, r) ==
  /\ Free(t) /\ Exists(r[1])
  /\ \/ r[1] \notin DropIn /\ request' = [request EXCEPT ![t] = Request("find", r)]
     \/ Answer(t, "done")
  /\ UNCHANGED <<quest, rows, score>>

(* A drop-in quest has to be active, for a scheduled one every status does.*)
SubmitOpenQuest(t, r) ==
  /\ Free(t) /\ Exists(r[1])
  /\ \/ /\ r[1] \in DropIn /\ quest[r[1]] = "active"
        /\ request' = [request EXCEPT ![t] = Request("find", r)]
     \/ Answer(t, "done")
  /\ UNCHANGED <<quest, rows, score>>

(* get_or_create: the look first.                                          *)
FindAssignment(t) ==
  /\ request[t].pc = "find"
  /\ IF rows[request[t].pair] > 0 THEN Answer(t, "enrolled") ELSE Step(t, "insert")
  /\ UNCHANGED <<quest, rows, score>>

(* A new row has an id that nobody has collected.                          *)
NewAssignment(r) == [t \in Threads |-> [request[t] EXCEPT !.taken = @ \ {r}]]
NewSubmission(r) == [t \in Threads |-> [request[t] EXCEPT !.handed = @ \ {r}]]

(* Mutant: the foreign key to the quest is not checked.                    *)
Insertable_NoForeignKey(r) == rows[r] = 0

Insertable(r) == rows[r] = 0 /\ Exists(r[1])

InsertAssignment(t) ==
  /\ request[t].pc = "insert"
  /\ LET r == request[t].pair IN
       IF Insertable(r)
       THEN /\ rows' = [rows EXCEPT ![r] = @ + 1]
            /\ request' = [NewAssignment(r) EXCEPT ![t] = Request("enrolled", NoPair)]
       ELSE UNCHANGED rows /\ Step(t, "again")
  /\ UNCHANGED <<quest, score>>

(* Mutant: create in place of get_or_create.                               *)
Refound_Never(r) == FALSE

Refound(r) == rows[r] > 0

(* get_or_create after an IntegrityError: what another request has put     *)
(* there, or the error after all.                                          *)
FindAgain(t) ==
  /\ request[t].pc = "again"
  /\ Answer(t, IF Refound(request[t].pair) THEN "enrolled" ELSE "error")
  /\ UNCHANGED <<quest, rows, score>>

-----------------------------------------------------------------------------
(* season_quest_delete.                                                    *)

(* Django's Collector looks for what is to go, before the transaction.     *)
(* Nothing can be added between its two looks that it would not miss in    *)
(* another order as well, so that they are one step.                       *)
Collect(t, q) ==
  /\ Free(t) /\ Exists(q)
  /\ request' = [request EXCEPT ![t] =
       [pc |-> "delete", pair |-> <<q, 0>>, taken |-> {r \in Of(q) : rows[r] > 0},
        handed |-> Of(q) \cap Handed, lost |-> FALSE]]
  /\ UNCHANGED <<quest, rows, score>>

(* What would be left behind.                                              *)
Missed(q, taken, handed) ==
  {r \in Of(q) : rows[r] > 0 /\ r \notin taken} \cup ((Of(q) \cap Handed) \ handed)

(* The requests that look for a place in q.                                *)
Enrolling(t) == request[t].pc \in {"find", "insert", "again"}
Losing(q)    == [t \in Threads |-> [request[t] EXCEPT
                   !.lost = @ \/ (Enrolling(t) /\ request[t].pair \in Of(q))]]

(* The rows go by their ids: those that have been added stay, and make the *)
(* transaction fail.                                                       *)
DeleteQuest(t) ==
  /\ request[t].pc = "delete"
  /\ LET q == request[t].pair[1]  taken == request[t].taken  handed == request[t].handed IN
       IF Missed(q, taken, handed) = {}
       THEN /\ quest' = [quest EXCEPT ![q] = "gone"]
            /\ rows'  = [r \in Pairs |-> IF r \in taken THEN 0 ELSE rows[r]]
            /\ score' = [r \in Pairs |-> IF r \in handed THEN NoRow ELSE score[r]]
            /\ request' = [Losing(q) EXCEPT ![t] = Request("done", NoPair)]
       ELSE Answer(t, "error") /\ UNCHANGED <<quest, rows, score>>

-----------------------------------------------------------------------------
(* The environment.                                                        *)

(* A quest is started, ended or edited.                                    *)
MoveQuest(q) ==
  /\ Exists(q)
  /\ quest' = [quest EXCEPT ![q] = IF @ = "active" THEN "closed" ELSE "active"]
  /\ UNCHANGED <<rows, score, request>>

(* season_quest_edit saves all fields of a row it has read before: of a    *)
(* quest that has been deleted meanwhile this is an insert.                *)
EditQuest(q) ==
  /\ ~Exists(q)
  /\ \E status \in {"closed", "active"} : quest' = [quest EXCEPT ![q] = status]
  /\ UNCHANGED <<rows, score, request>>

(* A POST creates the submission.                                          *)
Submit(r) ==
  /\ rows[r] > 0 /\ score[r] = NoRow
  /\ score' = [score EXCEPT ![r] = None] /\ request' = NewSubmission(r)
  /\ UNCHANGED <<quest, rows>>

(* The POST that created it fails and takes it back.                       *)
UndoSubmit(r) ==
  /\ score[r] = None
  /\ score' = [score EXCEPT ![r] = NoRow]
  /\ UNCHANGED <<quest, rows, request>>

ScoreSubmission(r) ==
  /\ score[r] # NoRow
  /\ \E s \in Scores : score' = [score EXCEPT ![r] = s]
  /\ UNCHANGED <<quest, rows, request>>

-----------------------------------------------------------------------------
Init ==
  /\ quest   = [q \in Quests |-> "closed"]
  /\ rows    = [r \in Pairs |-> 0]
  /\ score   = [r \in Pairs |-> NoRow]
  /\ request = [t \in Threads |-> Request("done", NoPair)]

Serve(t) ==
  \/ \E r \in Pairs : EnrollScheduledQuest(t, r) \/ SubmitOpenQuest(t, r)
  \/ FindAssignment(t) \/ InsertAssignment(t) \/ FindAgain(t)
  \/ \E q \in Quests : Collect(t, q)
  \/ DeleteQuest(t)

Environment ==
  \/ \E q \in Quests : MoveQuest(q) \/ EditQuest(q)
  \/ \E r \in Pairs : Submit(r) \/ UndoSubmit(r) \/ ScoreSubmission(r)

Next == Environment \/ \E t \in Threads : Serve(t)

Spec == Init /\ [][Next]_vars

-----------------------------------------------------------------------------
(* Properties                                                              *)

TypeOK ==
  /\ quest \in [Quests -> {"closed", "active", "gone"}]
  /\ rows \in [Pairs -> Nat]
  /\ score \in [Pairs -> Scores \cup {None, NoRow}]
  /\ request \in [Threads -> [pc : {"find", "insert", "again", "delete"} \cup Answers,
                              pair : Pairs \cup (Quests \X {0}) \cup {NoPair},
                              taken : SUBSET Pairs, handed : SUBSET Pairs,
                              lost : BOOLEAN]]

(* Whatever enrolments, submissions and deletions overlap, a participant   *)
(* has one assignment in a quest at the most, and there is no assignment   *)
(* without its quest and no submission without its assignment: what is     *)
(* added while a quest is deleted makes the deletion fail.                 *)
RecordsFit ==
  /\ TypeOK
  /\ \A r \in Pairs : /\ rows[r] <= 1
                      /\ rows[r] > 0 => Exists(r[1])
                      /\ score[r] # NoRow => rows[r] = 1

(* A participant who enrols gets to an assignment that is there, and to an *)
(* error only when the quest has been deleted since the request began, be  *)
(* it back by now or not: two requests that both find no assignment end at *)
(* the same one.                                                           *)
EnrolmentHolds ==
  [][\A t \in Threads : LET r == request[t].pair IN
       Enrolling(t) =>
         /\ request'[t].pc = "enrolled" => rows'[r] = 1 /\ Exists(r[1])
         /\ request'[t].pc = "error" => request[t].lost]_vars
=============================================================================
