------------------------ MODULE SeasonRecordsProofs ------------------------
(***************************************************************************)
(* Proofs about SeasonRecords and the rankings of Leaderboard, for any     *)
(* quests, participants and threads.  A pair loses its assignment with its *)
(* quest only, and the requests that enrol remember that it went, since it *)
(* may come back: that is what one relies on whose insert has been refused *)
(* (Knows).  The rankings rest on what sums and sorted lists are.          *)
(***************************************************************************)
EXTENDS Leaderboard, FiniteSetTheorems, SequenceTheorems, TLAPS

(* What the requests under way know.                                       *)
Knows(t) ==
  LET r == request[t].pair
  IN  /\ Enrolling(t) => r \in Pairs
      /\ Enrolling(t) => Exists(r[1]) \/ request[t].lost
      /\ request[t].pc = "again" => rows[r] > 0 \/ request[t].lost
      /\ request[t].pc = "delete" => /\ r \in Quests \X {0}
                                     /\ request[t].taken \subseteq Of(r[1])
                                     /\ request[t].handed \subseteq Of(r[1])

(* The inductive invariant.                                                *)
IInv == RecordsFit /\ \A t \in Threads : Knows(t)

(* A pair is one of a quest and a participant.                             *)
LEMMA PairParts == ASSUME NEW r \in Pairs PROVE r[1] \in Quests /\ r \in Of(r[1])
  BY DEF Pairs, Of

LEMMA OfInPairs == ASSUME NEW q \in Quests PROVE Of(q) \subseteq Pairs /\ \A r \in Of(q) : r[1] = q
  BY DEF Pairs, Of

-----------------------------------------------------------------------------
(* What the steps have in common.                                          *)

RequestRecord == [pc : {"find", "insert", "again", "delete"} \cup Answers,
                  pair : Pairs \cup (Quests \X {0}) \cup {NoPair},
                  taken : SUBSET Pairs, handed : SUBSET Pairs, lost : BOOLEAN]

LEMMA RequestTyped ==
  ASSUME NEW pc \in {"find", "insert", "again", "delete"} \cup Answers,
         NEW r \in Pairs \cup (Quests \X {0}) \cup {NoPair}
  PROVE  Request(pc, r) \in RequestRecord
  BY DEF Request, RequestRecord

(* Steps that leave the records alone.                                     *)
Reads == UNCHANGED <<quest, rows, score>>

(* A thread's step that leaves the records alone keeps the invariant, if   *)
(* it keeps what that thread knows.                                        *)
LEMMA ReadingKeeps ==
  ASSUME IInv, Reads, NEW t \in Threads, NEW new \in RequestRecord,
         request' = [request EXCEPT ![t] = new], Knows(t)'
  PROVE  IInv'
<1>1. request \in [Threads -> RequestRecord] BY DEF IInv, RecordsFit, TypeOK, RequestRecord
<1>2. request' \in [Threads -> RequestRecord] BY <1>1
<1>3. TypeOK' BY <1>2 DEF IInv, RecordsFit, TypeOK, RequestRecord, Reads
<1>4. RecordsFit' BY <1>3 DEF IInv, RecordsFit, Reads, Exists
<1>5. ASSUME NEW u \in Threads PROVE Knows(u)'
  <2>1. CASE u = t BY <2>1
  <2>2. CASE u # t
    <3>1. request'[u] = request[u] BY <1>1, <2>2
    <3>. QED BY <3>1 DEF IInv, Knows, Enrolling, Reads, Exists
  <2>. QED BY <2>1, <2>2
<1>. QED BY <1>4, <1>5 DEF IInv

(* An answer is such a step.                                               *)
LEMMA AnsweringKeeps ==
  ASSUME IInv, Reads, NEW t \in Threads, NEW pc \in Answers, Answer(t, pc)
  PROVE  IInv'
<1>1. Request(pc, NoPair) \in RequestRecord BY RequestTyped
<1>2. request'[t] = Request(pc, NoPair) BY DEF Answer, IInv, RecordsFit, TypeOK
<1>3. Knows(t)' BY <1>2 DEF Knows, Enrolling, Request, Answers
<1>. QED BY <1>1, <1>3, ReadingKeeps DEF Answer

-----------------------------------------------------------------------------
(* The steps of a thread.                                                  *)

LEMMA BeginKeeps ==
  ASSUME IInv, NEW t \in Threads, NEW r \in Pairs,
         EnrollScheduledQuest(t, r) \/ SubmitOpenQuest(t, r)
  PROVE  IInv'
<1>1. Reads BY DEF Reads, EnrollScheduledQuest, SubmitOpenQuest
<1>2. CASE Answer(t, "done") BY <1>1, <1>2, AnsweringKeeps DEF Answers
<1>3. CASE request' = [request EXCEPT ![t] = Request("find", r)]
  <2>1. Request("find", r) \in RequestRecord BY RequestTyped
  <2>2. request'[t] = Request("find", r) BY <1>3 DEF IInv, RecordsFit, TypeOK
  <2>3. Exists(r[1])' BY <1>1 DEF Reads, Exists, EnrollScheduledQuest, SubmitOpenQuest
  <2>4. Knows(t)' BY <2>2, <2>3 DEF Knows, Enrolling, Request
  <2>. QED BY <1>1, <1>3, <2>1, <2>4, ReadingKeeps
<1>. QED BY <1>2, <1>3 DEF EnrollScheduledQuest, SubmitOpenQuest

(* A step to another place of the handler, with what it has read.          *)
LEMMA StepTyped ==
  ASSUME IInv, NEW t \in Threads, NEW pc \in {"insert", "again"}, Step(t, pc), Enrolling(t)
  PROVE  /\ request' = [request EXCEPT ![t] = [request[t] EXCEPT !.pc = pc]]
         /\ [request[t] EXCEPT !.pc = pc] \in RequestRecord
         /\ request'[t].pc = pc /\ request'[t].pair = request[t].pair
         /\ request'[t].lost = request[t].lost
         /\ request[t].pair \in Pairs
<1>1. request \in [Threads -> RequestRecord] BY DEF IInv, RecordsFit, TypeOK, RequestRecord
<1>2. [request[t] EXCEPT !.pc = pc] \in RequestRecord BY <1>1 DEF RequestRecord
<1>3. request' = [request EXCEPT ![t] = [request[t] EXCEPT !.pc = pc]] BY DEF Step
<1>4. request'[t] = [request[t] EXCEPT !.pc = pc] BY <1>1, <1>3
<1>5. /\ request'[t].pc = pc /\ request'[t].pair = request[t].pair
      /\ request'[t].lost = request[t].lost
  BY <1>1, <1>4 DEF RequestRecord
<1>. QED BY <1>2, <1>3, <1>5 DEF IInv, Knows

LEMMA FindKeeps == ASSUME IInv, NEW t \in Threads, FindAssignment(t) PROVE IInv'
<1>1. Reads /\ Enrolling(t) BY DEF Reads, FindAssignment, Enrolling
<1>2. CASE Answer(t, "enrolled") BY <1>1, <1>2, AnsweringKeeps DEF Answers
<1>3. CASE Step(t, "insert")
  <2>1. Knows(t)' BY <1>1, <1>3, StepTyped DEF IInv, Knows, Enrolling, Reads, Exists
  <2>. QED BY <1>1, <1>3, <2>1, StepTyped, ReadingKeeps
<1>. QED BY <1>2, <1>3 DEF FindAssignment

LEMMA FindAgainKeeps == ASSUME IInv, NEW t \in Threads, FindAgain(t) PROVE IInv'
  BY AnsweringKeeps DEF FindAgain, Reads, Answers

LEMMA InsertKeeps == ASSUME IInv, NEW t \in Threads, InsertAssignment(t) PROVE IInv'
<1>. DEFINE r == request[t].pair
<1>1. r \in Pairs /\ Enrolling(t) BY DEF InsertAssignment, Enrolling, IInv, Knows
<1>2. CASE ~Insertable(r)
  <2>1. Reads /\ Step(t, "again") BY <1>2 DEF InsertAssignment, Reads
  <2>2. rows[r] > 0 \/ request[t].lost
    BY <1>1, <1>2 DEF Insertable, IInv, RecordsFit, TypeOK, Knows
  <2>3. Knows(t)' BY <1>1, <2>1, <2>2, StepTyped DEF IInv, Knows, Enrolling, Reads, Exists
  <2>. QED BY <1>1, <2>1, <2>3, StepTyped, ReadingKeeps
<1>3. CASE Insertable(r)
  <2>1. /\ rows' = [rows EXCEPT ![r] = @ + 1] /\ UNCHANGED <<quest, score>>
        /\ request' = [NewAssignment(r) EXCEPT ![t] = Request("enrolled", NoPair)]
    BY <1>3 DEF InsertAssignment
  <2>2. /\ Request("enrolled", NoPair) \in RequestRecord
        /\ request'[t] = Request("enrolled", NoPair)
    BY <2>1, RequestTyped DEF NewAssignment, Answers
  <2>7. request \in [Threads -> RequestRecord] BY DEF IInv, RecordsFit, TypeOK, RequestRecord
  <2>8. ASSUME NEW u \in Threads, u # t
        PROVE  /\ request'[u] \in RequestRecord /\ request'[u].pc = request[u].pc
               /\ request'[u].pair = request[u].pair /\ request'[u].taken \subseteq request[u].taken
               /\ request'[u].handed = request[u].handed /\ request'[u].lost = request[u].lost
    <3>1. request'[u] = [request[u] EXCEPT !.taken = @ \ {r}]
      BY <2>1, <2>8 DEF NewAssignment
    <3>. QED BY <2>7, <3>1 DEF RequestRecord
  <2>9. request' \in [Threads -> RequestRecord]
    BY <2>1, <2>2, <2>8 DEF NewAssignment
  <2>3. TypeOK'
    BY <1>1, <2>1, <2>9 DEF IInv, RecordsFit, TypeOK, RequestRecord
  <2>4. rows[r] = 0 /\ Exists(r[1]) BY <1>3 DEF Insertable
  <2>5. RecordsFit'
    <3>1. ASSUME NEW o \in Pairs
          PROVE  /\ rows'[o] <= 1 /\ (rows'[o] > 0 => Exists(o[1])')
                 /\ (score'[o] # NoRow => rows'[o] = 1)
      <4>1. CASE o = r
        <5>1. rows'[o] = 1 BY <1>1, <2>1, <2>4, <4>1 DEF IInv, RecordsFit, TypeOK
        <5>. QED BY <2>1, <2>4, <4>1, <5>1 DEF Exists
      <4>2. CASE o # r
        <5>1. rows'[o] = rows[o] BY <1>1, <2>1, <4>2 DEF IInv, RecordsFit, TypeOK
        <5>. QED BY <2>1, <5>1 DEF IInv, RecordsFit, Exists
      <4>. QED BY <4>1, <4>2
    <3>. QED BY <2>3, <3>1 DEF RecordsFit
  <2>6. ASSUME NEW u \in Threads PROVE Knows(u)'
    <3>1. CASE u = t
      BY <2>2, <3>1 DEF Knows, Enrolling, Request
    <3>2. CASE u # t
      <4>2. \A o \in Pairs : rows[o] > 0 => rows'[o] > 0
        BY <1>1, <2>1 DEF IInv, RecordsFit, TypeOK
      <4>3. Knows(u) BY DEF IInv
      <4>. QED BY <2>1, <2>8, <3>2, <4>2, <4>3 DEF Knows, Enrolling, Exists
    <3>. QED BY <3>1, <3>2
  <2>. QED BY <2>5, <2>6 DEF IInv
<1>. QED BY <1>2, <1>3

LEMMA CollectKeeps == ASSUME IInv, NEW t \in Threads, NEW q \in Quests, Collect(t, q) PROVE IInv'
<1>. DEFINE new == [pc |-> "delete", pair |-> <<q, 0>>, taken |-> {r \in Of(q) : rows[r] > 0},
                    handed |-> Of(q) \cap Handed, lost |-> FALSE]
<1>1. Reads /\ request' = [request EXCEPT ![t] = new] BY DEF Collect, Reads
<1>3. new \in RequestRecord
  <2>1. <<q, 0>> \in Quests \X {0} OBVIOUS
  <2>2. {r \in Of(q) : rows[r] > 0} \subseteq Pairs /\ Of(q) \cap Handed \subseteq Pairs
    BY OfInPairs
  <2>. QED BY <2>1, <2>2 DEF RequestRecord
<1>4. request'[t] = new BY <1>1 DEF IInv, RecordsFit, TypeOK
<1>5. Knows(t)'
  <2>1. <<q, 0>>[1] = q /\ <<q, 0>> \in Quests \X {0} OBVIOUS
  <2>2. /\ request'[t].pc = "delete" /\ request'[t].pair = <<q, 0>>
        /\ request'[t].taken \subseteq Of(q) /\ request'[t].handed \subseteq Of(q)
    BY <1>4
  <2>. QED BY <2>1, <2>2 DEF Knows, Enrolling, Of
<1>. QED BY <1>1, <1>3, <1>5, ReadingKeeps

LEMMA DeleteKeeps == ASSUME IInv, NEW t \in Threads, DeleteQuest(t) PROVE IInv'
<1>. DEFINE q == request[t].pair[1]
            taken == request[t].taken
            handed == request[t].handed
<1>1. q \in Quests /\ taken \subseteq Of(q) /\ handed \subseteq Of(q)
  BY DEF DeleteQuest, IInv, Knows
<1>2. CASE Missed(q, taken, handed) # {}
  <2>1. Answer(t, "error") /\ Reads BY <1>2 DEF DeleteQuest, Reads
  <2>. QED BY <2>1, AnsweringKeeps DEF Answers
<1>3. CASE Missed(q, taken, handed) = {}
  <2>1. /\ quest' = [quest EXCEPT ![q] = "gone"]
        /\ rows'  = [r \in Pairs |-> IF r \in taken THEN 0 ELSE rows[r]]
        /\ score' = [r \in Pairs |-> IF r \in handed THEN NoRow ELSE score[r]]
        /\ request' = [Losing(q) EXCEPT ![t] = Request("done", NoPair)]
    BY <1>3 DEF DeleteQuest
  <2>2. /\ Request("done", NoPair) \in RequestRecord
        /\ request'[t] = Request("done", NoPair)
    BY <2>1, RequestTyped DEF Losing, Answers
  <2>8. request \in [Threads -> RequestRecord] BY DEF IInv, RecordsFit, TypeOK, RequestRecord
  <2>9. ASSUME NEW u \in Threads, u # t
        PROVE  /\ request'[u] \in RequestRecord /\ request'[u].pc = request[u].pc
               /\ request'[u].pair = request[u].pair /\ request'[u].taken = request[u].taken
               /\ request'[u].handed = request[u].handed
               /\ request'[u].lost
                    <=> request[u].lost \/ (Enrolling(u) /\ request[u].pair \in Of(q))
    <3>1. request'[u] = [request[u] EXCEPT
                           !.lost = @ \/ (Enrolling(u) /\ request[u].pair \in Of(q))]
      BY <2>1, <2>9 DEF Losing
    <3>2. (request[u].lost \/ (Enrolling(u) /\ request[u].pair \in Of(q))) \in BOOLEAN
      OBVIOUS
    <3>. QED BY <2>8, <3>1, <3>2 DEF RequestRecord
  <2>3. TypeOK'
    <3>1. quest' \in [Quests -> {"closed", "active", "gone"}]
      BY <1>1, <2>1 DEF IInv, RecordsFit, TypeOK
    <3>2. rows' \in [Pairs -> Nat] BY <2>1 DEF IInv, RecordsFit, TypeOK
    <3>3. score' \in [Pairs -> Scores \cup {None, NoRow}]
      BY <2>1 DEF IInv, RecordsFit, TypeOK
    <3>4. request' \in [Threads -> RequestRecord]
      BY <2>1, <2>2, <2>9 DEF Losing
    <3>. QED BY <3>1, <3>2, <3>3, <3>4 DEF TypeOK, RequestRecord
  <2>4. ASSUME NEW o \in Of(q)
        PROVE  o \in Pairs /\ rows'[o] = 0 /\ score'[o] = NoRow
    <3>1. o \in Pairs BY <1>1, OfInPairs
    <3>2. rows[o] > 0 => o \in taken BY <1>3 DEF Missed
    <3>3. score[o] # NoRow => o \in handed BY <1>3, <3>1 DEF Missed, Handed
    <3>. QED BY <2>1, <3>1, <3>2, <3>3 DEF IInv, RecordsFit, TypeOK
  <2>5. ASSUME NEW o \in Pairs, o \notin Of(q)
        PROVE  rows'[o] = rows[o] /\ score'[o] = score[o] /\ o[1] # q /\ o[1] \in Quests
               /\ quest'[o[1]] = quest[o[1]]
    <3>1. o[1] \in Quests /\ o[1] # q BY <2>5, PairParts
    <3>. QED BY <1>1, <2>1, <2>5, <3>1 DEF IInv, RecordsFit, TypeOK
  <2>6. RecordsFit'
    <3>1. ASSUME NEW o \in Pairs
          PROVE  /\ rows'[o] <= 1 /\ (rows'[o] > 0 => Exists(o[1])')
                 /\ (score'[o] # NoRow => rows'[o] = 1)
      <4>1. CASE o \in Of(q) BY <2>4, <4>1
      <4>2. CASE o \notin Of(q) BY <2>5, <4>2 DEF IInv, RecordsFit, Exists
      <4>. QED BY <4>1, <4>2
    <3>. QED BY <2>3, <3>1 DEF RecordsFit
  <2>7. ASSUME NEW u \in Threads PROVE Knows(u)'
    <3>1. CASE u = t
      BY <2>2, <3>1 DEF Knows, Enrolling, Request
    <3>2. CASE u # t
      <4>. DEFINE o == request[u].pair
      <4>1. Knows(u) BY DEF IInv
      <4>2. CASE Enrolling(u) /\ o \in Of(q)
        <5>1. request'[u].lost BY <2>9, <3>2, <4>2
        <5>. QED BY <2>9, <3>2, <4>1, <4>2, <5>1 DEF Knows, Enrolling
      <4>3. CASE Enrolling(u) /\ o \notin Of(q)
        <5>1. o \in Pairs BY <4>1, <4>3 DEF Knows
        <5>2. rows'[o] = rows[o] /\ quest'[o[1]] = quest[o[1]]
          <6>. HIDE DEF o, q
          <6>. QED BY <2>5, <4>3, <5>1
        <5>. QED BY <2>9, <3>2, <4>1, <4>3, <5>1, <5>2 DEF Knows, Enrolling, Exists
      <4>4. CASE ~Enrolling(u)
        BY <2>9, <3>2, <4>1, <4>4 DEF Knows, Enrolling, Of
      <4>. QED BY <4>2, <4>3, <4>4
    <3>. QED BY <3>1, <3>2
  <2>. QED BY <2>6, <2>7 DEF IInv
<1>. QED BY <1>2, <1>3

-----------------------------------------------------------------------------
(* The environment.                                                        *)

LEMMA MoveKeeps == ASSUME IInv, NEW q \in Quests, MoveQuest(q) PROVE IInv'
<1>1. quest' \in [Quests -> {"closed", "active", "gone"}]
  BY DEF MoveQuest, IInv, RecordsFit, TypeOK
<1>2. \A p \in Quests : Exists(p)' <=> Exists(p)
  BY DEF MoveQuest, Exists, IInv, RecordsFit, TypeOK
<1>3. UNCHANGED <<rows, score, request>> BY DEF MoveQuest
<1>4. TypeOK' BY <1>1, <1>3 DEF IInv, RecordsFit, TypeOK
<1>5. RecordsFit' BY <1>2, <1>3, <1>4, PairParts DEF IInv, RecordsFit
<1>6. ASSUME NEW t \in Threads PROVE Knows(t)'
  <2>1. Knows(t) BY DEF IInv
  <2>2. request[t].pair \in Pairs => request[t].pair[1] \in Quests BY PairParts
  <2>. QED BY <1>2, <1>3, <2>1, <2>2 DEF Knows, Enrolling, Of
<1>. QED BY <1>5, <1>6 DEF IInv

(* Of a quest that has gone there is nothing left.                         *)
LEMMA EditKeeps == ASSUME IInv, NEW q \in Quests, EditQuest(q) PROVE IInv'
<1>1. quest' \in [Quests -> {"closed", "active", "gone"}]
  BY DEF EditQuest, IInv, RecordsFit, TypeOK
<1>2. \A p \in Quests : Exists(p) => Exists(p)'
  BY DEF EditQuest, Exists, IInv, RecordsFit, TypeOK
<1>3. UNCHANGED <<rows, score, request>> BY DEF EditQuest
<1>4. TypeOK' BY <1>1, <1>3 DEF IInv, RecordsFit, TypeOK
<1>5. RecordsFit' BY <1>2, <1>3, <1>4, PairParts DEF IInv, RecordsFit
<1>6. ASSUME NEW t \in Threads PROVE Knows(t)'
  <2>1. Knows(t) BY DEF IInv
  <2>2. request[t].pair \in Pairs => request[t].pair[1] \in Quests BY PairParts
  <2>. QED BY <1>2, <1>3, <2>1, <2>2 DEF Knows, Enrolling, Of
<1>. QED BY <1>5, <1>6 DEF IInv

(* Submissions come, go and are scored under an assignment.                *)
LEMMA ScoreKeeps ==
  ASSUME IInv, NEW r \in Pairs, NEW s \in Scores \cup {None, NoRow},
         score' = [score EXCEPT ![r] = s], rows[r] = 1 \/ s = NoRow,
         request' = request \/ request' = NewSubmission(r), UNCHANGED <<quest, rows>>
  PROVE  IInv'
<1>1. request \in [Threads -> RequestRecord] BY DEF IInv, RecordsFit, TypeOK, RequestRecord
<1>2. ASSUME NEW t \in Threads
      PROVE  /\ request'[t] \in RequestRecord /\ request'[t].pc = request[t].pc
             /\ request'[t].pair = request[t].pair /\ request'[t].taken = request[t].taken
             /\ request'[t].handed \subseteq request[t].handed
             /\ request'[t].lost = request[t].lost
  BY <1>1 DEF NewSubmission, RequestRecord
<1>3. request' \in [Threads -> RequestRecord] BY <1>1, <1>2 DEF NewSubmission
<1>4. TypeOK' BY <1>3 DEF IInv, RecordsFit, TypeOK, RequestRecord
<1>5. RecordsFit'
  <2>1. ASSUME NEW o \in Pairs
        PROVE  /\ rows'[o] <= 1 /\ (rows'[o] > 0 => Exists(o[1])')
               /\ (score'[o] # NoRow => rows'[o] = 1)
    BY DEF IInv, RecordsFit, TypeOK, Exists
  <2>. QED BY <1>4, <2>1 DEF RecordsFit
<1>6. ASSUME NEW t \in Threads PROVE Knows(t)'
  <2>1. Knows(t) BY DEF IInv
  <2>. QED BY <1>2, <2>1 DEF Knows, Enrolling, Of, Exists
<1>. QED BY <1>5, <1>6 DEF IInv

LEMMA EnvironmentKeeps == ASSUME IInv, Environment PROVE IInv'
<1>1. ASSUME NEW q \in Quests, MoveQuest(q) \/ EditQuest(q) PROVE IInv'
  BY <1>1, MoveKeeps, EditKeeps
<1>2. ASSUME NEW r \in Pairs, Submit(r) PROVE IInv'
  <2>1. rows[r] = 1 BY <1>2 DEF Submit, IInv, RecordsFit, TypeOK
  <2>. QED BY <1>2, <2>1, ScoreKeeps DEF Submit
<1>3. ASSUME NEW r \in Pairs, UndoSubmit(r) PROVE IInv'
  BY <1>3, ScoreKeeps DEF UndoSubmit
<1>4. ASSUME NEW r \in Pairs, ScoreSubmission(r) PROVE IInv'
  <2>1. rows[r] = 1 BY <1>4 DEF ScoreSubmission, IInv, RecordsFit
  <2>2. PICK s \in Scores : score' = [score EXCEPT ![r] = s] BY <1>4 DEF ScoreSubmission
  <2>. QED BY <1>4, <2>1, <2>2, ScoreKeeps DEF ScoreSubmission
<1>. QED BY <1>1, <1>2, <1>3, <1>4 DEF Environment

LEMMA InitIInv == ASSUME Init PROVE IInv
<1>1. Request("done", NoPair) \in RequestRecord BY RequestTyped DEF Answers
<1>2. TypeOK BY <1>1 DEF Init, TypeOK, RequestRecord
<1>3. RecordsFit BY <1>2 DEF Init, RecordsFit
<1>4. \A t \in Threads : Knows(t) BY DEF Init, Knows, Enrolling, Request
<1>. QED BY <1>3, <1>4 DEF IInv

LEMMA StepIInv == IInv /\ [Next]_vars => IInv'
<1>. SUFFICES ASSUME IInv, [Next]_vars PROVE IInv'
  OBVIOUS
<1>1. CASE UNCHANGED vars
  BY <1>1 DEF vars, IInv, RecordsFit, TypeOK, Knows, Enrolling, Exists
<1>2. CASE Environment BY <1>2, EnvironmentKeeps
<1>3. ASSUME NEW t \in Threads, Serve(t) PROVE IInv'
  BY <1>3, BeginKeeps, FindKeeps, InsertKeeps, FindAgainKeeps, CollectKeeps, DeleteKeeps DEF Serve
<1>. QED BY <1>1, <1>2, <1>3 DEF Next

(* A participant has one assignment in a quest at the most, no assignment  *)
(* is without its quest and no submission without its assignment, for any  *)
(* enrolments and deletions that overlap.                                  *)
THEOREM RecordsAlwaysFit == Spec => []RecordsFit
<1>1. IInv => RecordsFit BY DEF IInv
<1>. QED BY <1>1, InitIInv, StepIInv, PTL DEF Spec

-----------------------------------------------------------------------------
(* Enrolment.                                                              *)

(* A request goes on in its own steps only, and to these answers.          *)
LEMMA OutcomesOfEnrolling ==
  ASSUME IInv, Next, NEW t \in Threads, Enrolling(t)
  PROVE  LET r == request[t].pair IN
           /\ request'[t].pc = "enrolled" => rows'[r] = 1 /\ Exists(r[1])
           /\ request'[t].pc = "error" => request[t].lost
<1>. DEFINE r == request[t].pair
            Holds == /\ request'[t].pc = "enrolled" => rows'[r] = 1 /\ Exists(r[1])
                     /\ request'[t].pc = "error" => request[t].lost
<1>. SUFFICES Holds OBVIOUS
<1>1. request \in [Threads -> RequestRecord] BY DEF IInv, RecordsFit, TypeOK, RequestRecord
<1>2. r \in Pairs /\ rows \in [Pairs -> Nat] /\ Knows(t)
  BY DEF IInv, Knows, RecordsFit, TypeOK
<1>3. rows[r] > 0 => rows[r] = 1 /\ Exists(r[1]) BY <1>2 DEF IInv, RecordsFit
<1>4. ASSUME request'[t].pc = request[t].pc PROVE Holds BY <1>4 DEF Enrolling
<1>5. CASE Environment
  BY <1>1, <1>4, <1>5 DEF Environment, MoveQuest, EditQuest, Submit, UndoSubmit, ScoreSubmission,
                          NewSubmission, RequestRecord
<1>6. ASSUME NEW u \in Threads, u # t, Serve(u) PROVE Holds
  <2>1. ASSUME InsertAssignment(u) PROVE request'[t].pc = request[t].pc
    <3>. DEFINE N == NewAssignment(request[u].pair)
    <3>1. N \in [Threads -> RequestRecord] /\ N[t].pc = request[t].pc
      BY <1>1 DEF NewAssignment, RequestRecord
    <3>2. request' = [N EXCEPT ![u] = Request("enrolled", NoPair)] \/ Step(u, "again")
      BY <2>1 DEF InsertAssignment
    <3>. HIDE DEF N
    <3>. QED BY <1>1, <1>6, <3>1, <3>2 DEF Step
  <2>2. ASSUME DeleteQuest(u) PROVE request'[t].pc = request[t].pc
    <3>. DEFINE L == Losing(request[u].pair[1])
    <3>1. L \in [Threads -> RequestRecord] /\ L[t].pc = request[t].pc
      BY <1>1 DEF Losing, RequestRecord
    <3>2. request' = [L EXCEPT ![u] = Request("done", NoPair)] \/ Answer(u, "error")
      BY <2>2 DEF DeleteQuest
    <3>. HIDE DEF L
    <3>. QED BY <1>1, <1>6, <3>1, <3>2 DEF Answer
  <2>3. ASSUME ~InsertAssignment(u), ~DeleteQuest(u) PROVE request'[t].pc = request[t].pc
    BY <1>1, <1>6, <2>3 DEF Serve, EnrollScheduledQuest, SubmitOpenQuest, FindAssignment,
         FindAgain, Collect, Answer, Step
  <2>4. request'[t].pc = request[t].pc BY <2>1, <2>2, <2>3
  <2>. QED BY <1>4, <2>4
<1>7. CASE Serve(t)
  <2>1. ~Free(t) /\ request[t].pc # "delete" BY DEF Free, Answers, Enrolling
  <2>2. CASE FindAssignment(t)
    <3>1. CASE rows[r] > 0 BY <1>1, <1>3, <2>2, <3>1 DEF FindAssignment, Answer, Request
    <3>2. CASE ~(rows[r] > 0) BY <1>1, <2>2, <3>2 DEF FindAssignment, Step, RequestRecord
    <3>. QED BY <3>1, <3>2
  <2>3. CASE InsertAssignment(t)
    <3>1. CASE Insertable(r)
      BY <1>1, <1>2, <2>3, <3>1 DEF InsertAssignment, Insertable, NewAssignment, Request
    <3>2. CASE ~Insertable(r) BY <1>1, <2>3, <3>2 DEF InsertAssignment, Step, RequestRecord
    <3>. QED BY <3>1, <3>2
  <2>4. CASE FindAgain(t)
    BY <1>1, <1>2, <1>3, <2>4 DEF FindAgain, Refound, Answer, Request, Knows
  <2>. QED BY <1>7, <2>1, <2>2, <2>3, <2>4
           DEF Serve, EnrollScheduledQuest, SubmitOpenQuest, Collect, DeleteQuest
<1>. QED BY <1>5, <1>6, <1>7 DEF Next

(* Who enrols gets to an assignment that is there, and to an error only    *)
(* when the quest has been deleted since, for any requests that overlap.   *)
THEOREM EnrolmentAlwaysHolds == Spec => EnrolmentHolds
<1>1. IInv /\ [Next]_vars =>
        [\A t \in Threads : LET r == request[t].pair IN
           Enrolling(t) =>
             /\ request'[t].pc = "enrolled" => rows'[r] = 1 /\ Exists(r[1])
             /\ request'[t].pc = "error" => request[t].lost]_vars
  BY OutcomesOfEnrolling
<1>. QED BY <1>1, InitIInv, StepIInv, PTL DEF Spec, EnrolmentHolds

-----------------------------------------------------------------------------
(* Sums.  Induction over the size of a set is by a least counterexample:   *)
(* the set of the sizes that behave holds 0, and n + 1 with n.             *)

LEMMA NatMin ==
  ASSUME NEW X \in SUBSET Nat, X # {}
  PROVE  \E n \in X : \A m \in X : n <= m
<1>1. PICK n \in X : \A m \in X : <<m, n>> \notin OpToRel(<, Nat)
  BY NatLessThanWellFounded, WFMin
<1>2. ASSUME NEW m \in X PROVE n <= m
  <2>1. m \in Nat /\ n \in Nat /\ <<m, n>> \in Nat \X Nat OBVIOUS
  <2>2. ~(m < n) BY <1>1, <2>1 DEF OpToRel
  <2>. QED BY <2>1, <2>2
<1>. QED BY <1>2

LEMMA NatSetInduction ==
  ASSUME NEW X \in SUBSET Nat, 0 \in X, \A n \in X : n + 1 \in X
  PROVE  \A n \in Nat : n \in X
<1>1. SUFFICES ASSUME NEW n \in Nat, n \notin X PROVE FALSE
  OBVIOUS
<1>. DEFINE Y == {m \in Nat : m \notin X}
<1>2. PICK k \in Y : \A m \in Y : k <= m
  <2>1. n \in Y /\ Y \in SUBSET Nat BY <1>1
  <2>. QED BY <2>1, NatMin
<1>3. k # 0 /\ k - 1 \in Nat BY <1>2
<1>4. k - 1 \in X BY <1>2, <1>3
<1>5. (k - 1) + 1 = k BY <1>2
<1>. QED BY <1>2, <1>4, <1>5

(* The recursion behind SumFunctionOnSet.                                  *)
Pick(T) == CHOOSE x \in T : TRUE
Rest(T) == T \ {Pick(T)}

SumIter(v, S) ==
  CHOOSE f : f = [T \in SUBSET S |-> IF T = {} THEN 0 ELSE v[Pick(T)] + f[Rest(T)]]

LEMMA SumIs == \A v, S : SumFunctionOnSet(v, S) = SumIter(v, S)[S]
  BY DEF SumFunctionOnSet, FoldFunctionOnSet, MapThenFoldSet, SumIter, Pick, Rest

(* The recursion has a solution: it is built up from the smaller subsets.  *)
(* f adds up v over the subsets of S that have n elements at most.         *)
Adds(f, v, S, n) ==
  \A T \in SUBSET S : Cardinality(T) <= n =>
    f[T] = IF T = {} THEN 0 ELSE v[Pick(T)] + f[Rest(T)]

LEMMA RestIsSmaller ==
  ASSUME NEW T, IsFiniteSet(T), T # {}
  PROVE  /\ Pick(T) \in T /\ Rest(T) \subseteq T /\ IsFiniteSet(Rest(T))
         /\ Cardinality(T) \in Nat \ {0} /\ Cardinality(Rest(T)) = Cardinality(T) - 1
  BY FS_RemoveElement, FS_EmptySet, FS_CardinalityType DEF Pick, Rest

LEMMA SumExists ==
  ASSUME NEW v, NEW S, IsFiniteSet(S)
  PROVE  \A T \in SUBSET S :
           SumIter(v, S)[T] = IF T = {} THEN 0 ELSE v[Pick(T)] + SumIter(v, S)[Rest(T)]
<1>0. \A T \in SUBSET S : IsFiniteSet(T) /\ Cardinality(T) \in Nat /\ Cardinality(T) <= Cardinality(S)
  BY FS_Subset, FS_CardinalityType
<1>. DEFINE X == {n \in Nat : \E f : Adds(f, v, S, n)}
<1>1. 0 \in X
  <2>. DEFINE f == [T \in SUBSET S |-> 0]
  <2>1. Adds(f, v, S, 0) BY <1>0, FS_EmptySet DEF Adds
  <2>. QED BY <2>1
<1>2. ASSUME NEW n \in X PROVE n + 1 \in X
  <2>1. n \in Nat OBVIOUS
  <2>2. PICK f : Adds(f, v, S, n) OBVIOUS
  <2>. DEFINE g == [T \in SUBSET S |-> IF Cardinality(T) <= n THEN f[T] ELSE v[Pick(T)] + f[Rest(T)]]
  <2>3. ASSUME NEW T \in SUBSET S, Cardinality(T) <= n + 1
        PROVE  g[T] = IF T = {} THEN 0 ELSE v[Pick(T)] + g[Rest(T)]
    <3>1. T # {} => /\ Rest(T) \in SUBSET S /\ Cardinality(Rest(T)) <= n
                    /\ Cardinality(Rest(T)) \in Nat
      BY <1>0, <2>1, <2>3, RestIsSmaller
    <3>2. T # {} => g[Rest(T)] = f[Rest(T)] BY <3>1
    <3>3. T = {} => Cardinality(T) <= n BY <2>1, FS_EmptySet
    <3>4. CASE Cardinality(T) <= n BY <2>2, <3>2, <3>4 DEF Adds
    <3>5. CASE ~(Cardinality(T) <= n) BY <3>2, <3>3, <3>5
    <3>. QED BY <3>4, <3>5
  <2>. HIDE DEF g
  <2>4. Adds(g, v, S, n + 1) BY <2>3 DEF Adds
  <2>. QED BY <2>1, <2>4
<1>3. Cardinality(S) \in X
  <2>. HIDE DEF X
  <2>1. X \in SUBSET Nat BY DEF X
  <2>. QED BY <1>0, <1>1, <1>2, <2>1, NatSetInduction
<1>4. PICK f : Adds(f, v, S, Cardinality(S)) BY <1>3
<1>. DEFINE h == [T \in SUBSET S |-> f[T]]
<1>5. h = [T \in SUBSET S |-> IF T = {} THEN 0 ELSE v[Pick(T)] + h[Rest(T)]]
  <2>1. ASSUME NEW T \in SUBSET S
        PROVE  h[T] = IF T = {} THEN 0 ELSE v[Pick(T)] + h[Rest(T)]
    <3>1. h[T] = IF T = {} THEN 0 ELSE v[Pick(T)] + f[Rest(T)] BY <1>0, <1>4 DEF Adds
    <3>2. T # {} => Rest(T) \in SUBSET S BY DEF Rest
    <3>. QED BY <3>1, <3>2
  <2>2. h = [T \in SUBSET S |-> h[T]] OBVIOUS
  <2>. HIDE DEF h
  <2>. QED BY <2>1, <2>2
<1>. HIDE DEF h
<1>6. SumIter(v, S)
        = [T \in SUBSET S |-> IF T = {} THEN 0 ELSE v[Pick(T)] + SumIter(v, S)[Rest(T)]]
  BY <1>5, Zenon DEF SumIter
<1>. QED
  <2>. DEFINE k == SumIter(v, S)
  <2>1. k = [T \in SUBSET S |-> IF T = {} THEN 0 ELSE v[Pick(T)] + k[Rest(T)]] BY <1>6
  <2>. HIDE DEF k
  <2>2. \A T \in SUBSET S : k[T] = IF T = {} THEN 0 ELSE v[Pick(T)] + k[Rest(T)]
    BY <2>1
  <2>. QED BY <2>2 DEF k

(* The sum does not depend on the set that the recursion started from.     *)
LEMMA SumOfPart ==
  ASSUME NEW v, NEW S, IsFiniteSet(S), NEW U \in SUBSET S
  PROVE  SumIter(v, S)[U] = SumFunctionOnSet(v, U)
<1>1. \A T \in SUBSET U : /\ T \in SUBSET S /\ IsFiniteSet(T) /\ Cardinality(T) \in Nat
  BY FS_Subset, FS_CardinalityType
<1>. DEFINE a == SumIter(v, S)
            b == SumIter(v, U)
<1>2. \A T \in SUBSET U : /\ a[T] = IF T = {} THEN 0 ELSE v[Pick(T)] + a[Rest(T)]
                          /\ b[T] = IF T = {} THEN 0 ELSE v[Pick(T)] + b[Rest(T)]
  <2>1. IsFiniteSet(U) BY <1>1
  <2>2. \A T \in SUBSET U : a[T] = IF T = {} THEN 0 ELSE v[Pick(T)] + a[Rest(T)]
    BY <1>1, SumExists
  <2>3. \A T \in SUBSET U : b[T] = IF T = {} THEN 0 ELSE v[Pick(T)] + b[Rest(T)]
    BY <2>1, SumExists
  <2>. QED BY <2>2, <2>3
<1>. HIDE DEF a, b
<1>. DEFINE X == {n \in Nat : \A T \in SUBSET U : Cardinality(T) = n => a[T] = b[T]}
<1>3. 0 \in X
  <2>1. ASSUME NEW T \in SUBSET U, Cardinality(T) = 0 PROVE a[T] = b[T]
    <3>1. T = {} BY <1>1, <2>1, FS_EmptySet
    <3>. QED BY <1>2, <3>1
  <2>. QED BY <2>1
<1>4. ASSUME NEW n \in X PROVE n + 1 \in X
  <2>1. ASSUME NEW T \in SUBSET U, Cardinality(T) = n + 1 PROVE a[T] = b[T]
    <3>1. T # {} BY <2>1, FS_EmptySet
    <3>2. Rest(T) \in SUBSET U /\ Cardinality(Rest(T)) = n BY <1>1, <2>1, <3>1, RestIsSmaller
    <3>3. a[Rest(T)] = b[Rest(T)] BY <3>2
    <3>. QED BY <1>2, <3>1, <3>3
  <2>. QED BY <2>1
<1>5. a[U] = b[U]
  <2>1. \A n \in Nat : n \in X BY <1>3, <1>4, NatSetInduction
  <2>. QED BY <1>1, <2>1
<1>. QED BY <1>5, SumIs DEF a, b

(* The equations of the sum.                                               *)
LEMMA SumUnfolds ==
  /\ \A v : SumFunctionOnSet(v, {}) = 0
  /\ \A v, S : IsFiniteSet(S) /\ S # {} =>
       SumFunctionOnSet(v, S) = v[Pick(S)] + SumFunctionOnSet(v, Rest(S))
<1>1. ASSUME NEW v PROVE SumFunctionOnSet(v, {}) = 0
  BY SumIs, SumExists, FS_EmptySet
<1>2. ASSUME NEW v, NEW S, IsFiniteSet(S), S # {}
      PROVE  SumFunctionOnSet(v, S) = v[Pick(S)] + SumFunctionOnSet(v, Rest(S))
  <2>1. Rest(S) \in SUBSET S /\ S \in SUBSET S BY DEF Rest
  <2>2. SumIter(v, S)[S] = v[Pick(S)] + SumIter(v, S)[Rest(S)] BY <1>2, <2>1, SumExists
  <2>. QED BY <1>2, <2>1, <2>2, SumIs, SumOfPart
<1>. QED BY <1>1, <1>2

(* Numbers add up to a number, and in any order: the one that is added     *)
(* first may be any.                                                       *)
Summable(v, S) == IsFiniteSet(S) /\ \A x \in S : v[x] \in Nat

LEMMA SumIsNat ==
  ASSUME NEW v, NEW S, Summable(v, S) PROVE SumFunctionOnSet(v, S) \in Nat
<1>1. \A T \in SUBSET S : IsFiniteSet(T) /\ Cardinality(T) \in Nat
  BY FS_Subset, FS_CardinalityType DEF Summable
<1>. DEFINE X == {n \in Nat : \A T \in SUBSET S :
                                Cardinality(T) = n => SumFunctionOnSet(v, T) \in Nat}
<1>2. 0 \in X
  <2>1. ASSUME NEW T \in SUBSET S, Cardinality(T) = 0 PROVE SumFunctionOnSet(v, T) \in Nat
    <3>1. T = {} BY <1>1, <2>1, FS_EmptySet
    <3>. QED BY <3>1, SumUnfolds
  <2>. QED BY <2>1
<1>3. ASSUME NEW n \in X PROVE n + 1 \in X
  <2>1. ASSUME NEW T \in SUBSET S, Cardinality(T) = n + 1 PROVE SumFunctionOnSet(v, T) \in Nat
    <3>1. T # {} BY <2>1, FS_EmptySet
    <3>2. Rest(T) \in SUBSET S /\ Cardinality(Rest(T)) = n /\ Pick(T) \in S
      BY <1>1, <2>1, <3>1, RestIsSmaller
    <3>3. SumFunctionOnSet(v, Rest(T)) \in Nat /\ v[Pick(T)] \in Nat BY <3>2 DEF Summable
    <3>4. SumFunctionOnSet(v, T) = v[Pick(T)] + SumFunctionOnSet(v, Rest(T))
      BY <1>1, <3>1, SumUnfolds
    <3>. QED BY <3>3, <3>4
  <2>. QED BY <2>1
<1>4. \A n \in Nat : n \in X
  <2>. HIDE DEF X
  <2>1. X \in SUBSET Nat BY DEF X
  <2>. QED BY <1>2, <1>3, <2>1, NatSetInduction
<1>. QED BY <1>1, <1>4

LEMMA SumRemoves ==
  ASSUME NEW v, NEW S, Summable(v, S), NEW x \in S
  PROVE  SumFunctionOnSet(v, S) = v[x] + SumFunctionOnSet(v, S \ {x})
<1>1. \A T \in SUBSET S : Summable(v, T) /\ Cardinality(T) \in Nat
  BY FS_Subset, FS_CardinalityType DEF Summable
<1>. DEFINE Out(T) == \A y \in T :
              SumFunctionOnSet(v, T) = v[y] + SumFunctionOnSet(v, T \ {y})
            X == {n \in Nat : \A T \in SUBSET S : Cardinality(T) = n => Out(T)}
<1>2. 0 \in X
  <2>1. ASSUME NEW T \in SUBSET S, Cardinality(T) = 0 PROVE T = {}
    BY <1>1, <2>1, FS_EmptySet DEF Summable
  <2>. QED BY <2>1
<1>3. ASSUME NEW n \in X PROVE n + 1 \in X
  <2>1. ASSUME NEW T \in SUBSET S, Cardinality(T) = n + 1, NEW y \in T
        PROVE  SumFunctionOnSet(v, T) = v[y] + SumFunctionOnSet(v, T \ {y})
    <3>. DEFINE p == Pick(T)
                R == Rest(T)
    <3>1. IsFiniteSet(T) /\ T # {} BY <1>1, <2>1 DEF Summable
    <3>2. /\ p \in T /\ R = T \ {p} /\ R \in SUBSET S /\ Cardinality(R) = n
          /\ SumFunctionOnSet(v, T) = v[p] + SumFunctionOnSet(v, R)
      BY <2>1, <3>1, RestIsSmaller, SumUnfolds DEF Rest
    <3>. HIDE DEF p, R
    <3>3. CASE y = p BY <3>2, <3>3
    <3>4. CASE y # p
      <4>1. y \in R /\ p \in T \ {y} /\ (T \ {y}) \ {p} = R \ {y} BY <3>2, <3>4
      <4>2. T \ {y} \in SUBSET S /\ R \ {y} \in SUBSET S /\ Cardinality(T \ {y}) = n
        BY <2>1, <3>1, <3>2, FS_RemoveElement
      <4>3. SumFunctionOnSet(v, R) = v[y] + SumFunctionOnSet(v, R \ {y})
        BY <3>2, <4>1
      <4>4. SumFunctionOnSet(v, T \ {y}) = v[p] + SumFunctionOnSet(v, R \ {y})
        BY <4>1, <4>2
      <4>5. v[p] \in Nat /\ v[y] \in Nat /\ SumFunctionOnSet(v, R \ {y}) \in Nat
        BY <1>1, <2>1, <3>2, <4>2, SumIsNat DEF Summable
      <4>. QED BY <3>2, <4>3, <4>4, <4>5
    <3>. QED BY <3>3, <3>4
  <2>. QED BY <2>1
<1>4. \A n \in Nat : n \in X
  <2>. HIDE DEF X
  <2>1. X \in SUBSET Nat BY DEF X
  <2>. QED BY <1>2, <1>3, <2>1, NatSetInduction
<1>5. Out(S)
  <2>1. Cardinality(S) \in Nat BY <1>1
  <2>. QED BY <1>4, <2>1
<1>. QED BY <1>5

(* Zeros add nothing.                                                      *)
LEMMA ZerosAddNothing ==
  ASSUME NEW U, NEW S \in SUBSET U, NEW v, NEW w, Summable(w, U),
         \A x \in S : w[x] = v[x], \A x \in U \ S : w[x] = 0
  PROVE  SumFunctionOnSet(w, U) = SumFunctionOnSet(v, S)
<1>1. \A T \in SUBSET U : /\ Summable(w, T) /\ Summable(v, S \cap T)
                          /\ Cardinality(T) \in Nat
  BY FS_Subset, FS_CardinalityType DEF Summable
<1>. DEFINE Same(T) == SumFunctionOnSet(w, T) = SumFunctionOnSet(v, S \cap T)
            X == {n \in Nat : \A T \in SUBSET U : Cardinality(T) = n => Same(T)}
<1>2. 0 \in X
  <2>1. ASSUME NEW T \in SUBSET U, Cardinality(T) = 0 PROVE Same(T)
    <3>1. T = {} /\ S \cap T = {} BY <1>1, <2>1, FS_EmptySet DEF Summable
    <3>. QED BY <3>1, SumUnfolds
  <2>. QED BY <2>1
<1>3. ASSUME NEW n \in X PROVE n + 1 \in X
  <2>1. ASSUME NEW T \in SUBSET U, Cardinality(T) = n + 1 PROVE Same(T)
    <3>1. IsFiniteSet(T) BY <1>1 DEF Summable
    <3>2. T # {} BY <2>1, FS_EmptySet
    <3>3. PICK y \in T : TRUE BY <3>2
    <3>. DEFINE R == T \ {y}
    <3>4. R \in SUBSET U /\ Cardinality(R) = n
      <4>1. n \in Nat OBVIOUS
      <4>2. Cardinality(R) = Cardinality(T) - 1 BY <3>1, <3>3, FS_RemoveElement
      <4>. QED BY <2>1, <4>1, <4>2
    <3>5. Same(R) BY <3>4
    <3>6. SumFunctionOnSet(w, T) = w[y] + SumFunctionOnSet(w, R)
      <4>1. Summable(w, T) /\ y \in T BY <1>1, <3>3
      <4>. HIDE DEF R
      <4>2. SumFunctionOnSet(w, T) = w[y] + SumFunctionOnSet(w, T \ {y})
        BY <4>1, SumRemoves
      <4>. QED BY <4>2 DEF R
    <3>7. CASE y \in S
      <4>1. (S \cap T) \ {y} = S \cap R /\ y \in S \cap T BY <3>3, <3>7
      <4>2. SumFunctionOnSet(v, S \cap T) = v[y] + SumFunctionOnSet(v, S \cap R)
        BY <1>1, <4>1, SumRemoves
      <4>. QED BY <3>5, <3>6, <3>7, <4>2
    <3>8. CASE y \notin S
      <4>1. S \cap R = S \cap T /\ w[y] = 0 BY <3>3, <3>8
      <4>2. SumFunctionOnSet(w, R) \in Nat
        <5>1. Summable(w, R) BY <1>1, <3>4
        <5>. HIDE DEF R
        <5>. QED BY <5>1, SumIsNat
      <4>3. SumFunctionOnSet(w, R) = SumFunctionOnSet(v, S \cap R) BY <3>5
      <4>. HIDE DEF R
      <4>. QED BY <3>6, <4>1, <4>2, <4>3
    <3>. QED BY <3>7, <3>8
  <2>. QED BY <2>1
<1>4. \A n \in Nat : n \in X
  <2>. HIDE DEF X
  <2>1. X \in SUBSET Nat BY DEF X
  <2>. QED BY <1>2, <1>3, <2>1, NatSetInduction
<1>5. Same(U)
  <2>1. Cardinality(U) \in Nat BY <1>1
  <2>. QED BY <1>4, <2>1
<1>6. S \cap U = S OBVIOUS
<1>. QED BY <1>5, <1>6
-----------------------------------------------------------------------------
(* Lists.                                                                  *)

(* A strict order of S, as a set of pairs, and the number of those that    *)
(* come before, which is the place in the list.                            *)
Orders(B, S) ==
  /\ \A p \in S : <<p, p>> \notin B
  /\ \A p, o, k \in S : <<p, o>> \in B /\ <<o, k>> \in B => <<p, k>> \in B
  /\ \A p, o \in S : p = o \/ <<p, o>> \in B \/ <<o, p>> \in B

Prior(B, S, p) == {o \in S : <<o, p>> \in B}

LEMMA PriorGrows ==
  ASSUME NEW S, IsFiniteSet(S), NEW B, Orders(B, S), NEW p \in S, NEW o \in S, <<p, o>> \in B
  PROVE  Cardinality(Prior(B, S, p)) < Cardinality(Prior(B, S, o))
<1>. DEFINE P == Prior(B, S, p)
            O == Prior(B, S, o)
<1>1. P \cup {p} \subseteq O /\ p \notin P BY DEF Prior, Orders
<1>2. O \subseteq S /\ P \subseteq S BY DEF Prior
<1>. HIDE DEF P, O
<1>3. IsFiniteSet(P) /\ IsFiniteSet(O) BY <1>2, FS_Subset
<1>4. Cardinality(P \cup {p}) = Cardinality(P) + 1 BY <1>1, <1>3, FS_AddElement
<1>5. Cardinality(P \cup {p}) <= Cardinality(O) BY <1>1, <1>3, FS_Subset
<1>6. Cardinality(P) \in Nat /\ Cardinality(O) \in Nat BY <1>3, FS_CardinalityType
<1>. QED BY <1>4, <1>5, <1>6 DEF P, O

LEMMA PriorFits ==
  ASSUME NEW S, IsFiniteSet(S), NEW B, Orders(B, S), NEW p \in S
  PROVE  Cardinality(Prior(B, S, p)) + 1 \in 1 .. Cardinality(S)
<1>. DEFINE P == Prior(B, S, p)
<1>1. P \subseteq S \ {p} BY DEF Prior, Orders
<1>. HIDE DEF P
<1>2. IsFiniteSet(S \ {p}) /\ Cardinality(S \ {p}) = Cardinality(S) - 1
  BY FS_RemoveElement
<1>3. Cardinality(P) <= Cardinality(S) - 1 /\ IsFiniteSet(P) BY <1>1, <1>2, FS_Subset
<1>4. Cardinality(P) \in Nat /\ Cardinality(S) \in Nat BY <1>3, FS_CardinalityType
<1>. QED BY <1>3, <1>4 DEF P

(* A finite set can be listed in any strict order.                         *)
LEMMA ListExists ==
  ASSUME NEW S, IsFiniteSet(S), NEW B, Orders(B, S)
  PROVE  \E list \in [1 .. Cardinality(S) -> S] :
           \A i, j \in 1 .. Cardinality(S) : i < j => <<list[i], list[j]>> \in B
<1>. DEFINE n == Cardinality(S)
            place == [p \in S |-> Cardinality(Prior(B, S, p)) + 1]
<1>0. n \in Nat /\ IsFiniteSet(1 .. n) /\ Cardinality(1 .. n) = n
  <2>1. n \in Nat BY FS_CardinalityType
  <2>2. 1 \in Int /\ n \in Int BY <2>1
  <2>. HIDE DEF n
  <2>. QED BY <2>1, <2>2, FS_Interval
<1>1. \A p \in S : place[p] \in 1 .. n BY PriorFits
<1>2. \A p, o \in S : <<p, o>> \in B => place[p] < place[o]
  <2>1. ASSUME NEW p \in S, NEW o \in S, <<p, o>> \in B PROVE place[p] < place[o]
    <3>1. Cardinality(Prior(B, S, p)) < Cardinality(Prior(B, S, o)) BY <2>1, PriorGrows
    <3>2. place[p] \in Nat /\ place[o] \in Nat BY <1>0, <1>1
    <3>3. IsFiniteSet(Prior(B, S, p)) /\ IsFiniteSet(Prior(B, S, o))
      BY FS_Subset DEF Prior
    <3>4. Cardinality(Prior(B, S, p)) \in Nat /\ Cardinality(Prior(B, S, o)) \in Nat
      BY <3>3, FS_CardinalityType
    <3>. QED BY <3>1, <3>4
  <2>. QED BY <2>1
<1>3. place \in [S -> 1 .. n] BY <1>1
<1>. HIDE DEF place, n
<1>4. place \in Injection(S, 1 .. n)
  <2>1. ASSUME NEW p \in S, NEW o \in S, place[p] = place[o] PROVE p = o
    <3>1. place[p] \in Nat BY <1>0, <1>1
    <3>2. ~(place[p] < place[o]) /\ ~(place[o] < place[p]) BY <2>1, <3>1
    <3>. QED BY <1>2, <3>2 DEF Orders
  <2>. QED BY <1>3, <2>1 DEF Injection, IsInjective
<1>5. place \in Surjection(S, 1 .. n)
  BY <1>0, <1>4, FS_Injection DEF n
<1>. DEFINE list == [i \in 1 .. n |-> CHOOSE p \in S : place[p] = i]
<1>6. \A i \in 1 .. n : list[i] \in S /\ place[list[i]] = i
  <2>1. \A i \in 1 .. n : \E p \in S : place[p] = i BY <1>5 DEF Surjection
  <2>. QED BY <2>1
<1>7. list \in [1 .. n -> S] BY <1>6
<1>. HIDE DEF list
<1>8. ASSUME NEW i \in 1 .. n, NEW j \in 1 .. n, i < j PROVE <<list[i], list[j]>> \in B
  <2>1. list[i] \in S /\ list[j] \in S /\ place[list[i]] = i /\ place[list[j]] = j BY <1>6
  <2>2. i \in Nat /\ j \in Nat BY <1>0
  <2>3. <<list[j], list[i]>> \notin B BY <1>2, <1>8, <2>1, <2>2
  <2>4. list[i] # list[j] BY <1>8, <2>1, <2>2
  <2>. QED BY <2>1, <2>3, <2>4 DEF Orders
<1>. QED BY <1>7, <1>8 DEF n

(* A list in a strict order names everybody once.                          *)
LEMMA ListIsComplete ==
  ASSUME NEW S, IsFiniteSet(S), NEW list \in [1 .. Cardinality(S) -> S],
         \A i, j \in 1 .. Cardinality(S) : i < j => list[i] # list[j]
  PROVE  Everyone(list, S)
<1>. DEFINE n == Cardinality(S)
<1>0. n \in Nat /\ IsFiniteSet(1 .. n) /\ Cardinality(1 .. n) = n
  <2>1. n \in Nat BY FS_CardinalityType
  <2>2. 1 \in Int /\ n \in Int BY <2>1
  <2>. HIDE DEF n
  <2>. QED BY <2>1, <2>2, FS_Interval
<1>. HIDE DEF n
<1>1. list \in [1 .. n -> S] /\ \A i, j \in 1 .. n : i < j => list[i] # list[j] BY DEF n
<1>2. list \in Injection(1 .. n, S)
  <2>1. ASSUME NEW i \in 1 .. n, NEW j \in 1 .. n, list[i] = list[j] PROVE i = j
    <3>1. i \in Nat /\ j \in Nat BY <1>0
    <3>2. ~(i < j) /\ ~(j < i) BY <1>1, <2>1
    <3>. QED BY <3>1, <3>2
  <2>. QED BY <1>1, <2>1 DEF Injection, IsInjective
<1>3. list \in Surjection(1 .. n, S) BY <1>0, <1>2, FS_Injection DEF n
<1>4. DOMAIN list = 1 .. n BY <1>1
<1>5. {list[i] : i \in 1 .. n} = S
  <2>1. \A p \in S : \E i \in 1 .. n : list[i] = p BY <1>3 DEF Surjection
  <2>2. \A i \in 1 .. n : list[i] \in S BY <1>1
  <2>. QED BY <2>1, <2>2
<1>6. Len(list) = n
  <2>1. list \in Seq(S) BY <1>0, <1>1, SeqDef
  <2>. QED BY <1>0, <1>4, <2>1, LenProperties
<1>. QED BY <1>4, <1>5, <1>6 DEF Everyone, n

-----------------------------------------------------------------------------
(* The order of the queries.                                               *)

(* Rows that a query can order: their handles, and a value or NULL each.   *)
Sortable(S, value) ==
  S \in SUBSET Nat /\ IsFiniteSet(S) /\ \A p \in S : value[p] \in Nat \cup {None}

LEMMA BeforeOrders ==
  ASSUME NEW S, NEW value, Sortable(S, value)
  PROVE  Orders({r \in S \X S : Before(value, r[1], r[2])}, S)
<1>. DEFINE B == {r \in S \X S : Before(value, r[1], r[2])}
<1>1. \A p, o \in S : <<p, o>> \in B <=> Before(value, p, o) OBVIOUS
<1>. HIDE DEF B
<1>2. None \notin Nat BY NoneIsNoScore
<1>3. ASSUME NEW p \in S PROVE <<p, p>> \notin B
  BY <1>1 DEF Before, Above, Sortable
<1>4. ASSUME NEW p \in S, NEW o \in S, NEW k \in S, <<p, o>> \in B, <<o, k>> \in B
      PROVE  <<p, k>> \in B
  <2>1. Before(value, p, o) /\ Before(value, o, k) BY <1>1, <1>4
  <2>2. Before(value, p, k) BY <1>2, <2>1 DEF Before, Above, Sortable
  <2>. QED BY <1>1, <2>2
<1>5. ASSUME NEW p \in S, NEW o \in S PROVE p = o \/ <<p, o>> \in B \/ <<o, p>> \in B
  <2>1. p = o \/ Before(value, p, o) \/ Before(value, o, p)
    BY <1>2 DEF Before, Above, Sortable
  <2>. QED BY <1>1, <2>1
<1>. QED BY <1>3, <1>4, <1>5 DEF Orders, B

(* The list names everybody once, and who is named before whom is what the *)
(* query orders by.                                                        *)
LEMMA OrderedLists ==
  ASSUME NEW S, NEW value, Sortable(S, value)
  PROVE  /\ Everyone(Ordered(S, value), S)
         /\ \A p, o \in S : Precedes(Ordered(S, value), p, o) <=> Before(value, p, o)
<1>. DEFINE n == Cardinality(S)
            B == {r \in S \X S : Before(value, r[1], r[2])}
            list == Ordered(S, value)
<1>1. Orders(B, S) BY BeforeOrders
<1>2. \A p, o \in S : <<p, o>> \in B <=> Before(value, p, o) OBVIOUS
<1>3. IsFiniteSet(S) /\ n \in Nat BY FS_CardinalityType DEF Sortable
<1>. HIDE DEF B
<1>4. /\ list \in [1 .. n -> S]
      /\ \A i, j \in 1 .. n : i < j => Before(value, list[i], list[j])
  <2>1. \E l \in [1 .. n -> S] : \A i, j \in 1 .. n : i < j => Before(value, l[i], l[j])
    <3>1. PICK l \in [1 .. n -> S] : \A i, j \in 1 .. n : i < j => <<l[i], l[j]>> \in B
      BY <1>1, <1>3, ListExists
    <3>2. \A i, j \in 1 .. n : i < j => Before(value, l[i], l[j]) BY <1>2, <3>1
    <3>. QED BY <3>2
  <2>. QED BY <2>1 DEF Ordered
<1>. HIDE DEF list, n
<1>5. \A i, j \in 1 .. n : i < j => list[i] # list[j]
  <2>1. \A p \in S : ~Before(value, p, p) BY <1>1, <1>2 DEF Orders
  <2>. QED BY <1>4, <2>1
<1>6. Everyone(list, S) BY <1>3, <1>4, <1>5, ListIsComplete DEF n
<1>7. ASSUME NEW p \in S, NEW o \in S PROVE Precedes(list, p, o) <=> Before(value, p, o)
  <2>1. DOMAIN list = 1 .. n BY <1>4
  <2>2. ASSUME Precedes(list, p, o) PROVE Before(value, p, o)
    BY <1>4, <2>1, <2>2 DEF Precedes
  <2>3. ASSUME Before(value, p, o) PROVE Precedes(list, p, o)
    <3>1. PICK i \in 1 .. n, j \in 1 .. n : list[i] = p /\ list[j] = o
      BY <1>6, <2>1 DEF Everyone
    <3>2. ~Before(value, o, p) /\ p # o BY <1>1, <1>2, <2>3 DEF Orders
    <3>3. ~(j < i) /\ i # j BY <1>4, <3>1, <3>2
    <3>4. i < j BY <1>3, <3>3
    <3>. QED BY <2>1, <3>1, <3>4 DEF Precedes
  <2>. QED BY <2>2, <2>3
<1>. QED BY <1>6, <1>7 DEF list

-----------------------------------------------------------------------------
(* The board.                                                              *)

(* A score is a number or NULL, and so is a total.                         *)
LEMMA ScoreOfTyped ==
  ASSUME NEW q, NEW p PROVE ScoreOf(q, p) \in Scores \cup {None} /\ Scores \subseteq Nat
  BY MaxScoreTyped DEF ScoreOf, Scores

LEMMA ScoredAreFinite == ASSUME NEW p PROVE IsFiniteSet(ScoredOf(p)) /\ ScoredOf(p) \subseteq Quests
<1>1. ScoredOf(p) \in SUBSET Quests BY DEF ScoredOf
<1>. QED BY <1>1, QuestsAreFinite, FS_Subset

LEMMA TotalTyped == ASSUME NEW p PROVE Total(p) \in Nat \cup {None}
<1>. DEFINE v == [q \in Quests |-> ScoreOf(q, p)]
<1>1. Summable(v, ScoredOf(p))
  <2>1. \A q \in ScoredOf(p) : v[q] \in Nat
    BY ScoreOfTyped DEF ScoredOf, ScoreOf
  <2>. QED BY <2>1, ScoredAreFinite DEF Summable
<1>. HIDE DEF v
<1>2. SumFunctionOnSet(v, ScoredOf(p)) \in Nat BY <1>1, SumIsNat
<1>. QED BY <1>2 DEF Total, v

LEMMA EnrolledSortable ==
  ASSUME NEW q, NEW value, \A p \in Enrolled(q) : value[p] \in Nat \cup {None}
  PROVE  Sortable(Enrolled(q), value)
<1>1. Enrolled(q) \in SUBSET Participants BY DEF Enrolled
<1>. QED BY <1>1, ParticipantsTyped, FS_Subset DEF Sortable

(* The overall board is a list in the order of the totals.                 *)
LEMMA OverallIsFair == Everyone(Overall, Participants) /\ NobodyOvertaken
<1>. DEFINE value == [p \in Participants |-> Total(p)]
<1>1. Sortable(Participants, value)
  BY TotalTyped, ParticipantsTyped DEF Sortable
<1>2. Overall = Ordered(Participants, value) BY DEF Overall
<1>3. \A p \in Participants : value[p] = Total(p) OBVIOUS
<1>. HIDE DEF value
<1>4. /\ Everyone(Overall, Participants)
      /\ \A p, o \in Participants : Precedes(Overall, p, o) <=> Before(value, p, o)
  BY <1>1, <1>2, OrderedLists
<1>5. ASSUME NEW p \in Participants, NEW o \in Participants,
             Shown(Total(p)) > Shown(Total(o))
      PROVE  Precedes(Overall, p, o)
  <2>1. Above(Total(p), Total(o))
    BY <1>5, TotalTyped DEF Shown, Above
  <2>. QED BY <1>3, <1>4, <2>1 DEF Before
<1>6. ASSUME NEW p \in Participants, NEW o \in Participants, Total(p) = Total(o), p < o
      PROVE  Precedes(Overall, p, o)
  BY <1>3, <1>4, <1>6 DEF Before
<1>. QED BY <1>4, <1>5, <1>6 DEF NobodyOvertaken

(* Who has a score is enrolled, and who is enrolled and has none adds 0.   *)
LEMMA TotalsAdd == ASSUME RecordsFit PROVE TotalsAddUp
<1>. SUFFICES ASSUME NEW p \in Participants
              PROVE  Shown(Total(p)) = SumFunctionOnSet([q \in Quests |-> Shown(ScoreOf(q, p))],
                                                        {q \in Quests : p \in Enrolled(q)})
  BY DEF TotalsAddUp
<1>. DEFINE v == [q \in Quests |-> ScoreOf(q, p)]
            w == [q \in Quests |-> Shown(ScoreOf(q, p))]
            S == ScoredOf(p)
            U == {q \in Quests : p \in Enrolled(q)}
<1>1. S \in SUBSET U
  <2>1. ASSUME NEW q \in S PROVE p \in Enrolled(q)
    <3>1. q \in Quests /\ <<q, p>> \in Pairs /\ score[<<q, p>>] # NoRow
      BY NoneIsNoScore, ScoreOfTyped DEF ScoredOf, Pairs
    <3>2. rows[<<q, p>>] = 1 BY <3>1 DEF RecordsFit
    <3>. QED BY <3>2 DEF Enrolled
  <2>. QED BY <2>1 DEF ScoredOf
<1>2. \A q \in Quests : w[q] \in Nat BY DEF Shown
<1>3. Summable(w, U)
  <2>1. U \in SUBSET Quests OBVIOUS
  <2>. HIDE DEF U, w
  <2>. QED BY <1>2, <2>1, QuestsAreFinite, FS_Subset DEF Summable
<1>4. \A q \in S : w[q] = v[q] BY ScoreOfTyped DEF ScoredOf, ScoreOf, Shown
<1>5. \A q \in U \ S : w[q] = 0 BY NoneIsNoScore DEF ScoredOf, ScoreOf, Shown
<1>. HIDE DEF v, w, S, U
<1>6. SumFunctionOnSet(w, U) = SumFunctionOnSet(v, S)
  BY <1>1, <1>3, <1>4, <1>5, ZerosAddNothing
<1>7. Shown(Total(p)) = SumFunctionOnSet(v, S)
  <2>1. CASE S = {}
    <3>1. Total(p) = None BY <2>1 DEF Total, S
    <3>2. SumFunctionOnSet(v, S) = 0 BY <2>1, SumUnfolds
    <3>. QED BY <3>1, <3>2, NoneIsNoScore DEF Shown
  <2>2. CASE S # {}
    <3>1. Total(p) = SumFunctionOnSet(v, S) BY <2>2 DEF Total, S, v
    <3>2. Total(p) # None
      <4>1. Summable(w, S) /\ IsFiniteSet(S) BY <1>1, <1>3, FS_Subset DEF Summable
      <4>2. Summable(v, S) BY <1>4, <4>1 DEF Summable
      <4>3. SumFunctionOnSet(v, S) \in Nat BY <4>2, SumIsNat
      <4>. QED BY <3>1, <4>3, NoneIsNoScore
    <3>3. Total(p) \in Nat BY <3>2, TotalTyped
    <3>. QED BY <3>1, <3>3 DEF Shown
  <2>. QED BY <2>1, <2>2
<1>. QED BY <1>6, <1>7 DEF w, U

(* Two lists that disagree on p and o do so because one has NULL, which is *)
(* shown as 0, and the other has the score 0.                              *)
LEMMA ListsAlwaysAgree == ASSUME RecordsFit PROVE ListsAgree
<1>. SUFFICES ASSUME NEW q \in Quests
              PROVE  /\ Everyone(Breakdown(q), Enrolled(q)) /\ Everyone(HostList(q), Enrolled(q))
                     /\ \A p, o \in Enrolled(q) :
                          Precedes(Breakdown(q), p, o) /\ Precedes(HostList(q), o, p)
                            => {score[<<q, p>>], score[<<q, o>>]} \cap Nat = {0}
  BY DEF ListsAgree
<1>. DEFINE shown == [p \in Enrolled(q) |-> Shown(ScoreOf(q, p))]
            read  == [p \in Enrolled(q) |-> ScoreOf(q, p)]
<1>1. /\ \A p \in Enrolled(q) : shown[p] = Shown(ScoreOf(q, p)) /\ read[p] = ScoreOf(q, p)
      /\ Breakdown(q) = Ordered(Enrolled(q), shown)
      /\ HostList(q) = Ordered(Enrolled(q), read)
  BY DEF Breakdown, HostList
<1>. HIDE DEF shown, read
<1>2. Sortable(Enrolled(q), shown) /\ Sortable(Enrolled(q), read)
  <2>1. \A p \in Enrolled(q) : shown[p] \in Nat /\ read[p] \in Nat \cup {None}
    BY <1>1, ScoreOfTyped DEF Shown
  <2>. QED BY <2>1, EnrolledSortable
<1>3. /\ Everyone(Breakdown(q), Enrolled(q)) /\ Everyone(HostList(q), Enrolled(q))
      /\ \A p, o \in Enrolled(q) : Precedes(Breakdown(q), p, o) <=> Before(shown, p, o)
      /\ \A p, o \in Enrolled(q) : Precedes(HostList(q), p, o) <=> Before(read, p, o)
  BY <1>1, <1>2, OrderedLists
<1>4. ASSUME NEW p \in Enrolled(q), NEW o \in Enrolled(q),
             Precedes(Breakdown(q), p, o), Precedes(HostList(q), o, p)
      PROVE  {score[<<q, p>>], score[<<q, o>>]} \cap Nat = {0}
  <2>. DEFINE a == ScoreOf(q, p)
              b == ScoreOf(q, o)
  <2>1. p \in Participants /\ o \in Participants /\ p \in Nat /\ o \in Nat
    BY ParticipantsTyped DEF Enrolled
  <2>2. /\ Above(Shown(a), Shown(b)) \/ (Shown(a) = Shown(b) /\ p < o)
        /\ Above(b, a) \/ (b = a /\ o < p)
    BY <1>1, <1>3, <1>4 DEF Before
  <2>3. a \in Nat \cup {None} /\ b \in Nat \cup {None} /\ None \notin Nat
    BY ScoreOfTyped, NoneIsNoScore
  <2>4. \A k \in {p, o} : score[<<q, k>>] \in Nat \/ ScoreOf(q, k) \in Nat
                           => score[<<q, k>>] = ScoreOf(q, k)
    <3>1. ASSUME NEW k \in Participants
          PROVE  score[<<q, k>>] \in Nat \/ ScoreOf(q, k) \in Nat
                   => score[<<q, k>>] = ScoreOf(q, k)
      <4>1. score[<<q, k>>] \in Scores \cup {None, NoRow}
        BY <3>1 DEF RecordsFit, TypeOK, Pairs
      <4>. QED BY <4>1, NoneIsNoScore DEF ScoreOf
    <3>. QED BY <2>1, <3>1
  <2>. HIDE DEF a, b
  <2>5. b = 0 /\ a = None BY <2>1, <2>2, <2>3 DEF Above, Shown
  <2>6. score[<<q, o>>] = 0 /\ score[<<q, p>>] \notin Nat
    BY <2>3, <2>4, <2>5 DEF a, b
  <2>. QED BY <2>6
<1>. QED BY <1>3, <1>4

(* However enrolments, submissions, scores and deletions overlap, the board *)
(* is fair, for any number of participants and quests.                     *)
THEOREM BoardAlwaysFair == Spec => []BoardIsFair
<1>1. RecordsFit => BoardIsFair
  BY OverallIsFair, TotalsAdd, ListsAlwaysAgree DEF BoardIsFair
<1>. QED BY <1>1, RecordsAlwaysFit, PTL
=============================================================================
