------------------------ MODULE QuestLifecycleProofs ------------------------
(***************************************************************************)
(* Proofs about QuestLifecycle and QuestPage, for every number of quests   *)
(* and every choice of times, and for every number of threads unless a     *)
(* theorem says otherwise.  Only SaveFields, SaveRow and DeleteQuest       *)
(* change a row, so the proofs treat all other steps of a request alike:   *)
(* such a step reads, checks or answers (ReadingStep).                     *)
(***************************************************************************)
EXTENDS QuestPage, TLAPS

(* A stored row has a duration, and so has the row a request is about to   *)
(* compute a window from or to save.                                       *)
RowComplete(row) == row.status \in Stored => row.duration \in Durations

RequestComplete(t) ==
  /\ Serving(t) => /\ request[t].quest \in Quests
                   /\ Fits(request[t].quest, request[t].row)
  /\ request[t].pc \in {"other", "save", "delete"} => request[t].row.duration \in Durations
  /\ request[t].pc \in {"form", "clean", "write"}  => request[t].row.status \in Stored
  /\ request[t].pc \in {"clean", "write"}          => request[t].row.duration \in Durations

(* The inductive invariant behind the type invariant.                      *)
IInv ==
  /\ TypeOK
  /\ \A q \in Quests : RowComplete(quest[q])
  /\ \A t \in Threads : RequestComplete(t)

ReadingStep(t) ==
  \/ \E q \in Quests : \/ StartQuest(t, q) \/ CreateQuest(t, q) \/ EditQuest(t, q)
                       \/ ConfirmDelete(t, q)
                       \/ \E target \in Stored : MoveQuest(t, q, target)
  \/ CheckOther(t) \/ CleanForm(t) \/ CleanModel(t)

-----------------------------------------------------------------------------
(* Lemmas on rows and on the shape of the steps.                           *)

LEMMA DurationsArePositive ==
  ASSUME NEW d \in Durations PROVE d \in Nat /\ d > 0
<1>1. d \in Nat \ {0} BY TimesAreNat
<1>. QED BY <1>1

(* A row that is not in the table is of its type.                          *)
LEMMA NoRowTyped == ASSUME NEW s \in Statuses PROVE NoRow(s) \in Row
  BY TimesAreNat DEF NoRow, Row, Times, Statuses

LEMMA EndedTyped ==
  ASSUME NEW pc \in {"ok", "rejected", "error"} PROVE Ended(pc) \in Request
  BY NoRowTyped DEF Ended, Request, Pc, Statuses

(* A thread that answers keeps the invariant.                              *)
LEMMA AnswerKeeps ==
  ASSUME IInv, NEW t \in Threads, NEW pc \in {"ok", "rejected", "error"}, Answer(t, pc)
  PROVE  /\ request' \in [Threads -> Request]
         /\ \A u \in Threads : RequestComplete(u)'
<1>1. request' \in [Threads -> Request]
  BY EndedTyped DEF IInv, TypeOK, Answer
<1>2. ASSUME NEW u \in Threads PROVE RequestComplete(u)'
  <2>1. CASE u = t
    <3>1. request'[u] = Ended(pc) BY <2>1 DEF Answer, IInv, TypeOK
    <3>2. request'[u].pc = pc BY <3>1 DEF Ended
    <3>. QED BY <3>2 DEF RequestComplete, Serving
  <2>2. CASE u # t
    <3>1. request'[u] = request[u] BY <2>2 DEF Answer, IInv, TypeOK
    <3>. QED BY <3>1 DEF IInv, RequestComplete, Serving
  <2>. QED BY <2>1, <2>2
<1>. QED BY <1>1, <1>2

(* What the form makes of a row is a row of the same mode, with a duration. *)
LEMMA EditedTyped ==
  ASSUME NEW q \in Quests, NEW row \in Row, row.status \in Stored, Fits(q, row),
         NEW s \in FormStatuses(q, row), NEW o \in FormOpens(q),
         NEW d \in Durations, NEW g \in Graces, NEW new, new = Edited(row, s, o, d, g)
  PROVE  /\ new \in Row /\ Fits(q, new)
         /\ new.status \in Stored /\ new.duration \in Durations
         /\ new.status = s /\ new.started = row.started /\ new.ends = row.ends
<1>1. s \in Stored BY DEF FormStatuses, NextStatuses, Stored
<1>2. o \in Opens /\ (q \notin Scheduled => o = None) BY TimesAreNat DEF FormOpens
<1>3. new \in Row BY <1>1, <1>2 DEF Edited, Row, Statuses
<1>4. new.status = s /\ new.opens = o /\ new.duration = d
      /\ new.started = row.started /\ new.ends = row.ends
  BY DEF Edited, Row
<1>. QED BY <1>1, <1>2, <1>3, <1>4 DEF Fits

(* A step that does not save leaves the quests alone and keeps the records *)
(* of the requests in order.                                               *)
LEMMA ReadingKeeps ==
  ASSUME IInv, NEW t \in Threads, ReadingStep(t)
  PROVE  /\ UNCHANGED <<quest, now, byForm>>
         /\ request' \in [Threads -> Request]
         /\ \A u \in Threads : RequestComplete(u)'
<1>. DEFINE Good(new) ==
       /\ new \in Request
       /\ new.pc \in {"other", "save", "form", "clean", "write", "delete"} =>
            new.quest \in Quests /\ Fits(new.quest, new.row)
       /\ new.pc \in {"other", "save", "delete"} => new.row.duration \in Durations
       /\ new.pc \in {"form", "clean", "write"}  => new.row.status \in Stored
       /\ new.pc \in {"clean", "write"}          => new.row.duration \in Durations
<1>1. ASSUME NEW new, Good(new), request' = [request EXCEPT ![t] = new]
      PROVE  /\ request' \in [Threads -> Request]
             /\ \A u \in Threads : RequestComplete(u)'
  <2>1. request' \in [Threads -> Request] BY <1>1 DEF IInv, TypeOK
  <2>2. ASSUME NEW u \in Threads PROVE RequestComplete(u)'
    <3>1. CASE u = t
      <4>1. request'[u] = new BY <1>1, <3>1 DEF IInv, TypeOK
      <4>. QED BY <4>1, <1>1 DEF RequestComplete, Serving
    <3>2. CASE u # t
      <4>1. request'[u] = request[u] BY <1>1, <3>2 DEF IInv, TypeOK
      <4>. QED BY <4>1 DEF IInv, RequestComplete, Serving
    <3>. QED BY <3>1, <3>2
  <2>. QED BY <2>1, <2>2
<1>2. ASSUME NEW q \in Quests, Exists(q), NEW pc \in {"other", "save", "form", "delete"},
             NEW target \in Statuses, Read(t, q, pc, target)
      PROVE  /\ request' \in [Threads -> Request]
             /\ \A u \in Threads : RequestComplete(u)'
  <2>. DEFINE new == [pc |-> pc, quest |-> q, target |-> target, row |-> quest[q]]
  <2>1. request' = [request EXCEPT ![t] = new] BY <1>2 DEF Read
  <2>2. quest[q] \in Row /\ Fits(q, quest[q]) /\ quest[q].status \in Stored
        /\ quest[q].duration \in Durations
    BY <1>2 DEF IInv, TypeOK, RowComplete, Exists
  <2>3. Good(new) BY <2>2 DEF Request, Pc
  <2>. QED BY <2>1, <2>3, <1>1
<1>3. request \in [Threads -> Request] /\ request[t] \in Request
  BY DEF IInv, TypeOK
<1>4. "active" \in Statuses /\ "new" \in Statuses /\ "deleted" \in Statuses
      /\ Stored \subseteq Statuses
  BY DEF Statuses, Stored
<1>5. ASSUME NEW q \in Quests, StartQuest(t, q)
      PROVE  /\ request' \in [Threads -> Request]
             /\ \A u \in Threads : RequestComplete(u)'
  BY <1>5, <1>2, <1>4, AnswerKeeps DEF StartQuest, Begins
<1>6. ASSUME NEW q \in Quests, NEW target \in Stored, MoveQuest(t, q, target)
      PROVE  /\ request' \in [Threads -> Request]
             /\ \A u \in Threads : RequestComplete(u)'
  BY <1>6, <1>2, <1>4, AnswerKeeps DEF MoveQuest, Begins
<1>7. ASSUME NEW q \in Quests, CreateQuest(t, q)
      PROVE  /\ request' \in [Threads -> Request]
             /\ \A u \in Threads : RequestComplete(u)'
  <2>. DEFINE new == [pc |-> "form", quest |-> q, target |-> "new", row |-> NoRow("draft")]
  <2>1. request' = [request EXCEPT ![t] = new] BY <1>7 DEF CreateQuest
  <2>2. NoRow("draft") \in Row BY NoRowTyped DEF Statuses, Stored
  <2>3. Good(new) BY <2>2, <1>4 DEF Request, Pc, NoRow, Fits, Stored
  <2>. QED BY <2>1, <2>3, <1>1
<1>8. ASSUME NEW q \in Quests, EditQuest(t, q) \/ ConfirmDelete(t, q)
      PROVE  /\ request' \in [Threads -> Request]
             /\ \A u \in Threads : RequestComplete(u)'
  BY <1>8, <1>2, <1>4 DEF EditQuest, ConfirmDelete, Begins
<1>9. ASSUME NEW pc \in {"save", "write"}, Step(t, pc),
             pc = "save" => request[t].pc = "other", pc = "write" => request[t].pc = "clean"
      PROVE  /\ request' \in [Threads -> Request]
             /\ \A u \in Threads : RequestComplete(u)'
  <2>. DEFINE new == [request[t] EXCEPT !.pc = pc]
  <2>1. request' = [request EXCEPT ![t] = new] BY <1>9 DEF Step
  <2>2. RequestComplete(t) BY DEF IInv
  <2>3. new \in Request BY <1>3 DEF Request, Pc
  <2>4. new.pc = pc /\ new.quest = request[t].quest /\ new.row = request[t].row
    BY <1>3 DEF Request
  <2>5. Good(new) BY <1>9, <2>2, <2>3, <2>4 DEF RequestComplete, Serving
  <2>. QED BY <2>1, <2>5, <1>1
<1>10. ASSUME CheckOther(t) \/ CleanModel(t)
       PROVE  /\ request' \in [Threads -> Request]
              /\ \A u \in Threads : RequestComplete(u)'
  BY <1>9, <1>10, AnswerKeeps DEF CheckOther, CleanModel
<1>11. ASSUME CleanForm(t)
       PROVE  /\ request' \in [Threads -> Request]
              /\ \A u \in Threads : RequestComplete(u)'
  <2>1. CASE Answer(t, "rejected") BY <2>1, AnswerKeeps
  <2>2. ASSUME NEW s \in FormStatuses(request[t].quest, request[t].row),
               NEW o \in FormOpens(request[t].quest), NEW d \in Durations, NEW g \in Graces,
               NEW target, target = IF s = request[t].row.status THEN "new" ELSE s,
               request' = [request EXCEPT ![t] = [request[t] EXCEPT !.pc = "clean",
                             !.target = target, !.row = Edited(request[t].row, s, o, d, g)]]
        PROVE  /\ request' \in [Threads -> Request]
               /\ \A u \in Threads : RequestComplete(u)'
    <3>. DEFINE row == Edited(request[t].row, s, o, d, g)
                new == [request[t] EXCEPT !.pc = "clean", !.target = target, !.row = row]
    <3>1. request' = [request EXCEPT ![t] = new] BY <2>2
    <3>2. RequestComplete(t) /\ request[t].pc = "form" BY <1>11 DEF IInv, CleanForm
    <3>3. request[t].quest \in Quests /\ Fits(request[t].quest, request[t].row)
          /\ request[t].row.status \in Stored /\ request[t].row \in Row
      BY <1>3, <3>2 DEF RequestComplete, Serving, Request
    <3>4. row \in Row /\ Fits(request[t].quest, row) /\ row.status \in Stored
          /\ row.duration \in Durations /\ row.status = s
      BY <3>3, EditedTyped
    <3>. HIDE DEF row
    <3>5. new \in Request
      <4>1. target \in Statuses BY <1>4, <2>2, <3>4
      <4>. QED BY <1>3, <3>4, <4>1 DEF Request, Pc
    <3>6. new.pc = "clean" /\ new.quest = request[t].quest /\ new.row = row
      BY <1>3 DEF Request
    <3>7. Good(new) BY <3>3, <3>4, <3>5, <3>6
    <3>. HIDE DEF new
    <3>. QED BY <3>1, <3>7, <1>1
  <2>. QED BY <1>11, <2>1, <2>2 DEF CleanForm
<1>12. UNCHANGED <<quest, now, byForm>>
  BY DEF ReadingStep, StartQuest, CreateQuest, EditQuest, ConfirmDelete, MoveQuest,
         CheckOther, CleanForm, CleanModel
<1>. QED BY <1>5, <1>6, <1>7, <1>8, <1>10, <1>11, <1>12 DEF ReadingStep

(* The row a save(update_fields) leaves is complete and of its mode.       *)
LEMMA MovedTyped ==
  ASSUME IInv, NEW q \in Quests, Exists(q), NEW target \in Statuses,
         NEW asRead \in Row, asRead.duration \in Durations
  PROVE  /\ Moved(q, target, asRead) \in Row
         /\ Fits(q, Moved(q, target, asRead))
         /\ Moved(q, target, asRead).duration \in Durations
<1>1. quest[q] \in Row /\ Fits(q, quest[q]) /\ quest[q].duration \in Durations /\ now \in Nat
  BY DEF IInv, TypeOK, RowComplete, Exists
<1>2. now + Buffer \in Times /\ now + Buffer + asRead.duration \in Times /\ now \in Times
  <2>1. Buffer \in Nat /\ asRead.duration \in Nat BY TimesAreNat, DurationsArePositive
  <2>. QED BY <1>1, <2>1 DEF Times
<1>3. CASE target = "active"
  <2>1. "active" \in Statuses BY DEF Statuses, Stored
  <2>. QED BY <1>1, <1>2, <1>3, <2>1 DEF Moved, Activated, Row, Fits
<1>4. CASE target = "complete"
  <2>1. "complete" \in Statuses BY DEF Statuses, Stored
  <2>. QED BY <1>1, <1>2, <1>4, <2>1 DEF Moved, Completed, Row, Fits
<1>5. CASE target \notin {"active", "complete"}
  BY <1>1, <1>5 DEF Moved, Row, Fits
<1>. QED BY <1>3, <1>4, <1>5

(* A step either saves one row or reads.                                   *)
SavingStep(t) == SaveFields(t) \/ SaveRow(t) \/ DeleteQuest(t)

LEMMA NextShape ==
  ASSUME [Next]_vars
  PROVE  \/ UNCHANGED vars
         \/ Tick
         \/ \E t \in Threads : ReadingStep(t) \/ SavingStep(t)
BY DEF Next, AllDeleted, RequestStep, ReadingStep, SavingStep

(* What a saving step writes: either nothing, or one complete row, and not *)
(* an active one where another quest is active.                            *)
LEMMA SavingWrites ==
  ASSUME IInv, NEW t \in Threads, SavingStep(t)
  PROVE  /\ now' = now
         /\ byForm \subseteq byForm' /\ (byForm \subseteq Scheduled => byForm' \subseteq Scheduled)
         /\ \E pc \in {"ok", "rejected", "error"} : Answer(t, pc)
         /\ \/ quest' = quest
            \/ \E q \in Quests, row \in Row :
                 /\ quest' = [quest EXCEPT ![q] = row]
                 /\ q = request[t].quest
                 /\ Fits(q, row) /\ RowComplete(row) /\ ~Conflict(q, row)
                 /\ \/ SaveFields(t) /\ row = Moved(q, request[t].target, request[t].row)
                    \/ SaveRow(t) /\ row = request[t].row
                    \/ row = NoRow("deleted")
<1>1. request[t] \in Request /\ RequestComplete(t) BY DEF IInv, TypeOK
<1>2. request[t].row \in Row /\ request[t].target \in Statuses BY <1>1 DEF Request
<1>3. CASE SaveFields(t)
  <2>1. request[t].quest \in Quests /\ request[t].row.duration \in Durations
    BY <1>1, <1>3 DEF SaveFields, RequestComplete, Serving
  <2>. DEFINE q == request[t].quest
              row == Moved(q, request[t].target, request[t].row)
  <2>2. CASE Exists(q) /\ ~Conflict(q, row)
    <3>1. row \in Row /\ Fits(q, row) /\ row.duration \in Durations
      BY <1>2, <2>1, <2>2, MovedTyped
    <3>2. quest' = [quest EXCEPT ![q] = row] /\ Answer(t, "ok") /\ now' = now
          /\ byForm' = byForm
      BY <1>3, <2>2 DEF SaveFields
    <3>. QED BY <1>3, <2>1, <2>2, <3>1, <3>2 DEF RowComplete
  <2>3. CASE ~(Exists(q) /\ ~Conflict(q, row))
    <3>1. quest' = quest /\ now' = now /\ byForm' = byForm
          /\ Answer(t, IF Exists(q) THEN "rejected" ELSE "error")
      BY <1>3, <2>3 DEF SaveFields
    <3>. QED BY <3>1
  <2>. QED BY <2>2, <2>3
<1>4. CASE SaveRow(t)
  <2>1. request[t].quest \in Quests /\ Fits(request[t].quest, request[t].row)
        /\ request[t].row.duration \in Durations
    BY <1>1, <1>4 DEF SaveRow, RequestComplete, Serving
  <2>2. CASE Conflict(request[t].quest, request[t].row)
    BY <1>4, <2>2 DEF SaveRow
  <2>3. CASE ~Conflict(request[t].quest, request[t].row)
    <3>1. /\ quest' = [quest EXCEPT ![request[t].quest] = request[t].row]
          /\ Answer(t, "ok") /\ now' = now
          /\ byForm \subseteq byForm' /\ (byForm \subseteq Scheduled => byForm' \subseteq Scheduled)
      BY <1>4, <2>3 DEF SaveRow
    <3>. QED BY <1>2, <1>4, <2>1, <2>3, <3>1 DEF RowComplete
  <2>. QED BY <2>2, <2>3
<1>5. CASE DeleteQuest(t)
  <2>1. request[t].quest \in Quests
    BY <1>1, <1>5 DEF DeleteQuest, RequestComplete, Serving
  <2>2. NoRow("deleted") \in Row BY NoRowTyped DEF Statuses
  <2>3. Fits(request[t].quest, NoRow("deleted")) /\ RowComplete(NoRow("deleted"))
        /\ ~Conflict(request[t].quest, NoRow("deleted"))
    BY DEF Fits, NoRow, RowComplete, Conflict, Stored
  <2>. QED BY <1>5, <2>1, <2>2, <2>3 DEF DeleteQuest
<1>. QED BY <1>3, <1>4, <1>5 DEF SavingStep

-----------------------------------------------------------------------------
(* The type invariant.                                                     *)

LEMMA InitIInv == Init => IInv
<1>1. NoRow("new") \in Row BY NoRowTyped DEF Statuses
<1>2. Ended("ok") \in Request BY EndedTyped
<1>3. ASSUME Init PROVE TypeOK
  BY <1>1, <1>2, <1>3 DEF Init, TypeOK, Fits, NoRow
<1>4. ASSUME Init PROVE \A q \in Quests : RowComplete(quest[q])
  BY <1>4 DEF Init, RowComplete, NoRow, Stored
<1>5. ASSUME Init PROVE \A t \in Threads : RequestComplete(t)
  BY <1>5 DEF Init, RequestComplete, Serving, Ended
<1>. QED BY <1>3, <1>4, <1>5 DEF IInv

LEMMA StepIInv == IInv /\ [Next]_vars => IInv'
<1>. SUFFICES ASSUME IInv, [Next]_vars PROVE IInv'
  OBVIOUS
<1>1. CASE UNCHANGED vars
  BY <1>1 DEF vars, IInv, TypeOK, RequestComplete, Serving
<1>2. CASE Tick
  <2>1. quest' = quest /\ request' = request /\ byForm' = byForm BY <1>2 DEF Tick
  <2>2. now' \in Nat BY <1>2 DEF Tick, IInv, TypeOK
  <2>. QED BY <2>1, <2>2 DEF IInv, TypeOK, RequestComplete, Serving
<1>3. ASSUME NEW t \in Threads, ReadingStep(t) PROVE IInv'
  <2>1. UNCHANGED <<quest, now, byForm>> /\ request' \in [Threads -> Request]
        /\ \A u \in Threads : RequestComplete(u)'
    BY <1>3, ReadingKeeps
  <2>. QED BY <2>1 DEF IInv, TypeOK
<1>4. ASSUME NEW t \in Threads, SavingStep(t) PROVE IInv'
  <2>1. PICK pc \in {"ok", "rejected", "error"} : Answer(t, pc)
    BY <1>4, SavingWrites
  <2>2. request' \in [Threads -> Request] /\ \A u \in Threads : RequestComplete(u)'
    BY <2>1, AnswerKeeps
  <2>3. now' \in Nat /\ byForm' \subseteq Scheduled BY <1>4, SavingWrites DEF IInv, TypeOK
  <2>4. CASE quest' = quest
    BY <2>2, <2>3, <2>4 DEF IInv, TypeOK
  <2>5. CASE quest' # quest
    <3>1. PICK q \in Quests, row \in Row :
            quest' = [quest EXCEPT ![q] = row] /\ Fits(q, row) /\ RowComplete(row)
      BY <1>4, <2>5, SavingWrites
    <3>2. quest' \in [Quests -> Row] BY <3>1 DEF IInv, TypeOK
    <3>3. ASSUME NEW p \in Quests PROVE Fits(p, quest'[p]) /\ RowComplete(quest'[p])
      BY <3>1 DEF IInv, TypeOK
    <3>. QED BY <2>2, <2>3, <3>2, <3>3 DEF IInv, TypeOK
  <2>. QED BY <2>4, <2>5
<1>. QED BY <1>1, <1>2, <1>3, <1>4, NextShape

(* Every reachable state satisfies the inductive invariant.                *)
THEOREM Invariance == Spec => []IInv
  BY InitIInv, StepIInv, PTL DEF Spec

(* Every reachable state is of its type: whatever requests overlap, no     *)
(* drop-in quest gets a window or an opening time.                         *)
THEOREM TypeCorrect == Spec => []TypeOK
<1>1. IInv => TypeOK BY DEF IInv
<1>. QED BY <1>1, Invariance, PTL

-----------------------------------------------------------------------------
(* The safety properties.                                                  *)

(* At most one quest of a season is active, for every number of quests and *)
(* of overlapping requests: whatever a request has read, the index decides *)
(* in the state the row is written to.                                     *)
THEOREM AtMostOneActive == Spec => []OneActive
<1>1. Init => OneActive BY DEF Init, OneActive, NoRow
<1>2. IInv /\ OneActive /\ [Next]_vars => OneActive'
  <2>. SUFFICES ASSUME IInv, OneActive, [Next]_vars PROVE OneActive'
    OBVIOUS
  <2>1. CASE quest' = quest BY <2>1 DEF OneActive
  <2>2. CASE quest' # quest
    <3>1. PICK t \in Threads : SavingStep(t)
      BY <2>2, NextShape, ReadingKeeps DEF vars, Tick
    <3>2. PICK q \in Quests, row \in Row :
            quest' = [quest EXCEPT ![q] = row] /\ ~Conflict(q, row)
      BY <2>2, <3>1, SavingWrites
    <3>. QED BY <3>2 DEF OneActive, Conflict, IInv, TypeOK
  <2>. QED BY <2>1, <2>2
<1>. QED BY <1>1, <1>2, Invariance, PTL DEF Spec

(* An edit that will take its quest live.                                  *)
TakesLive(r) == r.pc \in {"clean", "write"} /\ r.target = "active"

(* What a request may write back: an active row as read has a window too,  *)
(* and so has the row an edit has made of it, unless it takes the quest    *)
(* live or an edit has done so before.                                     *)
ReadHasWindow ==
  \A t \in Threads :
    /\ request[t].quest \in Scheduled \ byForm
    /\ request[t].row.status = "active" /\ ~TakesLive(request[t])
    => HasWindow(request[t].row)

WindowInv == OnlyFormsSkipTheWindow /\ ReadHasWindow

(* Saving the active status of a scheduled quest saves its window.         *)
LEMMA MovedHasWindow ==
  ASSUME IInv, NEW q \in Scheduled, Exists(q), NEW target \in Statuses,
         NEW asRead \in Row, asRead.duration \in Durations,
         quest[q].status = "active" => HasWindow(quest[q]),
         Moved(q, target, asRead).status = "active"
  PROVE  HasWindow(Moved(q, target, asRead))
<1>1. q \in Quests /\ quest[q] \in Row /\ now \in Nat
  BY ModesTyped DEF IInv, TypeOK
<1>2. CASE target = "active"
  <2>1. /\ Moved(q, target, asRead).started = now + Buffer
        /\ Moved(q, target, asRead).ends = now + Buffer + asRead.duration
    BY <1>1, <1>2 DEF Moved, Activated, Row
  <2>2. Buffer \in Nat /\ None \notin Nat BY TimesAreNat
  <2>3. asRead.duration \in Nat /\ asRead.duration > 0 BY DurationsArePositive
  <2>. QED BY <1>1, <2>1, <2>2, <2>3 DEF HasWindow
<1>3. CASE target = "complete"
  BY <1>1, <1>3 DEF Moved, Completed, Row
<1>4. CASE target \notin {"active", "complete"}
  BY <1>1, <1>4 DEF Moved, Row, HasWindow
<1>. QED BY <1>2, <1>3, <1>4

(* The record of a request that reads comes from the table or from a form, *)
(* which leaves the status alone, moves it elsewhere or takes it live.     *)
LEMMA ReadingKeepsWindows ==
  ASSUME IInv, WindowInv, NEW t \in Threads, ReadingStep(t)
  PROVE  ReadHasWindow'
<1>1. request \in [Threads -> Request] /\ quest \in [Quests -> Row] /\ byForm' = byForm
  BY ReadingKeeps DEF IInv, TypeOK
<1>. DEFINE Good(new) ==
       /\ new.quest \in Scheduled \ byForm
       /\ new.row.status = "active" /\ ~TakesLive(new)
       => HasWindow(new.row)
<1>2. ASSUME NEW new, request' = [request EXCEPT ![t] = new], Good(new)
      PROVE  ReadHasWindow'
  <2>1. ASSUME NEW u \in Threads PROVE Good(request'[u])
    BY <1>1, <1>2 DEF ReadHasWindow, WindowInv
  <2>. QED BY <1>1, <2>1 DEF ReadHasWindow, TakesLive, HasWindow
<1>3. ASSUME NEW pc, Answer(t, pc) PROVE ReadHasWindow'
  BY <1>2, <1>3 DEF Answer, Ended, NoRow
<1>4. ASSUME NEW q \in Quests, NEW pc, NEW target, Read(t, q, pc, target)
      PROVE  ReadHasWindow'
  <2>. DEFINE new == [pc |-> pc, quest |-> q, target |-> target, row |-> quest[q]]
  <2>1. request' = [request EXCEPT ![t] = new] BY <1>4 DEF Read
  <2>2. new.quest = q /\ new.row = quest[q] OBVIOUS
  <2>. HIDE DEF new
  <2>3. Good(new) BY <2>2 DEF WindowInv, OnlyFormsSkipTheWindow
  <2>. QED BY <2>1, <2>3, <1>2
<1>5. ASSUME NEW pc, Step(t, pc),
             \/ request[t].pc = "other" /\ pc = "save"
             \/ request[t].pc = "clean" /\ pc = "write"
      PROVE  ReadHasWindow'
  <2>. DEFINE new == [request[t] EXCEPT !.pc = pc]
  <2>1. request' = [request EXCEPT ![t] = new] BY <1>5 DEF Step
  <2>2. new.pc = pc /\ new.target = request[t].target
        /\ new.quest = request[t].quest /\ new.row = request[t].row
    BY <1>1 DEF Request
  <2>. HIDE DEF new
  <2>3. TakesLive(request[t]) => TakesLive(new) BY <1>5, <2>2 DEF TakesLive
  <2>4. Good(new) BY <2>2, <2>3 DEF WindowInv, ReadHasWindow
  <2>. QED BY <2>1, <2>4, <1>2
<1>6. ASSUME NEW q \in Quests, CreateQuest(t, q) PROVE ReadHasWindow'
  <2>. DEFINE new == [pc |-> "form", quest |-> q, target |-> "new", row |-> NoRow("draft")]
  <2>1. request' = [request EXCEPT ![t] = new] BY <1>6 DEF CreateQuest
  <2>2. new.row.status # "active" BY DEF NoRow
  <2>. HIDE DEF new
  <2>. QED BY <2>1, <2>2, <1>2
<1>7. ASSUME NEW s \in FormStatuses(request[t].quest, request[t].row),
             NEW o \in FormOpens(request[t].quest), NEW d \in Durations, NEW g \in Graces,
             NEW target, target = IF s = request[t].row.status THEN "new" ELSE s,
             request' = [request EXCEPT ![t] = [request[t] EXCEPT !.pc = "clean",
                           !.target = target, !.row = Edited(request[t].row, s, o, d, g)]],
             CleanForm(t)
      PROVE  ReadHasWindow'
  <2>. DEFINE row == Edited(request[t].row, s, o, d, g)
              new == [request[t] EXCEPT !.pc = "clean", !.target = target, !.row = row]
  <2>1. request' = [request EXCEPT ![t] = new] BY <1>7
  <2>2. request[t].row \in Row BY <1>1 DEF Request
  <2>3. row.status = s /\ row.started = request[t].row.started
        /\ row.ends = request[t].row.ends
    BY <2>2 DEF Edited, Row
  <2>. HIDE DEF row
  <2>4. new.pc = "clean" /\ new.target = target
        /\ new.quest = request[t].quest /\ new.row = row
    BY <1>1 DEF Request
  <2>5. ~TakesLive(request[t]) BY <1>7 DEF CleanForm, TakesLive
  <2>. HIDE DEF new
  <2>6. ASSUME s = request[t].row.status PROVE Good(new)
    BY <2>3, <2>4, <2>5, <2>6 DEF WindowInv, ReadHasWindow, HasWindow
  <2>7. ASSUME s # request[t].row.status PROVE Good(new)
    BY <1>7, <2>3, <2>4, <2>7 DEF TakesLive
  <2>8. Good(new) BY <2>6, <2>7
  <2>. QED BY <2>1, <2>8, <1>2
<1>8. CASE CleanForm(t)
  BY <1>3, <1>7, <1>8 DEF CleanForm
<1>9. CASE CheckOther(t) \/ CleanModel(t)
  BY <1>3, <1>5, <1>9 DEF CheckOther, CleanModel
<1>10. ASSUME NEW q \in Quests, StartQuest(t, q) \/ EditQuest(t, q) \/ ConfirmDelete(t, q)
       PROVE ReadHasWindow'
  BY <1>3, <1>4, <1>10 DEF StartQuest, EditQuest, ConfirmDelete
<1>11. ASSUME NEW q \in Quests, NEW target \in Stored, MoveQuest(t, q, target)
       PROVE ReadHasWindow'
  BY <1>3, <1>4, <1>11 DEF MoveQuest
<1>. QED BY <1>6, <1>8, <1>9, <1>10, <1>11 DEF ReadingStep

(* An active scheduled quest has a window unless an edit form has taken it *)
(* live, however stale the rows are that overlapping requests save and     *)
(* whatever status their forms carry.                                      *)
THEOREM LiveQuestsHaveWindows == Spec => []OnlyFormsSkipTheWindow
<1>1. Init => WindowInv
  BY ModesTyped DEF Init, WindowInv, OnlyFormsSkipTheWindow, ReadHasWindow, NoRow, Ended
<1>2. IInv /\ WindowInv /\ [Next]_vars => WindowInv'
  <2>. SUFFICES ASSUME IInv, WindowInv, [Next]_vars PROVE WindowInv'
    OBVIOUS
  <2>1. CASE UNCHANGED <<quest, request, byForm>>
    BY <2>1 DEF WindowInv, OnlyFormsSkipTheWindow, ReadHasWindow, TakesLive
  <2>2. ASSUME NEW t \in Threads, ReadingStep(t) PROVE WindowInv'
    <3>1. quest' = quest /\ byForm' = byForm BY <2>2, ReadingKeeps
    <3>2. ReadHasWindow' BY <2>2, ReadingKeepsWindows
    <3>. QED BY <3>1, <3>2 DEF WindowInv, OnlyFormsSkipTheWindow
  <2>3. ASSUME NEW t \in Threads, SavingStep(t) PROVE WindowInv'
    <3>1. PICK pc \in {"ok", "rejected", "error"} : Answer(t, pc) BY <2>3, SavingWrites
    <3>2. byForm \subseteq byForm' BY <2>3, SavingWrites
    <3>3. ReadHasWindow'
      <4>1. ASSUME NEW u \in Threads
            PROVE  request'[u] = request[u] \/ request'[u].row.status # "active"
        BY <3>1 DEF Answer, Ended, NoRow, IInv, TypeOK
      <4>. QED BY <3>2, <4>1 DEF WindowInv, ReadHasWindow, TakesLive, HasWindow
    <3>4. CASE quest' = quest BY <3>2, <3>3, <3>4 DEF WindowInv, OnlyFormsSkipTheWindow
    <3>5. CASE quest' # quest
      <4>1. PICK q \in Quests, row \in Row :
              /\ quest' = [quest EXCEPT ![q] = row]
              /\ q = request[t].quest
              /\ \/ SaveFields(t) /\ row = Moved(q, request[t].target, request[t].row)
                 \/ SaveRow(t) /\ row = request[t].row
                 \/ row = NoRow("deleted")
        BY <2>3, <3>5, SavingWrites
      <4>2. request[t] \in Request /\ RequestComplete(t) BY DEF IInv, TypeOK
      <4>3. q \in Scheduled \ byForm' /\ row.status = "active" => HasWindow(row)
        <5>1. CASE SaveFields(t) /\ row = Moved(q, request[t].target, request[t].row)
          <6>1. Exists(q) BY <3>5, <4>1, <5>1 DEF SaveFields
          <6>2. request[t].row.duration \in Durations BY <4>2, <5>1 DEF SaveFields, RequestComplete
          <6>3. request[t].target \in Statuses /\ request[t].row \in Row BY <4>2 DEF Request
          <6>4. q \in Scheduled \ byForm' => (quest[q].status = "active" => HasWindow(quest[q]))
            BY <3>2 DEF WindowInv, OnlyFormsSkipTheWindow
          <6>. QED BY <5>1, <6>1, <6>2, <6>3, <6>4, MovedHasWindow
        <5>2. CASE SaveRow(t) /\ row = request[t].row
          <6>1. q \in Scheduled \ byForm' => request[t].target # "active"
            BY <3>5, <4>1, <5>2 DEF SaveRow
          <6>2. q \in Scheduled \ byForm' => ~TakesLive(request[t])
            BY <6>1 DEF TakesLive
          <6>. QED BY <3>2, <4>1, <5>2, <6>2 DEF WindowInv, ReadHasWindow
        <5>3. CASE row = NoRow("deleted") BY <5>3 DEF NoRow
        <5>. QED BY <4>1, <5>1, <5>2, <5>3
      <4>4. OnlyFormsSkipTheWindow'
        BY <3>2, <4>1, <4>3, ModesTyped
           DEF WindowInv, OnlyFormsSkipTheWindow, IInv, TypeOK, HasWindow
      <4>. QED BY <3>3, <4>4 DEF WindowInv
    <3>. QED BY <3>4, <3>5
  <2>. QED BY <2>1, <2>2, <2>3, NextShape DEF vars, Tick
<1>3. WindowInv => OnlyFormsSkipTheWindow BY DEF WindowInv
<1>. QED BY <1>1, <1>2, <1>3, Invariance, PTL DEF Spec

(* For every quest and every instant: a page that shows the form after the *)
(* start belongs to a quest that takes the submission.                     *)
THEOREM PageIsHonest == Spec => []FormMeansAccepted
<1>1. ASSUME NEW q \in Scheduled, Phase(quest[q], now) = "active",
             quest[q].started = None \/ now >= quest[q].started, IInv
      PROVE  Accepts(quest[q], now)
  <2>1. ~Closed(quest[q]) /\ ~PastGrace(quest[q], now)
    BY <1>1 DEF Phase
  <2>2. quest[q] \in Row /\ now \in Nat BY <1>1, ModesTyped DEF IInv, TypeOK
  <2>3. quest[q].started = None \/ ~(now < quest[q].started)
    BY <1>1, <2>2 DEF Row, Times
  <2>. QED BY <2>1, <2>3 DEF Accepts, TimingError
<1>2. IInv => FormMeansAccepted BY <1>1 DEF FormMeansAccepted
<1>. QED BY <1>2, Invariance, PTL

-----------------------------------------------------------------------------
(* Requests one at a time.  What a request has read of its quest is what   *)
(* the table holds until it is answered, so the guards it has checked are  *)
(* guards of its save.                                                     *)

OneThread == \A t, u \in Threads : t = u

(* A quest has times once it has gone live or has been closed.             *)
Dated(row) ==
  /\ row.started # None \/ row.ends # None => row.status \in {"active", "complete", "archived"}
  /\ row.status = "active" /\ row.ends # None => row.started # None

Keeps(q, row)     == row.started = quest[q].started /\ row.ends = quest[q].ends
Forward(from, to) == from = to \/ to \in NextStatuses(from) \/ (from = "new" /\ to = "draft")

(* What a request knows in each place, and that none has failed.           *)
Fresh(r) ==
  /\ r.pc \in {"other", "save"} =>
       Exists(r.quest) /\ r.row = quest[r.quest] /\ r.target \in NextStatuses(r.row.status)
  /\ r.pc = "save" /\ r.target = "active" => ~OtherActive(r.quest)
  /\ r.pc \in {"form", "clean", "write"} => Keeps(r.quest, r.row)
  /\ r.pc = "form" =>
       r.row.status = IF quest[r.quest].status = "new" THEN "draft" ELSE quest[r.quest].status
  /\ r.pc \in {"clean", "write"} => Forward(quest[r.quest].status, r.row.status)
  /\ r.pc = "write" /\ r.row.status = "active" => ~OtherActive(r.quest)
  /\ r.pc # "error"

(* The inductive invariant of one thread.                                  *)
SerialInv ==
  /\ \A q \in Quests : Dated(quest[q])
  /\ \A t \in Threads : Fresh(request[t])

(* A request that reads, checks or answers knows what it needs to know.    *)
LEMMA ReadingIsFresh ==
  ASSUME IInv, SerialInv, NEW t \in Threads, ReadingStep(t)
  PROVE  Fresh(request'[t])
<1>1. request \in [Threads -> Request] /\ quest \in [Quests -> Row] /\ request[t] \in Request
  BY DEF IInv, TypeOK
<1>2. ASSUME NEW new, request' = [request EXCEPT ![t] = new], Fresh(new)
      PROVE  Fresh(request'[t])
  BY <1>1, <1>2
<1>3. ASSUME NEW pc \in {"ok", "rejected"}, Answer(t, pc) PROVE Fresh(request'[t])
  <2>1. Ended(pc).pc = pc BY DEF Ended
  <2>2. Fresh(Ended(pc)) BY <2>1 DEF Fresh
  <2>. QED BY <1>2, <1>3, <2>2 DEF Answer
<1>4. ASSUME NEW q \in Quests, Exists(q), NEW pc \in {"other", "save", "form", "delete"},
             NEW target, Read(t, q, pc, target),
             pc \in {"other", "save"} => target \in NextStatuses(quest[q].status),
             pc = "save" => target # "active"
      PROVE  Fresh(request'[t])
  <2> DEFINE new == [pc |-> pc, quest |-> q, target |-> target, row |-> quest[q]]
  <2>1. new.pc = pc /\ new.quest = q /\ new.target = target /\ new.row = quest[q] OBVIOUS
  <2>2. request' = [request EXCEPT ![t] = new] BY <1>4 DEF Read
  <2>3. quest[q].status # "new" BY <1>4 DEF Exists, Stored
  <2> HIDE DEF new
  <2>4. Fresh(new) BY <1>4, <2>1, <2>3 DEF Fresh, Keeps
  <2>. QED BY <1>2, <2>2, <2>4
<1>5. ASSUME NEW pc \in {"save", "write"}, Step(t, pc), Fresh([request[t] EXCEPT !.pc = pc])
      PROVE  Fresh(request'[t])
  <2>1. request' = [request EXCEPT ![t] = [request[t] EXCEPT !.pc = pc]] BY <1>5 DEF Step
  <2>. QED BY <1>2, <1>5, <2>1
<1>6. ASSUME NEW q \in Quests, StartQuest(t, q) PROVE Fresh(request'[t])
  <2>1. quest[q].status = "pending" => "active" \in NextStatuses(quest[q].status)
    BY DEF NextStatuses
  <2>. QED BY <1>3, <1>4, <1>6, <2>1 DEF StartQuest, Startable, Begins
<1>7. ASSUME NEW q \in Quests, NEW target \in Stored, MoveQuest(t, q, target)
      PROVE  Fresh(request'[t])
  BY <1>3, <1>4, <1>7 DEF MoveQuest, Begins
<1>8. ASSUME NEW q \in Quests, CreateQuest(t, q) PROVE Fresh(request'[t])
  <2> DEFINE new == [pc |-> "form", quest |-> q, target |-> "new", row |-> NoRow("draft")]
  <2>1. new.pc = "form" /\ new.quest = q /\ new.row = NoRow("draft") OBVIOUS
  <2>2. request' = [request EXCEPT ![t] = new] /\ quest[q].status = "new"
    BY <1>8 DEF CreateQuest
  <2>3. quest[q].started = None /\ quest[q].ends = None BY <2>2 DEF SerialInv, Dated
  <2>4. NoRow("draft").started = None /\ NoRow("draft").ends = None
        /\ NoRow("draft").status = "draft"
    BY DEF NoRow
  <2> HIDE DEF new
  <2>5. Fresh(new) BY <2>1, <2>2, <2>3, <2>4 DEF Fresh, Keeps
  <2>. QED BY <1>2, <2>2, <2>5
<1>9. ASSUME NEW q \in Quests, EditQuest(t, q) \/ ConfirmDelete(t, q) PROVE Fresh(request'[t])
  BY <1>4, <1>9 DEF EditQuest, ConfirmDelete, Begins
<1>10. Fresh(request[t]) BY DEF SerialInv
<1>11. ASSUME NEW pc
       PROVE  /\ [request[t] EXCEPT !.pc = pc].pc = pc
              /\ [request[t] EXCEPT !.pc = pc].quest = request[t].quest
              /\ [request[t] EXCEPT !.pc = pc].row = request[t].row
              /\ [request[t] EXCEPT !.pc = pc].target = request[t].target
  BY <1>1 DEF Request
<1>12. CASE CheckOther(t)
  <2>1. CASE OtherActive(request[t].quest) BY <1>3, <1>12, <2>1 DEF CheckOther
  <2>2. CASE ~OtherActive(request[t].quest)
    <3>1. Fresh([request[t] EXCEPT !.pc = "save"])
      BY <1>10, <1>11, <1>12, <2>2 DEF CheckOther, Fresh
    <3>. QED BY <1>5, <1>12, <2>2, <3>1 DEF CheckOther
  <2>. QED BY <2>1, <2>2
<1>13. CASE CleanModel(t)
  <2> DEFINE refused == request[t].row.status = "active" /\ OtherActive(request[t].quest)
  <2>1. CASE refused BY <1>3, <1>13, <2>1 DEF CleanModel
  <2>2. CASE ~refused
    <3>1. Fresh([request[t] EXCEPT !.pc = "write"])
      BY <1>10, <1>11, <1>13, <2>2 DEF CleanModel, Fresh
    <3>. QED BY <1>5, <1>13, <2>2, <3>1 DEF CleanModel
  <2>. QED BY <2>1, <2>2
<1>14. ASSUME NEW s \in FormStatuses(request[t].quest, request[t].row),
              NEW o, NEW d, NEW g, request[t].pc = "form",
              NEW target,
              request' = [request EXCEPT ![t] = [request[t] EXCEPT !.pc = "clean",
                            !.target = target, !.row = Edited(request[t].row, s, o, d, g)]]
       PROVE  Fresh(request'[t])
  <2> DEFINE row == Edited(request[t].row, s, o, d, g)
             new == [request[t] EXCEPT !.pc = "clean", !.target = target, !.row = row]
  <2>1. request' = [request EXCEPT ![t] = new] BY <1>14
  <2>2. request[t].row \in Row BY <1>1 DEF Request
  <2>3. row.status = s /\ row.started = request[t].row.started /\ row.ends = request[t].row.ends
    BY <2>2 DEF Edited, Row
  <2> HIDE DEF row
  <2>4. new.pc = "clean" /\ new.quest = request[t].quest /\ new.row = row
    BY <1>1 DEF Request
  <2>5. Forward(quest[request[t].quest].status, s)
    BY <1>10, <1>14 DEF Fresh, Forward, FormStatuses
  <2> HIDE DEF new
  <2>6. Keeps(request[t].quest, row) BY <1>10, <1>14, <2>3 DEF Fresh, Keeps
  <2>7. Fresh(new) BY <2>3, <2>4, <2>5, <2>6 DEF Fresh
  <2>. QED BY <1>2, <2>1, <2>7
<1>15. CASE CleanForm(t) BY <1>3, <1>14, <1>15 DEF CleanForm
<1>. QED BY <1>6, <1>7, <1>8, <1>9, <1>12, <1>13, <1>15 DEF ReadingStep

LEMMA PlaceOf ==
  ASSUME NEW i \in 1 .. 7, NEW s,
         s = <<"new", "draft", "pending", "active", "complete", "archived", "deleted">>[i]
  PROVE  Place(s) = i
<1>. DEFINE P(j) == s = <<"new", "draft", "pending", "active", "complete", "archived",
                          "deleted">>[j]
<1>1. P(i) OBVIOUS
<1>2. ASSUME NEW j \in 1 .. 7, P(j) PROVE j = i BY <1>1, <1>2
<1>3. P(CHOOSE j \in 1 .. 7 : P(j)) /\ (CHOOSE j \in 1 .. 7 : P(j)) \in 1 .. 7
  BY <1>1
<1>. QED BY <1>2, <1>3 DEF Place

LEMMA Places ==
  /\ Place("new") = 1 /\ Place("draft") = 2 /\ Place("pending") = 3 /\ Place("active") = 4
  /\ Place("complete") = 5 /\ Place("archived") = 6 /\ Place("deleted") = 7
<1>1. ASSUME NEW i \in 1 .. 7
      PROVE  Place(<<"new", "draft", "pending", "active", "complete", "archived",
                     "deleted">>[i]) = i
  BY PlaceOf
<1>. QED BY <1>1

LEMMA ForwardAdvances ==
  ASSUME NEW from \in Statuses, NEW to \in Statuses, Forward(from, to) \/ to = "deleted"
  PROVE  Place(from) <= Place(to)
<1>1. CASE to \in NextStatuses(from) BY <1>1, Places DEF NextStatuses
<1>2. CASE from = to BY <1>2, Places DEF Statuses, Stored
<1>3. CASE from = "new" /\ to = "draft" BY <1>3, Places
<1>4. CASE to = "deleted" BY <1>4, Places DEF Statuses, Stored
<1>. QED BY <1>1, <1>2, <1>3, <1>4 DEF Forward

(* What a save does to its quest, when requests come one at a time.        *)
Writes(q, row) ==
  /\ Forward(quest[q].status, row.status) \/ row.status = "deleted"
  /\ quest[q].status = "active" /\ row.status = "active" => Keeps(q, row)
  /\ Dated(row)
  /\ q \in Scheduled /\ quest[q].ends # None => row.ends # None \/ row.status = "deleted"

LEMMA MovedWrites ==
  ASSUME IInv, NEW q \in Quests, Exists(q), Dated(quest[q]), NEW asRead, asRead = quest[q],
         NEW target \in NextStatuses(quest[q].status)
  PROVE  Writes(q, Moved(q, target, asRead)) /\ Moved(q, target, asRead).status = target
<1>1. quest[q] \in Row /\ quest[q].duration \in Durations /\ now \in Nat
  BY DEF IInv, TypeOK, RowComplete, Exists
<1>2. target # quest[q].status /\ Forward(quest[q].status, target)
      /\ (target = "active" => quest[q].status = "pending")
      /\ (target \notin {"active", "complete", "archived"} => quest[q].status = "draft")
  BY DEF NextStatuses, Forward
<1>. DEFINE row == Moved(q, target, asRead)
<1>3. CASE target = "active" /\ q \in Scheduled
  <2>1. quest[q].duration \in Nat /\ Buffer \in Nat /\ None \notin Nat
    BY <1>1, TimesAreNat, DurationsArePositive
  <2>2. now + Buffer # None /\ now + Buffer + quest[q].duration # None BY <1>1, <2>1
  <2>3. row.status = "active" /\ row.started # None /\ row.ends # None
    BY <1>1, <1>3, <2>2 DEF Moved, Activated, Row
  <2>. QED BY <1>2, <1>3, <2>3 DEF Writes, Dated
<1>4. CASE target = "active" /\ q \notin Scheduled
  <2>1. row.status = "active" /\ row.started = quest[q].started /\ row.ends = quest[q].ends
    BY <1>1, <1>4 DEF Moved, Activated, Row
  <2>. QED BY <1>2, <1>4, <2>1 DEF Writes, Dated
<1>5. CASE target = "complete"
  <2>1. row.status = "complete"
        /\ (quest[q].ends # None => row.ends # None)
    BY <1>1, <1>5 DEF Moved, Completed, Row
  <2>. QED BY <1>2, <1>5, <2>1 DEF Writes, Dated
<1>6. CASE target \notin {"active", "complete"}
  <2>1. row.status = target /\ row.started = quest[q].started /\ row.ends = quest[q].ends
    BY <1>1, <1>6 DEF Moved, Row
  <2>. QED BY <1>2, <1>6, <2>1 DEF Writes, Dated
<1>. QED BY <1>3, <1>4, <1>5, <1>6

(* Every save succeeds, and writes what the status machine allows.         *)
LEMMA SavingSucceeds ==
  ASSUME IInv, SerialInv, NEW t \in Threads, SavingStep(t)
  PROVE  /\ Answer(t, "ok") /\ UNCHANGED now
         /\ \E q \in Quests, row \in Row :
              quest' = [quest EXCEPT ![q] = row] /\ Writes(q, row)
<1>1. request[t] \in Request /\ RequestComplete(t) /\ Fresh(request[t])
  BY DEF IInv, TypeOK, SerialInv
<1>. DEFINE q == request[t].quest
<1>2. q \in Quests
  BY <1>1 DEF SavingStep, SaveFields, SaveRow, DeleteQuest, RequestComplete, Serving
<1>3. Dated(quest[q]) /\ quest[q] \in Row BY <1>2 DEF SerialInv, IInv, TypeOK
<1>4. request[t].row \in Row /\ request[t].target \in Statuses BY <1>1 DEF Request
<1>. HIDE DEF q
<1>5. CASE SaveFields(t)
  <2>. DEFINE row == Moved(q, request[t].target, request[t].row)
  <2>1. Exists(q) /\ request[t].row = quest[q]
        /\ request[t].target \in NextStatuses(quest[q].status)
        /\ (request[t].target = "active" => ~OtherActive(q))
    BY <1>1, <1>5 DEF SaveFields, Fresh, q
  <2>2. Writes(q, row) /\ row.status = request[t].target
    BY <1>2, <1>3, <2>1, MovedWrites
  <2>3. ~Conflict(q, row) BY <2>1, <2>2 DEF Conflict, OtherActive
  <2>4. request[t].row.duration \in Durations BY <1>1, <1>5 DEF SaveFields, RequestComplete
  <2>5. row \in Row BY <1>2, <1>4, <2>1, <2>4, MovedTyped
  <2>6. quest' = [quest EXCEPT ![q] = row] /\ Answer(t, "ok") /\ now' = now
    BY <1>5, <2>1, <2>3 DEF SaveFields, q
  <2>. HIDE DEF row
  <2>. QED BY <1>2, <2>2, <2>5, <2>6
<1>6. CASE SaveRow(t)
  <2>. DEFINE row == request[t].row
  <2>1. Keeps(q, row) /\ Forward(quest[q].status, row.status)
        /\ (row.status = "active" => ~OtherActive(q)) /\ row.status \in Stored
    BY <1>1, <1>6 DEF SaveRow, Fresh, RequestComplete, q
  <2>2. ~Conflict(q, row) BY <2>1 DEF Conflict, OtherActive
  <2>3. quest' = [quest EXCEPT ![q] = row] /\ Answer(t, "ok") /\ now' = now
    BY <1>6, <2>2 DEF SaveRow, q
  <2>4. Dated(row)
    BY <1>3, <2>1 DEF Dated, Keeps, Forward, NextStatuses
  <2>5. Writes(q, row) BY <2>1, <2>4 DEF Writes, Keeps
  <2>. HIDE DEF row
  <2>6. row \in Row BY <1>4 DEF row
  <2>. QED BY <1>2, <2>3, <2>5, <2>6
<1>7. CASE DeleteQuest(t)
  <2>1. NoRow("deleted") \in Row BY NoRowTyped DEF Statuses
  <2>2. Writes(q, NoRow("deleted")) BY DEF Writes, Dated, NoRow
  <2>3. quest' = [quest EXCEPT ![q] = NoRow("deleted")] /\ Answer(t, "ok") /\ now' = now
    BY <1>7 DEF DeleteQuest, q
  <2>. QED BY <1>2, <2>1, <2>2, <2>3
<1>. QED BY <1>5, <1>6, <1>7 DEF SavingStep

LEMMA InitSerial == Init => SerialInv
  BY DEF Init, SerialInv, Dated, Fresh, NoRow, Ended

LEMMA StepSerial ==
  ASSUME OneThread, IInv, SerialInv, [Next]_vars PROVE SerialInv'
<1>1. CASE UNCHANGED <<quest, request>>
  <2>1. \A t \in Threads : Fresh(request[t])' <=> Fresh(request[t])
    BY <1>1 DEF Fresh, Exists, OtherActive, Keeps
  <2>. QED BY <1>1, <2>1 DEF SerialInv
<1>2. ASSUME NEW t \in Threads, ReadingStep(t) PROVE SerialInv'
  <2>1. quest' = quest BY <1>2, ReadingKeeps
  <2>2. Fresh(request'[t]) BY <1>2, ReadingIsFresh
  <2>3. Fresh(request[t])'
    BY <2>1, <2>2 DEF Fresh, Exists, OtherActive, Keeps
  <2>. QED BY <1>2, <2>1, <2>3 DEF SerialInv, OneThread
<1>3. ASSUME NEW t \in Threads, SavingStep(t) PROVE SerialInv'
  <2>1. Answer(t, "ok") BY <1>3, SavingSucceeds
  <2>2. request'[t] = Ended("ok") BY <2>1 DEF Answer, IInv, TypeOK
  <2>3. request'[t].pc = "ok" BY <2>2 DEF Ended
  <2>4. Fresh(request[t])' BY <2>3 DEF Fresh
  <2>5. PICK q \in Quests, row \in Row : quest' = [quest EXCEPT ![q] = row] /\ Writes(q, row)
    BY <1>3, SavingSucceeds
  <2>6. \A p \in Quests : Dated(quest'[p])
    BY <2>5 DEF Writes, SerialInv, IInv, TypeOK
  <2>. QED BY <1>3, <2>4, <2>6 DEF SerialInv, OneThread
<1>. QED BY <1>1, <1>2, <1>3, NextShape DEF vars, Tick

THEOREM Serial == ASSUME OneThread PROVE Spec => []SerialInv
<1>1. IInv /\ SerialInv /\ [Next]_vars => SerialInv' BY StepSerial
<1>. QED BY <1>1, InitSerial, Invariance, PTL DEF Spec

(* With one thread, no request ends in a server error: the active quest    *)
(* and the missing row that would make a save raise have been looked for,  *)
(* and nothing has happened since.                                         *)
THEOREM NoErrors == ASSUME OneThread PROVE Spec => []NeverAnError
<1>1. SerialInv => NeverAnError BY DEF SerialInv, Fresh, NeverAnError
<1>. QED BY <1>1, Serial, PTL

(* Any step leaves a quest alone or writes what a save may write.          *)
LEMMA StepWrites ==
  ASSUME IInv, SerialInv, [Next]_vars, NEW q \in Quests
  PROVE  quest'[q] = quest[q] \/ (quest'[q] \in Row /\ Writes(q, quest'[q]))
<1>1. CASE quest' = quest BY <1>1
<1>2. CASE quest' # quest
  <2>1. PICK t \in Threads : SavingStep(t)
    BY <1>2, NextShape, ReadingKeeps DEF vars, Tick
  <2>2. PICK p \in Quests, row \in Row : quest' = [quest EXCEPT ![p] = row] /\ Writes(p, row)
    BY <2>1, SavingSucceeds
  <2>. QED BY <2>2 DEF IInv, TypeOK
<1>. QED BY <1>1, <1>2

(* With one thread, a quest only goes forward: by its buttons, by the edit *)
(* form, and whatever has been read before.                                *)
THEOREM OnlyForward == ASSUME OneThread PROVE Spec => StatusOnlyAdvances
<1>1. ASSUME IInv, SerialInv, [Next]_vars, NEW q \in Quests
      PROVE  Place(quest[q].status) <= Place(quest'[q].status)
  <2>1. quest[q] \in Row /\ quest[q].status \in Statuses
    BY <1>1 DEF IInv, TypeOK, Row
  <2>2. CASE quest'[q] = quest[q]
    <3>1. Forward(quest[q].status, quest'[q].status) BY <2>2 DEF Forward
    <3>. QED BY <2>1, <2>2, <3>1, ForwardAdvances
  <2>3. CASE quest'[q] \in Row /\ Writes(q, quest'[q])
    <3>1. quest'[q].status \in Statuses BY <2>3 DEF Row
    <3>. QED BY <2>1, <2>3, <3>1, ForwardAdvances DEF Writes
  <2>. QED BY <1>1, <2>2, <2>3, StepWrites
<1>2. IInv /\ SerialInv /\ [Next]_vars =>
        [\A q \in Quests : Place(quest[q].status) <= Place(quest'[q].status)]_vars
  BY <1>1
<1>. QED BY <1>2, Invariance, Serial, PTL DEF Spec, StatusOnlyAdvances

(* With one thread, nothing moves the window of a live quest.              *)
THEOREM WindowFixed == ASSUME OneThread PROVE Spec => WindowFixedWhileLive
<1>. DEFINE Fixed(q) ==
       /\ quest[q].status = "active" /\ quest[q].started # None
       /\ quest'[q].status = "active"
       => quest'[q].started = quest[q].started /\ quest'[q].ends = quest[q].ends
<1>1. ASSUME IInv, SerialInv, [Next]_vars, NEW q \in Scheduled PROVE Fixed(q)
  <2>1. q \in Quests BY ModesTyped
  <2>2. quest'[q] = quest[q] \/ Writes(q, quest'[q]) BY <1>1, <2>1, StepWrites
  <2>. QED BY <2>2 DEF Writes, Keeps
<1>2. IInv /\ SerialInv /\ [Next]_vars => [\A q \in Scheduled : Fixed(q)]_vars
  BY <1>1
<1>. QED BY <1>2, Invariance, Serial, PTL DEF Spec, WindowFixedWhileLive

-----------------------------------------------------------------------------
(* The page of a participant, while requests come one at a time.           *)

(* The steps of the page leave the hosts' state alone.                     *)
THEOREM PageSeesQuests == PageSpec => Spec
<1>1. [PageNext]_allVars => [Next]_vars
  BY DEF PageNext, HostStep, PageStep, Render, Load, Countdown, Poll, Hear, allVars
<1>. QED BY <1>1, PTL DEF PageSpec, PageInit, Spec

(* A page that counts down to the end of the quest has seen that end, and  *)
(* the quest keeps one until it is deleted.                                *)
PageInv ==
  /\ page \in [at : {"nowhere", "loading", "shown", "leaving", "404"},
               phase : {"waiting", "active", "expired"}, target : Times]
  /\ page.phase = "active" /\ page.target # None =>
       quest[Watched].status = "deleted" \/ quest[Watched].ends # None

(* Once there is an end, the quest has started or is over.                 *)
LEMMA EndMeansStarted ==
  ASSUME SerialInv, NEW q \in Quests, quest[q].ends # None
  PROVE  Phase(quest[q], now) # "waiting"
<1>1. Closed(quest[q]) \/ Live(quest[q], now) BY DEF SerialInv, Dated, Closed, Live
<1>. QED BY <1>1 DEF Phase

LEMMA PhaseTyped ==
  ASSUME NEW q, NEW n PROVE Phase(q, n) \in {"waiting", "active", "expired"}
  BY DEF Phase

(* What the page is shown when it asks for itself.                         *)
LEMMA RenderShows ==
  ASSUME IInv, SerialInv, PageInv, Render
  PROVE  PageInv' /\ (page.phase = "active" /\ page.target # None => page'.phase # "waiting")
<1>1. Watched \in Scheduled /\ Watched \in Quests BY WatchedTyped, ModesTyped
<1>2. quest' = quest BY DEF Render, vars
<1>3. quest[Watched] \in Row BY <1>1 DEF IInv, TypeOK
<1>4. CASE Exists(Watched)
  <2>. DEFINE phase  == Phase(quest[Watched], now)
              target == Target(quest[Watched], phase)
  <2>1. page' = [at |-> "loading", phase |-> phase, target |-> target]
    BY <1>4 DEF Render
  <2>2. phase \in {"waiting", "active", "expired"} BY PhaseTyped
  <2>3. phase = "active" => target = quest[Watched].ends BY DEF Target
  <2>4. target \in Times
    <3>1. quest[Watched].opens \in Times /\ quest[Watched].ends \in Times /\ None \in Times
      BY <1>3, TimesAreNat DEF Row, Times
    <3>. QED BY <3>1 DEF Target
  <2>5. quest[Watched].status # "deleted" BY <1>4 DEF Exists, Stored
  <2>6. quest[Watched].ends # None => phase # "waiting" BY <1>1, EndMeansStarted
  <2>. HIDE DEF phase, target
  <2>. QED BY <1>2, <2>1, <2>2, <2>3, <2>4, <2>5, <2>6 DEF PageInv
<1>5. CASE ~Exists(Watched)
  <2>1. page' = [at |-> "404", phase |-> "expired", target |-> None]
    BY <1>5 DEF Render
  <2>2. None \in Times BY DEF Times
  <2>. QED BY <2>1, <2>2 DEF PageInv
<1>. QED BY <1>4, <1>5

(* The other steps of the page change at most where it is.                 *)
LEMMA PageStays ==
  ASSUME PageInv, Load \/ Countdown \/ Poll \/ \E e \in {"quest_started", "quest_completed"} : Hear(e)
  PROVE  PageInv' /\ page'.phase = page.phase
<1>1. quest' = quest BY DEF Load, Countdown, Poll, Hear, vars
<1>2. page' = page \/ page' = [page EXCEPT !.at = "shown"] \/ page' = [page EXCEPT !.at = "leaving"]
  BY DEF Load, Countdown, Poll, Hear, TransitionPage
<1>. QED BY <1>1, <1>2 DEF PageInv

LEMMA HostKeepsPage ==
  ASSUME IInv, SerialInv, PageInv, [Next]_vars, page' = page PROVE PageInv'
<1>1. Watched \in Scheduled /\ Watched \in Quests BY WatchedTyped, ModesTyped
<1>2. quest'[Watched] = quest[Watched] \/ Writes(Watched, quest'[Watched])
  BY <1>1, StepWrites
<1>3. ASSUME Writes(Watched, quest'[Watched]), quest[Watched].status = "deleted"
      PROVE  quest'[Watched].status = "deleted"
  BY <1>3 DEF Writes, Forward, NextStatuses
<1>. QED BY <1>1, <1>2, <1>3 DEF PageInv, Writes

LEMMA PageStepKeeps ==
  ASSUME IInv, SerialInv, PageInv, [PageNext]_allVars
  PROVE  /\ PageInv'
         /\ page.phase = "active" /\ page.target # None => page'.phase # "waiting"
<1>1. CASE HostStep
  <2>1. page' = page /\ [Next]_vars BY <1>1 DEF HostStep
  <2>. QED BY <2>1, HostKeepsPage
<1>2. CASE Render BY <1>2, RenderShows
<1>3. CASE Load \/ Countdown \/ Poll \/ \E e \in {"quest_started", "quest_completed"} : Hear(e)
  BY <1>3, PageStays
<1>4. CASE UNCHANGED allVars BY <1>4 DEF allVars, vars, pageVars, PageInv
<1>. QED BY <1>1, <1>2, <1>3, <1>4 DEF PageNext, PageStep

(* With one thread, a participant who has been shown the form with its     *)
(* countdown is never sent back to wait.                                   *)
THEOREM NeverBack == ASSUME OneThread PROVE PageSpec => NeverBackToWaiting
<1>1. PageInit => PageInv
  <2>1. None \in Times BY DEF Times
  <2>. QED BY <2>1 DEF PageInit, PageInv
<1>2. IInv /\ SerialInv /\ PageInv /\ [PageNext]_allVars => PageInv'
  BY PageStepKeeps
<1>3. IInv /\ SerialInv /\ PageInv /\ [PageNext]_allVars =>
        [page.phase = "active" /\ page.target # None => page'.phase # "waiting"]_allVars
  BY PageStepKeeps
<1>. QED BY <1>1, <1>2, <1>3, PageSeesQuests, Invariance, Serial, PTL
         DEF PageSpec, NeverBackToWaiting
=============================================================================
