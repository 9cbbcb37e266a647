--------------------------- MODULE QuestLifecycle ---------------------------
(***************************************************************************)
(* The quests of one season, as its hosts create, edit, start, move and    *)
(* delete them (apps/quests/views.py, forms.py and models.py).             *)
(*                                                                         *)
(* Every handler first reads the quest, checks what it has read, may ask   *)
(* the table whether another quest is active, and then saves: some fields  *)
(* of the row (start, transition) or all of them (edit).  Each of these is *)
(* one action, since the database is in autocommit and every request has   *)
(* a thread of its own.  Only the partial unique index on the active quest *)
(* is checked together with the write.                                     *)
(***************************************************************************)
EXTENDS SubmissionWindow, FiniteSets

CONSTANTS
  Quests,       (* the ids of the season's quests, those yet to be created too  *)
  Scheduled,    (* the quests whose mode is "scheduled", the others are "open"  *)
  Threads,      (* the server's threads; with one, requests do not overlap      *)
  Opens,        (* the values of opens_at the form may carry, None among them   *)
  Durations,    (* the values of duration_seconds                               *)
  Graces,       (* the values of late_grace_seconds                             *)
  Buffer,       (* fairness_buffer_seconds                                      *)
  MaxTime       (* the bound of the clock                                       *)

ASSUME ModesTyped  == Scheduled \subseteq Quests /\ None \notin Quests
ASSUME TimesAreNat ==
  /\ None \notin Nat
  /\ None \in Opens /\ Opens \subseteq Nat \cup {None}
  /\ Durations \subseteq Nat \ {0} /\ Graces \subseteq Nat
  /\ Buffer \in Nat /\ MaxTime \in Nat

VARIABLES
  quest,     (* the SeasonQuest rows                                            *)
  request,   (* the request each thread is serving, or how the last one ended   *)
  now,       (* timezone.now()                                                  *)
  byForm     (* history: the scheduled quests an edit form has taken live       *)

vars == <<quest, request, now, byForm>>

Stored   == {"draft", "pending", "active", "complete", "archived"}
Statuses == Stored \cup {"new", "deleted"}   (* not created yet, or deleted     *)

(* A row that is not in the table holds no values.                         *)
NoRow(status) == [status |-> status, opens |-> None, started |-> None, ends |-> None,
                  duration |-> None, grace |-> None]

Ended(pc) == [pc |-> pc, quest |-> None, target |-> "new", row |-> NoRow("new")]

Exists(q) == quest[q].status \in Stored

-----------------------------------------------------------------------------
(* The threads.                                                            *)

Serving(t) == request[t].pc \in {"other", "save", "form", "clean", "write", "delete"}

Answer(t, pc) == request' = [request EXCEPT ![t] = Ended(pc)]
Step(t, pc)   == request' = [request EXCEPT ![t].pc = pc]

(* get_object_or_404, and what the request goes on to do.                  *)
Begins(t, q) == ~Serving(t) /\ Exists(q)
Read(t, q, pc, target) ==
  request' = [request EXCEPT ![t] =
                [pc |-> pc, quest |-> q, target |-> target, row |-> quest[q]]]

-----------------------------------------------------------------------------
(* The status machine.                                                     *)

(* Mutant: a closed quest may be opened again.                             *)
NextStatuses_Reopen(status) ==
  CASE status = "draft"    -> {"pending", "archived"}
    [] status = "pending"  -> {"active", "archived"}
    [] status = "active"   -> {"complete", "archived"}
    [] status = "complete" -> {"active", "archived"}
    [] OTHER               -> {}

NextStatuses(status) ==
  CASE status = "draft"    -> {"pending", "archived"}
    [] status = "pending"  -> {"active", "archived"}
    [] status = "active"   -> {"complete", "archived"}
    [] status = "complete" -> {"archived"}
    [] OTHER               -> {}

(* Mutant: the query has been forgotten.                                   *)
OtherActive_Forgotten(q) == FALSE

OtherActive(q) == \E p \in Quests \ {q} : quest[p].status = "active"

(* Mutant: the table has no such index.                                    *)
Conflict_NoIndex(q, row) == FALSE

(* The partial unique index season_single_active_quest.                    *)
Conflict(q, row) ==
  row.status = "active" /\ \E p \in Quests \ {q} : quest[p].status = "active"

-----------------------------------------------------------------------------
(* start_scheduled_quest and transition_season_quest_status                *)

(* Mutant: a quest that is live already may be started.                    *)
Startable_LiveToo(q) == q \in Scheduled /\ quest[q].status \in {"pending", "active"}

Startable(q) == q \in Scheduled /\ quest[q].status = "pending"

StartQuest(t, q) ==
  /\ Begins(t, q)
  /\ \/ Startable(q) /\ Read(t, q, "other", "active")
     \/ (* not startable, or too many requests *)
        Answer(t, "rejected")
  /\ UNCHANGED <<quest, now, byForm>>

MoveQuest(t, q, target) ==
  /\ Begins(t, q)
  /\ IF target \in NextStatuses(quest[q].status)
       THEN Read(t, q, IF target = "active" THEN "other" ELSE "save", target)
       ELSE Answer(t, "rejected")
  /\ UNCHANGED <<quest, now, byForm>>

CheckOther(t) ==
  /\ request[t].pc = "other"
  /\ IF OtherActive(request[t].quest) THEN Answer(t, "rejected") ELSE Step(t, "save")
  /\ UNCHANGED <<quest, now, byForm>>

(* Mutants: only the status is saved; drop-in quests get a window as well. *)
Activated_StatusOnly(q, row, asRead) == [row EXCEPT !.status = "active"]
Activated_AnyMode(q, row, asRead) ==
  [row EXCEPT !.status = "active", !.started = now + Buffer,
              !.ends = now + Buffer + asRead.duration]

(* _activate_quest_window for a scheduled quest, the status alone for a    *)
(* drop-in one.  The duration is the one that was read.                    *)
Activated(q, row, asRead) ==
  IF q \in Scheduled
    THEN [row EXCEPT !.status = "active", !.started = now + Buffer,
                     !.ends = now + Buffer + asRead.duration]
    ELSE [row EXCEPT !.status = "active"]

(* ends_at is set with the status when the row that was read had none.     *)
Completed(row, asRead) ==
  [row EXCEPT !.status = "complete", !.ends = IF asRead.ends = None THEN now ELSE @]

(* save(update_fields): the other columns stay what they are by now.       *)
Moved(q, target, asRead) ==
  CASE target = "active"   -> Activated(q, quest[q], asRead)
    [] target = "complete" -> Completed(quest[q], asRead)
    [] OTHER               -> [quest[q] EXCEPT !.status = target]

(* A conflict is caught and answered; a save without its row raises.       *)
SaveFields(t) ==
  LET q   == request[t].quest
      row == Moved(q, request[t].target, request[t].row)
  IN  /\ request[t].pc = "save"
      /\ IF Exists(q) /\ ~Conflict(q, row)
           THEN quest' = [quest EXCEPT ![q] = row] /\ Answer(t, "ok")
           ELSE UNCHANGED quest /\ Answer(t, IF Exists(q) THEN "rejected" ELSE "error")
      /\ UNCHANGED <<now, byForm>>

-----------------------------------------------------------------------------
(* season_quest_create, season_quest_edit and season_quest_delete          *)

(* What the form makes of the quest: drop-in quests lose opens_at, the     *)
(* times are free, and the status is the one that the form carries.  It    *)
(* carries the status the quest had when the form was rendered, which may  *)
(* be older or newer than the row this request has read, or one that the   *)
(* host has chosen since: any status, of which the form takes the one read *)
(* and those its status machine allows next, and refuses the others.  The  *)
(* form of a new quest has no such field.                                  *)
FormStatuses(q, row) ==
  {row.status} \cup (IF quest[q].status = "new" THEN {} ELSE NextStatuses(row.status))

FormOpens(q) == IF q \in Scheduled THEN Opens ELSE {None}

Edited(row, status, opens, duration, grace) ==
  [row EXCEPT !.status = status, !.opens = opens, !.duration = duration, !.grace = grace]

CreateQuest(t, q) ==
  /\ ~Serving(t) /\ quest[q].status = "new"
  /\ \A u \in Threads : request[u].quest # q
  /\ request' = [request EXCEPT ![t] =
                   [pc |-> "form", quest |-> q, target |-> "new", row |-> NoRow("draft")]]
  /\ UNCHANGED <<quest, now, byForm>>

EditQuest(t, q) ==
  /\ Begins(t, q)
  /\ Read(t, q, "form", "new")
  /\ UNCHANGED <<quest, now, byForm>>

(* SeasonQuestForm.clean: no scheduled quest is saved while another one is *)
(* active.  A title that is taken or times that make no sense are refused. *)
ScheduledActive(q) == \E p \in Scheduled \ {q} : quest[p].status = "active"

CleanForm(t) ==
  LET q   == request[t].quest
      row == request[t].row
  IN  /\ request[t].pc = "form"
      /\ \/ /\ ~(q \in Scheduled /\ ScheduledActive(q))
            /\ \E status \in FormStatuses(q, row), opens \in FormOpens(q),
                  duration \in Durations, grace \in Graces :
                 request' = [request EXCEPT ![t] = [request[t] EXCEPT !.pc = "clean",
                               !.target = IF status = row.status THEN "new" ELSE status,
                               !.row = Edited(row, status, opens, duration, grace)]]
         \/ Answer(t, "rejected")
      /\ UNCHANGED <<quest, now, byForm>>

(* SeasonQuest.clean                                                       *)
CleanModel(t) ==
  /\ request[t].pc = "clean"
  /\ IF request[t].row.status = "active" /\ OtherActive(request[t].quest)
       THEN Answer(t, "rejected")
       ELSE Step(t, "write")
  /\ UNCHANGED <<quest, now, byForm>>

(* save() of every column as read and edited.  Nothing catches a conflict, *)
(* and when the row has been deleted Django inserts it again.              *)
SaveRow(t) ==
  LET q == request[t].quest
  IN  /\ request[t].pc = "write"
      /\ IF Conflict(q, request[t].row)
           THEN UNCHANGED <<quest, byForm>> /\ Answer(t, "error")
           ELSE /\ quest' = [quest EXCEPT ![q] = request[t].row]
                /\ byForm' = byForm \cup
                               {p \in Scheduled \cap {q} : request[t].target = "active"}
                /\ Answer(t, "ok")
      /\ UNCHANGED now

ConfirmDelete(t, q) ==
  /\ Begins(t, q)
  /\ Read(t, q, "delete", "deleted")
  /\ UNCHANGED <<quest, now, byForm>>

DeleteQuest(t) ==
  /\ request[t].pc = "delete"
  /\ quest' = [quest EXCEPT ![request[t].quest] = NoRow("deleted")]
  /\ Answer(t, "ok")
  /\ UNCHANGED <<now, byForm>>

-----------------------------------------------------------------------------
Tick ==
  /\ now < MaxTime
  /\ now' = now + 1
  /\ UNCHANGED <<quest, request, byForm>>

(* The clock is at its bound and the hosts have deleted all quests.        *)
AllDeleted ==
  /\ now = MaxTime
  /\ \A q \in Quests : quest[q].status = "deleted"
  /\ \A t \in Threads : ~Serving(t)
  /\ UNCHANGED vars

(* A season without quests.                                                *)
Init ==
  /\ quest = [q \in Quests |-> NoRow("new")]
  /\ request = [t \in Threads |-> Ended("ok")]
  /\ now = 0
  /\ byForm = {}

RequestStep(t) ==
  \/ \E q \in Quests : \/ StartQuest(t, q) \/ CreateQuest(t, q) \/ EditQuest(t, q)
                       \/ ConfirmDelete(t, q)
                       \/ \E target \in Stored : MoveQuest(t, q, target)
  \/ CheckOther(t) \/ SaveFields(t) \/ CleanForm(t) \/ CleanModel(t) \/ SaveRow(t)
  \/ DeleteQuest(t)

Next == Tick \/ AllDeleted \/ \E t \in Threads : RequestStep(t)

Spec == Init /\ [][Next]_vars

-----------------------------------------------------------------------------
(* Properties                                                              *)

Pc    == {"ok", "rejected", "error", "other", "save", "form", "clean", "write", "delete"}
Times == Nat \cup {None}
Row   == [status : Statuses, opens : Opens, started : Times, ends : Times,
          duration : Durations \cup {None}, grace : Graces \cup {None}]
Request == [pc : Pc, quest : Quests \cup {None}, target : Statuses, row : Row]

(* A drop-in quest has neither a window nor an opening time.               *)
Fits(q, row) == q \in Scheduled \/ (row.started = None /\ row.opens = None)

(* Every column holds a value of its type, and of its quest's mode.        *)
TypeOK ==
  /\ quest \in [Quests -> Row]
  /\ request \in [Threads -> Request]
  /\ now \in Nat
  /\ byForm \subseteq Scheduled
  /\ \A q \in Quests : Fits(q, quest[q])

(* At most one quest of a season is active, although every handler asks    *)
(* for another active quest long before it saves.                          *)
OneActive == \A p, q \in Quests : quest[p].status = "active" /\ quest[q].status = "active" => p = q

(* An active scheduled quest has a window: it is never live without a      *)
(* start, and never without an end after it.                               *)
HasWindow(row) == row.started # None /\ row.ends # None /\ row.started < row.ends
LiveHasWindow  == \A q \in Scheduled : quest[q].status = "active" => HasWindow(quest[q])

(* The one way to a live quest without a window is an edit form that has   *)
(* taken it from pending to active: neither the overlap of its start with  *)
(* edits that save stale rows nor a stale status in a form that does not   *)
(* move the quest to active ever costs it the window.                      *)
OnlyFormsSkipTheWindow ==
  \A q \in Scheduled \ byForm : quest[q].status = "active" => HasWindow(quest[q])

(* Every backward transition fails: a quest only goes forward through      *)
(* draft, pending, active, complete, archived, and a deleted one stays so. *)
Place(status) ==
  CHOOSE i \in 1 .. 7 :
    status = <<"new", "draft", "pending", "active", "complete", "archived", "deleted">>[i]
StatusOnlyAdvances ==
  [][\A q \in Quests : Place(quest[q].status) <= Place(quest'[q].status)]_vars

(* The window of a live quest is not moved: a repeated start does not      *)
(* reset its timing.                                                       *)
WindowFixedWhileLive ==
  [][\A q \in Scheduled :
       /\ quest[q].status = "active" /\ quest[q].started # None
       /\ quest'[q].status = "active"
       => quest'[q].started = quest[q].started /\ quest'[q].ends = quest[q].ends]_vars

(* No request ends in a server error: what the index or a missing row      *)
(* would refuse has been refused by a check before.                        *)
NeverAnError == \A t \in Threads : request[t].pc # "error"

(* Once the quest has started, a participant who is shown the form on the  *)
(* quest's page can submit it.                                             *)
FormMeansAccepted ==
  \A q \in Scheduled :
    Exists(q) /\ Phase(quest[q], now) = "active"
    /\ (quest[q].started = None \/ now >= quest[q].started) => Accepts(quest[q], now)
=============================================================================
