----------------------------- MODULE Moderation -----------------------------
(***************************************************************************)
(* Reports about the submissions of a season, their resolution by hosts    *)
(* and administrators, and the audit log (apps/moderation/views.py).       *)
(*                                                                         *)
(* Each call to the database is an action; there are no transactions.  A   *)
(* report names its submission by a string, without a foreign key, and     *)
(* outlives it.  That submissions come and go, that the season is deleted  *)
(* with everything in it, and that an edit of the season inserts it again, *)
(* is the environment's doing.                                             *)
(***************************************************************************)
EXTENDS Naturals, Sequences, FiniteSets

CONSTANTS
  Threads,          (* the server's, for the requests modelled here             *)
  MaxSubmissions,   (* the bound on the ids of submissions                      *)
  MaxReports,       (* the bound on the ids of reports                          *)
  MaxLog            (* the bound on the entries of the log                      *)

ASSUME BoundsTyped == {MaxSubmissions, MaxReports, MaxLog} \subseteq Nat
ASSUME ThreadsAreFinite == IsFiniteSet(Threads)

SubmissionIds == 1 .. MaxSubmissions
ReportIds     == 1 .. MaxReports

VARIABLES
  season,      (* is the season there                                           *)
  submission,  (* the Submission rows, by id; a row is told from all others by  *)
               (* the number it was created with, 0: no row                     *)
  created,     (* how many submissions have been created                        *)
  report,      (* the ModerationReport rows, by id                              *)
  filed,       (* how many reports have been created                            *)
  log,         (* the AuditLog rows about reports                               *)
  request      (* the request each thread serves                                *)

vars == <<season, submission, created, report, filed, log, request>>

(* target: the id in target_id; about: the row the reporter was shown.     *)
Row      == [target : SubmissionIds, about : 1 .. MaxSubmissions,
             status : {"open", "dismissed", "actioned"}]
NoReport == [target |-> 0, about |-> 0, status |-> "none"]

Exists(i) == report[i] # NoReport

(* Of a request only what it still uses is kept.  actor: who it writes as, *)
(* the reporter or moderator as a participant, or staff without being one; *)
(* "gone" when the participant has been deleted meanwhile.                 *)
Idle        == [pc |-> "idle", actor |-> "none", id |-> 0, about |-> 0,
                old |-> "none", new |-> "none"]
Free(t)     == request[t] = Idle
Answered(t) == request' = [request EXCEPT ![t] = Idle]

(* Every request under way may still need a place in the log.              *)
LogHasRoom == Len(log) + Cardinality({t \in Threads : ~Free(t)}) < MaxLog

(* Every report on its way has its id.                                     *)
ReportsHaveRoom == filed + Cardinality({t \in Threads : request[t].pc = "file"}) < MaxReports

-----------------------------------------------------------------------------
(* report_submission.                                                      *)

(* The submission is there, its reporter is in the season, not throttled,  *)
(* and the form is valid.  Otherwise nothing happens.                      *)
ReadSubmission(t, s) ==
  /\ Free(t) /\ submission[s] # 0 /\ LogHasRoom /\ ReportsHaveRoom
  /\ request' = [request EXCEPT ![t] = [Idle EXCEPT !.pc = "file", !.actor = "participant",
                                                    !.id = s, !.about = submission[s]]]
  /\ UNCHANGED <<season, submission, created, report, filed, log>>

(* Without its reporter there is no report: the statement fails.           *)
CreateReport(t) ==
  /\ request[t].pc = "file"
  /\ IF request[t].actor = "participant"
     THEN /\ filed' = filed + 1
          /\ report' = [report EXCEPT ![filed'] =
               [target |-> request[t].id, about |-> request[t].about, status |-> "open"]]
          /\ request' = [request EXCEPT ![t] = [Idle EXCEPT !.pc = "log", !.actor = "participant",
                                                            !.id = filed', !.new = "open"]]
     ELSE Answered(t) /\ UNCHANGED <<report, filed>>
  /\ UNCHANGED <<season, submission, created, log>>

-----------------------------------------------------------------------------
(* moderation_queue and resolve_report.                                    *)

(* The submission the queue shows with a report: the row with its id, if   *)
(* there is one.                                                           *)
TargetSubmission(i) == submission[report[i].target]

(* The queue lists open reports only, but nothing keeps a moderator with   *)
(* an older page from resolving one again.                                 *)
ReadReport(t, i) ==
  /\ Free(t) /\ Exists(i) /\ LogHasRoom
  /\ \E new \in {"dismissed", "actioned"}, actor \in {"participant", "staff"} :
       request' = [request EXCEPT ![t] = [Idle EXCEPT !.pc = "resolve", !.actor = actor, !.id = i,
                                            !.old = report[i].status, !.new = new]]
  /\ UNCHANGED <<season, submission, created, report, filed, log>>

(* save(update_fields=...), which fails when the row is gone.              *)
SaveReport(t) ==
  /\ request[t].pc = "resolve"
  /\ LET i == request[t].id IN
       IF Exists(i)
       THEN /\ report' = [report EXCEPT ![i].status = request[t].new]
            /\ request' = [request EXCEPT ![t].pc = "log"]
       ELSE Answered(t) /\ UNCHANGED report
  /\ UNCHANGED <<season, submission, created, filed, log>>

(* Mutant: old_status is taken after the new one is set.                   *)
Entry_OldIsNew(t) ==
  [report |-> request[t].id, old |-> IF request[t].old = "none" THEN "none" ELSE request[t].new,
   new |-> request[t].new]

Entry(t) == [report |-> request[t].id, old |-> request[t].old, new |-> request[t].new]

(* "moderation.report.created" (without an old status) and                 *)
(* "moderation.report.resolved".  The entry needs the season and, if it    *)
(* names one, the participant; it does not need the report.                *)
LogReport(t) ==
  /\ request[t].pc = "log"
  /\ log' = IF season /\ request[t].actor # "gone" THEN Append(log, Entry(t)) ELSE log
  /\ Answered(t)
  /\ UNCHANGED <<season, submission, created, report, filed>>

-----------------------------------------------------------------------------
(* The environment.                                                        *)

(* Mutant: the table has no AUTOINCREMENT, and the highest id is given     *)
(* away again once its row is gone.                                        *)
NewId_Reused == CHOOSE s \in SubmissionIds :
  /\ \A o \in SubmissionIds : o >= s => submission[o] = 0
  /\ s = 1 \/ submission[s - 1] # 0

NewId == created + 1

CreateSubmission ==
  /\ season /\ created < MaxSubmissions
  /\ submission' = [submission EXCEPT ![NewId] = created + 1]
  /\ created' = created + 1
  /\ UNCHANGED <<season, report, filed, log, request>>

(* A POST that failed takes its submission back, or its quest is deleted.  *)
RemoveSubmission(s) ==
  /\ submission[s] # 0
  /\ submission' = [submission EXCEPT ![s] = 0]
  /\ UNCHANGED <<season, created, report, filed, log, request>>

(* CASCADE: participants and with them their reports, quests and with them *)
(* the submissions, and the log.  A deletion that fails changes nothing.   *)
(* Nobody gets the id of a deleted participant again.                      *)
DeleteSeason ==
  /\ season /\ season' = FALSE
  /\ submission' = [s \in SubmissionIds |-> 0]
  /\ report' = [i \in ReportIds |-> NoReport]
  /\ log' = <<>>
  /\ request' = [t \in Threads |-> IF request[t].actor = "participant"
                                    THEN [request[t] EXCEPT !.actor = "gone"] ELSE request[t]]
  /\ UNCHANGED <<created, filed>>

(* season_edit saves every column of the season it has read: when that has *)
(* been deleted meanwhile, it is inserted again, without what was in it.   *)
EditSeason ==
  /\ ~season /\ season' = TRUE
  /\ UNCHANGED <<submission, created, report, filed, log, request>>

-----------------------------------------------------------------------------
Init ==
  /\ season = TRUE
  /\ submission = [s \in SubmissionIds |-> 0] /\ created = 0
  /\ report = [i \in ReportIds |-> NoReport] /\ filed = 0
  /\ log = <<>>
  /\ request = [t \in Threads |-> Idle]

Serve(t) ==
  \/ \E s \in SubmissionIds : ReadSubmission(t, s)
  \/ \E i \in ReportIds : ReadReport(t, i)
  \/ CreateReport(t) \/ SaveReport(t) \/ LogReport(t)

Environment ==
  CreateSubmission \/ DeleteSeason \/ EditSeason \/ \E s \in SubmissionIds : RemoveSubmission(s)

Next == Environment \/ \E t \in Threads : Serve(t)

Spec == Init /\ [][Next]_vars

-----------------------------------------------------------------------------
(* Properties                                                              *)

Logged == [report : ReportIds, old : {"none", "open", "dismissed", "actioned"},
           new : {"open", "dismissed", "actioned"}]

TypeOK ==
  /\ season \in BOOLEAN
  /\ submission \in [SubmissionIds -> 0 .. MaxSubmissions] /\ created \in 0 .. MaxSubmissions
  /\ report \in [ReportIds -> Row \cup {NoReport}] /\ filed \in 0 .. MaxReports
  /\ log \in Seq(Logged) /\ Len(log) <= MaxLog
  /\ request \in [Threads -> [pc : {"idle", "file", "resolve", "log"},
                              actor : {"none", "participant", "staff", "gone"},
                              id : 0 .. MaxSubmissions + MaxReports, about : 0 .. MaxSubmissions,
                              old : {"none", "open", "dismissed", "actioned"},
                              new : {"none", "open", "dismissed", "actioned"}]]

(* What the log says of a report, and what is on its way there.            *)
Stored(i)  == {k \in DOMAIN log : log[k].report = i}
Coming(i)  == {t \in Threads : request[t].pc = "log" /\ request[t].id = i}
Says(i, status) == (\E k \in Stored(i) : log[k].new = status)
                   \/ (\E t \in Coming(i) : request[t].new = status)

(* However resolutions overlap, of a report that is there the log tells    *)
(* the filing, the status it has, and every status it has been taken from, *)
(* once the requests that are under way have got there.  Of a report that  *)
(* has gone with its season it tells at most a resolution: one that was    *)
(* half done, by staff, when the season was inserted again.                *)
LogIsComplete ==
  /\ TypeOK
  /\ \A i \in ReportIds :
       IF Exists(i)
       THEN /\ Says(i, "open") /\ Says(i, report[i].status)
            /\ \A k \in Stored(i) : \/ log[k].old = "none" /\ log[k].new = "open"
                                    \/ \E l \in Stored(i) \ {k} : log[l].new = log[k].old
                                    \/ \E t \in Coming(i) : request[t].new = log[k].old
       ELSE \A k \in Stored(i) : log[k].old # "none"

(* The submission the queue shows with a report is the one that has been   *)
(* reported, or none: never one that was created later.                    *)
ReportNamesItsSubmission ==
  \A i \in ReportIds : Exists(i) => TargetSubmission(i) \in {0, report[i].about}
=============================================================================
