------------------------ MODULE AssignmentSubmission ------------------------
(***************************************************************************)
(* One quest assignment of one participant: the assignment row, its        *)
(* one-to-one submission, the submission's media rows and the score audit  *)
(* log, driven by the participant's POSTs to submit_assignment and the     *)
(* hosts' POSTs to score_submission (apps/submissions/views.py).           *)
(*                                                                         *)
(* Requests run in threads of their own and the database is in autocommit: *)
(* every ORM call that reads or writes a row is one action, and the block  *)
(* under transaction.atomic() is one action.  What a request has read is   *)
(* kept in its record and may be stale when it is used.  A request is      *)
(* served once; a retry is another request of the same set.                *)
(***************************************************************************)
EXTENDS Naturals, Sequences, FiniteSets, Functions

CONSTANTS
  Posts,      (* the participant's POSTs (two tabs, a double click, a retry)    *)
  Hosts,      (* the hosts' scoring pages                                       *)
  Texts,      (* the text responses a POST may carry                            *)
  Blank,      (* the empty text response                                        *)
  Scores,     (* the scores ScoreSubmissionForm accepts                         *)
  MaxMedia,   (* MAX_MEDIA_FILES_PER_SUBMISSION                                 *)
  None,       (* no submission, no score                                        *)
  Overlap,    (* TRUE: requests interleave.  FALSE: one is served at a time     *)
  Faults      (* what may fail: "upload" (the blob store), "busy" (the database *)
              (* lock times out), "die" (the request's thread is killed)        *)

ASSUME BlankIsText  == Blank \in Texts
ASSUME NoneIsNoData == None \notin Posts \cup Scores
ASSUME LimitIsNat   == MaxMedia \in Nat
ASSUME FlagsTyped   == Overlap \in BOOLEAN /\ Faults \subseteq {"upload", "busy", "die"}

VARIABLES
  status,      (* QuestAssignment.status                                        *)
  submission,  (* the Submission row, NoSubmission when there is none           *)
  media,       (* SubmissionMedia: the id of each row |-> its sort_order        *)
  audit,       (* the AuditLog entries "submission.score.updated"               *)
  post,        (* the participant's requests                                    *)
  host         (* the hosts' pages and requests                                 *)

vars == <<status, submission, media, audit, post, host>>

Actions == {"draft", "submit"}

(* A submission is named by the request that created it and a media row by *)
(* the request that uploaded it: the ids of the tables are never reused.   *)
Submission   == [id : Posts \cup {None}, text : Texts, draft : BOOLEAN,
                 score : Scores \cup {None}]
NoSubmission == [id |-> None, text |-> Blank, draft |-> FALSE, score |-> None]
MediaIds     == Posts \X (1 .. MaxMedia)
NewMedia(r, n) == {r} \X (1 .. n)
NoMedia      == [m \in {} |-> 0]

PostIdle == [pc |-> "idle", action |-> "submit", status |-> "pending", row |-> NoSubmission,
             text |-> Blank, drop |-> {}, order |-> NoMedia]
HostIdle == [pc |-> "idle", id |-> None, old |-> None, new |-> None]

-----------------------------------------------------------------------------
(* The scheduler.                                                          *)

PostServing(r) == post[r].pc \in {"assignment", "form", "create", "upload", "cleanup",
                                  "restore", "saved"}
HostServing(s) == host[s].pc \in {"read", "scored", "marked"}
NoneServing    == /\ \A r \in Posts : ~PostServing(r)
                  /\ \A s \in Hosts : ~HostServing(s)
MayStart       == Overlap \/ NoneServing

(* A request that has been answered keeps only what it was and how it ended. *)
End(r, pc)  == post' = [post EXCEPT ![r] = [PostIdle EXCEPT !.pc = pc, !.action = post[r].action]]
HostEnd(s, pc) == host' = [host EXCEPT ![s] = [HostIdle EXCEPT !.pc = pc]]

-----------------------------------------------------------------------------
(* submit_assignment                                                       *)

ReadAssignment(r) ==
  /\ post[r].pc = "idle"
  /\ MayStart
  /\ post' = [post EXCEPT ![r].pc = "assignment", ![r].status = status]
  /\ UNCHANGED <<status, submission, media, audit, host>>

(* "This submission has already been scored and can no longer be edited."  *)
Locked(assignmentStatus, row) == row.id # None /\ assignmentStatus = "scored"

ReadSubmission(r) ==
  /\ post[r].pc = "assignment"
  /\ IF Locked(post[r].status, submission)
       THEN End(r, "rejected")
       ELSE post' = [post EXCEPT ![r].pc = "form", ![r].row = submission]
  /\ UNCHANGED <<status, submission, media, audit, host>>

(* Every early return that depends on the request's own data: the window   *)
(* has closed, too many requests, a bad manifest, too many files, nothing  *)
(* to submit, a file of a wrong type, size or length.                      *)
RejectForm(r) ==
  /\ post[r].pc = "form"
  /\ End(r, "rejected")
  /\ UNCHANGED <<status, submission, media, audit, host>>

(* Mutant: the files are not counted.                                      *)
WithinLimit_NotCounted(entries) == TRUE

WithinLimit(entries) == Cardinality(entries) <= MaxMedia

(* The media rows of the submission that was read, as they are now.  The   *)
(* participant drops some, keeps the rest, adds n files and asks for an    *)
(* order, which the sort turns into the places 0, 1, 2, ...                *)
ExistingMedia(r) ==
  IF post[r].row.id # None /\ post[r].row.id = submission.id THEN DOMAIN media ELSE {}

Entries(r, drop, n) == (ExistingMedia(r) \ drop) \cup NewMedia(r, n)

Parsed(r, action, text, drop, order) ==
  [post[r] EXCEPT !.pc = IF post[r].row.id = None THEN "create" ELSE "upload",
                  !.action = action, !.text = text, !.drop = drop, !.order = order]

ParsePost(r) ==
  /\ post[r].pc = "form"
  /\ \E action \in Actions, text \in Texts, drop \in SUBSET ExistingMedia(r), n \in 0 .. MaxMedia :
       LET entries == Entries(r, drop, n)
       IN  /\ WithinLimit(entries)
           /\ text # Blank \/ entries # {}
           /\ \E order \in Bijection(entries, 0 .. Cardinality(entries) - 1) :
                post' = [post EXCEPT ![r] = Parsed(r, action, text, drop, order)]
  /\ UNCHANGED <<status, submission, media, audit, host>>

(* Submission.objects.create, before the transaction opens.  The one-to-one *)
(* key makes it raise when another request has created the row meanwhile.   *)
CreateSubmission(r) ==
  LET row == [id |-> r, text |-> post[r].text, draft |-> post[r].action = "draft",
              score |-> None]
  IN  /\ post[r].pc = "create"
      /\ IF submission.id # None
           THEN End(r, "died") /\ UNCHANGED submission
           ELSE /\ submission' = row
                /\ post' = [post EXCEPT ![r] = [post[r] EXCEPT !.pc = "upload", !.row = row]]
      /\ UNCHANGED <<status, media, audit, host>>

(* Mutants: the flag created_submission is never set, or set by an edit.   *)
Created_Never(r) == FALSE
Created_Always(r) == post[r].row.id # None

Created(r)  == post[r].row.id = r
Uploaded(r) == DOMAIN post[r].order \cap NewMedia(r, MaxMedia)
RowIsThere(r) == submission.id = post[r].row.id

(* The rows after the deletes, inserts and updates of the transaction: a   *)
(* kept row that another request has deleted is not updated.               *)
MediaAfter(r) ==
  [m \in (DOMAIN media \ post[r].drop) \cup Uploaded(r) |->
     IF m \in DOMAIN post[r].order THEN post[r].order[m] ELSE media[m]]

(* Mutant: the table has no such constraint.                               *)
OrdersUnique_NoConstraint(rows) == TRUE

(* The constraint submission_media_order_unique.                           *)
OrdersUnique(rows) == IsInjective(rows)

(* Mutant: a later save forgets is_draft.                                  *)
DraftChanged_Forgotten(r) == FALSE

TextChanged(r)  == post[r].text # post[r].row.text
DraftChanged(r) == (post[r].action = "draft") # post[r].row.draft

(* Mutant: save() of the whole row, as it was read.                        *)
SavedRow_WholeRow(r) ==
  [post[r].row EXCEPT !.text = post[r].text, !.draft = post[r].action = "draft"]

(* save(update_fields): only the fields that differ from the row as read.  *)
SavedRow(r) ==
  [submission EXCEPT !.text  = IF TextChanged(r) THEN post[r].text ELSE @,
                     !.draft = IF DraftChanged(r) THEN post[r].action = "draft" ELSE @]

(* An insert needs its submission, and so does save(update_fields).        *)
NeedsRow(r) == Uploaded(r) # {} \/ TextChanged(r) \/ DraftChanged(r)

Commit(r) ==
  /\ post[r].pc = "upload"
  /\ RowIsThere(r) \/ ~NeedsRow(r)
  /\ IF RowIsThere(r)
       THEN /\ OrdersUnique(MediaAfter(r))
            /\ media' = MediaAfter(r)
            /\ submission' = SavedRow(r)
       ELSE UNCHANGED <<media, submission>>
  /\ post' = [post EXCEPT ![r].pc = "saved"]
  /\ UNCHANGED <<status, audit, host>>

(* The transaction raises and is rolled back.  "cleanup": before the text  *)
(* and the draft flag are assigned to the object in memory; "restore":     *)
(* after, and the handler will write their previous values back.           *)
RollBack(r) ==
  /\ post[r].pc = "upload"
  /\ \/ /\ RowIsThere(r) /\ ~OrdersUnique(MediaAfter(r))
        /\ post' = [post EXCEPT ![r].pc = "cleanup"]
     \/ /\ ~RowIsThere(r) /\ NeedsRow(r)
        /\ post' = [post EXCEPT ![r].pc = "restore"]
     \/ /\ "upload" \in Faults /\ Uploaded(r) # {}
        /\ post' = [post EXCEPT ![r].pc = "cleanup"]
     \/ /\ "busy" \in Faults
        /\ \E pc \in {"cleanup", "restore"} : post' = [post EXCEPT ![r].pc = pc]
  /\ UNCHANGED <<status, submission, media, audit, host>>

(* Mutant: the media rows are not deleted with their submission.           *)
DeleteCreated_NoCascade(r) ==
  /\ Created(r)
  /\ IF RowIsThere(r) THEN submission' = NoSubmission ELSE UNCHANGED submission
  /\ UNCHANGED media
  /\ End(r, "failed")

(* Both except clauses: delete the submission if this request created it   *)
(* (its media rows go with it), otherwise save the previous values of the  *)
(* fields that differ in memory, which raises when the row is gone.        *)
DeleteCreated(r) ==
  /\ Created(r)
  /\ IF RowIsThere(r) THEN submission' = NoSubmission /\ media' = NoMedia
                      ELSE UNCHANGED <<submission, media>>
  /\ End(r, "failed")

RestoredRow(r) ==
  [submission EXCEPT !.text  = IF TextChanged(r) THEN post[r].row.text ELSE @,
                     !.draft = IF DraftChanged(r) THEN post[r].row.draft ELSE @]

RestoreFields(r) ==
  /\ ~Created(r)
  /\ IF post[r].pc = "restore" /\ (TextChanged(r) \/ DraftChanged(r))
       THEN IF RowIsThere(r)
              THEN submission' = RestoredRow(r) /\ End(r, "failed")
              ELSE UNCHANGED submission /\ End(r, "died")
       ELSE UNCHANGED submission /\ End(r, "failed")
  /\ UNCHANGED media

CleanUp(r) ==
  /\ post[r].pc \in {"cleanup", "restore"}
  /\ DeleteCreated(r) \/ RestoreFields(r)
  /\ UNCHANGED <<status, audit, host>>

StatusFor(action) == IF action = "submit" THEN "submitted" ELSE "pending"

SetStatus(r) ==
  /\ post[r].pc = "saved"
  /\ status' = StatusFor(post[r].action)
  /\ End(r, "ok")
  /\ UNCHANGED <<submission, media, audit, host>>

(* The thread is killed, or a statement raises outside the try block.      *)
PostDies(r) ==
  /\ "die" \in Faults
  /\ PostServing(r)
  /\ End(r, "died")
  /\ UNCHANGED <<status, submission, media, audit, host>>

-----------------------------------------------------------------------------
(* scoring_queue and score_submission                                      *)

(* The queue page lists the submissions that are no drafts.  The host may  *)
(* post the score much later.                                              *)
OpenQueue(s) ==
  /\ host[s].pc = "idle"
  /\ submission.id # None /\ ~submission.draft
  /\ host' = [host EXCEPT ![s].pc = "queue", ![s].id = submission.id]
  /\ UNCHANGED <<status, submission, media, audit, post>>

ReadForScore(s) ==
  /\ host[s].pc = "queue"
  /\ MayStart
  /\ \/ /\ submission.id = host[s].id
        /\ \E new \in Scores :
             host' = [host EXCEPT ![s] =
               [host[s] EXCEPT !.pc = "read", !.old = submission.score, !.new = new]]
     \/ (* 404, too many requests or no valid score *)
        HostEnd(s, "rejected")
  /\ UNCHANGED <<status, submission, media, audit, post>>

SaveScore(s) ==
  /\ host[s].pc = "read"
  /\ IF submission.id = host[s].id
       THEN /\ submission' = [submission EXCEPT !.score = host[s].new]
            /\ host' = [host EXCEPT ![s].pc = "scored"]
       ELSE HostEnd(s, "died") /\ UNCHANGED submission
  /\ UNCHANGED <<status, media, audit, post>>

MarkScored(s) ==
  /\ host[s].pc = "scored"
  /\ status' = "scored"
  /\ host' = [host EXCEPT ![s].pc = "marked"]
  /\ UNCHANGED <<submission, media, audit, post>>

(* Mutant: the old value is taken after the new one has been assigned.     *)
ScoreEntry_OldIsNew(s) == [id |-> host[s].id, old |-> host[s].new, new |-> host[s].new]

ScoreEntry(s) == [id |-> host[s].id, old |-> host[s].old, new |-> host[s].new]

LogScore(s) ==
  /\ host[s].pc = "marked"
  /\ audit' = Append(audit, ScoreEntry(s))
  /\ HostEnd(s, "ok")
  /\ UNCHANGED <<status, submission, media, post>>

HostDies(s) ==
  /\ "die" \in Faults
  /\ HostServing(s)
  /\ HostEnd(s, "died")
  /\ UNCHANGED <<status, submission, media, audit, post>>

-----------------------------------------------------------------------------
(* Nothing is left to serve: every request has been answered, and an       *)
(* unopened queue has nothing to show.                                     *)
PostDone(r) == post[r].pc \in {"ok", "rejected", "failed", "died"}
HostDone(s) == \/ host[s].pc \in {"ok", "rejected", "died"}
               \/ host[s].pc = "idle" /\ (submission.id = None \/ submission.draft)
AllServed ==
  /\ \A r \in Posts : PostDone(r)
  /\ \A s \in Hosts : HostDone(s)
  /\ UNCHANGED vars

Init ==
  /\ status = "pending"
  /\ submission = NoSubmission
  /\ media = NoMedia
  /\ audit = <<>>
  /\ post = [r \in Posts |-> PostIdle]
  /\ host = [s \in Hosts |-> HostIdle]

PostStep(r) ==
  \/ ReadAssignment(r) \/ ReadSubmission(r) \/ RejectForm(r) \/ ParsePost(r)
  \/ CreateSubmission(r) \/ Commit(r) \/ RollBack(r) \/ CleanUp(r) \/ SetStatus(r)
  \/ PostDies(r)

HostStep(s) ==
  \/ OpenQueue(s) \/ ReadForScore(s) \/ SaveScore(s) \/ MarkScored(s) \/ LogScore(s)
  \/ HostDies(s)

Next ==
  \/ \E r \in Posts : PostStep(r)
  \/ \E s \in Hosts : HostStep(s)
  \/ AllServed

Spec == Init /\ [][Next]_vars

-----------------------------------------------------------------------------
(* Properties                                                              *)

PostPc == {"idle", "assignment", "form", "create", "upload", "cleanup", "restore", "saved",
           "ok", "rejected", "failed", "died"}
HostPc == {"idle", "queue", "read", "scored", "marked", "ok", "rejected", "died"}
Statuses == {"pending", "submitted", "scored"}

(* The numberings of at most MaxMedia media rows by places below MaxMedia.  *)
Numberings ==
  UNION {[S -> 0 .. MaxMedia - 1] : S \in SUBSET MediaIds}

AuditEntry == [id : Posts \cup {None}, old : Scores \cup {None}, new : Scores \cup {None}]
PostRecord == [pc : PostPc, action : Actions, status : Statuses, row : Submission,
               text : Texts, drop : SUBSET MediaIds, order : Numberings]
HostRecord == [pc : HostPc, id : Posts \cup {None}, old : Scores \cup {None},
               new : Scores \cup {None}]

(* Every column and every request's record holds a value of its type.      *)
TypeOK ==
  /\ status \in Statuses
  /\ submission \in Submission
  /\ media \in Numberings
  /\ audit \in Seq(AuditEntry)
  /\ post \in [Posts -> PostRecord]
  /\ host \in [Hosts -> HostRecord]

(* A submission never holds more than MAX_MEDIA_FILES_PER_SUBMISSION media, *)
(* although each request counts the rows long before it writes: the orders  *)
(* are rewritten as 0, 1, 2, ... and the unique constraint does the rest.   *)
MediaWithinLimit == Cardinality(DOMAIN media) <= MaxMedia

(* No media row outlives its submission, whichever request deletes it.      *)
NoOrphanMedia == submission.id = None => DOMAIN media = {}

(* A POST that was told its upload failed leaves no submission it created.  *)
FailedPostLeavesNothing == \A r \in Posts : post[r].pc = "failed" => submission.id # r

(* Only a host's save changes the score of a submission: a participant's    *)
(* request that read the row before it was scored does not write the old    *)
(* score back.                                                              *)
ScoreOnlyByHosts ==
  [][ /\ submission'.id = submission.id
      /\ submission'.score # submission.score
      => \E s \in Hosts : /\ host[s].pc = "read"
                          /\ host'[s].pc = "scored"
                          /\ submission'.score = host[s].new ]_vars

(* A scored assignment stays scored: the submission is view-only.           *)
ScoredIsFinal == [][status = "scored" => status' = "scored"]_vars

(* A POST that was answered with success keeps its submission, whatever     *)
(* happens to the participant's other POSTs.                                *)
AcknowledgedIsKept ==
  (\E r \in Posts : post[r].pc = "ok") => submission.id # None

(* The audit log tells the history of the score: it starts from no score,   *)
(* each entry starts from the score the one before it set, and the last     *)
(* one set the score the submission has.                                    *)
AuditIsHistory ==
  (\A s \in Hosts : ~HostServing(s)) =>
    /\ \A i \in 1 .. Len(audit) :
         audit[i].old = IF i = 1 THEN None ELSE audit[i - 1].new
    /\ submission.score = IF audit = <<>> THEN None ELSE audit[Len(audit)].new

(* The promise, seen through requests that are half done: a submission that *)
(* may still be deleted by its creator is not there yet, and a saved POST   *)
(* or a saved score already counts with its status and its audit entry.     *)
Tentative == \E r \in Posts : post[r].pc \in {"upload", "cleanup", "restore"} /\ Created(r)
Scoring   == {s \in Hosts : host[s].pc = "scored"}
Logging   == {s \in Hosts : host[s].pc \in {"scored", "marked"}}

PromisedStatus ==
  IF Scoring # {} THEN "scored"
  ELSE IF \E r \in Posts : post[r].pc = "saved"
         THEN StatusFor(post[CHOOSE r \in Posts : post[r].pc = "saved"].action)
         ELSE status

PromisedContent ==
  [saved |-> submission.id # None /\ ~Tentative,
   text  |-> IF Tentative THEN Blank ELSE submission.text,
   draft |-> ~Tentative /\ submission.draft,
   score |-> submission.score]

ScoreChange(e)  == [old |-> e.old, new |-> e.new]
Changes(log)    == [i \in 1 .. Len(log) |-> ScoreChange(log[i])]
PromisedLog ==
  IF Logging = {}
    THEN Changes(audit)
    ELSE Append(Changes(audit), ScoreChange(ScoreEntry(CHOOSE s \in Logging : TRUE)))

Promise == INSTANCE AssignmentPromise WITH
  status   <- PromisedStatus,
  content  <- PromisedContent,
  gallery  <- media,
  scoreLog <- PromisedLog

(* Served one at a time, the requests implement the promise.                *)
ImplementsPromise == Promise!Spec
=============================================================================
