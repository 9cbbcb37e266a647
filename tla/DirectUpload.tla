---------------------------- MODULE DirectUpload ----------------------------
(***************************************************************************)
(* How media get into a submission: the script of the form, which uploads  *)
(* the files a participant picks straight to the storage while the form is *)
(* open (templates/submissions/scheduled_quest.html), the server's tickets *)
(* for these uploads (prepare_assignment_uploads) and what it makes of     *)
(* them when the form arrives (apps/submissions/views.py and storage.py).  *)
(*                                                                         *)
(* One participant has one page for one assignment.  Every time they pick  *)
(* files another run of the change handler starts, and runs overlap where  *)
(* the handler awaits.  A file stands for one upload of it.                *)
(***************************************************************************)
EXTENDS Naturals, FiniteSets

CONSTANTS
  Files,
  Valid,        (* the files whose type, size and length the server accepts     *)
  Handlers,     (* the runs of the change handler there can be at a time        *)
  MaxMedia,     (* MAX_MEDIA_FILES_PER_SUBMISSION                               *)
  TicketLife    (* UPLOAD_TICKET_TTL_SECONDS, and the signed URL's 30 minutes   *)

ASSUME FilesTyped  == Valid \subseteq Files /\ IsFiniteSet(Files) /\ IsFiniteSet(Handlers)
ASSUME LimitsTyped == MaxMedia \in Nat /\ TicketLife \in Nat

VARIABLES
  page,       (* "open", "sent" (waiting for the answer) or "closed"            *)
  handler,    (* the runs of the change handler: the files, those yet to upload *)
  input,      (* the files in the file input                                    *)
  pending,    (* pendingUploads                                                 *)
  listed,     (* uploadedItems: uploaded, with a ticket, and in the manifest    *)
  shown,      (* the submission's media on the page, those removed left out     *)
  removed,    (* the media with a marker that they are to be deleted            *)
  form,       (* the form the server has yet to answer                          *)
  ticket,     (* the age of the ticket a file has been given                    *)
  blob,       (* the files in the storage                                       *)
  media       (* the SubmissionMedia rows                                       *)

pageVars == <<page, handler, input, pending, listed, shown, removed>>
vars     == <<pageVars, form, ticket, blob, media>>

Idle   == [pc |-> "idle", files |-> {}, todo |-> {}]
NoForm == [pc |-> "none", manifest |-> {}, direct |-> {}, delete |-> {}]

InForm(f)    == f \in form.manifest \cup form.direct
Handled(f)   == \E h \in Handlers : f \in handler[h].files
Free(f)      == ~InForm(f) /\ ~Handled(f) /\ f \notin listed \cup media \cup shown

Uploading(h) == handler[h].pc \in {"prepare", "put"}

-----------------------------------------------------------------------------
(* The page.                                                               *)

(* A page as the server renders it: what was picked before is gone.        *)
Fresh(where) ==
  /\ page' = where
  /\ handler' = [h \in Handlers |-> Idle]
  /\ input' = {} /\ pending' = 0 /\ listed' = {} /\ removed' = {}
  /\ shown' = IF where = "open" THEN media ELSE {}

(* What no page, form or row refers to any more: those blobs stay in the   *)
(* storage for good, and the model drops them, with their tickets.         *)
Forget(used) ==
  /\ blob' = blob \cap (used \cup media)
  /\ ticket' = [f \in Files |-> IF f \in used THEN ticket[f] ELSE TicketLife + 1]

OpenPage ==
  /\ page = "closed"
  /\ Fresh("open")
  /\ UNCHANGED <<form, ticket, blob, media>>

(* The participant leaves, or the countdown or an event reloads the page.  *)
LeavePage ==
  /\ page # "closed"
  /\ Fresh("closed")
  /\ Forget(form.manifest)
  /\ UNCHANGED <<form, media>>

(* change: the new files replace those in the input, and are let go when   *)
(* they are too many with those on the page.  Files that another run of    *)
(* the handler is about to upload are not counted.                         *)
PickFiles(h, files) ==
  /\ page = "open" /\ handler[h].pc = "idle"
  /\ files # {} /\ \A f \in files : Free(f)
  /\ IF Cardinality(shown \cup listed) + Cardinality(files) > MaxMedia
       THEN input' = {} /\ UNCHANGED handler
       ELSE /\ input' = files
            /\ handler' = [handler EXCEPT ![h] = [pc |-> "probe", files |-> files, todo |-> files]]
  /\ UNCHANGED <<page, pending, listed, shown, removed, form, ticket, blob, media>>

(* buildUploadDescriptors has found out how long the videos are.  Only now *)
(* the files are pending, and the submit buttons disabled.                 *)
BeginUpload(h) ==
  /\ handler[h].pc = "probe"
  /\ handler' = [handler EXCEPT ![h].pc = "prepare"]
  /\ pending' = pending + Cardinality(handler[h].files)
  /\ UNCHANGED <<page, input, listed, shown, removed, form, ticket, blob, media>>

(* Mutant: an upload that fails leaves its files pending.                  *)
EndUpload_OnSuccess(h, ok) ==
  /\ handler' = [handler EXCEPT ![h] = Idle]
  /\ input' = {}
  /\ pending' = IF ok /\ pending >= Cardinality(handler[h].files)
                THEN pending - Cardinality(handler[h].files) ELSE pending

(* The end of the handler, with or without an error.                       *)
EndUpload(h, ok) ==
  /\ handler' = [handler EXCEPT ![h] = Idle]
  /\ input' = {}
  /\ pending' = IF pending >= Cardinality(handler[h].files)
                THEN pending - Cardinality(handler[h].files) ELSE 0

(* _validate_media_descriptor: what the page says of the files.            *)
DescriptorsValid(files) == files \subseteq Valid

(* prepare_assignment_uploads: a ticket and a signed URL for each file.    *)
(* The media are those of the table, whatever has been removed on the page.*)
Prepare(h) ==
  LET files == handler[h].files
  IN  /\ handler[h].pc = "prepare"
      /\ DescriptorsValid(files)
      /\ Cardinality(media) + Cardinality(files) <= MaxMedia
      /\ ticket' = [f \in Files |-> IF f \in files THEN 0 ELSE ticket[f]]
      /\ blob' = blob \ files
      /\ handler' = [handler EXCEPT ![h].pc = "put"]
      /\ UNCHANGED <<page, input, pending, listed, shown, removed, form, media>>

(* Refused for one of these, or as the submission is scored, for the rate  *)
(* limit, for a malformed request, without a storage, or not answered.     *)
FailPrepare(h) ==
  /\ handler[h].pc = "prepare"
  /\ EndUpload(h, FALSE)
  /\ UNCHANGED <<page, listed, shown, removed, form, ticket, blob, media>>

(* One PUT after the other; what has been uploaded is on the page at once. *)
Put(h, f) ==
  /\ handler[h].pc = "put" /\ f \in handler[h].todo
  /\ ticket[f] <= TicketLife
  /\ blob' = blob \cup {f}
  /\ listed' = listed \cup {f}
  /\ IF handler[h].todo = {f}
       THEN EndUpload(h, TRUE)
       ELSE handler' = [handler EXCEPT ![h].todo = @ \ {f}] /\ UNCHANGED <<input, pending>>
  /\ UNCHANGED <<page, shown, removed, form, ticket, media>>

(* A PUT fails, or its URL has expired: the rest is not uploaded.          *)
FailPut(h) ==
  /\ handler[h].pc = "put"
  /\ EndUpload(h, FALSE)
  /\ UNCHANGED <<page, listed, shown, removed, form, ticket, blob, media>>

RemoveMedia(f) ==
  /\ page = "open" /\ f \in listed \cup shown
  /\ listed' = listed \ {f} /\ shown' = shown \ {f}
  /\ removed' = removed \cup ({f} \cap shown)
  /\ UNCHANGED <<page, handler, input, pending, form, ticket, blob, media>>

(* Mutant: the handler of submit does not look at pendingUploads.          *)
SendForm_NoWait ==
  /\ page = "open" /\ form.pc = "none"
  /\ page' = "sent"
  /\ form' = [pc |-> "sent", manifest |-> listed, direct |-> input, delete |-> removed]
  /\ UNCHANGED <<handler, input, pending, listed, shown, removed, ticket, blob, media>>

(* submit: the manifest, the files in the input, and the markers of what   *)
(* has been removed.  One form is on its way at a time.                    *)
SendForm ==
  /\ page = "open" /\ form.pc = "none" /\ pending = 0
  /\ page' = "sent"
  /\ form' = [pc |-> "sent", manifest |-> listed, direct |-> input, delete |-> removed]
  /\ UNCHANGED <<handler, input, pending, listed, shown, removed, ticket, blob, media>>

-----------------------------------------------------------------------------
(* The server's answer.  The steps of the POST among those of other        *)
(* requests are the subject of AssignmentSubmission.                       *)

(* _validate_uploaded_manifest_items: the ticket is not too old, and what  *)
(* it stands for is in the storage.                                        *)
Uploaded(f) == ticket[f] <= TicketLife /\ f \in blob

Retained == media \ form.delete

(* _validate_media_files: the files themselves.                            *)
FilesValid(files) == files \subseteq Valid

(* Mutant: the files of the manifest are not counted.                      *)
FormFits_DirectOnly ==
  /\ \A f \in form.manifest : Uploaded(f)
  /\ FilesValid(form.direct)
  /\ form.delete \subseteq media
  /\ Cardinality(Retained) + Cardinality(form.direct) <= MaxMedia

FormFits ==
  /\ \A f \in form.manifest : Uploaded(f)
  /\ FilesValid(form.direct)
  /\ form.delete \subseteq media
  /\ Cardinality(Retained) + Cardinality(form.direct) + Cardinality(form.manifest) <= MaxMedia

AcceptForm ==
  /\ form.pc = "sent" /\ FormFits
  /\ media' = Retained \cup form.manifest \cup form.direct
  /\ blob' = blob \cup form.direct
  /\ form' = NoForm
  /\ IF page = "sent" THEN Fresh("closed") ELSE UNCHANGED pageVars
  /\ UNCHANGED ticket

(* Refused for one of these, or for the window, the rate limit or a score: *)
(* the form is rendered anew, without what has been uploaded for it.       *)
RefuseForm ==
  /\ form.pc = "sent"
  /\ form' = NoForm
  /\ IF page = "sent"
       THEN Fresh("open") /\ Forget({})
       ELSE UNCHANGED <<pageVars, ticket, blob>>
  /\ UNCHANGED media

Tick ==
  /\ \E f \in Files : ticket[f] <= TicketLife
  /\ ticket' = [f \in Files |-> IF ticket[f] <= TicketLife THEN ticket[f] + 1 ELSE ticket[f]]
  /\ UNCHANGED <<pageVars, form, blob, media>>

-----------------------------------------------------------------------------
(* The form for a participant without media.                               *)
Init ==
  /\ page = "closed"
  /\ handler = [h \in Handlers |-> Idle]
  /\ input = {} /\ pending = 0 /\ listed = {} /\ shown = {} /\ removed = {}
  /\ form = NoForm
  /\ ticket = [f \in Files |-> TicketLife + 1]
  /\ blob = {} /\ media = {}

HandlerStep(h) ==
  \/ BeginUpload(h)
  \/ Prepare(h) \/ FailPrepare(h)
  \/ FailPut(h) \/ \E f \in Files : Put(h, f)

Next ==
  \/ OpenPage \/ LeavePage
  \/ \E h \in Handlers : HandlerStep(h) \/ \E files \in SUBSET Files : PickFiles(h, files)
  \/ \E f \in Files : RemoveMedia(f)
  \/ SendForm \/ AcceptForm \/ RefuseForm
  \/ Tick

Spec == Init /\ [][Next]_vars

(* A request that the script has sent is answered, or fails.  Nobody has   *)
(* to pick, send or leave anything, and a browser need not find out how    *)
(* long a video is.                                                        *)
Answered(h) == Prepare(h) \/ FailPrepare(h) \/ FailPut(h) \/ \E f \in Files : Put(h, f)

FairSpec == Spec /\ \A h \in Handlers : WF_vars(Answered(h))

-----------------------------------------------------------------------------
(* Properties                                                              *)

(* Every variable is of its type, and the counter that disables the submit *)
(* buttons is the number of files the runs of the handler are uploading.   *)
TypeOK ==
  /\ page \in {"open", "sent", "closed"}
  /\ handler \in [Handlers -> [pc : {"idle", "probe", "prepare", "put"},
                               files : SUBSET Files, todo : SUBSET Files]]
  /\ input \subseteq Files
  /\ pending = Cardinality(UNION {handler[h].files : h \in {g \in Handlers : Uploading(g)}})
  /\ listed \subseteq Files /\ shown \subseteq Files /\ removed \subseteq Files
  /\ form \in [pc : {"none", "sent"}, manifest : SUBSET Files,
               direct : SUBSET Files, delete : SUBSET Files]
  /\ ticket \in [Files -> 0 .. TicketLife + 1]
  /\ blob \subseteq Files /\ media \subseteq Files

(* The media of a submission stay within the limit, have been found valid  *)
(* and are in the storage, although the page leaves out of its count what  *)
(* another run of the handler is about to upload, tickets are given out    *)
(* without counting each other, and what was listed may have expired.      *)
MediaWithinLimit ==
  /\ Cardinality(media) <= MaxMedia
  /\ media \subseteq Valid \cap blob

(* A form that is sent leaves no upload behind half way, in spite of runs  *)
(* of the handler that overlap and fail; no file comes with it twice, as   *)
(* an upload and in the input; and what is in the input is one pick of     *)
(* files whose upload has not begun.                                       *)
FormIsComplete ==
  [][page # "sent" /\ page' = "sent" =>
       /\ \A h \in Handlers : ~Uploading(h)
       /\ form'.manifest \cap form'.direct = {}
       /\ form'.direct # {} =>
            \E h \in Handlers : handler[h].pc = "probe" /\ handler[h].files = form'.direct]_vars

(* The submit buttons come back, however uploads end, unless files are     *)
(* picked again and again.                                                 *)
ButtonsComeBack ==
  \/ []<>(pending = 0)
  \/ []<><<\E h \in Handlers : handler[h].pc = "idle" /\ handler'[h].pc = "probe">>_vars
=============================================================================
