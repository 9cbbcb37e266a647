# Con-Quest in TLA+

Con-Quest is a Django application for events: a *season* has hosts, participants and *quests*;
a participant gets an *assignment* for a quest and submits text and media for it; hosts score
submissions; a leaderboard adds the scores up. Scheduled quests are started by a host and take
submissions during a window; drop-in ("open") quests take them while they are active.

The modules here model the parts of the program in which things meet: requests and the rows they
share, the order of their database and cache calls and what they have read by the time they write;
a participant's page, its timers, uploads and sockets, and what hosts do meanwhile.

## Execution model

Every HTTP request is a thread of its own. The database is SQLite in autocommit
(`settings.py` has no `ATOMIC_REQUESTS`), so each ORM call that touches a row is one atomic step
and another request may run between any two of them; only `transaction.atomic()` makes several
calls one step (and the rows are locked meanwhile). Objects in memory are copies: a handler goes
on with the row it has read, and `save(update_fields=...)` writes some columns of that copy,
`save()` all of them. The cache is Django's default `LocMemCache`, whose calls are atomic one by
one. The modules follow this: **one action per call**, and a record per request that holds what
it has read. The socket consumers are asynchronous, but their database and cache calls go through
`sync_to_async`, whose calls run in one thread: there one such call is one step, whatever it does.
In the browser a step is what a script does between two awaits.

## Inventory

| component | state | operations | interacts with | what is hard | what makes it correct |
|---|---|---|---|---|---|
| assignment submission (`apps/submissions/views.py`) | `QuestAssignment.status`, the one-to-one `Submission`, its `SubmissionMedia` rows | `submit_assignment`, `view_assignment` | scoring (same rows), quest lifecycle (window), storage, rate limit | create outside the transaction, undo by hand after a failure, writes of a stale copy, uploads that fail half way | limit on media, no orphan rows, a failed POST leaves nothing, an acknowledged one is kept, scored means view-only |
| scoring (same file) | `Submission.score`, `AuditLog` | `scoring_queue`, `score_submission` | the participant's POSTs | three statements without a transaction | only hosts set scores, the log is the score's history |
| direct uploads (`templates/submissions/scheduled_quest.html`, `prepare_assignment_uploads`, `storage.py`) | the page's lists and counter, signed tickets, blobs | pick, probe, prepare, put, remove, send the form | assignment submission (the POST) | runs of one handler that overlap at every await and share a counter; limits counted in three places | the limit holds in the table, a form leaves no upload half way, its buttons come back |
| enrolment and records (`quests/views.py`, `submit_open_quest`) | `QuestAssignment` rows and what hangs on them | enrol, open a drop-in quest, delete a quest | quest lifecycle, submission, scoring | `get_or_create` is up to three calls; a cascade looks first and deletes later | one assignment per participant and quest, nothing without its parent |
| quest lifecycle (`apps/quests`) | `SeasonQuest` rows | create, edit, delete, start, transition | submission window, page, socket events | checks long before the save, full-row saves, two ways to change the status | one active quest, forward-only status, a live quest has a fixed window |
| submission window (`submissions/views.py`) | none: functions of the row and the clock | `_submission_timing_error`, `_render_scheduled_quest` | both of the above | boundaries, two functions that must agree | who sees the form may submit |
| quest page (`templates/submissions/scheduled_quest.html`) | phase rendered, timers, socket | reload on countdown, poll, event | quest lifecycle, `broadcast_season_event`, status endpoint | missed and late events, a clock of its own, edits of the window it counts down to | nobody is left waiting, the form goes away, nobody is sent back |
| presence (`apps/realtime/presence.py`, `consumers.py`) | a map in the cache per quest | connect, ping, disconnect | the quest's page and the season's page | lost disconnects, time-outs, order of broadcasts | a tab takes out itself only, the count shown settles, the dead are forgotten |
| rate limiting (`apps/common/rate_limit.py`) | a counter per key in the cache | `check_rate_limit` | every POST | get, add and incr are three calls; the entry expires | bounded overshoot, nobody shut out for good |
| season membership (`apps/seasons`) | `Season.status`, `SeasonParticipant`, session | join, claim, edit, archive, delete | every permission check | check-then-save on unique columns | one participant per handle and per account |
| moderation (`apps/moderation`) | `ModerationReport`, `AuditLog` | report, resolve | submissions, by id only | repeated and overlapping resolutions, a target that goes away | the log tells the report's history; a report names what was reported |
| leaderboard (`apps/leaderboard`) | none: queries | `season_leaderboard`, the hosts' list of a quest | scores, enrolment | null scores, ties, three orders of the same entries | everybody once, in the order of totals and handles |
| quest templates, accounts, administration, pages | their rows, users, all rows, none | CRUD, registration and login | | | not modelled, see below |

## Modules

| module | what it is |
|---|---|
| `AssignmentSubmission` | one assignment: two kinds of requests (`post`, `host`) over `status`, `submission`, `media`, `audit` |
| `AssignmentPromise` | what a participant and a host are promised of it: `Save` and `Score` as single steps |
| `MCAssignmentSubmission`, `AssignmentSubmissionProofs` | its instances for TLC, with the symmetry, and its theorems |
| `DirectUpload`, `DirectUploadProofs` | one page's uploads, the tickets for them, and the form that lists them, and its theorems |
| `SeasonRecords` | who has an assignment, a submission and a score in which quest; enrolment and the deletion of quests |
| `Leaderboard` | the rankings as functions of `SeasonRecords` |
| `MCLeaderboard`, `SeasonRecordsProofs` | the instance of both for TLC, and the theorems about the records and the rankings |
| `SubmissionWindow` | the timing check and the page's phase |
| `QuestLifecycle` | the quests of one season: threads (`request`) over `quest` and the clock `now` |
| `MCQuestLifecycle`, `QuestLifecycleProofs` | its instances, and its theorems and those about `QuestPage` |
| `QuestPage` | a participant's page of a quest, composed with `QuestLifecycle` |
| `Presence`, `MCPresence`, `PresenceProofs` | one quest's presence map and the number on a season's page, its instance and its theorems |
| `RateLimit`, `RateLimitProofs` | `check_rate_limit` for one key, and its theorems |
| `SeasonMembership` | seasons, participants and browser sessions: joining, claiming, the host's pages |
| `MCSeasonMembership`, `SeasonMembershipProofs` | its symmetry for TLC and its theorems |
| `Moderation` | reports, resolutions and their log |
| `MCModeration`, `ModerationProofs` | its symmetry for TLC and its theorems |

`QuestPage` extends `QuestLifecycle`, which extends `SubmissionWindow`: its steps are steps of the hosts or of
the page. `Leaderboard` extends `SeasonRecords`. What two modules share is a step of the environment
in the one that is not about it: a POST is many actions in `AssignmentSubmission`, one form that is
accepted or refused in `DirectUpload`, and one insert in `SeasonRecords`.

### AssignmentSubmission

| action | code (`apps/submissions/views.py`) |
|---|---|
| `ReadAssignment`, `ReadSubmission` | 264-310: the two reads and the refusal of a scored submission |
| `RejectForm` | 285-491: the early returns for the window, the rate limit, bad manifests and bad files |
| `ParsePost` | 337-491: the media rows as read, what is dropped, kept and added, the limit, nothing to submit |
| `CreateSubmission` | 496-502 |
| `Commit` / `RollBack` | 504-620: the atomic block, all of it or none |
| `CleanUp` (`DeleteCreated`, `RestoreFields`) | 621-680: both `except` clauses do the same |
| `SetStatus` | 682-713 |
| `OpenQueue`, `ReadForScore`, `SaveScore`, `MarkScored`, `LogScore` | 859-1025 |
| `PostDies`, `HostDies` | the thread is killed or a statement outside the `try` raises |

Data is abstracted to what the properties tell apart. A media row is named by the POST that
uploaded it and a number; direct uploads and manifest items are one kind of new row; a desired
order is any numbering of the entries, because the sort turns whatever the form asks for into
0, 1, 2, ...; the temporary orders from 10 000 on are inside the atomic block. A text is a model
value. `RollBack` has two outcomes because the object in memory has been changed or not when the
block raises, and only in the first case `RestoreFields` writes anything. SQLite defers foreign
keys to the commit, so an insert under a deleted submission raises there.

### QuestLifecycle and SubmissionWindow

| action | code |
|---|---|
| `StartQuest` | `quests/views.py` 211-288, the guards of the start endpoint on the row as read |
| `MoveQuest` | 324-343, `can_transition_to` |
| `CheckOther` | 290 and 344, the query for another active quest |
| `SaveFields` | `_activate_quest_window` 26-47 and the saves of 343-402 with `update_fields`; an `IntegrityError` is answered, a missing row raises |
| `CreateQuest`, `EditQuest` | 57-93, 152-188: what the form starts from |
| `CleanForm`, `CleanModel` | `forms.py` 61-143 and `models.py` 94-108: two queries, one after the other |
| `SaveRow` | `save()` of all columns; the index raises uncaught, a deleted row is inserted again |
| `ConfirmDelete`, `DeleteQuest` | 191-208 |
| `Tick` | the clock |

The index `season_single_active_quest` is the operator `Conflict`, evaluated in the state of the
write. A quest "allows no late submissions" when its grace is 0: the form stores 0, and
`_submission_timing_error` gives the same answer for both. `closes_at` only serves to compute
the duration in the form. A thread takes its next request when it has answered, so that one
thread means requests that do not overlap. Titles, codes and points are left out, and with them
the form's refusals are one alternative of `CleanForm`.

The edit form carries a status: the one the page was rendered with, which may be older or newer than the row
its POST reads, unless the host has chosen another. `FormStatuses` takes any status and keeps what
the form lets through: the one that was read and those its status machine allows next. The page's
GET needs no step of its own for this, as every status a page could have been rendered with is posted. A stale
page may therefore take a quest to active although its host has not touched the status:
an edit reads the quest while it is pending, the quest is started, a second host opens the edit page, which shows
`active`, the first edit saves its stale row back, and the second host's unchanged form asks for pending to active.
`byForm` is a history variable, the scheduled quests that a form has taken to active in either way.

### RateLimit

`Get`, `Add` and `Incr` are the three calls of `check_rate_limit`, `Tick` and `Cull` what the
cache does by itself. Time is kept as the entry's remaining life and as the age of what was
allowed, so no bound on time is needed. `Allowed(recent, lo, hi)` is what was allowed at ages from `lo` to
`hi`, one element per request, so that properties and proofs count a set.

### SeasonMembership

| action | code (`apps/seasons/views.py` unless named) |
|---|---|
| `JoinSeason`, `GetParticipant`, `CreateParticipant`, `GetAgain` | 313-428: the guards of both join pages, then `get_or_create` call by call, with the second look Django takes after an `IntegrityError` |
| `ClaimParticipation`, `CheckClaim`, `SaveClaim` | 444-463 |
| `OpenIndex`, `OpenSeason` | 43-62 and 103-113: the pages that bind the session too |
| `CreateSeason`, `FindSource` | 222-255: the season, then the creator's participation as its host |
| `ManageSeason`, then `SaveSeason`, `SaveArchived`, `DeleteSeason` or `FailDelete` | 264-310; what Django collects to cascade it collects before the transaction, so somebody who joins in between makes the deletion fail |
| `Bound`, `InSession`, `CanManage`, `CanAccess` | `session.py` and the permission helpers |
| `Promote` | the administration site, the only way to a first host |
| `Login`, `Logout` | `django.contrib.auth`, external |

A session is loaded with a request and saved with its answer, and a browser is taken to send one
request at a time, so a session changes in the last call of a request. The answer `done` covers every page
that is not an error; invalid forms, wrong codes and the rate limit are one alternative of
`JoinSeason`. Participants are named by their id, which is their order of joining; the ids are
`AUTOINCREMENT` as Django creates them on SQLite, and the mutant `DeleteSeason_ReusesIds` shows that sessions
depend on it. `host` stands for the roles host and admin, `gone` is a history variable. Titles, slugs
and the generation of join codes are left out.

### DirectUpload

| action | code (`scheduled_quest.html` unless named) |
|---|---|
| `OpenPage`, `LeavePage` | the page as `_render_scheduled_quest` renders it; leaving it, or `transitionPage` |
| `PickFiles` | 511-527: the check of the number, and the start of a run of the handler |
| `BeginUpload` | `buildUploadDescriptors` has awaited the videos' metadata; `pendingUploads` goes up |
| `Prepare`, `FailPrepare` | `prepare_assignment_uploads` (`submissions/views.py` 54-207), with the media as in the table |
| `Put`, `FailPut` | the PUT of one file after the other; each is listed when it has arrived |
| `EndUpload` | the `finally`: the input is emptied, the counter goes down |
| `RemoveMedia` | both kinds of remove buttons |
| `SendForm` | the submit handler, with `pendingUploads` and `submitInFlight` |
| `AcceptForm`, `RefuseForm` | the POST: `_validate_uploaded_manifest_items`, `_validate_media_files`, the limit; an error renders the form anew |
| `Tick` | tickets age |

A file stands for one upload of it, so picking it again is another file. Blobs that nothing refers to any
more stay in the storage for good; the model drops them.

### SeasonRecords and Leaderboard

| action | code |
|---|---|
| `EnrollScheduledQuest` | `enroll_scheduled_quest` (`quests/views.py` 404-443), the guards |
| `SubmitOpenQuest` | `submit_open_quest` (`submissions/views.py` 210-248), the guards |
| `FindAssignment`, `InsertAssignment`, `FindAgain` | `get_or_create` of both, call by call |
| `Collect`, `DeleteQuest` | `season_quest_delete`: Django collects the rows that are to go, then deletes them by id in a transaction; a row added in between breaks a foreign key at the commit |
| `MoveQuest`, `EditQuest`, `Submit`, `UndoSubmit`, `ScoreSubmission` | the environment: what `QuestLifecycle` and `AssignmentSubmission` are about, one statement each; `EditQuest` is the save of `season_quest_edit` (`quests/views.py` 170) that inserts a deleted quest again |

Ids are `AUTOINCREMENT`: an assignment or a submission that is inserted while a deletion is under way is none of those
it has collected (`NewAssignment`, `NewSubmission`), even if the pair had one before. `lost`, in a request, is a history variable: its quest
has been deleted since the request began.

`Overall`, `Breakdown` and `HostList` are the three queries as functions of the rows, with SQLite's order of
`NULL`. They are taken in one state each; the page sends them one after the other, so that a
score saved meanwhile may be in one and not in the other. `Ordered(S, value)` is a listing of `S` in the
order of the `ORDER BY`, and not an algorithm that sorts. `ScoreOf` is the column as it is joined: `NULL` without a
score and without a submission alike. Quests are finitely many and `None` is not a number; both are assumptions by name.

### QuestPage

| action | code |
|---|---|
| `HostStep` | a step of `QuestLifecycle`, with the event `start` and `transition` broadcast after their save; the page hears it or not |
| `Render`, `Load` | `_render_scheduled_quest`: the phase and the countdown's target are those of the instant it is rendered, it arrives later |
| `Countdown`, `Poll`, `Hear` | the three ways to `transitionPage`, which runs once per page |

The page's clock is `Ahead` of the server's. The edit form does not broadcast, and an event is lost on whoever
has no socket.

### Presence

| action | code (`consumers.py`, `presence.py`) |
|---|---|
| `Register`, `Touch`, `Unregister` | `connect`, `receive_json`, `disconnect`: the map is read, changed and stored |
| `Announce`, `Miss`, `FailAnnounce` | `_broadcast_presence_count`, in a step after it; no season's page is there to hear a number that it does not show yet; the channel layer raises, and the consumer is gone |
| `LoadSeason` | `get_quest_online_counts` as the season's page is rendered |
| `Close`, `FallSilent`, `Wake` | the page at the other end, which may keep a socket it no longer pings |
| `Tick`, `Restart` | the cache's timeout, in intervals of pings; the server is started anew |

### Moderation

| action | code (`apps/moderation/views.py`) |
|---|---|
| `ReadSubmission`, `CreateReport` | `report_submission` 22-57; the insert fails when the reporter is gone |
| `ReadReport`, `SaveReport` | `resolve_report` 127-167 |
| `LogReport` | the audit entry of either, 58-73 and 169-178; it needs the season and its actor, not the report |
| `CreateSubmission`, `RemoveSubmission` | the environment |
| `DeleteSeason`, `EditSeason` | the environment: the season goes with all that is in it; the save of `season_edit` (`seasons/views.py` 273) inserts it again, empty |

`actor` is who a request writes as. A participant goes with the season (`gone`), and no later row has their id; staff
who are no participants write `null`, so that their entry is accepted as soon as there is a season with that id again.
A submission is told from all others by the number it was created with, while a report holds its id only;
the mutant `NewId_Reused` shows that the two agree because ids are not used again.

## Runs

| run | question | bounds |
|---|---|---|
| `overlap` | do the limit, the cascade, the clean-up and the score survive interleavings with every fault | 2 POSTs, 1 host, 2 texts, 2 scores, limit 2 |
| `serial` | do requests, one at a time, implement `AssignmentPromise` | 2 POSTs, 2 hosts, uploads and the database may fail |
| `uploads` | do uploads that overlap, fail and expire keep the limit, come complete and end | 4 files, 3 of them valid, 2 runs of the handler, limit 2, tickets that expire with the first tick |
| `records` | do enrolments, submissions, scores and deletions fit together, and do the rankings | a scheduled and a drop-in quest, 2 participants, 2 threads, scores to 1 |
| `quest_overlap` | one active quest, and a window for it unless a form took it live, with stale rows and stale forms | a scheduled and a drop-in quest, 2 threads, clock to 2 |
| `quest_page` | requests one at a time: forward-only status, fixed window, no server error; what a page that watches the quest shows | the same quests, 1 thread, `opens_at` none or 1, grace 1, clock to 4, the page's clock ahead by 1 |
| `presence` | does a tab take out itself only, does the number shown settle, are the dead forgotten | a participant with 2 tabs and another one, timeout of 2 intervals |
| `rate_limit` | overshoot, span of one window, being let in again | 3 threads, limit 2, window 3 |
| `membership` | one participant per handle and account, no orphans, sessions that fit, nobody refused for losing a race | 2 browsers, an account and a staff account, 2 seasons, 2 handles, 2 participant ids |
| `moderation` | does the log tell a report's history, and does a report keep naming what was reported | 3 threads, 2 submissions, 2 reports, 5 log entries |
| `scored_race` (violation) | is a scored assignment final | 2 POSTs, 1 host, no faults |
| `edit_activates` (violation) | has a live quest a window when the edit form moves the status | 1 thread |

*Why the bounds are enough.* Two POSTs are the smallest number in which one creates what the
other finds, deletes what the other has counted, or fails after the other has succeeded; a media
limit of 2 lets both be at the limit and reorder. (Three POSTs with the same constants have been
checked too: 8.8 million states, same result.) Two quests are needed for the rule of one active
quest, one of each mode since the guards differ. In `quest_page` the clock reaches the start, the end, the last
instant of the grace and the one after it; `quest_overlap`, whose properties do not compare with the clock, needs its
steps only to tell the windows of two starts apart. In `rate_limit` a window of 3 and three threads let
a thread be overtaken by the expiry, by a cull and by both other threads. In
`membership` two browsers, which may be two devices of one account, are what a race for a handle or for
a claim takes; two seasons, what rebinding a session and creating a second season take; and two ids,
what two rows in conflict take. `IdsLeft` keeps the ids in bounds by reserving one for each request that may need it,
so it never stops a request half way. A draft and a closed season are treated alike by these
views, and an archived one differs from them on the index page only, so that the form of the run
offers active and archived. The quest runs are
bounded by the clock only; `MaxTime` bounds `Tick` and nothing else, and the proofs do not use it.
In `uploads` two runs of the handler overlap at every await, and four files are one more than the limit
plus one, so that the limit is passed by what is listed, by what another run uploads and by the form's own files. A
ticket's life matters only in that it ends at any point of an upload. In `records` a deletion may overlap one enrolment in each
place, and two participants with two quests give totals, from none to 2, that differ from every single
score. In `presence` two tabs of one participant and a second participant are what the map tells apart, and a
timeout of two intervals is more than one missed ping. In `moderation` two resolutions
overlap while a third request files a report or another one resolves again; `LogHasRoom` reserves a place in the log for every
request under way, and `ReportsHaveRoom` an id for every report, so the bounds stop none half way. The season may go and come
back any number of times.

*Mutants.* Each checked property is broken by a mutated definition, written next to the original
(`Conflict_NoIndex`, `SendForm_NoWait`, `Count_Tabs`, ...): a dropped guard, constraint or cascade, a save of
too much or too little, an end that is exclusive, a counter that is not reset.

*Deadlock* is checked in every run. `AllServed` and `AllDeleted` are the states in which nothing
is left to serve; elsewhere somebody can always act.

*Fairness* is assumed in four modules, and only of what nobody has to decide.
`RateLimit`: weak fairness of `Tick`; no request has to come, to retry or to get on.
`DirectUpload`: a request that the script has sent is answered or fails; nobody has to pick or send anything, and a video's length
need never be found out. `Presence`: pages that ping do, consumers get on, and time passes; nobody has to come or go, and
`CountSettles` and `ForgottenWhenGone` say in their premises what must stop. Pages go on pinging under these premises, and their consumers
announcing: `Miss` is only the loss of a number that differs from the one shown, so that announcing the number that is shown already counts as no fault. `QuestPage`: the page's timers fire and its requests
are answered in the end; it need not hear of any event, and hosts need not do anything.
All other properties are safety properties.

## What the runs show

Under overlap the data stays sound: no POST exceeds the limit, because every commit numbers its
media from 0 and the unique constraint on the order catches what the earlier count has missed;
no media outlive their submission; nobody but a host changes a score, because the participant's
handler saves `update_fields` only; at most one quest is active, thanks to the partial index
alone; an active scheduled quest has a window unless an edit form has taken it to active, which is
`OnlyFormsSkipTheWindow`: no overlap of starts with stale edits costs it the window. A season
has one participant per handle and per account although both are looked up before they are saved, and
whoever comes second in a race for a handle joins as the participant that is there: "Handle is already taken"
is only ever the answer when the season has been deleted meanwhile. An enrolment ends at an assignment that is
there or, only if the quest has been deleted since the request began, in an error; a deletion either takes everything that hangs on the quest or
fails. A report goes on naming what was reported or nothing, and as long as it is there the log tells its filing and every status it has had.

In the browser, the poll alone is enough for nobody to be left waiting and for the form to go away, whatever
events are missed and whatever the host edits, as long as the quest stays as it is in the end. A
form that is sent leaves no upload behind half way. The number of viewers settles on the map's, since every ping announces
it anew, and connections that died are forgotten once nobody pings.

One request at a time, the promise of `AssignmentPromise` holds. With overlap it does not, and two statements of the
repository are not met by the code:

* **`scored_race`**: `submit_assignment` checks the status it has read (283, 305) and writes
  `submitted` or `pending` at the end (684, 705). A score saved in between is undone as far as the
  status goes, though the page says that a scored submission "can no longer be edited".
* **`edit_activates`**: the status field of the edit form may move a quest from `pending` to
  `active`, past `_activate_quest_window`. The run has one host choose that status; with two, a page left unchanged does it
  too (see `QuestLifecycle` above).

Other behaviour met while modelling, which no run is devoted to:

*Submissions and scores*

* `AcknowledgedIsKept` fails under overlap: a POST that created the submission
  and fails later deletes it with what another POST has saved in it;
* `AuditIsHistory` fails when a thread dies between the score and the log entry, or when two hosts
  score at once;
* a POST that changes nothing and whose submission has been deleted meanwhile succeeds, and marks
  the assignment submitted;
* a quest without `started_at` is not "early" for the timing check, and
  statuses `draft` and `pending` are not looked at: a scheduled quest takes submissions before its
  start, which `docs/plan.md:75` excludes;
* a quest completed before `ends_at` refuses submissions until `ends_at` and accepts them again
  during the grace, as the status is looked at only before the end.

*Uploads*

* files picked while an earlier pick is uploading, and not yet probed, are dropped from the input when that upload
  ends; if the form is sent then, it comes without them;
* the page counts what it shows, `prepare_assignment_uploads` counts the rows of the table, including media
  removed on the page, so that replacing media at the limit fails until the form is saved; two overlapping picks may list more than the limit, and the form is refused;
* a refused form, and a reload by the countdown, lose what has been uploaded and leave its blobs;
* a ticket may be used in two forms, as nothing marks it used;
* the browser rounds a video's length up and the server rounds it down: a video of 15.4 seconds is refused as a direct upload and accepted
  as a file of the form.

*Quests and their page*

* two starts that both read `pending` both open a window; the second moves the
  window of the live quest, which `docs/manual-qa-runbook.md:79` excludes (`WindowFixedWhileLive` holds with one thread only);
* an edit whose form and model were clean when another quest was started ends in a server error, as nothing catches the index's
  refusal (`NeverAnError` holds with one thread only);
* `StatusOnlyAdvances` fails under overlap: an edit saves the status it has read, and inserts a
  deleted quest again;
* in the grace the active page has a target that is past and reloads at once, again and again; so does a waiting page whose
  `opens_at` has passed, and a waiting page of an active quest without `started_at` is reloaded by every poll;
* a waiting page of a quest that is archived or deleted stays as it is, and an expired page does not come back when the
  grace is prolonged;
* an old socket's `onclose` clears the variable that names the new one, so that a page may keep a socket it no longer
  pings, and open a third;
* `pollFallback` of the season's page only says that it is offline; `docs/backlog.md:34` has it poll.

*Enrolment, leaderboard, moderation*

* a scheduled quest can be enrolled in whatever its status, an archived one too;
* the deletion of a quest ends in a server error if somebody enrols or submits meanwhile; an edit under way inserts the
  quest again, without its assignments;
* a participant without a score comes after one with 0 points whatever their handles, although both are shown with
  0 and `docs/plan.md:60` asks for the handle; the season's page counts its rank in the same order;
* the entries of two resolutions that overlap both start from the same status, and the last of them may not be
  the one that stays; a resolution by staff that has saved its report when the season is deleted, and finds the season inserted again by
  an edit, leaves an entry about a report that has gone; a resolved report may be resolved again; a resolution without details writes back the details it
  has read; a thread that dies leaves a report without its entry.

*Seasons and rate limit*

* a claim that loses the race for the account, or whose participant has been deleted, ends in a server
  error, since `claim_participation` catches nothing;
* `season_edit` saves any status whatever the season had, an archived one may become active again, and
  a season deleted meanwhile is inserted again, without its participants;
* joining, opening or creating another season drops the session's earlier binding: a host without an
  account is a host no more in the first season until they join it again; a host who is known by
  account only, with no binding, creates a season without becoming its host;
* in `check_rate_limit`, an entry that expires between `add` and `incr` ends the request with
  a server error.

## What is proved

All proofs are checked by TLAPS for every value of the constants that meets the named
assumptions: any limit and any times, and any set of requests, files or connections, which has to be finite
only where something counts it. Every safety property that a passing run checks is a theorem. The
inductive invariants were checked by TLC on the instances of the runs before they were proved.

Some properties hold only of requests that are served one at a time; what breaks them under overlap is described above. Their
theorems say so by a hypothesis on the constants that the run has too: `~Overlap` in
`AssignmentSubmission` (`serial`), `OneThread` in `QuestLifecycle` and `QuestPage` (`quest_page`).
Where the property fails when a thread is killed between two statements, the hypothesis is also `"die" \notin Faults`;
uploads and the database may still fail.

* `AssignmentSubmissionProofs`, for requests that overlap: `TypeCorrect`, `LimitHolds`, `NoOrphans`, `FailureLeavesNothing`,
  `ScoresAreTheHosts`. The inductive invariant `IInv` adds to `TypeOK` that orders are unique, that
  media exist only under a submission, and what each place in the handler knows: a
  request that writes names the submission it writes to (`HoldsRow`), and the request that created the
  submission that is there has not been refused and, until it has answered, holds that row
  (`OwnerKnows`), which is what makes its clean-up delete the right submission. The limit follows from unique
  orders below `MaxMedia`, by a pigeonhole argument. It is inductive in this form only: `MediaWithinLimit` alone does
  not survive `Commit`, since a request that counted long ago adds its rows to rows it never saw.

  For requests one at a time: `AcknowledgedStays`, `HistoryIsTold`, `PromiseIsKept`. `SerialInv` says that one request is served at
  a time (`OneServing`), that what a POST has read is still so (`Current`), that a host scores the
  submission it has read (`Asked`), and that a submission somebody was told is saved can no longer be deleted by a
  clean-up (`Kept`); the first theorem holds even if threads die. `HistoryInv` adds that every
  entry of the log starts from the score the one before it ends with (`Chained`) and that the last one, or the
  entry still to be written, ends with the score that is there. `PromiseIsKept` is the refinement, step by step: `Commit` is `Save` of
  `AssignmentPromise`, `SaveScore` is `Score`, and under the mapping every other step leaves all as it is (`Still`). The
  mapping hides a submission that its POST may still take back (`Tentative`), and counts a status and a log entry that are still to be written
  (`PromisedStatus`, `PromisedLog`) as written.
* `QuestLifecycleProofs`, for threads that overlap: `TypeCorrect`, `AtMostOneActive`, `LiveQuestsHaveWindows`, `PageIsHonest`. `IInv` says that a stored row, and a row a
  request will compute a window from or save, has a duration, and that rows fit their mode.
  `AtMostOneActive` is inductive with it, since the index is evaluated with the write. For windows, the stale
  copies count as well (`ReadHasWindow`): an active row in a request's memory has a window, or its
  save would destroy the property. Excepted are the row of an edit that is about to take its quest live (`TakesLive`) and, for good, what
  concerns a quest that an edit has taken live (`byForm`), as copies of its row without a window may be saved at any time later.

  For one thread: `NoErrors`, `OnlyForward`, `WindowFixed`. `SerialInv` says that a request's copy still has the window that is
  stored, that the status it will save is a step from the stored one, and that what it has checked still holds (`Fresh`); and that
  a quest with times is live or closed, with a start if it is live and has an end (`Dated`). From it every save is a legal step of the row (`Writes`), which the three theorems read off.
  `PageSeesQuests` shows that `QuestPage` implements `QuestLifecycle`, so that all of this holds of the quest a page watches, and
  `NeverBack` follows with `PageInv`: the quest of a page that counts down to an end still has an end or is deleted.
* `RateLimitProofs`: `TypeCorrect`, `OvershootBounded`, `TwoWindows`. The strengthening `Budget` counts the threads that have passed the
  check but not yet incremented: counter plus these never exceeds `Limit + threads - 1`. `WindowsInv` splits
  what was allowed in the last `Window` seconds at the age of the entry: what is younger the counter has counted, and what is older fits
  into the budget of one window, since all of it was counted by the entry before.
* `SeasonMembershipProofs`: `TypeCorrect`, `OneEach`, `SeasonsAreThere`, `SessionsFit`, `GuestsHaveNoAccount`,
  `NobodyLosesAHandle`. The last one needs most of `IInv`: `Knows(c)` says that a request whose insert has been
  refused is for a season that is gone or that has a participant under the handle, and that the ids in a
  request's hands have been handed out. It holds because participants are only removed
  with their season (which `gone` remembers), their handles never change, and a row inserted by a join has no
  account, so that only its handle can refuse it. Sessions stay fit since an id, once deleted, never
  comes back.

* `SeasonRecordsProofs`: `RecordsAlwaysFit`, `EnrolmentAlwaysHolds`, `BoardAlwaysFair`. `IInv` adds to `RecordsFit` what a request knows
  (`Knows(t)`): one that enrols names a pair of a quest and a participant; one whose insert has been refused
  finds the row there or has lost its quest meanwhile (`lost`), since a row only goes with its quest and the quest may be back, empty; a deletion has collected rows
  of its own quest only. That the second look of `get_or_create` always succeeds follows from the middle one.
  `BoardAlwaysFair` rests on a small theory of sums and of listings, for finite sets of any size. The library's induction takes an operator as a
  parameter, so its place is taken by the least counterexample of a set of numbers (`NatMin`, `NatSetInduction`). A sum unfolds by any element
  (`SumRemoves`), and what is 0 adds nothing (`ZerosAddNothing`), which is what makes a total, taken over the quests that are scored, the sum of a
  breakdown over those enrolled in. A listing exists, because the number of rows that come before a row is its place (`ListExists`), and it names every row by a pigeonhole
  argument (`ListIsComplete`); that the order is total and strict (`BeforeOrders`) needs `NULL` to be one value only. `TotalsAddUp` and `ListsAgree` use
  `RecordsFit`: no score is counted of somebody who is not enrolled.
* `DirectUploadProofs`: `PendingIsExact`, `MediaStayWithinLimit`, `FormsAreComplete`. `RunsApart` says that no two runs of the
  handler have a file in common, which makes the counter exact (`Counted`): what one run adds or takes away
  is disjoint from the rest. `InputFits` says that what is in the input belongs to a run and is not listed before that
  run uploads it; with a counter of 0 nothing is being uploaded, so the input and the list are disjoint when
  the form is sent. `FormApart` and `TicketsValid` keep the blobs of media from being taken away by a later ticket and
  invalid files out of the manifest; the limit then follows from what the server counts alone.
* `ModerationProofs`: `LogStaysComplete`, `ReportsNameTheirs`. `ToldByOthers(t)` is the heart: the status a resolution starts
  from has an entry, or one to come, that is not its own. Without it two resolutions could each count on the other.
  It is kept because the log only grows as long as a report is there, and an entry about it that is coming arrives
  (`Follows`): its actor is staff, or a participant who is there as long as the report is (`Holds`). `AllFiled` says that reports
  have ids below those still to come, and that an entry without an old status, a filing, is of a report that is there; what is
  logged about one that has gone is therefore a resolution. `Room` and `FilingRoom` keep a place in the bounded log and an id for the
  requests under way.
* `PresenceProofs`: `TypeCorrect`, `TabsStaySeparate`. `IInv` adds to `TypeOK` that a consumer says its last when its page
  is gone (`ByeIsLast`), so that a connection that still has to ping is not forgotten with an announcement.

*Only model-checked*: all liveness, which with fairness and `ENABLED` is out of the prover's reach: `NotShutOut`, `ButtonsComeBack`,
`CountSettles`, `ForgottenWhenGone`, `NobodyLeftWaiting`, `FormGoesAway`. The two disagreements (`ScoredIsFinal` and the
window of a quest the edit form has activated) are counterexamples, which TLC finds.

## Not modelled

* **media storage**: blob clients, signed reading URLs, EXIF, the length of videos: work of libraries on one value. An upload is a
  step that may fail in `AssignmentSubmission`, a blob that comes or does not in `DirectUpload`.
* **quest templates**: rows with one writer at a time and no rule across them but that one in use stays. The view looks
  before it deletes, and the foreign key is `PROTECT`: a quest created in between ends the deletion in a server error.
* **events** other than those the quest's page acts on: the other pages show a toast or load themselves anew.
  `broadcast_season_event` swallows errors and changes no state.
* **accounts**: registration and passwords, which are Django's. Who may manage a season is part of `SeasonMembership`;
  the other models take the requests that pass.
* **administration site**: it may edit every row; only the promotion to host is modelled.
* **pages**: rendering, QR codes, and `templates/submissions/form.html`, whose script is the same as the one modelled.

## Plan

1. Proofs: the safety facts that the liveness properties rest on, as theorems of their own: a refused request leaves the
   entry of the rate limit as it is; a counter of uploads above 0 has a run that will lower it; a page that is shown, and not
   past its quest, has a timer left; the map of connections only loses who has left, died or timed out.
2. `QuestPage` with two threads, so that the page meets a quest whose edit overlaps its start.
3. The administration site as an environment of `SeasonMembership` and `SeasonRecords`.
4. Quest templates, if they get rules of their own.
