-------------------------- MODULE SubmissionWindow --------------------------
(***************************************************************************)
(* When a scheduled quest takes submissions, and what its page shows.  Two *)
(* functions of apps/submissions/views.py decide this from the same row    *)
(* and the same clock, in different orders: _submission_timing_error, for  *)
(* every request to submit_assignment, and _render_scheduled_quest, for    *)
(* the page the participant submits from.                                  *)
(*                                                                         *)
(* A quest that allows no late submissions is one with a grace of zero.    *)
(***************************************************************************)
EXTENDS Naturals

CONSTANT None   (* a timestamp that is not set *)

Closed(q) == q.status \in {"complete", "archived"}

(* Past ends_at plus the grace: the deadline itself is still in time.      *)
PastEnd(q, now)   == q.ends # None /\ now > q.ends
PastGrace(q, now) == PastEnd(q, now) /\ now > q.ends + q.grace

(* Mutant: the end is exclusive.                                           *)
TimingError_EndExclusive(q, now) ==
  \/ q.started # None /\ now < q.started
  \/ q.ends # None /\ now >= q.ends /\ now >= q.ends + q.grace
  \/ ~PastEnd(q, now) /\ Closed(q)

(* _submission_timing_error: is the request turned away?  The status is    *)
(* only looked at while ends_at has not passed.                            *)
TimingError(q, now) ==
  \/ q.started # None /\ now < q.started
  \/ PastGrace(q, now)
  \/ ~PastEnd(q, now) /\ Closed(q)

Accepts(q, now) == ~TimingError(q, now)

(* Mutant: only opens_at makes the quest live.                             *)
Live_OpensOnly(q, now) == q.status = "active" /\ q.opens # None /\ now >= q.opens

(* The page is "active", and shows the form, when the quest is not closed  *)
(* and either its grace is running or it is live.                          *)
Live(q, now) ==
  /\ q.status = "active"
  /\ q.started # None \/ (q.opens # None /\ now >= q.opens)

Phase(q, now) ==
  CASE Closed(q) \/ PastGrace(q, now)         -> "expired"
    [] ~Closed(q) /\ ~PastGrace(q, now)
       /\ (PastEnd(q, now) \/ Live(q, now))   -> "active"
    [] OTHER                                  -> "waiting"
=============================================================================
