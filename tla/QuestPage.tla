----------------------------- MODULE QuestPage -----------------------------
(***************************************************************************)
(* A participant's page of a scheduled quest, open while hosts start,      *)
(* edit, close and delete the quest: _render_scheduled_quest in            *)
(* apps/submissions/views.py, the countdown, the poll and the handler of   *)
(* events in templates/submissions/scheduled_quest.html, and the events of *)
(* apps/quests/views.py.  The page never changes what it shows; it asks    *)
(* for itself anew when it finds that its phase is over.                   *)
(***************************************************************************)
EXTENDS QuestLifecycle

CONSTANTS
  Watched,      (* the quest of the page                                       *)
  Ahead         (* by how much the participant's clock is ahead of the server's*)

ASSUME WatchedTyped == Watched \in Scheduled /\ Ahead \in Nat

VARIABLES
  page,     (* where it is, the phase it was rendered with, the countdown's end *)
  news      (* the events on their way to its socket                            *)

pageVars == <<page, news>>
allVars  == <<vars, pageVars>>

-----------------------------------------------------------------------------
(* The hosts.                                                              *)

(* start and transition broadcast after they have saved, the edit form     *)
(* does not.  Other changes of the status are no event for this page.      *)
Broadcast(t) ==
  IF /\ request[t].pc = "save" /\ request[t].quest = Watched
     /\ request'[t].pc = "ok"
    THEN CASE quest'[Watched].status = "active"   -> {"quest_started"}
           [] quest'[Watched].status = "complete" -> {"quest_completed"}
           [] OTHER                               -> {}
    ELSE {}

(* Whoever has no socket at that time does not hear of it.                 *)
HostStep ==
  /\ Next
  /\ \E heard \in SUBSET UNION {Broadcast(t) : t \in Threads} : news' = news \cup heard
  /\ UNCHANGED page

-----------------------------------------------------------------------------
(* The page.                                                               *)

(* Where the countdown ends: at opens_at or ends_at, if it is set.         *)
Target(q, phase) ==
  CASE phase = "waiting" -> q.opens
    [] phase = "active"  -> q.ends
    [] OTHER             -> None

(* The server reads the quest and renders the page; with the old page its  *)
(* socket has gone.                                                        *)
Render ==
  /\ page.at \in {"nowhere", "leaving"}
  /\ IF Exists(Watched)
       THEN LET phase == Phase(quest[Watched], now)
            IN  page' = [at |-> "loading", phase |-> phase,
                         target |-> Target(quest[Watched], phase)]
       ELSE page' = [at |-> "404", phase |-> "expired", target |-> None]
  /\ news' = {}
  /\ UNCHANGED vars

(* It arrives when much may have happened.                                 *)
Load ==
  /\ page.at = "loading"
  /\ page' = [page EXCEPT !.at = "shown"]
  /\ UNCHANGED <<vars, news>>

(* transitionPage: hasTransitioned keeps it from being done twice.         *)
TransitionPage ==
  /\ page.at = "shown"
  /\ page' = [page EXCEPT !.at = "leaving"]

(* The countdown runs by the participant's clock.                          *)
Countdown ==
  /\ page.target # None /\ now + Ahead >= page.target
  /\ TransitionPage
  /\ UNCHANGED <<vars, news>>

(* Mutants: the poll looks for the start only, or leaves the start to the  *)
(* events.                                                                 *)
PhaseOver_StartOnly(status) == page.phase = "waiting" /\ status = "active"
PhaseOver_EndOnly(status)   == page.phase = "active" /\ status \in {"complete", "archived"}

PhaseOver(status) ==
  \/ page.phase = "waiting" /\ status = "active"
  \/ page.phase = "active" /\ status \in {"complete", "archived"}

(* season_quest_status_check every three seconds.  An answer that is none, *)
(* as of a quest that has been deleted, changes nothing.                   *)
Poll ==
  /\ Exists(Watched) /\ PhaseOver(quest[Watched].status)
  /\ TransitionPage
  /\ UNCHANGED <<vars, news>>

Hear(event) ==
  /\ event \in news
  /\ news' = news \ {event}
  /\ IF \/ event = "quest_started" /\ page.phase = "waiting"
        \/ event = "quest_completed" /\ page.phase = "active"
       THEN TransitionPage
       ELSE page.at = "shown" /\ UNCHANGED page
  /\ UNCHANGED vars

PageStep ==
  \/ Render \/ Load \/ Countdown \/ Poll
  \/ \E event \in {"quest_started", "quest_completed"} : Hear(event)

-----------------------------------------------------------------------------
PageInit ==
  /\ Init
  /\ page = [at |-> "nowhere", phase |-> "waiting", target |-> None] /\ news = {}

PageNext == HostStep \/ PageStep

(* The page's timers fire, and its requests are answered in the end.  It   *)
(* need not hear of any event, and hosts need not do anything.             *)
PageSpec ==
  /\ PageInit /\ [][PageNext]_allVars
  /\ WF_allVars(Render) /\ WF_allVars(Load) /\ WF_allVars(Countdown) /\ WF_allVars(Poll)

-----------------------------------------------------------------------------
(* Properties                                                              *)

Shows(phase) == page.at = "shown" /\ page.phase = phase
Is(phase)    == Exists(Watched) /\ Phase(quest[Watched], now) = phase

(* Nobody is left waiting: when the quest goes live and stays so, the page *)
(* stops showing that it has yet to begin, even if it was rendered just    *)
(* before and has missed the event.                                        *)
NobodyLeftWaiting == <>[]Is("active") => <>[]~Shows("waiting")

(* The form goes away: when the quest is over and stays so, by its time or *)
(* by its hosts, the page stops showing the form, whatever window it was   *)
(* rendered with.                                                          *)
FormGoesAway == <>[]Is("expired") => <>[]~Shows("active")

(* A participant who has been shown the form with its countdown is never   *)
(* sent back to wait, by no edit, reload or late event.                    *)
NeverBackToWaiting ==
  [][page.phase = "active" /\ page.target # None => page'.phase # "waiting"]_allVars
=============================================================================
