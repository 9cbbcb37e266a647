-------------------------- MODULE SeasonMembership --------------------------
(***************************************************************************)
(* Who takes part in a season: the seasons, their participants and the     *)
(* sessions of the browsers (apps/seasons/views.py and session.py).        *)
(*                                                                         *)
(* Each call to the database is an action.  A session is loaded and saved  *)
(* with a request, and a browser sends one request at a time, so that what *)
(* a request does to its session happens together with its last call.      *)
(***************************************************************************)
EXTENDS Naturals, FiniteSets, Functions

CONSTANTS
  None,
  Clients,          (* the browsers                                             *)
  Accounts, Staff,  (* the accounts, and those of them with is_staff            *)
  Seasons,          (* the ids of the seasons, those yet to be created too      *)
  Handles,
  FormStatuses,     (* the statuses the season's form is filled in with         *)
  MaxParticipants   (* the bound on the ids of participants                     *)

ASSUME SetsTyped ==
  /\ None \notin Accounts \cup Seasons \cup Handles
  /\ Staff \subseteq Accounts
  /\ MaxParticipants \in Nat

Stored   == {"draft", "active", "closed", "archived"}
Statuses == Stored \cup {"new", "deleted"}

ASSUME StatusesTyped == FormStatuses \subseteq Stored

VARIABLES
  season,       (* the status of each Season row                                *)
  participant,  (* the SeasonParticipant rows, by id                            *)
  next,         (* the next id; ids are never used twice (AUTOINCREMENT)        *)
  session,      (* each browser's session, and who is logged in                 *)
  request,      (* the request each browser is waiting for, or its answer       *)
  gone          (* history: the seasons that have been deleted at some time     *)

vars == <<season, participant, next, session, request, gone>>

Exists(s) == season[s] \in Stored

Row == [season : Seasons \cup {None}, handle : Handles \cup {None},
        account : Accounts \cup {None}, role : {"player", "host"}, guest : BOOLEAN]
NoRow == [season |-> None, handle |-> None, account |-> None, role |-> "player", guest |-> TRUE]
Player(s, h) == [NoRow EXCEPT !.season = s, !.handle = h]

(* Only what is still to be used of a request is kept.                     *)
Ended(pc) == [pc |-> pc, season |-> None, who |-> 0, row |-> NoRow]

(* "done" stands for every page that is not an error, a refusal as well;   *)
(* "taken" for the one that says the handle is.                            *)
Serving(c)    == request[c].pc \notin {"done", "taken", "error"}
Answer(c, pc) == request' = [request EXCEPT ![c] = Ended(pc)]
Step(c, pc)   == request' = [request EXCEPT ![c].pc = pc]
Begin(c, pc, s, who, row) ==
  request' = [request EXCEPT ![c] = [pc |-> pc, season |-> s, who |-> who, row |-> row]]

-----------------------------------------------------------------------------
(* Sessions.  0 stands for a key that is not there.                        *)

NoBinding   == [s \in Seasons |-> 0]
NewSession  == [bound |-> NoBinding, active |-> 0, account |-> None]

(* Mutant: the keys of the other seasons stay.                             *)
Bound_Keeps(sess, s, i) == [sess EXCEPT !.bound[s] = i, !.active = i]

(* bind_session_participant: one key for the season, none for the others.  *)
Bound(sess, s, i) == [sess EXCEPT !.bound = [NoBinding EXCEPT ![s] = i], !.active = i]

Bind(c, s, i) == session' = [session EXCEPT ![c] = Bound(@, s, i)]

(* get_session_participant: the id, if it is of a row of this season.      *)
InSession(c, s) ==
  {i \in DOMAIN participant : i = session[c].bound[s] /\ participant[i].season = s}

OfAccount(c) ==
  {i \in DOMAIN participant : /\ session[c].account # None
                              /\ participant[i].account = session[c].account}

(* get_bound_participant_ids, as far as there are such rows.               *)
InAnySession(c) ==
  {i \in DOMAIN participant : i = session[c].active \/ \E s \in Seasons : i = session[c].bound[s]}

HostIds == {i \in DOMAIN participant : participant[i].role = "host"}

IsStaff(c) == session[c].account \in Staff

CanManage(c, s) ==
  IsStaff(c) \/ \E i \in HostIds : /\ participant[i].season = s
                                   /\ i \in OfAccount(c) \cup InSession(c, s)

CanAccess(c) == IsStaff(c) \/ HostIds \cap (OfAccount(c) \cup InAnySession(c)) # {}

-----------------------------------------------------------------------------
(* Joining: get_or_create of the participant.                              *)

(* The participants a season has under a handle: one at most.              *)
Named(s, h) == {i \in DOMAIN participant : participant[i].season = s /\ participant[i].handle = h}

(* Mutant: the table has neither constraint.                               *)
Conflict_NoIndex(i, row) == FALSE

(* The two unique constraints of SeasonParticipant, for row i.             *)
Conflict(i, row) ==
  \E j \in DOMAIN participant \ {i} :
    /\ participant[j].season = row.season
    /\ \/ participant[j].handle = row.handle
       \/ row.account # None /\ participant[j].account = row.account

(* Mutant: the foreign key is not enforced.                                *)
Insertable_NoForeignKey(row) == ~Conflict(next, row)

Insertable(row) == Exists(row.season) /\ ~Conflict(next, row)

Inserted(row) ==
  [i \in DOMAIN participant \cup {next} |-> IF i = next THEN row ELSE participant[i]]

(* The bound on ids: who may need one has a place reserved.                *)
IdsLeft ==
  next + Cardinality({c \in Clients : request[c].pc \in {"source", "get", "create"}})
    <= MaxParticipants

(* join_season and join_season_by_code: the code is right and the season   *)
(* active, or the form, the code or the rate limit refuses.                *)
JoinSeason(c, s, h) ==
  /\ ~Serving(c)
  /\ \/ /\ season[s] = "active" /\ IdsLeft
        /\ Begin(c, "get", s, 0, Player(s, h))
     \/ Answer(c, "done")
  /\ UNCHANGED <<season, participant, next, session, gone>>

GetParticipant(c) ==
  LET row == request[c].row
  IN  /\ request[c].pc = "get"
      /\ IF Named(row.season, row.handle) = {}
           THEN Step(c, "create") /\ UNCHANGED session
           ELSE /\ \E i \in Named(row.season, row.handle) : Bind(c, row.season, i)
                /\ Answer(c, "done")
      /\ UNCHANGED <<season, participant, next, gone>>

(* Mutant: a constraint is answered at once.                               *)
CreateParticipant_NoRetry(c) ==
  LET row == request[c].row
  IN  /\ request[c].pc = "create"
      /\ IF Insertable(row)
           THEN /\ participant' = Inserted(row) /\ next' = next + 1
                /\ Bind(c, row.season, next)
                /\ Answer(c, "done")
           ELSE Answer(c, "taken") /\ UNCHANGED <<participant, next, session>>
      /\ UNCHANGED <<season, gone>>

(* create(), after which get_or_create looks again when it has failed.     *)
CreateParticipant(c) ==
  LET row == request[c].row
  IN  /\ request[c].pc = "create"
      /\ IF Insertable(row)
           THEN /\ participant' = Inserted(row) /\ next' = next + 1
                /\ Bind(c, row.season, next)
                /\ Answer(c, "done")
           ELSE Step(c, "again") /\ UNCHANGED <<participant, next, session>>
      /\ UNCHANGED <<season, gone>>

(* The views that join catch the error, season_create does not.            *)
GetAgain(c) ==
  LET row == request[c].row
  IN  /\ request[c].pc = "again"
      /\ IF Named(row.season, row.handle) = {}
           THEN /\ Answer(c, IF row.role = "player" THEN "taken" ELSE "error")
                /\ UNCHANGED session
           ELSE /\ \E i \in Named(row.season, row.handle) : Bind(c, row.season, i)
                /\ Answer(c, "done")
      /\ UNCHANGED <<season, participant, next, gone>>

-----------------------------------------------------------------------------
(* claim_participation                                                     *)

ClaimParticipation(c, s) ==
  /\ ~Serving(c) /\ Exists(s)
  /\ IF session[c].account = None \/ InSession(c, s) = {}
       THEN Answer(c, "done")
       ELSE \E i \in InSession(c, s) : Begin(c, "check", s, i, NoRow)
  /\ UNCHANGED <<season, participant, next, session, gone>>

CheckClaim(c) ==
  /\ request[c].pc = "check"
  /\ IF \E i \in OfAccount(c) \ {request[c].who} : participant[i].season = request[c].season
       THEN Answer(c, "done")
       ELSE Step(c, "link")
  /\ UNCHANGED <<season, participant, next, session, gone>>

Linked(row, account) == [row EXCEPT !.account = account, !.guest = FALSE]

(* save(update_fields): a missing row and a conflict raise, uncaught.      *)
SaveClaim(c) ==
  LET i   == request[c].who
      row == Linked(participant[i], session[c].account)
  IN  /\ request[c].pc = "link"
      /\ IF i \in DOMAIN participant /\ ~Conflict(i, row)
           THEN participant' = [participant EXCEPT ![i] = row] /\ Answer(c, "done")
           ELSE UNCHANGED participant /\ Answer(c, "error")
      /\ UNCHANGED <<season, next, session, gone>>

-----------------------------------------------------------------------------
(* The pages that bind the session as well.                                *)

Latest(ids)   == CHOOSE i \in ids : \A j \in ids : j <= i
Earliest(ids) == CHOOSE i \in ids : \A j \in ids : i <= j

(* index: the participation joined last, of those in seasons not archived. *)
OpenIndex(c) ==
  LET joined == {i \in OfAccount(c) \cup InAnySession(c) :
                   season[participant[i].season] # "archived"}
  IN  /\ ~Serving(c)
      /\ IF joined = {} THEN UNCHANGED session
                        ELSE Bind(c, participant[Latest(joined)].season, Latest(joined))
      /\ UNCHANGED <<season, participant, next, request, gone>>

(* season_detail: an account's participation is found without a session.   *)
OpenSeason(c, s) ==
  LET mine == {i \in OfAccount(c) : participant[i].season = s}
  IN  /\ ~Serving(c) /\ Exists(s)
      /\ InSession(c, s) = {} /\ mine # {}
      /\ Bind(c, s, Earliest(mine))
      /\ UNCHANGED <<season, participant, next, request, gone>>

(* Logging in keeps the session, logging out empties it.                   *)
Login(c, a) ==
  /\ ~Serving(c) /\ session[c].account = None
  /\ session' = [session EXCEPT ![c].account = a]
  /\ UNCHANGED <<season, participant, next, request, gone>>

Logout(c) ==
  /\ ~Serving(c) /\ session[c].account # None
  /\ session' = [session EXCEPT ![c] = NewSession]
  /\ UNCHANGED <<season, participant, next, request, gone>>

-----------------------------------------------------------------------------
(* What hosts and the staff do.                                            *)

(* season_create: the season is saved, then the host who created it        *)
(* becomes its host, with the participation found in the session.          *)
CreateSeason(c, s) ==
  /\ ~Serving(c) /\ CanAccess(c) /\ season[s] = "new" /\ IdsLeft
  /\ \E status \in FormStatuses : season' = [season EXCEPT ![s] = status]
  /\ IF IsStaff(c) THEN Answer(c, "done") ELSE Begin(c, "source", s, 0, NoRow)
  /\ UNCHANGED <<participant, next, session, gone>>

Successor(source, s) == [source EXCEPT !.season = s, !.role = "host"]

FindSource(c) ==
  LET s       == request[c].season
      sources == {i \in HostIds : \E p \in Seasons : i = session[c].bound[p]}
  IN  /\ request[c].pc = "source"
      /\ IF sources = {}
           THEN Answer(c, "done")
           ELSE Begin(c, "get", s, 0, Successor(participant[Earliest(sources)], s))
      /\ UNCHANGED <<season, participant, next, session, gone>>

(* season_edit, season_archive and season_delete read the season first.    *)
ManageSeason(c, s, pc) ==
  /\ ~Serving(c) /\ Exists(s)
  /\ IF CanManage(c, s) /\ (pc = "archive" => season[s] # "archived")
       THEN Begin(c, pc, s, 0, NoRow)
       ELSE Answer(c, "done")
  /\ UNCHANGED <<season, participant, next, session, gone>>

(* Any status is saved, whatever the season had; a row deleted meanwhile   *)
(* is inserted again.                                                      *)
SaveSeason(c) ==
  /\ request[c].pc = "edit"
  /\ \E status \in FormStatuses : season' = [season EXCEPT ![request[c].season] = status]
  /\ Answer(c, "done")
  /\ UNCHANGED <<participant, next, session, gone>>

SaveArchived(c) ==
  LET s == request[c].season
  IN  /\ request[c].pc = "archive"
      /\ IF Exists(s)
           THEN season' = [season EXCEPT ![s] = "archived"] /\ Answer(c, "done")
           ELSE UNCHANGED season /\ Answer(c, "error")
      /\ UNCHANGED <<participant, next, session, gone>>

(* Mutant: without AUTOINCREMENT the next id is one more than the largest. *)
DeleteSeason_ReusesIds(c) ==
  LET s    == request[c].season
      rest == {i \in DOMAIN participant : participant[i].season # s}
  IN  /\ request[c].pc = "delete"
      /\ season' = [season EXCEPT ![s] = "deleted"]
      /\ participant' = Restrict(participant, rest)
      /\ next' = IF rest = {} THEN 1 ELSE Latest(rest) + 1
      /\ gone' = gone \cup {s}
      /\ Answer(c, "done")
      /\ UNCHANGED session

(* The participants go with their season.                                  *)
DeleteSeason(c) ==
  LET s == request[c].season
  IN  /\ request[c].pc = "delete"
      /\ season' = [season EXCEPT ![s] = "deleted"]
      /\ participant' =
           Restrict(participant, {i \in DOMAIN participant : participant[i].season # s})
      /\ gone' = gone \cup {s}
      /\ Answer(c, "done")
      /\ UNCHANGED <<next, session>>

(* The participants are looked up before the transaction: somebody who     *)
(* joins in between stays, and the foreign key refuses the deletion.       *)
FailDelete(c) ==
  /\ request[c].pc = "delete"
  /\ \E i \in DOMAIN participant : participant[i].season = request[c].season
  /\ Answer(c, "error")
  /\ UNCHANGED <<season, participant, next, session, gone>>

(* The administration site makes a player a host.                          *)
Promote(i) ==
  /\ participant' = [participant EXCEPT ![i].role = "host"]
  /\ UNCHANGED <<season, next, session, request, gone>>

-----------------------------------------------------------------------------
(* Nothing yet, and nobody logged in.                                      *)
Init ==
  /\ season = [s \in Seasons |-> "new"]
  /\ participant = [i \in {} |-> NoRow]
  /\ next = 1
  /\ session = [c \in Clients |-> NewSession]
  /\ request = [c \in Clients |-> Ended("done")]
  /\ gone = {}

RequestStep(c) ==
  \/ \E s \in Seasons : \/ \E h \in Handles : JoinSeason(c, s, h)
                        \/ ClaimParticipation(c, s) \/ OpenSeason(c, s) \/ CreateSeason(c, s)
                        \/ \E pc \in {"edit", "archive", "delete"} : ManageSeason(c, s, pc)
  \/ OpenIndex(c) \/ Logout(c) \/ \E a \in Accounts : Login(c, a)
  \/ GetParticipant(c) \/ CreateParticipant(c) \/ GetAgain(c)
  \/ CheckClaim(c) \/ SaveClaim(c)
  \/ FindSource(c) \/ SaveSeason(c) \/ SaveArchived(c)
  \/ DeleteSeason(c) \/ FailDelete(c)

Next == (\E c \in Clients : RequestStep(c)) \/ \E i \in DOMAIN participant : Promote(i)

Spec == Init /\ [][Next]_vars

-----------------------------------------------------------------------------
(* Properties                                                              *)

Pc == {"done", "taken", "error", "source", "get", "create", "again", "check", "link",
       "edit", "archive", "delete"}
Ids == 0 .. next - 1

(* Ids are handed out in order, and rows, sessions and requests name none  *)
(* that has not been handed out.                                           *)
TypeOK ==
  /\ season \in [Seasons -> Statuses]
  /\ next \in Nat \ {0}
  /\ DOMAIN participant \subseteq Ids \ {0}
  /\ participant \in [DOMAIN participant -> Row]
  /\ session \in [Clients -> [bound : [Seasons -> Ids], active : Ids, account : Accounts \cup {None}]]
  /\ request \in [Clients -> [pc : Pc, season : Seasons \cup {None}, who : Ids, row : Row]]
  /\ gone \subseteq Seasons

(* A season has one participant per handle and one per account, although   *)
(* joining and claiming look first and save later.                         *)
OneParticipation ==
  \A i, j \in DOMAIN participant :
    /\ participant[i].season = participant[j].season
    /\ \/ participant[i].handle = participant[j].handle
       \/ participant[i].account # None /\ participant[i].account = participant[j].account
    => i = j

(* Nobody takes part in a season that is not there, even when it is        *)
(* deleted while somebody joins.                                           *)
NoOrphans == \A i \in DOMAIN participant : Exists(participant[i].season)

(* A session knows one season at a time, and its participant is of that    *)
(* season, if it is there at all.                                          *)
SessionFits ==
  \A c \in Clients : \A s \in Seasons :
    session[c].bound[s] # 0 =>
      /\ session[c].active = session[c].bound[s]
      /\ session[c].bound[s] \in DOMAIN participant => participant[session[c].bound[s]].season = s
      /\ \A p \in Seasons \ {s} : session[c].bound[p] = 0

(* A participation is a guest's until it has an account, in a season that  *)
(* a host has created as well.                                             *)
GuestUntilClaimed ==
  \A i \in DOMAIN participant : participant[i].guest <=> participant[i].account = None

(* Nobody loses the race for a handle: whoever comes second joins as the   *)
(* same participant.  That the handle is taken is answered only when the   *)
(* season has been deleted.                                                *)
TakenOnlyIfGone ==
  [][\A c \in Clients :
       request[c].pc # "taken" /\ request'[c].pc = "taken" => request[c].season \in gone]_vars
=============================================================================
