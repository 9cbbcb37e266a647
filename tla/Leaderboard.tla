---------------------------- MODULE Leaderboard ----------------------------
(***************************************************************************)
(* The rankings that are made of the records of SeasonRecords: the overall *)
(* leaderboard and its breakdown by quest (leaderboard/views.py), and the  *)
(* list of a quest's submissions for the hosts (quests/views.py).  Each is *)
(* a query with an order of its own.  The season's page counts its rank in *)
(* the order of the board.                                                 *)
(***************************************************************************)
EXTENDS SeasonRecords, Sequences, Functions

(* None: an SQL NULL, which the pages show as 0, or an empty score.        *)
Shown(s) == IF s \in Nat THEN s ELSE 0

(* Mutant: NULL comes before every number in a descending order.           *)
Above_NullsFirst(a, b) == b \in Nat /\ (a \in Nat => a > b)

(* SQLite's descending order: NULL comes last.                             *)
Above(a, b) == a \in Nat /\ (b \in Nat => a > b)

(* "-<value>", "handle"                                                    *)
Before(value, p, o) == Above(value[p], value[o]) \/ (value[p] = value[o] /\ p < o)

(* The rows of S in this order.                                            *)
Ordered(S, value) ==
  CHOOSE list \in [1 .. Cardinality(S) -> S] :
    \A i, j \in 1 .. Cardinality(S) : i < j => Before(value, list[i], list[j])

(* The column submission.score: NULL also where there is no submission.    *)
ScoreOf(q, p) == IF score[<<q, p>>] \in Scores THEN score[<<q, p>>] ELSE None

ScoredOf(p) == {q \in Quests : score[<<q, p>>] \in Scores}

(* Sum("quest_assignments__submission__score"): NULL, if there is none.    *)
Total(p) ==
  IF ScoredOf(p) = {}
    THEN None
    ELSE SumFunctionOnSet([q \in Quests |-> ScoreOf(q, p)], ScoredOf(p))

(* season_leaderboard: everybody of the season, by the total.              *)
Overall == Ordered(Participants, [p \in Participants |-> Total(p)])

Enrolled(q) == {p \in Participants : rows[<<q, p>>] > 0}

(* season_leaderboard: the quest's entries, sorted again by the score that *)
(* is shown.                                                               *)
Breakdown(q) == Ordered(Enrolled(q), [p \in Enrolled(q) |-> Shown(ScoreOf(q, p))])

(* control_season_quest_detail: as queried.                                *)
HostList(q) == Ordered(Enrolled(q), [p \in Enrolled(q) |-> ScoreOf(q, p)])

-----------------------------------------------------------------------------
(* Properties                                                              *)

(* p is named before o.                                                    *)
Precedes(list, p, o) ==
  \E i, j \in DOMAIN list : i < j /\ list[i] = p /\ list[j] = o

Everyone(list, S) ==
  Len(list) = Cardinality(S) /\ {list[i] : i \in DOMAIN list} = S

(* Nobody is below one with a smaller total, and equal totals come by the  *)
(* handle.                                                                 *)
NobodyOvertaken ==
  \A p, o \in Participants :
    /\ Shown(Total(p)) > Shown(Total(o)) => Precedes(Overall, p, o)
    /\ Total(p) = Total(o) /\ p < o => Precedes(Overall, p, o)

(* The total is the sum of what the breakdowns show.                       *)
TotalsAddUp ==
  \A p \in Participants :
    Shown(Total(p)) = SumFunctionOnSet([q \in Quests |-> Shown(ScoreOf(q, p))],
                                       {q \in Quests : p \in Enrolled(q)})

(* The breakdown and the hosts' list rank a quest's entries alike, except  *)
(* that an entry with the score 0 and one with none may change places.     *)
ListsAgree ==
  \A q \in Quests :
    /\ Everyone(Breakdown(q), Enrolled(q)) /\ Everyone(HostList(q), Enrolled(q))
    /\ \A p, o \in Enrolled(q) :
         Precedes(Breakdown(q), p, o) /\ Precedes(HostList(q), o, p)
           => {score[<<q, p>>], score[<<q, o>>]} \cap Nat = {0}

(* In every state that enrolments, submissions, scores and deletions lead  *)
(* to, the board names everybody once and ranks them by their totals,      *)
(* which are the sums of the breakdowns, and the lists of a quest agree.   *)
BoardIsFair ==
  /\ Everyone(Overall, Participants)
  /\ NobodyOvertaken
  /\ TotalsAddUp
  /\ ListsAgree
=============================================================================
