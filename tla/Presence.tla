------------------------------ MODULE Presence ------------------------------
(***************************************************************************)
(* Who is looking at a quest: the consumers at the server's end of the     *)
(* sockets (apps/realtime/consumers.py), the map of connections they keep  *)
(* in the cache (apps/realtime/presence.py), and the number that reaches   *)
(* the season's page (templates/seasons/detail.html).  What a quest's page *)
(* does with its sockets is the subject of QuestPage; here they come, fall *)
(* silent and go.                                                          *)
(*                                                                         *)
(* Consumers change the map in the one thread of sync_to_async, one after  *)
(* the other, so that the get and the set of the cache are one step; the   *)
(* count is announced in a later one.  A name of a connection is used      *)
(* again when nothing is left of it.                                       *)
(***************************************************************************)
EXTENDS Naturals, FiniteSets

CONSTANTS
  Participants,
  Conns,
  Owner,        (* whose connection it is                                      *)
  TTL           (* PRESENCE_TTL_SECONDS, in intervals between two pings        *)

ASSUME OwnerTyped ==
  Owner \in [Conns -> Participants] /\ IsFiniteSet(Conns) /\ IsFiniteSet(Participants)
ASSUME TTLTyped == TTL \in Nat \ {0}

VARIABLES
  conn,     (* a connection: the page's end, the consumer, the count it has to  *)
            (* announce                                                         *)
  live,     (* the connections in the map, but for                              *)
  lost,     (* the participants with a connection in the map that is no more    *)
  life,     (* what is left of the map's timeout                                *)
  due,      (* the connections that have to ping before the interval is over    *)
  shown     (* the number on a season's page                                    *)

map  == <<live, lost, life>>
vars == <<conn, map, due, shown>>

NoConn == [page |-> "none", server |-> "none", count |-> 0]

Counted(l) == {Owner[c] : c \in l} \cup lost
Online     == Cardinality(Counted(live))

-----------------------------------------------------------------------------
(* The consumers.                                                          *)

(* Mutant: a participant counts once for every tab.                        *)
Count_Tabs(l) == Cardinality(l) + Cardinality(lost)

(* len(presence_map), which a change of the map returns to be announced.   *)
Count(l) == Cardinality(Counted(l))

(* The map is stored, with its full timeout, and counted.                  *)
Store(c, l, page, server) ==
  /\ live' = l /\ life' = TTL /\ due' = due \ {c}
  /\ conn' = [conn EXCEPT ![c] = [page |-> page, server |-> server,
                                  count |-> Count(l)]]
  /\ UNCHANGED <<lost, shown>>

(* connect: into the group, accepted, into the map.                        *)
Register(c) ==
  /\ conn[c] = NoConn
  /\ Store(c, live \cup {c}, "pinging", "announce")

(* A ping and receive_json: into the map again, if it has been dropped.    *)
Touch(c) ==
  /\ conn[c].page = "pinging" /\ conn[c].server = "open"
  /\ Store(c, live \cup {c}, "pinging", "announce")

(* Mutant: the connection stays in the map.                                *)
Without_Kept(c) == live

(* Mutant: the participant leaves the map with the first connection.       *)
Without_Participant(c) == {d \in live : Owner[d] # Owner[c]}

Without(c) == live \ {c}

(* disconnect.  It is the consumer's last message.                         *)
Unregister(c) ==
  /\ conn[c].page = "gone" /\ conn[c].server = "open"
  /\ Store(c, Without(c), "gone", "bye")

(* _broadcast_presence_count.                                              *)
Announced(c) ==
  /\ conn[c].server \in {"announce", "bye"}
  /\ conn' = [conn EXCEPT ![c] = IF @.server = "bye" THEN NoConn
                                 ELSE [@ EXCEPT !.server = "open", !.count = 0]]
  /\ UNCHANGED <<map, due>>

(* updateQuestPresence on the season's page: the last number to come stays.*)
Announce(c) == Announced(c) /\ shown' = conn[c].count

(* The season's page has been rendered, but its socket is not yet there,   *)
(* or there no more.  To miss the number that it shows already is no miss: *)
(* that step is the same as Announce.                                      *)
Miss(c) == Announced(c) /\ conn[c].count # shown /\ UNCHANGED shown

(* The channel layer fails: the consumer is gone with its exception, and   *)
(* nobody takes its connection out of the map.                             *)
FailAnnounce(c) ==
  /\ conn[c].server \in {"announce", "bye"}
  /\ conn' = [conn EXCEPT ![c] = NoConn]
  /\ live' = live \ {c}
  /\ lost' = lost \cup {Owner[d] : d \in {c} \cap live}
  /\ due' = due \ {c}
  /\ UNCHANGED <<life, shown>>

-----------------------------------------------------------------------------
(* What happens to them.                                                   *)

(* The page is left or hidden, or the network goes away.                   *)
Close(c) ==
  /\ conn[c].page \in {"pinging", "silent"}
  /\ conn' = [conn EXCEPT ![c].page = "gone"]
  /\ due' = due \ {c}
  /\ UNCHANGED <<map, shown>>

(* The device sleeps, or the page has another socket for its pings: the    *)
(* connection stays.                                                       *)
FallSilent(c) ==
  /\ conn[c].page = "pinging"
  /\ conn' = [conn EXCEPT ![c].page = "silent"]
  /\ due' = due \ {c}
  /\ UNCHANGED <<map, shown>>

Wake(c) ==
  /\ conn[c].page = "silent"
  /\ conn' = [conn EXCEPT ![c].page = "pinging"]
  /\ UNCHANGED <<map, due, shown>>

(* The server is started anew, with an empty cache.                        *)
Restart ==
  /\ conn' = [c \in Conns |-> NoConn]
  /\ live' = {} /\ lost' = {} /\ life' = 0 /\ due' = {}
  /\ UNCHANGED shown

Pinging == {c \in Conns : conn[c].page = "pinging"}

(* Mutant: the map has no timeout.                                         *)
Dropped_Never(l) == FALSE

Dropped(l) == l = 0

(* The time between two pings is over.                                     *)
Tick ==
  /\ life > 0 /\ due = {}
  /\ life' = life - 1 /\ due' = Pinging
  /\ IF Dropped(life') THEN live' = {} /\ lost' = {} ELSE UNCHANGED <<live, lost>>
  /\ UNCHANGED <<conn, shown>>

(* get_quest_online_counts, when the season's page is rendered.            *)
LoadSeason == shown' = Online /\ UNCHANGED <<conn, map, due>>

-----------------------------------------------------------------------------
Init ==
  /\ conn = [c \in Conns |-> NoConn]
  /\ live = {} /\ lost = {} /\ life = 0 /\ due = {} /\ shown = 0

Consumer(c) == Touch(c) \/ Unregister(c) \/ Announce(c)
Visit       == \E c \in Conns : Register(c) \/ Close(c) \/ FallSilent(c) \/ Wake(c)
Fault       == Restart \/ \E c \in Conns : Miss(c) \/ FailAnnounce(c)

Next == Visit \/ Fault \/ (\E c \in Conns : Consumer(c)) \/ Tick \/ LoadSeason

Spec == Init /\ [][Next]_vars

(* Pages ping, consumers get on and time passes.  Nobody has to come or go.*)
FairSpec == Spec /\ (\A c \in Conns : WF_vars(Consumer(c))) /\ WF_vars(Tick)

-----------------------------------------------------------------------------
(* Properties                                                              *)

(* Every variable is of its type, and the map holds consumers that have    *)
(* registered and have not been told of the end, and those that are lost.  *)
TypeOK ==
  /\ conn \in [Conns -> [page : {"none", "pinging", "silent", "gone"},
                         server : {"none", "announce", "open", "bye"},
                         count : 0 .. Cardinality(Participants)]]
  /\ live \subseteq {c \in Conns : conn[c].server \in {"announce", "open"}}
  /\ lost \subseteq Participants
  /\ life \in 0 .. TTL /\ (life = 0 => live \cup lost = {})
  /\ due \subseteq Pinging
  /\ shown \in 0 .. Cardinality(Participants)

(* A connection that ends takes only itself out of the map: its participant*)
(* goes on being counted for another tab, until the whole map is over.     *)
TabsAreSeparate ==
  [][\A c \in live \ live' : conn'[c].server \in {"bye", "none"} \/ live' = {}]_vars

(* When nobody comes, goes or reloads any more, nothing fails and no new   *)
(* number is missed, and somebody pings, the announcements bring the       *)
(* season's page to show the number in the map, and everybody who pings is *)
(* in the map, whatever announcements have been missed or have overtaken   *)
(* each other before, and although the map may have been dropped.          *)
CountSettles ==
  <>[][~(Visit \/ Fault \/ LoadSeason)]_vars /\ <>[](Pinging # {})
    => <>[](shown = Online /\ Pinging \subseteq live)

(* When nobody pings any more, nobody is counted in the end, not even those*)
(* whose consumers died without taking them out, nor those asleep.         *)
ForgottenWhenGone == <>[](Pinging = {}) => <>[](Online = 0)
=============================================================================
