--------------------------- MODULE PresenceProofs ---------------------------
(***************************************************************************)
(* Proofs about Presence, for any participants, connections and timeout.   *)
(***************************************************************************)
EXTENDS Presence, FiniteSetTheorems, TLAPS

Counts     == 0 .. Cardinality(Participants)
ConnRecord == [page : {"none", "pinging", "silent", "gone"},
               server : {"none", "announce", "open", "bye"}, count : Counts]

(* The conjuncts of TypeOK, by the variables they are about.               *)
ConnTyped  == conn \in [Conns -> ConnRecord]
LiveOpen   == \A c \in live : c \in Conns /\ conn[c].server \in {"announce", "open"}
MapTyped   == lost \subseteq Participants /\ life \in 0 .. TTL /\ (life = 0 => live = {} /\ lost = {})
DuePings   == \A c \in due : c \in Conns /\ conn[c].page = "pinging"
ShownTyped == shown \in Counts

(* A consumer says its last when the page is gone, and does not ping.      *)
ByeIsLast  == \A c \in Conns : conn[c].server = "bye" => conn[c].page = "gone"

(* The inductive invariant: TypeOK and ByeIsLast.                          *)
IInv == ConnTyped /\ LiveOpen /\ MapTyped /\ DuePings /\ ShownTyped /\ ByeIsLast

(* The number of those in the map is one that can be shown.                *)
LEMMA CountFits ==
  ASSUME lost \subseteq Participants, NEW l \in SUBSET Conns PROVE Cardinality(Counted(l)) \in Counts
<1>1. Counted(l) \subseteq Participants BY OwnerTyped DEF Counted
<1>2. IsFiniteSet(Participants) BY OwnerTyped
<1>3. IsFiniteSet(Counted(l)) /\ Cardinality(Counted(l)) <= Cardinality(Participants)
  BY <1>1, <1>2, FS_Subset
<1>. QED BY <1>2, <1>3, FS_CardinalityType DEF Counts

LEMMA CountsFromZero == 0 \in Counts
<1>1. Cardinality(Participants) \in Nat BY OwnerTyped, FS_CardinalityType
<1>. QED BY <1>1 DEF Counts

LEMMA NoConnTyped == NoConn \in ConnRecord
  BY CountsFromZero DEF NoConn, ConnRecord

(* A connection that is not open is not in the map, and what is stored for *)
(* another one leaves it alone.                                            *)
LEMMA OnlyOne ==
  ASSUME ConnTyped, NEW c \in Conns, NEW new \in ConnRecord, conn' = [conn EXCEPT ![c] = new]
  PROVE  ConnTyped' /\ conn'[c] = new /\ \A d \in Conns \ {c} : conn'[d] = conn[d]
  BY DEF ConnTyped

LEMMA StoreKeeps ==
  ASSUME IInv, NEW c \in Conns, NEW l \in SUBSET Conns,
         NEW page \in {"pinging", "gone"}, NEW server \in {"announce", "bye"},
         l \subseteq live \cup {c}, server = "bye" => page = "gone" /\ c \notin l,
         Store(c, l, page, server)
  PROVE  IInv'
<1> DEFINE new == [page |-> page, server |-> server, count |-> Cardinality(Counted(l))]
<1>1. Cardinality(Counted(l)) \in Counts BY CountFits DEF IInv, MapTyped
<1>2. new \in ConnRecord BY <1>1 DEF ConnRecord
<1>3. conn' = [conn EXCEPT ![c] = new] BY DEF Store, Count
<1> HIDE DEF new
<1>4. ConnTyped' /\ conn'[c] = new /\ \A d \in Conns \ {c} : conn'[d] = conn[d]
  BY <1>2, <1>3, OnlyOne DEF IInv
<1>5. new.server = server /\ new.page = page BY DEF new
<1>6. live' = l /\ life' = TTL /\ due' = due \ {c} /\ UNCHANGED <<lost, shown>>
  BY DEF Store
<1>7. LiveOpen' BY <1>4, <1>5, <1>6 DEF IInv, LiveOpen
<1>8. MapTyped' BY <1>6, TTLTyped DEF IInv, MapTyped
<1>9. DuePings' BY <1>4, <1>6 DEF IInv, DuePings
<1>10. ShownTyped' BY <1>6 DEF IInv, ShownTyped
<1>11. ByeIsLast' BY <1>4, <1>5 DEF IInv, ByeIsLast
<1>. QED BY <1>4, <1>7, <1>8, <1>9, <1>10, <1>11 DEF IInv

LEMMA AnnouncedKeeps ==
  ASSUME IInv, NEW c \in Conns, Announced(c), ShownTyped' PROVE IInv'
<1> DEFINE new == IF conn[c].server = "bye" THEN NoConn
                  ELSE [conn[c] EXCEPT !.server = "open", !.count = 0]
<1>1. conn[c] \in ConnRecord BY DEF IInv, ConnTyped
<1>2. new \in ConnRecord BY <1>1, NoConnTyped, CountsFromZero DEF ConnRecord
<1>3. conn' = [conn EXCEPT ![c] = new] BY DEF Announced
<1>4. conn[c].server # "bye" => new.server = "open" /\ new.page = conn[c].page
  BY <1>1 DEF ConnRecord
<1>5. conn[c].server = "bye" => c \notin live BY DEF IInv, LiveOpen
<1> HIDE DEF new
<1>6. ConnTyped' /\ conn'[c] = new /\ \A d \in Conns \ {c} : conn'[d] = conn[d]
  BY <1>2, <1>3, OnlyOne DEF IInv
<1>7. UNCHANGED <<live, lost, life, due>> BY DEF Announced, map
<1>8. LiveOpen' BY <1>4, <1>5, <1>6, <1>7 DEF IInv, LiveOpen
<1>9. MapTyped' BY <1>7 DEF IInv, MapTyped
<1>10. conn[c].server = "bye" => new = NoConn BY DEF new
<1>11. DuePings' BY <1>4, <1>6, <1>7 DEF IInv, DuePings, ByeIsLast
<1>12. ByeIsLast' BY <1>4, <1>6, <1>10 DEF IInv, ByeIsLast, NoConn
<1>. QED BY <1>6, <1>8, <1>9, <1>11, <1>12 DEF IInv

(* The page's end of a connection that changes.                            *)
LEMMA PageKeeps ==
  ASSUME IInv, NEW c \in Conns, NEW page \in {"pinging", "silent", "gone"},
         conn[c].page # "gone", conn' = [conn EXCEPT ![c].page = page],
         due' \subseteq due, page # "pinging" => c \notin due', UNCHANGED <<map, shown>>
  PROVE  IInv'
<1> DEFINE new == [conn[c] EXCEPT !.page = page]
<1>1. conn[c] \in ConnRecord BY DEF IInv, ConnTyped
<1>2. new \in ConnRecord BY <1>1 DEF ConnRecord
<1>3. conn' = [conn EXCEPT ![c] = new] OBVIOUS
<1>4. new.server = conn[c].server /\ new.page = page BY <1>1 DEF ConnRecord
<1> HIDE DEF new
<1>5. ConnTyped' /\ conn'[c] = new /\ \A d \in Conns \ {c} : conn'[d] = conn[d]
  BY <1>2, <1>3, OnlyOne DEF IInv
<1>6. UNCHANGED <<live, lost, life, shown>> BY DEF map
<1>7. LiveOpen' BY <1>4, <1>5, <1>6 DEF IInv, LiveOpen
<1>8. MapTyped' /\ ShownTyped' BY <1>6 DEF IInv, MapTyped, ShownTyped
<1>9. DuePings' BY <1>4, <1>5 DEF IInv, DuePings
<1>10. ByeIsLast' BY <1>4, <1>5 DEF IInv, ByeIsLast
<1>. QED BY <1>5, <1>7, <1>8, <1>9, <1>10 DEF IInv

LEMMA FailAnnounceKeeps == ASSUME IInv, NEW c \in Conns, FailAnnounce(c) PROVE IInv'
<1>1. /\ conn' = [conn EXCEPT ![c] = NoConn] /\ live' = live \ {c} /\ due' = due \ {c}
      /\ lost' = lost \cup {Owner[d] : d \in {c} \cap live} /\ UNCHANGED <<life, shown>>
  BY DEF FailAnnounce
<1>2. ConnTyped' /\ conn'[c] = NoConn /\ \A d \in Conns \ {c} : conn'[d] = conn[d]
  BY <1>1, NoConnTyped, OnlyOne DEF IInv
<1>3. LiveOpen' BY <1>1, <1>2 DEF IInv, LiveOpen
<1>4. lost' \subseteq Participants BY <1>1, OwnerTyped DEF IInv, MapTyped
<1>5. live = {} => lost' = lost /\ live' = {} BY <1>1
<1>6. MapTyped' BY <1>1, <1>4, <1>5 DEF IInv, MapTyped
<1>7. DuePings' BY <1>1, <1>2 DEF IInv, DuePings
<1>8. ByeIsLast' BY <1>2 DEF IInv, ByeIsLast, NoConn
<1>. QED BY <1>1, <1>2, <1>3, <1>6, <1>7, <1>8 DEF IInv, ShownTyped

LEMMA TickKeeps == ASSUME IInv, Tick PROVE IInv'
<1>1. /\ life > 0 /\ life' = life - 1 /\ due' = Pinging /\ UNCHANGED <<conn, shown>>
      /\ \/ live' = {} /\ lost' = {}
         \/ life' # 0 /\ UNCHANGED <<live, lost>>
  BY DEF Tick, Dropped
<1>2. MapTyped' BY <1>1, TTLTyped DEF IInv, MapTyped
<1>3. LiveOpen' BY <1>1 DEF IInv, LiveOpen
<1>4. DuePings' BY <1>1 DEF DuePings, Pinging
<1>5. ByeIsLast' /\ ConnTyped' /\ ShownTyped'
  BY <1>1 DEF IInv, ByeIsLast, ConnTyped, ShownTyped
<1>. QED BY <1>2, <1>3, <1>4, <1>5 DEF IInv

LEMMA NothingYet ==
  ASSUME conn = [c \in Conns |-> NoConn], live = {}, lost = {}, life = 0, due = {}, ShownTyped
  PROVE  IInv
<1>1. \A c \in Conns : conn[c] = NoConn OBVIOUS
<1>2. ConnTyped BY NoConnTyped DEF ConnTyped
<1>3. ByeIsLast BY <1>1 DEF ByeIsLast, NoConn
<1>. QED BY <1>2, <1>3, TTLTyped DEF IInv, LiveOpen, MapTyped, DuePings

LEMMA InitIInv == Init => IInv
  BY NothingYet, CountsFromZero DEF Init, ShownTyped

LEMMA StepIInv == IInv /\ [Next]_vars => IInv'
<1>. SUFFICES ASSUME IInv, [Next]_vars PROVE IInv' OBVIOUS
<1>0. live \in SUBSET Conns BY DEF IInv, LiveOpen
<1>1. CASE UNCHANGED vars
  BY <1>1 DEF vars, map, IInv, ConnTyped, LiveOpen, MapTyped, DuePings, ShownTyped, ByeIsLast
<1>2. ASSUME NEW c \in Conns, Register(c) \/ Touch(c) PROVE IInv'
  <2>1. Store(c, live \cup {c}, "pinging", "announce") BY <1>2 DEF Register, Touch
  <2>. QED BY <1>0, <2>1, StoreKeeps
<1>3. ASSUME NEW c \in Conns, Unregister(c) PROVE IInv'
  <2>1. Store(c, live \ {c}, "gone", "bye") BY <1>3 DEF Unregister, Without
  <2>. QED BY <1>0, <2>1, StoreKeeps
<1>4. ASSUME NEW c \in Conns, Announce(c) PROVE IInv'
  <2>1. conn[c].count \in Counts BY DEF IInv, ConnTyped, ConnRecord
  <2>2. ShownTyped' BY <1>4, <2>1 DEF Announce, ShownTyped
  <2>. QED BY <1>4, <2>2, AnnouncedKeeps DEF Announce
<1>5. ASSUME NEW c \in Conns, Miss(c) PROVE IInv'
  <2>1. ShownTyped' BY <1>5 DEF Miss, IInv, ShownTyped
  <2>. QED BY <1>5, <2>1, AnnouncedKeeps DEF Miss
<1>6. ASSUME NEW c \in Conns, FailAnnounce(c) PROVE IInv' BY <1>6, FailAnnounceKeeps
<1>7. ASSUME NEW c \in Conns, Close(c) PROVE IInv'
  <2>1. conn' = [conn EXCEPT ![c].page = "gone"] /\ due' = due \ {c} /\ UNCHANGED <<map, shown>>
        /\ conn[c].page # "gone"
    BY <1>7 DEF Close
  <2>. QED BY <2>1, PageKeeps
<1>8. ASSUME NEW c \in Conns, FallSilent(c) PROVE IInv'
  <2>1. conn' = [conn EXCEPT ![c].page = "silent"] /\ due' = due \ {c} /\ UNCHANGED <<map, shown>>
        /\ conn[c].page # "gone"
    BY <1>8 DEF FallSilent
  <2>. QED BY <2>1, PageKeeps
<1>9. ASSUME NEW c \in Conns, Wake(c) PROVE IInv'
  <2>1. conn' = [conn EXCEPT ![c].page = "pinging"] /\ due' = due /\ UNCHANGED <<map, shown>>
        /\ conn[c].page # "gone"
    BY <1>9 DEF Wake
  <2>. QED BY <2>1, PageKeeps
<1>10. CASE Restart
  <2>1. ShownTyped' BY <1>10 DEF Restart, IInv, ShownTyped
  <2>2. conn' = [c \in Conns |-> NoConn] /\ live' = {} /\ lost' = {} /\ life' = 0 /\ due' = {}
    BY <1>10 DEF Restart
  <2>3. \A c \in Conns : conn'[c] = NoConn BY <2>2
  <2>4. ConnTyped' BY <2>2, NoConnTyped DEF ConnTyped
  <2>5. ByeIsLast' BY <2>3 DEF ByeIsLast, NoConn
  <2>. QED BY <2>1, <2>2, <2>4, <2>5, TTLTyped DEF IInv, LiveOpen, MapTyped, DuePings
<1>11. CASE Tick BY <1>11, TickKeeps
<1>12. CASE LoadSeason
  <2>1. shown' \in Counts
    BY <1>0, <1>12, CountFits DEF LoadSeason, Online, IInv, MapTyped
  <2>. QED BY <1>12, <2>1
           DEF LoadSeason, map, IInv, ConnTyped, LiveOpen, MapTyped, DuePings, ShownTyped, ByeIsLast
<1>. QED BY <1>1, <1>2, <1>3, <1>4, <1>5, <1>6, <1>7, <1>8, <1>9, <1>10, <1>11, <1>12
         DEF Next, Visit, Fault, Consumer

LEMMA Inductive == Spec => []IInv
  BY InitIInv, StepIInv, PTL DEF Spec

-----------------------------------------------------------------------------
(* The variables keep their types; the map holds only consumers that have  *)
(* registered and have not been told of the end, and those that are lost;  *)
(* and no number is shown that is larger than that of the participants.    *)
THEOREM TypeCorrect == Spec => []TypeOK
<1>1. IInv => TypeOK
  BY DEF IInv, ConnTyped, ConnRecord, Counts, LiveOpen, MapTyped, DuePings, ShownTyped, Pinging,
         TypeOK
<1>. QED BY <1>1, Inductive, PTL

(* However tabs come, fail and go, one that ends takes only itself out of  *)
(* the map.                                                                *)
THEOREM TabsStaySeparate == Spec => TabsAreSeparate
<1> DEFINE Separate == \A c \in live \ live' : conn'[c].server \in {"bye", "none"} \/ live' = {}
<1>1. ASSUME IInv, [Next]_vars PROVE [Separate]_vars
  <2>. SUFFICES ASSUME NEW c \in live, c \notin live', live' # {}
                PROVE  conn'[c].server \in {"bye", "none"}
    OBVIOUS
  <2>1. ConnTyped /\ c \in Conns BY <1>1 DEF IInv, LiveOpen
  <2>2. PICK d \in Conns : Unregister(d) \/ FailAnnounce(d)
    BY <1>1 DEF Next, vars, map, Visit, Fault, Consumer, Register, Touch, Store, Announce, Miss,
                Announced, Close, FallSilent, Wake, Restart, Tick, LoadSeason
  <2>3. CASE Unregister(d)
    <3>1. /\ conn' = [conn EXCEPT ![d] = [page |-> "gone", server |-> "bye",
                                          count |-> Cardinality(Counted(live \ {d}))]]
          /\ live' = live \ {d}
      BY <2>3 DEF Unregister, Store, Without, Count
    <3>2. c = d BY <3>1
    <3>. QED BY <2>1, <3>1, <3>2 DEF ConnTyped
  <2>4. CASE FailAnnounce(d)
    <3>1. conn' = [conn EXCEPT ![d] = NoConn] /\ live' = live \ {d} BY <2>4 DEF FailAnnounce
    <3>2. c = d BY <3>1
    <3>. QED BY <2>1, <3>1, <3>2 DEF ConnTyped, NoConn
  <2>. QED BY <2>2, <2>3, <2>4
<1>. QED BY <1>1, Inductive, PTL DEF Spec, TabsAreSeparate
=============================================================================
