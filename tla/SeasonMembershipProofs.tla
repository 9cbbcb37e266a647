----------------------- MODULE SeasonMembershipProofs -----------------------
(***************************************************************************)
(* Proofs about SeasonMembership, for any browsers, accounts, seasons,     *)
(* handles and bound on the ids.  Only four steps change a participant     *)
(* (Changing), so what is said of participants is proved for these.        *)
(***************************************************************************)
EXTENDS SeasonMembership, NaturalsInduction, WellFoundedInduction, TLAPS

(* Every participant was put into a season.                                *)
Placed == \A i \in DOMAIN participant : participant[i].season \in Seasons

(* What a request has made sure of by the time it goes on.  A join that    *)
(* failed was refused by the foreign key, and then the season had been     *)
(* deleted, or by a constraint, and then the handle is there.              *)
Knows(c) ==
  LET r == request[c]
  IN  /\ Serving(c) => r.season \in Seasons /\ season[r.season] # "new"
      /\ r.pc \in {"get", "create", "again"} =>
           /\ r.row.season = r.season
           /\ r.row.guest <=> r.row.account = None
           /\ r.row.role = "player" => r.row.account = None
      /\ r.pc \in {"check", "link"} => session[c].account # None
      /\ r.pc = "again" /\ r.row.role = "player" =>
           r.season \in gone \/ Named(r.row.season, r.row.handle) # {}

GoneKnown == \A s \in Seasons : season[s] = "deleted" => s \in gone

(* The inductive invariant.                                                *)
IInv ==
  /\ TypeOK
  /\ Placed
  /\ OneParticipation
  /\ NoOrphans
  /\ SessionFits
  /\ GuestUntilClaimed
  /\ GoneKnown
  /\ \A c \in Clients : Knows(c)

(* Requests and sessions that name ids below n.                            *)
RequestRecord(n) == [pc : Pc, season : Seasons \cup {None}, who : 0 .. n - 1, row : Row]
SessionRecord(n) ==
  [bound : [Seasons -> 0 .. n - 1], active : 0 .. n - 1, account : Accounts \cup {None}]

-----------------------------------------------------------------------------
(* Lemmas on the records.                                                  *)

LEMMA NoRowTyped == NoRow \in Row
  BY DEF NoRow, Row

LEMMA PlayerTyped ==
  ASSUME NEW s \in Seasons, NEW h \in Handles
  PROVE  /\ Player(s, h) \in Row
         /\ Player(s, h).season = s /\ Player(s, h).guest /\ Player(s, h).account = None
  BY DEF Player, NoRow, Row

LEMMA EndedTyped ==
  ASSUME NEW n \in Nat \ {0}, NEW pc \in {"done", "taken", "error"}
  PROVE  Ended(pc) \in RequestRecord(n)
  BY NoRowTyped DEF Ended, RequestRecord, Pc

LEMMA NewSessionTyped == ASSUME NEW n \in Nat \ {0} PROVE NewSession \in SessionRecord(n)
  BY DEF NewSession, NoBinding, SessionRecord

LEMMA RecordsGrow ==
  ASSUME NEW n \in Nat, NEW m \in Nat, n <= m
  PROVE  RequestRecord(n) \subseteq RequestRecord(m) /\ SessionRecord(n) \subseteq SessionRecord(m)
<1>1. 0 .. n - 1 \subseteq 0 .. m - 1 OBVIOUS
<1>. QED BY <1>1 DEF RequestRecord, SessionRecord

LEMMA BoundTyped ==
  ASSUME NEW n \in Nat, NEW sess \in SessionRecord(n), NEW s \in Seasons, NEW i \in 0 .. n - 1, i # 0
  PROVE  /\ Bound(sess, s, i) \in SessionRecord(n)
         /\ Bound(sess, s, i).bound = [p \in Seasons |-> IF p = s THEN i ELSE 0]
         /\ Bound(sess, s, i).active = i
         /\ Bound(sess, s, i).account = sess.account
<1>1. 0 \in 0 .. n - 1 OBVIOUS
<1>. QED BY <1>1 DEF Bound, NoBinding, SessionRecord

(* A set of ids has a first and a last one.                                *)
LEMMA EarliestIn ==
  ASSUME NEW ids \in SUBSET Nat, ids # {}
  PROVE  Earliest(ids) \in ids
<1>1. PICK i \in ids : \A j \in ids : ~(<<j, i>> \in OpToRel(<, Nat))
  BY WFMin, NatLessThanWellFounded
<1>2. ASSUME NEW j \in ids PROVE i <= j
  <2>1. i \in Nat /\ j \in Nat OBVIOUS
  <2>2. ~(j < i) BY <1>1, <2>1 DEF OpToRel
  <2>. QED BY <2>1, <2>2
<1>. QED BY <1>2 DEF Earliest

LEMMA LatestIn ==
  ASSUME NEW n \in Nat, NEW ids \in SUBSET (0 .. n), ids # {}
  PROVE  Latest(ids) \in ids
<1>. DEFINE mirror == {n - i : i \in ids}
<1>1. mirror \in SUBSET Nat /\ mirror # {}
  <2>1. ASSUME NEW i \in ids PROVE n - i \in Nat
    <3>1. i \in 0 .. n OBVIOUS
    <3>. QED BY <3>1
  <2>. QED BY <2>1
<1>2. PICK m \in mirror : \A k \in mirror : ~(<<k, m>> \in OpToRel(<, Nat))
  BY <1>1, WFMin, NatLessThanWellFounded
<1>3. PICK i \in ids : m = n - i BY <1>2
<1>4. ASSUME NEW j \in ids PROVE j <= i
  <2>1. ~(n - j < n - i) BY <1>1, <1>2, <1>3 DEF OpToRel
  <2>. QED BY <2>1
<1>. QED BY <1>4 DEF Latest

-----------------------------------------------------------------------------
(* The steps that change a participant.                                    *)

Inserts(c) ==
  /\ request[c].pc = "create" /\ Insertable(request[c].row)
  /\ participant' = Inserted(request[c].row) /\ next' = next + 1
  /\ UNCHANGED season

Links(c) ==
  LET i   == request[c].who
      row == Linked(participant[i], session[c].account)
  IN  /\ request[c].pc = "link" /\ i \in DOMAIN participant /\ ~Conflict(i, row)
      /\ participant' = [participant EXCEPT ![i] = row]
      /\ UNCHANGED <<season, next>>

Changing ==
  \/ UNCHANGED <<participant, next>>
  \/ \E c \in Clients : Inserts(c) \/ Links(c) \/ DeleteSeason(c)
  \/ \E i \in DOMAIN participant : Promote(i)

(* Every step is one of these, and keeps a season that is there unless it  *)
(* is DeleteSeason.                                                        *)
LEMMA ShapeOfSteps ==
  ASSUME TypeOK, Next
  PROVE  /\ Changing
         /\ \/ \A s \in Seasons : Exists(s) => Exists(s)'
            \/ \E c \in Clients : DeleteSeason(c)
<1>. DEFINE Keeps == \A s \in Seasons : Exists(s) => Exists(s)'
<1>1. ASSUME NEW i \in DOMAIN participant, Promote(i)
      PROVE Changing /\ Keeps
  BY <1>1 DEF Changing, Promote, Exists
<1>2. ASSUME NEW c \in Clients, RequestStep(c)
      PROVE  Changing /\ (Keeps \/ DeleteSeason(c))
  <2>1. CASE \E s \in Seasons : \/ \E h \in Handles : JoinSeason(c, s, h)
                                \/ ClaimParticipation(c, s) \/ OpenSeason(c, s)
                                \/ \E pc \in {"edit", "archive", "delete"} : ManageSeason(c, s, pc)
    BY <2>1 DEF JoinSeason, ClaimParticipation, OpenSeason, ManageSeason, Changing, Exists
  <2>2. ASSUME NEW s \in Seasons, CreateSeason(c, s) PROVE Changing /\ Keeps
    BY <2>2, StatusesTyped DEF CreateSeason, Changing, Exists, TypeOK
  <2>3. CASE OpenIndex(c) \/ Logout(c) \/ \E a \in Accounts : Login(c, a)
    BY <2>3 DEF OpenIndex, Logout, Login, Changing, Exists
  <2>4. CASE GetParticipant(c) \/ GetAgain(c) \/ CheckClaim(c) \/ FindSource(c) \/ FailDelete(c)
    BY <2>4 DEF GetParticipant, GetAgain, CheckClaim, FindSource, FailDelete, Changing, Exists
  <2>5. CASE CreateParticipant(c)
    BY <2>5 DEF CreateParticipant, Changing, Inserts, Exists
  <2>6. CASE SaveClaim(c)
    BY <2>6 DEF SaveClaim, Changing, Links, Exists
  <2>7. CASE SaveSeason(c)
    BY <2>7, StatusesTyped DEF SaveSeason, Changing, Exists, TypeOK
  <2>8. CASE SaveArchived(c)
    BY <2>8 DEF SaveArchived, Changing, Exists, TypeOK, Stored
  <2>9. CASE DeleteSeason(c)
    BY <2>9 DEF Changing
  <2>. QED
    BY <1>2, <2>1, <2>2, <2>3, <2>4, <2>5, <2>6, <2>7, <2>8, <2>9 DEF RequestStep
<1>. QED BY <1>1, <1>2 DEF Next

(* A row that is there after a step was there before, in the same season,  *)
(* or it has a new id and the season a request has asked for.              *)
LEMMA SeasonKept ==
  ASSUME TypeOK, Changing, NEW i \in DOMAIN participant'
  PROVE  \/ i \in DOMAIN participant /\ participant'[i].season = participant[i].season
         \/ \E c \in Clients : /\ Inserts(c) /\ i = next
                               /\ participant'[i] = request[c].row
<1>1. CASE UNCHANGED <<participant, next>> BY <1>1
<1>2. ASSUME NEW c \in Clients, Inserts(c) PROVE
        \/ i \in DOMAIN participant /\ participant'[i].season = participant[i].season
        \/ i = next /\ participant'[i] = request[c].row
  BY <1>2 DEF Inserts, Inserted
<1>3. ASSUME NEW c \in Clients, Links(c)
      PROVE  i \in DOMAIN participant /\ participant'[i].season = participant[i].season
  BY <1>3 DEF Links, Linked, TypeOK, Row
<1>4. ASSUME NEW c \in Clients, DeleteSeason(c)
      PROVE  i \in DOMAIN participant /\ participant'[i] = participant[i]
  BY <1>4 DEF DeleteSeason, Restrict
<1>5. ASSUME NEW j \in DOMAIN participant, Promote(j)
      PROVE  i \in DOMAIN participant /\ participant'[i].season = participant[i].season
  BY <1>5 DEF Promote, TypeOK, Row
<1>. QED BY <1>1, <1>2, <1>3, <1>4, <1>5 DEF Changing

-----------------------------------------------------------------------------
(* Type correctness.                                                       *)

LEMMA InitIInv == Init => IInv
<1> SUFFICES ASSUME Init PROVE IInv
  OBVIOUS
<1>1. request \in [Clients -> RequestRecord(1)] /\ session \in [Clients -> SessionRecord(1)]
  BY EndedTyped, NewSessionTyped DEF Init
<1>2. TypeOK
  BY <1>1 DEF Init, TypeOK, RequestRecord, SessionRecord, Ids, Statuses
<1>3. \A c \in Clients : Knows(c)
  BY DEF Init, Ended, Knows, Serving
<1>4. SessionFits
  BY DEF Init, NewSession, NoBinding, SessionFits
<1> QED
  BY <1>2, <1>3, <1>4 DEF Init, IInv, Placed, OneParticipation, NoOrphans, GuestUntilClaimed, GoneKnown

(* An id of the session or of the account is the id of a row.              *)
LEMMA IdsTyped ==
  ASSUME TypeOK
  PROVE  /\ next \in Nat \ {0}
         /\ request \in [Clients -> RequestRecord(next)]
         /\ session \in [Clients -> SessionRecord(next)]
         /\ \A i \in DOMAIN participant : /\ i \in 0 .. next - 1 /\ i # 0 /\ i \in Nat
                                         /\ participant[i] \in Row
  BY DEF TypeOK, Ids, RequestRecord, SessionRecord

(* Requests that ask, look or answer: the session may be bound as well.    *)
LEMMA TypedWithoutRows ==
  ASSUME TypeOK, UNCHANGED <<participant, next>>, season' \in [Seasons -> Statuses],
         request' \in [Clients -> RequestRecord(next)],
         session' \in [Clients -> SessionRecord(next)],
         gone' \subseteq Seasons
  PROVE  TypeOK'
  BY DEF TypeOK, Ids, RequestRecord, SessionRecord

LEMMA BindTyped ==
  ASSUME TypeOK, NEW c \in Clients, NEW s \in Seasons, NEW i \in DOMAIN participant, Bind(c, s, i)
  PROVE  session' \in [Clients -> SessionRecord(next)]
<1>1. Bound(session[c], s, i) \in SessionRecord(next) BY IdsTyped, BoundTyped
<1>. QED BY <1>1, IdsTyped DEF Bind

LEMMA AnswerTyped ==
  ASSUME TypeOK, NEW c \in Clients, NEW pc \in {"done", "taken", "error"}, Answer(c, pc)
  PROVE  request' \in [Clients -> RequestRecord(next)]
  BY IdsTyped, EndedTyped DEF Answer

LEMMA StepTyped ==
  ASSUME TypeOK, NEW c \in Clients, NEW pc \in Pc, Step(c, pc)
  PROVE  request' \in [Clients -> RequestRecord(next)]
  BY IdsTyped DEF Step, RequestRecord

LEMMA BeginTyped ==
  ASSUME TypeOK, NEW c \in Clients, NEW pc \in Pc, NEW s \in Seasons, NEW i \in 0 .. next - 1,
         NEW row \in Row, Begin(c, pc, s, i, row)
  PROVE  request' \in [Clients -> RequestRecord(next)]
<1>1. [pc |-> pc, season |-> s, who |-> i, row |-> row] \in RequestRecord(next)
  BY DEF RequestRecord
<1>. QED BY <1>1, IdsTyped DEF Begin

LEMMA RequestTyped ==
  ASSUME IInv, NEW c \in Clients, RequestStep(c)
  PROVE  TypeOK'
<1>. USE DEF IInv
<1>. USE IdsTyped, NoRowTyped
<1>0. 0 \in 0 .. next - 1 /\ season \in [Seasons -> Statuses] /\ gone \subseteq Seasons
  BY DEF TypeOK
<1>1. ASSUME NEW s \in Seasons, NEW h \in Handles, JoinSeason(c, s, h) PROVE TypeOK'
  <2>1. request' \in [Clients -> RequestRecord(next)]
    BY <1>0, <1>1, AnswerTyped, BeginTyped, PlayerTyped DEF JoinSeason, Pc
  <2>. QED BY <1>0, <1>1, <2>1, TypedWithoutRows DEF JoinSeason
<1>2. ASSUME NEW s \in Seasons, ClaimParticipation(c, s) PROVE TypeOK'
  <2>1. request' \in [Clients -> RequestRecord(next)]
    BY <1>0, <1>2, AnswerTyped, BeginTyped DEF ClaimParticipation, InSession, Pc
  <2>. QED BY <1>0, <1>2, <2>1, TypedWithoutRows DEF ClaimParticipation
<1>3. ASSUME NEW s \in Seasons, OpenSeason(c, s) PROVE TypeOK'
  <2>. DEFINE mine == {i \in OfAccount(c) : participant[i].season = s}
  <2>1. mine \subseteq DOMAIN participant /\ mine # {} BY <1>3 DEF OpenSeason, OfAccount
  <2>2. Earliest(mine) \in DOMAIN participant BY <2>1, EarliestIn
  <2>3. Bind(c, s, Earliest(mine)) BY <1>3 DEF OpenSeason
  <2>4. session' \in [Clients -> SessionRecord(next)] BY <2>2, <2>3, BindTyped
  <2>. QED BY <1>0, <1>3, <2>4, TypedWithoutRows DEF OpenSeason
<1>4. ASSUME NEW s \in Seasons, CreateSeason(c, s) PROVE TypeOK'
  <2>1. request' \in [Clients -> RequestRecord(next)]
    BY <1>0, <1>4, AnswerTyped, BeginTyped DEF CreateSeason, Pc
  <2>2. season' \in [Seasons -> Statuses]
    BY <1>0, <1>4, StatusesTyped DEF CreateSeason, Statuses
  <2>. QED BY <1>0, <1>4, <2>1, <2>2, TypedWithoutRows DEF CreateSeason
<1>5. ASSUME NEW s \in Seasons, NEW pc \in {"edit", "archive", "delete"}, ManageSeason(c, s, pc)
      PROVE TypeOK'
  <2>1. request' \in [Clients -> RequestRecord(next)]
    BY <1>0, <1>5, AnswerTyped, BeginTyped DEF ManageSeason, Pc
  <2>. QED BY <1>0, <1>5, <2>1, TypedWithoutRows DEF ManageSeason
<1>6. CASE OpenIndex(c)
  <2>. DEFINE joined == {i \in OfAccount(c) \cup InAnySession(c) :
                           season[participant[i].season] # "archived"}
  <2>1. joined \subseteq DOMAIN participant BY DEF OfAccount, InAnySession
  <2>2. session' \in [Clients -> SessionRecord(next)]
    <3>1. CASE joined = {} BY <1>6, <3>1 DEF OpenIndex
    <3>2. CASE joined # {}
      <4>1. joined \subseteq 0 .. next - 1 BY <2>1
      <4>2. Latest(joined) \in DOMAIN participant
        BY <2>1, <3>2, <4>1, next - 1 \in Nat, LatestIn
      <4>3. Bind(c, participant[Latest(joined)].season, Latest(joined)) BY <1>6, <3>2 DEF OpenIndex
      <4>4. participant[Latest(joined)].season \in Seasons BY <4>2 DEF Placed
      <4>. QED BY <4>2, <4>3, <4>4, BindTyped
    <3>. QED BY <3>1, <3>2
  <2>. QED BY <1>0, <1>6, <2>2, TypedWithoutRows DEF OpenIndex
<1>7. CASE Logout(c)
  <2>1. session' \in [Clients -> SessionRecord(next)] BY <1>7, NewSessionTyped DEF Logout
  <2>. QED BY <1>0, <1>7, <2>1, TypedWithoutRows DEF Logout
<1>8. ASSUME NEW a \in Accounts, Login(c, a) PROVE TypeOK'
  <2>1. session' \in [Clients -> SessionRecord(next)] BY <1>8 DEF Login, SessionRecord
  <2>. QED BY <1>0, <1>8, <2>1, TypedWithoutRows DEF Login
<1>9. CASE GetParticipant(c) \/ GetAgain(c)
  <2>1. request[c].row.season \in Seasons
    BY <1>9 DEF GetParticipant, GetAgain, Knows, Serving
  <2>2. request' \in [Clients -> RequestRecord(next)]
    BY <1>9, AnswerTyped, StepTyped DEF GetParticipant, GetAgain, Pc
  <2>3. session' \in [Clients -> SessionRecord(next)]
    BY <1>9, <2>1, BindTyped DEF GetParticipant, GetAgain, Named
  <2>. QED BY <1>0, <1>9, <2>2, <2>3, TypedWithoutRows DEF GetParticipant, GetAgain
<1>10. CASE CreateParticipant(c)
  <2>1. CASE ~Insertable(request[c].row)
    <3>1. request' \in [Clients -> RequestRecord(next)]
      BY <1>10, <2>1, StepTyped DEF CreateParticipant, Pc
    <3>. QED BY <1>0, <1>10, <2>1, <3>1, TypedWithoutRows DEF CreateParticipant
  <2>2. CASE Insertable(request[c].row)
    <3>1. next' = next + 1 /\ next' \in Nat \ {0} BY <1>10, <2>2 DEF CreateParticipant
    <3>2. request[c].row.season \in Seasons /\ request[c].row \in Row
      BY <1>10 DEF CreateParticipant, Knows, Serving, RequestRecord
    <3>3. RequestRecord(next) \subseteq RequestRecord(next')
          /\ SessionRecord(next) \subseteq SessionRecord(next')
      BY <3>1, RecordsGrow
    <3>4. request' \in [Clients -> RequestRecord(next')]
      BY <1>10, <2>2, <3>1, <3>3, EndedTyped DEF CreateParticipant, Answer
    <3>5. session' \in [Clients -> SessionRecord(next')]
      <4>1. session[c] \in SessionRecord(next') /\ next \in 0 .. next' - 1 /\ next # 0
        BY <3>1, <3>3
      <4>2. Bound(session[c], request[c].row.season, next) \in SessionRecord(next')
        BY <3>1, <3>2, <4>1, BoundTyped
      <4>. QED BY <1>10, <2>2, <3>3, <4>2 DEF CreateParticipant, Bind
    <3>6. participant' = Inserted(request[c].row) BY <1>10, <2>2 DEF CreateParticipant
    <3>7. DOMAIN participant' \subseteq 1 .. next' - 1
      BY <3>1, <3>6 DEF Inserted
    <3>8. participant' \in [DOMAIN participant' -> Row]
      BY <3>2, <3>6 DEF Inserted
    <3>. QED
      BY <1>0, <1>10, <3>1, <3>4, <3>5, <3>7, <3>8
      DEF CreateParticipant, TypeOK, Ids, RequestRecord, SessionRecord
  <2>. QED BY <2>1, <2>2
<1>11. CASE CheckClaim(c)
  <2>1. request' \in [Clients -> RequestRecord(next)]
    BY <1>11, AnswerTyped, StepTyped DEF CheckClaim, Pc
  <2>. QED BY <1>0, <1>11, <2>1, TypedWithoutRows DEF CheckClaim
<1>12. CASE SaveClaim(c)
  <2>. DEFINE i   == request[c].who
              row == Linked(participant[i], session[c].account)
  <2>1. request' \in [Clients -> RequestRecord(next)]
    BY <1>12, AnswerTyped DEF SaveClaim
  <2>2. i \in DOMAIN participant => row \in Row BY DEF Linked, Row, SessionRecord
  <2>3. DOMAIN participant' = DOMAIN participant /\ participant' \in [DOMAIN participant' -> Row]
    BY <1>12, <2>2 DEF SaveClaim, TypeOK
  <2>. QED BY <1>12, <2>1, <2>3 DEF SaveClaim, TypeOK, Ids, RequestRecord
<1>13. CASE FindSource(c)
  <2>. DEFINE s       == request[c].season
              sources == {i \in HostIds : \E p \in Seasons : i = session[c].bound[p]}
  <2>1. s \in Seasons BY <1>13 DEF FindSource, Knows, Serving
  <2>2. request' \in [Clients -> RequestRecord(next)]
    <3>1. CASE sources = {} BY <1>13, <3>1, AnswerTyped DEF FindSource
    <3>2. CASE sources # {}
      <4>1. Earliest(sources) \in DOMAIN participant BY <3>2, EarliestIn DEF HostIds
      <4>2. Successor(participant[Earliest(sources)], s) \in Row
        BY <2>1, <4>1 DEF Successor, Row
      <4>3. Begin(c, "get", s, 0, Successor(participant[Earliest(sources)], s))
        BY <1>13, <3>2 DEF FindSource
      <4>. QED BY <1>0, <2>1, <4>2, <4>3, BeginTyped DEF Pc
    <3>. QED BY <3>1, <3>2
  <2>. QED BY <1>0, <1>13, <2>2, TypedWithoutRows DEF FindSource
<1>14. CASE SaveSeason(c) \/ SaveArchived(c)
  <2>1. request' \in [Clients -> RequestRecord(next)]
    BY <1>14, AnswerTyped DEF SaveSeason, SaveArchived
  <2>2. season' \in [Seasons -> Statuses]
    BY <1>0, <1>14, StatusesTyped DEF SaveSeason, SaveArchived, Statuses, Stored
  <2>. QED BY <1>0, <1>14, <2>1, <2>2, TypedWithoutRows DEF SaveSeason, SaveArchived
<1>15. CASE DeleteSeason(c)
  <2>1. request' \in [Clients -> RequestRecord(next)]
    BY <1>15, AnswerTyped DEF DeleteSeason
  <2>2. request[c].season \in Seasons BY <1>15 DEF DeleteSeason, Knows, Serving
  <2>3. DOMAIN participant' \subseteq DOMAIN participant
        /\ participant' \in [DOMAIN participant' -> Row]
    BY <1>15 DEF DeleteSeason, Restrict
  <2>. QED
    BY <1>0, <1>15, <2>1, <2>2, <2>3 DEF DeleteSeason, TypeOK, Ids, RequestRecord, Statuses
<1>16. CASE FailDelete(c)
  BY <1>0, <1>16, AnswerTyped, TypedWithoutRows DEF FailDelete
<1>. QED
  BY <1>1, <1>2, <1>3, <1>4, <1>5, <1>6, <1>7, <1>8, <1>9, <1>10, <1>11, <1>12, <1>13, <1>14, <1>15,
     <1>16
  DEF RequestStep

LEMMA StepTypeOK == ASSUME IInv, [Next]_vars PROVE TypeOK'
<1>1. CASE UNCHANGED vars BY <1>1 DEF vars, IInv, TypeOK, Ids
<1>2. ASSUME NEW i \in DOMAIN participant, Promote(i) PROVE TypeOK'
  <2>1. DOMAIN participant' = DOMAIN participant /\ participant' \in [DOMAIN participant' -> Row]
    <3>1. participant \in [DOMAIN participant -> Row] BY DEF IInv, TypeOK
    <3>2. [participant[i] EXCEPT !.role = "host"] \in Row BY <3>1 DEF Row
    <3>. QED BY <1>2, <3>1, <3>2 DEF Promote
  <2>. QED BY <1>2, <2>1 DEF Promote, IInv, TypeOK, Ids
<1>. QED BY <1>1, <1>2, RequestTyped DEF Next

-----------------------------------------------------------------------------
(* The participants.                                                       *)

(* The row a request inserts.                                              *)
LEMMA InsertedRow ==
  ASSUME IInv, NEW c \in Clients, Inserts(c)
  PROVE  LET row == request[c].row
         IN  /\ row \in Row /\ row.season \in Seasons /\ Exists(row.season)
             /\ row.guest <=> row.account = None
             /\ ~Conflict(next, row) /\ next \notin DOMAIN participant
             /\ DOMAIN participant' = DOMAIN participant \cup {next}
             /\ participant'[next] = row
             /\ \A i \in DOMAIN participant : participant'[i] = participant[i]
<1>1. request[c].row \in Row /\ next \notin DOMAIN participant
  BY IdsTyped DEF IInv, RequestRecord
<1>2. Knows(c) BY DEF IInv
<1>. QED BY <1>1, <1>2 DEF Inserts, Inserted, Insertable, Knows, Serving

(* The row a claim saves.                                                  *)
LEMMA LinkedRow ==
  ASSUME IInv, NEW c \in Clients, Links(c)
  PROVE  LET i   == request[c].who
             row == Linked(participant[i], session[c].account)
         IN  /\ i \in DOMAIN participant /\ ~Conflict(i, row)
             /\ DOMAIN participant' = DOMAIN participant
             /\ participant'[i] = row
             /\ row.season = participant[i].season /\ row.handle = participant[i].handle
             /\ row.account = session[c].account /\ row.account # None /\ ~row.guest
             /\ \A j \in DOMAIN participant : j # i => participant'[j] = participant[j]
<1>1. Knows(c) BY DEF IInv
<1>2. \A j \in DOMAIN participant : participant[j] \in Row BY IdsTyped DEF IInv
<1>. QED BY <1>1, <1>2 DEF Links, Linked, Knows, Row

(* What the other two do to a row.                                         *)
LEMMA RestOfRows ==
  ASSUME IInv,
         \/ UNCHANGED participant
         \/ \E c \in Clients : DeleteSeason(c)
         \/ \E i \in DOMAIN participant : Promote(i)
  PROVE  \A i \in DOMAIN participant' :
           /\ i \in DOMAIN participant
           /\ participant'[i].season = participant[i].season
           /\ participant'[i].handle = participant[i].handle
           /\ participant'[i].account = participant[i].account
           /\ participant'[i].guest = participant[i].guest
<1>1. ASSUME NEW c \in Clients, DeleteSeason(c)
      PROVE  \A i \in DOMAIN participant' : i \in DOMAIN participant /\ participant'[i] = participant[i]
  BY <1>1 DEF DeleteSeason, Restrict
<1>2. ASSUME NEW j \in DOMAIN participant, Promote(j), NEW i \in DOMAIN participant'
      PROVE  /\ i \in DOMAIN participant
             /\ participant'[i].season = participant[i].season
             /\ participant'[i].handle = participant[i].handle
             /\ participant'[i].account = participant[i].account
             /\ participant'[i].guest = participant[i].guest
  <2>1. participant[i] \in Row /\ i \in DOMAIN participant
    BY <1>2, IdsTyped DEF IInv, Promote
  <2>. QED BY <1>2, <2>1 DEF Promote, Row
<1>. QED BY <1>1, <1>2

LEMMA StepParticipants ==
  ASSUME IInv, Next
  PROVE  Placed' /\ OneParticipation' /\ GuestUntilClaimed'
<1>. USE DEF IInv
<1>1. Changing BY ShapeOfSteps
<1>2. ASSUME NEW c \in Clients, Inserts(c)
      PROVE  Placed' /\ OneParticipation' /\ GuestUntilClaimed'
  <2>1. Placed' BY <1>2, InsertedRow DEF Placed
  <2>2. GuestUntilClaimed' BY <1>2, InsertedRow DEF GuestUntilClaimed
  <2>3. OneParticipation'
    <3>1. \A j \in DOMAIN participant :
            ~ /\ participant[j].season = request[c].row.season
              /\ \/ participant[j].handle = request[c].row.handle
                 \/ request[c].row.account # None /\ participant[j].account = request[c].row.account
      BY <1>2, InsertedRow DEF Conflict
    <3>. QED BY <1>2, <3>1, InsertedRow DEF OneParticipation
  <2>. QED BY <2>1, <2>2, <2>3
<1>3. ASSUME NEW c \in Clients, Links(c)
      PROVE  Placed' /\ OneParticipation' /\ GuestUntilClaimed'
  <2>1. Placed' BY <1>3, LinkedRow DEF Placed
  <2>2. GuestUntilClaimed' BY <1>3, LinkedRow DEF GuestUntilClaimed
  <2>3. OneParticipation'
    <3>. DEFINE i == request[c].who
    <3>1. \A j \in DOMAIN participant \ {i} :
            ~ /\ participant[j].season = participant[i].season
              /\ participant[j].handle = participant[i].handle \/ participant[j].account = session[c].account
      BY <1>3, LinkedRow DEF Conflict
    <3>. QED BY <1>3, <3>1, LinkedRow DEF OneParticipation
  <2>. QED BY <2>1, <2>2, <2>3
<1>4. ASSUME \/ UNCHANGED participant
             \/ \E c \in Clients : DeleteSeason(c)
             \/ \E i \in DOMAIN participant : Promote(i)
      PROVE  Placed' /\ OneParticipation' /\ GuestUntilClaimed'
  <2>1. Placed' BY <1>4, RestOfRows DEF Placed
  <2>2. GuestUntilClaimed' BY <1>4, RestOfRows DEF GuestUntilClaimed
  <2>3. OneParticipation' BY <1>4, RestOfRows DEF OneParticipation
  <2>. QED BY <2>1, <2>2, <2>3
<1>. QED BY <1>1, <1>2, <1>3, <1>4 DEF Changing

(* A season goes only with its participants, and one that is gone gets no  *)
(* new ones.                                                               *)
LEMMA StepNoOrphans == ASSUME IInv, Next PROVE NoOrphans'
<1>. USE DEF IInv
<1>1. ASSUME NEW c \in Clients, DeleteSeason(c) PROVE NoOrphans'
  <2>. DEFINE s == request[c].season
  <2>1. \A i \in DOMAIN participant' :
          i \in DOMAIN participant /\ participant'[i] = participant[i] /\ participant[i].season # s
    BY <1>1 DEF DeleteSeason, Restrict
  <2>2. \A p \in Seasons : p # s => season'[p] = season[p] BY <1>1 DEF DeleteSeason, TypeOK
  <2>. QED BY <2>1, <2>2 DEF NoOrphans, Placed, Exists
<1>2. ASSUME \A s \in Seasons : Exists(s) => Exists(s)' PROVE NoOrphans'
  <2>1. ASSUME NEW i \in DOMAIN participant' PROVE participant'[i].season \in Seasons /\ season'[participant'[i].season] \in Stored
    <3>1. CASE i \in DOMAIN participant /\ participant'[i].season = participant[i].season
      BY <1>2, <3>1 DEF NoOrphans, Placed, Exists
    <3>2. ASSUME NEW c \in Clients, Inserts(c), participant'[i] = request[c].row
          PROVE  participant'[i].season \in Seasons /\ season'[participant'[i].season] \in Stored
      BY <1>2, <3>2, InsertedRow DEF Exists
    <3>. QED BY <3>1, <3>2, ShapeOfSteps, SeasonKept
  <2>. QED BY <2>1 DEF NoOrphans, Exists
<1>. QED BY <1>1, <1>2, ShapeOfSteps

-----------------------------------------------------------------------------
(* The sessions.                                                           *)

(* A step leaves a session's binding alone, empties it, or binds it to a   *)
(* participant that is there after the step.                               *)
SessionKept(d)  == session'[d].bound = session[d].bound /\ session'[d].active = session[d].active
SessionEmpty(d) == session'[d].bound = NoBinding
SessionBound(d) ==
  \E s \in Seasons, i \in DOMAIN participant' :
    /\ participant'[i].season = s
    /\ session'[d].bound = [p \in Seasons |-> IF p = s THEN i ELSE 0]
    /\ session'[d].active = i

LEMMA ShapeOfSessions ==
  ASSUME IInv, Next, NEW d \in Clients
  PROVE  SessionKept(d) \/ SessionEmpty(d) \/ SessionBound(d)
<1>. USE DEF IInv
<1>. USE IdsTyped
<1>1. ASSUME UNCHANGED session PROVE SessionKept(d) BY <1>1 DEF SessionKept
<1>2. ASSUME NEW c \in Clients, NEW s \in Seasons, NEW i \in DOMAIN participant',
             participant'[i].season = s, i \in 0 .. next, i # 0, Bind(c, s, i)
      PROVE  SessionKept(d) \/ SessionBound(d)
  <2>1. CASE d # c BY <1>2, <2>1 DEF Bind, SessionKept
  <2>2. CASE d = c
    <3>1. next + 1 \in Nat /\ i \in 0 .. (next + 1) - 1 BY <1>2
    <3>2. session[c] \in SessionRecord(next + 1) BY <3>1, RecordsGrow
    <3>3. session'[c] = Bound(session[c], s, i) BY <1>2 DEF Bind
    <3>4. /\ session'[d].bound = [p \in Seasons |-> IF p = s THEN i ELSE 0]
          /\ session'[d].active = i
      BY <1>2, <2>2, <3>1, <3>2, <3>3, BoundTyped
    <3>. QED BY <1>2, <3>4 DEF SessionBound
  <2>. QED BY <2>1, <2>2
<1>3. ASSUME NEW c \in Clients, NEW s \in Seasons, NEW i \in DOMAIN participant,
             participant[i].season = s, UNCHANGED participant, Bind(c, s, i)
      PROVE  SessionKept(d) \/ SessionBound(d)
  <2>1. i \in 0 .. next /\ i # 0 OBVIOUS
  <2>. QED BY <1>2, <1>3, <2>1
<1>4. ASSUME NEW i \in DOMAIN participant, Promote(i) PROVE SessionKept(d)
  BY <1>1, <1>4 DEF Promote
<1>5. ASSUME NEW c \in Clients, RequestStep(c)
      PROVE  SessionKept(d) \/ SessionEmpty(d) \/ SessionBound(d)
  <2>1. ASSUME NEW s \in Seasons, OpenSeason(c, s) PROVE SessionKept(d) \/ SessionBound(d)
    <3>. DEFINE mine == {i \in OfAccount(c) : participant[i].season = s}
    <3>1. mine \subseteq DOMAIN participant /\ mine # {} BY <2>1 DEF OpenSeason, OfAccount
    <3>2. mine \subseteq Nat BY <3>1
    <3>3. Earliest(mine) \in mine BY <3>1, <3>2, EarliestIn
    <3>4. Bind(c, s, Earliest(mine)) /\ UNCHANGED participant BY <2>1 DEF OpenSeason
    <3>. QED BY <1>3, <3>1, <3>3, <3>4
  <2>2. CASE OpenIndex(c)
    <3>. DEFINE joined == {i \in OfAccount(c) \cup InAnySession(c) :
                             season[participant[i].season] # "archived"}
    <3>1. joined \subseteq DOMAIN participant BY DEF OfAccount, InAnySession
    <3>2. CASE joined = {} BY <1>1, <2>2, <3>2 DEF OpenIndex
    <3>3. CASE joined # {}
      <4>1. joined \subseteq 0 .. next - 1 BY <3>1
      <4>2. Latest(joined) \in DOMAIN participant
        BY <3>1, <3>3, <4>1, next - 1 \in Nat, LatestIn
      <4>3. /\ Bind(c, participant[Latest(joined)].season, Latest(joined))
            /\ UNCHANGED participant
        BY <2>2, <3>3 DEF OpenIndex
      <4>4. participant[Latest(joined)].season \in Seasons BY <4>2 DEF Placed
      <4>. QED BY <1>3, <4>2, <4>3, <4>4
    <3>. QED BY <3>2, <3>3
  <2>3. CASE Logout(c)
    BY <2>3 DEF Logout, NewSession, SessionKept, SessionEmpty
  <2>4. ASSUME NEW a \in Accounts, Login(c, a) PROVE SessionKept(d)
    BY <2>4 DEF Login, SessionKept, SessionRecord
  <2>5. CASE GetParticipant(c) \/ GetAgain(c)
    <3>1. request[c].row.season \in Seasons
      BY <2>5 DEF GetParticipant, GetAgain, Knows, Serving
    <3>. QED BY <1>1, <1>3, <2>5, <3>1 DEF GetParticipant, GetAgain, Named
  <2>6. CASE CreateParticipant(c)
    <3>1. CASE ~Insertable(request[c].row) BY <1>1, <2>6, <3>1 DEF CreateParticipant
    <3>2. CASE Insertable(request[c].row)
      <4>1. Inserts(c) BY <2>6, <3>2 DEF CreateParticipant, Inserts
      <4>2. Bind(c, request[c].row.season, next) BY <2>6, <3>2 DEF CreateParticipant
      <4>3. /\ next \in DOMAIN participant' /\ request[c].row.season \in Seasons
            /\ participant'[next].season = request[c].row.season
        BY <4>1, InsertedRow
      <4>4. next \in 0 .. next /\ next # 0 OBVIOUS
      <4>. QED BY <1>2, <4>2, <4>3, <4>4
    <3>. QED BY <3>1, <3>2
  <2>7. CASE UNCHANGED session BY <1>1, <2>7
  <2>. QED
    BY <1>5, <2>1, <2>2, <2>3, <2>4, <2>5, <2>6, <2>7
    DEF RequestStep, JoinSeason, ClaimParticipation, CreateSeason, ManageSeason, CheckClaim,
        SaveClaim, FindSource, SaveSeason, SaveArchived, DeleteSeason, FailDelete
<1>. QED BY <1>4, <1>5 DEF Next

(* An id that a session holds is never given to another participant.       *)
LEMMA StepSessionFits == ASSUME IInv, Next PROVE SessionFits'
<1>. USE DEF IInv
<1>. USE IdsTyped
<1>1. SUFFICES ASSUME NEW c \in Clients, NEW s \in Seasons, session'[c].bound[s] # 0
      PROVE  /\ session'[c].active = session'[c].bound[s]
             /\ session'[c].bound[s] \in DOMAIN participant' =>
                  participant'[session'[c].bound[s]].season = s
             /\ \A p \in Seasons \ {s} : session'[c].bound[p] = 0
  BY DEF SessionFits
<1>2. CASE SessionKept(c)
  <2>. DEFINE i == session[c].bound[s]
  <2>1. /\ session[c].active = i /\ \A p \in Seasons \ {s} : session[c].bound[p] = 0
        /\ i \in DOMAIN participant => participant[i].season = s
    BY <1>1, <1>2 DEF SessionKept, SessionFits
  <2>2. i # next
    <3>1. i \in 0 .. next - 1 BY DEF SessionRecord
    <3>. QED BY <3>1
  <2>3. i \in DOMAIN participant' => participant'[i].season = s
    BY <2>1, <2>2, ShapeOfSteps, SeasonKept
  <2>. QED BY <1>2, <2>1, <2>3 DEF SessionKept
<1>3. CASE SessionEmpty(c) BY <1>1, <1>3 DEF SessionEmpty, NoBinding
<1>4. CASE SessionBound(c) BY <1>1, <1>4 DEF SessionBound
<1>. QED BY <1>2, <1>3, <1>4, ShapeOfSessions

-----------------------------------------------------------------------------
(* The requests.                                                           *)

(* A season is created once, its deletion is on record, and a participant  *)
(* vanishes only with its season.                                          *)
LEMMA StepSeasons ==
  ASSUME IInv, Next
  PROVE  /\ \A s \in Seasons : season[s] # "new" => season'[s] # "new"
         /\ gone \subseteq gone'
         /\ GoneKnown'
         /\ \A s, h : Named(s, h) # {} => s \in gone' \/ Named(s, h)' # {}
<1>. USE DEF IInv
<1>. DEFINE Goal == /\ \A s \in Seasons : season[s] # "new" => season'[s] # "new"
                    /\ gone \subseteq gone'
                    /\ GoneKnown'
            Rows == \A s, h : Named(s, h) # {} => s \in gone' \/ Named(s, h)' # {}
<1>1. Goal
  <2>1. CASE UNCHANGED <<season, gone>> BY <2>1 DEF GoneKnown
  <2>2. ASSUME NEW c \in Clients, NEW s \in Seasons, CreateSeason(c, s) PROVE Goal
    BY <2>2, StatusesTyped DEF CreateSeason, GoneKnown, TypeOK, Stored
  <2>3. ASSUME NEW c \in Clients, SaveSeason(c) PROVE Goal
    BY <2>3, StatusesTyped DEF SaveSeason, GoneKnown, TypeOK, Stored
  <2>4. ASSUME NEW c \in Clients, SaveArchived(c) PROVE Goal
    BY <2>4 DEF SaveArchived, GoneKnown, TypeOK
  <2>5. ASSUME NEW c \in Clients, DeleteSeason(c) PROVE Goal
    BY <2>5 DEF DeleteSeason, GoneKnown, TypeOK
  <2>6. ASSUME NEW i \in DOMAIN participant, Promote(i) PROVE Goal
    BY <2>1, <2>6 DEF Promote
  <2>. QED
    BY <2>1, <2>2, <2>3, <2>4, <2>5, <2>6
    DEF Next, RequestStep, JoinSeason, ClaimParticipation, OpenSeason, ManageSeason, OpenIndex,
        Logout, Login, GetParticipant, CreateParticipant, GetAgain, CheckClaim, SaveClaim, FindSource,
        FailDelete
<1>2. Rows
  <2>1. SUFFICES ASSUME NEW s, NEW h, NEW i \in Named(s, h) PROVE s \in gone' \/ i \in Named(s, h)'
    OBVIOUS
  <2>2. i \in DOMAIN participant /\ participant[i].season = s /\ participant[i].handle = h
    BY DEF Named
  <2>3. CASE UNCHANGED participant BY <2>2, <2>3 DEF Named
  <2>4. ASSUME NEW c \in Clients, Inserts(c) PROVE i \in Named(s, h)'
    BY <2>2, <2>4, InsertedRow DEF Named
  <2>5. ASSUME NEW c \in Clients, Links(c) PROVE i \in Named(s, h)'
    BY <2>2, <2>5, LinkedRow DEF Named
  <2>6. ASSUME NEW c \in Clients, DeleteSeason(c) PROVE s \in gone' \/ i \in Named(s, h)'
    BY <2>2, <2>6 DEF Named, DeleteSeason, Restrict
  <2>7. ASSUME NEW j \in DOMAIN participant, Promote(j) PROVE i \in Named(s, h)'
    <3>1. i \in DOMAIN participant' BY <2>2, <2>7 DEF Promote
    <3>. QED BY <2>2, <2>7, <3>1, RestOfRows DEF Named
  <2>. QED BY <2>3, <2>4, <2>5, <2>6, <2>7, ShapeOfSteps DEF Changing
<1>. QED BY <1>1, <1>2

(* What a request knows stays so while others run.                         *)
LEMMA OthersKnow ==
  ASSUME IInv, Next, NEW d \in Clients,
         request'[d] = request[d], session'[d].account = session[d].account
  PROVE  Knows(d)'
<1>1. Knows(d) BY DEF IInv
<1>. QED BY <1>1, StepSeasons DEF Knows, Serving

(* A step to pc leaves the rest of the request as it is.                   *)
LEMMA StepKnown ==
  ASSUME IInv, NEW c \in Clients, NEW pc, Step(c, pc)
  PROVE  /\ request'[c].pc = pc /\ request'[c].season = request[c].season
         /\ request'[c].row = request[c].row
  BY IdsTyped DEF IInv, Step, RequestRecord

(* A request that has been answered need not know anything.                *)
LEMMA AnswerKnown ==
  ASSUME IInv, NEW c \in Clients, NEW pc \in {"done", "taken", "error"}, Answer(c, pc)
  PROVE  Knows(c)'
<1>1. request'[c] = Ended(pc) BY IdsTyped DEF IInv, Answer
<1>2. request'[c].pc = pc BY <1>1 DEF Ended
<1>. QED BY <1>2 DEF Knows, Serving

LEMMA BeginKnown ==
  ASSUME IInv, NEW c \in Clients, NEW pc, NEW s, NEW i, NEW row, Begin(c, pc, s, i, row)
  PROVE  request'[c] = [pc |-> pc, season |-> s, who |-> i, row |-> row]
  BY IdsTyped DEF IInv, Begin

LEMMA OwnStepKnown ==
  ASSUME IInv, Next, NEW c \in Clients, RequestStep(c)
  PROVE  Knows(c)'
<1>. USE DEF IInv
<1>0. Knows(c) OBVIOUS
<1>1. ASSUME NEW s \in Seasons, NEW h \in Handles, JoinSeason(c, s, h) PROVE Knows(c)'
  <2>1. CASE Answer(c, "done") BY <2>1, AnswerKnown
  <2>2. CASE season[s] = "active" /\ Begin(c, "get", s, 0, Player(s, h))
    <3>1. request'[c] = [pc |-> "get", season |-> s, who |-> 0, row |-> Player(s, h)]
      BY <2>2, BeginKnown
    <3>. QED BY <2>2, <3>1, PlayerTyped, StepSeasons DEF Knows, Serving
  <2>. QED BY <1>1, <2>1, <2>2 DEF JoinSeason
<1>2. ASSUME NEW s \in Seasons, ClaimParticipation(c, s) PROVE Knows(c)'
  <2>1. CASE Answer(c, "done") BY <2>1, AnswerKnown
  <2>2. ASSUME NEW i, Begin(c, "check", s, i, NoRow), session[c].account # None PROVE Knows(c)'
    <3>1. request'[c] = [pc |-> "check", season |-> s, who |-> i, row |-> NoRow]
      BY <2>2, BeginKnown
    <3>2. season[s] # "new" BY <1>2 DEF ClaimParticipation, Exists, Stored
    <3>3. session' = session BY <1>2 DEF ClaimParticipation
    <3>. QED BY <2>2, <3>1, <3>2, <3>3, StepSeasons DEF Knows, Serving
  <2>. QED BY <1>2, <2>1, <2>2 DEF ClaimParticipation
<1>3. ASSUME NEW s \in Seasons, CreateSeason(c, s) PROVE Knows(c)'
  <2>1. CASE Answer(c, "done") BY <2>1, AnswerKnown
  <2>2. CASE Begin(c, "source", s, 0, NoRow)
    <3>1. request'[c] = [pc |-> "source", season |-> s, who |-> 0, row |-> NoRow]
      BY <2>2, BeginKnown
    <3>2. season'[s] # "new" BY <1>3, StatusesTyped DEF CreateSeason, TypeOK, Stored
    <3>. QED BY <3>1, <3>2 DEF Knows, Serving
  <2>. QED BY <1>3, <2>1, <2>2 DEF CreateSeason
<1>4. ASSUME NEW s \in Seasons, NEW pc \in {"edit", "archive", "delete"}, ManageSeason(c, s, pc)
      PROVE  Knows(c)'
  <2>1. CASE Answer(c, "done") BY <2>1, AnswerKnown
  <2>2. CASE Begin(c, pc, s, 0, NoRow)
    <3>1. request'[c] = [pc |-> pc, season |-> s, who |-> 0, row |-> NoRow]
      BY <2>2, BeginKnown
    <3>2. season[s] # "new" BY <1>4 DEF ManageSeason, Exists, Stored
    <3>. QED BY <3>1, <3>2, StepSeasons DEF Knows, Serving
  <2>. QED BY <1>4, <2>1, <2>2 DEF ManageSeason
<1>5. CASE OpenIndex(c) \/ Logout(c) \/ (\E a \in Accounts : Login(c, a)) \/ \E s \in Seasons : OpenSeason(c, s)
  <2>1. request' = request /\ ~Serving(c) BY <1>5 DEF OpenIndex, Logout, Login, OpenSeason
  <2>. QED BY <2>1 DEF Knows, Serving
<1>6. CASE GetParticipant(c)
  <2>1. CASE Answer(c, "done") BY <2>1, AnswerKnown
  <2>2. CASE Step(c, "create")
    BY <1>0, <1>6, <2>2, StepKnown, StepSeasons DEF GetParticipant, Knows, Serving
  <2>. QED BY <1>6, <2>1, <2>2 DEF GetParticipant
<1>7. CASE CreateParticipant(c)
  <2>. DEFINE row == request[c].row
  <2>1. CASE Insertable(row) BY <1>7, <2>1, AnswerKnown DEF CreateParticipant
  <2>2. CASE ~Insertable(row)
    <3>1. Step(c, "again") /\ UNCHANGED <<participant, gone>> BY <1>7, <2>2 DEF CreateParticipant
    <3>2. request[c].season \in Seasons /\ row.season = request[c].season
          /\ season[row.season] # "new" /\ (row.role = "player" => row.account = None)
          /\ (row.guest <=> row.account = None)
      BY <1>0, <1>7 DEF CreateParticipant, Knows, Serving
    <3>3. row.role = "player" => row.season \in gone \/ Named(row.season, row.handle) # {}
      <4>1. CASE ~Exists(row.season)
        BY <3>2, <4>1 DEF Exists, GoneKnown, TypeOK, Statuses
      <4>2. CASE Conflict(next, row)
        BY <3>2, <4>2 DEF Conflict, Named
      <4>. QED BY <2>2, <4>1, <4>2 DEF Insertable
    <3>4. request'[c].pc = "again" /\ request'[c].season = request[c].season /\ request'[c].row = row
      BY <3>1, StepKnown
    <3>. QED BY <3>1, <3>2, <3>3, <3>4, StepSeasons DEF Knows, Serving, Named
  <2>. QED BY <2>1, <2>2
<1>8. CASE GetAgain(c)
  BY <1>8, AnswerKnown DEF GetAgain
<1>9. CASE CheckClaim(c)
  <2>1. CASE Answer(c, "done") BY <2>1, AnswerKnown
  <2>2. CASE Step(c, "link")
    <3>1. session' = session BY <1>9 DEF CheckClaim
    <3>. QED BY <1>0, <1>9, <2>2, <3>1, StepKnown, StepSeasons DEF CheckClaim, Knows, Serving
  <2>. QED BY <1>9, <2>1, <2>2 DEF CheckClaim
<1>10. CASE SaveClaim(c) \/ SaveSeason(c) \/ SaveArchived(c) \/ DeleteSeason(c) \/ FailDelete(c)
  BY <1>10, AnswerKnown DEF SaveClaim, SaveSeason, SaveArchived, DeleteSeason, FailDelete
<1>11. CASE FindSource(c)
  <2>. DEFINE s       == request[c].season
              sources == {i \in HostIds : \E p \in Seasons : i = session[c].bound[p]}
              row     == Successor(participant[Earliest(sources)], s)
  <2>1. CASE Answer(c, "done") BY <2>1, AnswerKnown
  <2>2. CASE sources # {}
    <3>1. Begin(c, "get", s, 0, row) BY <1>11, <2>2 DEF FindSource
    <3>2. sources \subseteq DOMAIN participant BY DEF HostIds
    <3>3. sources \subseteq Nat BY <3>2, IdsTyped
    <3>4. Earliest(sources) \in DOMAIN participant BY <2>2, <3>2, <3>3, EarliestIn
    <3>5. participant[Earliest(sources)] \in Row BY <3>4, IdsTyped
    <3>6. row.season = s /\ row.role = "host" /\ (row.guest <=> row.account = None)
      BY <3>4, <3>5 DEF Successor, Row, GuestUntilClaimed
    <3>7. request'[c] = [pc |-> "get", season |-> s, who |-> 0, row |-> row]
      BY <3>1, BeginKnown
    <3>8. s \in Seasons /\ season[s] # "new" BY <1>0, <1>11 DEF FindSource, Knows, Serving
    <3>. QED BY <3>6, <3>7, <3>8, StepSeasons DEF Knows, Serving
  <2>. QED BY <1>11, <2>1, <2>2 DEF FindSource
<1>. QED
  BY <1>1, <1>2, <1>3, <1>4, <1>5, <1>6, <1>7, <1>8, <1>9, <1>10, <1>11 DEF RequestStep

(* A step is of one browser; the records of the others stay.               *)
LEMMA OnlyOne ==
  ASSUME IInv, NEW c \in Clients, RequestStep(c), NEW d \in Clients, d # c
  PROVE  request'[d] = request[d] /\ session'[d] = session[d]
<1>1. request \in [Clients -> RequestRecord(next)] /\ session \in [Clients -> SessionRecord(next)]
  BY IdsTyped DEF IInv
<1>2. /\ \A pc : Answer(c, pc) => request'[d] = request[d]
      /\ \A pc : Step(c, pc) => request'[d] = request[d]
      /\ \A pc, s, i, row : Begin(c, pc, s, i, row) => request'[d] = request[d]
      /\ \A s, i : Bind(c, s, i) => session'[d] = session[d]
  BY <1>1 DEF Answer, Step, Begin, Bind
<1>3. request'[d] = request[d]
  BY <1>2
  DEF RequestStep, JoinSeason, ClaimParticipation, OpenSeason, CreateSeason, ManageSeason, OpenIndex,
      Logout, Login, GetParticipant, CreateParticipant, GetAgain, CheckClaim, SaveClaim, FindSource,
      SaveSeason, SaveArchived, DeleteSeason, FailDelete
<1>4. session'[d] = session[d]
  BY <1>1, <1>2
  DEF RequestStep, JoinSeason, ClaimParticipation, OpenSeason, CreateSeason, ManageSeason, OpenIndex,
      Logout, Login, GetParticipant, CreateParticipant, GetAgain, CheckClaim, SaveClaim, FindSource,
      SaveSeason, SaveArchived, DeleteSeason, FailDelete
<1>. QED BY <1>3, <1>4

LEMMA StepKnows == ASSUME IInv, Next PROVE \A d \in Clients : Knows(d)'
<1>1. ASSUME NEW d \in Clients, NEW c \in Clients, RequestStep(c) PROVE Knows(d)'
  BY <1>1, OwnStepKnown, OnlyOne, OthersKnow
<1>2. ASSUME NEW d \in Clients, NEW i \in DOMAIN participant, Promote(i) PROVE Knows(d)'
  BY <1>2, OthersKnow DEF Promote
<1>. QED BY <1>1, <1>2 DEF Next

LEMMA Invariance == Spec => []IInv
<1>1. Init => IInv BY InitIInv
<1>2. ASSUME IInv, [Next]_vars PROVE IInv'
  <2>1. CASE Next
    BY <1>2, <2>1, StepTypeOK, StepParticipants, StepNoOrphans, StepSessionFits, StepSeasons, StepKnows
    DEF IInv
  <2>2. CASE UNCHANGED vars
    BY <1>2, <2>2, StepTypeOK
    DEF IInv, vars, Placed, OneParticipation, NoOrphans, Exists, SessionFits, GuestUntilClaimed,
        GoneKnown, Knows, Serving, Named
  <2>. QED BY <1>2, <2>1, <2>2
<1>. QED BY <1>1, <1>2, PTL DEF Spec

-----------------------------------------------------------------------------
(* The theorems.                                                           *)

(* Every variable keeps its type, and no id is used before it is handed    *)
(* out.                                                                    *)
THEOREM TypeCorrect == Spec => []TypeOK
<1>1. IInv => TypeOK BY DEF IInv
<1>. QED BY <1>1, Invariance, PTL

(* One participant per handle and per account in every season, whatever    *)
(* joins, claims and deletions overlap.                                    *)
THEOREM OneEach == Spec => []OneParticipation
<1>1. IInv => OneParticipation BY DEF IInv
<1>. QED BY <1>1, Invariance, PTL

(* No participant without a season.                                        *)
THEOREM SeasonsAreThere == Spec => []NoOrphans
<1>1. IInv => NoOrphans BY DEF IInv
<1>. QED BY <1>1, Invariance, PTL

(* A session is bound to one season, and to a participant of that season.  *)
THEOREM SessionsFit == Spec => []SessionFits
<1>1. IInv => SessionFits BY DEF IInv
<1>. QED BY <1>1, Invariance, PTL

(* A participation is a guest's exactly as long as it has no account.      *)
THEOREM GuestsHaveNoAccount == Spec => []GuestUntilClaimed
<1>1. IInv => GuestUntilClaimed BY DEF IInv
<1>. QED BY <1>1, Invariance, PTL

(* A join is told that its handle is taken only when the season has been   *)
(* deleted meanwhile.                                                      *)
THEOREM NobodyLosesAHandle == Spec => TakenOnlyIfGone
<1>. DEFINE Told(c) == request[c].pc # "taken" /\ request'[c].pc = "taken"
<1>1. ASSUME IInv, Next, NEW d \in Clients, Told(d) PROVE request[d].season \in gone
  <2>1. PICK c \in Clients : RequestStep(c)
    BY <1>1 DEF Next, Promote
  <2>2. d = c
    BY <1>1, <2>1, OnlyOne
  <2>3. /\ \A pc : Answer(c, pc) => request'[c] = Ended(pc)
        /\ \A pc : Step(c, pc) => request'[c].pc = pc
        /\ \A pc, s, i, row : Begin(c, pc, s, i, row) => request'[c].pc = pc
    BY <1>1, IdsTyped DEF IInv, Answer, Step, Begin, RequestRecord
  <2>4. \A pc : Ended(pc).pc = pc BY DEF Ended
  <2>5. GetAgain(c)
    <3>. DEFINE Silent == request'[c].pc # "taken"
    <3>0. request[c].pc # "taken" /\ ~Silent BY <1>1, <2>2
    <3>1. ASSUME NEW s \in Seasons, NEW h \in Handles, JoinSeason(c, s, h) PROVE Silent
      BY <3>1, <2>3, <2>4 DEF JoinSeason
    <3>2. ASSUME NEW s \in Seasons, ClaimParticipation(c, s) PROVE Silent
      BY <3>2, <2>3, <2>4 DEF ClaimParticipation
    <3>3. ASSUME NEW s \in Seasons, CreateSeason(c, s) PROVE Silent
      BY <3>3, <2>3, <2>4 DEF CreateSeason
    <3>4. ASSUME NEW s \in Seasons, NEW pc \in {"edit", "archive", "delete"}, ManageSeason(c, s, pc)
          PROVE  Silent
      BY <3>4, <2>3, <2>4 DEF ManageSeason
    <3>5. ASSUME UNCHANGED request PROVE Silent BY <3>0, <3>5
    <3>6. ASSUME GetParticipant(c) \/ CreateParticipant(c) PROVE Silent
      BY <3>6, <2>3, <2>4 DEF GetParticipant, CreateParticipant
    <3>7. ASSUME CheckClaim(c) \/ SaveClaim(c) PROVE Silent
      BY <3>7, <2>3, <2>4 DEF CheckClaim, SaveClaim
    <3>8. ASSUME FindSource(c) PROVE Silent BY <3>8, <2>3, <2>4 DEF FindSource
    <3>9. ASSUME SaveSeason(c) \/ SaveArchived(c) \/ DeleteSeason(c) \/ FailDelete(c)
          PROVE  Silent
      BY <3>9, <2>3, <2>4 DEF SaveSeason, SaveArchived, DeleteSeason, FailDelete
    <3>. QED
      BY <2>1, <3>0, <3>1, <3>2, <3>3, <3>4, <3>5, <3>6, <3>7, <3>8, <3>9
      DEF RequestStep, OpenSeason, OpenIndex, Logout, Login
  <2>6. /\ request[c].pc = "again" /\ request[c].row.role = "player"
        /\ Named(request[c].row.season, request[c].row.handle) = {}
    BY <1>1, <2>2, <2>3, <2>4, <2>5 DEF GetAgain
  <2>. QED BY <1>1, <2>2, <2>6 DEF IInv, Knows
<1>2. IInv /\ [Next]_vars => [\A c \in Clients : Told(c) => request[c].season \in gone]_vars
  BY <1>1
<1>. QED BY <1>2, Invariance, PTL DEF Spec, TakenOnlyIfGone
=============================================================================
