-------------------------- MODULE ModerationProofs --------------------------
(***************************************************************************)
(* Proofs about Moderation, for any number of threads, submissions,        *)
(* reports and entries.  While a report is there the log only grows, and   *)
(* an entry about it that is on its way gets there (Follows), so that what *)
(* it has told of the report it goes on telling.                           *)
(***************************************************************************)
EXTENDS Moderation, FiniteSetTheorems, SequenceTheorems, TLAPS

Busy == {t \in Threads : ~Free(t)}

Room == Len(log) + Cardinality(Busy) <= MaxLog

(* Every report on its way finds an id.                                    *)
Filers == {t \in Threads : request[t].pc = "file"}

FilingRoom == filed + Cardinality(Filers) <= MaxReports

(* Reports and submissions go with the season, and what the log tells of a *)
(* report that has gone is a resolution.                                   *)
AllFiled ==
  /\ \A i \in ReportIds : Exists(i) => season /\ i <= filed
  /\ \A s \in SubmissionIds : submission[s] # 0 => season
  /\ \A k \in DOMAIN log : log[k].report <= filed
                           /\ (log[k].old = "none" => Exists(log[k].report))

(* A submission is created with its id for its number, and what is said of *)
(* a submission keeps to that.                                             *)
NumberIsId ==
  /\ \A s \in SubmissionIds : submission[s] \in {0, s}
  /\ \A i \in ReportIds : report[i].about = report[i].target

(* What a request holds in each place.  A participant is there as long as  *)
(* the season and the reports are that it was there with.                  *)
Holds(t) ==
  LET r == request[t]
  IN  /\ r.pc = "file" => /\ r.id \in SubmissionIds /\ r.about = r.id
                          /\ r.actor = "participant" => season
      /\ r.pc \in {"resolve", "log"} =>
           /\ r.id \in 1 .. filed
           /\ r.actor = "participant" => Exists(r.id)
           /\ r.actor = "gone" => ~Exists(r.id)
      /\ r.pc = "resolve" => r.new \in {"dismissed", "actioned"} /\ r.old # "none"
      /\ r.pc = "log" => /\ r.new # "none"
                         /\ r.old = "none" => r.new = "open" /\ r.actor \in {"participant", "gone"}

(* Of a report that is there, what LogIsComplete says.                     *)
Told(i) ==
  /\ Says(i, "open") /\ Says(i, report[i].status)
  /\ \A k \in Stored(i) : \/ log[k].old = "none" /\ log[k].new = "open"
                          \/ \E l \in Stored(i) \ {k} : log[l].new = log[k].old
                          \/ \E t \in Coming(i) : request[t].new = log[k].old

(* Says, without the entry of one request.                                 *)
OthersSay(t, i, status) == (\E k \in Stored(i) : log[k].new = status)
                           \/ (\E u \in Coming(i) \ {t} : request[u].new = status)

(* The status a resolution starts from is told by others.                  *)
ToldByOthers(t) ==
  request[t].pc \in {"resolve", "log"} /\ request[t].old # "none" /\ Exists(request[t].id) =>
    OthersSay(t, request[t].id, request[t].old)

(* The inductive invariant.                                                *)
IInv ==
  /\ TypeOK
  /\ Room
  /\ FilingRoom
  /\ AllFiled
  /\ NumberIsId
  /\ \A t \in Threads : Holds(t) /\ ToldByOthers(t)
  /\ \A i \in ReportIds : Exists(i) => Told(i)

RequestRecord == [pc : {"idle", "file", "resolve", "log"},
                  actor : {"none", "participant", "staff", "gone"},
                  id : 0 .. MaxSubmissions + MaxReports, about : 0 .. MaxSubmissions,
                  old : {"none", "open", "dismissed", "actioned"},
                  new : {"none", "open", "dismissed", "actioned"}]

-----------------------------------------------------------------------------
(* Lemmas on the data.                                                     *)

LEMMA Bounds == MaxSubmissions \in Nat /\ MaxReports \in Nat /\ MaxLog \in Nat
  BY BoundsTyped

LEMMA IdleTyped == Idle \in RequestRecord
  BY Bounds DEF Idle, RequestRecord

(* A set of threads that only one thread enters or leaves.                 *)
LEMMA OneThreadMoves ==
  ASSUME NEW S, NEW T, S \subseteq Threads, T \subseteq Threads,
         NEW t \in Threads, T \subseteq S \cup {t}
  PROVE  /\ Cardinality(S) \in Nat /\ Cardinality(T) \in Nat
         /\ Cardinality(T) <= Cardinality(S) + 1
         /\ t \in S \/ t \notin T => Cardinality(T) <= Cardinality(S)
         /\ t \in S /\ t \notin T => Cardinality(T) <= Cardinality(S) - 1
<1>1. IsFiniteSet(S) /\ IsFiniteSet(T) /\ Cardinality(S) \in Nat /\ Cardinality(T) \in Nat
  BY ThreadsAreFinite, FS_Subset, FS_CardinalityType
<1>2. /\ IsFiniteSet(S \cup {t})
      /\ Cardinality(S \cup {t}) = IF t \in S THEN Cardinality(S) ELSE Cardinality(S) + 1
  BY <1>1, FS_AddElement
<1>3. Cardinality(T) <= Cardinality(S \cup {t}) BY <1>2, FS_Subset
<1>4. ASSUME t \in S \/ t \notin T PROVE Cardinality(T) <= Cardinality(S)
  <2>1. T \subseteq S BY <1>4
  <2>. QED BY <1>1, <2>1, FS_Subset
<1>5. ASSUME t \in S, t \notin T PROVE Cardinality(T) <= Cardinality(S) - 1
  <2>1. T \subseteq S \ {t} BY <1>5
  <2>2. IsFiniteSet(S \ {t}) /\ Cardinality(S \ {t}) = Cardinality(S) - 1
    BY <1>1, <1>5, FS_RemoveElement
  <2>. QED BY <2>1, <2>2, FS_Subset
<1>. QED BY <1>1, <1>2, <1>3, <1>4, <1>5

(* Only thread t may begin or end, or nobody does.                         *)
LEMMA BusyChange ==
  ASSUME TypeOK, NEW t \in Threads, NEW new \in RequestRecord,
         request' = [request EXCEPT ![t] = new]
  PROVE  /\ Cardinality(Busy) \in Nat /\ Cardinality(Busy)' \in Nat
         /\ Cardinality(Busy)' <= Cardinality(Busy) + 1
         /\ ~Free(t) => Cardinality(Busy)' <= Cardinality(Busy)
         /\ ~Free(t) /\ new = Idle => Cardinality(Busy)' <= Cardinality(Busy) - 1
         /\ Cardinality(Filers) \in Nat /\ Cardinality(Filers)' \in Nat
         /\ Cardinality(Filers)' <= Cardinality(Filers) + 1
         /\ new.pc # "file" => Cardinality(Filers)' <= Cardinality(Filers)
         /\ new.pc # "file" /\ request[t].pc = "file" =>
              Cardinality(Filers)' <= Cardinality(Filers) - 1
<1>1. request' \in [Threads -> RequestRecord] /\ request'[t] = new
      /\ \A u \in Threads \ {t} : request'[u] = request[u]
  BY DEF TypeOK, RequestRecord
<1>2. Busy \subseteq Threads /\ Busy' \subseteq Threads BY DEF Busy
<1>3. Busy' \subseteq Busy \cup {t} BY <1>1 DEF Busy, Free
<1>4. (t \in Busy <=> ~Free(t)) /\ (t \in Busy' <=> new # Idle) BY <1>1 DEF Busy, Free
<1>5. Filers \subseteq Threads /\ Filers' \subseteq Threads BY DEF Filers
<1>6. Filers' \subseteq Filers \cup {t} BY <1>1 DEF Filers
<1>7. (t \in Filers <=> request[t].pc = "file") /\ (t \in Filers' <=> new.pc = "file")
  BY <1>1 DEF Filers
<1>8. /\ Cardinality(Busy) \in Nat /\ Cardinality(Busy') \in Nat
      /\ Cardinality(Busy') <= Cardinality(Busy) + 1
      /\ t \in Busy \/ t \notin Busy' => Cardinality(Busy') <= Cardinality(Busy)
      /\ t \in Busy /\ t \notin Busy' => Cardinality(Busy') <= Cardinality(Busy) - 1
  BY <1>2, <1>3, OneThreadMoves
<1>9. /\ Cardinality(Filers) \in Nat /\ Cardinality(Filers') \in Nat
      /\ Cardinality(Filers') <= Cardinality(Filers) + 1
      /\ t \in Filers \/ t \notin Filers' => Cardinality(Filers') <= Cardinality(Filers)
      /\ t \in Filers /\ t \notin Filers' => Cardinality(Filers') <= Cardinality(Filers) - 1
  BY <1>5, <1>6, OneThreadMoves
<1>. QED BY <1>4, <1>7, <1>8, <1>9

LEMMA Sizes == Cardinality(Busy) \in Nat /\ Cardinality(Filers) \in Nat
<1>1. IsFiniteSet(Busy) /\ IsFiniteSet(Filers)
  BY ThreadsAreFinite, FS_Subset DEF Busy, Filers
<1>. QED BY <1>1, FS_CardinalityType

LEMMA EntryTyped ==
  ASSUME IInv, NEW t \in Threads, request[t].pc = "log"
  PROVE  /\ Entry(t) \in Logged
         /\ Entry(t).report = request[t].id /\ Entry(t).old = request[t].old
         /\ Entry(t).new = request[t].new
<1>1. Holds(t) /\ filed \in 0 .. MaxReports /\ request[t] \in RequestRecord
  BY DEF IInv, TypeOK, RequestRecord
<1>2. request[t].id \in ReportIds BY <1>1, Bounds DEF Holds, ReportIds
<1>. QED BY <1>1, <1>2 DEF Holds, Entry, Logged, RequestRecord

LEMMA LogGrows ==
  ASSUME TypeOK, NEW e \in Logged, log' = Append(log, e)
  PROVE  /\ log' \in Seq(Logged) /\ Len(log') = Len(log) + 1 /\ Len(log) \in Nat
         /\ DOMAIN log = 1 .. Len(log) /\ DOMAIN log' = 1 .. Len(log) + 1
         /\ \A k \in DOMAIN log : log'[k] = log[k]
         /\ log'[Len(log) + 1] = e
  BY AppendProperties, LenProperties DEF TypeOK

-----------------------------------------------------------------------------
(* What the log tells, it goes on telling.                                 *)

Follows ==
  /\ \A k \in DOMAIN log : k \in DOMAIN log' /\ log'[k] = log[k]
  /\ \A u \in Threads : request[u].pc = "log" /\ Exists(request[u].id) =>
       \/ request'[u] = request[u]
       \/ \E k \in DOMAIN log' \ DOMAIN log : /\ log'[k].report = request[u].id
                                              /\ log'[k].new = request[u].new

LEMMA SaysStays ==
  ASSUME Follows, NEW i \in ReportIds, Exists(i), NEW status, Says(i, status)
  PROVE  Says(i, status)'
  BY DEF Follows, Says, Stored, Coming

LEMMA OldEntryStays ==
  ASSUME Follows, NEW i \in ReportIds, Exists(i), NEW k \in Stored(i), Told(i)
  PROVE  /\ k \in Stored(i)' /\ log'[k] = log[k]
         /\ \/ log'[k].old = "none" /\ log'[k].new = "open"
            \/ \E l \in Stored(i)' \ {k} : log'[l].new = log'[k].old
            \/ \E t \in Coming(i)' : request'[t].new = log'[k].old
<1>1. k \in DOMAIN log /\ k \in Stored(i)' /\ log'[k] = log[k] BY DEF Follows, Stored
<1>2. CASE \E l \in Stored(i) \ {k} : log[l].new = log[k].old
  BY <1>1, <1>2 DEF Follows, Stored
<1>3. CASE \E t \in Coming(i) : request[t].new = log[k].old
  BY <1>1, <1>3 DEF Follows, Stored, Coming
<1>. QED BY <1>1, <1>2, <1>3 DEF Told

LEMMA OthersStay ==
  ASSUME Follows, NEW t \in Threads, NEW i \in ReportIds, Exists(i), NEW status,
         OthersSay(t, i, status)
  PROVE  OthersSay(t, i, status)'
  BY DEF Follows, OthersSay, Stored, Coming

-----------------------------------------------------------------------------
(* The steps, as what they make of the request.                            *)

(* The request that ReadSubmission, CreateReport, ReadReport and SaveReport*)
(* make of the one before, and the deletion of the season of all of them.  *)
Filing(s) == [pc |-> "file", actor |-> "participant", id |-> s, about |-> submission[s],
              old |-> "none", new |-> "none"]
Filed     == [pc |-> "log", actor |-> "participant", id |-> filed + 1, about |-> 0,
              old |-> "none", new |-> "open"]
Resolving(i, n, a) == [pc |-> "resolve", actor |-> a, id |-> i, about |-> 0,
                       old |-> report[i].status, new |-> n]
Resolved(r) == [pc |-> "log", actor |-> r.actor, id |-> r.id, about |-> r.about,
                old |-> r.old, new |-> r.new]

Becomes(t, new) == new \in RequestRecord /\ request' = [request EXCEPT ![t] = new]

LEMMA RequestChange ==
  ASSUME TypeOK, NEW t \in Threads, NEW new, Becomes(t, new)
  PROVE  /\ request' \in [Threads -> RequestRecord] /\ request'[t] = new
         /\ \A u \in Threads \ {t} : request'[u] = request[u]
  BY DEF Becomes, TypeOK, RequestRecord

LEMMA AnsweredBecomes ==
  ASSUME TypeOK, NEW t \in Threads, Answered(t) PROVE Becomes(t, Idle)
  BY IdleTyped DEF Answered, Becomes

LEMMA ReadSubmissionBecomes ==
  ASSUME IInv, NEW t \in Threads, NEW s \in SubmissionIds, ReadSubmission(t, s)
  PROVE  Becomes(t, Filing(s)) /\ submission[s] = s
<1>1. s \in Nat /\ s \in 1 .. MaxSubmissions /\ submission[s] = s
  BY DEF ReadSubmission, IInv, NumberIsId, SubmissionIds
<1>2. Filing(s) \in RequestRecord BY <1>1, Bounds DEF Filing, RequestRecord
<1>3. request' = [request EXCEPT ![t] = [Idle EXCEPT !.pc = "file", !.actor = "participant",
                                                    !.id = s, !.about = submission[s]]]
  BY DEF ReadSubmission
<1>4. request'[t] = [Idle EXCEPT !.pc = "file", !.actor = "participant",
                                 !.id = s, !.about = submission[s]]
  BY <1>3 DEF IInv, TypeOK
<1>5. request'[t] = Filing(s) BY <1>4 DEF Idle, Filing
<1>6. request' = [request EXCEPT ![t] = Filing(s)] BY <1>3, <1>4, <1>5
<1>. QED BY <1>1, <1>2, <1>6 DEF Becomes

LEMMA CreateReportBecomes ==
  ASSUME IInv, NEW t \in Threads, CreateReport(t), request[t].actor = "participant"
  PROVE  /\ Becomes(t, Filed) /\ filed + 1 \in ReportIds /\ filed \in Nat
         /\ filed' = filed + 1
         /\ report' = [report EXCEPT ![filed + 1] =
              [target |-> request[t].id, about |-> request[t].id, status |-> "open"]]
         /\ [target |-> request[t].id, about |-> request[t].id, status |-> "open"] \in Row
<1>0. filed < MaxReports
  <2>1. t \in Filers /\ Filers \subseteq Threads /\ {} \subseteq Threads
    BY DEF CreateReport, Filers
  <2>2. Cardinality({}) \in Nat /\ Cardinality({}) <= Cardinality(Filers) - 1
    BY <2>1, OneThreadMoves
  <2>. QED BY <2>2, Sizes, Bounds DEF IInv, FilingRoom, TypeOK
<1>1. filed \in Nat /\ filed < MaxReports /\ filed' = filed + 1 /\ filed + 1 \in ReportIds
  BY <1>0, Bounds DEF CreateReport, IInv, TypeOK, ReportIds
<1>2. Filed \in RequestRecord BY <1>1, Bounds DEF Filed, RequestRecord, ReportIds
<1>3. request' = [request EXCEPT ![t] = Filed] BY <1>1 DEF CreateReport, Idle, Filed
<1>4. request[t].id \in SubmissionIds /\ request[t].about = request[t].id
  BY DEF CreateReport, IInv, Holds
<1>5. [target |-> request[t].id, about |-> request[t].id, status |-> "open"] \in Row
  BY <1>4 DEF Row, SubmissionIds
<1>. QED BY <1>1, <1>2, <1>3, <1>4, <1>5 DEF Becomes, CreateReport

LEMMA RowTyped ==
  ASSUME IInv, NEW i \in ReportIds, Exists(i)
  PROVE  report[i] \in Row /\ report[i].status \in {"open", "dismissed", "actioned"}
  BY DEF IInv, TypeOK, Exists, Row

LEMMA ReadReportBecomes ==
  ASSUME IInv, NEW t \in Threads, NEW i \in ReportIds, ReadReport(t, i)
  PROVE  \E n \in {"dismissed", "actioned"}, a \in {"participant", "staff"} :
           Becomes(t, Resolving(i, n, a))
<1>1. report[i].status \in {"open", "dismissed", "actioned"} BY RowTyped DEF ReadReport
<1>2. PICK n \in {"dismissed", "actioned"}, a \in {"participant", "staff"} :
        request' = [request EXCEPT ![t] = Resolving(i, n, a)]
  BY DEF ReadReport, Idle, Resolving
<1>3. Resolving(i, n, a) \in RequestRecord BY <1>1, Bounds DEF Resolving, RequestRecord, ReportIds
<1>. QED BY <1>2, <1>3 DEF Becomes

LEMMA SaveReportBecomes ==
  ASSUME IInv, NEW t \in Threads, SaveReport(t), Exists(request[t].id)
  PROVE  /\ Becomes(t, Resolved(request[t])) /\ request[t].id \in ReportIds
         /\ report' = [report EXCEPT ![request[t].id].status = request[t].new]
         /\ request[t].new \in {"dismissed", "actioned"}
<1>1. request[t] \in RequestRecord /\ filed \in 0 .. MaxReports BY DEF IInv, TypeOK, RequestRecord
<1>2. request[t].id \in ReportIds /\ request[t].new \in {"dismissed", "actioned"}
  BY <1>1, Bounds DEF SaveReport, IInv, Holds, ReportIds
<1>3. Resolved(request[t]) \in RequestRecord BY <1>1 DEF Resolved, RequestRecord
<1>4. [request[t] EXCEPT !.pc = "log"] = Resolved(request[t])
  BY <1>1 DEF Resolved, RequestRecord
<1>5. request' = [request EXCEPT ![t] = Resolved(request[t])] BY <1>4 DEF SaveReport
<1>. QED BY <1>2, <1>3, <1>5 DEF Becomes, SaveReport

(* The entry of a request is written, and always is when its report is     *)
(* there.                                                                  *)
Counts(t) == season /\ request[t].actor # "gone"

LEMMA ReportCounts ==
  ASSUME IInv, NEW t \in Threads, request[t].pc = "log", Exists(request[t].id)
  PROVE  Counts(t)
<1>1. Holds(t) /\ filed \in 0 .. MaxReports BY DEF IInv, TypeOK
<1>2. request[t].id \in ReportIds BY <1>1, Bounds DEF Holds, ReportIds
<1>. QED BY <1>1, <1>2 DEF Counts, Holds, IInv, AllFiled

LEMMA LogReportBecomes ==
  ASSUME IInv, NEW t \in Threads, LogReport(t)
  PROVE  /\ Becomes(t, Idle)
         /\ Counts(t) => /\ log' \in Seq(Logged) /\ Len(log') = Len(log) + 1 /\ Len(log) \in Nat
                         /\ DOMAIN log = 1 .. Len(log) /\ DOMAIN log' = 1 .. Len(log) + 1
                         /\ \A k \in DOMAIN log : log'[k] = log[k]
                         /\ log'[Len(log) + 1] = Entry(t)
         /\ ~Counts(t) => log' = log
<1>1. Becomes(t, Idle) BY AnsweredBecomes DEF LogReport, IInv
<1>2. TypeOK BY DEF IInv
<1>3. Entry(t) \in Logged BY EntryTyped DEF LogReport
<1>4. ASSUME Counts(t) PROVE log' = Append(log, Entry(t)) BY <1>4 DEF LogReport, Counts
<1>5. ASSUME ~Counts(t) PROVE log' = log BY <1>5 DEF LogReport, Counts
<1>. QED BY <1>1, <1>2, <1>3, <1>4, <1>5, LogGrows

(* The deletion leaves every request where it is, but for its participant. *)
LEMMA DeletionChange ==
  ASSUME TypeOK, DeleteSeason, NEW t \in Threads
  PROVE  /\ request' \in [Threads -> RequestRecord]
         /\ request'[t].pc = request[t].pc /\ request'[t].id = request[t].id
         /\ request'[t].about = request[t].about /\ request'[t].old = request[t].old
         /\ request'[t].new = request[t].new /\ request'[t].actor # "participant"
         /\ Free(t)' <=> Free(t)
         /\ request'[t].actor \in {request[t].actor, "gone"}
         /\ request[t].actor = "participant" => request'[t].actor = "gone"
<1>1. request \in [Threads -> RequestRecord] BY DEF TypeOK, RequestRecord
<1>2. request' = [u \in Threads |-> IF request[u].actor = "participant"
                                    THEN [request[u] EXCEPT !.actor = "gone"] ELSE request[u]]
  BY DEF DeleteSeason
<1>3. ASSUME NEW u \in Threads
      PROVE  [request[u] EXCEPT !.actor = "gone"] \in RequestRecord
  BY <1>1 DEF RequestRecord
<1>4. request' \in [Threads -> RequestRecord] BY <1>1, <1>2, <1>3
<1>5. CASE request[t].actor = "participant"
  <2>1. request'[t] = [request[t] EXCEPT !.actor = "gone"] BY <1>2, <1>5
  <2>2. ~Free(t) /\ ~Free(t)' BY <1>1, <1>5, <2>1 DEF Free, Idle, RequestRecord
  <2>. QED BY <1>1, <1>4, <1>5, <2>1, <2>2 DEF RequestRecord
<1>6. CASE request[t].actor # "participant"
  <2>1. request'[t] = request[t] BY <1>2, <1>6
  <2>. QED BY <1>4, <1>6, <2>1 DEF Free, Idle
<1>. QED BY <1>5, <1>6

-----------------------------------------------------------------------------
(* Types and room.                                                         *)

LEMMA StepTypeOK == ASSUME IInv, [Next]_vars PROVE TypeOK' /\ Room' /\ FilingRoom'
<1>. DEFINE Safe == TypeOK' /\ Room' /\ FilingRoom'
<1>1. /\ TypeOK /\ Room /\ FilingRoom /\ Len(log) \in Nat /\ MaxLog \in Nat
      /\ Cardinality(Busy) \in Nat /\ request \in [Threads -> RequestRecord]
      /\ Cardinality(Filers) \in Nat /\ filed \in Nat /\ MaxReports \in Nat
  BY Bounds, Sizes, LenProperties DEF IInv, TypeOK, RequestRecord
<1>2. ASSUME request' \in [Threads -> RequestRecord], UNCHANGED log, Cardinality(Busy)' \in Nat,
             \/ Cardinality(Busy)' <= Cardinality(Busy)
             \/ Len(log) + Cardinality(Busy) < MaxLog /\ Cardinality(Busy)' <= Cardinality(Busy) + 1,
             Cardinality(Filers)' \in Nat,
             \/ filed' = filed /\ Cardinality(Filers)' <= Cardinality(Filers)
             \/ /\ filed' = filed /\ filed + Cardinality(Filers) < MaxReports
                /\ Cardinality(Filers)' <= Cardinality(Filers) + 1
             \/ filed' = filed + 1 /\ Cardinality(Filers)' <= Cardinality(Filers) - 1,
             season' \in BOOLEAN, submission' \in [SubmissionIds -> 0 .. MaxSubmissions],
             created' \in 0 .. MaxSubmissions, report' \in [ReportIds -> Row \cup {NoReport}]
      PROVE  Safe
  <2>1. Room' BY <1>1, <1>2 DEF Room
  <2>2. FilingRoom' /\ filed' \in Nat /\ filed' <= MaxReports BY <1>1, <1>2 DEF FilingRoom
  <2>3. filed' \in 0 .. MaxReports BY <1>1, <2>2
  <2>. QED BY <1>1, <1>2, <2>1, <2>2, <2>3 DEF TypeOK, RequestRecord
<1>3. ASSUME UNCHANGED request PROVE UNCHANGED <<Busy, Filers>> BY <1>3 DEF Busy, Free, Filers
<1>4. ASSUME NEW t \in Threads, NEW new, Becomes(t, new), UNCHANGED log, ~Free(t) \/ LogHasRoom
      PROVE  /\ request' \in [Threads -> RequestRecord] /\ Cardinality(Busy)' \in Nat
             /\ \/ Cardinality(Busy)' <= Cardinality(Busy)
                \/ Len(log) + Cardinality(Busy) < MaxLog
                    /\ Cardinality(Busy)' <= Cardinality(Busy) + 1
             /\ Cardinality(Filers)' \in Nat
             /\ Cardinality(Filers)' <= Cardinality(Filers) + 1
             /\ new.pc # "file" => Cardinality(Filers)' <= Cardinality(Filers)
             /\ new.pc # "file" /\ request[t].pc = "file" =>
                  Cardinality(Filers)' <= Cardinality(Filers) - 1
  BY <1>1, <1>4, RequestChange, BusyChange DEF Becomes, LogHasRoom, Busy
<1>5. CASE UNCHANGED vars BY <1>1, <1>2, <1>3, <1>5 DEF vars, TypeOK
<1>6. CASE CreateSubmission
  BY <1>1, <1>2, <1>3, <1>6, Bounds DEF CreateSubmission, NewId, TypeOK, SubmissionIds
<1>7. ASSUME NEW s \in SubmissionIds, RemoveSubmission(s) PROVE Safe
  BY <1>1, <1>2, <1>3, <1>7, Bounds DEF RemoveSubmission, TypeOK
<1>8. CASE DeleteSeason
  <2>1. log' \in Seq(Logged) /\ Len(log') = 0 BY <1>8, EmptySeq DEF DeleteSeason
  <2>2. \A t \in Threads : (Free(t)' <=> Free(t)) /\ request'[t].pc = request[t].pc
    BY <1>1, <1>8, DeletionChange
  <2>3. Busy' = Busy /\ Filers' = Filers BY <2>2 DEF Busy, Filers
  <2>4. UNCHANGED <<created, filed>> BY <1>8 DEF DeleteSeason
  <2>5. Room' /\ FilingRoom' BY <1>1, <2>1, <2>3, <2>4 DEF Room, FilingRoom
  <2>6. submission' \in [SubmissionIds -> 0 .. MaxSubmissions]
    BY <1>8, Bounds DEF DeleteSeason
  <2>7. report' \in [ReportIds -> Row \cup {NoReport}] BY <1>8 DEF DeleteSeason
  <2>8. season' \in BOOLEAN BY <1>8 DEF DeleteSeason
  <2>9. request' \in [Threads -> RequestRecord]
    <3>1. DOMAIN request' = Threads /\ \A t \in Threads : request'[t] \in RequestRecord
      <4>1. DOMAIN request' = Threads BY <1>8 DEF DeleteSeason
      <4>2. ASSUME NEW t \in Threads PROVE request'[t] \in RequestRecord
        BY <1>1, <1>8, DeletionChange
      <4>. QED BY <4>1, <4>2
    <3>. QED BY <1>8, <3>1 DEF DeleteSeason
  <2>. QED BY <1>1, <2>1, <2>4, <2>5, <2>6, <2>7, <2>8, <2>9 DEF TypeOK, RequestRecord
<1>9. CASE EditSeason
  <2>1. season' \in BOOLEAN /\ UNCHANGED <<submission, created, report, filed, log, request>>
    BY <1>9 DEF EditSeason
  <2>. QED BY <1>1, <1>2, <1>3, <2>1 DEF TypeOK
<1>10. ASSUME NEW t \in Threads, Serve(t) PROVE Safe
  <2>1. ASSUME NEW s \in SubmissionIds, ReadSubmission(t, s) PROVE Safe
    <3>1. Becomes(t, Filing(s)) BY <2>1, ReadSubmissionBecomes
    <3>2. filed + Cardinality(Filers) < MaxReports
      BY <2>1 DEF ReadSubmission, ReportsHaveRoom, Filers
    <3>. QED BY <1>1, <1>2, <1>4, <2>1, <3>1, <3>2 DEF ReadSubmission, TypeOK
  <2>2. ASSUME NEW i \in ReportIds, ReadReport(t, i) PROVE Safe
    <3>1. PICK n \in {"dismissed", "actioned"}, a \in {"participant", "staff"} :
            Becomes(t, Resolving(i, n, a))
      BY <2>2, ReadReportBecomes
    <3>2. Resolving(i, n, a).pc # "file" BY DEF Resolving
    <3>. QED BY <1>1, <1>2, <1>4, <2>2, <3>1, <3>2 DEF ReadReport, TypeOK
  <2>3. CASE CreateReport(t)
    <3>1. ~Free(t) /\ request[t].pc = "file" /\ Idle.pc # "file" /\ Filed.pc # "file"
      BY <2>3 DEF CreateReport, Free, Idle, Filed
    <3>2. CASE request[t].actor # "participant"
      <4>1. Becomes(t, Idle) BY <1>1, <2>3, <3>2, AnsweredBecomes DEF CreateReport
      <4>. QED BY <1>1, <1>2, <1>4, <2>3, <3>1, <3>2, <4>1 DEF CreateReport, TypeOK
    <3>3. CASE request[t].actor = "participant"
      <4>1. Becomes(t, Filed) /\ filed' = filed + 1 BY <2>3, <3>3, CreateReportBecomes
      <4>2. PICK row \in Row : report' = [report EXCEPT ![filed + 1] = row]
        BY <2>3, <3>3, CreateReportBecomes
      <4>3. report' \in [ReportIds -> Row \cup {NoReport}] BY <1>1, <4>2 DEF TypeOK
      <4>. QED BY <1>1, <1>2, <1>4, <2>3, <3>1, <4>1, <4>3 DEF CreateReport, TypeOK
    <3>. QED BY <3>2, <3>3
  <2>4. CASE SaveReport(t)
    <3>1. ~Free(t) /\ Idle.pc # "file" /\ Resolved(request[t]).pc # "file"
      BY <2>4 DEF SaveReport, Free, Idle, Resolved
    <3>2. CASE ~Exists(request[t].id)
      <4>1. Becomes(t, Idle) BY <1>1, <2>4, <3>2, AnsweredBecomes DEF SaveReport
      <4>. QED BY <1>1, <1>2, <1>4, <2>4, <3>1, <3>2, <4>1 DEF SaveReport, TypeOK
    <3>3. CASE Exists(request[t].id)
      <4>1. /\ Becomes(t, Resolved(request[t])) /\ request[t].id \in ReportIds
            /\ report' = [report EXCEPT ![request[t].id].status = request[t].new]
            /\ request[t].new \in {"dismissed", "actioned"}
        BY <2>4, <3>3, SaveReportBecomes
      <4>2. report[request[t].id] \in Row BY <3>3, <4>1, RowTyped
      <4>3. report' \in [ReportIds -> Row \cup {NoReport}]
        BY <1>1, <4>1, <4>2 DEF TypeOK, Row
      <4>. QED BY <1>1, <1>2, <1>4, <2>4, <3>1, <4>1, <4>3 DEF SaveReport, TypeOK
    <3>. QED BY <3>2, <3>3
  <2>5. CASE LogReport(t)
    <3>1. ~Free(t) /\ Idle.pc # "file" BY <2>5 DEF LogReport, Free, Idle
    <3>2. Becomes(t, Idle) /\ request' \in [Threads -> RequestRecord]
      BY <1>1, <2>5, LogReportBecomes, RequestChange
    <3>3. /\ Cardinality(Busy)' <= Cardinality(Busy) - 1 /\ Cardinality(Busy)' \in Nat
          /\ Cardinality(Filers)' <= Cardinality(Filers) /\ Cardinality(Filers)' \in Nat
      BY <1>1, <3>1, <3>2, BusyChange DEF Becomes
    <3>4. log' \in Seq(Logged) /\ Len(log') \in {Len(log), Len(log) + 1}
      BY <1>1, <2>5, LogReportBecomes DEF TypeOK
    <3>5. Room' /\ Len(log') <= MaxLog BY <1>1, <3>3, <3>4 DEF Room
    <3>6. FilingRoom' BY <1>1, <2>5, <3>3 DEF LogReport, FilingRoom
    <3>. QED BY <1>1, <2>5, <3>2, <3>4, <3>5, <3>6 DEF LogReport, TypeOK, RequestRecord
  <2>. QED BY <1>10, <2>1, <2>2, <2>3, <2>4, <2>5 DEF Serve
<1>. QED BY <1>5, <1>6, <1>7, <1>8, <1>9, <1>10 DEF Next, Environment

-----------------------------------------------------------------------------
(* Which reports there are, and which submissions they name.               *)

LEMMA StepAllFiled == ASSUME IInv, [Next]_vars PROVE AllFiled'
<1>1. /\ AllFiled /\ filed \in 0 .. MaxReports /\ MaxReports \in Nat
      /\ report \in [ReportIds -> Row \cup {NoReport}] /\ TypeOK
      /\ \A k \in DOMAIN log : log[k].report \in ReportIds
  <2>1. \A k \in DOMAIN log : log[k] \in Logged
    BY ElementOfSeq, LenProperties DEF IInv, TypeOK
  <2>. QED BY <2>1, Bounds DEF IInv, TypeOK, Logged
<1>2. ASSUME UNCHANGED <<season, submission, filed>>, \A i \in ReportIds : Exists(i)' <=> Exists(i),
             \A k \in DOMAIN log' :
               \/ k \in DOMAIN log /\ log'[k] = log[k]
               \/ /\ log'[k].report \in ReportIds /\ log'[k].report <= filed
                  /\ log'[k].old = "none" => Exists(log'[k].report)
      PROVE  AllFiled'
  <2>1. ASSUME NEW k \in DOMAIN log'
        PROVE  log'[k].report <= filed /\ (log'[k].old = "none" => report'[log'[k].report] # NoReport)
    BY <1>1, <1>2 DEF AllFiled, Exists
  <2>2. \A i \in ReportIds : report'[i] # NoReport => season' /\ i <= filed'
    BY <1>1, <1>2 DEF AllFiled, Exists
  <2>3. \A s \in SubmissionIds : submission'[s] # 0 => season' BY <1>1, <1>2 DEF AllFiled
  <2>. QED BY <1>2, <2>1, <2>2, <2>3 DEF AllFiled, Exists
<1>3. ASSUME UNCHANGED <<season, submission, filed, report, log>> PROVE AllFiled'
  BY <1>1, <1>3 DEF AllFiled, Exists
<1>4. CASE UNCHANGED vars BY <1>3, <1>4 DEF vars
<1>5. CASE CreateSubmission
  BY <1>1, <1>5 DEF CreateSubmission, AllFiled, Exists
<1>6. ASSUME NEW s \in SubmissionIds, RemoveSubmission(s) PROVE AllFiled'
  <2>1. \A o \in SubmissionIds : submission'[o] # 0 => submission[o] # 0
    BY <1>1, <1>6 DEF RemoveSubmission, TypeOK
  <2>. QED BY <1>1, <1>6, <2>1 DEF RemoveSubmission, AllFiled, Exists
<1>7. CASE DeleteSeason
  <2>1. \A i \in ReportIds : ~Exists(i)' BY <1>7 DEF DeleteSeason, Exists
  <2>2. DOMAIN log' = {} BY <1>7 DEF DeleteSeason
  <2>3. \A s \in SubmissionIds : submission'[s] = 0 BY <1>7 DEF DeleteSeason
  <2>. QED BY <2>1, <2>2, <2>3 DEF AllFiled
<1>8. CASE EditSeason BY <1>1, <1>8 DEF EditSeason, AllFiled, Exists
<1>9. ASSUME NEW t \in Threads, Serve(t) PROVE AllFiled'
  <2>1. ASSUME NEW s \in SubmissionIds, ReadSubmission(t, s) PROVE AllFiled'
    BY <1>3, <2>1 DEF ReadSubmission
  <2>2. ASSUME NEW i \in ReportIds, ReadReport(t, i) PROVE AllFiled'
    BY <1>3, <2>2 DEF ReadReport
  <2>3. CASE CreateReport(t)
    <3>1. CASE request[t].actor # "participant" BY <1>3, <2>3, <3>1 DEF CreateReport
    <3>2. CASE request[t].actor = "participant"
      <4>1. PICK row \in Row : report' = [report EXCEPT ![filed + 1] = row]
        BY <2>3, <3>2, CreateReportBecomes
      <4>2. filed + 1 \in ReportIds /\ filed \in Nat /\ filed' = filed + 1
        BY <2>3, <3>2, CreateReportBecomes
      <4>3. UNCHANGED <<season, submission, log>> /\ season
        BY <2>3, <3>2 DEF CreateReport, IInv, Holds
      <4>4. row # NoReport BY DEF Row, NoReport, SubmissionIds
      <4>5. ASSUME NEW i \in ReportIds, Exists(i)' PROVE season' /\ i <= filed'
        <5>1. CASE i = filed + 1 BY <4>2, <4>3, <5>1
        <5>2. CASE i # filed + 1
          <6>1. Exists(i) BY <1>1, <4>1, <4>5, <5>2 DEF Exists
          <6>. QED BY <1>1, <4>2, <4>3, <6>1 DEF AllFiled, ReportIds
        <5>. QED BY <5>1, <5>2
      <4>6. ASSUME NEW k \in DOMAIN log'
            PROVE  /\ log'[k].report <= filed'
                   /\ log'[k].old = "none" => report'[log'[k].report] # NoReport
        <5>1. log'[k] = log[k] /\ k \in DOMAIN log /\ log[k].report \in ReportIds
              /\ log[k].report <= filed
          BY <1>1, <4>3 DEF AllFiled
        <5>2. log[k].old = "none" => report[log[k].report] # NoReport
          BY <1>1, <5>1 DEF AllFiled, Exists
        <5>3. log[k].report # filed + 1 BY <4>2, <5>1 DEF ReportIds
        <5>4. report'[log[k].report] = report[log[k].report]
          BY <1>1, <4>1, <5>1, <5>3
        <5>5. log[k].report <= filed' BY <1>1, <4>2, <5>1 DEF ReportIds
        <5>. QED BY <5>1, <5>2, <5>4, <5>5
      <4>7. \A s \in SubmissionIds : submission'[s] # 0 => season' BY <4>3
      <4>. QED BY <4>5, <4>6, <4>7 DEF AllFiled, Exists
    <3>. QED BY <3>1, <3>2
  <2>4. CASE SaveReport(t)
    <3>1. CASE ~Exists(request[t].id) BY <1>3, <2>4, <3>1 DEF SaveReport
    <3>2. CASE Exists(request[t].id)
      <4>1. /\ request[t].id \in ReportIds
            /\ report' = [report EXCEPT ![request[t].id].status = request[t].new]
        BY <2>4, <3>2, SaveReportBecomes
      <4>2. report[request[t].id] \in Row BY <3>2, <4>1, RowTyped
      <4>3. report'[request[t].id].target = report[request[t].id].target
        BY <1>1, <4>1, <4>2 DEF Row
      <4>4. report'[request[t].id] # NoReport
        BY <4>2, <4>3 DEF Row, NoReport, SubmissionIds
      <4>5. \A i \in ReportIds : Exists(i)' <=> Exists(i)
        BY <1>1, <3>2, <4>1, <4>4 DEF Exists
      <4>6. UNCHANGED <<season, submission, filed, log>> BY <2>4 DEF SaveReport
      <4>. QED BY <1>2, <4>5, <4>6
    <3>. QED BY <3>1, <3>2
  <2>5. CASE LogReport(t)
    <3>1. CASE ~Counts(t) BY <1>3, <2>5, <3>1, LogReportBecomes DEF LogReport
    <3>2. CASE Counts(t)
      <4>1. /\ \A k \in DOMAIN log : log'[k] = log[k]
            /\ \A k \in DOMAIN log' : k \in DOMAIN log \/ k = Len(log) + 1
            /\ log'[Len(log) + 1] = Entry(t)
        BY <2>5, <3>2, LogReportBecomes
      <4>2. Entry(t).report = request[t].id /\ Entry(t).old = request[t].old
            /\ Holds(t) /\ request[t].pc = "log"
        BY <2>5, EntryTyped DEF LogReport, IInv
      <4>3. request[t].id \in ReportIds /\ request[t].id <= filed
        BY <1>1, <4>2 DEF Holds, ReportIds
      <4>4. request[t].old = "none" => Exists(request[t].id)
        BY <3>2, <4>2 DEF Holds, Counts
      <4>5. \A i \in ReportIds : Exists(i)' <=> Exists(i) BY <2>5 DEF LogReport, Exists
      <4>6. UNCHANGED <<season, submission, filed>> BY <2>5 DEF LogReport
      <4>7. ASSUME NEW k \in DOMAIN log', k \notin DOMAIN log
            PROVE  /\ log'[k].report \in ReportIds /\ log'[k].report <= filed
                   /\ log'[k].old = "none" => Exists(log'[k].report)
        <5>1. log'[k].report = request[t].id /\ log'[k].old = request[t].old
          BY <4>1, <4>2, <4>7
        <5>. QED BY <4>3, <4>4, <5>1 DEF Exists
      <4>. QED BY <1>2, <4>1, <4>5, <4>6, <4>7
    <3>. QED BY <3>1, <3>2
  <2>. QED BY <1>9, <2>1, <2>2, <2>3, <2>4, <2>5 DEF Serve
<1>. QED BY <1>4, <1>5, <1>6, <1>7, <1>8, <1>9 DEF Next, Environment

LEMMA StepNumberIsId == ASSUME IInv, [Next]_vars PROVE NumberIsId'
<1>1. /\ NumberIsId /\ TypeOK /\ report \in [ReportIds -> Row \cup {NoReport}]
      /\ submission \in [SubmissionIds -> 0 .. MaxSubmissions]
  BY DEF IInv, TypeOK
<1>2. ASSUME UNCHANGED <<submission, report>> PROVE NumberIsId' BY <1>1, <1>2 DEF NumberIsId
<1>3. CASE UNCHANGED vars \/ EditSeason BY <1>2, <1>3 DEF vars, EditSeason
<1>4. CASE CreateSubmission
  <2>1. created + 1 \in SubmissionIds /\ report' = report
        /\ submission' = [submission EXCEPT ![created + 1] = created + 1]
    BY <1>1, <1>4, Bounds DEF CreateSubmission, NewId, TypeOK, SubmissionIds
  <2>. QED BY <1>1, <2>1 DEF NumberIsId
<1>5. ASSUME NEW s \in SubmissionIds, RemoveSubmission(s) PROVE NumberIsId'
  BY <1>1, <1>5 DEF RemoveSubmission, NumberIsId
<1>6. CASE DeleteSeason BY <1>6 DEF DeleteSeason, NumberIsId, NoReport
<1>7. ASSUME NEW t \in Threads, Serve(t) PROVE NumberIsId'
  <2>1. CASE UNCHANGED <<submission, report>> BY <1>2, <2>1
  <2>2. CASE CreateReport(t) /\ request[t].actor = "participant"
    <3>1. /\ filed + 1 \in ReportIds
          /\ report' = [report EXCEPT ![filed + 1] =
               [target |-> request[t].id, about |-> request[t].id, status |-> "open"]]
      BY <2>2, CreateReportBecomes
    <3>2. submission' = submission BY <2>2 DEF CreateReport
    <3>. QED BY <1>1, <3>1, <3>2 DEF NumberIsId
  <2>3. CASE SaveReport(t) /\ Exists(request[t].id)
    <3>1. /\ request[t].id \in ReportIds
          /\ report' = [report EXCEPT ![request[t].id].status = request[t].new]
      BY <2>3, SaveReportBecomes
    <3>2. submission' = submission BY <2>3 DEF SaveReport
    <3>3. report[request[t].id] \in Row BY <2>3, <3>1, RowTyped
    <3>4. \A i \in ReportIds : report'[i].about = report[i].about /\ report'[i].target = report[i].target
      BY <1>1, <3>1, <3>3 DEF Row
    <3>. QED BY <1>1, <3>2, <3>4 DEF NumberIsId
  <2>. QED BY <1>7, <2>1, <2>2, <2>3
           DEF Serve, ReadSubmission, ReadReport, CreateReport, SaveReport, LogReport
<1>. QED BY <1>3, <1>4, <1>5, <1>6, <1>7 DEF Next, Environment

-----------------------------------------------------------------------------
(* What requests hold.                                                     *)

LEMMA StepHolds == ASSUME IInv, [Next]_vars, NEW u \in Threads PROVE Holds(u)'
<1>1. /\ Holds(u) /\ TypeOK /\ filed \in 0 .. MaxReports /\ MaxReports \in Nat
      /\ request \in [Threads -> RequestRecord] /\ MaxSubmissions \in Nat
  BY Bounds DEF IInv, TypeOK, RequestRecord
<1>2. ASSUME UNCHANGED <<request[u], season>>, filed' \in Nat, filed' >= filed,
             \A i \in ReportIds : i <= filed => (Exists(i)' <=> Exists(i))
      PROVE  Holds(u)'
  <2>1. request[u].pc \in {"resolve", "log"} => /\ request[u].id \in ReportIds
                                               /\ request[u].id <= filed
    BY <1>1 DEF Holds, ReportIds
  <2>2. request[u].pc \in {"resolve", "log"} =>
          (report'[request[u].id] # NoReport <=> report[request[u].id] # NoReport)
    BY <1>2, <2>1 DEF Exists
  <2>3. request[u].pc \in {"resolve", "log"} => request[u].id \in 1 .. filed'
    BY <1>1, <1>2 DEF Holds
  <2>. QED BY <1>1, <1>2, <2>2, <2>3 DEF Holds, Exists
<1>3. ASSUME NEW t \in Threads, NEW new, Becomes(t, new), UNCHANGED season,
             filed' \in Nat, filed' >= filed, u # t,
             \A i \in ReportIds : i <= filed => (Exists(i)' <=> Exists(i))
      PROVE  Holds(u)'
  BY <1>1, <1>2, <1>3, RequestChange
<1>4. ASSUME Becomes(u, Idle) PROVE Holds(u)'
  BY <1>1, <1>4, RequestChange DEF Holds, Idle
<1>5. CASE UNCHANGED vars BY <1>1, <1>2, <1>5 DEF vars, Exists
<1>6. CASE CreateSubmission \/ \E s \in SubmissionIds : RemoveSubmission(s)
  BY <1>1, <1>2, <1>6 DEF CreateSubmission, RemoveSubmission, Exists
<1>7. CASE DeleteSeason
  <2>1. /\ request'[u].pc = request[u].pc /\ request'[u].id = request[u].id
        /\ request'[u].about = request[u].about /\ request'[u].old = request[u].old
        /\ request'[u].new = request[u].new /\ request'[u].actor # "participant"
        /\ request'[u].actor \in {request[u].actor, "gone"}
    BY <1>1, <1>7, DeletionChange
  <2>2. filed' = filed /\ \A i \in ReportIds : report'[i] = NoReport BY <1>7 DEF DeleteSeason
  <2>3. request[u].pc \in {"resolve", "log"} => request[u].id \in ReportIds
    BY <1>1 DEF Holds, ReportIds
  <2>4. request[u].pc \in {"resolve", "log"} => report'[request[u].id] = NoReport
    BY <2>2, <2>3
  <2>5. request[u].pc = "log" /\ request[u].old = "none" => request[u].actor \in {"participant", "gone"}
    BY <1>1 DEF Holds
  <2>6. request'[u].pc = "log" /\ request'[u].old = "none" =>
          request'[u].actor \in {"participant", "gone"}
    BY <2>1, <2>5
  <2>. QED BY <1>1, <2>1, <2>2, <2>4, <2>6 DEF Holds, Exists
<1>8. CASE EditSeason
  <2>1. request' = request /\ filed' = filed /\ report' = report /\ season'
    BY <1>8 DEF EditSeason
  <2>. QED BY <1>1, <2>1 DEF Holds, Exists
<1>9. ASSUME NEW t \in Threads, Serve(t) PROVE Holds(u)'
  <2>1. ASSUME NEW s \in SubmissionIds, ReadSubmission(t, s) PROVE Holds(u)'
    <3>1. Becomes(t, Filing(s)) /\ submission[s] = s /\ UNCHANGED <<filed, season, report>> /\ season
      BY <2>1, ReadSubmissionBecomes DEF ReadSubmission, IInv, AllFiled
    <3>2. CASE u = t
      <4>1. request'[u] = Filing(s) BY <1>1, <3>1, <3>2, RequestChange
      <4>. QED BY <3>1, <4>1 DEF Holds, Filing
    <3>. QED BY <1>1, <1>3, <3>1, <3>2 DEF Exists
  <2>2. ASSUME NEW i \in ReportIds, ReadReport(t, i) PROVE Holds(u)'
    <3>1. PICK n \in {"dismissed", "actioned"}, a \in {"participant", "staff"} :
            Becomes(t, Resolving(i, n, a))
      BY <2>2, ReadReportBecomes
    <3>2. i \in 1 .. filed /\ report[i].status # "none" /\ UNCHANGED <<filed, season, report>>
          /\ Exists(i)
      BY <1>1, <2>2, RowTyped DEF ReadReport, IInv, AllFiled, ReportIds
    <3>3. CASE u = t
      <4>1. request'[u] = Resolving(i, n, a) BY <1>1, <3>1, <3>3, RequestChange
      <4>. QED BY <3>1, <3>2, <4>1 DEF Holds, Resolving, Exists
    <3>. QED BY <1>1, <1>3, <3>1, <3>2, <3>3 DEF Exists
  <2>3. CASE CreateReport(t)
    <3>1. CASE request[t].actor # "participant"
      <4>1. Becomes(t, Idle) /\ UNCHANGED <<filed, season, report>>
        BY <1>1, <2>3, <3>1, AnsweredBecomes DEF CreateReport
      <4>. QED BY <1>1, <1>3, <1>4, <4>1 DEF Exists
    <3>2. CASE request[t].actor = "participant"
      <4>1. /\ Becomes(t, Filed) /\ filed' = filed + 1 /\ filed \in Nat /\ filed + 1 \in ReportIds
            /\ UNCHANGED season
        BY <2>3, <3>2, CreateReportBecomes DEF CreateReport
      <4>2. PICK row \in Row : report' = [report EXCEPT ![filed + 1] = row]
        BY <2>3, <3>2, CreateReportBecomes
      <4>3. row # NoReport BY DEF Row, NoReport, SubmissionIds
      <4>4. report'[filed + 1] # NoReport BY <1>1, <4>1, <4>2, <4>3 DEF TypeOK
      <4>5. CASE u = t
        <5>1. request'[u] = Filed BY <1>1, <4>1, <4>5, RequestChange
        <5>. QED BY <4>1, <4>4, <5>1 DEF Holds, Filed, Exists
      <4>6. \A i \in ReportIds : i <= filed => (Exists(i)' <=> Exists(i))
        BY <1>1, <4>1, <4>2 DEF Exists, ReportIds
      <4>. QED BY <1>3, <4>1, <4>5, <4>6
    <3>. QED BY <3>1, <3>2
  <2>4. CASE SaveReport(t)
    <3>1. UNCHANGED <<filed, season>> BY <2>4 DEF SaveReport
    <3>2. CASE ~Exists(request[t].id)
      <4>1. Becomes(t, Idle) /\ report' = report
        BY <1>1, <2>4, <3>2, AnsweredBecomes DEF SaveReport
      <4>. QED BY <1>1, <1>3, <1>4, <3>1, <4>1 DEF Exists
    <3>3. CASE Exists(request[t].id)
      <4>1. /\ Becomes(t, Resolved(request[t])) /\ request[t].id \in ReportIds
            /\ report' = [report EXCEPT ![request[t].id].status = request[t].new]
        BY <2>4, <3>3, SaveReportBecomes
      <4>2. report[request[t].id] \in Row BY <3>3, <4>1, RowTyped
      <4>3. report'[request[t].id].target = report[request[t].id].target
        BY <1>1, <4>1, <4>2 DEF TypeOK, Row
      <4>4. report'[request[t].id] # NoReport
        BY <4>2, <4>3 DEF Row, NoReport, SubmissionIds
      <4>5. \A i \in ReportIds : Exists(i)' <=> Exists(i)
        BY <1>1, <3>3, <4>1, <4>4 DEF Exists, TypeOK
      <4>6. CASE u = t
        <5>1. request'[u] = Resolved(request[u]) BY <1>1, <4>1, <4>6, RequestChange
        <5>2. request[u].pc = "resolve" BY <2>4, <4>6 DEF SaveReport
        <5>. QED BY <1>1, <3>1, <3>3, <4>4, <4>6, <5>1, <5>2 DEF Holds, Resolved, Exists
      <4>. QED BY <1>1, <1>3, <3>1, <4>1, <4>5, <4>6
    <3>. QED BY <3>2, <3>3
  <2>5. CASE LogReport(t)
    <3>1. Becomes(t, Idle) /\ UNCHANGED <<filed, season, report>>
      BY <2>5, LogReportBecomes DEF LogReport
    <3>. QED BY <1>1, <1>3, <1>4, <3>1 DEF Exists
  <2>. QED BY <1>9, <2>1, <2>2, <2>3, <2>4, <2>5 DEF Serve
<1>. QED BY <1>5, <1>6, <1>7, <1>8, <1>9 DEF Next, Environment

-----------------------------------------------------------------------------
(* What is told.                                                           *)

LEMMA StepFollows ==
  ASSUME IInv, [Next]_vars, NEW i \in ReportIds, Exists(i)' PROVE Follows
<1>1. TypeOK /\ request \in [Threads -> RequestRecord] BY DEF IInv, TypeOK, RequestRecord
<1>2. ASSUME UNCHANGED <<log, request>> PROVE Follows BY <1>2 DEF Follows
<1>3. ASSUME NEW t \in Threads, NEW new, Becomes(t, new), UNCHANGED log, request[t].pc # "log"
      PROVE  Follows
  BY <1>1, <1>3, RequestChange DEF Follows
<1>4. CASE UNCHANGED vars BY <1>2, <1>4 DEF vars
<1>5. CASE Environment
  <2>1. ~DeleteSeason BY DEF DeleteSeason, Exists
  <2>. QED BY <1>2, <1>5, <2>1 DEF Environment, CreateSubmission, RemoveSubmission, EditSeason
<1>6. ASSUME NEW t \in Threads, Serve(t) PROVE Follows
  <2>1. ASSUME NEW s \in SubmissionIds, ReadSubmission(t, s) PROVE Follows
    <3>1. Becomes(t, Filing(s)) BY <2>1, ReadSubmissionBecomes
    <3>. QED BY <1>3, <2>1, <3>1 DEF ReadSubmission, Free, Idle
  <2>2. ASSUME NEW j \in ReportIds, ReadReport(t, j) PROVE Follows
    <3>1. PICK n \in {"dismissed", "actioned"}, a \in {"participant", "staff"} :
            Becomes(t, Resolving(j, n, a))
      BY <2>2, ReadReportBecomes
    <3>. QED BY <1>3, <2>2, <3>1 DEF ReadReport, Free, Idle
  <2>3. CASE CreateReport(t)
    <3>1. CASE request[t].actor = "participant"
      <4>1. Becomes(t, Filed) BY <2>3, <3>1, CreateReportBecomes
      <4>. QED BY <1>3, <2>3, <4>1 DEF CreateReport
    <3>2. CASE request[t].actor # "participant"
      <4>1. Becomes(t, Idle) BY <1>1, <2>3, <3>2, AnsweredBecomes DEF CreateReport
      <4>. QED BY <1>3, <2>3, <4>1 DEF CreateReport
    <3>. QED BY <3>1, <3>2
  <2>4. CASE SaveReport(t)
    <3>1. CASE ~Exists(request[t].id)
      <4>1. Becomes(t, Idle) BY <1>1, <2>4, <3>1, AnsweredBecomes DEF SaveReport
      <4>. QED BY <1>3, <2>4, <4>1 DEF SaveReport
    <3>2. CASE Exists(request[t].id)
      <4>1. Becomes(t, Resolved(request[t])) BY <2>4, <3>2, SaveReportBecomes
      <4>. QED BY <1>3, <2>4, <4>1 DEF SaveReport
    <3>. QED BY <3>1, <3>2
  <2>5. CASE LogReport(t)
    <3>1. Becomes(t, Idle) /\ request[t].pc = "log" BY <2>5, LogReportBecomes DEF LogReport
    <3>2. \A u \in Threads \ {t} : request'[u] = request[u] BY <1>1, <3>1, RequestChange
    <3>3. CASE ~Counts(t)
      <4>1. log' = log /\ ~Exists(request[t].id)
        BY <2>5, <3>1, <3>3, LogReportBecomes, ReportCounts
      <4>. QED BY <3>2, <4>1 DEF Follows
    <3>4. CASE Counts(t)
      <4>1. /\ Len(log) \in Nat
            /\ DOMAIN log = 1 .. Len(log) /\ DOMAIN log' = 1 .. Len(log) + 1
            /\ \A k \in DOMAIN log : log'[k] = log[k]
            /\ log'[Len(log) + 1] = Entry(t)
        BY <2>5, <3>4, LogReportBecomes
      <4>2. Entry(t).report = request[t].id /\ Entry(t).new = request[t].new
        BY <2>5, EntryTyped DEF LogReport
      <4>3. Len(log) + 1 \in DOMAIN log' \ DOMAIN log /\ DOMAIN log \subseteq DOMAIN log'
        BY <4>1
      <4>. QED BY <3>2, <4>1, <4>2, <4>3 DEF Follows
    <3>. QED BY <3>3, <3>4
  <2>. QED BY <1>6, <2>1, <2>2, <2>3, <2>4, <2>5 DEF Serve
<1>. QED BY <1>4, <1>5, <1>6 DEF Next

(* A step that logs nothing and adds no report keeps what is told of those *)
(* whose status it leaves alone.                                           *)
LEMMA ToldStays ==
  ASSUME Follows, NEW i \in ReportIds, Exists(i), Told(i), DOMAIN log' = DOMAIN log,
         Says(i, report[i].status)'
  PROVE  Told(i)'
<1>1. Says(i, "open")' BY SaysStays DEF Told
<1>2. ASSUME NEW k \in Stored(i)'
      PROVE  \/ log'[k].old = "none" /\ log'[k].new = "open"
             \/ \E l \in Stored(i)' \ {k} : log'[l].new = log'[k].old
             \/ \E t \in Coming(i)' : request'[t].new = log'[k].old
  <2>1. k \in Stored(i) BY <1>2 DEF Follows, Stored
  <2>. QED BY <2>1, OldEntryStays
<1>. QED BY <1>1, <1>2 DEF Told

LEMMA StepTold == ASSUME IInv, [Next]_vars, NEW i \in ReportIds, Exists(i)' PROVE Told(i)'
<1>2. Follows /\ TypeOK /\ request \in [Threads -> RequestRecord]
      /\ report \in [ReportIds -> Row \cup {NoReport}] /\ filed \in 0 .. MaxReports
      /\ MaxReports \in Nat
  BY StepFollows, Bounds DEF IInv, TypeOK, RequestRecord
<1>3. ASSUME Exists(i), report'[i].status = report[i].status, log' = log PROVE Told(i)'
  <2>1. Told(i) BY <1>3 DEF IInv
  <2>2. Says(i, report[i].status) BY <2>1 DEF Told
  <2>3. Says(i, report[i].status)' BY <1>2, <1>3, <2>2, SaysStays DEF Says, Stored, Coming
  <2>. QED BY <1>2, <1>3, <2>1, <2>3, ToldStays
<1>4. ASSUME UNCHANGED <<report, log>> PROVE Told(i)' BY <1>3, <1>4 DEF Exists
<1>5. CASE UNCHANGED vars BY <1>4, <1>5 DEF vars
<1>6. CASE Environment
  <2>1. ~DeleteSeason BY DEF DeleteSeason, Exists
  <2>. QED BY <1>4, <1>6, <2>1 DEF Environment, CreateSubmission, RemoveSubmission, EditSeason
<1>7. ASSUME NEW t \in Threads, Serve(t) PROVE Told(i)'
  <2>1. CASE UNCHANGED <<report, log>> BY <1>4, <2>1
  <2>2. CASE CreateReport(t) /\ request[t].actor = "participant"
    <3>1. /\ Becomes(t, Filed) /\ filed + 1 \in ReportIds /\ filed \in Nat
          /\ report' = [report EXCEPT ![filed + 1] =
               [target |-> request[t].id, about |-> request[t].id, status |-> "open"]]
      BY <1>2, <2>2, CreateReportBecomes
    <3>2. log' = log BY <2>2 DEF CreateReport
    <3>3. CASE i # filed + 1
      <4>1. report'[i] = report[i] BY <1>2, <3>1, <3>3
      <4>. QED BY <1>3, <3>2, <4>1 DEF Exists
    <3>4. CASE i = filed + 1
      <4>1. request'[t] = Filed BY <1>2, <3>1, RequestChange
      <4>2. t \in Coming(i)' /\ request'[t].new = "open" BY <3>4, <4>1 DEF Coming, Filed
      <4>3. report'[i].status = "open" BY <1>2, <3>1, <3>4
      <4>4. ~(filed + 1 <= filed) BY <3>1
      <4>5. Stored(i)' = {} BY <3>2, <3>4, <4>4 DEF Stored, IInv, AllFiled
      <4>. QED BY <4>2, <4>3, <4>5 DEF Told, Says
    <3>. QED BY <3>3, <3>4
  <2>3. CASE SaveReport(t) /\ Exists(request[t].id)
    <3>1. /\ Becomes(t, Resolved(request[t])) /\ request[t].id \in ReportIds
          /\ report' = [report EXCEPT ![request[t].id].status = request[t].new]
      BY <2>3, SaveReportBecomes
    <3>2. log' = log BY <2>3 DEF SaveReport
    <3>3. CASE i # request[t].id
      <4>1. report'[i] = report[i] BY <1>2, <3>1, <3>3
      <4>. QED BY <1>3, <3>2, <4>1 DEF Exists
    <3>4. CASE i = request[t].id
      <4>1. Told(i) BY <2>3, <3>1, <3>4 DEF IInv
      <4>2. request'[t] = Resolved(request[t]) BY <1>2, <3>1, RequestChange
      <4>3. t \in Coming(i)' /\ request'[t].new = request[t].new
        BY <3>4, <4>2 DEF Coming, Resolved
      <4>4. report[i] \in Row BY <2>3, <3>1, <3>4, RowTyped
      <4>5. report'[i].status = request[t].new BY <1>2, <3>1, <3>4, <4>4 DEF Row
      <4>6. Says(i, report[i].status)' BY <4>3, <4>5 DEF Says
      <4>. QED BY <1>2, <3>2, <2>3, <3>4, <4>1, <4>6, ToldStays
    <3>. QED BY <3>3, <3>4
  <2>4. CASE LogReport(t) /\ Counts(t)
    <3>1. /\ Len(log) \in Nat /\ DOMAIN log = 1 .. Len(log) /\ DOMAIN log' = 1 .. Len(log) + 1
          /\ \A k \in DOMAIN log : log'[k] = log[k]
          /\ log'[Len(log) + 1] = Entry(t)
      BY <1>2, <2>4, LogReportBecomes
    <3>2. /\ Entry(t).report = request[t].id /\ Entry(t).new = request[t].new
          /\ Entry(t).old = request[t].old
      BY <2>4, EntryTyped DEF LogReport
    <3>3. report' = report /\ Exists(i) /\ Told(i) BY <2>4 DEF LogReport, Exists, IInv
    <3>7. Becomes(t, Idle) BY <2>4, LogReportBecomes
    <3>4. Says(i, "open")' BY <1>2, <3>3, SaysStays DEF Told
    <3>5. Says(i, report[i].status)'
      BY <1>2, <3>3, SaysStays DEF Told, Says, Stored, Coming
    <3>6. ASSUME NEW k \in Stored(i)'
          PROVE  \/ log'[k].old = "none" /\ log'[k].new = "open"
                 \/ \E l \in Stored(i)' \ {k} : log'[l].new = log'[k].old
                 \/ \E u \in Coming(i)' : request'[u].new = log'[k].old
      <4>1. CASE k \in DOMAIN log
        <5>1. k \in Stored(i) BY <3>1, <3>6, <4>1 DEF Stored
        <5>. QED BY <1>2, <3>3, <5>1, OldEntryStays
      <4>2. CASE k \notin DOMAIN log
        <5>1. k = Len(log) + 1 BY <3>1, <3>6, <4>2 DEF Stored
        <5>2. log'[k] = Entry(t) /\ i = request[t].id BY <3>1, <3>2, <3>6, <5>1 DEF Stored
        <5>3. request[t].pc = "log" BY <2>4 DEF LogReport
        <5>4. CASE request[t].old = "none"
          BY <3>2, <5>2, <5>3, <5>4 DEF IInv, Holds
        <5>5. CASE request[t].old # "none"
          <6>0. OthersSay(t, i, request[t].old)
            BY <3>3, <5>2, <5>3, <5>5 DEF IInv, ToldByOthers
          <6>1. \/ \E l \in Stored(i) : log[l].new = request[t].old
                \/ \E u \in Coming(i) \ {t} : request[u].new = request[t].old
            BY <6>0 DEF OthersSay
          <6>2. ASSUME NEW l \in Stored(i), log[l].new = request[t].old
                PROVE  l \in Stored(i)' \ {k} /\ log'[l].new = log'[k].old
            BY <3>1, <3>2, <4>2, <5>2, <6>2 DEF Stored
          <6>3. ASSUME NEW u \in Coming(i) \ {t}, request[u].new = request[t].old
                PROVE  u \in Coming(i)' /\ request'[u].new = log'[k].old
            <7>1. request'[u] = request[u]
              BY <1>2, <3>7, <6>3, RequestChange DEF Coming
            <7>. QED BY <3>2, <5>2, <6>3, <7>1 DEF Coming
          <6>. QED BY <6>1, <6>2, <6>3
        <5>. QED BY <5>4, <5>5
      <4>. QED BY <4>1, <4>2
    <3>. QED BY <3>4, <3>5, <3>6 DEF Told
  <2>5. CASE LogReport(t) /\ ~Counts(t)
    <3>1. report' = report /\ Exists(i) /\ log' = log
      BY <2>5, LogReportBecomes DEF LogReport, Exists
    <3>2. report'[i].status = report[i].status BY <3>1
    <3>. QED BY <1>3, <3>1, <3>2
  <2>. QED BY <1>7, <2>1, <2>2, <2>3, <2>4, <2>5
           DEF Serve, ReadSubmission, ReadReport, CreateReport, SaveReport
<1>. QED BY <1>5, <1>6, <1>7 DEF Next

LEMMA StepToldByOthers ==
  ASSUME IInv, [Next]_vars, NEW u \in Threads PROVE ToldByOthers(u)'
<1>. SUFFICES ASSUME NEW i, NEW old, i = request'[u].id, old = request'[u].old, old # "none",
                     request'[u].pc \in {"resolve", "log"}, Exists(i)'
     PROVE  OthersSay(u, i, old)'
  BY DEF ToldByOthers, OthersSay, Stored, Coming, Exists
<1>1. i \in ReportIds /\ i \in 1 .. filed'
  <2>1. Holds(u)' /\ filed' \in 0 .. MaxReports /\ MaxReports \in Nat
    BY StepHolds, StepTypeOK, Bounds DEF TypeOK
  <2>. QED BY <2>1 DEF Holds, ReportIds
<1>3. Follows /\ TypeOK /\ request \in [Threads -> RequestRecord]
  BY <1>1, StepFollows DEF IInv, TypeOK, RequestRecord
<1>4. ASSUME i = request[u].id, old = request[u].old, request[u].pc \in {"resolve", "log"},
             Exists(i)
      PROVE  OthersSay(u, i, old)'
  <2>1. Follows /\ i \in ReportIds BY <1>1, <1>3
  <2>2. OthersSay(u, i, old) BY <1>4 DEF IInv, ToldByOthers
  <2>. QED BY <1>4, <2>1, <2>2, OthersStay
<1>5. ASSUME request'[u] = request[u], Exists(i) PROVE OthersSay(u, i, old)'
  <2>1. i = request[u].id /\ old = request[u].old /\ request[u].pc \in {"resolve", "log"}
    BY <1>5
  <2>. QED BY <1>4, <1>5, <2>1
<1>6. ASSUME Becomes(u, Idle) PROVE FALSE BY <1>3, <1>6, RequestChange DEF Idle
<1>7. CASE Environment \/ UNCHANGED vars
  <2>1. ~DeleteSeason BY <1>1 DEF DeleteSeason, Exists
  <2>2. UNCHANGED <<request, report>>
    BY <1>7, <2>1 DEF Environment, CreateSubmission, RemoveSubmission, EditSeason, vars
  <2>. QED BY <1>5, <2>2 DEF Exists
<1>8. ASSUME NEW t \in Threads \ {u}, Serve(t)
      PROVE  request'[u] = request[u] /\ Exists(i)
  <2>1. request'[u] = request[u]
    BY <1>3, <1>8 DEF Serve, ReadSubmission, ReadReport, CreateReport, SaveReport, LogReport, Answered
  <2>2. i <= filed /\ i \in Nat BY <1>1, <2>1 DEF IInv, Holds, ReportIds
  <2>3. ASSUME UNCHANGED report PROVE Exists(i) BY <2>3 DEF Exists
  <2>4. ASSUME CreateReport(t), request[t].actor = "participant" PROVE Exists(i)
    <3>1. PICK row \in Row : report' = [report EXCEPT ![filed + 1] = row]
      BY <2>4, CreateReportBecomes
    <3>2. i # filed + 1
      <4>1. filed \in Nat BY <2>4, CreateReportBecomes
      <4>. QED BY <2>2, <4>1
    <3>3. report'[i] = report[i] BY <1>1, <1>3, <3>1, <3>2 DEF TypeOK
    <3>. QED BY <3>3 DEF Exists
  <2>5. ASSUME SaveReport(t), Exists(request[t].id) PROVE Exists(i)
    <3>1. report' = [report EXCEPT ![request[t].id].status = request[t].new]
      BY <2>5, SaveReportBecomes
    <3>. QED BY <1>1, <1>3, <2>5, <3>1 DEF Exists, TypeOK
  <2>6. UNCHANGED report \/ (CreateReport(t) /\ request[t].actor = "participant")
        \/ (SaveReport(t) /\ Exists(request[t].id))
    BY <1>8 DEF Serve, ReadSubmission, ReadReport, CreateReport, SaveReport, LogReport
  <2>. QED BY <2>1, <2>3, <2>4, <2>5, <2>6
<1>9. CASE Serve(u)
  <2>1. ASSUME NEW s \in SubmissionIds, ReadSubmission(u, s) PROVE FALSE
    <3>1. Becomes(u, Filing(s)) BY <2>1, ReadSubmissionBecomes
    <3>2. request'[u] = Filing(s) BY <1>3, <3>1, RequestChange
    <3>. QED BY <3>2 DEF Filing
  <2>2. ASSUME NEW j \in ReportIds, ReadReport(u, j)
        PROVE  OthersSay(u, i, old)'
    <3>1. PICK n \in {"dismissed", "actioned"}, a \in {"participant", "staff"} :
            Becomes(u, Resolving(j, n, a))
      BY <2>2, ReadReportBecomes
    <3>2. request'[u] = Resolving(j, n, a) BY <1>3, <3>1, RequestChange
    <3>3. i = j /\ old = report[j].status BY <3>2 DEF Resolving
    <3>4. Says(i, old) /\ Exists(i) BY <2>2, <3>3 DEF ReadReport, IInv, Told
    <3>5. u \notin Coming(i) BY <2>2 DEF ReadReport, Free, Idle, Coming
    <3>6. OthersSay(u, i, old) BY <3>4, <3>5 DEF Says, OthersSay
    <3>7. Follows /\ i \in ReportIds BY <1>1, <1>3
    <3>. QED BY <3>4, <3>6, <3>7, OthersStay
  <2>3. CASE CreateReport(u)
    <3>1. CASE request[u].actor = "participant"
      <4>1. Becomes(u, Filed) BY <2>3, <3>1, CreateReportBecomes
      <4>2. request'[u] = Filed BY <1>3, <4>1, RequestChange
      <4>. QED BY <4>2 DEF Filed
    <3>2. CASE request[u].actor # "participant"
      BY <1>3, <1>6, <2>3, <3>2, AnsweredBecomes DEF CreateReport
    <3>. QED BY <3>1, <3>2
  <2>4. CASE SaveReport(u)
    <3>1. CASE ~Exists(request[u].id)
      BY <1>3, <1>6, <2>4, <3>1, AnsweredBecomes DEF SaveReport
    <3>2. CASE Exists(request[u].id)
      <4>1. request'[u] = Resolved(request[u])
        BY <1>3, <2>4, <3>2, SaveReportBecomes, RequestChange
      <4>2. i = request[u].id /\ old = request[u].old /\ request[u].pc = "resolve"
        BY <2>4, <4>1 DEF Resolved, SaveReport
      <4>. QED BY <1>4, <3>2, <4>2
    <3>. QED BY <3>1, <3>2
  <2>5. CASE LogReport(u) BY <1>6, <2>5, LogReportBecomes
  <2>. QED BY <1>9, <2>1, <2>2, <2>3, <2>4, <2>5 DEF Serve
<1>. QED BY <1>5, <1>7, <1>8, <1>9 DEF Next

-----------------------------------------------------------------------------
LEMMA InitIInv == ASSUME Init PROVE IInv
<1>1. TypeOK
  <2>1. /\ log \in Seq(Logged) /\ Len(log) = 0 BY EmptySeq DEF Init
  <2>2. request \in [Threads -> RequestRecord] BY IdleTyped DEF Init
  <2>3. submission \in [SubmissionIds -> 0 .. MaxSubmissions] /\ created \in 0 .. MaxSubmissions
        /\ filed \in 0 .. MaxReports /\ report \in [ReportIds -> Row \cup {NoReport}]
        /\ season \in BOOLEAN
    BY Bounds DEF Init
  <2>. QED BY <2>1, <2>2, <2>3, Bounds DEF TypeOK, RequestRecord
<1>2. Room
  <2>1. Busy = {} BY DEF Busy, Free, Init
  <2>2. Cardinality(Busy) = 0 /\ Len(log) = 0 BY <2>1, FS_EmptySet, EmptySeq DEF Init
  <2>. QED BY <2>2, Bounds DEF Room
<1>3. (\A i \in ReportIds : ~Exists(i)) /\ DOMAIN log = {} BY DEF Init, Exists
<1>4. AllFiled BY <1>3 DEF AllFiled, Init
<1>7. FilingRoom
  <2>1. Filers = {} BY DEF Filers, Idle, Init
  <2>2. Cardinality(Filers) = 0 /\ filed = 0 BY <2>1, FS_EmptySet DEF Init
  <2>. QED BY <2>2, Bounds DEF FilingRoom
<1>5. NumberIsId BY DEF NumberIsId, Init, NoReport
<1>6. \A t \in Threads : Holds(t) /\ ToldByOthers(t)
  BY DEF Init, Idle, Holds, ToldByOthers
<1>. QED BY <1>1, <1>2, <1>3, <1>4, <1>5, <1>6, <1>7 DEF IInv

LEMMA StepIInv == IInv /\ [Next]_vars => IInv'
<1>. SUFFICES ASSUME IInv, [Next]_vars PROVE IInv'
  OBVIOUS
<1>1. \A t \in Threads : Holds(t)' /\ ToldByOthers(t)' BY StepHolds, StepToldByOthers
<1>2. \A i \in ReportIds : Exists(i)' => Told(i)' BY StepTold
<1>. QED BY <1>1, <1>2, StepTypeOK, StepAllFiled, StepNumberIsId DEF IInv

(* Of a report that is there the log tells the filing, its status and      *)
(* every status it has been taken from, however many resolutions overlap,  *)
(* and of one that has gone no filing, however often the season is deleted *)
(* and inserted again.                                                     *)
THEOREM LogStaysComplete == Spec => []LogIsComplete
<1>1. IInv => LogIsComplete
  <2>. SUFFICES ASSUME IInv PROVE LogIsComplete
    OBVIOUS
  <2>1. TypeOK BY DEF IInv
  <2>2. ASSUME NEW i \in ReportIds, Exists(i) PROVE Told(i) BY <2>2 DEF IInv
  <2>3. ASSUME NEW i \in ReportIds, ~Exists(i) PROVE \A k \in Stored(i) : log[k].old # "none"
    BY <2>3 DEF IInv, AllFiled, Stored
  <2>. QED BY <2>1, <2>2, <2>3 DEF LogIsComplete, Told
<1>. QED BY <1>1, InitIInv, StepIInv, PTL DEF Spec

(* A report never names a submission that was created after it.            *)
THEOREM ReportsNameTheirs == Spec => []ReportNamesItsSubmission
<1>1. IInv => ReportNamesItsSubmission
  <2>. SUFFICES ASSUME IInv, NEW i \in ReportIds, Exists(i)
       PROVE  TargetSubmission(i) \in {0, report[i].about}
    BY DEF ReportNamesItsSubmission
  <2>1. report[i].target \in SubmissionIds BY RowTyped DEF Row
  <2>. QED BY <2>1 DEF IInv, NumberIsId, TargetSubmission
<1>. QED BY <1>1, InitIInv, StepIInv, PTL DEF Spec
=============================================================================
