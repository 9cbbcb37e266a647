--------------------- MODULE AssignmentSubmissionProofs ---------------------
(***************************************************************************)
(* Proofs about AssignmentSubmission, for any number of requests and hosts, *)
(* any limit, and with every interleaving and fault the module has, unless *)
(* a theorem says otherwise.                                               *)
(***************************************************************************)
EXTENDS AssignmentSubmission, FiniteSetTheorems, SequenceTheorems, TLAPS

-----------------------------------------------------------------------------
(* Numberings of media rows.                                               *)

(* A function from media ids to places below the limit is a numbering.     *)
LEMMA NumberingIntro ==
  ASSUME NEW S \in SUBSET MediaIds, NEW f \in [S -> 0 .. MaxMedia - 1]
  PROVE  f \in Numberings
BY DEF Numberings

(* And nothing else is.                                                    *)
LEMMA NumberingElim ==
  ASSUME NEW f \in Numberings
  PROVE  DOMAIN f \in SUBSET MediaIds /\ f \in [DOMAIN f -> 0 .. MaxMedia - 1]
BY DEF Numberings

(* Media rows with distinct places below the limit are within the limit.   *)
LEMMA DistinctPlacesBound ==
  ASSUME NEW f \in Numberings, IsInjective(f)
  PROVE  IsFiniteSet(DOMAIN f) /\ Cardinality(DOMAIN f) <= MaxMedia
<1>1. f \in Injection(DOMAIN f, 0 .. MaxMedia - 1)
  BY NumberingElim DEF Injection
<1>2. IsFiniteSet(0 .. MaxMedia - 1) /\ Cardinality(0 .. MaxMedia - 1) = MaxMedia
  <2>1. 0 \in Int /\ MaxMedia - 1 \in Int /\ MaxMedia \in Nat
    BY LimitIsNat
  <2> QED BY <2>1, FS_Interval
<1> QED BY <1>1, <1>2, FS_Injection

(* The files of one POST are finitely many media ids.                      *)
LEMMA NewMediaFinite ==
  ASSUME NEW r \in Posts, NEW n \in 0 .. MaxMedia
  PROVE  IsFiniteSet(NewMedia(r, n)) /\ NewMedia(r, n) \subseteq MediaIds
<1>1. IsFiniteSet({r}) /\ IsFiniteSet(1 .. n)
  <2>1. 1 \in Int /\ n \in Int
    BY LimitIsNat
  <2>2. IsFiniteSet(1 .. n)
    BY <2>1, FS_Interval
  <2> QED BY <2>2, FS_Singleton
<1>2. IsFiniteSet({r} \X (1 .. n))
  BY <1>1, FS_Product
<1>3. 1 .. n \subseteq 1 .. MaxMedia
  BY LimitIsNat
<1> QED BY <1>2, <1>3 DEF NewMedia, MediaIds

(* The order a POST asks for is a numbering.                               *)
LEMMA OrderIsNumbering ==
  ASSUME NEW E \in SUBSET MediaIds, IsFiniteSet(E), WithinLimit(E),
         NEW order \in Bijection(E, 0 .. Cardinality(E) - 1)
  PROVE  order \in Numberings
<1>1. Cardinality(E) \in Nat /\ Cardinality(E) <= MaxMedia
  BY FS_CardinalityType DEF WithinLimit
<1>2. order \in [E -> 0 .. Cardinality(E) - 1]
  BY DEF Bijection, Injection
<1>3. order \in [E -> 0 .. MaxMedia - 1]
  BY <1>1, <1>2, LimitIsNat
<1> QED BY <1>3, NumberingIntro

LEMMA EmptyIsNumbering == NoMedia \in Numberings /\ DOMAIN NoMedia = {} /\ IsInjective(NoMedia)
<1>1. NoMedia \in [{} -> 0 .. MaxMedia - 1]
  BY DEF NoMedia
<1>2. NoMedia \in Numberings
  BY <1>1, NumberingIntro
<1> QED BY <1>2 DEF NoMedia, IsInjective

-----------------------------------------------------------------------------
(* The inductive invariant.                                                *)

(* A request that writes names the submission it writes to.                *)
HoldsRow ==
  \A r \in Posts : post[r].pc \in {"upload", "cleanup", "restore"} => post[r].row.id # None

(* The request that created the submission that is there knows it did.     *)
OwnerKnows ==
  \A r \in Posts : submission.id = r =>
    /\ post[r].pc \in {"upload", "cleanup", "restore", "saved", "ok", "died"}
    /\ post[r].pc \in {"upload", "cleanup", "restore"} => post[r].row.id = r

IInv ==
  /\ TypeOK
  /\ IsInjective(media)
  /\ NoOrphanMedia
  /\ HoldsRow
  /\ OwnerKnows
  /\ FailedPostLeavesNothing

LEMMA InitInv == Init => IInv
<1> SUFFICES ASSUME Init PROVE IInv
  OBVIOUS
<1>1. NoSubmission \in Submission
  BY BlankIsText DEF NoSubmission, Submission
<1>2. PostIdle \in PostRecord
  BY <1>1, BlankIsText, EmptyIsNumbering DEF PostIdle, PostRecord, PostPc, Actions, Statuses
<1>3. HostIdle \in HostRecord
  BY DEF HostIdle, HostRecord, HostPc
<1>4. TypeOK
  BY <1>1, <1>2, <1>3, EmptyIsNumbering DEF Init, TypeOK, Statuses
<1>5. submission.id = None /\ DOMAIN media = {} /\ IsInjective(media)
  BY EmptyIsNumbering DEF Init, NoSubmission
<1>6. \A r \in Posts : post[r].pc = "idle"
  BY DEF Init, PostIdle
<1> QED
  BY <1>4, <1>5, <1>6, NoneIsNoData
  DEF IInv, NoOrphanMedia, HoldsRow, OwnerKnows, FailedPostLeavesNothing

(* Answering a request leaves it a record of its type.                     *)
LEMMA EndTyped ==
  ASSUME TypeOK, NEW r \in Posts, NEW pc \in PostPc, End(r, pc)
  PROVE  /\ post' \in [Posts -> PostRecord]
         /\ post'[r].pc = pc
         /\ \A q \in Posts : q # r => post'[q] = post[q]
<1>1. PostIdle \in PostRecord
  BY BlankIsText, EmptyIsNumbering
  DEF PostIdle, PostRecord, PostPc, Actions, Statuses, NoSubmission, Submission
<1>2. [PostIdle EXCEPT !.pc = pc, !.action = post[r].action] \in PostRecord
  BY <1>1 DEF TypeOK, PostRecord
<1>3. [PostIdle EXCEPT !.pc = pc, !.action = post[r].action].pc = pc
  BY <1>1 DEF PostRecord
<1> QED BY <1>2, <1>3 DEF End, TypeOK

LEMMA HostEndTyped ==
  ASSUME TypeOK, NEW s \in Hosts, NEW pc \in HostPc, HostEnd(s, pc)
  PROVE  /\ host' \in [Hosts -> HostRecord]
         /\ host'[s].pc = pc
BY DEF HostEnd, HostIdle, HostRecord, TypeOK

(* The rows after a transaction are numbered below the limit.              *)
LEMMA MediaAfterTyped ==
  ASSUME TypeOK, NEW r \in Posts
  PROVE  MediaAfter(r) \in Numberings
<1> DEFINE D == (DOMAIN media \ post[r].drop) \cup Uploaded(r)
<1>1. /\ DOMAIN media \subseteq MediaIds
      /\ media \in [DOMAIN media -> 0 .. MaxMedia - 1]
      /\ DOMAIN post[r].order \subseteq MediaIds
      /\ post[r].order \in [DOMAIN post[r].order -> 0 .. MaxMedia - 1]
  BY NumberingElim DEF TypeOK, PostRecord
<1>2. D \in SUBSET MediaIds
  BY <1>1 DEF Uploaded
<1>3. \A m \in D : m \notin DOMAIN post[r].order => m \in DOMAIN media
  BY DEF Uploaded
<1>4. MediaAfter(r) \in [D -> 0 .. MaxMedia - 1]
  BY <1>1, <1>3 DEF MediaAfter
<1> QED BY <1>2, <1>4, NumberingIntro

-----------------------------------------------------------------------------
(* The steps of a participant's request keep the types.                    *)

(* What is read or parsed is typed.                                        *)
LEMMA TypeReads ==
  ASSUME IInv, NEW r \in Posts,
         ReadAssignment(r) \/ ReadSubmission(r) \/ RejectForm(r) \/ ParsePost(r)
  PROVE  TypeOK'
<1> USE DEF IInv
<1>1. CASE ReadAssignment(r)
  BY <1>1 DEF ReadAssignment, TypeOK, PostRecord, PostPc
<1>2. CASE ReadSubmission(r)
  <2>1. CASE End(r, "rejected")
    BY <1>2, <2>1, EndTyped DEF ReadSubmission, TypeOK, PostPc
  <2>2. CASE post' = [post EXCEPT ![r].pc = "form", ![r].row = submission]
    BY <1>2, <2>2 DEF ReadSubmission, TypeOK, PostRecord, PostPc
  <2> QED BY <1>2, <2>1, <2>2 DEF ReadSubmission
<1>3. CASE RejectForm(r)
  BY <1>3, EndTyped DEF RejectForm, TypeOK, PostPc
<1>4. CASE ParsePost(r)
  <2>1. PICK action \in Actions, text \in Texts, drop \in SUBSET ExistingMedia(r),
             n \in 0 .. MaxMedia :
          /\ WithinLimit(Entries(r, drop, n))
          /\ \E order \in Bijection(Entries(r, drop, n), 0 .. Cardinality(Entries(r, drop, n)) - 1) :
               post' = [post EXCEPT ![r] = Parsed(r, action, text, drop, order)]
    BY <1>4, Zenon DEF ParsePost
  <2>2. PICK order \in Bijection(Entries(r, drop, n), 0 .. Cardinality(Entries(r, drop, n)) - 1) :
          post' = [post EXCEPT ![r] = Parsed(r, action, text, drop, order)]
    BY <2>1
  <2>3. ExistingMedia(r) \subseteq DOMAIN media /\ DOMAIN media \subseteq MediaIds
    BY NumberingElim DEF ExistingMedia, TypeOK
  <2>4. IsFiniteSet(ExistingMedia(r) \ drop)
    BY <2>3, DistinctPlacesBound, FS_Subset DEF TypeOK
  <2>5. IsFiniteSet(Entries(r, drop, n)) /\ Entries(r, drop, n) \in SUBSET MediaIds
    BY <2>3, <2>4, NewMediaFinite, FS_Union DEF Entries
  <2>6. order \in Numberings
    BY <2>1, <2>5, OrderIsNumbering
  <2>7. post' \in [Posts -> PostRecord]
    <3>1. drop \in SUBSET MediaIds /\ post[r] \in PostRecord
      BY <2>3 DEF TypeOK
    <3>2. Parsed(r, action, text, drop, order) \in PostRecord
      BY <3>1, <2>6 DEF Parsed, PostRecord, PostPc
    <3> QED BY <2>2, <3>2 DEF TypeOK
  <2> QED BY <1>4, <2>7 DEF ParsePost, TypeOK
<1> QED BY <1>1, <1>2, <1>3, <1>4

(* What is written is typed.                                               *)
LEMMA TypeWrites ==
  ASSUME IInv, NEW r \in Posts,
         CreateSubmission(r) \/ Commit(r) \/ RollBack(r) \/ CleanUp(r) \/ SetStatus(r)
           \/ PostDies(r)
  PROVE  TypeOK'
<1> USE DEF IInv
<1>1. CASE CreateSubmission(r)
  <2> DEFINE row == [id |-> r, text |-> post[r].text, draft |-> post[r].action = "draft",
                     score |-> None]
  <2>1. CASE End(r, "died") /\ UNCHANGED submission
    BY <1>1, <2>1, EndTyped DEF CreateSubmission, TypeOK, PostPc
  <2>2. CASE submission' = row /\ post' = [post EXCEPT ![r] = [post[r] EXCEPT !.pc = "upload", !.row = row]]
    <3>1. row \in Submission
      BY DEF TypeOK, PostRecord, Submission
    <3>2. [post[r] EXCEPT !.pc = "upload", !.row = row] \in PostRecord
      BY <3>1 DEF TypeOK, PostRecord, PostPc
    <3>3. post' \in [Posts -> PostRecord]
      BY <2>2, <3>2 DEF TypeOK
    <3> QED BY <1>1, <2>2, <3>1, <3>3 DEF CreateSubmission, TypeOK
  <2> QED BY <1>1, <2>1, <2>2 DEF CreateSubmission
<1>2. CASE Commit(r)
  <2>1. SavedRow(r) \in Submission
    BY DEF SavedRow, TypeOK, PostRecord, Submission
  <2>2. submission' \in Submission /\ media' \in Numberings
    BY <1>2, <2>1, MediaAfterTyped DEF Commit, TypeOK
  <2>3. post' \in [Posts -> PostRecord]
    BY <1>2 DEF Commit, TypeOK, PostRecord, PostPc
  <2> QED BY <1>2, <2>2, <2>3 DEF Commit, TypeOK
<1>3. CASE RollBack(r)
  <2>1. \E pc \in {"cleanup", "restore"} : post' = [post EXCEPT ![r].pc = pc]
    BY <1>3 DEF RollBack
  <2>2. post' \in [Posts -> PostRecord]
    BY <2>1 DEF TypeOK, PostRecord, PostPc
  <2> QED BY <1>3, <2>2 DEF RollBack, TypeOK
<1>4. CASE CleanUp(r)
  <2>1. RestoredRow(r) \in Submission
    BY DEF RestoredRow, TypeOK, PostRecord, Submission
  <2>2. NoSubmission \in Submission /\ NoMedia \in Numberings
    BY BlankIsText, EmptyIsNumbering DEF NoSubmission, Submission
  <2>3. submission' \in Submission /\ media' \in Numberings
    BY <1>4, <2>1, <2>2 DEF CleanUp, DeleteCreated, RestoreFields, TypeOK
  <2>4. End(r, "failed") \/ End(r, "died")
    BY <1>4 DEF CleanUp, DeleteCreated, RestoreFields
  <2>5. post' \in [Posts -> PostRecord]
    BY <2>4, EndTyped DEF PostPc
  <2> QED BY <1>4, <2>3, <2>5 DEF CleanUp, TypeOK
<1>5. CASE SetStatus(r)
  <2>1. post' \in [Posts -> PostRecord]
    BY <1>5, EndTyped DEF SetStatus, PostPc
  <2> QED BY <1>5, <2>1 DEF SetStatus, StatusFor, TypeOK, Statuses
<1>6. CASE PostDies(r)
  BY <1>6, EndTyped DEF PostDies, TypeOK, PostPc
<1> QED BY <1>1, <1>2, <1>3, <1>4, <1>5, <1>6

(* So are a host's steps.                                                  *)
LEMMA TypeHost ==
  ASSUME IInv, NEW s \in Hosts, HostStep(s)
  PROVE  TypeOK'
<1> USE DEF IInv
<1>1. CASE OpenQueue(s)
  BY <1>1 DEF OpenQueue, TypeOK, HostRecord, HostPc, Submission
<1>2. CASE ReadForScore(s)
  <2>1. CASE HostEnd(s, "rejected")
    BY <1>2, <2>1, HostEndTyped DEF ReadForScore, TypeOK, HostPc
  <2>2. CASE \E new \in Scores :
               host' = [host EXCEPT ![s] =
                 [host[s] EXCEPT !.pc = "read", !.old = submission.score, !.new = new]]
    <3>1. PICK new \in Scores :
            host' = [host EXCEPT ![s] =
              [host[s] EXCEPT !.pc = "read", !.old = submission.score, !.new = new]]
      BY <2>2
    <3>2. [host[s] EXCEPT !.pc = "read", !.old = submission.score, !.new = new] \in HostRecord
      BY DEF TypeOK, HostRecord, HostPc, Submission
    <3>3. host' \in [Hosts -> HostRecord]
      BY <3>1, <3>2 DEF TypeOK
    <3> QED BY <1>2, <3>3 DEF ReadForScore, TypeOK
  <2> QED BY <1>2, <2>1, <2>2 DEF ReadForScore
<1>3. CASE SaveScore(s)
  <2>1. CASE HostEnd(s, "died") /\ UNCHANGED submission
    BY <1>3, <2>1, HostEndTyped DEF SaveScore, TypeOK, HostPc
  <2>2. CASE /\ submission' = [submission EXCEPT !.score = host[s].new]
             /\ host' = [host EXCEPT ![s].pc = "scored"]
    BY <1>3, <2>2 DEF SaveScore, TypeOK, HostRecord, HostPc, Submission
  <2> QED BY <1>3, <2>1, <2>2 DEF SaveScore
<1>4. CASE MarkScored(s)
  BY <1>4 DEF MarkScored, TypeOK, HostRecord, HostPc, Statuses
<1>5. CASE LogScore(s)
  <2>1. ScoreEntry(s) \in AuditEntry
    BY DEF ScoreEntry, AuditEntry, TypeOK, HostRecord
  <2>2. host' \in [Hosts -> HostRecord]
    BY <1>5, HostEndTyped DEF LogScore, HostPc
  <2> QED BY <1>5, <2>1, <2>2 DEF LogScore, TypeOK
<1>6. CASE HostDies(s)
  BY <1>6, HostEndTyped DEF HostDies, TypeOK, HostPc
<1> QED BY <1>1, <1>2, <1>3, <1>4, <1>5, <1>6 DEF HostStep

LEMMA TypeStep == IInv /\ [Next]_vars => TypeOK'
<1> SUFFICES ASSUME IInv, [Next]_vars PROVE TypeOK'
  OBVIOUS
<1>1. CASE \E r \in Posts : PostStep(r)
  BY <1>1, TypeReads, TypeWrites DEF PostStep
<1>2. CASE \E s \in Hosts : HostStep(s)
  BY <1>2, TypeHost
<1>3. CASE UNCHANGED vars
  BY <1>3 DEF vars, IInv, TypeOK
<1> QED BY <1>1, <1>2, <1>3 DEF Next, AllServed

-----------------------------------------------------------------------------
(* The rest of the invariant.                                              *)

RowInv == IsInjective(media) /\ NoOrphanMedia
RequestInv == HoldsRow /\ OwnerKnows /\ FailedPostLeavesNothing

(* Steps that only end a request, or only move it before it writes.        *)
LEMMA QuietStep ==
  ASSUME IInv, NEW r \in Posts, UNCHANGED <<submission, media>>,
         submission.id = r => post'[r].pc \in {"saved", "ok", "died"},
         post'[r].pc \notin {"upload", "cleanup", "restore"},
         \A q \in Posts : q # r => post'[q] = post[q]
  PROVE  RowInv' /\ RequestInv'
BY DEF RowInv, RequestInv, IInv, NoOrphanMedia, HoldsRow, OwnerKnows, FailedPostLeavesNothing

LEMMA RestReads ==
  ASSUME IInv, NEW r \in Posts,
         ReadAssignment(r) \/ ReadSubmission(r) \/ RejectForm(r) \/ ParsePost(r)
  PROVE  RowInv' /\ RequestInv'
<1> USE DEF IInv
<1>1. submission.id # r
  BY DEF OwnerKnows, ReadAssignment, ReadSubmission, RejectForm, ParsePost
<1>2. CASE ReadAssignment(r)
  BY <1>1, <1>2, QuietStep DEF ReadAssignment, TypeOK, PostRecord
<1>3. CASE ReadSubmission(r)
  <2>1. CASE End(r, "rejected")
    BY <1>1, <1>3, <2>1, QuietStep, EndTyped DEF ReadSubmission, PostPc
  <2>2. CASE post' = [post EXCEPT ![r].pc = "form", ![r].row = submission]
    <3>1. post'[r].pc = "form" /\ \A q \in Posts : q # r => post'[q] = post[q]
      BY <2>2 DEF TypeOK, PostRecord
    <3> QED BY <1>1, <1>3, <3>1, QuietStep DEF ReadSubmission
  <2> QED BY <1>3, <2>1, <2>2 DEF ReadSubmission
<1>4. CASE RejectForm(r)
  BY <1>1, <1>4, QuietStep, EndTyped DEF RejectForm, PostPc
<1>5. CASE ParsePost(r)
  <2>1. PICK action, text, drop, order :
          post' = [post EXCEPT ![r] = Parsed(r, action, text, drop, order)]
    BY <1>5, Zenon DEF ParsePost
  <2>2. post'[r] = Parsed(r, action, text, drop, order) /\ \A q \in Posts : q # r => post'[q] = post[q]
    BY <2>1 DEF TypeOK
  <2>3. /\ Parsed(r, action, text, drop, order).pc \in {"create", "upload"}
        /\ Parsed(r, action, text, drop, order).pc = "upload" => post[r].row.id # None
        /\ Parsed(r, action, text, drop, order).row = post[r].row
    BY DEF Parsed, TypeOK, PostRecord
  <2>4. UNCHANGED <<submission, media>>
    BY <1>5 DEF ParsePost
  <2> QED
    BY <1>1, <2>2, <2>3, <2>4
    DEF RowInv, RequestInv, NoOrphanMedia, HoldsRow, OwnerKnows, FailedPostLeavesNothing
<1> QED BY <1>2, <1>3, <1>4, <1>5

LEMMA RestCreate ==
  ASSUME IInv, NEW r \in Posts, CreateSubmission(r)
  PROVE  RowInv' /\ RequestInv'
<1> USE DEF IInv
<1> DEFINE row == [id |-> r, text |-> post[r].text, draft |-> post[r].action = "draft",
                   score |-> None]
<1>1. post[r].pc = "create" /\ submission.id # r /\ media' = media
  BY DEF CreateSubmission, OwnerKnows
<1>2. CASE End(r, "died") /\ UNCHANGED submission
  BY <1>1, <1>2, QuietStep, EndTyped DEF CreateSubmission, PostPc
<1>3. CASE /\ submission.id = None /\ submission' = row
           /\ post' = [post EXCEPT ![r] = [post[r] EXCEPT !.pc = "upload", !.row = row]]
  <2>1. /\ post'[r].pc = "upload" /\ post'[r].row.id = r
        /\ \A q \in Posts : q # r => post'[q] = post[q]
    BY <1>3 DEF TypeOK, PostRecord
  <2>2. submission'.id = r /\ r # None
    BY <1>3, NoneIsNoData
  <2>3. RowInv'
    BY <1>1, <2>2 DEF RowInv, NoOrphanMedia
  <2> QED
    BY <1>1, <2>1, <2>2, <2>3 DEF RequestInv, HoldsRow, OwnerKnows, FailedPostLeavesNothing
<1> QED BY <1>2, <1>3 DEF CreateSubmission

LEMMA RestCommit ==
  ASSUME IInv, NEW r \in Posts, Commit(r)
  PROVE  RowInv' /\ RequestInv'
<1> USE DEF IInv
<1>1. /\ post'[r].pc = "saved" /\ \A q \in Posts : q # r => post'[q] = post[q]
      /\ post[r].pc = "upload" /\ post[r].row.id # None
  BY DEF Commit, TypeOK, PostRecord, HoldsRow
<1>2. CASE RowIsThere(r)
  <2>1. submission'.id = submission.id /\ submission.id # None
    BY <1>1, <1>2 DEF Commit, SavedRow, RowIsThere, TypeOK, Submission
  <2>2. RowInv'
    BY <1>2, <2>1 DEF RowInv, Commit, OrdersUnique, NoOrphanMedia
  <2> QED
    BY <1>1, <2>1, <2>2 DEF RequestInv, HoldsRow, OwnerKnows, FailedPostLeavesNothing
<1>3. CASE ~RowIsThere(r)
  BY <1>1, <1>3, QuietStep DEF Commit
<1> QED BY <1>2, <1>3

LEMMA RestRollBack ==
  ASSUME IInv, NEW r \in Posts, RollBack(r)
  PROVE  RowInv' /\ RequestInv'
<1> USE DEF IInv
<1>1. PICK pc \in {"cleanup", "restore"} : post' = [post EXCEPT ![r].pc = pc]
  BY DEF RollBack
<1>2. /\ post'[r].pc \in {"cleanup", "restore"} /\ post'[r].row = post[r].row
      /\ \A q \in Posts : q # r => post'[q] = post[q]
  BY <1>1 DEF TypeOK, PostRecord
<1>3. post[r].pc = "upload" /\ UNCHANGED <<submission, media>>
  BY DEF RollBack
<1> QED
  BY <1>2, <1>3
  DEF RowInv, RequestInv, NoOrphanMedia, HoldsRow, OwnerKnows, FailedPostLeavesNothing

LEMMA RestCleanUp ==
  ASSUME IInv, NEW r \in Posts, CleanUp(r)
  PROVE  RowInv' /\ RequestInv'
<1> USE DEF IInv
<1>1. post[r].pc \in {"cleanup", "restore"} /\ post[r].row.id # None
  BY DEF CleanUp, HoldsRow
<1>2. CASE DeleteCreated(r)
  <2>1. post'[r].pc = "failed" /\ \A q \in Posts : q # r => post'[q] = post[q]
    BY <1>2, EndTyped DEF DeleteCreated, PostPc
  <2>2. CASE submission' = NoSubmission /\ media' = NoMedia
    <3>1. submission'.id = None /\ DOMAIN media' = {} /\ IsInjective(media)'
      BY <2>2, EmptyIsNumbering DEF NoSubmission
    <3>2. \A q \in Posts : q # None
      BY NoneIsNoData
    <3> QED
      BY <2>1, <3>1, <3>2
      DEF RowInv, RequestInv, NoOrphanMedia, HoldsRow, OwnerKnows, FailedPostLeavesNothing
  <2>3. CASE ~RowIsThere(r) /\ UNCHANGED <<submission, media>>
    <3>1. submission.id # r
      BY <1>2, <2>3 DEF DeleteCreated, Created, RowIsThere
    <3> QED BY <2>1, <2>3, <3>1, QuietStep
  <2> QED BY <1>2, <2>2, <2>3 DEF DeleteCreated
<1>3. CASE RestoreFields(r)
  <2>1. submission.id # r
    BY <1>1, <1>3 DEF RestoreFields, Created, OwnerKnows
  <2>2. /\ post'[r].pc \in {"failed", "died"}
        /\ \A q \in Posts : q # r => post'[q] = post[q]
    BY <1>3, EndTyped DEF RestoreFields, PostPc
  <2>3. media' = media /\ submission'.id = submission.id
    BY <1>3 DEF RestoreFields, RestoredRow, TypeOK, Submission
  <2> QED
    BY <2>1, <2>2, <2>3
    DEF RowInv, RequestInv, NoOrphanMedia, HoldsRow, OwnerKnows, FailedPostLeavesNothing
<1> QED BY <1>2, <1>3 DEF CleanUp

LEMMA RestEnds ==
  ASSUME IInv, NEW r \in Posts, SetStatus(r) \/ PostDies(r)
  PROVE  RowInv' /\ RequestInv'
<1>1. PICK pc \in {"ok", "died"} : End(r, pc) /\ UNCHANGED <<submission, media>>
  BY DEF SetStatus, PostDies
<1>2. TypeOK /\ pc \in PostPc
  BY DEF IInv, PostPc
<1>3. post'[r].pc = pc /\ \A q \in Posts : q # r => post'[q] = post[q]
  BY <1>1, <1>2, EndTyped
<1> QED BY <1>1, <1>3, QuietStep

LEMMA RestHost ==
  ASSUME IInv, NEW s \in Hosts, HostStep(s)
  PROVE  RowInv' /\ RequestInv'
<1> USE DEF IInv
<1>1. media' = media /\ post' = post /\ submission'.id = submission.id
  BY DEF HostStep, OpenQueue, ReadForScore, SaveScore, MarkScored, LogScore, HostDies,
         TypeOK, Submission
<1> QED
  BY <1>1
  DEF RowInv, RequestInv, NoOrphanMedia, HoldsRow, OwnerKnows, FailedPostLeavesNothing

LEMMA NextInv == IInv /\ [Next]_vars => IInv'
<1> SUFFICES ASSUME IInv, [Next]_vars PROVE IInv'
  OBVIOUS
<1>1. TypeOK'
  BY TypeStep
<1>2. RowInv' /\ RequestInv'
  <2>1. CASE \E r \in Posts : PostStep(r)
    BY <2>1, RestReads, RestCreate, RestCommit, RestRollBack, RestCleanUp, RestEnds
    DEF PostStep
  <2>2. CASE \E s \in Hosts : HostStep(s)
    BY <2>2, RestHost
  <2>3. CASE UNCHANGED vars
    BY <2>3
    DEF vars, IInv, RowInv, RequestInv, NoOrphanMedia, HoldsRow, OwnerKnows,
        FailedPostLeavesNothing
  <2> QED BY <2>1, <2>2, <2>3 DEF Next, AllServed
<1> QED BY <1>1, <1>2 DEF IInv, RowInv, RequestInv

THEOREM Invariance == Spec => []IInv
BY InitInv, NextInv, PTL DEF Spec

-----------------------------------------------------------------------------
(* What follows from it.                                                   *)

(* Every column and request holds a value of its type.                     *)
THEOREM TypeCorrect == Spec => []TypeOK
<1>1. IInv => TypeOK
  BY DEF IInv
<1> QED BY <1>1, Invariance, PTL

(* However the participant's requests interleave and whatever fails, the   *)
(* submission never holds more than MaxMedia media files.                  *)
THEOREM LimitHolds == Spec => []MediaWithinLimit
<1>1. IInv => MediaWithinLimit
  BY DistinctPlacesBound DEF IInv, TypeOK, MediaWithinLimit
<1> QED BY <1>1, Invariance, PTL

(* No media row is left without its submission.                            *)
THEOREM NoOrphans == Spec => []NoOrphanMedia
<1>1. IInv => NoOrphanMedia
  BY DEF IInv
<1> QED BY <1>1, Invariance, PTL

(* A POST answered with an upload error leaves no submission of its own.   *)
THEOREM FailureLeavesNothing == Spec => []FailedPostLeavesNothing
<1>1. IInv => FailedPostLeavesNothing
  BY DEF IInv
<1> QED BY <1>1, Invariance, PTL

(* No participant's step changes the score of a submission: what it writes *)
(* are the text and the draft flag, and a new submission has another id.   *)
LEMMA PostKeepsScore ==
  ASSUME IInv, NEW r \in Posts, PostStep(r), submission'.id = submission.id
  PROVE  submission'.score = submission.score
<1> USE DEF IInv
<1>1. CASE CreateSubmission(r)
  BY <1>1, NoneIsNoData DEF CreateSubmission
<1>2. CASE Commit(r)
  BY <1>2 DEF Commit, SavedRow, TypeOK, Submission
<1>3. CASE CleanUp(r)
  <2>1. CASE DeleteCreated(r)
    BY <1>3, <2>1, NoneIsNoData
    DEF CleanUp, DeleteCreated, RowIsThere, Created, NoSubmission
  <2>2. CASE RestoreFields(r)
    BY <2>2 DEF RestoreFields, RestoredRow, TypeOK, Submission
  <2> QED BY <1>3, <2>1, <2>2 DEF CleanUp
<1>4. CASE UNCHANGED submission
  BY <1>4
<1> QED
  BY <1>1, <1>2, <1>3, <1>4
  DEF PostStep, ReadAssignment, ReadSubmission, RejectForm, ParsePost, RollBack, SetStatus,
      PostDies

(* A host's step that changes a score is the save of the score it posted.  *)
LEMMA HostWritesItsScore ==
  ASSUME IInv, NEW s \in Hosts, HostStep(s), submission'.score # submission.score
  PROVE  host[s].pc = "read" /\ host'[s].pc = "scored" /\ submission'.score = host[s].new
<1> USE DEF IInv
<1>1. SaveScore(s) /\ submission' # submission
  BY DEF HostStep, OpenQueue, ReadForScore, MarkScored, LogScore, HostDies
<1>2. /\ submission' = [submission EXCEPT !.score = host[s].new]
      /\ host' = [host EXCEPT ![s].pc = "scored"]
  BY <1>1 DEF SaveScore
<1> QED BY <1>1, <1>2 DEF SaveScore, TypeOK, Submission, HostRecord

(* The score of a submission is only ever written by a host's save, never  *)
(* put back by a participant's request that read the row earlier.          *)
THEOREM ScoresAreTheHosts == Spec => ScoreOnlyByHosts
<1>1. ASSUME IInv, [Next]_vars
      PROVE  [ /\ submission'.id = submission.id
               /\ submission'.score # submission.score
               => \E s \in Hosts : /\ host[s].pc = "read"
                                   /\ host'[s].pc = "scored"
                                   /\ submission'.score = host[s].new ]_vars
  <2>1. CASE \E r \in Posts : PostStep(r)
    BY <1>1, <2>1, PostKeepsScore
  <2>2. CASE \E s \in Hosts : HostStep(s)
    BY <1>1, <2>2, HostWritesItsScore
  <2>3. CASE UNCHANGED vars
    BY <2>3
  <2> QED BY <1>1, <2>1, <2>2, <2>3 DEF Next, AllServed
<1> QED BY <1>1, Invariance, PTL DEF Spec, ScoreOnlyByHosts

-----------------------------------------------------------------------------
(* Requests one at a time.  What the request that is served has read is    *)
(* what the tables hold until it is answered.                              *)

OneServing ==
  /\ \A r, q \in Posts : PostServing(r) /\ PostServing(q) => r = q
  /\ \A s, u \in Hosts : HostServing(s) /\ HostServing(u) => s = u
  /\ \A r \in Posts, s \in Hosts : ~(PostServing(r) /\ HostServing(s))

(* The media a POST asks for: in places without a gap, within the limit,   *)
(* and the rows that its transaction leaves.                               *)
Arranged(r) ==
  /\ post[r].order \in Bijection(DOMAIN post[r].order,
                                 0 .. Cardinality(DOMAIN post[r].order) - 1)
  /\ Cardinality(DOMAIN post[r].order) <= MaxMedia
  /\ DOMAIN post[r].order = (DOMAIN media \ post[r].drop) \cup Uploaded(r)
  /\ post[r].text # Blank \/ DOMAIN post[r].order # {}

(* What a POST has read, and what it knows of a submission it has created. *)
Current(r) ==
  /\ post[r].pc = "assignment" => post[r].status = status
  /\ post[r].pc \in {"form", "create", "upload", "cleanup", "restore"} =>
       /\ post[r].row = submission
       /\ status = "scored" => submission.id \in {None, r}
  /\ post[r].pc = "create" => submission.id = None
  /\ post[r].pc \in {"upload", "cleanup", "restore"} /\ submission.id = r =>
       DOMAIN media = {} /\ submission.score = None
  /\ post[r].pc \in {"create", "upload"} => Arranged(r)

(* What a host's request has read and written.                             *)
Asked(s) ==
  /\ host[s].pc \in {"queue", "read", "scored", "marked"} => host[s].id # None
  /\ host[s].pc \in {"read", "scored", "marked"} =>
       host[s].id = submission.id /\ host[s].new \in Scores
  /\ host[s].pc = "read" => host[s].old = submission.score
  /\ host[s].pc \in {"scored", "marked"} => submission.score = host[s].new

(* What a POST has saved is there and cannot be deleted.                   *)
Kept ==
  (\E r \in Posts : post[r].pc \in {"saved", "ok"}) => submission.id # None /\ ~Tentative

SerialInv ==
  /\ OneServing
  /\ submission.id = None => submission = NoSubmission
  /\ \A r \in Posts : Current(r)
  /\ \A s \in Hosts : Asked(s)
  /\ Kept

(* While a POST takes a step nobody else is served.                        *)
LEMMA PostAlone ==
  ASSUME ~Overlap, TypeOK, OneServing, NEW r \in Posts, PostStep(r)
  PROVE  /\ host' = host /\ audit' = audit
         /\ \A q \in Posts : q # r => post'[q] = post[q] /\ ~PostServing(q)
         /\ \A s \in Hosts : ~HostServing(s)
<1>1. host' = host /\ audit' = audit
  BY DEF PostStep, ReadAssignment, ReadSubmission, RejectForm, ParsePost, CreateSubmission,
         Commit, RollBack, CleanUp, SetStatus, PostDies
<1>2. \A q \in Posts : q # r => post'[q] = post[q]
  <2>1. ASSUME NEW x, post' = [post EXCEPT ![r] = x]
        PROVE  \A q \in Posts : q # r => post'[q] = post[q]
    BY <2>1 DEF TypeOK
  <2>2. CASE ReadAssignment(r) BY <2>2 DEF ReadAssignment, TypeOK
  <2>3. CASE ReadSubmission(r) BY <2>3 DEF ReadSubmission, End, TypeOK
  <2>4. CASE RejectForm(r) \/ SetStatus(r) \/ PostDies(r)
    BY <2>1, <2>4 DEF RejectForm, SetStatus, PostDies, End
  <2>5. CASE ParsePost(r)
    <3>1. PICK action, text, drop, order :
            post' = [post EXCEPT ![r] = Parsed(r, action, text, drop, order)]
      BY <2>5, Zenon DEF ParsePost
    <3>. QED BY <2>1, <3>1
  <2>6. CASE CreateSubmission(r) BY <2>1, <2>6 DEF CreateSubmission, End
  <2>7. CASE Commit(r) BY <2>7 DEF Commit, TypeOK
  <2>8. CASE RollBack(r) BY <2>8 DEF RollBack, TypeOK
  <2>9. CASE CleanUp(r) BY <2>1, <2>9 DEF CleanUp, DeleteCreated, RestoreFields, End
  <2>. QED BY <2>2, <2>3, <2>4, <2>5, <2>6, <2>7, <2>8, <2>9 DEF PostStep
<1>3. CASE ReadAssignment(r)
  BY <1>1, <1>2, <1>3 DEF ReadAssignment, MayStart, NoneServing
<1>4. CASE ~ReadAssignment(r)
  <2>1. PostServing(r)
    BY <1>4 DEF PostStep, PostServing, ReadSubmission, RejectForm, ParsePost, CreateSubmission,
                Commit, RollBack, CleanUp, SetStatus, PostDies
  <2>. QED BY <1>1, <1>2, <2>1 DEF OneServing
<1>. QED BY <1>3, <1>4

(* Nor while a host's request does, unless the host only opens the queue.  *)
LEMMA HostAlone ==
  ASSUME ~Overlap, TypeOK, OneServing, NEW s \in Hosts, HostStep(s)
  PROVE  /\ post' = post /\ media' = media
         /\ \A u \in Hosts : u # s => host'[u] = host[u]
         /\ ~OpenQueue(s) => /\ \A u \in Hosts : u # s => ~HostServing(u)
                             /\ \A r \in Posts : ~PostServing(r)
<1>1. post' = post /\ media' = media
  BY DEF HostStep, OpenQueue, ReadForScore, SaveScore, MarkScored, LogScore, HostDies
<1>2. \A u \in Hosts : u # s => host'[u] = host[u]
  BY DEF HostStep, OpenQueue, ReadForScore, SaveScore, MarkScored, LogScore, HostDies, HostEnd,
         TypeOK
<1>3. CASE ReadForScore(s)
  BY <1>1, <1>2, <1>3 DEF ReadForScore, MayStart, NoneServing
<1>4. CASE ~OpenQueue(s) /\ ~ReadForScore(s)
  <2>1. HostServing(s)
    BY <1>4 DEF HostStep, HostServing, SaveScore, MarkScored, LogScore, HostDies
  <2>. QED BY <1>1, <1>2, <2>1 DEF OneServing
<1>. QED BY <1>1, <1>2, <1>3, <1>4

LEMMA StepOneServing ==
  ASSUME ~Overlap, TypeOK, OneServing, [Next]_vars PROVE OneServing'
<1>1. ASSUME NEW r \in Posts, PostStep(r) PROVE OneServing'
  <2>1. /\ \A q \in Posts : q # r => ~PostServing(q)'
        /\ \A s \in Hosts : ~HostServing(s)'
    BY <1>1, PostAlone DEF PostServing, HostServing
  <2>. QED BY <2>1 DEF OneServing
<1>2. ASSUME NEW s \in Hosts, HostStep(s), ~OpenQueue(s) PROVE OneServing'
  <2>1. /\ \A u \in Hosts : u # s => ~HostServing(u)'
        /\ \A r \in Posts : ~PostServing(r)'
    BY <1>2, HostAlone DEF PostServing, HostServing
  <2>. QED BY <2>1 DEF OneServing
<1>3. ASSUME NEW s \in Hosts, OpenQueue(s) PROVE OneServing'
  <2>1. host'[s].pc = "queue" BY <1>3 DEF OpenQueue, TypeOK, HostRecord
  <2>2. /\ ~HostServing(s)'
        /\ \A u \in Hosts : u # s => (HostServing(u)' <=> HostServing(u))
        /\ \A r \in Posts : PostServing(r)' <=> PostServing(r)
    BY <1>3, <2>1, HostAlone DEF PostServing, HostServing, HostStep
  <2>. QED BY <2>2 DEF OneServing
<1>4. CASE UNCHANGED vars BY <1>4 DEF vars, OneServing, PostServing, HostServing
<1>. QED BY <1>1, <1>2, <1>3, <1>4 DEF Next, AllServed

(* What the steps of a POST leave of the invariant: its own part, a row    *)
(* that is there or not, and the promise to those who have been answered.  *)
PostKeeps(r) == Current(r)' /\ (submission'.id = None => submission' = NoSubmission) /\ Kept'

LEMMA SerialPost ==
  ASSUME ~Overlap, IInv, SerialInv, NEW r \in Posts, PostStep(r), PostKeeps(r)
  PROVE  SerialInv'
<1>1. OneServing' /\ TypeOK
  BY StepOneServing DEF IInv, SerialInv, Next
<1>2. /\ host' = host /\ \A s \in Hosts : ~HostServing(s)
      /\ \A q \in Posts : q # r => post'[q] = post[q] /\ ~PostServing(q)
  BY <1>1, PostAlone DEF SerialInv
<1>3. ASSUME NEW q \in Posts PROVE Current(q)'
  <2>1. CASE q = r BY <2>1 DEF PostKeeps
  <2>2. CASE q # r
    <3>1. post'[q].pc \notin {"assignment", "form", "create", "upload", "cleanup", "restore"}
      BY <1>2, <2>2 DEF PostServing
    <3>. QED BY <3>1 DEF Current
  <2>. QED BY <2>1, <2>2
<1>4. ASSUME NEW s \in Hosts PROVE Asked(s)'
  <2>1. host[s].pc \notin {"read", "scored", "marked"} BY <1>2 DEF HostServing
  <2>. QED BY <1>2, <2>1 DEF Asked, SerialInv
<1>. QED BY <1>1, <1>3, <1>4 DEF SerialInv, PostKeeps

(* Three ways to keep the promise.                                         *)
LEMMA KeptIfAnswered ==
  ASSUME ~Overlap, TypeOK, OneServing, NEW r \in Posts, PostStep(r), submission'.id # None,
         post'[r].pc \notin {"upload", "cleanup", "restore"} \/ post'[r].row.id # r
  PROVE  Kept'
<1>1. \A q \in Posts : q # r => post'[q] = post[q] /\ ~PostServing(q) BY PostAlone
<1>2. ~Tentative' BY <1>1 DEF Tentative, Created, PostServing
<1>. QED BY <1>2 DEF Kept

LEMMA KeptIfUnchanged ==
  ASSUME ~Overlap, TypeOK, OneServing, Kept, NEW r \in Posts, PostStep(r),
         submission' = submission,
         post'[r].pc \notin {"upload", "cleanup", "restore", "saved", "ok"}
  PROVE  Kept'
<1>1. \A q \in Posts : q # r => post'[q] = post[q] /\ ~PostServing(q) BY PostAlone
<1>2. ~Tentative' BY <1>1 DEF Tentative, PostServing
<1>3. (\E q \in Posts : post'[q].pc \in {"saved", "ok"})
        => \E q \in Posts : post[q].pc \in {"saved", "ok"}
  BY <1>1
<1>. QED BY <1>2, <1>3 DEF Kept

LEMMA KeptIfNone ==
  ASSUME ~Overlap, TypeOK, OneServing, Kept, NEW r \in Posts, PostStep(r),
         submission.id = None \/ Tentative, post'[r].pc \notin {"saved", "ok"}
  PROVE  Kept'
<1>1. \A q \in Posts : q # r => post'[q] = post[q] BY PostAlone
<1>2. \A q \in Posts : post[q].pc \notin {"saved", "ok"} BY DEF Kept
<1>3. \A q \in Posts : post'[q].pc \notin {"saved", "ok"} BY <1>1, <1>2
<1>. QED BY <1>3 DEF Kept

LEMMA SerialEnds ==
  ASSUME ~Overlap, IInv, SerialInv, NEW r \in Posts, submission' = submission, PostStep(r),
         NEW pc \in PostPc, End(r, pc),
         pc \in {"rejected", "died"} \/ (pc = "ok" /\ post[r].pc = "saved")
  PROVE  PostKeeps(r)
<1>1. TypeOK /\ OneServing /\ Kept BY DEF IInv, SerialInv
<1>2. post'[r].pc = pc BY <1>1, EndTyped
<1>3. Current(r)' BY <1>2 DEF Current
<1>4. Kept'
  <2>1. CASE pc \in {"rejected", "died"} BY <1>1, <1>2, <2>1, KeptIfUnchanged
  <2>2. CASE pc = "ok" /\ post[r].pc = "saved"
    <3>1. submission.id # None BY <1>1, <2>2 DEF Kept
    <3>. QED BY <1>1, <1>2, <2>2, <3>1, KeptIfAnswered
  <2>. QED BY <2>1, <2>2
<1>. QED BY <1>3, <1>4 DEF PostKeeps, SerialInv

LEMMA SerialReads ==
  ASSUME ~Overlap, IInv, SerialInv, NEW r \in Posts, ReadAssignment(r) \/ ReadSubmission(r)
  PROVE  PostKeeps(r)
<1>1. TypeOK /\ OneServing /\ Kept /\ Current(r) /\ PostStep(r)
  BY DEF IInv, SerialInv, PostStep
<1>2. CASE ReadAssignment(r)
  <2>1. post'[r].pc = "assignment" /\ post'[r].status = status'
    BY <1>1, <1>2 DEF ReadAssignment, TypeOK, PostRecord
  <2>2. submission' = submission BY <1>2 DEF ReadAssignment
  <2>3. Current(r)' BY <2>1 DEF Current
  <2>. QED BY <1>1, <2>1, <2>2, <2>3, KeptIfUnchanged DEF PostKeeps, SerialInv
<1>3. CASE ReadSubmission(r) /\ Locked(post[r].status, submission)
  BY <1>1, <1>3, SerialEnds DEF ReadSubmission, PostPc
<1>4. CASE ReadSubmission(r) /\ ~Locked(post[r].status, submission)
  <2>1. /\ post' = [post EXCEPT ![r].pc = "form", ![r].row = submission]
        /\ submission' = submission /\ status' = status /\ post[r].pc = "assignment"
    BY <1>4 DEF ReadSubmission
  <2>2. post'[r].pc = "form" /\ post'[r].row = submission'
    BY <1>1, <2>1 DEF TypeOK, PostRecord
  <2>3. status = "scored" => submission.id = None
    BY <1>1, <1>4, <2>1 DEF Current, Locked
  <2>4. Current(r)' BY <2>1, <2>2, <2>3 DEF Current
  <2>. QED BY <1>1, <2>1, <2>2, <2>4, KeptIfUnchanged DEF PostKeeps, SerialInv
<1>. QED BY <1>2, <1>3, <1>4

(* The entries of the form that is parsed are in order.                    *)
LEMMA ParsedIsArranged ==
  ASSUME TypeOK, NoOrphanMedia, NEW r \in Posts, post[r].row = submission, NEW drop,
         NEW n \in 0 .. MaxMedia, NEW text, WithinLimit(Entries(r, drop, n)),
         text # Blank \/ Entries(r, drop, n) # {},
         NEW order \in Bijection(Entries(r, drop, n), 0 .. Cardinality(Entries(r, drop, n)) - 1),
         media' = media,
         post'[r].order = order, post'[r].text = text, post'[r].drop = drop
  PROVE  Arranged(r)'
<1>. DEFINE E == Entries(r, drop, n)
<1>1. DOMAIN order = E BY DEF Bijection, Injection
<1>2. ExistingMedia(r) = DOMAIN media BY DEF ExistingMedia, NoOrphanMedia
<1>3. NewMedia(r, n) \subseteq NewMedia(r, MaxMedia)
  BY LimitIsNat DEF NewMedia
<1>4. E = (DOMAIN media \ drop) \cup (E \cap NewMedia(r, MaxMedia))
  BY <1>2, <1>3 DEF Entries
<1>. HIDE DEF E
<1>5. Uploaded(r)' = E \cap NewMedia(r, MaxMedia) BY <1>1 DEF Uploaded
<1>6. WithinLimit(E) /\ (text # Blank \/ E # {})
      /\ order \in Bijection(E, 0 .. Cardinality(E) - 1)
  BY DEF E
<1>. QED BY <1>1, <1>4, <1>5, <1>6 DEF Arranged, WithinLimit

LEMMA SerialParse ==
  ASSUME ~Overlap, IInv, SerialInv, NEW r \in Posts, ParsePost(r)
  PROVE  PostKeeps(r)
<1>1. TypeOK /\ OneServing /\ Kept /\ Current(r) /\ PostStep(r) /\ NoOrphanMedia
  BY DEF IInv, SerialInv, PostStep
<1>2. /\ post[r].pc = "form" /\ post[r].row = submission
      /\ status' = status /\ submission' = submission /\ media' = media
      /\ status = "scored" => submission.id \in {None, r}
  BY <1>1 DEF ParsePost, Current
<1>3. submission.id # r BY <1>2 DEF IInv, OwnerKnows
<1>4. PICK action \in Actions, text \in Texts, drop \in SUBSET ExistingMedia(r),
           n \in 0 .. MaxMedia :
        /\ WithinLimit(Entries(r, drop, n))
        /\ text # Blank \/ Entries(r, drop, n) # {}
        /\ \E order \in Bijection(Entries(r, drop, n), 0 .. Cardinality(Entries(r, drop, n)) - 1) :
             post' = [post EXCEPT ![r] = Parsed(r, action, text, drop, order)]
  BY Zenon DEF ParsePost
<1>5. PICK order \in Bijection(Entries(r, drop, n), 0 .. Cardinality(Entries(r, drop, n)) - 1) :
        post' = [post EXCEPT ![r] = Parsed(r, action, text, drop, order)]
  BY <1>4
<1>6. /\ post'[r].pc = IF submission.id = None THEN "create" ELSE "upload"
      /\ post'[r].row = submission /\ post'[r].order = order
      /\ post'[r].text = text /\ post'[r].drop = drop
  BY <1>1, <1>2, <1>5 DEF Parsed, TypeOK, PostRecord
<1>7. Arranged(r)' BY <1>1, <1>2, <1>4, <1>6, ParsedIsArranged
<1>8. Current(r)' BY <1>2, <1>3, <1>6, <1>7 DEF Current
<1>9. Kept'
  <2>1. CASE submission.id = None BY <1>1, <1>6, <2>1, KeptIfNone
  <2>2. CASE submission.id # None BY <1>1, <1>2, <1>3, <1>6, <2>2, KeptIfAnswered
  <2>. QED BY <2>1, <2>2
<1>. QED BY <1>2, <1>8, <1>9 DEF PostKeeps, SerialInv

(* The one-to-one key never refuses a creation.                            *)
LEMMA CreateSucceeds ==
  ASSUME TypeOK, NEW r \in Posts, Current(r), CreateSubmission(r), NEW row,
         row = [id |-> r, text |-> post[r].text, draft |-> post[r].action = "draft",
                score |-> None]
  PROVE  /\ submission.id = None /\ submission' = row
         /\ post'[r].pc = "upload" /\ post'[r].row = row
         /\ \A f \in {"text", "drop", "order", "action"} : post'[r][f] = post[r][f]
         /\ UNCHANGED <<status, media>>
<1>1. submission.id = None BY DEF CreateSubmission, Current
<1>2. submission' = row /\ post' = [post EXCEPT ![r] = [post[r] EXCEPT !.pc = "upload", !.row = row]]
  BY <1>1 DEF CreateSubmission
<1>3. UNCHANGED <<status, media>> BY DEF CreateSubmission
<1>. QED BY <1>1, <1>2, <1>3 DEF TypeOK, PostRecord

LEMMA SerialCreate ==
  ASSUME ~Overlap, IInv, SerialInv, NEW r \in Posts, CreateSubmission(r)
  PROVE  PostKeeps(r)
<1>1. TypeOK /\ OneServing /\ Kept /\ Current(r) /\ PostStep(r) /\ NoOrphanMedia
  BY DEF IInv, SerialInv, PostStep
<1>. DEFINE row == [id |-> r, text |-> post[r].text, draft |-> post[r].action = "draft",
                    score |-> None]
<1>2. row.id = r /\ row.score = None /\ r # None BY NoneIsNoData
<1>. HIDE DEF row
<1>3. /\ submission.id = None /\ submission' = row
      /\ post'[r].pc = "upload" /\ post'[r].row = row
      /\ \A f \in {"text", "drop", "order", "action"} : post'[r][f] = post[r][f]
      /\ UNCHANGED <<status, media>>
  BY <1>1, CreateSucceeds DEF row
<1>4. post'[r].text = post[r].text /\ post'[r].drop = post[r].drop
      /\ post'[r].order = post[r].order
  BY <1>3
<1>5. Arranged(r) BY <1>1 DEF Current, CreateSubmission
<1>6. Uploaded(r)' = Uploaded(r) BY <1>4 DEF Uploaded
<1>7. Arranged(r)' BY <1>3, <1>4, <1>5, <1>6 DEF Arranged
<1>8. DOMAIN media' = {} BY <1>1, <1>3 DEF NoOrphanMedia
<1>9. Current(r)' BY <1>2, <1>3, <1>7, <1>8 DEF Current
<1>10. Kept' BY <1>1, <1>3, KeptIfNone
<1>. QED BY <1>2, <1>3, <1>9, <1>10 DEF PostKeeps

(* The transaction finds the submission as it was read, and nobody else    *)
(* has taken a place.                                                      *)
LEMMA CommitSucceeds ==
  ASSUME TypeOK, HoldsRow, NEW r \in Posts, Current(r), post[r].pc = "upload"
  PROVE  /\ RowIsThere(r) /\ submission.id # None
         /\ MediaAfter(r) = post[r].order /\ OrdersUnique(MediaAfter(r))
<1>1. RowIsThere(r) /\ submission.id # None
  BY DEF Current, RowIsThere, HoldsRow
<1>2. Arranged(r) BY DEF Current
<1>. DEFINE order == post[r].order
            D == DOMAIN post[r].order
<1>3. order \in [D -> 0 .. Cardinality(D) - 1] /\ IsInjective(order)
  BY <1>2 DEF Arranged, Bijection, Injection
<1>4. MediaAfter(r) = [m \in D |-> order[m]]
  <2>1. D = (DOMAIN media \ post[r].drop) \cup Uploaded(r) BY <1>2 DEF Arranged
  <2>. HIDE DEF D, order
  <2>2. D = DOMAIN order BY DEF D, order
  <2>. QED BY <2>1, <2>2 DEF MediaAfter, order
<1>5. MediaAfter(r) = order BY <1>3, <1>4
<1>. QED BY <1>1, <1>3, <1>5 DEF OrdersUnique

LEMMA SerialCommit ==
  ASSUME ~Overlap, IInv, SerialInv, NEW r \in Posts, Commit(r)
  PROVE  PostKeeps(r)
<1>1. TypeOK /\ OneServing /\ Current(r) /\ PostStep(r) /\ HoldsRow
  BY DEF IInv, SerialInv, PostStep
<1>2. post[r].pc = "upload" /\ post' = [post EXCEPT ![r].pc = "saved"] BY DEF Commit
<1>3. post'[r].pc = "saved" BY <1>1, <1>2 DEF TypeOK, PostRecord
<1>4. RowIsThere(r) /\ submission.id # None BY <1>1, <1>2, CommitSucceeds
<1>5. submission'.id # None
  BY <1>1, <1>4 DEF Commit, SavedRow, TypeOK, Submission
<1>6. Current(r)' BY <1>3 DEF Current
<1>7. Kept' BY <1>1, <1>3, <1>5, KeptIfAnswered
<1>. QED BY <1>5, <1>6, <1>7 DEF PostKeeps

LEMMA SerialRollBack ==
  ASSUME ~Overlap, IInv, SerialInv, NEW r \in Posts, RollBack(r)
  PROVE  PostKeeps(r)
<1>1. TypeOK /\ OneServing /\ Kept /\ Current(r) /\ PostStep(r) /\ HoldsRow
  BY DEF IInv, SerialInv, PostStep
<1>2. /\ post[r].pc = "upload" /\ status' = status /\ submission' = submission
      /\ media' = media
  BY DEF RollBack
<1>3. PICK pc \in {"cleanup", "restore"} : post' = [post EXCEPT ![r].pc = pc]
  BY DEF RollBack
<1>4. post'[r].pc = pc /\ post'[r].row = post[r].row BY <1>1, <1>3 DEF TypeOK, PostRecord
<1>5. Current(r)' BY <1>1, <1>2, <1>4 DEF Current
<1>6. Kept'
  <2>1. CASE Created(r)
    <3>1. Tentative BY <1>2, <2>1 DEF Tentative
    <3>. QED BY <1>1, <1>4, <3>1, KeptIfNone
  <2>2. CASE ~Created(r)
    <3>1. submission'.id # None BY <1>1, <1>2 DEF Current, HoldsRow
    <3>. QED BY <1>1, <1>4, <2>2, <3>1, KeptIfAnswered DEF Created
  <2>. QED BY <2>1, <2>2
<1>. QED BY <1>2, <1>5, <1>6 DEF PostKeeps, SerialInv

(* Whoever cleans up deletes a submission nobody has been promised, or     *)
(* writes back what is there.                                              *)
LEMMA CleanUpDeletes ==
  ASSUME TypeOK, NEW r \in Posts, Current(r), post[r].pc \in {"cleanup", "restore"},
         DeleteCreated(r)
  PROVE  /\ submission' = NoSubmission /\ media' = NoMedia /\ End(r, "failed")
         /\ submission.id = r
  BY DEF Current, DeleteCreated, RowIsThere, Created

LEMMA CleanUpRestores ==
  ASSUME TypeOK, NEW r \in Posts, Current(r), post[r].pc \in {"cleanup", "restore"},
         RestoreFields(r)
  PROVE  submission' = submission /\ media' = media /\ End(r, "failed")
<1>1. post[r].row = submission BY DEF Current
<1>2. RowIsThere(r) BY <1>1 DEF RowIsThere
<1>3. RestoredRow(r) = submission
  BY <1>1 DEF RestoredRow, TypeOK, Submission
<1>. QED BY <1>2, <1>3 DEF RestoreFields

LEMMA SerialCleanUp ==
  ASSUME ~Overlap, IInv, SerialInv, NEW r \in Posts, CleanUp(r)
  PROVE  PostKeeps(r)
<1>1. TypeOK /\ OneServing /\ Kept /\ Current(r) /\ PostStep(r) /\ HoldsRow
  BY DEF IInv, SerialInv, PostStep
<1>2. post[r].pc \in {"cleanup", "restore"} BY DEF CleanUp
<1>3. submission.id # None BY <1>1, <1>2 DEF Current, HoldsRow
<1>4. CASE DeleteCreated(r)
  <2>1. submission' = NoSubmission /\ End(r, "failed") BY <1>1, <1>2, <1>4, CleanUpDeletes
  <2>2. post'[r].pc = "failed" BY <1>1, <2>1, EndTyped DEF PostPc
  <2>3. Tentative BY <1>2, <1>4 DEF DeleteCreated, Tentative
  <2>4. Kept' BY <1>1, <2>2, <2>3, KeptIfNone
  <2>5. Current(r)' BY <2>2 DEF Current
  <2>. QED BY <2>1, <2>4, <2>5 DEF PostKeeps
<1>5. CASE RestoreFields(r)
  <2>1. submission' = submission /\ End(r, "failed") BY <1>1, <1>2, <1>5, CleanUpRestores
  <2>2. post'[r].pc = "failed" BY <1>1, <2>1, EndTyped DEF PostPc
  <2>3. Kept' BY <1>1, <2>1, <2>2, KeptIfUnchanged
  <2>4. Current(r)' BY <2>2 DEF Current
  <2>. QED BY <2>1, <2>3, <2>4 DEF PostKeeps, SerialInv
<1>. QED BY <1>4, <1>5 DEF CleanUp

LEMMA SerialPosts ==
  ASSUME ~Overlap, IInv, SerialInv, NEW r \in Posts, PostStep(r)
  PROVE  SerialInv'
<1>1. ASSUME RejectForm(r) PROVE PostKeeps(r)
  BY <1>1, SerialEnds DEF RejectForm, PostPc
<1>2. ASSUME SetStatus(r) PROVE PostKeeps(r)
  BY <1>2, SerialEnds DEF SetStatus, PostPc
<1>3. ASSUME PostDies(r) PROVE PostKeeps(r)
  BY <1>3, SerialEnds DEF PostDies, PostPc
<1>4. PostKeeps(r)
  BY <1>1, <1>2, <1>3, SerialReads, SerialParse, SerialCreate, SerialCommit, SerialRollBack,
     SerialCleanUp DEF PostStep
<1>. QED BY <1>4, SerialPost

(* What a host's request does to its record, and to the score.             *)
LEMMA HostKnows ==
  ASSUME ~Overlap, IInv, SerialInv, NEW s \in Hosts, HostStep(s)
  PROVE  /\ Asked(s)' /\ submission'.id = submission.id
         /\ OpenQueue(s) => submission' = submission /\ status' = status
<1>1. TypeOK /\ Asked(s) /\ host[s] \in HostRecord BY DEF IInv, SerialInv, TypeOK
<1>2. submission'.id = submission.id
  BY <1>1 DEF HostStep, OpenQueue, ReadForScore, SaveScore, MarkScored, LogScore, HostDies,
         TypeOK, Submission
<1>3. CASE OpenQueue(s)
  <2>1. host'[s].pc = "queue" /\ host'[s].id = submission.id
    BY <1>1, <1>3 DEF OpenQueue, TypeOK, HostRecord
  <2>. QED BY <1>2, <1>3, <2>1 DEF OpenQueue, Asked
<1>4. ASSUME NEW pc \in {"rejected", "ok", "died"}, HostEnd(s, pc) PROVE Asked(s)'
  <2>1. host'[s].pc = pc BY <1>1, <1>4, HostEndTyped DEF HostPc
  <2>. QED BY <2>1 DEF Asked
<1>5. ASSUME NEW new \in Scores, ReadForScore(s), submission.id = host[s].id,
             host' = [host EXCEPT ![s] =
               [host[s] EXCEPT !.pc = "read", !.old = submission.score, !.new = new]]
      PROVE  Asked(s)'
  <2>1. /\ host'[s].pc = "read" /\ host'[s].id = host[s].id
        /\ host'[s].old = submission.score /\ host'[s].new = new
    BY <1>1, <1>5 DEF TypeOK, HostRecord
  <2>2. host[s].id # None /\ submission' = submission
    BY <1>1, <1>5 DEF ReadForScore, Asked
  <2>. QED BY <1>5, <2>1, <2>2 DEF Asked
<1>6. CASE ReadForScore(s)
  BY <1>4, <1>5, <1>6 DEF ReadForScore
<1>7. CASE SaveScore(s)
  <2>1. host[s].id = submission.id /\ host[s].id # None /\ host[s].new \in Scores
    BY <1>1, <1>7 DEF SaveScore, Asked
  <2>2. submission' = [submission EXCEPT !.score = host[s].new]
        /\ host' = [host EXCEPT ![s].pc = "scored"]
    BY <1>7, <2>1 DEF SaveScore
  <2>3. submission'.score = host[s].new /\ submission'.id = submission.id
    BY <1>1, <2>2 DEF TypeOK, Submission
  <2>4. host'[s].pc = "scored" /\ host'[s].id = host[s].id /\ host'[s].new = host[s].new
    BY <1>1, <2>2 DEF TypeOK, HostRecord
  <2>. QED BY <1>2, <1>7, <2>1, <2>3, <2>4 DEF Asked, OpenQueue, SaveScore
<1>8. CASE MarkScored(s)
  <2>1. host'[s].pc = "marked" /\ host'[s].id = host[s].id /\ host'[s].new = host[s].new
        /\ submission' = submission
    BY <1>1, <1>8 DEF MarkScored, TypeOK, HostRecord
  <2>. QED BY <1>1, <1>2, <1>8, <2>1 DEF Asked, MarkScored, OpenQueue
<1>9. CASE LogScore(s) \/ HostDies(s)
  BY <1>4, <1>9 DEF LogScore, HostDies
<1>10. Asked(s)' BY <1>3, <1>6, <1>7, <1>8, <1>9 DEF HostStep
<1>. QED BY <1>2, <1>10 DEF OpenQueue

LEMMA SerialHosts ==
  ASSUME ~Overlap, IInv, SerialInv, NEW s \in Hosts, HostStep(s)
  PROVE  SerialInv'
<1>1. OneServing' /\ TypeOK /\ OneServing
  BY StepOneServing DEF IInv, SerialInv, Next
<1>2. Asked(s)' /\ submission'.id = submission.id BY HostKnows
<1>3. /\ post' = post /\ media' = media
      /\ \A u \in Hosts : u # s => host'[u] = host[u]
  BY <1>1, HostAlone
<1>4. Kept'
  <2>1. Tentative' <=> Tentative BY <1>3 DEF Tentative, Created
  <2>. QED BY <1>2, <1>3, <2>1 DEF Kept, SerialInv
<1>5. CASE OpenQueue(s)
  <2>1. submission' = submission /\ status' = status BY <1>5, HostKnows
  <2>2. \A r \in Posts : Current(r)'
    BY <1>3, <2>1 DEF SerialInv, Current, Arranged, Uploaded
  <2>3. \A u \in Hosts : Asked(u)'
    BY <1>2, <1>3, <2>1 DEF SerialInv, Asked
  <2>. QED BY <1>1, <1>4, <2>1, <2>2, <2>3 DEF SerialInv
<1>6. CASE ~OpenQueue(s)
  <2>1. /\ \A u \in Hosts : u # s => ~HostServing(u)
        /\ \A r \in Posts : ~PostServing(r)
    BY <1>1, <1>6, HostAlone
  <2>2. ASSUME NEW r \in Posts PROVE Current(r)'
    <3>1. post'[r].pc \notin {"assignment", "form", "create", "upload", "cleanup", "restore"}
      BY <1>3, <2>1 DEF PostServing
    <3>. QED BY <3>1 DEF Current
  <2>3. ASSUME NEW u \in Hosts PROVE Asked(u)'
    BY <1>2, <1>3, <2>1 DEF SerialInv, Asked, HostServing
  <2>4. submission'.id = None => submission' = NoSubmission
    <3>1. CASE submission' = submission BY <3>1 DEF SerialInv
    <3>2. CASE submission' # submission
      <4>1. SaveScore(s)
        BY <3>2 DEF HostStep, OpenQueue, ReadForScore, MarkScored, LogScore, HostDies
      <4>2. submission.id # None BY <4>1 DEF SaveScore, SerialInv, Asked
      <4>. QED BY <1>2, <4>2
    <3>. QED BY <3>1, <3>2
  <2>. QED BY <1>1, <1>4, <2>2, <2>3, <2>4 DEF SerialInv
<1>. QED BY <1>5, <1>6

LEMMA InitSerial == Init => SerialInv
<1>. SUFFICES ASSUME Init PROVE SerialInv
  OBVIOUS
<1>1. /\ submission = NoSubmission
      /\ \A r \in Posts : post[r].pc = "idle"
      /\ \A s \in Hosts : host[s].pc = "idle"
  BY DEF Init, PostIdle, HostIdle
<1>2. OneServing BY <1>1 DEF OneServing, PostServing, HostServing
<1>. QED BY <1>1, <1>2 DEF SerialInv, Current, Asked, Kept

LEMMA StepSerial ==
  ASSUME ~Overlap PROVE IInv /\ SerialInv /\ [Next]_vars => SerialInv'
<1>. SUFFICES ASSUME IInv, SerialInv, [Next]_vars PROVE SerialInv'
  OBVIOUS
<1>1. CASE UNCHANGED vars
  <2>1. OneServing' BY <1>1, StepOneServing DEF IInv, SerialInv
  <2>2. \A r \in Posts : Current(r)'
    BY <1>1 DEF vars, SerialInv, Current, Arranged, Uploaded
  <2>3. \A s \in Hosts : Asked(s)' BY <1>1 DEF vars, SerialInv, Asked
  <2>4. Kept' BY <1>1 DEF vars, SerialInv, Kept, Tentative, Created
  <2>. QED BY <1>1, <2>1, <2>2, <2>3, <2>4 DEF vars, SerialInv
<1>. QED BY <1>1, SerialPosts, SerialHosts DEF Next, AllServed

THEOREM SerialInvariance == ASSUME ~Overlap PROVE Spec => []SerialInv
  BY InitSerial, StepSerial, Invariance, PTL DEF Spec

(* Served one at a time, a POST that was answered with success keeps its   *)
(* submission, whatever fails, and even if threads are killed.             *)
THEOREM AcknowledgedStays == ASSUME ~Overlap PROVE Spec => []AcknowledgedIsKept
<1>1. SerialInv => AcknowledgedIsKept BY DEF SerialInv, Kept, AcknowledgedIsKept
<1>. QED BY <1>1, SerialInvariance, PTL

-----------------------------------------------------------------------------
(* The audit log, when requests are served one at a time and none is       *)
(* killed between the save of a score and its entry.                       *)

LastScore == IF audit = <<>> THEN None ELSE audit[Len(audit)].new

(* A score that is saved and not yet logged remembers the one before it.   *)
Chained ==
  \A i \in 1 .. Len(audit) : audit[i].old = IF i = 1 THEN None ELSE audit[i - 1].new

HistoryInv ==
  /\ Chained
  /\ \A s \in Hosts : host[s].pc \in {"scored", "marked"} => host[s].old = LastScore
  /\ (\A s \in Hosts : host[s].pc \notin {"scored", "marked"}) => submission.score = LastScore

(* No step of a POST changes the score: what is created has none, and what *)
(* is deleted had none.                                                    *)
LEMMA PostsLeaveScore ==
  ASSUME ~Overlap, IInv, SerialInv, NEW r \in Posts, PostStep(r)
  PROVE  submission'.score = submission.score
<1>1. TypeOK /\ Current(r) BY DEF IInv, SerialInv
<1>2. CASE CreateSubmission(r)
  <2>. DEFINE row == [id |-> r, text |-> post[r].text, draft |-> post[r].action = "draft",
                      score |-> None]
  <2>1. row.score = None OBVIOUS
  <2>. HIDE DEF row
  <2>2. submission.id = None /\ submission' = row BY <1>1, <1>2, CreateSucceeds DEF row
  <2>3. submission.score = None BY <2>2 DEF SerialInv, NoSubmission
  <2>. QED BY <2>1, <2>2, <2>3
<1>3. CASE Commit(r) BY <1>1, <1>3 DEF Commit, SavedRow, TypeOK, Submission
<1>4. CASE CleanUp(r)
  <2>1. post[r].pc \in {"cleanup", "restore"} BY <1>4 DEF CleanUp
  <2>2. CASE DeleteCreated(r)
    <3>1. submission' = NoSubmission /\ submission.id = r BY <1>1, <2>1, <2>2, CleanUpDeletes
    <3>2. submission.score = None BY <1>1, <2>1, <3>1 DEF Current
    <3>. QED BY <3>1, <3>2 DEF NoSubmission
  <2>3. CASE RestoreFields(r) BY <1>1, <2>1, <2>3, CleanUpRestores
  <2>. QED BY <1>4, <2>2, <2>3 DEF CleanUp
<1>. QED BY <1>2, <1>3, <1>4
  DEF PostStep, ReadAssignment, ReadSubmission, RejectForm, ParsePost, RollBack, SetStatus,
      PostDies

(* What is logged is the next link of the chain.                           *)
LEMMA ChainGrows ==
  ASSUME TypeOK, Chained, NEW s \in Hosts, audit' = Append(audit, ScoreEntry(s)),
         host[s].old = LastScore
  PROVE  Chained' /\ LastScore' = host[s].new
<1>1. audit \in Seq(AuditEntry) /\ Len(audit) \in Nat BY DEF TypeOK
<1>. DEFINE e == ScoreEntry(s)
<1>2. e.old = host[s].old /\ e.new = host[s].new BY DEF ScoreEntry
<1>. HIDE DEF e
<1>3. /\ Len(audit') = Len(audit) + 1 /\ audit'[Len(audit) + 1] = e
      /\ \A i \in 1 .. Len(audit) : audit'[i] = audit[i]
      /\ audit' # <<>>
  BY <1>1 DEF e
<1>4. LastScore' = host[s].new BY <1>1, <1>2, <1>3 DEF LastScore
<1>5. ASSUME NEW i \in 1 .. Len(audit')
      PROVE  audit'[i].old = IF i = 1 THEN None ELSE audit'[i - 1].new
  <2>1. CASE i \in 1 .. Len(audit)
    <3>1. audit'[i] = audit[i] BY <1>3, <2>1
    <3>2. i # 1 => i - 1 \in 1 .. Len(audit) BY <1>1, <2>1
    <3>. QED BY <1>3, <2>1, <3>1, <3>2 DEF Chained
  <2>2. CASE i = Len(audit) + 1
    <3>1. audit'[i].old = LastScore BY <1>2, <1>3, <2>2
    <3>2. CASE audit = <<>> BY <1>1, <2>2, <3>1, <3>2 DEF LastScore
    <3>3. CASE audit # <<>>
      <4>1. Len(audit) \in 1 .. Len(audit) /\ i # 1 /\ i - 1 = Len(audit)
        BY <1>1, <2>2, <3>3
      <4>. QED BY <1>3, <3>1, <3>3, <4>1 DEF LastScore
    <3>. QED BY <3>2, <3>3
  <2>. QED BY <1>1, <1>3, <2>1, <2>2
<1>. QED BY <1>4, <1>5 DEF Chained

LEMMA HostsTellHistory ==
  ASSUME ~Overlap, "die" \notin Faults, IInv, SerialInv, HistoryInv, NEW s \in Hosts, HostStep(s)
  PROVE  HistoryInv'
<1>1. TypeOK /\ OneServing /\ Asked(s) BY DEF IInv, SerialInv
<1>2. /\ \A u \in Hosts : u # s => host'[u] = host[u]
      /\ ~OpenQueue(s) => \A u \in Hosts : u # s => ~HostServing(u)
  BY <1>1, HostAlone
<1>3. ASSUME OpenQueue(s) \/ ReadForScore(s) PROVE HistoryInv'
  <2>1. submission' = submission /\ audit' = audit /\ host[s].pc \notin {"scored", "marked"}
    BY <1>3 DEF OpenQueue, ReadForScore
  <2>2. host'[s].pc \notin {"scored", "marked"}
    BY <1>1, <1>3 DEF OpenQueue, ReadForScore, HostEnd, HostIdle, TypeOK, HostRecord
  <2>. QED BY <1>2, <2>1, <2>2 DEF HistoryInv, Chained, LastScore
<1>4. ASSUME SaveScore(s) PROVE HistoryInv'
  <2>1. \A u \in Hosts : host[u].pc \notin {"scored", "marked"}
    BY <1>2, <1>4 DEF SaveScore, OpenQueue, HostServing
  <2>2. host' = [host EXCEPT ![s].pc = "scored"] /\ host[s].old = submission.score
    BY <1>1, <1>4 DEF SaveScore, Asked
  <2>3. host'[s].pc = "scored" /\ host'[s].old = host[s].old
    BY <1>1, <2>2 DEF TypeOK, HostRecord
  <2>4. audit' = audit BY <1>4 DEF SaveScore
  <2>. QED BY <1>2, <2>1, <2>2, <2>3, <2>4 DEF HistoryInv, Chained, LastScore
<1>5. ASSUME MarkScored(s) PROVE HistoryInv'
  <2>1. host[s].pc = "scored" /\ submission' = submission /\ audit' = audit
    BY <1>5 DEF MarkScored
  <2>2. host'[s].pc = "marked" /\ host'[s].old = host[s].old
    BY <1>1, <1>5 DEF MarkScored, TypeOK, HostRecord
  <2>. QED BY <1>2, <2>1, <2>2 DEF HistoryInv, Chained, LastScore
<1>6. ASSUME LogScore(s) PROVE HistoryInv'
  <2>1. /\ host[s].pc = "marked" /\ audit' = Append(audit, ScoreEntry(s))
        /\ submission' = submission /\ host[s].old = LastScore
    BY <1>6 DEF LogScore, HistoryInv
  <2>2. Chained' /\ LastScore' = host[s].new BY <1>1, <2>1, ChainGrows DEF HistoryInv
  <2>3. submission.score = host[s].new BY <1>1, <2>1 DEF Asked
  <2>4. host'[s].pc = "ok" BY <1>1, <1>6, HostEndTyped DEF LogScore, HostPc
  <2>5. \A u \in Hosts : host'[u].pc \notin {"scored", "marked"}
    BY <1>2, <2>1, <2>4 DEF OpenQueue, HostServing
  <2>. QED BY <2>1, <2>2, <2>3, <2>5 DEF HistoryInv
<1>. QED BY <1>3, <1>4, <1>5, <1>6 DEF HostStep, HostDies

LEMMA StepHistory ==
  ASSUME ~Overlap, "die" \notin Faults
  PROVE  IInv /\ SerialInv /\ HistoryInv /\ [Next]_vars => HistoryInv'
<1>. SUFFICES ASSUME IInv, SerialInv, HistoryInv, [Next]_vars PROVE HistoryInv'
  OBVIOUS
<1>1. ASSUME NEW r \in Posts, PostStep(r) PROVE HistoryInv'
  <2>1. host' = host /\ audit' = audit BY <1>1, PostAlone DEF IInv, SerialInv
  <2>2. submission'.score = submission.score BY <1>1, PostsLeaveScore
  <2>. QED BY <2>1, <2>2 DEF HistoryInv, Chained, LastScore
<1>2. ASSUME NEW s \in Hosts, HostStep(s) PROVE HistoryInv'
  BY <1>2, HostsTellHistory
<1>3. CASE UNCHANGED vars
  BY <1>3 DEF vars, HistoryInv, Chained, LastScore
<1>. QED BY <1>1, <1>2, <1>3 DEF Next, AllServed

(* Served one at a time and never killed, the hosts' requests leave an     *)
(* audit log that tells the history of the score, whatever the participant *)
(* posts and however often its saves fail and are cleaned up.              *)
THEOREM HistoryIsTold ==
  ASSUME ~Overlap, "die" \notin Faults PROVE Spec => []AuditIsHistory
<1>1. Init => HistoryInv
  BY DEF Init, HistoryInv, Chained, LastScore, HostIdle, NoSubmission
<1>2. HistoryInv => AuditIsHistory
  BY DEF HistoryInv, Chained, LastScore, AuditIsHistory, HostServing
<1>. QED BY <1>1, <1>2, StepHistory, SerialInvariance, Invariance, PTL DEF Spec

-----------------------------------------------------------------------------
(* The promise, when requests are served one at a time and none is killed. *)

(* Nobody but this request is served.                                      *)
PostOnly(r) == /\ \A q \in Posts : q # r => ~PostServing(q)
               /\ \A s \in Hosts : ~HostServing(s)
HostOnly(s) == /\ \A u \in Hosts : u # s => ~HostServing(u)
               /\ \A r \in Posts : ~PostServing(r)

(* What the promise looks like while a POST is served, and before and      *)
(* after.                                                                  *)
PostView(r) ==
  /\ PromisedStatus = IF post[r].pc = "saved" THEN StatusFor(post[r].action) ELSE status
  /\ Tentative <=> post[r].pc \in {"upload", "cleanup", "restore"} /\ Created(r)
  /\ PromisedLog = Changes(audit)

LEMMA PostSeen == \A r \in Posts : PostOnly(r) => PostView(r)
<1>. SUFFICES ASSUME NEW r \in Posts, PostOnly(r) PROVE PostView(r)
  OBVIOUS
<1>1. Scoring = {} /\ Logging = {}
  BY DEF PostOnly, HostServing, Scoring, Logging
<1>2. \A q \in Posts : post[q].pc = "saved" => q = r
  BY DEF PostOnly, PostServing
<1>3. PromisedStatus = IF post[r].pc = "saved" THEN StatusFor(post[r].action) ELSE status
  <2>1. CASE post[r].pc = "saved"
    <3>1. (CHOOSE q \in Posts : post[q].pc = "saved") = r BY <1>2, <2>1
    <3>. QED BY <1>1, <2>1, <3>1 DEF PromisedStatus
  <2>2. CASE post[r].pc # "saved" BY <1>1, <1>2, <2>2 DEF PromisedStatus
  <2>. QED BY <2>1, <2>2
<1>4. Tentative <=> post[r].pc \in {"upload", "cleanup", "restore"} /\ Created(r)
  BY DEF PostOnly, PostServing, Tentative
<1>5. PromisedLog = Changes(audit) BY <1>1 DEF PromisedLog
<1>. QED BY <1>3, <1>4, <1>5 DEF PostView

LEMMA PostSeenNext == (\A r \in Posts : PostOnly(r) => PostView(r))'
  BY PostSeen, PTL

(* And while a host's request is served.                                   *)
HostView(s) ==
  /\ PromisedStatus = IF host[s].pc = "scored" THEN "scored" ELSE status
  /\ ~Tentative
  /\ PromisedLog = IF host[s].pc \in {"scored", "marked"}
                     THEN Append(Changes(audit), ScoreChange(ScoreEntry(s)))
                     ELSE Changes(audit)

LEMMA HostSeen == \A s \in Hosts : HostOnly(s) => HostView(s)
<1>. SUFFICES ASSUME NEW s \in Hosts, HostOnly(s) PROVE HostView(s)
  OBVIOUS
<1>1. \A u \in Hosts : host[u].pc \in {"scored", "marked"} => u = s
  BY DEF HostOnly, HostServing
<1>2. ~Tentative /\ \A r \in Posts : post[r].pc # "saved"
  BY DEF HostOnly, PostServing, Tentative
<1>3. PromisedStatus = IF host[s].pc = "scored" THEN "scored" ELSE status
  <2>1. Scoring = {} <=> host[s].pc # "scored" BY <1>1 DEF Scoring
  <2>. QED BY <1>2, <2>1 DEF PromisedStatus
<1>4. PromisedLog = IF host[s].pc \in {"scored", "marked"}
                      THEN Append(Changes(audit), ScoreChange(ScoreEntry(s)))
                      ELSE Changes(audit)
  <2>1. CASE host[s].pc \in {"scored", "marked"}
    <3>1. Logging = {s} BY <1>1, <2>1 DEF Logging
    <3>2. (CHOOSE u \in Logging : TRUE) = s BY <3>1
    <3>. QED BY <2>1, <3>1, <3>2 DEF PromisedLog
  <2>2. CASE host[s].pc \notin {"scored", "marked"}
    <3>1. Logging = {} BY <1>1, <2>2 DEF Logging
    <3>. QED BY <2>2, <3>1 DEF PromisedLog
  <2>. QED BY <2>1, <2>2
<1>. QED BY <1>2, <1>3, <1>4 DEF HostView

LEMMA HostSeenNext == (\A s \in Hosts : HostOnly(s) => HostView(s))'
  BY HostSeen, PTL

(* The requests of the others do not start while this one takes a step.    *)
LEMMA PostSees ==
  ASSUME ~Overlap, TypeOK, OneServing, NEW r \in Posts, PostStep(r)
  PROVE  PostView(r) /\ PostView(r)'
<1>1. PostOnly(r) /\ PostOnly(r)'
  BY PostAlone DEF PostOnly, PostServing, HostServing
<1>. QED BY <1>1, PostSeen, PostSeenNext

LEMMA HostSees ==
  ASSUME ~Overlap, TypeOK, OneServing, NEW s \in Hosts, HostStep(s), ~OpenQueue(s)
  PROVE  HostView(s) /\ HostView(s)'
<1>1. HostOnly(s) /\ HostOnly(s)'
  BY HostAlone DEF HostOnly, PostServing, HostServing
<1>. QED BY <1>1, HostSeen, HostSeenNext

(* A step that the promise does not see.                                   *)
Still == UNCHANGED <<PromisedStatus, PromisedContent, media, PromisedLog>>

LEMMA StillIfSame ==
  ASSUME PromisedStatus' = PromisedStatus, Tentative' <=> Tentative,
         UNCHANGED <<submission, media>>, PromisedLog' = PromisedLog
  PROVE  Still
BY DEF Still, PromisedContent

(* Until its transaction a POST changes nothing the promise sees.          *)
LEMMA ReadsAreStill ==
  ASSUME ~Overlap, IInv, SerialInv, NEW r \in Posts,
         ReadAssignment(r) \/ ReadSubmission(r) \/ RejectForm(r) \/ ParsePost(r)
  PROVE  Still
<1>1. TypeOK /\ OneServing /\ Current(r) /\ PostStep(r) /\ audit' = audit
  BY PostAlone DEF IInv, SerialInv, PostStep
<1>2. PostView(r) /\ PostView(r)' BY <1>1, PostSees
<1>3. /\ post[r].pc \in {"idle", "assignment", "form"}
      /\ UNCHANGED <<status, submission, media>>
  BY DEF ReadAssignment, ReadSubmission, RejectForm, ParsePost
<1>4. /\ post'[r].pc # "saved"
      /\ ~(post'[r].pc \in {"upload", "cleanup", "restore"} /\ Created(r)')
  <2>1. ASSUME NEW pc \in {"rejected"}, End(r, pc) PROVE post'[r].pc = "rejected"
    BY <1>1, <2>1, EndTyped DEF PostPc
  <2>2. CASE ReadAssignment(r)
    BY <1>1, <2>2 DEF ReadAssignment, TypeOK, PostRecord
  <2>3. CASE ReadSubmission(r) \/ RejectForm(r)
    BY <1>1, <2>1, <2>3 DEF ReadSubmission, RejectForm, TypeOK, PostRecord
  <2>4. CASE ParsePost(r)
    <3>1. PICK action, text, drop, order :
            post' = [post EXCEPT ![r] = Parsed(r, action, text, drop, order)]
      BY <2>4, Zenon DEF ParsePost
    <3>2. /\ post'[r].pc \in {"create", "upload"}
          /\ post'[r].row = post[r].row
      BY <1>1, <3>1 DEF Parsed, TypeOK, PostRecord
    <3>3. post[r].pc = "form" BY <2>4 DEF ParsePost
    <3>4. post[r].row.id # r BY <1>1, <3>3 DEF Current, IInv, OwnerKnows
    <3>. QED BY <3>2, <3>4 DEF Created
  <2>. QED BY <2>2, <2>3, <2>4
<1>5. PromisedStatus' = PromisedStatus /\ PromisedLog' = PromisedLog
  BY <1>1, <1>2, <1>3, <1>4 DEF PostView, Changes
<1>6. ~Tentative /\ ~Tentative' BY <1>2, <1>3, <1>4 DEF PostView
<1>. QED BY <1>3, <1>5, <1>6, StillIfSame

(* A submission that its creator may still delete is not there yet.        *)
NothingSaved(score) == [saved |-> FALSE, text |-> Blank, draft |-> FALSE, score |-> score]

TentativeView ==
  /\ Tentative => PromisedContent = NothingSaved(submission.score)
  /\ submission = NoSubmission => PromisedContent = NothingSaved(None)

LEMMA TentativeSeen == TentativeView
<1>1. ASSUME Tentative PROVE PromisedContent = NothingSaved(submission.score)
  BY <1>1 DEF PromisedContent, NothingSaved
<1>2. ASSUME submission = NoSubmission PROVE PromisedContent = NothingSaved(None)
  BY <1>2 DEF PromisedContent, NothingSaved, NoSubmission
<1>. QED BY <1>1, <1>2 DEF TentativeView

LEMMA TentativeSeenNext == TentativeView'
  BY TentativeSeen, PTL

LEMMA CreateIsStill ==
  ASSUME ~Overlap, IInv, SerialInv, NEW r \in Posts, CreateSubmission(r)
  PROVE  Still
<1>1. TypeOK /\ OneServing /\ Current(r) /\ PostStep(r) /\ audit' = audit
  BY PostAlone DEF IInv, SerialInv, PostStep
<1>2. PostView(r) /\ PostView(r)' BY <1>1, PostSees
<1>. DEFINE row == [id |-> r, text |-> post[r].text, draft |-> post[r].action = "draft",
                    score |-> None]
<1>3. row.id = r /\ row.score = None OBVIOUS
<1>. HIDE DEF row
<1>4. /\ submission.id = None /\ submission' = row
      /\ post'[r].pc = "upload" /\ post'[r].row = row
      /\ UNCHANGED <<status, media>>
  BY <1>1, CreateSucceeds DEF row
<1>5. post[r].pc = "create" BY DEF CreateSubmission
<1>6. submission = NoSubmission BY <1>4 DEF SerialInv
<1>7. Tentative' BY <1>2, <1>3, <1>4 DEF PostView, Created
<1>8. submission'.score = None BY <1>3, <1>4
<1>9. PromisedContent' = PromisedContent
  BY <1>6, <1>7, <1>8, TentativeSeen, TentativeSeenNext DEF TentativeView
<1>10. PromisedStatus' = PromisedStatus /\ PromisedLog' = PromisedLog
  BY <1>1, <1>2, <1>4, <1>5 DEF PostView, Changes
<1>. QED BY <1>4, <1>9, <1>10 DEF Still

LEMMA RollBackIsStill ==
  ASSUME ~Overlap, IInv, SerialInv, NEW r \in Posts, RollBack(r)
  PROVE  Still
<1>1. TypeOK /\ OneServing /\ PostStep(r) /\ audit' = audit
  BY PostAlone DEF IInv, SerialInv, PostStep
<1>2. PostView(r) /\ PostView(r)' BY <1>1, PostSees
<1>3. /\ post[r].pc = "upload" /\ UNCHANGED <<status, submission, media>>
  BY DEF RollBack
<1>4. PICK pc \in {"cleanup", "restore"} : post' = [post EXCEPT ![r].pc = pc]
  BY DEF RollBack
<1>5. post'[r].pc = pc /\ post'[r].row = post[r].row BY <1>1, <1>4 DEF TypeOK, PostRecord
<1>6. Tentative' <=> Tentative BY <1>2, <1>3, <1>5 DEF PostView, Created
<1>7. PromisedStatus' = PromisedStatus /\ PromisedLog' = PromisedLog
  BY <1>1, <1>2, <1>3, <1>5 DEF PostView, Changes
<1>. QED BY <1>3, <1>6, <1>7, StillIfSame

LEMMA CleanUpIsStill ==
  ASSUME ~Overlap, IInv, SerialInv, NEW r \in Posts, CleanUp(r)
  PROVE  Still
<1>1. TypeOK /\ OneServing /\ Current(r) /\ PostStep(r) /\ audit' = audit
  BY PostAlone DEF IInv, SerialInv, PostStep
<1>2. PostView(r) /\ PostView(r)' BY <1>1, PostSees
<1>3. post[r].pc \in {"cleanup", "restore"} /\ status' = status BY DEF CleanUp
<1>4. ASSUME End(r, "failed")
      PROVE  /\ PromisedStatus' = PromisedStatus /\ PromisedLog' = PromisedLog /\ ~Tentative'
  <2>1. post'[r].pc = "failed" BY <1>1, <1>4, EndTyped DEF PostPc
  <2>. QED BY <1>1, <1>2, <1>3, <2>1 DEF PostView, Changes
<1>5. CASE DeleteCreated(r)
  <2>1. /\ submission' = NoSubmission /\ media' = NoMedia /\ End(r, "failed")
        /\ submission.id = r
    BY <1>1, <1>3, <1>5, CleanUpDeletes
  <2>2. DOMAIN media = {} /\ submission.score = None BY <1>1, <1>3, <2>1 DEF Current
  <2>3. media' = media
    <3>1. media \in [{} -> 0 .. MaxMedia - 1] BY <1>1, <2>2, NumberingElim DEF TypeOK
    <3>. QED BY <2>1, <3>1 DEF NoMedia
  <2>4. Tentative BY <1>2, <1>3, <1>5 DEF PostView, DeleteCreated
  <2>5. PromisedContent' = PromisedContent
    BY <2>1, <2>2, <2>4, TentativeSeen, TentativeSeenNext DEF TentativeView
  <2>. QED BY <1>4, <2>1, <2>3, <2>5 DEF Still
<1>6. CASE RestoreFields(r)
  <2>1. submission' = submission /\ media' = media /\ End(r, "failed")
    BY <1>1, <1>3, <1>6, CleanUpRestores
  <2>2. ~Tentative BY <1>2, <1>6 DEF PostView, RestoreFields
  <2>. QED BY <1>4, <2>1, <2>2, StillIfSame
<1>. QED BY <1>5, <1>6 DEF CleanUp

LEMMA SetStatusIsStill ==
  ASSUME ~Overlap, IInv, SerialInv, NEW r \in Posts, SetStatus(r)
  PROVE  Still
<1>1. TypeOK /\ OneServing /\ PostStep(r) /\ audit' = audit
  BY PostAlone DEF IInv, SerialInv, PostStep
<1>2. PostView(r) /\ PostView(r)' BY <1>1, PostSees
<1>3. /\ post[r].pc = "saved" /\ status' = StatusFor(post[r].action)
      /\ UNCHANGED <<submission, media>> /\ End(r, "ok")
  BY DEF SetStatus
<1>4. post'[r].pc = "ok" BY <1>1, <1>3, EndTyped DEF PostPc
<1>5. Tentative' <=> Tentative BY <1>2, <1>3, <1>4 DEF PostView
<1>6. PromisedStatus' = PromisedStatus /\ PromisedLog' = PromisedLog
  BY <1>1, <1>2, <1>3, <1>4 DEF PostView, Changes
<1>. QED BY <1>3, <1>5, <1>6, StillIfSame

(* A saved POST, as the promise sees it.                                   *)
SavedView ==
  ~Tentative => /\ PromisedContent.saved <=> submission.id # None
                /\ PromisedContent.text = submission.text
                /\ PromisedContent.draft <=> submission.draft
                /\ PromisedContent.score = submission.score

LEMMA SavedSeen == SavedView
  BY DEF SavedView, PromisedContent

LEMMA SavedSeenNext == SavedView'
  BY SavedSeen, PTL

LEMMA ContentTyped == TypeOK => PromisedContent \in Promise!Content
  BY BlankIsText DEF TypeOK, Submission, PromisedContent, Promise!Content

LEMMA ContentTypedNext == (TypeOK => PromisedContent \in Promise!Content)'
  BY ContentTyped, PTL

LEMMA PromiseCounts == \A S : Promise!Cardinality(S) = Cardinality(S)
  BY DEF Promise!Cardinality, Cardinality

(* The places that a transaction leaves have no gap.                       *)
LEMMA ArrangedInPlace ==
  ASSUME TypeOK, NEW r \in Posts, Arranged(r)
  PROVE  /\ Promise!InPlace(post[r].order)
         /\ Cardinality(DOMAIN post[r].order) <= MaxMedia
         /\ DOMAIN post[r].order \subseteq MediaIds
<1>. DEFINE order == post[r].order
            D == DOMAIN post[r].order
            T == 0 .. Cardinality(DOMAIN post[r].order) - 1
<1>1. order \in Bijection(D, T) BY DEF Arranged
<1>2. order \in Numberings BY DEF TypeOK, PostRecord
<1>3. D \subseteq MediaIds BY <1>2, NumberingElim
<1>4. D = DOMAIN order OBVIOUS
<1>. HIDE DEF order, D, T
<1>5. /\ order \in [D -> T] /\ \A t \in T : \E d \in D : order[d] = t
      /\ \A a, b \in D : order[a] = order[b] => a = b
  BY <1>1, <1>4 DEF Bijection, Injection, Surjection, IsInjective
<1>6. Promise!IsInjective(order) BY <1>4, <1>5 DEF Promise!IsInjective
<1>7. Promise!Range(order) = T BY <1>4, <1>5 DEF Promise!Range
<1>8. Promise!InPlace(order) BY <1>6, <1>7, PromiseCounts DEF Promise!InPlace, T, order
<1>. QED BY <1>3, <1>8 DEF Arranged, order, D

(* The transaction of a POST saves it as a whole.                          *)
LEMMA CommitSaves ==
  ASSUME ~Overlap, IInv, SerialInv, TypeOK', NEW r \in Posts, Commit(r)
  PROVE  Promise!Save
<1>1. TypeOK /\ OneServing /\ HoldsRow /\ Current(r) /\ PostStep(r) /\ audit' = audit
  BY PostAlone DEF IInv, SerialInv, PostStep
<1>2. PostView(r) /\ PostView(r)' BY <1>1, PostSees
<1>3. post[r].pc = "upload" /\ post' = [post EXCEPT ![r].pc = "saved"] /\ status' = status
  BY DEF Commit
<1>4. /\ RowIsThere(r) /\ submission.id # None
      /\ MediaAfter(r) = post[r].order
  BY <1>1, <1>3, CommitSucceeds
<1>5. media' = post[r].order /\ submission' = SavedRow(r) BY <1>4 DEF Commit
<1>6. /\ post[r].row = submission /\ Arranged(r)
      /\ status = "scored" => submission.id = r
  BY <1>1, <1>3, <1>4 DEF Current
<1>7. post'[r].pc = "saved" /\ post'[r].action = post[r].action
  BY <1>1, <1>3 DEF TypeOK, PostRecord
<1>8. /\ submission'.id = submission.id /\ submission'.score = submission.score
      /\ submission'.text = post[r].text
      /\ submission'.draft <=> post[r].action = "draft"
  <2>1. submission'.id = submission.id /\ submission'.score = submission.score
    BY <1>1, <1>5 DEF SavedRow, TypeOK, Submission
  <2>2. submission'.text = post[r].text
    BY <1>1, <1>5, <1>6 DEF SavedRow, TypeOK, Submission, TextChanged
  <2>3. submission'.draft <=> post[r].action = "draft"
    BY <1>1, <1>5, <1>6 DEF SavedRow, TypeOK, Submission, DraftChanged
  <2>. QED BY <2>1, <2>2, <2>3
<1>9. ~Tentative' BY <1>2, <1>7 DEF PostView
<1>10. ~(PromisedContent.saved /\ PromisedStatus = "scored")
  <2>1. PromisedStatus = status BY <1>2, <1>3 DEF PostView
  <2>2. CASE status = "scored"
    <3>1. Tentative BY <1>2, <1>3, <1>6, <2>2 DEF PostView, Created
    <3>2. PromisedContent = NothingSaved(submission.score)
      BY <3>1, TentativeSeen DEF TentativeView
    <3>. QED BY <3>2 DEF NothingSaved
  <2>. QED BY <2>1, <2>2
<1>11. /\ PromisedStatus' \in {"pending", "submitted"}
       /\ PromisedStatus' = "pending" <=> post[r].action = "draft"
  <2>1. PromisedStatus' = StatusFor(post[r].action) BY <1>2, <1>7 DEF PostView
  <2>2. post[r].action \in {"draft", "submit"} BY <1>1 DEF TypeOK, PostRecord, Actions
  <2>. QED BY <2>1, <2>2 DEF StatusFor
<1>12. PromisedContent' \in Promise!Content BY ContentTypedNext
<1>13. /\ PromisedContent'.saved /\ PromisedContent'.text = post[r].text
       /\ PromisedContent'.draft <=> post[r].action = "draft"
       /\ PromisedContent'.score = submission.score
  BY <1>4, <1>8, <1>9, SavedSeenNext DEF SavedView
<1>14. PromisedContent'.draft = (PromisedStatus' = "pending")
  BY <1>11, <1>12, <1>13 DEF Promise!Content
<1>15. PromisedContent.score = submission.score BY DEF PromisedContent
<1>16. /\ DOMAIN media' \subseteq MediaIds /\ Cardinality(DOMAIN media') <= MaxMedia
       /\ Promise!InPlace(media')
  BY <1>1, <1>5, <1>6, ArrangedInPlace
<1>17. PromisedContent'.text # Blank \/ DOMAIN media' # {}
  BY <1>5, <1>6, <1>13 DEF Arranged
<1>18. PromisedLog' = PromisedLog BY <1>1, <1>2 DEF PostView, Changes
<1>. QED
  BY <1>10, <1>11, <1>12, <1>13, <1>14, <1>15, <1>16, <1>17, <1>18,
     PromiseCounts DEF Promise!Save

LEMMA PostsImplement ==
  ASSUME ~Overlap, "die" \notin Faults, IInv, SerialInv, TypeOK', NEW r \in Posts, PostStep(r)
  PROVE  Promise!Save \/ Still
BY CommitSaves, ReadsAreStill, CreateIsStill, RollBackIsStill, CleanUpIsStill, SetStatusIsStill
DEF PostStep, PostDies

(* What the log promises grows with the log.                               *)
LEMMA ChangesGrow ==
  ASSUME NEW log \in Seq(AuditEntry), NEW e \in AuditEntry
  PROVE  Changes(Append(log, e)) = Append(Changes(log), ScoreChange(e))
<1>. DEFINE Change == [old : Scores \cup {None}, new : Scores \cup {None}]
<1>1. ASSUME NEW l \in Seq(AuditEntry)
      PROVE  /\ Changes(l) \in Seq(Change) /\ Len(Changes(l)) = Len(l)
             /\ \A i \in 1 .. Len(l) : Changes(l)[i] = ScoreChange(l[i])
  <2>1. ASSUME NEW i \in 1 .. Len(l) PROVE ScoreChange(l[i]) \in Change
    <3>1. l[i] \in AuditEntry OBVIOUS
    <3>. QED BY <3>1 DEF ScoreChange, AuditEntry
  <2>. HIDE DEF Change
  <2>2. Changes(l) \in [1 .. Len(l) -> Change] BY <2>1 DEF Changes
  <2>3. Changes(l) \in Seq(Change) BY <2>2, SeqDef
  <2>. QED BY <2>2, <2>3 DEF Changes
<1>2. ScoreChange(e) \in Change BY DEF ScoreChange, AuditEntry
<1>. HIDE DEF Change
<1>. DEFINE a == Changes(Append(log, e))
            b == Append(Changes(log), ScoreChange(e))
<1>3. Append(log, e) \in Seq(AuditEntry) /\ Len(Append(log, e)) = Len(log) + 1 OBVIOUS
<1>4. a \in Seq(Change) /\ Len(a) = Len(log) + 1 BY <1>1, <1>3
<1>5. b \in Seq(Change) /\ Len(b) = Len(log) + 1 BY <1>1, <1>2
<1>6. ASSUME NEW i \in 1 .. Len(log) + 1 PROVE a[i] = b[i]
  <2>1. a[i] = ScoreChange(Append(log, e)[i]) BY <1>1, <1>3
  <2>2. CASE i \in 1 .. Len(log) BY <1>1, <2>1, <2>2
  <2>3. CASE i = Len(log) + 1 BY <1>1, <2>1, <2>3
  <2>4. i \in 1 .. Len(log) \/ i = Len(log) + 1
    <3>1. Len(log) \in Nat OBVIOUS
    <3>. QED BY <3>1
  <2>. QED BY <2>2, <2>3, <2>4
<1>. HIDE DEF a, b
<1>7. a = b BY <1>4, <1>5, <1>6, SeqEqual
<1>. QED BY <1>7 DEF a, b

(* A queue that is opened, a score that is asked for and the two statements *)
(* after its save change nothing more.                                     *)
LEMMA OpenQueueIsStill ==
  ASSUME TypeOK, NEW s \in Hosts, OpenQueue(s)
  PROVE  Still
<1>1. /\ host[s].pc = "idle" /\ UNCHANGED <<status, submission, media, audit, post>>
      /\ \A u \in Hosts : u # s => host'[u] = host[u]
      /\ host'[s].pc = "queue"
  BY DEF OpenQueue, TypeOK, HostRecord
<1>2. Scoring' = Scoring /\ Logging' = Logging
  BY <1>1 DEF Scoring, Logging
<1>3. \A u \in Logging : ScoreEntry(u)' = ScoreEntry(u)
  BY <1>1 DEF Logging, ScoreEntry
<1>4. PromisedStatus' = PromisedStatus BY <1>1, <1>2 DEF PromisedStatus
<1>5. PromisedLog' = PromisedLog
  <2>1. CASE Logging = {} BY <1>1, <1>2, <2>1 DEF PromisedLog, Changes
  <2>2. CASE Logging # {}
    <3>. DEFINE u == CHOOSE v \in Logging : TRUE
    <3>1. u \in Logging /\ u' = u BY <1>2, <2>2
    <3>2. ScoreEntry(u)' = ScoreEntry(u) BY <1>3, <3>1
    <3>. QED BY <1>1, <1>2, <2>2, <3>1, <3>2 DEF PromisedLog, Changes, ScoreEntry
  <2>. QED BY <2>1, <2>2
<1>6. Tentative' <=> Tentative BY <1>1 DEF Tentative, Created
<1>. QED BY <1>1, <1>4, <1>5, <1>6, StillIfSame

LEMMA ReadForScoreIsStill ==
  ASSUME ~Overlap, IInv, SerialInv, NEW s \in Hosts, ReadForScore(s)
  PROVE  Still
<1>1. TypeOK /\ OneServing /\ HostStep(s) /\ ~OpenQueue(s)
  BY DEF IInv, SerialInv, HostStep, ReadForScore, OpenQueue
<1>2. HostView(s) /\ HostView(s)' BY <1>1, HostSees
<1>3. /\ host[s].pc = "queue" /\ UNCHANGED <<status, submission, media, audit>>
  BY DEF ReadForScore
<1>4. host'[s].pc \in {"read", "rejected"}
  BY <1>1 DEF ReadForScore, HostEnd, HostIdle, TypeOK, HostRecord
<1>5. PromisedStatus' = PromisedStatus /\ PromisedLog' = PromisedLog /\ (Tentative' <=> Tentative)
  BY <1>2, <1>3, <1>4 DEF HostView, Changes
<1>. QED BY <1>3, <1>5, StillIfSame

LEMMA MarkScoredIsStill ==
  ASSUME ~Overlap, IInv, SerialInv, NEW s \in Hosts, MarkScored(s)
  PROVE  Still
<1>1. TypeOK /\ OneServing /\ HostStep(s) /\ ~OpenQueue(s)
  BY DEF IInv, SerialInv, HostStep, MarkScored, OpenQueue
<1>2. HostView(s) /\ HostView(s)' BY <1>1, HostSees
<1>3. /\ host[s].pc = "scored" /\ status' = "scored"
      /\ UNCHANGED <<submission, media, audit>>
      /\ host' = [host EXCEPT ![s].pc = "marked"]
  BY DEF MarkScored
<1>4. /\ host'[s].pc = "marked" /\ host'[s].id = host[s].id
      /\ host'[s].old = host[s].old /\ host'[s].new = host[s].new
  BY <1>1, <1>3 DEF TypeOK, HostRecord
<1>5. ScoreEntry(s)' = ScoreEntry(s) BY <1>4 DEF ScoreEntry
<1>6. PromisedStatus' = PromisedStatus /\ PromisedLog' = PromisedLog /\ (Tentative' <=> Tentative)
  BY <1>2, <1>3, <1>4, <1>5 DEF HostView, Changes
<1>. QED BY <1>3, <1>6, StillIfSame

LEMMA LogScoreIsStill ==
  ASSUME ~Overlap, IInv, SerialInv, NEW s \in Hosts, LogScore(s)
  PROVE  Still
<1>1. TypeOK /\ OneServing /\ HostStep(s) /\ ~OpenQueue(s)
  BY DEF IInv, SerialInv, HostStep, LogScore, OpenQueue
<1>2. HostView(s) /\ HostView(s)' BY <1>1, HostSees
<1>3. /\ host[s].pc = "marked" /\ audit' = Append(audit, ScoreEntry(s))
      /\ UNCHANGED <<status, submission, media>> /\ HostEnd(s, "ok")
  BY DEF LogScore
<1>4. host'[s].pc = "ok" BY <1>1, <1>3, HostEndTyped DEF HostPc
<1>5. ScoreEntry(s) \in AuditEntry BY <1>1 DEF ScoreEntry, AuditEntry, TypeOK, HostRecord
<1>6. Changes(audit)' = Append(Changes(audit), ScoreChange(ScoreEntry(s)))
  <2>1. Changes(Append(audit, ScoreEntry(s)))
          = Append(Changes(audit), ScoreChange(ScoreEntry(s)))
    BY <1>1, <1>5, ChangesGrow DEF TypeOK
  <2>. QED BY <1>3, <2>1 DEF Changes
<1>7. PromisedStatus' = PromisedStatus /\ PromisedLog' = PromisedLog /\ (Tentative' <=> Tentative)
  BY <1>2, <1>3, <1>4, <1>6 DEF HostView
<1>. QED BY <1>3, <1>7, StillIfSame

(* The save of a score is the moment from which it counts.                 *)
LEMMA SaveScoreScores ==
  ASSUME ~Overlap, IInv, SerialInv, NEW s \in Hosts, SaveScore(s)
  PROVE  Promise!Score
<1>1. TypeOK /\ OneServing /\ Asked(s) /\ HostStep(s) /\ ~OpenQueue(s)
  BY DEF IInv, SerialInv, HostStep, SaveScore, OpenQueue
<1>2. HostView(s) /\ HostView(s)' BY <1>1, HostSees
<1>3. /\ host[s].pc = "read" /\ submission.id = host[s].id /\ host[s].id # None
      /\ host[s].new \in Scores /\ host[s].old = submission.score
  BY <1>1 DEF SaveScore, Asked
<1>4. /\ submission' = [submission EXCEPT !.score = host[s].new]
      /\ host' = [host EXCEPT ![s].pc = "scored"]
      /\ UNCHANGED <<status, media, audit>>
  BY <1>3 DEF SaveScore
<1>5. /\ host'[s].pc = "scored" /\ host'[s].old = host[s].old /\ host'[s].new = host[s].new
  BY <1>1, <1>4 DEF TypeOK, HostRecord
<1>6. ~Tentative /\ ~Tentative' BY <1>2 DEF HostView
<1>7. PromisedContent.saved /\ PromisedContent.score = submission.score
  BY <1>3, <1>6, SavedSeen DEF SavedView
<1>8. PromisedContent' = [PromisedContent EXCEPT !.score = host[s].new]
  <2>1. /\ submission'.id = submission.id /\ submission'.text = submission.text
        /\ submission'.draft = submission.draft /\ submission'.score = host[s].new
    BY <1>1, <1>4 DEF TypeOK, Submission
  <2>. QED BY <1>6, <2>1 DEF PromisedContent
<1>9. PromisedLog' = Append(PromisedLog, [old |-> PromisedContent.score, new |-> host[s].new])
  <2>1. PromisedLog = Changes(audit) BY <1>2, <1>3 DEF HostView
  <2>2. PromisedLog' = Append(Changes(audit)', ScoreChange(ScoreEntry(s))')
    BY <1>2, <1>5 DEF HostView
  <2>3. ScoreChange(ScoreEntry(s))' = [old |-> PromisedContent.score, new |-> host[s].new]
    BY <1>3, <1>5, <1>7 DEF ScoreChange, ScoreEntry
  <2>4. Changes(audit)' = Changes(audit) BY <1>4 DEF Changes
  <2>. QED BY <2>1, <2>2, <2>3, <2>4
<1>10. PromisedStatus' = "scored" BY <1>2, <1>5 DEF HostView
<1>. QED BY <1>3, <1>4, <1>7, <1>8, <1>9, <1>10 DEF Promise!Score

LEMMA HostsImplement ==
  ASSUME ~Overlap, "die" \notin Faults, IInv, SerialInv, NEW s \in Hosts, HostStep(s)
  PROVE  Promise!Score \/ Still
BY OpenQueueIsStill, ReadForScoreIsStill, SaveScoreScores, MarkScoredIsStill, LogScoreIsStill
DEF HostStep, HostDies, IInv

LEMMA InitImplements == Init => Promise!Init
<1>. SUFFICES ASSUME Init PROVE Promise!Init
  OBVIOUS
<1>1. /\ \A r \in Posts : post[r].pc = "idle"
      /\ \A s \in Hosts : host[s].pc = "idle"
      /\ status = "pending" /\ submission = NoSubmission /\ media = NoMedia /\ audit = <<>>
  BY DEF Init, PostIdle, HostIdle
<1>2. Scoring = {} /\ Logging = {} /\ ~Tentative
  BY <1>1 DEF Scoring, Logging, Tentative
<1>3. PromisedStatus = "pending" BY <1>1, <1>2 DEF PromisedStatus
<1>4. PromisedContent = Promise!Nothing
  BY <1>1, TentativeSeen DEF TentativeView, NothingSaved, Promise!Nothing
<1>5. PromisedLog = <<>> BY <1>1, <1>2 DEF PromisedLog, Changes
<1>. QED BY <1>1, <1>3, <1>4, <1>5 DEF Promise!Init, NoMedia

LEMMA StepImplements ==
  ASSUME ~Overlap, "die" \notin Faults
  PROVE  IInv /\ SerialInv /\ IInv' /\ [Next]_vars => [Promise!Next]_Promise!vars
<1>. SUFFICES ASSUME IInv, SerialInv, IInv', [Next]_vars PROVE Promise!Next \/ Still
  BY DEF Still, Promise!vars
<1>1. ASSUME NEW r \in Posts, PostStep(r) PROVE Promise!Next \/ Still
  BY <1>1, PostsImplement DEF IInv, Promise!Next
<1>2. ASSUME NEW s \in Hosts, HostStep(s) PROVE Promise!Next \/ Still
  BY <1>2, HostsImplement DEF Promise!Next
<1>3. CASE UNCHANGED vars
  BY <1>3 DEF vars, Still, PromisedStatus, PromisedContent, PromisedLog, Scoring, Logging,
              Tentative, Created, Changes, ScoreEntry
<1>. QED BY <1>1, <1>2, <1>3 DEF Next, AllServed

(* Served one at a time and never killed, the requests implement the        *)
(* promise: a POST is saved as a whole at its transaction or leaves nothing, *)
(* whatever it had created before, and a score counts with its status and   *)
(* its audit entry from the moment it is saved.                             *)
THEOREM PromiseIsKept ==
  ASSUME ~Overlap, "die" \notin Faults PROVE Spec => ImplementsPromise
<1>1. Spec => []IInv BY Invariance
<1>2. Spec => []SerialInv BY SerialInvariance
<1>. QED BY <1>1, <1>2, InitImplements, StepImplements, PTL DEF Spec, ImplementsPromise, Promise!Spec
=============================================================================
