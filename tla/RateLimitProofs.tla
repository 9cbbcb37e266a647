--------------------------- MODULE RateLimitProofs ---------------------------
(***************************************************************************)
(* How far overlapping requests can pass the limit, for every limit,       *)
(* window and number of threads.  A thread that has read a counter below   *)
(* the limit still has its increment to come (Passing); the counter and    *)
(* these increments together never exceed Limit + number of threads - 1.   *)
(***************************************************************************)
EXTENDS RateLimit, FiniteSetTheorems, TLAPS

Passing == {t \in Threads : thread[t] \in {"add", "incr"}}

Budget == entry.count + Cardinality(Passing) <= Limit + Cardinality(Threads) - 1

IInv == TypeOK /\ Budget

(* The sizes in the budget are numbers, and nobody passes but a thread.    *)
LEMMA PassingSize ==
  /\ IsFiniteSet(Passing) /\ Cardinality(Passing) \in Nat
  /\ Cardinality(Threads) \in Nat /\ Cardinality(Passing) <= Cardinality(Threads)
<1>1. Passing \subseteq Threads BY DEF Passing
<1>. QED BY <1>1, ThreadsAreFinite, FS_Subset, FS_CardinalityType

LEMMA InitIInv == ASSUME Init PROVE IInv
<1>1. TypeOK BY LimitsArePositive DEF Init, TypeOK, NoEntry, NoneAllowed, Present
<1>2. Passing = {} BY DEF Init, Passing
<1>3. Cardinality(Passing) = 0 BY <1>2, FS_EmptySet
<1>4. Limit \in Nat /\ Limit > 0 BY LimitsArePositive
<1>5. entry.count = 0 BY DEF Init, NoEntry
<1>. QED BY <1>1, <1>3, <1>4, <1>5, PassingSize DEF IInv, Budget

LEMMA StepTypeOK == TypeOK /\ [Next]_vars => TypeOK'
<1>. SUFFICES ASSUME TypeOK, [Next]_vars PROVE TypeOK'
  OBVIOUS
<1>1. Limit \in Nat /\ Window \in Nat /\ Window > 0 BY LimitsArePositive
<1>2. CASE UNCHANGED vars BY <1>2 DEF vars, TypeOK, Present
<1>3. CASE Tick
  <2>1. entry'.count \in Nat /\ entry' \in [count : Nat, left : 0 .. Window]
        /\ (entry'.left = 0 => entry' = NoEntry)
    BY <1>1, <1>3 DEF Tick, TypeOK, NoEntry
  <2>2. recent' \in [0 .. Window - 1 -> Nat]
    BY <1>1, <1>3 DEF Tick, TypeOK
  <2>. QED BY <1>1, <1>3, <2>1, <2>2 DEF Tick, TypeOK, Present
<1>4. CASE Cull BY <1>1, <1>4 DEF Cull, TypeOK, NoEntry, NoneAllowed, Present
<1>5. ASSUME NEW t \in Threads, Get(t) PROVE TypeOK'
  BY <1>5 DEF Get, Refused, TypeOK, Present
<1>6. ASSUME NEW t \in Threads, Add(t) PROVE TypeOK'
  BY <1>1, <1>6 DEF Add, Added, TypeOK, Present
<1>7. ASSUME NEW t \in Threads, Incr(t) PROVE TypeOK'
  BY <1>1, <1>7 DEF Incr, TypeOK, Present, NoEntry
<1>. QED BY <1>2, <1>3, <1>4, <1>5, <1>6, <1>7 DEF Next

(* A step that neither lets a thread pass nor lets it increment leaves the *)
(* threads that pass as they are; one that does changes them by that thread. *)
LEMMA StepBudget == IInv /\ [Next]_vars => Budget'
<1>. SUFFICES ASSUME IInv, [Next]_vars PROVE Budget'
  OBVIOUS
<1>1. /\ Limit \in Nat /\ Limit > 0
      /\ entry.count \in Nat /\ thread \in [Threads -> {"idle", "add", "incr", "allowed",
                                                        "refused", "error"}]
  BY LimitsArePositive DEF IInv, TypeOK
<1>2. Budget BY DEF IInv
<1>3. ASSUME Passing' = Passing, entry'.count = entry.count \/ entry'.count = 0 PROVE Budget'
  BY <1>1, <1>2, <1>3, PassingSize DEF Budget
<1>4. CASE UNCHANGED vars BY <1>3, <1>4 DEF vars, Passing
<1>5. CASE Tick
  BY <1>3, <1>5 DEF Tick, NoEntry, Passing, IInv, TypeOK
<1>6. CASE Cull BY <1>3, <1>6 DEF Cull, NoEntry, Passing
<1>7. ASSUME NEW t \in Threads, Get(t) PROVE Budget'
  <2>1. CASE Exceeded(entry.count)
    <3>1. Passing' = Passing BY <1>1, <1>7, <2>1 DEF Get, Passing
    <3>2. entry' = entry BY <1>7, <2>1 DEF Get, Refused
    <3>. QED BY <1>3, <3>1, <3>2
  <2>2. CASE ~Exceeded(entry.count)
    <3>1. entry' = entry /\ entry.count <= Limit - 1
      BY <1>1, <1>7, <2>2 DEF Get, Exceeded
    <3>2. Cardinality(Passing)' \in Nat /\ Cardinality(Passing)' <= Cardinality(Threads)
      <4>1. Passing' \subseteq Threads BY DEF Passing
      <4>. QED BY <4>1, ThreadsAreFinite, FS_Subset, FS_CardinalityType
    <3>. QED BY <1>1, <3>1, <3>2, PassingSize DEF Budget
  <2>. QED BY <2>1, <2>2
<1>8. ASSUME NEW t \in Threads, Add(t) PROVE Budget'
  <2>1. Passing' = Passing BY <1>1, <1>8 DEF Add, Passing
  <2>2. entry'.count = entry.count \/ entry'.count = 0 BY <1>8 DEF Add, Added
  <2>. QED BY <1>3, <2>1, <2>2
<1>9. ASSUME NEW t \in Threads, Incr(t) PROVE Budget'
  <2>1. t \in Passing /\ Passing' = Passing \ {t} BY <1>1, <1>9 DEF Incr, Passing
  <2>2. Cardinality(Passing)' = Cardinality(Passing) - 1
    BY <2>1, PassingSize, FS_RemoveElement
  <2>3. entry'.count \in {entry.count, entry.count + 1}
    BY <1>9 DEF Incr, IInv, TypeOK
  <2>. QED BY <1>1, <1>2, <2>2, <2>3, PassingSize DEF Budget
<1>. QED BY <1>4, <1>5, <1>6, <1>7, <1>8, <1>9 DEF Next

(* Overlapping requests pass the limit by at most one less than there are  *)
(* threads.                                                                *)
THEOREM OvershootBounded == Spec => []OvershootIsBounded
<1>1. Init => IInv BY InitIInv
<1>2. IInv /\ [Next]_vars => IInv' BY StepTypeOK, StepBudget DEF IInv
<1>3. IInv => OvershootIsBounded
  BY PassingSize, LimitsArePositive DEF IInv, Budget, TypeOK, OvershootIsBounded
<1>. QED BY <1>1, <1>2, <1>3, PTL DEF Spec

(* Every reachable state is of its type: the counter is never more than    *)
(* its entry, and an entry that has no time left is gone.                  *)
THEOREM TypeCorrect == Spec => []TypeOK
<1>1. Init => TypeOK BY InitIInv DEF IInv
<1>. QED BY <1>1, StepTypeOK, PTL DEF Spec

-----------------------------------------------------------------------------
(* The requests allowed in a span of time.                                 *)

Counts == [0 .. Window - 1 -> Nat]

LEMMA WindowIsNat == Window \in Nat /\ Window > 0
  BY LimitsArePositive

LEMMA AllowedMembers ==
  ASSUME NEW r, NEW lo, NEW hi, NEW p
  PROVE  p \in Allowed(r, lo, hi)
           <=> \E age \in lo .. hi : \E i \in 1 .. r[age] : p = <<age, i>>
  BY DEF Allowed

LEMMA AllowedFinite ==
  ASSUME NEW r \in Counts, NEW lo \in Nat, NEW hi \in 0 .. Window - 1
  PROVE  IsFiniteSet(Allowed(r, lo, hi)) /\ Cardinality(Allowed(r, lo, hi)) \in Nat
<1>1. \A age \in lo .. hi : r[age] \in Nat BY WindowIsNat DEF Counts
<1>. DEFINE Numbers(age) == 1 .. r[age]
            Sets == {Numbers(age) : age \in lo .. hi}
            f == [age \in lo .. hi |-> Numbers(age)]
<1>2. ASSUME NEW T \in Sets PROVE IsFiniteSet(T)
  <2>1. PICK age \in lo .. hi : T = 1 .. r[age] OBVIOUS
  <2>2. r[age] \in Int BY <1>1
  <2>. QED BY <2>1, <2>2, FS_Interval
<1>3. IsFiniteSet(lo .. hi)
  <2>1. lo \in Int /\ hi \in Int BY WindowIsNat
  <2>. QED BY <2>1, FS_Interval
<1>4. IsFiniteSet(Sets)
  <2>1. f \in Surjection(lo .. hi, Sets) BY DEF Surjection
  <2>. HIDE DEF f, Sets
  <2>. QED BY <1>3, <2>1, FS_Surjection
<1>5. \A age \in lo .. hi : \A i \in 1 .. r[age] : i \in UNION Sets OBVIOUS
<1>. HIDE DEF Sets
<1>6. IsFiniteSet(UNION Sets) BY <1>2, <1>4, FS_UNION
<1>. DEFINE M == UNION Sets
<1>7. Allowed(r, lo, hi) \subseteq (lo .. hi) \X M BY <1>5 DEF Allowed
<1>. HIDE DEF M
<1>8. IsFiniteSet((lo .. hi) \X M) BY <1>3, <1>6, FS_Product DEF M
<1>. QED BY <1>7, <1>8, FS_Subset, FS_CardinalityType

(* Whoever was allowed in a span was so in its later or its earlier part.  *)
LEMMA AllowedSplit ==
  ASSUME NEW r \in Counts, NEW mid \in 0 .. Window - 1
  PROVE  Cardinality(Allowed(r, 0, Window - 1))
           <= Cardinality(Allowed(r, 0, mid)) + Cardinality(Allowed(r, mid + 1, Window - 1))
<1>. DEFINE S == Allowed(r, 0, mid)
            T == Allowed(r, mid + 1, Window - 1)
<1>0. Window - 1 \in 0 .. Window - 1 /\ mid + 1 \in Nat BY WindowIsNat
<1>1. /\ IsFiniteSet(S) /\ Cardinality(S) \in Nat
      /\ IsFiniteSet(T) /\ Cardinality(T) \in Nat
  BY <1>0, AllowedFinite
<1>2. ASSUME NEW p \in Allowed(r, 0, Window - 1) PROVE p \in S \cup T
  <2>1. PICK age \in 0 .. Window - 1 : \E i \in 1 .. r[age] : p = <<age, i>>
    BY <1>2, AllowedMembers
  <2>2. age \in 0 .. mid \/ age \in mid + 1 .. Window - 1 BY WindowIsNat
  <2>. QED BY <2>1, <2>2, AllowedMembers
<1>. HIDE DEF S, T
<1>3. Cardinality(S \cup T) = Cardinality(S) + Cardinality(T) - Cardinality(S \cap T)
      /\ IsFiniteSet(S \cup T)
  BY <1>1, FS_Union
<1>4. Cardinality(S \cap T) \in Nat BY <1>1, FS_Intersection, FS_CardinalityType
<1>5. Cardinality(Allowed(r, 0, Window - 1)) <= Cardinality(S \cup T)
      /\ Cardinality(Allowed(r, 0, Window - 1)) \in Nat
  <2>1. Allowed(r, 0, Window - 1) \subseteq S \cup T BY <1>2
  <2>. QED BY <1>3, <2>1, FS_Subset, FS_CardinalityType
<1>. QED BY <1>1, <1>3, <1>4, <1>5 DEF S, T

(* A second later they are a second older, and those that were a window    *)
(* old do not count any more.                                              *)
LEMMA AllowedAges ==
  ASSUME NEW r \in Counts, NEW s,
         \A age \in 0 .. Window - 1 : s[age] = IF age = 0 THEN 0 ELSE r[age - 1],
         NEW lo \in Nat, NEW hi \in 0 .. Window - 1,
         NEW from \in Nat, NEW to \in 0 .. Window - 1,
         from = 0 \/ from = lo - 1, hi - 1 <= to
  PROVE  Cardinality(Allowed(s, lo, hi)) <= Cardinality(Allowed(r, from, to))
<1>. DEFINE S == Allowed(s, lo, hi)
            T == Allowed(r, from, to)
            f == [p \in S |-> <<p[1] - 1, p[2]>>]
<1>1. ASSUME NEW p \in S
      PROVE  \E age \in 1 .. hi : \E i \in Int :
               p = <<age, i>> /\ age >= lo /\ i \in 1 .. r[age - 1]
  <2>1. PICK age \in lo .. hi : \E i \in 1 .. s[age] : p = <<age, i>>
    BY <1>1, AllowedMembers
  <2>2. PICK i \in 1 .. s[age] : p = <<age, i>> BY <2>1
  <2>3. age \in 0 .. Window - 1 BY WindowIsNat
  <2>4. age # 0 BY <2>2, <2>3
  <2>5. s[age] = r[age - 1] BY <2>3, <2>4
  <2>6. age \in 1 .. hi /\ age >= lo BY <2>3, <2>4
  <2>. QED BY <2>2, <2>5, <2>6
<1>2. ASSUME NEW p \in S PROVE f[p] \in T
  <2>1. PICK age \in 1 .. hi : \E i \in Int :
          p = <<age, i>> /\ age >= lo /\ i \in 1 .. r[age - 1]
    BY <1>1
  <2>2. PICK i \in Int : p = <<age, i>> /\ age >= lo /\ i \in 1 .. r[age - 1] BY <2>1
  <2>3. age - 1 \in from .. to BY WindowIsNat, <2>2
  <2>4. <<age - 1, i>> \in T BY <2>2, <2>3, AllowedMembers
  <2>5. f[p] = <<age - 1, i>> BY <2>2
  <2>. QED BY <2>4, <2>5
<1>3. ASSUME NEW p \in S, NEW q \in S, f[p] = f[q] PROVE p = q
  <2>1. PICK a \in 1 .. hi : \E i \in Int : p = <<a, i>> BY <1>1
  <2>2. PICK i \in Int : p = <<a, i>> BY <2>1
  <2>3. PICK b \in 1 .. hi : \E j \in Int : q = <<b, j>> BY <1>1
  <2>4. PICK j \in Int : q = <<b, j>> BY <2>3
  <2>5. <<a - 1, i>> = <<b - 1, j>> BY <1>3, <2>2, <2>4
  <2>6. a - 1 = b - 1 /\ i = j BY <2>5
  <2>. QED BY <2>2, <2>4, <2>6
<1>. HIDE DEF S, T
<1>4. f \in [S -> T] BY <1>2
<1>. HIDE DEF f
<1>5. f \in Injection(S, T) BY <1>3, <1>4 DEF Injection, IsInjective
<1>6. IsFiniteSet(T) BY AllowedFinite DEF T
<1>. QED BY <1>5, <1>6, FS_Injection DEF S, T

(* One more now is one more in a span that ends now, and none in another.  *)
LEMMA AllowedGrows ==
  ASSUME NEW r \in Counts, NEW s, NEW hi \in 0 .. Window - 1,
         \A age \in 0 .. Window - 1 : s[age] = IF age = 0 THEN r[0] + 1 ELSE r[age]
  PROVE  /\ Cardinality(Allowed(s, 0, hi)) <= Cardinality(Allowed(r, 0, hi)) + 1
         /\ Allowed(s, hi + 1, Window - 1) = Allowed(r, hi + 1, Window - 1)
<1>. DEFINE S == Allowed(r, 0, hi)
            x == <<0, r[0] + 1>>
<1>1. r[0] \in Nat BY WindowIsNat DEF Counts
<1>2. ASSUME NEW p \in Allowed(s, 0, hi) PROVE p \in S \cup {x}
  <2>1. PICK age \in 0 .. hi : \E i \in 1 .. s[age] : p = <<age, i>>
    BY <1>2, AllowedMembers
  <2>2. PICK i \in 1 .. s[age] : p = <<age, i>> BY <2>1
  <2>3. age \in 0 .. Window - 1 BY WindowIsNat
  <2>4. CASE age = 0
    <3>1. s[age] = r[0] + 1 BY <2>3, <2>4
    <3>2. i \in 1 .. r[0] \/ i = r[0] + 1 BY <1>1, <2>2, <3>1
    <3>. QED BY <2>2, <2>4, <3>2, AllowedMembers
  <2>5. CASE age # 0
    <3>1. s[age] = r[age] BY <2>3, <2>5
    <3>. QED BY <2>2, <3>1, AllowedMembers
  <2>. QED BY <2>4, <2>5
<1>3. IsFiniteSet(S) /\ Cardinality(S) \in Nat
  <2>1. 0 \in Nat OBVIOUS
  <2>. QED BY <2>1, AllowedFinite
<1>4. Allowed(s, 0, hi) \subseteq S \cup {x} BY <1>2
<1>5. Allowed(s, hi + 1, Window - 1) = Allowed(r, hi + 1, Window - 1)
  <2>1. \A age \in hi + 1 .. Window - 1 : s[age] = r[age] BY WindowIsNat
  <2>. QED BY <2>1 DEF Allowed
<1>. HIDE DEF S, x
<1>6. IsFiniteSet(S \cup {x}) /\ Cardinality(S \cup {x}) <= Cardinality(S) + 1
  <2>1. Cardinality(S \cup {x}) = IF x \in S THEN Cardinality(S) ELSE Cardinality(S) + 1
    BY <1>3, FS_AddElement
  <2>2. IsFiniteSet(S \cup {x}) BY <1>3, FS_AddElement
  <2>. QED BY <1>3, <2>1, <2>2
<1>7. /\ Cardinality(Allowed(s, 0, hi)) <= Cardinality(S \cup {x})
      /\ Cardinality(Allowed(s, 0, hi)) \in Nat /\ Cardinality(S \cup {x}) \in Nat
  BY <1>4, <1>6, FS_Subset, FS_CardinalityType
<1>. QED BY <1>3, <1>5, <1>6, <1>7 DEF S

-----------------------------------------------------------------------------
(* Two windows.  While there is an entry, those allowed since it was added *)
(* are in its counter, and those before it are at most as many as one      *)
(* counter holds.  Nobody is allowed while there is none.                  *)

Most == Limit + Cardinality(Threads) - 1

Age == Window - entry.left   (* of the entry *)

WindowsInv ==
  /\ Present  => /\ Cardinality(Allowed(recent, 0, Age)) <= entry.count
                 /\ Cardinality(Allowed(recent, Age + 1, Window - 1)) <= Most
  /\ ~Present => /\ Cardinality(Allowed(recent, 0, Window - 1)) <= Most
                 /\ recent[0] = 0

LEMMA MostIsNat == IInv => Most \in Nat /\ entry.count \in Nat /\ entry.count <= Most
<1>1. Limit \in Nat /\ Limit > 0 BY LimitsArePositive
<1>. QED BY <1>1, PassingSize DEF Most, IInv, TypeOK, Budget

LEMMA StateTyped ==
  IInv => /\ recent \in Counts /\ entry.left \in 0 .. Window
          /\ entry \in [count : Nat, left : 0 .. Window]
  BY DEF IInv, TypeOK, Counts

LEMMA NoneAllowedCount ==
  ASSUME NEW hi \in 0 .. Window - 1 PROVE Cardinality(Allowed(NoneAllowed, 0, hi)) = 0
<1>1. \A age \in 0 .. hi : NoneAllowed[age] = 0 BY WindowIsNat DEF NoneAllowed
<1>2. Allowed(NoneAllowed, 0, hi) = {} BY <1>1 DEF Allowed
<1>. QED BY <1>2, FS_EmptySet

LEMMA EmptyWindows ==
  ASSUME IInv, recent = NoneAllowed, ~Present PROVE WindowsInv
<1>1. 0 \in 0 .. Window - 1 /\ Window - 1 \in 0 .. Window - 1 BY WindowIsNat
<1>2. Cardinality(Allowed(recent, 0, Window - 1)) = 0 BY <1>1, NoneAllowedCount
<1>3. recent[0] = 0 BY <1>1 DEF NoneAllowed
<1>. QED BY <1>2, <1>3, MostIsNat DEF WindowsInv

LEMMA TickWindows == ASSUME IInv, WindowsInv, Tick PROVE WindowsInv'
<1>1. /\ entry.left \in 0 .. Window /\ entry.count \in Nat
      /\ entry \in [count : Nat, left : 0 .. Window] /\ recent \in Counts
  BY StateTyped, MostIsNat
<1>2. \A age \in 0 .. Window - 1 : recent'[age] = IF age = 0 THEN 0 ELSE recent[age - 1]
  BY DEF Tick
<1>3. recent'[0] = 0 BY <1>2, WindowIsNat
<1>4. Cardinality(Allowed(recent', 0, Window - 1))
        <= Cardinality(Allowed(recent, 0, Window - 1))
  <2>1. Window - 1 \in 0 .. Window - 1 /\ Window - 1 - 1 <= Window - 1 BY WindowIsNat
  <2>. QED BY <1>1, <1>2, <2>1, AllowedAges
<1>5. CASE entry.left > 1
  <2>1. entry' = [entry EXCEPT !.left = @ - 1] BY <1>5 DEF Tick
  <2>2. entry'.left = entry.left - 1 /\ entry'.count = entry.count BY <1>1, <2>1
  <2>3. Age \in 0 .. Window - 2 /\ Age' = Age + 1 /\ Present /\ Present'
    BY <1>1, <1>5, <2>2, WindowIsNat DEF Age, Present
  <2>. DEFINE a == Age
  <2>4. a \in 0 .. Window - 1 /\ a + 1 \in 0 .. Window - 1 /\ a + 1 - 1 <= a
        /\ a + 2 \in Nat /\ a + 2 - 1 = a + 1 /\ a + 1 \in Nat
        /\ Window - 1 \in 0 .. Window - 1 /\ Window - 1 - 1 <= Window - 1
    BY <2>3, WindowIsNat
  <2>. HIDE DEF a
  <2>5. Cardinality(Allowed(recent', 0, a + 1)) <= Cardinality(Allowed(recent, 0, a))
    BY <1>1, <1>2, <2>4, AllowedAges
  <2>6. Cardinality(Allowed(recent', a + 2, Window - 1))
          <= Cardinality(Allowed(recent, a + 1, Window - 1))
    BY <1>1, <1>2, <2>4, AllowedAges
  <2>7. Age' = a + 1 /\ Age' + 1 = a + 2 BY <2>3 DEF a
  <2>8. recent' \in Counts
    BY <1>1, WindowIsNat DEF Tick, Counts
  <2>9. /\ Cardinality(Allowed(recent', 0, a + 1)) \in Nat
        /\ Cardinality(Allowed(recent, 0, a)) \in Nat
        /\ Cardinality(Allowed(recent', a + 2, Window - 1)) \in Nat
        /\ Cardinality(Allowed(recent, a + 1, Window - 1)) \in Nat
    BY <1>1, <2>4, <2>8, AllowedFinite
  <2>10. /\ Cardinality(Allowed(recent, 0, a)) <= entry.count
         /\ Cardinality(Allowed(recent, a + 1, Window - 1)) <= Most
    BY <2>3 DEF WindowsInv, a
  <2>11. Most \in Nat BY MostIsNat
  <2>12. /\ Cardinality(Allowed(recent', 0, a + 1)) <= entry.count
         /\ Cardinality(Allowed(recent', a + 2, Window - 1)) <= Most
    BY <1>1, <2>5, <2>6, <2>9, <2>10, <2>11
  <2>. QED BY <2>2, <2>3, <2>7, <2>12 DEF WindowsInv, Most
<1>6. CASE entry.left <= 1
  <2>1. ~Present' BY <1>1, <1>6 DEF Tick, Present, NoEntry
  <2>2. Cardinality(Allowed(recent, 0, Window - 1)) <= Most
    <3>1. CASE entry.left = 1
      <4>1. Age = Window - 1 /\ Present BY <1>1, <3>1 DEF Age, Present
      <4>2. Window - 1 \in 0 .. Window - 1 /\ 0 \in Nat BY WindowIsNat
      <4>3. Cardinality(Allowed(recent, 0, Window - 1)) \in Nat
        BY <1>1, <4>2, AllowedFinite
      <4>4. Cardinality(Allowed(recent, 0, Window - 1)) <= entry.count
        BY <4>1 DEF WindowsInv
      <4>. QED BY <4>3, <4>4, MostIsNat
    <3>2. CASE entry.left = 0 BY <3>2 DEF WindowsInv, Present
    <3>. QED BY <1>1, <1>6, <3>1, <3>2, WindowIsNat
  <2>3. /\ Cardinality(Allowed(recent, 0, Window - 1)) \in Nat
        /\ Cardinality(Allowed(recent', 0, Window - 1)) \in Nat
    <3>1. recent' \in Counts BY <1>1, WindowIsNat DEF Tick, Counts
    <3>2. Window - 1 \in 0 .. Window - 1 /\ 0 \in Nat BY WindowIsNat
    <3>. QED BY <1>1, <3>1, <3>2, AllowedFinite
  <2>4. Cardinality(Allowed(recent', 0, Window - 1)) <= Most
    BY <1>4, <2>2, <2>3, MostIsNat
  <2>. QED BY <1>3, <2>1, <2>4 DEF WindowsInv, Most
<1>. QED BY <1>1, <1>5, <1>6, WindowIsNat

(* cache.add: with no entry nobody has been allowed this second, so the    *)
(* new counter counts them all.                                            *)
LEMMA AddWindows ==
  ASSUME IInv, WindowsInv, NEW t \in Threads, Add(t) PROVE WindowsInv'
<1>1. recent' = recent /\ entry' = Added BY DEF Add
<1>2. CASE Present
  <2>1. entry' = entry BY <1>1, <1>2 DEF Added
  <2>. QED BY <1>1, <2>1 DEF WindowsInv, Present, Age, Most
<1>3. CASE ~Present
  <2>1. entry'.left = Window /\ entry'.count = 0 BY <1>1, <1>3 DEF Added
  <2>2. Present' /\ Age' = 0 BY <2>1, WindowIsNat DEF Present, Age
  <2>3. recent[0] = 0 /\ Cardinality(Allowed(recent, 0, Window - 1)) <= Most
    BY <1>3 DEF WindowsInv
  <2>4. Allowed(recent, 0, 0) = {} BY <2>3 DEF Allowed
  <2>5. Cardinality(Allowed(recent, 0, 0)) = 0 BY <2>4, FS_EmptySet
  <2>6. Allowed(recent, 1, Window - 1) = Allowed(recent, 0, Window - 1)
    <3>1. \A age \in 0 .. Window - 1 : age \in 1 .. Window - 1 \/ 1 .. recent[age] = {}
      BY <2>3
    <3>2. 1 .. Window - 1 \subseteq 0 .. Window - 1 OBVIOUS
    <3>. QED BY <3>1, <3>2 DEF Allowed
  <2>7. Age' + 1 = 1 BY <2>2
  <2>. QED BY <1>1, <2>1, <2>2, <2>3, <2>5, <2>6, <2>7 DEF WindowsInv, Most
<1>. QED BY <1>2, <1>3

(* cache.incr: the counter and those allowed this second grow by one.      *)
LEMMA IncrWindows ==
  ASSUME IInv, WindowsInv, NEW t \in Threads, Incr(t) PROVE WindowsInv'
<1>1. /\ entry.left \in 0 .. Window /\ entry.count \in Nat
      /\ entry \in [count : Nat, left : 0 .. Window] /\ recent \in Counts
  BY StateTyped, MostIsNat
<1>2. CASE ~Present
  <2>1. entry' = entry /\ recent' = recent BY <1>2 DEF Incr
  <2>. QED BY <2>1 DEF WindowsInv, Present, Age, Most
<1>3. CASE Present
  <2>1. entry' = [entry EXCEPT !.count = @ + 1] /\ recent' = [recent EXCEPT ![0] = @ + 1]
    BY <1>3 DEF Incr
  <2>2. entry'.left = entry.left /\ entry'.count = entry.count + 1 BY <1>1, <2>1
  <2>3. Age' = Age /\ Age \in 0 .. Window - 1 /\ Present'
    BY <1>1, <1>3, <2>2, WindowIsNat DEF Age, Present
  <2>. DEFINE a == Age
  <2>4. \A age \in 0 .. Window - 1 :
          recent'[age] = IF age = 0 THEN recent[0] + 1 ELSE recent[age]
    BY <1>1, <2>1, WindowIsNat DEF Counts
  <2>5. a \in 0 .. Window - 1 /\ 0 \in Nat BY <2>3
  <2>6. /\ Cardinality(Allowed(recent, 0, a)) <= entry.count
        /\ Cardinality(Allowed(recent, a + 1, Window - 1)) <= Most
    BY <1>3 DEF WindowsInv
  <2>7. recent' \in Counts BY <1>1, <2>1, WindowIsNat DEF Counts
  <2>. HIDE DEF a
  <2>8. /\ Cardinality(Allowed(recent', 0, a)) <= Cardinality(Allowed(recent, 0, a)) + 1
        /\ Allowed(recent', a + 1, Window - 1) = Allowed(recent, a + 1, Window - 1)
    BY <1>1, <2>4, <2>5, AllowedGrows
  <2>9. Cardinality(Allowed(recent, 0, a)) \in Nat /\ Cardinality(Allowed(recent', 0, a)) \in Nat
    BY <1>1, <2>5, <2>7, AllowedFinite
  <2>10. Cardinality(Allowed(recent', 0, a)) <= entry'.count
    BY <1>1, <2>2, <2>6, <2>8, <2>9
  <2>11. Age' = a BY <2>3 DEF a
  <2>. QED BY <2>3, <2>6, <2>8, <2>10, <2>11 DEF WindowsInv, Most
<1>. QED BY <1>2, <1>3

(* In any span of window_seconds no more requests are allowed than two     *)
(* counters hold, for every limit, window and number of threads.           *)
THEOREM TwoWindows == Spec => []TwoWindowsAtMost
<1>1. ASSUME Init PROVE IInv /\ WindowsInv
  <2>1. IInv BY <1>1, InitIInv
  <2>2. ~Present BY <1>1 DEF Init, NoEntry, Present
  <2>. QED BY <1>1, <2>1, <2>2, EmptyWindows DEF Init
<1>2. IInv /\ [Next]_vars => IInv' BY StepTypeOK, StepBudget DEF IInv
<1>3. ASSUME IInv, WindowsInv, [Next]_vars PROVE WindowsInv'
  <2>1. ASSUME entry' = entry, recent' = recent PROVE WindowsInv'
    <3>1. (Present' <=> Present) /\ Age' = Age /\ Most' = Most
      BY <2>1 DEF Present, Age, Most
    <3>. QED BY <1>3, <2>1, <3>1 DEF WindowsInv
  <2>2. CASE Tick BY <1>3, <2>2, TickWindows
  <2>3. CASE Cull
    <3>1. IInv' BY <1>2, <1>3
    <3>2. recent' = NoneAllowed /\ entry' = NoEntry BY <2>3 DEF Cull
    <3>3. (recent = NoneAllowed)' /\ ~Present'
      BY <3>2 DEF Present, NoEntry, NoneAllowed
    <3>4. 0 \in 0 .. Window - 1 /\ Window - 1 \in 0 .. Window - 1 BY WindowIsNat
    <3>5. Cardinality(Allowed(recent', 0, Window - 1)) = 0
      BY <3>2, <3>4, NoneAllowedCount
    <3>6. recent'[0] = 0 BY <3>2, <3>4 DEF NoneAllowed
    <3>7. Most \in Nat BY <1>3, MostIsNat
    <3>. QED BY <3>3, <3>5, <3>6, <3>7 DEF WindowsInv, Most
  <2>4. ASSUME NEW t \in Threads, Get(t) PROVE UNCHANGED <<entry, recent>>
    BY <2>4 DEF Get, Refused
  <2>. QED BY <1>3, <2>1, <2>2, <2>3, <2>4, AddWindows, IncrWindows DEF Next, vars
<1>4. ASSUME IInv, WindowsInv PROVE TwoWindowsAtMost
  <2>1. /\ entry.left \in 0 .. Window /\ recent \in Counts
        /\ Most \in Nat /\ entry.count \in Nat /\ entry.count <= Most
    BY <1>4, StateTyped, MostIsNat
  <2>2. Window - 1 \in 0 .. Window - 1 /\ 0 \in Nat BY WindowIsNat
  <2>3. Cardinality(Allowed(recent, 0, Window - 1)) \in Nat
    BY <2>1, <2>2, AllowedFinite
  <2>4. CASE Present
    <3>. DEFINE a == Age
    <3>1. a \in 0 .. Window - 1 /\ a + 1 \in Nat
      BY <2>1, <2>4, WindowIsNat DEF Age, Present
    <3>2. /\ Cardinality(Allowed(recent, 0, a)) <= entry.count
          /\ Cardinality(Allowed(recent, a + 1, Window - 1)) <= Most
      BY <1>4, <2>4 DEF WindowsInv
    <3>. HIDE DEF a
    <3>3. /\ Cardinality(Allowed(recent, 0, a)) \in Nat
          /\ Cardinality(Allowed(recent, a + 1, Window - 1)) \in Nat
      BY <2>1, <2>2, <3>1, AllowedFinite
    <3>4. Cardinality(Allowed(recent, 0, Window - 1))
            <= Cardinality(Allowed(recent, 0, a))
               + Cardinality(Allowed(recent, a + 1, Window - 1))
      BY <2>1, <3>1, AllowedSplit
    <3>5. Cardinality(Allowed(recent, 0, Window - 1)) <= 2 * Most
      BY <2>1, <2>3, <3>2, <3>3, <3>4
    <3>. QED BY <3>5 DEF Most, TwoWindowsAtMost
  <2>5. CASE ~Present
    <3>1. Cardinality(Allowed(recent, 0, Window - 1)) <= Most
      BY <1>4, <2>5 DEF WindowsInv
    <3>2. Cardinality(Allowed(recent, 0, Window - 1)) <= 2 * Most BY <2>1, <2>3, <3>1
    <3>. QED BY <3>2 DEF Most, TwoWindowsAtMost
  <2>. QED BY <2>4, <2>5
<1>. QED BY <1>1, <1>2, <1>3, <1>4, PTL DEF Spec
=============================================================================
