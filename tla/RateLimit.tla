----------------------------- MODULE RateLimit ------------------------------
(***************************************************************************)
(* check_rate_limit of apps/common/rate_limit.py for one key: a counter in *)
(* the cache that lives for window_seconds, read, created and incremented  *)
(* by three calls to the cache.  Each call is atomic and other threads run *)
(* in between.  The cache is the process's own LocMemCache: an entry is    *)
(* gone when its time is up, and may be culled when the cache is full.     *)
(*                                                                         *)
(* Time is kept as what is left of the entry's and as the age of what has  *)
(* been allowed, so it needs no bound.                                     *)
(***************************************************************************)
EXTENDS Integers, FiniteSets

CONSTANTS
  Threads,   (* the server's threads, each with a request for this key          *)
  Limit,     (* limit                                                           *)
  Window     (* window_seconds                                                  *)

ASSUME ThreadsAreFinite == IsFiniteSet(Threads)
ASSUME LimitsArePositive == Limit \in Nat \ {0} /\ Window \in Nat \ {0}

VARIABLES
  entry,    (* the cache's entry: its counter and the seconds it has left       *)
  thread,   (* where each thread is in check_rate_limit, or what it returned    *)
  recent    (* how many requests were allowed 0, 1, ... seconds ago, since the  *)
            (* entry was last culled                                            *)

vars == <<entry, thread, recent>>

NoEntry == [count |-> 0, left |-> 0]
Present == entry.left > 0

(* Mutant: the request that reaches the limit is let through.              *)
Exceeded_OffByOne(count) == count > Limit

Exceeded(count) == count >= Limit

(* Mutant: a refused request restarts the window.                          *)
Refused_Touches == entry' = [entry EXCEPT !.left = Window]

Refused == UNCHANGED entry

(* cache.get(key, 0)                                                       *)
Get(t) ==
  /\ thread[t] \notin {"add", "incr"}
  /\ IF Exceeded(entry.count)
       THEN Refused /\ thread' = [thread EXCEPT ![t] = "refused"]
       ELSE UNCHANGED entry /\ thread' = [thread EXCEPT ![t] = "add"]
  /\ UNCHANGED recent

(* Mutant: cache.set, whether or not there is an entry.                    *)
Added_Set == [count |-> 0, left |-> Window]

(* cache.add(key, 0, timeout=window_seconds)                               *)
Added == IF Present THEN entry ELSE [count |-> 0, left |-> Window]

Add(t) ==
  /\ thread[t] = "add"
  /\ entry' = Added
  /\ thread' = [thread EXCEPT ![t] = "incr"]
  /\ UNCHANGED recent

(* Mutant: a missing entry counts as 0, and gets no timeout.               *)
Incr_Missing(t) ==
  /\ thread[t] = "incr"
  /\ entry' = [entry EXCEPT !.count = @ + 1]
  /\ thread' = [thread EXCEPT ![t] = "allowed"]
  /\ recent' = [recent EXCEPT ![0] = @ + 1]

(* cache.incr(key), which raises when the entry has gone meanwhile and     *)
(* leaves the timeout alone.                                               *)
Incr(t) ==
  /\ thread[t] = "incr"
  /\ IF Present
       THEN /\ entry' = [entry EXCEPT !.count = @ + 1]
            /\ thread' = [thread EXCEPT ![t] = "allowed"]
            /\ recent' = [recent EXCEPT ![0] = @ + 1]
       ELSE /\ thread' = [thread EXCEPT ![t] = "error"]
            /\ UNCHANGED <<entry, recent>>

Tick ==
  /\ entry' = IF entry.left > 1 THEN [entry EXCEPT !.left = @ - 1] ELSE NoEntry
  /\ recent' = [age \in 0 .. Window - 1 |-> IF age = 0 THEN 0 ELSE recent[age - 1]]
  /\ UNCHANGED thread

NoneAllowed == [age \in 0 .. Window - 1 |-> 0]

(* The cache holds too many entries and drops this one before its time.    *)
Cull ==
  /\ Present
  /\ entry' = NoEntry
  /\ recent' = NoneAllowed
  /\ UNCHANGED thread

Init ==
  /\ entry = NoEntry
  /\ thread = [t \in Threads |-> "idle"]
  /\ recent = NoneAllowed

Next == Tick \/ Cull \/ \E t \in Threads : Get(t) \/ Add(t) \/ Incr(t)

Spec == Init /\ [][Next]_vars

(* Time passes; no request needs to come, nor to get on.                   *)
FairSpec == Spec /\ WF_vars(Tick)

-----------------------------------------------------------------------------
(* Properties                                                              *)

(* The counter and the ages are numbers, and without time left there is no *)
(* entry.                                                                  *)
TypeOK ==
  /\ entry \in [count : Nat, left : 0 .. Window]
  /\ ~Present => entry = NoEntry
  /\ thread \in [Threads -> {"idle", "add", "incr", "allowed", "refused", "error"}]
  /\ recent \in [0 .. Window - 1 -> Nat]

(* The counter is read long before it is incremented, so overlapping       *)
(* requests can pass the limit, by one less than there are threads.        *)
OvershootIsBounded == entry.count <= Limit + Cardinality(Threads) - 1

(* The requests allowed from lo to hi seconds ago, told apart by their age *)
(* and a number.                                                           *)
Allowed(counts, lo, hi) == UNION {{age} \X (1 .. counts[age]) : age \in lo .. hi}

(* In any span of window_seconds without a cull, no more requests are      *)
(* allowed than two windows hold: one may end and the next begin within    *)
(* the span.                                                               *)
TwoWindowsAtMost ==
  Cardinality(Allowed(recent, 0, Window - 1)) <= 2 * (Limit + Cardinality(Threads) - 1)

(* A client that has used up its limit is not shut out for good, however   *)
(* many requests it sends meanwhile.                                       *)
NotShutOut == Exceeded(entry.count) ~> ~Exceeded(entry.count)
=============================================================================
