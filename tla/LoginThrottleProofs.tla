------------------------ MODULE LoginThrottleProofs ------------------------
(***************************************************************************)
(* The two bounds of module LoginThrottle, for every capacity, cost,       *)
(* interval, window and number of requests.                                *)
(*                                                                         *)
(* The rate bound is a potential: tokens - updated never grows, whatever   *)
(* the order of the times, and falls by Cost with each admission; when the *)
(* first request of the interval is admitted it is at most Capacity - From,*)
(* and an admission leaves it at least - To.                               *)
(*                                                                         *)
(* The failure bound: what the guard has kept is what is young enough of   *)
(* all failures since the last success, for some moment that is not later  *)
(* than now; so what it counts does not depend on when it threw times away.*)
(***************************************************************************)
EXTENDS LoginThrottle, ListsProofs, TLAPS

BucketInv ==
    /\ clock \in Nat /\ spent \in Nat
    /\ now \in [Requests -> Nat]
    /\ \A r \in Requests : now[r] <= clock
    /\ bucket \in Bucket \cup {NoBucket}
    /\ bucket = NoBucket => spent = 0

Potential ==
    bucket # NoBucket /\ spent > 0 =>
        spent + (bucket.tokens - bucket.updated) <= Capacity - From

IInv == BucketInv /\ DebtBound /\ Potential /\ RateBound

\* What a refill is and does: it is a bucket set to time n, not over its
\* capacity, and neither the debt nor the potential of the old one grows.
LEMMA RefillFacts ==
    ASSUME BucketInv, DebtBound, Potential, NEW n \in Nat, n <= clock
    PROVE  /\ Refilled(n) \in Bucket
           /\ Refilled(n).updated = n
           /\ Refilled(n).tokens <= Capacity
           /\ Refilled(n).tokens + (clock - n) >= 0
           /\ spent > 0 => spent + (Refilled(n).tokens - n) <= Capacity - From
<1> DEFINE b == IF bucket = NoBucket THEN [tokens |-> Capacity, updated |-> n] ELSE bucket
           t == b.tokens + (n - b.updated)
<1>1. /\ b \in Bucket /\ b.tokens \in Int /\ b.updated \in Nat
      /\ b.tokens + (clock - b.updated) >= 0
      /\ spent > 0 => spent + (b.tokens - b.updated) <= Capacity - From
  <2>1. CASE bucket = NoBucket
    BY <2>1, BucketAssumption DEF BucketInv, Bucket
  <2>2. CASE bucket # NoBucket
    BY <2>2 DEF BucketInv, DebtBound, Potential, Bucket
  <2> QED BY <2>1, <2>2
<1>2. Refilled(n) = [tokens |-> IF t < Capacity THEN t ELSE Capacity, updated |-> n]
  BY DEF Refilled
<1>3. clock \in Nat /\ spent \in Nat /\ Capacity \in Nat /\ From \in Nat
  BY BucketAssumption, IntervalAssumption DEF BucketInv
<1> HIDE DEF b
<1>4. t \in Int
  BY <1>1
<1>5. /\ Refilled(n).updated = n
      /\ Refilled(n).tokens = IF t < Capacity THEN t ELSE Capacity
      /\ Refilled(n) \in Bucket
  BY <1>2, <1>3, <1>4 DEF Bucket
<1> QED BY <1>1, <1>3, <1>5

\* A step that leaves the bucket and the clock alone leaves IInv alone.
LEMMA BucketUntouched ==
    ASSUME IInv, now' \in [Requests -> Nat], \A r \in Requests : now'[r] <= clock,
           UNCHANGED <<clock, bucket, spent>>
    PROVE  IInv'
BY DEF IInv, BucketInv, DebtBound, Potential, RateBound

\* IInv holds at first and is kept by every step.
THEOREM Invariance == Spec => []IInv
<1>1. Init => IInv
  BY IntervalAssumption, BucketAssumption
     DEF Init, IInv, BucketInv, DebtBound, Potential, RateBound
<1>2. IInv /\ [Next]_vars => IInv'
  <2> SUFFICES ASSUME IInv, [Next]_vars PROVE IInv'
    OBVIOUS
  <2> USE DEF IInv
  <2>1. CASE Tick
    BY <2>1 DEF Tick, BucketInv, DebtBound, Potential, RateBound, Bucket
  <2>2. ASSUME NEW r \in Requests, Arrive(r) PROVE IInv'
    <3>1. now' \in [Requests -> Nat] /\ \A q \in Requests : now'[q] <= clock
      BY <2>2 DEF Arrive, BucketInv
    <3> QED BY <3>1, <2>2, BucketUntouched DEF Arrive
  <2>3. ASSUME NEW r \in Requests, Admit(r) PROVE IInv'
    <3> DEFINE n == now[r]
               b == Refilled(n)
    <3>0. n \in Nat /\ n <= clock
      BY DEF BucketInv
    <3>1. /\ b \in Bucket /\ b.updated = n /\ b.tokens <= Capacity
          /\ b.tokens + (clock - n) >= 0
          /\ spent > 0 => spent + (b.tokens - n) <= Capacity - From
      BY <3>0, RefillFacts
    <3>2. /\ b.tokens >= Cost /\ bucket' = [b EXCEPT !.tokens = @ - Cost]
          /\ spent' = IF n \in From..To THEN spent + Cost ELSE spent
          /\ UNCHANGED <<clock, now>>
      BY <2>3 DEF Admit
    <3> HIDE DEF n, b
    <3>3. /\ clock \in Nat /\ spent \in Nat /\ Capacity \in Nat /\ From \in Nat /\ To \in Nat
          /\ Cost \in Nat /\ Cost > 0 /\ b.tokens \in Int
      BY <3>1, BucketAssumption, IntervalAssumption DEF BucketInv, Bucket
    <3>4. /\ bucket' \in Bucket /\ bucket'.updated = n
          /\ bucket'.tokens = b.tokens - Cost
      BY <3>0, <3>1, <3>2, <3>3 DEF Bucket
    <3>5. bucket' # NoBucket
      BY <3>4, NoBucketAssumption
    <3>6. BucketInv'
      BY <3>2, <3>3, <3>4, <3>5 DEF BucketInv
    <3>7. DebtBound'
      BY <3>0, <3>1, <3>2, <3>3, <3>4 DEF DebtBound
    <3>8. CASE n \in From..To
      <4>1. spent' + (bucket'.tokens - bucket'.updated) <= Capacity - From
        BY <3>8, <3>0, <3>1, <3>2, <3>3, <3>4
      <4>2. spent' <= Capacity + (To - From)
        BY <4>1, <3>8, <3>0, <3>2, <3>3, <3>4
      <4> QED BY <3>6, <3>7, <4>1, <4>2 DEF Potential, RateBound
    <3>9. CASE n \notin From..To
      <4>1. spent' = spent
        BY <3>9, <3>2
      <4>2. spent > 0 => spent' + (bucket'.tokens - bucket'.updated) <= Capacity - From
        BY <4>1, <3>0, <3>1, <3>3, <3>4
      <4> QED BY <3>6, <3>7, <4>1, <4>2 DEF Potential, RateBound
    <3> QED BY <3>8, <3>9
  <2>4. ASSUME NEW r \in Requests, Refuse(r) PROVE IInv'
    <3>0. now[r] \in Nat /\ now[r] <= clock
      BY DEF BucketInv
    <3>1. UNCHANGED <<clock, now, spent>> /\ bucket' = Refilled(now[r])
      BY <2>4 DEF Refuse
    <3>2. /\ bucket' \in Bucket /\ bucket'.updated = now[r] /\ bucket'.tokens <= Capacity
          /\ bucket'.tokens + (clock - now[r]) >= 0
          /\ spent > 0 => spent + (bucket'.tokens - now[r]) <= Capacity - From
      BY <3>0, <3>1, RefillFacts
    <3>3. bucket' # NoBucket
      BY <3>2, NoBucketAssumption
    <3>4. BucketInv' /\ DebtBound' /\ Potential'
      BY <3>1, <3>2, <3>3 DEF BucketInv, DebtBound, Potential
    <3> QED BY <3>1, <3>4 DEF RateBound
  <2>5. ASSUME NEW r \in Requests,
               IsBlocked(r) \/ RecordFailure(r) \/ Succeed(r) \/ VerifyRaises(r)
        PROVE IInv'
    <3>1. now' \in [Requests -> Nat] /\ \A q \in Requests : now'[q] <= clock
      BY <2>5 DEF IsBlocked, RecordFailure, Succeed, VerifyRaises, BucketInv
    <3>2. UNCHANGED <<clock, bucket, spent>>
      BY <2>5 DEF IsBlocked, RecordFailure, Succeed, VerifyRaises
    <3> QED BY <3>1, <3>2, BucketUntouched
  <2>6. CASE UNCHANGED vars
    BY <2>6, BucketUntouched DEF vars, BucketInv
  <2> QED BY <2>1, <2>2, <2>3, <2>4, <2>5, <2>6 DEF Next, Request
<1> QED BY <1>1, <1>2, PTL DEF Spec

\* Any interval of time lets at most a full bucket and its own refill through,
\* although the threads read the clock outside the lock (ratelimit.py:34-45).
THEOREM RateBounded == Spec => []RateBound
<1>1. IInv => RateBound
  BY DEF IInv
<1> QED BY <1>1, Invariance, PTL

\* The bucket stays within its capacity, and in debt only by what a late time
\* has set it back (ratelimit.py:40-41).
THEOREM DebtBounded == Spec => []DebtBound
<1>1. IInv => DebtBound
  BY DEF IInv
<1> QED BY <1>1, Invariance, PTL
-----------------------------------------------------------------------------
(* The window of failures. At each moment `failures` is what a filter of    *)
(* some earlier time has left of all failures since the last success; the   *)
(* one login that is being verified has found fewer than MaxFailures there. *)

Young(n) == {t \in Nat : n - t < Window}

\* All failures, in their order.
FailedInv ==
    /\ failed \in Seq(Nat)
    /\ \A i \in 1..Len(failed) : failed[i] <= clock
    /\ \A i, j \in 1..Len(failed) : i <= j => failed[i] <= failed[j]

\* What LoginGuard has kept of them.
KeptInv == \E m \in 0..clock : failures = Filtered(failed, Young(m))

\* The login on the event loop.
VerifyInv ==
    /\ \A r, q \in Requests : pos[r] = "verify" /\ pos[q] = "verify" => r = q
    /\ \A r \in Requests : pos[r] = "verify" =>
          failures = Filtered(failed, Young(now[r])) /\ Len(failures) < MaxFailures

GuardInv ==
    /\ pos \in [Requests -> {"idle", "timed", "admitted", "verify"}]
    /\ FailedInv /\ KeptInv /\ VerifyInv /\ FailureBound

\* A time of the past has less before its window than the present.
LEMMA Older ==
    ASSUME NEW m \in Nat, NEW n \in Nat, m <= n
    PROVE  Young(m) \cap Young(n) = Young(n)
BY GuardAssumption DEF Young

\* What a guard keeps now does not depend on what it has thrown away before.
LEMMA RecentFacts ==
    ASSUME BucketInv, FailedInv, KeptInv
    PROVE  Recent(clock) = Filtered(failed, Young(clock)) /\ Recent(clock) \in Seq(Nat)
<1>1. PICK m \in 0..clock : failures = Filtered(failed, Young(m))
  BY DEF KeptInv
<1>2. m \in Nat /\ clock \in Nat /\ m <= clock
  BY DEF BucketInv
<1>3. Filtered(Filtered(failed, Young(m)), Young(clock)) = Filtered(failed, Young(m) \cap Young(clock))
  BY FilteredTwice DEF FailedInv
<1>4. failures \in Seq(Nat)
  BY <1>1, FilteredType DEF FailedInv
<1>5. Recent(clock) = Filtered(failures, Young(clock))
  <2> DEFINE K == {x \in {failures[i] : i \in DOMAIN failures} : clock - x < Window}
  <2>1. Recent(clock) = Filtered(failures, K)
    BY DEF Recent, Selected
  <2>2. Range(failures) = {failures[i] : i \in DOMAIN failures} /\ Range(failures) \subseteq Nat
    BY <1>4, RangeOfSeq DEF Range
  <2>3. Range(failures) \cap K = Range(failures) \cap Young(clock)
    BY <2>2 DEF Young
  <2> QED BY <1>4, <2>1, <2>3, FilteredSame
<1>6. Recent(clock) = Filtered(failed, Young(clock))
  BY <1>1, <1>2, <1>3, <1>5, Older
<1> QED BY <1>6, FilteredType DEF FailedInv

\* A step that moves no login into or out of verify_password, and records nothing.
LEMMA GuardUntouched ==
    ASSUME BucketInv, GuardInv, UNCHANGED <<failures, failed>>, clock' \in Nat, clock <= clock',
           pos' \in [Requests -> {"idle", "timed", "admitted", "verify"}],
           \A r \in Requests : pos'[r] = "verify" => pos[r] = "verify" /\ now'[r] = now[r]
    PROVE  GuardInv'
<1>1. FailedInv' /\ FailureBound'
  BY DEF GuardInv, BucketInv, FailedInv, FailureBound
<1>2. KeptInv'
  <2>1. PICK m \in 0..clock : failures = Filtered(failed, Young(m))
    BY DEF GuardInv, KeptInv
  <2>2. m \in 0..clock'
    BY DEF BucketInv
  <2> QED BY <2>1, <2>2 DEF KeptInv, Young
<1>3. VerifyInv'
  BY DEF GuardInv, VerifyInv, Young
<1> QED BY <1>1, <1>2, <1>3 DEF GuardInv

\* is_blocked: whoever goes on has the event loop for itself, and has seen fewer
\* than MaxFailures failures in its window.
LEMMA IsBlockedKeeps ==
    ASSUME BucketInv, GuardInv, NEW r \in Requests, IsBlocked(r)
    PROVE  GuardInv'
<1>1. /\ failures' = Filtered(failed, Young(clock)) /\ failures' \in Seq(Nat)
      /\ now' = [now EXCEPT ![r] = clock] /\ UNCHANGED <<clock, failed>>
      /\ \A q \in Requests : pos[q] # "verify"
  BY RecentFacts DEF IsBlocked, LoopFree, GuardInv
<1>2. \/ pos' = [pos EXCEPT ![r] = "idle"]
      \/ pos' = [pos EXCEPT ![r] = "verify"] /\ ~(Len(failures') >= MaxFailures)
  BY DEF IsBlocked, At
<1>3. FailedInv' /\ FailureBound'
  BY <1>1 DEF GuardInv, FailedInv, FailureBound
<1>4. KeptInv'
  <2>1. clock \in 0..clock'
    BY <1>1 DEF BucketInv
  <2> QED BY <1>1, <2>1 DEF KeptInv, Young
<1>5. now'[r] = clock
  BY <1>1 DEF BucketInv
<1>6. Len(failures') \in Nat
  BY <1>1, LenProperties
<1>7. VerifyInv'
  <2>1. CASE pos' = [pos EXCEPT ![r] = "idle"]
    <3>1. \A q \in Requests : pos'[q] # "verify"
      BY <1>1, <2>1 DEF GuardInv
    <3> QED BY <3>1 DEF VerifyInv
  <2>2. CASE pos' = [pos EXCEPT ![r] = "verify"] /\ ~(Len(failures') >= MaxFailures)
    <3>1. \A q \in Requests : pos'[q] = "verify" => q = r
      BY <1>1, <2>2 DEF GuardInv
    <3>2. Len(failures') < MaxFailures
      BY <1>6, <2>2, GuardAssumption
    <3>3. failures' = Filtered(failed', Young(now'[r]))
      BY <1>1, <1>5
    <3> QED BY <3>1, <3>2, <3>3 DEF VerifyInv, Young
  <2> QED BY <1>2, <2>1, <2>2
<1>8. pos' \in [Requests -> {"idle", "timed", "admitted", "verify"}]
  BY <1>2 DEF GuardInv
<1> QED BY <1>3, <1>4, <1>7, <1>8 DEF GuardInv

\* record_failure: the failure MaxFailures before this one is out of the window,
\* for the guard would have found all those from it on.
LEMMA RecordFailureKeeps ==
    ASSUME BucketInv, GuardInv, NEW r \in Requests, RecordFailure(r)
    PROVE  GuardInv'
<1> DEFINE N == Len(failed)
<1>1. /\ failures' = Append(Recent(clock), clock) /\ failed' = Append(failed, clock)
      /\ pos[r] = "verify" /\ pos' = [pos EXCEPT ![r] = "idle"]
      /\ UNCHANGED <<clock, now>>
  BY DEF RecordFailure, At
<1>2. Recent(clock) = Filtered(failed, Young(clock))
  BY RecentFacts DEF GuardInv
<1>3. /\ failed \in Seq(Nat) /\ clock \in Nat /\ N \in Nat /\ now[r] \in Nat /\ now[r] <= clock
      /\ failed' \in Seq(Nat) /\ Len(failed') = N + 1 /\ failed'[N + 1] = clock
      /\ \A i \in 1..N : failed'[i] = failed[i] /\ failed[i] \in Nat
  BY <1>1, AppendProperties, LenProperties, ElementOfSeq DEF GuardInv, FailedInv, BucketInv
<1>4. FailedInv'
  <2>1. /\ \A i \in 1..N : failed[i] <= clock
        /\ \A i, j \in 1..N : i <= j => failed[i] <= failed[j]
    BY DEF GuardInv, FailedInv
  <2> HIDE DEF N
  <2>2. \A i \in 1..N + 1 : i \in 1..N \/ i = N + 1
    BY <1>3
  <2>3. \A i \in 1..N + 1 : failed'[i] <= clock'
    BY <1>1, <1>3, <2>1, <2>2
  <2>4. \A i, j \in 1..N + 1 : i <= j => failed'[i] <= failed'[j]
    BY <1>1, <1>3, <2>1, <2>2
  <2> QED BY <1>3, <2>3, <2>4 DEF FailedInv
<1>5. KeptInv'
  <2>1. clock \in Young(clock)
    BY <1>3, GuardAssumption DEF Young
  <2>2. Filtered(Append(failed, clock), Young(clock)) = Append(Filtered(failed, Young(clock)), clock)
    BY <1>3, <2>1, FilteredIn
  <2>3. clock \in 0..clock'
    BY <1>1, <1>3
  <2> QED BY <1>1, <1>2, <2>2, <2>3 DEF KeptInv, Young
<1>6. VerifyInv'
  BY <1>1 DEF GuardInv, VerifyInv
<1>7. ASSUME NEW i \in 1..(N + 1 - MaxFailures)
      PROVE  failed'[i + MaxFailures] - failed'[i] >= Window
  <2>1. MaxFailures \in Nat /\ MaxFailures > 0 /\ Window \in Nat
    BY GuardAssumption
  <2>0. N \in Nat /\ i \in Nat
    BY <1>3
  <2> HIDE DEF N
  <2>2. /\ i \in 1..N /\ failed'[i] = failed[i] /\ failed[i] \in Nat
    BY <1>3, <2>1
  <2>3. CASE i + MaxFailures <= N
    <3>1. i + MaxFailures \in 1..N /\ i \in 1..(N - MaxFailures)
      BY <1>3, <2>1, <2>3
    <3>2. failed[i + MaxFailures] - failed[i] >= Window
      BY <3>1 DEF GuardInv, FailureBound, N
    <3> QED BY <1>3, <2>2, <3>1, <3>2
  <2>4. CASE i + MaxFailures = N + 1
    <3>0. failed'[i + MaxFailures] = clock
      BY <1>3, <2>4
    <3>1. SUFFICES ASSUME ~(clock - failed[i] >= Window) PROVE FALSE
      BY <2>2, <3>0
    <3>2. \A j \in i..N : failed[j] \in Nat /\ failed[i] <= failed[j]
      <4>1. \A j \in i..N : j \in 1..N /\ i <= j
        BY <2>0, <2>2
      <4>2. \A j, k \in 1..N : j <= k => failed[j] <= failed[k]
        BY DEF GuardInv, FailedInv, N
      <4> QED BY <1>3, <2>2, <4>1, <4>2
    <3>3. \A j \in i..N : failed[j] \in Young(now[r])
      <4> SUFFICES ASSUME NEW j \in i..N PROVE failed[j] \in Young(now[r])
        OBVIOUS
      <4>1. failed[j] \in Nat /\ failed[i] <= failed[j] /\ failed[i] \in Nat
        BY <2>2, <3>2
      <4>2. clock \in Nat /\ now[r] \in Nat /\ now[r] <= clock
        BY <1>3
      <4>3. now[r] - failed[j] < Window
        BY <2>1, <3>1, <4>1, <4>2
      <4> QED BY <4>1, <4>3 DEF Young
    <3>4. Len(Filtered(failed, Young(now[r]))) >= N - i + 1
      BY <1>3, <2>2, <3>3, FilteredEnd DEF N
    <3>5. Len(failures) < MaxFailures /\ failures = Filtered(failed, Young(now[r]))
      BY <1>1 DEF GuardInv, VerifyInv
    <3>6. Len(failures) \in Nat
      BY <1>3, <3>5, FilteredType, LenProperties
    <3> QED BY <1>3, <2>1, <2>4, <3>4, <3>5, <3>6
  <2>5. i + MaxFailures <= N \/ i + MaxFailures = N + 1
    BY <1>3, <2>1
  <2> QED BY <2>3, <2>4, <2>5
<1>8. FailureBound'
  <2>1. Len(failed') = N + 1 /\ N \in Nat /\ MaxFailures \in Nat
    BY <1>3, GuardAssumption
  <2> HIDE DEF N
  <2> QED BY <1>7, <2>1 DEF FailureBound
<1>9. pos' \in [Requests -> {"idle", "timed", "admitted", "verify"}]
  BY <1>1 DEF GuardInv
<1> QED BY <1>4, <1>5, <1>6, <1>8, <1>9 DEF GuardInv

\* reset: there is nothing to remember.
LEMMA SucceedKeeps ==
    ASSUME BucketInv, GuardInv, NEW r \in Requests, Succeed(r)
    PROVE  GuardInv'
<1>1. /\ failures' = <<>> /\ failed' = <<>>
      /\ pos[r] = "verify" /\ pos' = [pos EXCEPT ![r] = "idle"]
      /\ UNCHANGED <<clock, now>>
  BY DEF Succeed, At
<1>2. <<>> \in Seq(Nat) /\ Len(<<>>) = 0
  BY EmptySeq
<1>3. FailedInv' /\ FailureBound'
  BY <1>1, <1>2, GuardAssumption DEF FailedInv, FailureBound
<1>4. KeptInv'
  <2>1. 0 \in 0..clock'
    BY <1>1 DEF BucketInv
  <2>2. Filtered(<<>>, Young(0)) = <<>>
    BY FilteredEmpty
  <2> QED BY <1>1, <2>1, <2>2 DEF KeptInv, Young
<1>5. VerifyInv' /\ pos' \in [Requests -> {"idle", "timed", "admitted", "verify"}]
  BY <1>1 DEF GuardInv, VerifyInv
<1> QED BY <1>3, <1>4, <1>5 DEF GuardInv

\* GuardInv holds at first and is kept by every step.
THEOREM Guarded == Spec => []GuardInv
<1>1. Init => GuardInv
  <2> SUFFICES ASSUME Init PROVE GuardInv
    OBVIOUS
  <2>1. /\ clock = 0 /\ failures = <<>> /\ failed = <<>>
        /\ pos = [r \in Requests |-> "idle"]
    BY DEF Init
  <2>2. <<>> \in Seq(Nat) /\ Len(<<>>) = 0 /\ Filtered(<<>>, Young(0)) = <<>>
    BY EmptySeq, FilteredEmpty
  <2>3. FailedInv /\ FailureBound
    BY <2>1, <2>2, GuardAssumption DEF FailedInv, FailureBound
  <2>4. KeptInv /\ VerifyInv
    BY <2>1, <2>2 DEF KeptInv, VerifyInv
  <2> QED BY <2>1, <2>3, <2>4 DEF GuardInv
<1>2. IInv /\ IInv' /\ GuardInv /\ [Next]_vars => GuardInv'
  <2> SUFFICES ASSUME IInv, IInv', GuardInv, [Next]_vars PROVE GuardInv'
    OBVIOUS
  <2>0. BucketInv /\ BucketInv'
    BY DEF IInv
  <2> USE <2>0
  <2>1. CASE Tick
    BY <2>1, GuardUntouched DEF Tick, BucketInv, GuardInv
  <2>2. ASSUME NEW r \in Requests, Arrive(r) \/ Admit(r) \/ Refuse(r) \/ VerifyRaises(r)
        PROVE  GuardInv'
    <3>1. UNCHANGED <<clock, failures, failed>> /\ \A q \in Requests \ {r} : now'[q] = now[q]
      BY <2>2 DEF Arrive, Admit, Refuse, VerifyRaises, BucketInv
    <3>2. \E p \in {"idle", "timed", "admitted"} : pos' = [pos EXCEPT ![r] = p]
      BY <2>2 DEF Arrive, Admit, Refuse, VerifyRaises, At
    <3>3. /\ pos' \in [Requests -> {"idle", "timed", "admitted", "verify"}]
          /\ \A q \in Requests : pos'[q] = "verify" => pos[q] = "verify" /\ q # r
      BY <3>2 DEF GuardInv
    <3>4. clock' \in Nat /\ clock <= clock'
      BY <3>1 DEF BucketInv
    <3> QED BY <3>1, <3>3, <3>4, GuardUntouched
  <2>3. ASSUME NEW r \in Requests, IsBlocked(r) PROVE GuardInv'
    BY <2>3, IsBlockedKeeps
  <2>4. ASSUME NEW r \in Requests, RecordFailure(r) PROVE GuardInv'
    BY <2>4, RecordFailureKeeps
  <2>5. ASSUME NEW r \in Requests, Succeed(r) PROVE GuardInv'
    BY <2>5, SucceedKeeps
  <2>6. CASE UNCHANGED vars
    BY <2>6, GuardUntouched DEF vars, BucketInv, GuardInv
  <2> QED BY <2>1, <2>2, <2>3, <2>4, <2>5, <2>6 DEF Next, Request
<1> QED BY <1>1, <1>2, Invariance, PTL DEF Spec

\* The lists and counters are what they are meant to be.
THEOREM TypeCorrect == Spec => []TypeOK
<1>1. IInv /\ GuardInv => TypeOK
  <2> SUFFICES ASSUME IInv, GuardInv PROVE TypeOK
    OBVIOUS
  <2>1. failed \in Seq(Nat) /\ failures \in Seq(Nat)
    BY FilteredType DEF GuardInv, FailedInv, KeptInv
  <2> QED BY <2>1 DEF IInv, BucketInv, GuardInv, TypeOK
<1> QED BY <1>1, Invariance, Guarded, PTL

\* No interleaving of logins tries more than MaxFailures passwords within a
\* window without one that is right (ratelimit.py:83-88).
THEOREM GuessesBounded == Spec => []FailureBound
<1>1. GuardInv => FailureBound
  BY DEF GuardInv
<1> QED BY <1>1, Guarded, PTL
=============================================================================
