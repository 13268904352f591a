--------------------------- MODULE LoginThrottle ---------------------------
(***************************************************************************)
(* The two gates in front of POST /auth/login for one client address: the  *)
(* token bucket (app/core/ratelimit.py, TokenBucketLimiter), a dependency  *)
(* that runs in the threadpool, and the window of failures (LoginGuard),   *)
(* which the `async def` handler consults on the event loop.               *)
(*                                                                         *)
(* The bucket reads the clock BEFORE it takes its lock, so the times it is *)
(* updated with need not be in order. Tokens are counted in the amount one *)
(* tick of the clock refills, so that a request costs Cost of them; the    *)
(* rounding of floats is left out. Every other rate_limit(...) endpoint    *)
(* has a bucket of its own with other parameters.                          *)
(***************************************************************************)
EXTENDS Integers, Sequences, Lists

CONSTANTS
    Requests,     \* requests in flight; a request that is answered is reused
    Capacity,     \* capacity of the bucket, in refills of one tick
    Cost,         \* cost of a request, in refills of one tick
    MaxFailures,  \* LoginGuard.max_failures
    Window,       \* LoginGuard.window_sec, in ticks
    NoBucket,     \* the key has no bucket yet
    From, To,     \* any interval of time, for `spent`
    MaxClock      \* bound on the clock

ASSUME BucketAssumption == Capacity \in Nat /\ Cost \in Nat \ {0}
ASSUME GuardAssumption  == MaxFailures \in Nat \ {0} /\ Window \in Nat \ {0}
ASSUME IntervalAssumption == From \in Nat /\ To \in Nat /\ From <= To
ASSUME BoundAssumption  == MaxClock \in Nat

Bucket == [tokens : Int, updated : Nat]
ASSUME NoBucketAssumption == NoBucket \notin Bucket

VARIABLES
    clock,        \* time.monotonic()
    pos,          \* [Requests -> position of the request]
    now,          \* [Requests -> the time it has read]
    bucket,       \* the bucket of the address
    failures,     \* LoginGuard._failures of the address
    spent,        \* history: cost admitted at times in From..To
    failed        \* history: times of all failures since the last success

vars == <<clock, pos, now, bucket, failures, spent, failed>>

TypeOK ==
    /\ clock \in Nat
    /\ pos \in [Requests -> {"idle", "timed", "admitted", "verify"}]
    /\ now \in [Requests -> Nat]
    /\ bucket \in Bucket \cup {NoBucket}
    /\ failures \in Seq(Nat) /\ failed \in Seq(Nat)
    /\ spent \in Nat

Init ==
    /\ clock = 0
    /\ pos = [r \in Requests |-> "idle"]
    /\ now = [r \in Requests |-> 0]
    /\ bucket = NoBucket
    /\ failures = <<>> /\ failed = <<>>
    /\ spent = 0

At(r, here, there) == pos[r] = here /\ pos' = [pos EXCEPT ![r] = there]
-----------------------------------------------------------------------------
(* TokenBucketLimiter.allow, in a thread of the pool.                      *)

\* now = time.monotonic(), without the lock.
Arrive(r) ==
    /\ At(r, "idle", "timed")
    /\ now' = [now EXCEPT ![r] = clock]
    /\ UNCHANGED <<clock, bucket, failures, spent, failed>>

\* Mutant: the bucket is refilled without the bound of its capacity.
RefilledUnbounded(n) ==
    LET b == IF bucket = NoBucket THEN [tokens |-> Capacity, updated |-> n] ELSE bucket
    IN  [tokens |-> b.tokens + (n - b.updated), updated |-> n]

\* A bucket is created full. A time before `updated` takes tokens away again.
Refilled(n) ==
    LET b     == IF bucket = NoBucket THEN [tokens |-> Capacity, updated |-> n] ELSE bucket
        total == b.tokens + (n - b.updated)
    IN  [tokens |-> IF total < Capacity THEN total ELSE Capacity, updated |-> n]

\* Under the lock.
Admit(r) ==
    /\ At(r, "timed", "admitted")
    /\ Refilled(now[r]).tokens >= Cost
    /\ bucket' = [Refilled(now[r]) EXCEPT !.tokens = @ - Cost]
    /\ spent' = IF now[r] \in From..To THEN spent + Cost ELSE spent
    /\ UNCHANGED <<clock, now, failures, failed>>

\* Mutant: the cost is taken before the comparison.
RefuseCharging(r) ==
    /\ At(r, "timed", "idle")
    /\ Refilled(now[r]).tokens < Cost
    /\ bucket' = [Refilled(now[r]) EXCEPT !.tokens = @ - Cost]
    /\ UNCHANGED <<clock, now, failures, spent, failed>>

\* 429. The refill is kept.
Refuse(r) ==
    /\ At(r, "timed", "idle")
    /\ Refilled(now[r]).tokens < Cost
    /\ bucket' = Refilled(now[r])
    /\ UNCHANGED <<clock, now, failures, spent, failed>>
-----------------------------------------------------------------------------
(* login(), whose body holds no await: from is_blocked to its end no other *)
(* login runs, but the query and the password hash take time.              *)

LoopFree == \A r \in Requests : pos[r] # "verify"

Recent(n) == Selected(failures, LAMBDA t : n - t < Window)

\* Mutant: the handler is a plain `def`, run in the threadpool.
IsBlockedInPool(r) ==
    /\ failures' = Recent(clock)
    /\ now' = [now EXCEPT ![r] = clock]
    /\ IF Len(failures') >= MaxFailures THEN At(r, "admitted", "idle")
                                        ELSE At(r, "admitted", "verify")
    /\ UNCHANGED <<clock, bucket, spent, failed>>

\* is_blocked: 429, or on to the query and verify_password.
IsBlocked(r) ==
    /\ LoopFree
    /\ failures' = Recent(clock)
    /\ now' = [now EXCEPT ![r] = clock]
    /\ IF Len(failures') >= MaxFailures THEN At(r, "admitted", "idle")
                                        ELSE At(r, "admitted", "verify")
    /\ UNCHANGED <<clock, bucket, spent, failed>>

\* Mutant: the start of the window is stored instead of the failure.
RecordFailureStart(r) ==
    /\ At(r, "verify", "idle")
    /\ failures' = Append(Recent(clock), clock - Window)
    /\ failed' = Append(failed, clock)
    /\ UNCHANGED <<clock, now, bucket, spent>>

\* Unknown name, disabled account or wrong password: 401.
RecordFailure(r) ==
    /\ At(r, "verify", "idle")
    /\ failures' = Append(Recent(clock), clock)
    /\ failed' = Append(failed, clock)
    /\ UNCHANGED <<clock, now, bucket, spent>>

\* 200: reset.
Succeed(r) ==
    /\ At(r, "verify", "idle")
    /\ failures' = <<>> /\ failed' = <<>>
    /\ UNCHANGED <<clock, now, bucket, spent>>

\* The query raises: 500, and nothing is recorded.
VerifyRaises(r) ==
    /\ At(r, "verify", "idle")
    /\ UNCHANGED <<clock, now, bucket, failures, spent, failed>>

Tick ==
    /\ clock < MaxClock
    /\ clock' = clock + 1
    /\ UNCHANGED <<pos, now, bucket, failures, spent, failed>>
-----------------------------------------------------------------------------
Request(r) ==
    \/ Arrive(r) \/ Admit(r) \/ Refuse(r)
    \/ IsBlocked(r) \/ RecordFailure(r) \/ Succeed(r) \/ VerifyRaises(r)

Next == Tick \/ \E r \in Requests : Request(r)

Spec == Init /\ [][Next]_vars
-----------------------------------------------------------------------------
\* However the threads overtake each other between reading the clock and taking
\* the lock, an interval of time lets no more through than a full bucket and
\* what the interval refills (ratelimit.py:23-26).
RateBound == spent <= Capacity + (To - From)

\* More than MaxFailures failures in a row take longer than the window: no
\* interleaving of logins gets another guess in (ratelimit.py:83-88).
FailureBound ==
    \A i \in 1..(Len(failed) - MaxFailures) : failed[i + MaxFailures] - failed[i] >= Window

\* The bucket is never over its capacity, and never in a lasting debt: a late
\* time may push its tokens below zero, but no further than the time it set
\* `updated` back to lies behind the clock, and the next request in time gets
\* that back (ratelimit.py:34-41).
DebtBound ==
    bucket # NoBucket =>
        /\ bucket.tokens <= Capacity
        /\ bucket.tokens + (clock - bucket.updated) >= 0
=============================================================================
