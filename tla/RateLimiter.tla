----------------------------- MODULE RateLimiter -----------------------------
(***************************************************************************)
(* The token bucket that holds back the requests of one HttpClient:        *)
(* createRateLimitInterceptor in src/transport/interceptors.ts.            *)
(*                                                                         *)
(* The global bucket lives in variables that a request copies and writes   *)
(* back when it goes on; an operation with an override has a bucket object *)
(* that its requests share.  Time goes by in ticks; a token takes Cost     *)
(* ticks to fill, and a bucket counts what it holds in ticks.              *)
(***************************************************************************)
EXTENDS Naturals

CONSTANTS
    Request,   \* the calls that can be under way at once
    Max,       \* max_requests_per_minute
    Cost,      \* the ticks a token takes: a minute has Max * Cost
    MaxTime    \* bound on the clock, when no timer is set

ASSUME LimiterAssumption ==
    Max \in Nat \ {0} /\ Cost \in Nat \ {0} /\ MaxTime \in Nat

VARIABLES
    now,      \* the clock
    bucket,   \* the buckets: tokens, lastRefill
    call,     \* the requests
    due       \* bucket -> what went on beyond a flow of twice the rate, and when

limiter == <<now, bucket, call, due>>

----------------------------------------------------------------------------
Bucket == {"global", "endpoint"}
Full == Max * Cost
Filling == [tokens : 0 .. Full, lastRefill : Nat]

Call == [at : {"idle", "sleeping"}, from : Bucket, start : Nat, until : Nat]
Idle == [at |-> "idle", from |-> "global", start |-> 0, until |-> 0]

LimiterInit ==
    /\ now = 0
    /\ bucket = [b \in Bucket |-> [tokens |-> Full, lastRefill |-> 0]]
    /\ call = [r \in Request |-> Idle]
    /\ due = [b \in Bucket |-> [owed |-> 0, since |-> 0]]

\* What bucket b holds once it is refilled, to the brim at most.
Refilled(b) ==
    LET t == bucket[b].tokens + (now - bucket[b].lastRefill) IN
    IF t < Full THEN t ELSE Full

\* A request of bucket b goes on: its cost is due, and so is what is left of
\* that of the ones before it, at twice the rate.
Flowed(b) == 2 * (now - due[b].since)
Left(b) == IF due[b].owed > Flowed(b) THEN due[b].owed - Flowed(b) ELSE 0
GoesOn(b) == due' = [due EXCEPT ![b] = [owed |-> Left(b) + Cost, since |-> now]]

\* A token is there: the request takes it and goes on.
PassUnstamped(r, b) ==
    /\ call[r].at = "idle" /\ Refilled(b) >= Cost
    /\ bucket' = [bucket EXCEPT ![b].tokens = Refilled(b) - Cost]
    /\ GoesOn(b)
    /\ UNCHANGED <<now, call>>
Pass(r, b) ==
    /\ call[r].at = "idle" /\ Refilled(b) >= Cost
    /\ bucket' = [bucket EXCEPT ![b] = [tokens |-> Refilled(b) - Cost, lastRefill |-> now]]
    /\ GoesOn(b)
    /\ UNCHANGED <<now, call>>

\* None is: the request sleeps until one would be.  Only a shared bucket has
\* the refill by now; of the global one it is in the request's copy.
Sleep(r, b) ==
    /\ call[r].at = "idle" /\ Refilled(b) < Cost
    /\ bucket' = IF b = "global" THEN bucket
                 ELSE [bucket EXCEPT ![b] = [tokens |-> Refilled(b), lastRefill |-> now]]
    /\ call' = [call EXCEPT ![r] = [at |-> "sleeping", from |-> b, start |-> now,
                                    until |-> now + (Cost - Refilled(b))]]
    /\ UNCHANGED <<now, due>>

\* The timer fires, perhaps late: the bucket is emptied.  lastRefill of the
\* copy is the time the sleep began; the shared one has the latest such time.
Wake(r) ==
    LET b == call[r].from IN
    /\ call[r].at = "sleeping" /\ now >= call[r].until
    /\ bucket' = [bucket EXCEPT ![b] = [tokens |-> 0,
           lastRefill |-> IF b = "global" THEN call[r].start ELSE bucket[b].lastRefill]]
    /\ call' = [call EXCEPT ![r] = Idle]
    /\ GoesOn(b)
    /\ UNCHANGED now

Tick ==
    /\ now < MaxTime \/ \E r \in Request : call[r].at = "sleeping" /\ now < call[r].until
    /\ now' = now + 1
    /\ UNCHANGED <<bucket, call, due>>

----------------------------------------------------------------------------
(* Properties *)

\* The state is of its types: no bucket holds more than a minute's tokens,
\* and none has been refilled in the future.
LimiterTypeOK ==
    /\ now \in Nat /\ bucket \in [Bucket -> Filling]
    /\ \A b \in Bucket : bucket[b].lastRefill <= now /\ due[b].since <= now
    /\ call \in [Request -> Call] /\ due \in [Bucket -> [owed : Nat, since : Nat]]

\* Requests one after the other go on at no more than twice the rate, and a
\* burst is of one over the bucket at most: the time one sleeps is credited a
\* second time when the next is refilled, but no third time
\* (createRateLimitInterceptor, "Allows bursts while enforcing average rate").
TwiceTheRate == \A b \in Bucket : due[b].owed <= Full + Cost
=============================================================================
