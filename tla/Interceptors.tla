----------------------------- MODULE Interceptors -----------------------------
(***************************************************************************)
(* The chain of src/transport/interceptors.ts with its rate limiter, for a *)
(* client that makes its calls one after the other: RetryChain is the call *)
(* under way, RateLimiter what the client's limiter has for it.  A replay  *)
(* is limited like the call itself; further attempts of the retry loop go  *)
(* past the limiter.                                                       *)
(***************************************************************************)
EXTENDS RetryChain, RateLimiter

VARIABLE operation   \* the bucket of the operation that is called

all == <<vars, limiter, operation>>

ASSUME OneCaller == \E r \in Request : Request = {r}

InterceptorsInit == Init /\ LimiterInit /\ operation \in Bucket

\* The limiter holds the call back, or lets it pass at once or after its sleep.
HeldBack ==
    /\ at = "limited"
    /\ \E r \in Request : Sleep(r, operation)
    /\ UNCHANGED <<vars, operation>>
LetPass ==
    /\ Admitted
    /\ \E r \in Request : Pass(r, operation) \/ Wake(r)
    /\ UNCHANGED operation

\* The call goes on.
GoesOnItsWay == Ends /\ UNCHANGED <<limiter, operation>>

TimePasses == Tick /\ UNCHANGED <<vars, operation>>

\* When a call is over the client makes another.
NextCall ==
    /\ at \in {"done", "failed"} /\ now < MaxTime
    /\ at' = "preparing" /\ level' = 0 /\ attempt' = [l \in Level |-> 1] /\ hops' = 0
    /\ fetches' = 0 /\ tokens' = 0 /\ logins' = 0
    /\ operation' \in Bucket
    /\ UNCHANGED limiter

InterceptorsNext == HeldBack \/ LetPass \/ GoesOnItsWay \/ TimePasses \/ NextCall

InterceptorsSpec == InterceptorsInit /\ [][InterceptorsNext]_all
=============================================================================
